---------------------------- MODULE MessageText ----------------------------
(***************************************************************************)
(* node/include/message.h and router/include/message.h: the text of the    *)
(* messages, character by character, because what std::stoi and std::setw  *)
(* make of it is the point.  A text is a sequence of characters; a digit   *)
(* is its value.                                                           *)
(*                                                                         *)
(* A data message has 32 characters: source id (3), MTI (4), TRACE (6),    *)
(* PAN (16), destination id (3).  An id message has 3.                     *)
(***************************************************************************)
EXTENDS Integers, Sequences, SequencesExt, FiniteSetsExt

Digits == 0 .. 9
MINUS == 10
PLUS == 11
BLANK == 12
LETTER == 13

NONE == -1
MSG_LEN == 32
ID_MESSAGE_SIZE == 3
DATA_MESSAGE_SIZE == 32
MAX_CLIENTS_COUNT == 999
FIRST_MTI == 2200
MTI_LIMIT == 10000

-----------------------------------------------------------------------------
\* std::stoi (external): blanks, a sign, digits, and anything after them.

Signs(text) ==
    LET start == Min({i \in 1 .. Len(text) + 1 :
                         i > Len(text) \/ text[i] # BLANK})
    IN [neg |-> start <= Len(text) /\ text[start] = MINUS,
        first |-> IF start <= Len(text) /\ text[start] \in {MINUS, PLUS}
                  THEN start + 1 ELSE start]

Numeral(text) ==
    LET first == Signs(text).first
        last == Max({i \in first - 1 .. Len(text) :
                        \A j \in first .. i : text[j] \in Digits})
    IN SubSeq(text, first, last)

\* stoi() does not throw std::invalid_argument.
IsNumber(text) == Numeral(text) # <<>>

stoi(text) ==
    LET n == FoldLeft(LAMBDA acc, d : 10 * acc + d, 0, Numeral(text))
    IN IF Signs(text).neg THEN -n ELSE n

\* What operator<< writes for a number (external).
Decimal(n) ==
    LET abs == IF n < 0 THEN -n ELSE n
        width == CHOOSE d \in 1 .. 9 :
                     10^d > abs /\ (d > 1 => 10^(d - 1) <= abs)
        digits == [i \in 1 .. width |-> (abs \div 10^(width - i)) % 10]
    IN IF n < 0 THEN <<MINUS>> \o digits ELSE digits

\* std::setw(w) with std::setfill('0') (external): the fill comes first, even
\* before a sign, and a longer text is not cut.
setw(w, n) ==
    [i \in 1 .. w - Len(Decimal(n)) |-> 0] \o Decimal(n)

\* The remainder of C++, which has the sign of the dividend (external).
Rem(a, b) == IF a >= 0 THEN a % b ELSE -((-a) % b)

-----------------------------------------------------------------------------
\* The router's Message

extract_src_id(msg) ==
    IF Len(msg) >= ID_MESSAGE_SIZE /\ IsNumber(msg) THEN stoi(msg) ELSE NONE

\* MUTANT of extract_dst_id: an offset of 28.
extract_dst_id_Off(msg) ==
    LET digits == SubSeq(msg, 29, Len(msg)) IN
    IF Len(msg) >= DATA_MESSAGE_SIZE /\ IsNumber(digits) THEN stoi(digits)
    ELSE NONE

extract_dst_id(msg) ==
    LET digits == SubSeq(msg, 30, Len(msg)) IN
    IF Len(msg) >= DATA_MESSAGE_SIZE /\ IsNumber(digits) THEN stoi(digits)
    ELSE NONE

-----------------------------------------------------------------------------
\* The node's Message

TRACE == <<1, 2, 3, 4, 5, 6>>
PAN == [i \in 1 .. 16 |-> 1]

buildIdMessage(id) == setw(3, id)

buildFirstMessage(src, dst) ==
    setw(3, src) \o <<2, 2, 0, 0>> \o TRACE \o PAN \o setw(3, dst)

Mti(msg) == SubSeq(msg, 4, 7)

\* One of the two calls of std::stoi throws, which ends the process.
processMessageThrows(id, msg) ==
    /\ Len(msg) = MSG_LEN
    /\ LET dst == SubSeq(msg, 30, 32) IN
       \/ ~ IsNumber(dst)
       \/ stoi(dst) = id /\ ~ IsNumber(Mti(msg))

\* MUTANT of processMessage: no % MTI_LIMIT.
processMessageNoWrap(id, msg) ==
    IF Len(msg) # MSG_LEN \/ stoi(SubSeq(msg, 30, 32)) # id THEN <<>>
    ELSE SubSeq(msg, 30, 32) \o setw(4, stoi(Mti(msg)) + 10)
             \o SubSeq(msg, 8, 29) \o SubSeq(msg, 1, 3)

processMessage(id, msg) ==
    IF Len(msg) # MSG_LEN \/ stoi(SubSeq(msg, 30, 32)) # id THEN <<>>
    ELSE SubSeq(msg, 30, 32) \o setw(4, Rem(stoi(Mti(msg)) + 10, MTI_LIMIT))
             \o SubSeq(msg, 8, 29) \o SubSeq(msg, 1, 3)
=============================================================================
