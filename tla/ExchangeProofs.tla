--------------------------- MODULE ExchangeProofs ---------------------------
(***************************************************************************)
(* For any ids, any MTI of a stranger and any number of replies: the       *)
(* message keeps its format, the router and the nodes read the same ids in *)
(* it, and a node's reply can always be answered.                          *)
(***************************************************************************)
EXTENDS Exchange, SequenceFacts

\* The text of a data message, made of its fields.
Join(src, mti, dst) == src \o mti \o TRACE \o PAN \o dst

\* The fields of a text, where router and nodes look for them.
Fields(s, src, mti, dst) ==
    /\ Len(s) = 32 /\ SubSeq(s, 1, 3) = src /\ SubSeq(s, 4, 7) = mti
    /\ SubSeq(s, 8, 29) = TRACE \o PAN /\ SubSeq(s, 30, 32) = dst
    /\ SubSeq(s, 8, 32) = (TRACE \o PAN) \o dst

\* The message names its sender and its addressee, its MTI has four characters,
\* is that of the conversation if a node began it, and is a number if a node
\* has written it; and an exception only comes before the first reply.
ExchangeInv ==
    /\ from \in Ids /\ to \in Ids /\ from # to
    /\ hops \in Nat
    /\ ended => hops = 0
    /\ \E mti \in Mtis :
          /\ text = Join(setw(3, from), mti, setw(3, to))
          /\ ~ stranger => mti = setw(4, (FIRST_MTI + 10 * hops) % MTI_LIMIT)
          /\ hops > 0 => IsNumber(mti)

-----------------------------------------------------------------------------
\* The middle of a concatenation.
LEMMA MiddleOfConcat ==
    ASSUME NEW V, NEW p \in Seq(V), NEW q \in Seq(V), NEW r \in Seq(V)
    PROVE  SubSeq(p \o q \o r, Len(p) + 1, Len(p) + Len(q)) = q
<1>1. PICK s, j, k :
          /\ s = p \o q \o r /\ j = Len(p) /\ k = Len(q)
      OBVIOUS
<1>2. /\ j \in Nat /\ k \in Nat /\ Len(r) \in Nat
      /\ \A i \in 1 .. k : q[i] \in V
      BY <1>1, LenProperties, ElementOfSeq
<1>3. /\ p \o q \in Seq(V) /\ Len(p \o q) = j + k
      /\ \A i \in 1 .. j + k : (p \o q)[i] = IF i <= j THEN p[i] ELSE q[i - j]
      BY <1>1, ConcatProperties
<1>4. \A i \in 1 .. (j + k) + Len(r) :
          s[i] = IF i <= j + k THEN (p \o q)[i] ELSE r[i - (j + k)]
      BY <1>1, <1>3, ConcatProperties
<1>5. /\ \A i \in 1 .. k : /\ (j + 1) + i - 1 \in 1 .. j + k
                           /\ (j + 1) + i - 1 \in 1 .. (j + k) + Len(r)
                           /\ (j + 1) + i - 1 <= j + k
                           /\ ~ ((j + 1) + i - 1 <= j)
                           /\ ((j + 1) + i - 1) - j = i
      /\ \A i \in j + 1 .. j + k : i - j \in 1 .. k /\ (j + 1) + (i - j) - 1 = i
      /\ (j + k) - (j + 1) + 1 = k
      BY <1>2
<1>6. \A i \in 1 .. k : s[(j + 1) + i - 1] = q[i]
      BY <1>3, <1>4, <1>5
<1>7. \A i \in j + 1 .. j + k : s[i] \in V
  <2> TAKE i \in j + 1 .. j + k
  <2>1. PICK h \in 1 .. k : (j + 1) + h - 1 = i
        BY <1>5
  <2> QED BY <1>2, <1>6, <2>1
<1>8. /\ SubSeq(s, j + 1, j + k) \in Seq(V)
      /\ Len(SubSeq(s, j + 1, j + k)) =
            IF j + 1 <= j + k THEN (j + k) - (j + 1) + 1 ELSE 0
      /\ \A i \in 1 .. (j + k) - (j + 1) + 1 :
            SubSeq(s, j + 1, j + k)[i] = s[(j + 1) + i - 1]
      BY <1>2, <1>7, SubSeqProperties
<1>9. Len(SubSeq(s, j + 1, j + k)) = k
      BY <1>2, <1>8
<1>10. SubSeq(s, j + 1, j + k) = q
      BY <1>1, <1>5, <1>6, <1>8, <1>9, SeqEqual
<1> QED BY <1>1, <1>10

\* The type and the length of a concatenation.
LEMMA ConcatType ==
    ASSUME NEW V, NEW p \in Seq(V), NEW q \in Seq(V)
    PROVE  p \o q \in Seq(V) /\ Len(p \o q) = Len(p) + Len(q)
BY ConcatProperties

\* Concatenation is associative.
LEMMA Regroup ==
    \A p, q, t \in Seq(Chars) : (p \o q) \o t = p \o (q \o t)
BY ConcatAssociative

\* Fields are sequences, and as long as they are declared.
LEMMA FieldType ==
    ASSUME NEW n \in Nat, NEW f \in [1 .. n -> Chars]
    PROVE  f \in Seq(Chars) /\ Len(f) = n
<1>1. f \in Seq(Chars)
      BY FunctionIsSeq
<1>2. Len(f) \in Nat /\ DOMAIN f = 1 .. Len(f) /\ DOMAIN f = 1 .. n
      BY <1>1, LenProperties
<1> QED BY <1>1, <1>2

\* TRACE and PAN
LEMMA BodyType ==
    /\ TRACE \in Seq(Chars) /\ Len(TRACE) = 6 /\ PAN \in Seq(Chars) /\ Len(PAN) = 16
    /\ TRACE \o PAN \in Seq(Chars) /\ Len(TRACE \o PAN) = 22
<1>1. TRACE \in Seq(Chars) /\ Len(TRACE) = 6
      BY DEF TRACE, Chars, Digits
<1>2. PAN \in Seq(Chars) /\ Len(PAN) = 16
  <2>1. PAN \in [1 .. 16 -> Chars]
        BY DEF PAN, Chars, Digits
  <2> QED BY <2>1, FieldType
<1>3. TRACE \o PAN \in Seq(Chars) /\ Len(TRACE \o PAN) = Len(TRACE) + Len(PAN)
      BY <1>1, <1>2, ConcatType
<1> QED BY <1>1, <1>2, <1>3

\* The fields of a message are where they are looked for.
LEMMA FieldsOfJoin ==
    ASSUME NEW a \in [1 .. 3 -> Chars], NEW m \in Mtis, NEW b \in [1 .. 3 -> Chars]
    PROVE  /\ Fields(Join(a, m, b), a, m, b)
           /\ Join(a, m, b) = a \o m \o (TRACE \o PAN) \o b
           /\ Join(a, m, b) = a \o m \o ((TRACE \o PAN) \o b)
<1>1. PICK x : x = TRACE \o PAN
      OBVIOUS
<1>2. /\ a \in Seq(Chars) /\ Len(a) = 3 /\ m \in Seq(Chars) /\ Len(m) = 4 /\ b \in Seq(Chars) /\ Len(b) = 3
      /\ x \in Seq(Chars) /\ Len(x) = 22
      BY <1>1, FieldType, BodyType DEF Mtis
<1>3. /\ a \o m \in Seq(Chars) /\ Len(a \o m) = 7
      /\ x \o b \in Seq(Chars) /\ Len(x \o b) = 25
  <2>1. /\ a \o m \in Seq(Chars) /\ Len(a \o m) = Len(a) + Len(m)
        /\ x \o b \in Seq(Chars) /\ Len(x \o b) = Len(x) + Len(b)
        BY <1>2, ConcatType
  <2> QED BY <1>2, <2>1
<1>4. /\ (a \o m) \o x \in Seq(Chars) /\ Len((a \o m) \o x) = 29
      /\ m \o (x \o b) \in Seq(Chars) /\ Len(m \o (x \o b)) = 29
  <2>1. /\ (a \o m) \o x \in Seq(Chars) /\ Len((a \o m) \o x) = Len(a \o m) + Len(x)
        /\ m \o (x \o b) \in Seq(Chars) /\ Len(m \o (x \o b)) = Len(m) + Len(x \o b)
        BY <1>2, <1>3, ConcatType
  <2> QED BY <1>2, <1>3, <2>1
<1>5. PICK s : s = ((a \o m) \o x) \o b
      OBVIOUS
<1>6. s = Join(a, m, b)
  <2>1. ((a \o m) \o TRACE) \o PAN = (a \o m) \o x
    <3>1. TRACE \in Seq(Chars) /\ PAN \in Seq(Chars) /\ a \o m \in Seq(Chars)
          BY <1>3, BodyType
    <3>2. ((a \o m) \o TRACE) \o PAN = (a \o m) \o (TRACE \o PAN)
          BY <3>1, Regroup, Zenon
    <3> QED BY <1>1, <3>2
  <2> QED BY <1>5, <2>1 DEF Join
<1>7. Len(s) = 32
  <2>1. Len(((a \o m) \o x) \o b) = Len((a \o m) \o x) + Len(b)
        BY <1>2, <1>4, ConcatType
  <2> QED BY <1>2, <1>4, <1>5, <2>1
<1>8. s = (a \o m) \o (x \o b)
  <2>1. PICK u : u = a \o m /\ u \in Seq(Chars)
        BY <1>3
  <2>2. (u \o x) \o b = u \o (x \o b)
        BY <1>2, <2>1, Regroup, Zenon
  <2> QED BY <1>5, <2>1, <2>2, Zenon
<1>9. s = a \o (m \o (x \o b))
  <2>1. (a \o m) \o (x \o b) = a \o (m \o (x \o b))
        BY <1>2, <1>3, Regroup, Zenon
  <2> QED BY <1>8, <2>1, Zenon
<1>10. SubSeq(s, 1, 3) = a
      BY <1>2, <1>4, <1>9, SubSeqOfConcat
<1>11. SubSeq(s, 4, 7) = m
  <2>1. SubSeq(a \o m \o (x \o b), Len(a) + 1, Len(a) + Len(m)) = m
        BY <1>2, <1>3, MiddleOfConcat
  <2>2. Len(a) + 1 = 4 /\ Len(a) + Len(m) = 7
        BY <1>2
  <2> QED BY <1>8, <2>1, <2>2, Zenon
<1>12. SubSeq(s, 8, 29) = x
  <2>1. SubSeq((a \o m) \o x \o b, Len(a \o m) + 1, Len(a \o m) + Len(x)) = x
        BY <1>2, <1>3, MiddleOfConcat
  <2>2. Len(a \o m) + 1 = 8 /\ Len(a \o m) + Len(x) = 29
        BY <1>2, <1>3
  <2> QED BY <1>5, <2>1, <2>2, Zenon
<1>13. SubSeq(s, 30, 32) = b
  <2>1. SubSeq(s, Len((a \o m) \o x) + 1, Len(s)) = b
        BY <1>2, <1>4, <1>5, SubSeqOfConcat
  <2> QED BY <1>4, <1>7, <2>1
<1>14. SubSeq(s, 8, 32) = x \o b
  <2>1. SubSeq(s, Len(a \o m) + 1, Len(s)) = x \o b
        BY <1>3, <1>8, SubSeqOfConcat
  <2>2. Len(a \o m) + 1 = 8
        BY <1>3
  <2> QED BY <1>7, <2>1, <2>2, Zenon
<1>15. Fields(s, a, m, b)
      BY <1>1, <1>7, <1>10, <1>11, <1>12, <1>13, <1>14 DEF Fields
<1> QED BY <1>1, <1>5, <1>6, <1>8, <1>15
-----------------------------------------------------------------------------
\* The id of a node is written with three characters and read back.
LEMMA IdField ==
    ASSUME NEW id \in Ids
    PROVE  setw(3, id) \in [1 .. 3 -> Chars] /\ IsNumber(setw(3, id)) /\ stoi(setw(3, id)) = id
<1>1. id \in 0 .. MAX_CLIENTS_COUNT - 1
      BY ArgumentsAssumption
<1> QED BY <1>1, NumbersReadBack

\* The MTI of a node's message is written with four characters and read back.
LEMMA MtiField ==
    ASSUME NEW n \in 0 .. MTI_LIMIT - 1
    PROVE  setw(4, n) \in Mtis /\ IsNumber(setw(4, n)) /\ stoi(setw(4, n)) = n
BY NumbersReadBack

\* The first message.
LEMMA FirstIsJoin ==
    /\ <<2, 2, 0, 0>> = setw(4, FIRST_MTI) /\ setw(4, FIRST_MTI) \in Mtis
    /\ \A a, b \in Ids :
          buildFirstMessage(a, b) = Join(setw(3, a), setw(4, FIRST_MTI), setw(3, b))
<1>1. FIRST_MTI \in 0 .. MTI_LIMIT - 1
      BY DEF FIRST_MTI, MTI_LIMIT
<1>2. <<2, 2, 0, 0>> = setw(4, FIRST_MTI)
      BY NumbersReadBack
<1> QED BY <1>1, <1>2, MtiField DEF buildFirstMessage, Join

\* It holds for the first message of a node and for that of a stranger.
LEMMA InitExchange == Init => ExchangeInv
<1> SUFFICES ASSUME Init PROVE ExchangeInv
    OBVIOUS
<1>1. from \in Ids /\ to \in Ids /\ from # to /\ hops = 0 /\ ended = FALSE
      BY DEF Init
<1>2. PICK a, b, m : a = setw(3, from) /\ b = setw(3, to) /\ m = setw(4, FIRST_MTI)
      OBVIOUS
<1>3. a \in [1 .. 3 -> Chars] /\ b \in [1 .. 3 -> Chars] /\ m \in Mtis
      BY <1>1, <1>2, IdField, FirstIsJoin
<1>4. PICK first : first = buildFirstMessage(from, to) /\ first = Join(a, m, b)
      BY <1>1, <1>2, FirstIsJoin
<1>5. SUFFICES \E mti \in Mtis : text = Join(a, mti, b) /\ (~ stranger => mti = m)
  <2>1. (FIRST_MTI + 10 * hops) % MTI_LIMIT = FIRST_MTI /\ hops \in Nat /\ ~ (hops > 0)
        BY <1>1 DEF FIRST_MTI, MTI_LIMIT
  <2> QED BY <1>1, <1>2, <2>1 DEF ExchangeInv
<1>6. CASE stranger = FALSE /\ text = first
      BY <1>3, <1>4, <1>6
<1>7. ASSUME stranger = TRUE, NEW mti \in [1 .. 4 -> StrangeChars],
             text = SubSeq(first, 1, 3) \o mti \o SubSeq(first, 8, Len(first))
      PROVE  mti \in Mtis /\ text = Join(a, mti, b)
  <2>1. mti \in Mtis
        BY ArgumentsAssumption DEF Mtis
  <2>2. /\ Len(first) = 32 /\ SubSeq(first, 1, 3) = a
        /\ SubSeq(first, 8, 32) = (TRACE \o PAN) \o b
    <3>1. Fields(first, a, m, b)
          BY <1>3, <1>4, FieldsOfJoin, Zenon
    <3> QED BY <3>1 DEF Fields
  <2>3. text = a \o mti \o ((TRACE \o PAN) \o b)
        BY <1>7, <2>2
  <2> QED BY <1>3, <2>1, <2>3, FieldsOfJoin, Zenon
<1> QED BY <1>4, <1>6, <1>7 DEF Init

\* What a node reads in the message: its own id and the MTI; and its reply.
LEMMA ReplyIsJoin ==
    ASSUME NEW a \in Ids, NEW b \in Ids, NEW m \in Mtis,
           NEW s, s = Join(setw(3, a), m, setw(3, b))
    PROVE  /\ Len(s) = 32 /\ SubSeq(s, 1, 3) = setw(3, a) /\ Mti(s) = m
           /\ SubSeq(s, 30, 32) = setw(3, b)
           /\ stoi(SubSeq(s, 30, 32)) = b /\ IsNumber(SubSeq(s, 30, 32))
           /\ processMessageThrows(b, s) <=> ~ IsNumber(m)
           /\ \A id \in Ids \ {b} : processMessage(id, s) = <<>>
           /\ setw(4, Rem(stoi(m) + 10, MTI_LIMIT)) \in Mtis =>
                 processMessage(b, s) =
                    Join(setw(3, b), setw(4, Rem(stoi(m) + 10, MTI_LIMIT)), setw(3, a))
<1>1. PICK x, y, r : /\ x = setw(3, a) /\ y = setw(3, b)
                     /\ r = setw(4, Rem(stoi(m) + 10, MTI_LIMIT))
      OBVIOUS
<1>2. x \in [1 .. 3 -> Chars] /\ y \in [1 .. 3 -> Chars] /\ stoi(y) = b /\ IsNumber(y)
      BY <1>1, IdField
<1>3. /\ Len(s) = 32 /\ SubSeq(s, 1, 3) = x /\ SubSeq(s, 4, 7) = m
      /\ SubSeq(s, 8, 29) = TRACE \o PAN /\ SubSeq(s, 30, 32) = y
  <2>1. s = Join(x, m, y)
        BY <1>1
  <2>2. Fields(s, x, m, y)
        BY <1>2, <2>1, FieldsOfJoin, Zenon
  <2> QED BY <2>2 DEF Fields
<1>4. Len(s) = MSG_LEN /\ Mti(s) = m
      BY <1>3 DEF MSG_LEN, Mti
<1>5. processMessageThrows(b, s) <=> ~ IsNumber(m)
      BY <1>2, <1>3, <1>4 DEF processMessageThrows
<1>6. \A id \in Ids \ {b} : processMessage(id, s) = <<>>
      BY <1>2, <1>3 DEF processMessage
<1>7. processMessage(b, s) = y \o r \o (TRACE \o PAN) \o x
      BY <1>1, <1>2, <1>3, <1>4 DEF processMessage
<1>8. ASSUME r \in Mtis PROVE processMessage(b, s) = Join(y, r, x)
      BY <1>2, <1>7, <1>8, FieldsOfJoin
<1> QED BY <1>1, <1>2, <1>3, <1>4, <1>5, <1>6, <1>8

\* The MTI of the next message of a conversation.
LEMMA NextMti ==
    ASSUME NEW h \in Nat, NEW n, n = (FIRST_MTI + 10 * h) % MTI_LIMIT
    PROVE  /\ n \in 0 .. MTI_LIMIT - 1
           /\ Rem(n + 10, MTI_LIMIT) = (FIRST_MTI + 10 * (h + 1)) % MTI_LIMIT
BY DEF FIRST_MTI, MTI_LIMIT, Rem

\* Every reply keeps it, and so does an exception.
LEMMA NextExchange == ExchangeInv /\ [Next]_vars => ExchangeInv'
<1> SUFFICES ASSUME ExchangeInv, [Next]_vars PROVE ExchangeInv'
    OBVIOUS
<1>1. /\ from \in Ids /\ to \in Ids /\ from # to /\ hops \in Nat
      /\ ended => hops = 0
      BY DEF ExchangeInv
<1>2. PICK mti \in Mtis :
          /\ text = Join(setw(3, from), mti, setw(3, to))
          /\ ~ stranger => mti = setw(4, (FIRST_MTI + 10 * hops) % MTI_LIMIT)
          /\ hops > 0 => IsNumber(mti)
      BY DEF ExchangeInv
<1>3. processMessageThrows(to, text) <=> ~ IsNumber(mti)
      BY <1>1, <1>2, ReplyIsJoin
<1>4. CASE UNCHANGED vars
      BY <1>1, <1>2, <1>4 DEF vars, ExchangeInv
<1>5. CASE Throw
  <2>1. hops = 0 /\ UNCHANGED <<from, to, stranger, text, hops>>
        BY <1>1, <1>2, <1>3, <1>5 DEF Throw
  <2> QED BY <1>1, <1>2, <2>1 DEF ExchangeInv
<1>6. CASE Reply
  <2>1. /\ from' = to /\ to' = from /\ hops' = hops + 1 /\ ~ ended
        /\ UNCHANGED <<stranger, ended>> /\ text' = processMessage(to, text)
        /\ IsNumber(mti)
        BY <1>3, <1>6 DEF Reply
  <2>2. PICK r : r = setw(4, Rem(stoi(mti) + 10, MTI_LIMIT))
        OBVIOUS
  <2>3. r \in Mtis /\ IsNumber(r)
        BY <2>1, <2>2, RepliesReadBack
  <2>4. text' = Join(setw(3, to), r, setw(3, from))
        BY <1>1, <1>2, <2>1, <2>2, <2>3, ReplyIsJoin
  <2>5. ASSUME ~ stranger
        PROVE  r = setw(4, (FIRST_MTI + 10 * (hops + 1)) % MTI_LIMIT)
    <3>1. PICK n : n = (FIRST_MTI + 10 * hops) % MTI_LIMIT
          OBVIOUS
    <3>2. /\ n \in 0 .. MTI_LIMIT - 1
          /\ Rem(n + 10, MTI_LIMIT) = (FIRST_MTI + 10 * (hops + 1)) % MTI_LIMIT
          BY <1>1, <3>1, NextMti
    <3>3. stoi(mti) = n
          BY <1>2, <2>5, <3>1, <3>2, MtiField
    <3> QED BY <2>2, <3>2, <3>3
  <2>6. /\ text' = Join(setw(3, from'), r, setw(3, to'))
        /\ ~ stranger' => r = setw(4, (FIRST_MTI + 10 * hops') % MTI_LIMIT)
        BY <2>1, <2>4, <2>5
  <2>7. hops' \in Nat
        BY <1>1, <2>1
  <2> QED BY <1>1, <2>1, <2>3, <2>6, <2>7 DEF ExchangeInv
<1> QED BY <1>4, <1>5, <1>6 DEF Next

-----------------------------------------------------------------------------
\* The invariant of the exchange: whatever the ids, the stranger's MTI and the
\* number of replies (node/include/message.h:37-93).
THEOREM MessagesKeepTheirShape == Spec => []ExchangeInv
BY InitExchange, NextExchange, PTL DEF Spec

\* A node's message keeps its 32 characters, its addresses, TRACE and PAN, and
\* its MTI counts on modulo 10000, for any number of replies and any two ids
\* (node/include/message.h:37-93).
THEOREM FormatIsKept == Spec => []TextFollowsFormat
<1>1. ExchangeInv => TextFollowsFormat
      BY DEF ExchangeInv, TextFollowsFormat, Join
<1> QED BY <1>1, MessagesKeepTheirShape, PTL

\* The router finds the addressee in the text, nobody else accepts it, and the
\* router knows the sender under the id its peers write
\* (router/include/message.h:26-60, node/include/message.h:37-109).
THEOREM RouterReadsWhatNodesWrite == Spec => []RouterAndNodesAgree
<1>1. ASSUME ExchangeInv PROVE RouterAndNodesAgree
  <2>1. from \in Ids /\ to \in Ids
        BY <1>1 DEF ExchangeInv
  <2>2. PICK mti \in Mtis : text = Join(setw(3, from), mti, setw(3, to))
        BY <1>1 DEF ExchangeInv
  <2>3. /\ Len(text) = 32 /\ SubSeq(text, 1, 3) = setw(3, from)
        /\ stoi(SubSeq(text, 30, 32)) = to /\ IsNumber(SubSeq(text, 30, 32))
        /\ \A id \in Ids \ {to} : processMessage(id, text) = <<>>
        BY <2>1, <2>2, ReplyIsJoin
  <2>4. extract_dst_id(text) = to
        BY <2>3 DEF extract_dst_id, DATA_MESSAGE_SIZE
  <2> QED BY <2>3, <2>4 DEF RouterAndNodesAgree, buildIdMessage
<1> QED BY <1>1, MessagesKeepTheirShape, PTL

\* Whatever four characters a stranger sends for an MTI, the node that answers
\* writes one that is a number, in a message of 32 characters: the reply ends
\* no node (node/include/message.h:52-62).
THEOREM RepliesEndNoNode == Spec => []RepliesParse
<1>1. ASSUME ExchangeInv PROVE RepliesParse
  <2>1. PICK mti \in Mtis : /\ text = Join(setw(3, from), mti, setw(3, to))
                            /\ hops > 0 => IsNumber(mti)
        BY <1>1 DEF ExchangeInv
  <2>2. /\ Len(text) = 32 /\ Mti(text) = mti
        BY <1>1, <2>1, ReplyIsJoin DEF ExchangeInv
  <2> QED BY <1>1, <2>1, <2>2 DEF RepliesParse, ExchangeInv, MSG_LEN
<1> QED BY <1>1, MessagesKeepTheirShape, PTL
=============================================================================
