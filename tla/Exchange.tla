------------------------------ MODULE Exchange ------------------------------
(***************************************************************************)
(* One message going back and forth between two nodes, in its real format: *)
(* what node/include/message.h makes of it, hop by hop.  It starts as the  *)
(* first message of a node, or as a message of a stranger that differs     *)
(* from it in the MTI.                                                     *)
(***************************************************************************)
EXTENDS MessageText

CONSTANTS
    Ids,            \* arguments the nodes are started with
    StrangeChars,   \* characters of the MTI of a stranger's message
    MaxHops,        \* bound: replies to the message of a node
    MaxStrangeHops  \* bound: replies to the message of a stranger

Chars == Digits \cup {MINUS, PLUS, BLANK, LETTER}

Mtis == [1 .. 4 -> Chars]

\* tests/node_tests.cpp: the texts its tests expect.
ASSUME NodeTests ==
    LET Text(src, c, dst) ==
            <<0, 0, src, 2, 2, c, 0>> \o TRACE \o PAN \o <<0, 0, dst>>
    IN
    /\ buildFirstMessage(3, 5) = Text(3, 0, 5)
    /\ processMessage(3, Text(5, 1, 3)) = Text(3, 2, 5)
    /\ processMessage(3, Text(3, 1, 5)) = <<>>
    /\ processMessage(3, Tail(Text(5, 1, 3))) = <<>>
    /\ buildIdMessage(3) = <<0, 0, 3>>

\* Ids below the limit of the registry: three digits are enough for them.
ASSUME ArgumentsAssumption ==
    Ids \subseteq 0 .. MAX_CLIENTS_COUNT - 1 /\ StrangeChars \subseteq Chars

\* What setw() writes stoi() reads back, for every id and every MTI of a node.
ASSUME NumbersReadBack ==
    /\ \A id \in 0 .. MAX_CLIENTS_COUNT - 1 :
          /\ setw(3, id) \in [1 .. 3 -> Chars]
          /\ IsNumber(setw(3, id)) /\ stoi(setw(3, id)) = id
    /\ \A mti \in 0 .. MTI_LIMIT - 1 :
          /\ setw(4, mti) \in Mtis
          /\ IsNumber(setw(4, mti)) /\ stoi(setw(4, mti)) = mti
    /\ setw(4, FIRST_MTI) = <<2, 2, 0, 0>>

\* The MTI of the reply has four characters and is a number, whatever the four
\* characters are that stoi() has made a number of.
ASSUME RepliesReadBack ==
    \A mti \in Mtis :
        IsNumber(mti) =>
            LET w == setw(4, Rem(stoi(mti) + 10, MTI_LIMIT)) IN
            w \in Mtis /\ IsNumber(w)

VARIABLES
    from, to,   \* the node that sent the message, the node that reads it
    stranger,   \* the first message was that of a stranger
    text,       \* the message
    hops,       \* replies so far
    ended       \* the reader's process has ended with an exception

vars == <<from, to, stranger, text, hops, ended>>

Init ==
    /\ from \in Ids
    /\ to \in Ids \ {from}
    /\ LET first == buildFirstMessage(from, to) IN
       \/ stranger = FALSE /\ text = first
       \/ /\ stranger = TRUE
          /\ \E mti \in [1 .. 4 -> StrangeChars] :
                text = SubSeq(first, 1, 3) \o mti \o SubSeq(first, 8, Len(first))
    /\ hops = 0
    /\ ended = FALSE

\* The reader's turn in Node::start().
Reply ==
    /\ ~ ended
    /\ hops < (IF stranger THEN MaxStrangeHops ELSE MaxHops)
    /\ ~ processMessageThrows(to, text)
    /\ text' = processMessage(to, text)
    /\ from' = to
    /\ to' = from
    /\ hops' = hops + 1
    /\ UNCHANGED <<stranger, ended>>

\* The exception leaves start(), and main() ends the process.
Throw ==
    /\ ~ ended
    /\ processMessageThrows(to, text)
    /\ ended' = TRUE
    /\ UNCHANGED <<from, to, stranger, text, hops>>

Next == Reply \/ Throw

Spec == Init /\ [][Next]_vars

\* message.h: "The messages follow a predefined format and has a fixed length."
\* However often it is answered, past the wrap of the MTI too, the message has
\* its 32 characters, names its sender and its addressee, keeps TRACE and PAN,
\* and has advanced by 10 per hop.
TextFollowsFormat ==
    ~ stranger =>
        text = setw(3, from) \o setw(4, (FIRST_MTI + 10 * hops) % MTI_LIMIT) \o TRACE
                   \o PAN \o setw(3, to)

\* The router looks the message up under the id of the node that will accept
\* it, every other node would refuse it, and the id message of a node makes
\* the router know it under the id its peers write.
RouterAndNodesAgree ==
    /\ extract_dst_id(text) = to
    /\ \A id \in Ids \ {to} : processMessage(id, text) = <<>>
    /\ extract_src_id(buildIdMessage(from)) =
          extract_src_id(SubSeq(text, 1, 3))

\* A message of a stranger can end a node's process with an exception, the
\* reply of a node cannot: its MTI is a number and it has 32 characters, even
\* where the MTI it answers has a sign, blanks or other characters.
RepliesParse ==
    hops > 0 => ~ ended /\ Len(text) = MSG_LEN /\ IsNumber(Mti(text))
=============================================================================
