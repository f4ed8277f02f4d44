------------------------------ MODULE MCRouter ------------------------------
(* Values for the constants of Router: what the peers of the connections     *)
(* send, and where their segments may end.                                   *)
EXTENDS RouterService, TLC

CONSTANTS c1, c2, c3

\* What std::stoi finds: NONE, the node ids, bodies of messages, an id that is
\* too large.
MCValues == {-1, 1, 2, 3, 7, 8, 9}

\* Node 1 sends two messages to node 2, node 2 answers one of them.
TalkStream ==
    c1 :> <<1, 1, 7, 2, 1, 8, 2>> @@ c2 :> <<2, 2, 9, 1>>

AlignedCuts == c1 :> {1, 4, 7} @@ c2 :> {1, 4}

\* Node 1 sends two messages to node 2 and may be cut in the middle of one;
\* two clients claim the id 2, one of them after an id that is not a number.
ChurnStream ==
    c1 :> <<1, 1, 7, 2, 1, 8, 2>> @@ c2 :> <<2>> @@ c3 :> <<-1, 9, 2>>

ChurnCuts == c1 :> {6, 7} @@ c2 :> {1} @@ c3 :> {3}

\* Node 1 sends a message to a node that is not there and, in the same segment,
\* one to node 2.
ServeStream == c1 :> <<1, 1, 7, 3, 1, 8, 2>> @@ c2 :> <<2>>

ServeCuts == c1 :> {1, 7} @@ c2 :> {1}

\* Two clients register under the same id.
TwinStream == c1 :> <<2>> @@ c2 :> <<2>>

TwinCuts == c1 :> {1} @@ c2 :> {1}

\* Three clients register, and node 3 sends one message to node 1.
TrioStream == c1 :> <<1>> @@ c2 :> <<2>> @@ c3 :> <<3, 3, 7, 1>>

TrioCuts == c1 :> {1} @@ c2 :> {1} @@ c3 :> {1, 4}

ThreadSymmetry ==
    Permutations(Readers) \cup Permutations(Writers) \cup Permutations(Sockets)
=============================================================================
