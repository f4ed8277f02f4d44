------------------------------ MODULE Framing ------------------------------
(***************************************************************************)
(* TcpServer::read_async() as it is, recv() by recv(), with segments that  *)
(* arrive between two calls, under the loop of do_reads().                 *)
(***************************************************************************)
EXTENDS MessageText

CONSTANTS NodeIds, Messages, CutSets    \* as in module AtomicRead

ASSUME SenderAssumption ==
    /\ NodeIds \subseteq Nat
    /\ Messages \in Nat
    /\ CutSets \subseteq SUBSET Nat

\* The router reads back what a node writes, for every id it can register.
\* (A fact without parameters, which TLC evaluates for all of them.)
ASSUME IdsReadBack ==
    \A id \in 0 .. MAX_CLIENTS_COUNT - 1 :
        /\ buildIdMessage(id) \in Seq(Digits)
        /\ Len(buildIdMessage(id)) = ID_MESSAGE_SIZE
        /\ extract_src_id(buildIdMessage(id)) = id

VARIABLES
    sender, arrived, ended, reading, id_, frames,   \* as in module AtomicRead
    received,       \* bytes recv() has handed out
    total_read      \* of these, the bytes in the buffer of read_async()

vars == <<sender, arrived, ended, reading, id_, frames, received, total_read>>

\* What the loop has read for the message it is collecting counts as unread.
Atomic == INSTANCE AtomicRead WITH pos <- received - total_read

Init ==
    /\ sender \in {Atomic!Sender(id, cuts) : id \in NodeIds, cuts \in CutSets}
    /\ arrived = 0
    /\ ended = "no"
    /\ reading = "no"
    /\ id_ = NONE
    /\ frames = <<>>
    /\ received = 0
    /\ total_read = 0

Arrive(cut) ==
    /\ ended = "no"
    /\ cut > arrived
    /\ arrived' = cut
    /\ UNCHANGED <<sender, ended, reading, id_, frames, received, total_read>>

\* The node closes: recv() returns 0 once it has handed out everything.
Close ==
    /\ ended = "no"
    /\ ended' = "closed"
    /\ UNCHANGED <<sender, arrived, reading, id_, frames, received,
                   total_read>>

\* The connection is reset: recv() may fail at once.
Reset ==
    /\ ended = "no"
    /\ ended' = "reset"
    /\ UNCHANGED <<sender, arrived, reading, id_, frames, received,
                   total_read>>

Begin ==
    /\ reading = "no"
    /\ arrived > received \/ ended # "no"
    /\ reading' = "yes"
    /\ UNCHANGED <<sender, arrived, ended, id_, frames, received, total_read>>

\* MUTANT of RecvSome: the loop asks for buffer_len bytes every time.
RecvTooMuch ==
    LET bytes_read == Min({Atomic!Wanted, arrived - received}) IN
    /\ reading = "yes"
    /\ bytes_read > 0
    /\ received' = received + bytes_read
    /\ IF total_read + bytes_read >= Atomic!Wanted
       THEN /\ total_read' = 0
            /\ Atomic!Handle(received' - Atomic!Wanted)
       ELSE /\ total_read' = total_read + bytes_read
            /\ UNCHANGED <<id_, frames, reading>>
    /\ UNCHANGED <<sender, arrived, ended>>

\* recv() returns what there is, at most what is missing; a full buffer ends
\* the call, and do_reads() handles the text and calls again.
RecvSome ==
    LET bytes_read == Min({Atomic!Wanted - total_read, arrived - received}) IN
    /\ reading = "yes"
    /\ bytes_read > 0
    /\ received' = received + bytes_read
    /\ IF total_read + bytes_read = Atomic!Wanted
       THEN /\ total_read' = 0
            /\ Atomic!Handle(received' - Atomic!Wanted)
       ELSE /\ total_read' = total_read + bytes_read
            /\ UNCHANGED <<id_, frames, reading>>
    /\ UNCHANGED <<sender, arrived, ended>>

\* no_more_data(): the bytes so far are returned and dropped, and do_reads()
\* calls again; none ends its loop.
RecvWouldBlock ==
    /\ reading = "yes"
    /\ arrived = received
    /\ ended = "no"
    /\ total_read' = 0
    /\ reading' = IF total_read > 0 THEN "yes" ELSE "no"
    /\ UNCHANGED <<sender, arrived, ended, id_, frames, received>>

\* recv() returns 0: SOCKET_ERROR whatever is in the buffer, and the session
\* is removed.
RecvEnd ==
    /\ reading = "yes"
    /\ arrived = received
    /\ ended = "closed"
    /\ reading' = "removed"
    /\ UNCHANGED <<sender, arrived, ended, id_, frames, received, total_read>>

\* recv() fails after a reset: the same, although there may be whole messages
\* it has not handed out.  (A system that lets the program read what arrived
\* before the reset takes RecvSome first.)
RecvError ==
    /\ reading = "yes"
    /\ ended = "reset"
    /\ reading' = "removed"
    /\ UNCHANGED <<sender, arrived, ended, id_, frames, received, total_read>>

Reader == Begin \/ RecvSome \/ RecvWouldBlock \/ RecvEnd \/ RecvError

Next == (\E cut \in sender.cuts : Arrive(cut)) \/ Close \/ Reset \/ Reader

SafetySpec == Init /\ [][Next]_vars

Spec == SafetySpec /\ WF_vars(Reader)

-----------------------------------------------------------------------------
\* A segment may arrive between two calls of recv(), but read_async() is as
\* good as one step: it takes a message exactly when all of it has arrived by
\* its last recv(), and otherwise all there is.
ImplementsAtomicRead == Atomic!ReadSpec

\* Where the k-th data message begins.
Boundary(k) == ID_MESSAGE_SIZE + (k - 1) * DATA_MESSAGE_SIZE

\* The bytes of a message that was cut are dropped and the rest is taken for
\* the next one; but once the router has read up to the beginning of a message
\* and all of that message is there, it gets that message, even if the node
\* closes; only a reset can take it away.
RecoversAtBoundary ==
    \A k \in 1 .. Messages :
        /\ id_ # NONE
        /\ reading # "removed"
        /\ received - total_read = Boundary(k)
        /\ arrived >= Boundary(k + 1)
        ~>
        Boundary(k) \in ToSet(frames) \/ ended = "reset"

\* When segments end where messages end, a node is registered under its id, up
\* to the largest one add_node() takes, and its messages are read as they were
\* sent, however many of them one segment holds.
FramesIntact ==
    /\ sender.id < MAX_CLIENTS_COUNT
    /\ sender.cuts \subseteq {Boundary(k) : k \in 1 .. Messages + 1}
    =>
    /\ id_ \in {NONE, sender.id}
    /\ \A i \in DOMAIN frames : frames[i] = Boundary(i)
    /\ id_ # NONE => received - total_read = Boundary(Len(frames) + 1)
=============================================================================
