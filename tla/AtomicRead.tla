----------------------------- MODULE AtomicRead -----------------------------
(***************************************************************************)
(* How module Router sees TcpServer::read_async(): one step that takes a   *)
(* whole message if it has arrived, and what there is otherwise.  Here for *)
(* one connection, in bytes, with what do_reads() then makes of them.      *)
(* Module Framing shows that the loop around recv() implements it.         *)
(***************************************************************************)
EXTENDS MessageText

CONSTANTS
    NodeIds,    \* ids of a node that sends messages to node 5
    Messages,   \* how many data messages it sends
    CutSets     \* sets of places where a segment may end

VARIABLES
    sender,     \* the node; it never changes.  sender.ids[p] is what
                \* extract_src_id() finds in the three bytes after its first p
    arrived,    \* bytes that have arrived
    ended,      \* "no", or the connection was "closed" or "reset"
    pos,        \* bytes that have been read
    reading,    \* a worker is in do_reads(), or the session is "removed"
    id_,        \* the id the session is registered under
    frames      \* the places of the data messages process_message() has got

network == <<sender, arrived, ended>>

\* The node sends an id message and then data messages.
Sender(id, cuts) ==
    LET stream == buildIdMessage(id)
            \o FlattenSeq([k \in 1 .. Messages |-> buildFirstMessage(id, 5)])
    IN [id |-> id,
        cuts |-> cuts,
        ids |-> [p \in 0 .. Len(stream) - ID_MESSAGE_SIZE |->
                   extract_src_id(SubSeq(stream, p + 1, p + ID_MESSAGE_SIZE))]]

ReadInit ==
    /\ sender \in {Sender(id, cuts) : id \in NodeIds, cuts \in CutSets}
    /\ arrived = 0
    /\ ended = "no"
    /\ pos = 0
    /\ reading = "no"
    /\ id_ = NONE
    /\ frames = <<>>

\* A segment arrives (external).
Arrive(cut) ==
    /\ ended = "no"
    /\ cut > arrived
    /\ arrived' = cut
    /\ UNCHANGED <<sender, ended, pos, reading, id_, frames>>

\* The node closes: what has arrived can still be read (external).
Close ==
    /\ ended = "no"
    /\ ended' = "closed"
    /\ UNCHANGED <<sender, arrived, pos, reading, id_, frames>>

\* The connection is reset: what has arrived may be lost (external).
Reset ==
    /\ ended = "no"
    /\ ended' = "reset"
    /\ UNCHANGED <<sender, arrived, pos, reading, id_, frames>>

\* select() reports the socket, and a worker takes it.
Begin ==
    /\ reading = "no"
    /\ arrived > pos \/ ended # "no"
    /\ reading' = "yes"
    /\ UNCHANGED <<network, pos, id_, frames>>

Wanted == IF id_ = NONE THEN ID_MESSAGE_SIZE ELSE DATA_MESSAGE_SIZE

\* MUTANT of Handle: the largest id is refused.
HandleSmall(p) ==
    IF id_ = NONE
    THEN /\ id_' = IF sender.ids[p] + 1 >= MAX_CLIENTS_COUNT THEN NONE ELSE sender.ids[p]
         /\ UNCHANGED <<frames, reading>>
    ELSE /\ frames' = Append(frames, p)
         /\ reading' \in {"yes", "no"}
         /\ UNCHANGED id_

\* handle_handshake() with add_node(), or process_message(), get the bytes
\* after the first p ones.  The loop of do_reads() ends if nobody has the
\* destination id.
Handle(p) ==
    IF id_ = NONE
    THEN /\ id_' = IF sender.ids[p] >= MAX_CLIENTS_COUNT THEN NONE ELSE sender.ids[p]
         /\ UNCHANGED <<frames, reading>>
    ELSE /\ frames' = Append(frames, p)
         /\ reading' \in {"yes", "no"}
         /\ UNCHANGED id_

ReadFull ==
    /\ reading = "yes"
    /\ arrived - pos >= Wanted
    /\ pos' = pos + Wanted
    /\ Handle(pos)
    /\ UNCHANGED network

ReadPartial ==
    /\ reading = "yes"
    /\ ended = "no"
    /\ arrived - pos \in 1 .. Wanted - 1
    /\ pos' = arrived
    /\ UNCHANGED <<network, reading, id_, frames>>

ReadNothing ==
    /\ reading = "yes"
    /\ ended = "no"
    /\ arrived = pos
    /\ reading' = "no"
    /\ UNCHANGED <<network, pos, id_, frames>>

\* The stream ends before the message is complete, or is reset with whole
\* messages unread: they go with the session.
ReadError ==
    /\ reading = "yes"
    /\ \/ ended = "closed" /\ arrived - pos < Wanted
       \/ ended = "reset"
    /\ reading' = "removed"
    /\ UNCHANGED <<network, pos, id_, frames>>

ReadNext ==
    \/ \E cut \in sender.cuts : Arrive(cut)
    \/ Close
    \/ Reset
    \/ Begin
    \/ ReadFull
    \/ ReadPartial
    \/ ReadNothing
    \/ ReadError

ReadSpec ==
    ReadInit /\ [][ReadNext]_<<network, pos, reading, id_, frames>>
=============================================================================
