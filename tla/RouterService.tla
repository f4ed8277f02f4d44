--------------------------- MODULE RouterService ---------------------------
(***************************************************************************)
(* Module Router implements module RoutingService.  A message is unread    *)
(* until its reader acts on it (add_node() or the lookup of the            *)
(* destination), and in transit from that lookup until send(): in the      *)
(* reader that forwards it, in the write queue, or in a write worker.      *)
(***************************************************************************)
EXTENDS Router

\* What a reader has taken from the socket of c and not yet acted upon.
Held ==
    [c \in Conns |->
        LET rs == {r \in Readers : pc[r] \in {"add", "route"} /\ sess[r] = c} IN
        IF rs = {} THEN <<>> ELSE msg[CHOOSE r \in rs : TRUE]]

Carriers ==
    {r \in Readers : pc[r] = "forward"}
        \cup {w \in Writers : pc[w] \in {"find", "lock", "send"}}

Carried(t) ==
    [to |-> IF t \in Readers THEN dst[t] ELSE fd_table[sock[t]], msg |-> msg[t]]

Queued(i) ==
    [to |-> fd_table[ready_write_sockets_queue_[i].socket],
     msg |-> ready_write_sockets_queue_[i].msg]

InTransit ==
    [task \in {Queued(i) : i \in DOMAIN ready_write_sockets_queue_}
                 \cup {Carried(t) : t \in Carriers} |->
        Cardinality({i \in DOMAIN ready_write_sockets_queue_ : Queued(i) = task})
            + Cardinality({t \in Carriers : Carried(t) = task})]

Seats ==
    [c \in Conns |-> IF socket_[c] = nullptr THEN "waiting"
                     ELSE IF Registered(c) THEN "seated" ELSE "left"]

Unread == [c \in Conns |-> Held[c] \o inbox[c]]

Mail == [c \in Conns |-> FlattenSeq(outbox[c])]

Service == INSTANCE RoutingService WITH
    link <- peer,
    seat <- Seats,
    name <- id_,
    directory <- sessions_by_id_,
    unread <- Unread,
    transit <- InTransit,
    mail <- Mail

\* The event loop, the two pools and the two queues together do what the
\* abstract service does: each message a reader takes is carried to the
\* connection its id named at that moment, exactly once, whatever order the
\* write workers get the session mutexes in, and is lost or torn only if that
\* connection ends, is removed or is full.
ImplementsService == Service!ServiceSpec
=============================================================================
