------------------------------- MODULE System -------------------------------
(***************************************************************************)
(* The whole system: nodes (module Node) that talk through the router      *)
(* (module RoutingService), which has to be started first (module          *)
(* Startup).  Connections break, nodes are restarted, clients are refused, *)
(* segments end inside a message on their way to a node, and the router    *)
(* crashes and comes back.  Nodes send whole messages and read what they   *)
(* get, so Discard and Tear of the service do not occur.                   *)
(***************************************************************************)
EXTENDS Node

CONSTANTS
    Faults,         \* which faults happen
    MaxFaults       \* bound: how many of them

\* The nodes read what they get: no send buffer is ever full.
ASSUME ReadersAssumption == SlowPeers = {}

VARIABLE faults     \* how many faults have happened, and which kinds of them

vars == <<clients, service, startup, node, faults>>

Init ==
    /\ ServiceInit
    /\ StartupInit
    /\ NodeInit
    /\ faults = [count |-> 0, kinds |-> {}]

-----------------------------------------------------------------------------
\* Faults (external)

Fault(kind) ==
    /\ kind \in Faults
    /\ faults.count < MaxFaults
    /\ faults' = [count |-> faults.count + 1, kinds |-> faults.kinds \cup {kind}]

\* The network resets the connection in use.
LinkBreaks(n) ==
    /\ Fault("reset")
    /\ attempt[n] > 0
    /\ Reset(Conn(n), 0)
    /\ UNCHANGED <<startup, node>>

\* accept_client() cannot make the socket non-blocking.
ClientRefused(c) ==
    /\ Fault("refuse")
    /\ Refuse(c)
    /\ UNCHANGED <<startup, node>>

\* The process ends, which closes its sockets, and is started again.
NodeRestart(n) ==
    /\ Fault("restart")
    /\ attempt[n] > 0
    /\ link' = [c \in Conns |-> IF c[1] = n /\ link[c] = "open"
                                THEN "closed" ELSE link[c]]
    /\ sockets' = [sockets EXCEPT ![n] = {}]
    /\ Go(n, "connect", <<>>)
    /\ UNCHANGED <<unread, mail, service, startup, attempt>>

\* A message reaches a node in two segments, and the first one is read alone.
\* (The rest of a message is shorter than a message: no fault is needed.)
SegmentCut(n) ==
    \E k \in 1 .. DATA_MESSAGE_SIZE - 1 :
        /\ ShortRecv(n, k)
        /\ IF Len(mail[Conn(n)]) < DATA_MESSAGE_SIZE
           THEN k = Len(mail[Conn(n)]) /\ UNCHANGED faults
           ELSE Fault("cut")

\* The router's process ends: nothing of its state survives.
RouterCrash ==
    /\ Fault("crash")
    /\ router \in {"up", "deaf"}
    /\ Stop
    /\ link' = [c \in Conns |-> IF link[c] = "open" THEN "reset" ELSE link[c]]
    /\ seat' = [c \in Conns |-> IF link[c] = "new" THEN seat[c] ELSE "left"]
    /\ directory' = [i \in Values |-> nullptr]
    /\ unread' = [c \in Conns |-> <<>>]
    /\ transit' = EmptyBag
    /\ UNCHANGED <<name, mail, node>>

BootFails ==
    /\ \/ Fault("start") /\ StartFails
       \/ Fault("listen") /\ ListenFails
    /\ UNCHANGED <<clients, service, node>>

-----------------------------------------------------------------------------
RouterBoot == Boot /\ UNCHANGED <<clients, service, node, faults>>

\* What the event loop and the read workers do for a connection.
Serve(c) ==
    /\ \/ Admit(c)
       \/ readers > 0 /\ (Register(c) \/ Take(c) \/ Leave(c))
    /\ UNCHANGED <<startup, node, faults>>

\* What the write workers do.
Write ==
    /\ writers > 0
    /\ \E task \in BagToSet(transit) : Deliver(task) \/ Lose(task)
    /\ UNCHANGED <<startup, node, faults>>

Next ==
    \/ RouterBoot
    \/ BootFails
    \/ RouterCrash
    \/ Write
    \/ \E c \in Conns : Serve(c) \/ ClientRefused(c)
    \/ \E n \in Nodes :
          \/ (Connect(n) \/ ConnectFails(n) \/ NodeStep(n)) /\ UNCHANGED faults
          \/ LinkBreaks(n)
          \/ NodeRestart(n)
          \/ SegmentCut(n)

SafetySpec == Init /\ [][Next]_vars

(***************************************************************************)
(* A node's thread runs, and a connect() to a running router does not fail *)
(* every time.  The router serves every connection and every message: that *)
(* is ReadEventsServed and MessagesDelivered of module Router.  A router   *)
(* that has ended is started again.  No fault is fair.                     *)
(***************************************************************************)
Fairness ==
    /\ \A n \in Nodes :
          /\ SF_vars(Connect(n) /\ UNCHANGED faults)
          /\ WF_vars(NodeStep(n) /\ UNCHANGED faults)
    /\ \A c \in Conns : WF_vars(Serve(c))
    /\ WF_vars(Write)
    /\ WF_vars(RouterBoot)

Spec == SafetySpec /\ Fairness

-----------------------------------------------------------------------------
\* Properties

Texts == Seq(Values)

\* The nodes, the connections and the router keep their types, and a node only
\* uses a connection it has made.
TypeOK ==
    /\ link \in [Conns -> {"new", "open", "closed", "reset", "refused"}]
    /\ seat \in [Conns -> {"waiting", "seated", "left"}]
    /\ name \in [Conns -> Values]
    /\ directory \in [Values -> Conns \cup {nullptr}]
    /\ unread \in [Conns -> Texts] /\ mail \in [Conns -> Texts]
    /\ \A task \in BagToSet(transit) : task \in [to : Conns, msg : Texts]
    /\ router \in Stages
    /\ readers \in Nat /\ writers \in Nat
    /\ at \in [Nodes -> Steps]
    /\ attempt \in [Nodes -> 0 .. MaxConnects]
    /\ retry_count \in [Nodes -> 0 .. MAX_RETRY - 1]
    /\ out \in [Nodes -> Texts]
    /\ sockets \in [Nodes -> SUBSET (1 .. MaxConnects)]
    /\ \A n \in Nodes : at[n] \notin {"connect", "sleep"} => attempt[n] > 0

\* The data messages that somebody still has to read, carry or answer.
Messages(box, text) ==
    UNION {{<<box, c, i>> : i \in 1 .. Len(text[c]) \div DATA_MESSAGE_SIZE} :
               c \in Conns}

Carried(tasks) ==
    UNION {{<<"transit", task, i>> : i \in 1 .. tasks[task]} :
               task \in BagToSet(tasks)}

Replies == {<<"reply", n>> : n \in {m \in Nodes : at[m] = "reply" /\ out[m] # <<>>}}

InPlay ==
    Messages("unread", unread) \cup Carried(transit) \cup Messages("mail", mail)
        \cup Replies

\* README: "All nodes will send a message to destination node on node
\* startup."  Each connection adds at most that one message to the
\* conversation: no retry of send_message(), no reconnection and no step of
\* the router makes two messages of one.
NothingIsDuplicated ==
    Cardinality(InPlay) <= Cardinality({c \in Conns : link[c] # "new"})

\* Unless a segment ends inside a message, messages are answered by the node
\* they name, and the answer goes back to where the message came from: whatever
\* breaks, processMessage() never finds a message of somebody else, whose empty
\* reply start() would take for a failed send.
RepliesAreAddressed ==
    "cut" \notin faults.kinds =>
        \A n \in Nodes :
            at[n] = "reply" =>
                /\ out[n] # <<>>
                /\ out[n][1] = n
                /\ DstId[n] = out[n][3] \/ DstId[out[n][3]] = n

\* With the same exception, a node that connects again has no other connection
\* that still works, so the router never has two live clients that are the
\* same node; and a node closes no connection that works.
OneLiveLink ==
    "cut" \notin faults.kinds =>
        \A n \in Nodes : \A k \in 1 .. MaxConnects :
            link[<<n, k>>] = "open" => k = attempt[n] /\ k \in sockets[n]

\* Two nodes that name each other keep talking: in whatever order they and the
\* router start, the message of the later node finds the other one registered,
\* both queues of the router have a worker, and after a crash of the router or
\* a start that failed all of them start over.
KeepsTalking == \A n \in Nodes : []<>(at[n] = "reply")

\* The messages for a node go to the connection it has subscribed on for as
\* long as that connection lasts, also after a crash of the router and when a
\* node connects again beside a connection that works.  (Not when one
\* connection breaks: the node may subscribe again before the router removes
\* the old session, and removeSession() then takes the new entry.)
SubscribedNodeIsReachable ==
    faults.kinds \cap {"reset", "refuse", "restart"} = {} =>
        \A n \in Nodes :
            LET c == Conn(n) IN
            attempt[n] > 0 /\ link[c] = "open" /\ name[c] = n =>
                directory[n] = c
=============================================================================
