-------------------------------- MODULE Node --------------------------------
(***************************************************************************)
(* node/src/node.cpp with node/src/tcp_socket.cpp and node/main.cpp: a     *)
(* node connects, sends its id, sends a first message, and then answers    *)
(* every message it gets, reconnecting when something fails.  The sockets  *)
(* are those of module RoutingService: the k-th connection of node n is    *)
(* <<n, k>>.  Nodes are named by their ids.                                *)
(*                                                                         *)
(* The socket is blocking, so send() takes the whole text or fails, and    *)
(* recv() waits.  It may return less than it was asked for: ShortRecv.     *)
(***************************************************************************)
EXTENDS FiniteSets, RoutingService, Startup

CONSTANTS
    Nodes,          \* the ids of the nodes
    DstId,          \* DstId[n]: second argument of node n
    FIRST_MTI, MTI_STEP, MTI_LIMIT,     \* 2200, 10 and 10000 in the code
    MaxConnects     \* bound: connections a node makes

MAX_RETRY == 3

ASSUME NodesAssumption ==
    /\ Nodes \subseteq Values \ {NONE}
    /\ MAX_CLIENTS_COUNT \in Nat /\ \A n \in Nodes : n < MAX_CLIENTS_COUNT
    /\ DstId \in [Nodes -> Values]
    /\ MaxConnects \in Nat
    /\ Conns = Nodes \X (1 .. MaxConnects)

\* A number fits into a chunk, and the MTI stays below its limit.
ASSUME ValuesAssumption ==
    /\ Values \subseteq Int /\ NONE \in Values
    /\ nullptr \notin Conns
    /\ FIRST_MTI \in Values /\ MTI_STEP \in Nat /\ MTI_LIMIT \in Nat \ {0}
    /\ 0 .. MTI_LIMIT - 1 \subseteq Values

VARIABLES
    at,             \* at[n]: where Node::start() is
    attempt,        \* attempt[n]: connections made, the last one is in use
    retry_count,    \* retry_count[n]: local of send_message()
    out,            \* out[n]: the text send_message() is sending
    sockets         \* sockets[n]: connections whose socket n has not closed

node == <<at, attempt, retry_count, out, sockets>>

Steps == {"connect", "sleep", "subscribe", "initiate", "recv", "reply"}

NodeInit ==
    /\ at = [n \in Nodes |-> "connect"]
    /\ attempt = [n \in Nodes |-> 0]
    /\ retry_count = [n \in Nodes |-> 0]
    /\ out = [n \in Nodes |-> <<>>]
    /\ sockets = [n \in Nodes |-> {}]

Conn(n) == <<n, attempt[n]>>

buildIdMessage(id) == <<id>>

buildFirstMessage(src, dst) == <<src, FIRST_MTI, dst>>

\* MUTANT of processMessage: the ids are not swapped.
processMessageEcho(id, text) ==
    IF text[3] # id THEN <<>>
    ELSE <<text[1], (text[2] + MTI_STEP) % MTI_LIMIT, text[3]>>

\* MUTANT of processMessage: the wrong id is compared.
processMessageSource(id, text) ==
    IF text[1] # id THEN <<>>
    ELSE <<text[3], (text[2] + MTI_STEP) % MTI_LIMIT, text[1]>>

\* The reply, or nothing if the message is for somebody else.
processMessage(id, text) ==
    IF text[3] # id THEN <<>>
    ELSE <<text[3], (text[2] + MTI_STEP) % MTI_LIMIT, text[1]>>

\* start() goes to a step where send_message(text) begins, or to another one.
Go(n, step, text) ==
    /\ at' = [at EXCEPT ![n] = step]
    /\ out' = [out EXCEPT ![n] = text]
    /\ retry_count' = [retry_count EXCEPT ![n] = 0]

\* connect_to_server()
Connect(n) ==
    /\ at[n] = "connect"
    /\ router = "up"
    /\ attempt[n] < MaxConnects
    /\ attempt' = [attempt EXCEPT ![n] = @ + 1]
    /\ Open(<<n, attempt[n] + 1>>)
    /\ sockets' = [sockets EXCEPT ![n] = @ \cup {attempt[n] + 1}]
    /\ Go(n, "subscribe", buildIdMessage(n))
    /\ UNCHANGED startup

\* No router, or no room in its backlog: the new socket is closed.
ConnectFails(n) ==
    /\ at[n] = "connect"
    /\ Go(n, "sleep", <<>>)
    /\ UNCHANGED <<clients, service, startup, attempt, sockets>>

\* The end of sleep(5000).
Wake(n) ==
    /\ at[n] = "sleep"
    /\ Go(n, "connect", <<>>)
    /\ UNCHANGED <<clients, service, startup, attempt, sockets>>

\* send_message() returns NO_ERR.
Sent(n) ==
    \/ /\ at[n] = "subscribe"
       /\ Go(n, "initiate", buildFirstMessage(n, DstId[n]))
    \/ /\ at[n] \in {"initiate", "reply"}
       /\ Go(n, "recv", <<>>)

\* sendMessage() returns the length of the text.
SendOk(n) ==
    /\ out[n] # <<>>
    /\ Send(Conn(n), out[n])
    /\ Sent(n)
    /\ UNCHANGED <<startup, attempt, sockets>>

\* It also does when the connection has just ended; the text is lost.
SendLost(n) ==
    /\ out[n] # <<>>
    /\ link[Conn(n)] # "open"
    /\ Sent(n)
    /\ UNCHANGED <<clients, service, startup, attempt, sockets>>

\* sendMessage() fails, or returns 0 because the text is empty.
SendFailing(n) ==
    /\ at[n] \in {"subscribe", "initiate", "reply"}
    /\ out[n] = <<>> \/ link[Conn(n)] # "open"

\* MUTANT of SendAgain: one try too many.
SendTooOften(n) ==
    /\ SendFailing(n)
    /\ retry_count[n] < MAX_RETRY
    /\ retry_count' = [retry_count EXCEPT ![n] = @ + 1]
    /\ UNCHANGED <<clients, service, startup, at, attempt, out, sockets>>

SendAgain(n) ==
    /\ SendFailing(n)
    /\ retry_count[n] < MAX_RETRY - 1
    /\ retry_count' = [retry_count EXCEPT ![n] = @ + 1]
    /\ UNCHANGED <<clients, service, startup, at, attempt, out, sockets>>

closeConnection(n) == sockets' = [sockets EXCEPT ![n] = @ \ {attempt[n]}]

\* The last try fails: start() connects again, without a delay; after a reply
\* it does not close the socket.
GiveUp(n) ==
    /\ SendFailing(n)
    /\ retry_count[n] = MAX_RETRY - 1
    /\ IF at[n] = "reply" THEN UNCHANGED sockets ELSE closeConnection(n)
    /\ Go(n, "connect", <<>>)
    /\ UNCHANGED <<clients, service, startup, attempt>>

\* recv() returns k chunks.
Recv(n, k) ==
    /\ at[n] = "recv"
    /\ Len(mail[Conn(n)]) >= k
    /\ mail' = [mail EXCEPT ![Conn(n)] = SubSeq(@, k + 1, Len(@))]
    /\ UNCHANGED <<link, unread, service, startup, attempt, sockets>>

RecvMessage(n) ==
    /\ Recv(n, DATA_MESSAGE_SIZE)
    /\ Go(n, "reply",
          processMessage(n, SubSeq(mail[Conn(n)], 1, DATA_MESSAGE_SIZE)))

\* Less than a message: only a warning, the text is dropped.
ShortRecv(n, k) ==
    /\ k \in 1 .. DATA_MESSAGE_SIZE - 1
    /\ Recv(n, k)
    /\ UNCHANGED <<at, out, retry_count>>

\* recv() returns 0 or fails.
RecvError(n) ==
    /\ at[n] = "recv"
    /\ link[Conn(n)] # "open"
    /\ closeConnection(n)
    /\ Go(n, "connect", <<>>)
    /\ UNCHANGED <<clients, service, startup, attempt>>

NodeStep(n) ==
    \/ Wake(n)
    \/ SendOk(n)
    \/ SendLost(n)
    \/ SendAgain(n)
    \/ GiveUp(n)
    \/ RecvMessage(n)
    \/ RecvError(n)
=============================================================================
