--------------------------- MODULE RoutingService ---------------------------
(***************************************************************************)
(* What the router promises its clients, without its threads, queues,      *)
(* mutexes and descriptors.  Every message taken from a registered client  *)
(* is carried to the connection its destination id names at that moment,   *)
(* once and in any order; it is lost only if nobody has that id, or if the *)
(* connection ends, is removed or is too slow.  Module Router implements   *)
(* this service (ImplementsService there), and module System runs the      *)
(* nodes on it.                                                            *)
(*                                                                         *)
(* Text is a sequence of chunks as in module Router: an id message is one  *)
(* chunk, a data message is three: source id, body, destination id.        *)
(***************************************************************************)
EXTENDS Integers, Sequences, BagsExt, Bags

CONSTANTS
    Conns,              \* connections
    Values,             \* the numbers std::stoi finds in a chunk
    nullptr,            \* no connection
    MAX_CLIENTS_COUNT,  \* node ids from here on are refused
    SlowPeers           \* connections whose send buffer may be full

NONE == -1
ID_MESSAGE_SIZE == 1
DATA_MESSAGE_SIZE == 3

VARIABLES
    link,       \* link[c]: new, open, closed, reset or refused
    seat,       \* seat[c]: waiting for accept(), seated, or left
    name,       \* name[c]: the node id registered on c
    directory,  \* directory[i]: the connection messages for node i go to
    unread,     \* unread[c]: chunks sent by the client, not yet acted upon
    transit,    \* bag of the messages taken and not yet delivered
    mail        \* mail[c]: chunks delivered to c, not yet read by the client

clients == <<link, unread, mail>>
service == <<seat, name, directory, transit>>

ServiceInit ==
    /\ link = [c \in Conns |-> "new"]
    /\ seat = [c \in Conns |-> "waiting"]
    /\ name = [c \in Conns |-> NONE]
    /\ directory = [i \in Values |-> nullptr]
    /\ unread = [c \in Conns |-> <<>>]
    /\ transit = EmptyBag
    /\ mail = [c \in Conns |-> <<>>]

Ended(c) == link[c] \in {"closed", "reset"}

-----------------------------------------------------------------------------
\* The clients and the network

Open(c) ==
    /\ link[c] = "new"
    /\ link' = [link EXCEPT ![c] = "open"]
    /\ UNCHANGED <<service, unread, mail>>

Send(c, text) ==
    /\ link[c] = "open"
    /\ unread' = [unread EXCEPT ![c] = @ \o text]
    /\ UNCHANGED <<service, link, mail>>

Close(c) ==
    /\ link[c] = "open"
    /\ link' = [link EXCEPT ![c] = "closed"]
    /\ UNCHANGED <<service, unread, mail>>

\* The router still has the first n chunks; the rest is lost.
Reset(c, n) ==
    /\ link[c] = "open"
    /\ link' = [link EXCEPT ![c] = "reset"]
    /\ unread' = [unread EXCEPT ![c] = SubSeq(@, 1, n)]
    /\ UNCHANGED <<service, mail>>

-----------------------------------------------------------------------------
\* The router

\* accept_client()
Admit(c) ==
    /\ link[c] \notin {"new", "refused"}
    /\ seat[c] = "waiting"
    /\ seat' = [seat EXCEPT ![c] = "seated"]
    /\ UNCHANGED <<clients, name, directory, transit>>

\* The socket cannot be made non-blocking and is closed.
Refuse(c) ==
    /\ link[c] \notin {"new", "refused"}
    /\ seat[c] = "waiting"
    /\ link' = [link EXCEPT ![c] = "refused"]
    /\ unread' = [unread EXCEPT ![c] = <<>>]
    /\ UNCHANGED <<service, mail>>

\* MUTANT of Claim: the first to claim an id keeps it.
ClaimFirst(node_id, c) ==
    IF directory[node_id] = nullptr THEN [directory EXCEPT ![node_id] = c]
    ELSE directory

\* The last to claim an id has it.
Claim(node_id, c) == [directory EXCEPT ![node_id] = c]

\* handle_handshake() and add_node()
Register(c) ==
    /\ seat[c] = "seated"
    /\ name[c] = NONE
    /\ Len(unread[c]) >= ID_MESSAGE_SIZE
    /\ unread' = [unread EXCEPT ![c] = Tail(@)]
    /\ LET node_id == Head(unread[c]) IN
       IF node_id >= MAX_CLIENTS_COUNT
       THEN UNCHANGED <<name, directory>>
       ELSE /\ name' = [name EXCEPT ![c] = node_id]
            /\ directory' = Claim(node_id, c)
    /\ UNCHANGED <<link, mail, seat, transit>>

\* process_message(): a message for nobody is dropped.
Take(c) ==
    /\ seat[c] = "seated"
    /\ name[c] # NONE
    /\ Len(unread[c]) >= DATA_MESSAGE_SIZE
    /\ unread' =
          [unread EXCEPT ![c] = SubSeq(@, DATA_MESSAGE_SIZE + 1, Len(@))]
    /\ LET text == SubSeq(unread[c], 1, DATA_MESSAGE_SIZE)
           to == directory[text[DATA_MESSAGE_SIZE]]
       IN transit' = IF to = nullptr THEN transit
                     ELSE BagAdd(transit, [to |-> to, msg |-> text])
    /\ UNCHANGED <<link, mail, seat, name, directory>>

\* What has arrived is less than a message, and is dropped.
Discard(c) ==
    /\ seat[c] = "seated"
    /\ name[c] # NONE
    /\ Len(unread[c]) \in 1 .. DATA_MESSAGE_SIZE - 1
    /\ unread' = [unread EXCEPT ![c] = <<>>]
    /\ UNCHANGED <<service, link, mail>>

\* removeSession(): the directory entry goes, whichever connection it names.
Leave(c) ==
    /\ seat[c] = "seated"
    /\ Ended(c) \/ c \in SlowPeers
    /\ seat' = [seat EXCEPT ![c] = "left"]
    /\ directory' = IF name[c] = NONE THEN directory
                    ELSE [directory EXCEPT ![name[c]] = nullptr]
    /\ UNCHANGED <<clients, name, transit>>

\* MUTANT of Hand: the task stays in the queue.
HandKeeps(task, n) ==
    /\ mail' = [mail EXCEPT ![task.to] = @ \o SubSeq(task.msg, 1, n)]
    /\ UNCHANGED <<link, unread, service>>

\* A message leaves the router with n of its chunks delivered.
Hand(task, n) ==
    /\ transit' = BagRemove(transit, task)
    /\ mail' = [mail EXCEPT ![task.to] = @ \o SubSeq(task.msg, 1, n)]
    /\ UNCHANGED <<link, unread, seat, name, directory>>

Deliver(task) ==
    /\ link[task.to] \in {"open", "closed"}
    /\ Hand(task, DATA_MESSAGE_SIZE)

\* The addressee's connection is over or its buffer is full.
Lose(task) ==
    /\ Ended(task.to) \/ seat[task.to] = "left" \/ task.to \in SlowPeers
    /\ Hand(task, 0)

\* The addressee's buffer took a part of the message before it was full.
Tear(task) ==
    /\ task.to \in SlowPeers
    /\ \E n \in 1 .. DATA_MESSAGE_SIZE - 1 : Hand(task, n)

-----------------------------------------------------------------------------
ServiceNext ==
    \/ \E c \in Conns :
          \/ Open(c) \/ Close(c)
          \/ Send(c, SubSeq(unread'[c], Len(unread[c]) + 1, Len(unread'[c])))
          \/ \E n \in 0 .. Len(unread[c]) : Reset(c, n)
          \/ Admit(c) \/ Refuse(c) \/ Register(c) \/ Take(c) \/ Discard(c)
          \/ Leave(c)
    \/ \E task \in BagToSet(transit) :
          Deliver(task) \/ Lose(task) \/ Tear(task)

ServiceSpec == ServiceInit /\ [][ServiceNext]_<<clients, service>>
=============================================================================
