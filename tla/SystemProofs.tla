---------------------------- MODULE SystemProofs ----------------------------
(***************************************************************************)
(* For any nodes, connections and faults: the types of the system's state, *)
(* that replies are addressed, that a node has one live connection, that a *)
(* subscribed node is reachable, and that no message becomes two.          *)
(***************************************************************************)
EXTENDS System, SequenceFacts, FiniteSetTheorems

\* Nodes a node exchanges messages with: the one it names, and those that name
\* it.
Peers(n) == {b \in Values : DstId[n] = b \/ (b \in Nodes /\ DstId[b] = n)}

\* A text of data messages with sources in A and destinations in B.
Train(text, A, B) ==
    /\ Len(text) % 3 = 0
    /\ \A i \in 1 .. Len(text) : /\ i % 3 = 1 => text[i] \in A
                                 /\ i % 3 = 0 => text[i] \in B

-----------------------------------------------------------------------------
(* Invariants of every run.                                                  *)

\* What is in transit is a whole message.
TasksWhole == \A task \in BagToSet(transit) : Len(task.msg) = DATA_MESSAGE_SIZE

TypeInv == TypeOK /\ TasksWhole

\* Connections are used in order, and nothing has happened on those to come.
LinksInOrder ==
    \A n \in Nodes : \A k \in 1 .. MaxConnects :
        link[<<n, k>>] = "new" <=> k > attempt[n]

NewIsUntouched ==
    \A c \in Conns :
        link[c] = "new" => seat[c] = "waiting" /\ name[c] = NONE /\ unread[c] = <<>>

\* A connection is registered under the id of its node, or its text begins with
\* that id; what was routed to it went by its registration.
NamesAreOwn ==
    \A c \in Conns :
        IF name[c] = NONE
        THEN mail[c] = <<>> /\ (unread[c] # <<>> => unread[c][1] = c[1])
        ELSE name[c] = c[1]

RoutesAreNamed ==
    /\ \A i \in Values :
          directory[i] # nullptr => i # NONE /\ name[directory[i]] = i
    /\ \A task \in BagToSet(transit) : name[task.to] # NONE

\* A node subscribes on an untouched connection, before anything else.
SubscribesFirst(n) ==
    LET c == Conn(n) IN
    /\ at[n] = "subscribe" =>
          out[n] = <<n>> /\ name[c] = NONE /\ unread[c] = <<>>
    /\ at[n] = "initiate" => out[n] = <<n, FIRST_MTI, DstId[n]>>
    /\ at[n] \in {"initiate", "recv", "reply"} /\ link[c] = "open" =>
          name[c] # NONE \/ unread[c] # <<>>
    /\ at[n] = "reply" =>
          name[c] # NONE /\ (out[n] = <<>> \/ Len(out[n]) = DATA_MESSAGE_SIZE)

NodesSubscribeFirst == \A n \in Nodes : SubscribesFirst(n)

SubscribeInv ==
    /\ LinksInOrder /\ NewIsUntouched /\ NamesAreOwn /\ RoutesAreNamed
    /\ NodesSubscribeFirst

-----------------------------------------------------------------------------
(* Invariants of runs in which no segment ends inside a message.             *)

NoCuts == "cut" \notin faults.kinds

\* What a client has sent: messages to its peers, after its id.
Outgoing(c) ==
    IF name[c] # NONE THEN Train(unread[c], {c[1]}, Peers(c[1]))
    ELSE unread[c] = <<>> \/ Train(Tail(unread[c]), {c[1]}, Peers(c[1]))

Senders(n) == Peers(n) \cap Nodes

\* What is delivered or carried to a client: messages for it, from its peers.
Incoming(c) == Train(mail[c], Senders(c[1]), {c[1]})

CarriedRight ==
    \A task \in BagToSet(transit) :
        task.msg[3] = task.to[1] /\ task.msg[1] \in Senders(task.to[1])

Answers(n) == at[n] = "reply" => out[n] # <<>> /\ out[n][1] = n /\ out[n][3] \in Senders(n)

\* Only the last connection of a node works, none while the node connects.
LastIsLive(n) ==
    \A k \in 1 .. MaxConnects :
        link[<<n, k>>] = "open" =>
            /\ k = attempt[n] /\ k \in sockets[n]
            /\ at[n] \notin {"connect", "sleep"}

AlignedInv ==
    NoCuts => /\ \A c \in Conns : Outgoing(c) /\ Incoming(c)
              /\ CarriedRight
              /\ \A n \in Nodes : Answers(n) /\ LastIsLive(n)

-----------------------------------------------------------------------------
(* Invariants of runs in which connections only break with the router.       *)

OnlyRouterFails == faults.kinds \cap {"reset", "refuse", "restart"} = {}

\* The router has removed the connections that are over.
GoneHaveLeft ==
    \A c \in Conns : link[c] \in {"new", "open"} \/ seat[c] = "left"

\* A connection that works and that its node no longer uses is registered.
OlderAreNamed ==
    \A n \in Nodes : \A k \in 1 .. MaxConnects :
        /\ link[<<n, k>>] = "open"
        /\ k < attempt[n] \/ at[n] \in {"connect", "sleep"}
        => name[<<n, k>>] # NONE

Reachable(n) ==
    attempt[n] > 0 /\ link[Conn(n)] = "open" /\ name[Conn(n)] = n =>
        directory[n] = Conn(n)

ReachInv ==
    OnlyRouterFails => GoneHaveLeft /\ OlderAreNamed /\ \A n \in Nodes : Reachable(n)

-----------------------------------------------------------------------------
(* Each connection adds a message.                                           *)

\* Nodes that have a connection and have yet to send their first message on it.
Starting == {<<"start", n>> : n \in {m \in Nodes : at[m] \in {"subscribe", "initiate"}}}

Made == {c \in Conns : link[c] # "new"}

Total == InPlay \cup Starting

TransitIsBag == \A task \in BagToSet(transit) : transit[task] \in Nat \ {0}

CountInv ==
    /\ TransitIsBag
    /\ IsFiniteSet(Total) /\ IsFiniteSet(Made)
    /\ Cardinality(Total) <= Cardinality(Made)

-----------------------------------------------------------------------------
(* Types.                                                                    *)

LinkStates == {"new", "open", "closed", "reset", "refused"}

ServiceTypeOK ==
    /\ link \in [Conns -> LinkStates]
    /\ seat \in [Conns -> {"waiting", "seated", "left"}]
    /\ name \in [Conns -> Values]
    /\ directory \in [Values -> Conns \cup {nullptr}]
    /\ unread \in [Conns -> Texts] /\ mail \in [Conns -> Texts]
    /\ \A task \in BagToSet(transit) :
          task \in [to : Conns, msg : Texts] /\ Len(task.msg) = DATA_MESSAGE_SIZE

StartupTypeOK == router \in Stages /\ readers \in Nat /\ writers \in Nat

NodeTypeOK ==
    /\ at \in [Nodes -> Steps]
    /\ attempt \in [Nodes -> 0 .. MaxConnects]
    /\ retry_count \in [Nodes -> 0 .. MAX_RETRY - 1]
    /\ out \in [Nodes -> Texts]
    /\ sockets \in [Nodes -> SUBSET (1 .. MaxConnects)]
    /\ \A n \in Nodes : at[n] \notin {"connect", "sleep"} => attempt[n] > 0

\* TypeInv is the conjunction of these parts.
LEMMA TypeParts == TypeInv <=> ServiceTypeOK /\ StartupTypeOK /\ NodeTypeOK
BY DEF TypeInv, TypeOK, TasksWhole, ServiceTypeOK, StartupTypeOK, NodeTypeOK,
       LinkStates

\* The same in the next state.
LEMMA TypePartsNext ==
    TypeInv' <=> ServiceTypeOK' /\ StartupTypeOK' /\ NodeTypeOK'
BY TypeParts, PTL

\* What is in a bag with one element more, or one less.
LEMMA BagElements ==
    ASSUME NEW B, NEW x
    PROVE  /\ BagToSet(BagAdd(B, x)) = BagToSet(B) \cup {x}
           /\ BagToSet(BagRemove(B, x)) \subseteq BagToSet(B)
BY DEF BagToSet, BagAdd, BagRemove

\* The connection a node uses, once it has one.
LEMMA ConnIsConn ==
    ASSUME NodeTypeOK, NEW n \in Nodes, attempt[n] > 0
    PROVE  Conn(n) \in Conns /\ attempt[n] \in 1 .. MaxConnects
<1>1. attempt[n] \in 1 .. MaxConnects
      BY NodesAssumption DEF NodeTypeOK
<1> QED BY <1>1, NodesAssumption DEF Conn

\* The first message of a text, and what follows it.
LEMMA FirstMessage ==
    ASSUME NEW V, NEW s \in Seq(V), Len(s) >= 3
    PROVE  /\ SubSeq(s, 1, 3) \in Seq(V) /\ Len(SubSeq(s, 1, 3)) = 3
           /\ \A i \in 1 .. 3 : SubSeq(s, 1, 3)[i] = s[i] /\ s[i] \in V
           /\ SubSeq(s, 4, Len(s)) \in Seq(V)
           /\ Len(SubSeq(s, 4, Len(s))) = Len(s) - 3
           /\ \A i \in 1 .. Len(s) - 3 : SubSeq(s, 4, Len(s))[i] = s[i + 3]
<1>1. Len(s) \in Nat /\ \A i \in 1 .. Len(s) : s[i] \in V
      BY ElementOfSeq, LenProperties
<1>2. \A i \in 1 .. 3 : i \in 1 .. Len(s)
      BY <1>1
<1>3. /\ SubSeq(s, 1, 3) \in Seq(V) /\ Len(SubSeq(s, 1, 3)) = 3
      /\ \A i \in 1 .. 3 : SubSeq(s, 1, 3)[i] = s[i]
  <2>1. /\ SubSeq(s, 1, 3) \in Seq(V)
        /\ Len(SubSeq(s, 1, 3)) = IF 1 <= 3 THEN 3 - 1 + 1 ELSE 0
        /\ \A i \in 1 .. 3 - 1 + 1 : SubSeq(s, 1, 3)[i] = s[1 + i - 1]
        BY <1>1, <1>2, SubSeqProperties
  <2>2. \A i \in 1 .. 3 : 1 + i - 1 = i /\ i \in 1 .. 3 - 1 + 1
        OBVIOUS
  <2> QED BY <2>1, <2>2
<1>4. \A i \in 4 .. Len(s) : s[i] \in V
      BY <1>1
<1>5. /\ SubSeq(s, 4, Len(s)) \in Seq(V)
      /\ Len(SubSeq(s, 4, Len(s))) = IF 4 <= Len(s) THEN Len(s) - 4 + 1 ELSE 0
      /\ \A i \in 1 .. Len(s) - 4 + 1 : SubSeq(s, 4, Len(s))[i] = s[4 + i - 1]
      BY <1>1, <1>4, SubSeqProperties
<1>6. Len(SubSeq(s, 4, Len(s))) = Len(s) - 3
  <2>1. \A n \in Nat : n >= 3 => (IF 4 <= n THEN n - 4 + 1 ELSE 0) = n - 3
        OBVIOUS
  <2> QED BY <1>1, <1>5, <2>1, Zenon
<1>7. \A i \in 1 .. Len(s) - 3 : SubSeq(s, 4, Len(s))[i] = s[i + 3]
  <2> TAKE i \in 1 .. Len(s) - 3
  <2>1. i \in 1 .. Len(s) - 4 + 1 /\ 4 + i - 1 = i + 3
        BY <1>1
  <2> QED BY <1>5, <2>1
<1> QED BY <1>1, <1>2, <1>3, <1>5, <1>6, <1>7

\* What a send, a receipt, a take or a reset makes of a buffer is a text.
LEMMA TextParts ==
    ASSUME NEW s \in Texts, NEW t \in Texts
    PROVE  /\ s \o t \in Texts /\ <<>> \in Texts
           /\ SubSeq(s, 1, 0) = <<>>
           /\ s # <<>> => Tail(s) \in Texts /\ Head(s) \in Values /\ Head(s) = s[1]
           /\ \A k \in 0 .. Len(s) : SubSeq(s, k + 1, Len(s)) \in Texts
<1>1. s \in Seq(Values) /\ t \in Seq(Values)
      BY DEF Texts
<1>2. s \o t \in Seq(Values)
      BY <1>1, ConcatProperties
<1>3. SubSeq(s, 1, 0) = <<>>
      BY SubSeqEmpty
<1>4. \A k \in 0 .. Len(s) : SubSeq(s, k + 1, Len(s)) \in Seq(Values)
      BY <1>1, FrontAndRest
<1>5. s # <<>> => Tail(s) \in Seq(Values) /\ Head(s) \in Values /\ Head(s) = s[1]
      BY <1>1, HeadTailProperties
<1> QED BY <1>2, <1>3, <1>4, <1>5 DEF Texts

\* Nothing has happened.
LEMMA InitTypeInv == Init => TypeInv
<1> SUFFICES ASSUME Init PROVE TypeInv
    OBVIOUS
<1>1. <<>> \in Texts
      BY DEF Texts
<1>2. ServiceTypeOK
  <2>1. BagToSet(EmptyBag) = {}
        BY DEF BagToSet, EmptyBag, SetToBag
  <2> QED BY <1>1, <2>1, ValuesAssumption
          DEF Init, ServiceInit, ServiceTypeOK, LinkStates
<1>3. StartupTypeOK
      BY DEF Init, StartupInit, StartupTypeOK, Stages
<1>4. NodeTypeOK
      BY <1>1, NodesAssumption DEF Init, NodeInit, NodeTypeOK, Steps, MAX_RETRY
<1> QED BY <1>2, <1>3, <1>4, TypeParts

\* What the router does for a connection.
LEMMA ServeType ==
    ASSUME ServiceTypeOK, NEW c \in Conns,
           Admit(c) \/ Refuse(c) \/ Register(c) \/ Take(c) \/ Leave(c)
    PROVE  ServiceTypeOK'
<1> USE DEF service, clients
<1>1. unread[c] \in Texts /\ name[c] \in Values
      BY DEF ServiceTypeOK
<1>2. CASE Admit(c)
      BY <1>2 DEF Admit, ServiceTypeOK
<1>3. CASE Refuse(c)
  <2>1. unread' \in [Conns -> Texts] /\ link' \in [Conns -> LinkStates]
        BY <1>1, <1>3, TextParts DEF Refuse, ServiceTypeOK, LinkStates
  <2> QED BY <1>3, <2>1 DEF Refuse, ServiceTypeOK
<1>4. CASE Register(c)
  <2>1. unread[c] # <<>>
        BY <1>4 DEF Register, ID_MESSAGE_SIZE
  <2>2. Tail(unread[c]) \in Texts /\ Head(unread[c]) \in Values
        BY <1>1, <2>1, TextParts
  <2>3. unread' \in [Conns -> Texts]
        BY <1>4, <2>2 DEF Register, ServiceTypeOK
  <2>4. name' \in [Conns -> Values] /\ directory' \in [Values -> Conns \cup {nullptr}]
        BY <1>4, <2>2 DEF Register, Claim, ServiceTypeOK
  <2> QED BY <1>4, <2>3, <2>4 DEF Register, ServiceTypeOK
<1>5. CASE Take(c)
  <2>1. PICK m : m = SubSeq(unread[c], 1, 3)
        OBVIOUS
  <2>2. /\ m \in Texts /\ Len(m) = 3 /\ m[3] \in Values
        /\ SubSeq(unread[c], 4, Len(unread[c])) \in Texts
        BY <1>1, <1>5, <2>1, FirstMessage DEF Take, Texts, DATA_MESSAGE_SIZE
  <2>3. unread' \in [Conns -> Texts]
        BY <1>5, <2>2 DEF Take, ServiceTypeOK, DATA_MESSAGE_SIZE
  <2>4. /\ transit' = IF directory[m[3]] = nullptr THEN transit
                      ELSE BagAdd(transit, [to |-> directory[m[3]], msg |-> m])
        /\ UNCHANGED <<link, mail, seat, name, directory>>
        BY <1>5, <2>1 DEF Take, DATA_MESSAGE_SIZE
  <2>5. directory[m[3]] # nullptr => directory[m[3]] \in Conns
        BY <2>2 DEF ServiceTypeOK
  <2>6. \A task \in BagToSet(transit') :
            task \in BagToSet(transit)
            \/ (directory[m[3]] # nullptr /\ task = [to |-> directory[m[3]], msg |-> m])
        BY <2>4, BagElements
  <2>7. \A task \in BagToSet(transit') :
            task \in [to : Conns, msg : Texts] /\ Len(task.msg) = DATA_MESSAGE_SIZE
        BY <2>2, <2>5, <2>6 DEF ServiceTypeOK, DATA_MESSAGE_SIZE
  <2> QED BY <2>3, <2>4, <2>7 DEF ServiceTypeOK
<1>6. CASE Leave(c)
      BY <1>1, <1>6 DEF Leave, ServiceTypeOK
<1> QED BY <1>2, <1>3, <1>4, <1>5, <1>6

\* What a delivery, or a loss, does: the rest of the state stays.
LEMMA HandStep ==
    ASSUME ServiceTypeOK, NEW task \in BagToSet(transit), Deliver(task) \/ Lose(task)
    PROVE  /\ task.to \in Conns /\ task.msg \in Texts /\ Len(task.msg) = 3
           /\ \/ mail' = mail
              \/ mail' = [mail EXCEPT ![task.to] = @ \o task.msg]
           /\ BagToSet(transit') \subseteq BagToSet(transit)
           /\ UNCHANGED <<link, unread, seat, name, directory>>
<1>1. task.to \in Conns /\ task.msg \in Texts /\ Len(task.msg) = 3
      BY DEF ServiceTypeOK, DATA_MESSAGE_SIZE
<1>2. /\ BagToSet(transit') \subseteq BagToSet(transit)
      /\ UNCHANGED <<link, unread, seat, name, directory>>
      BY BagElements DEF Deliver, Lose, Hand
<1>3. CASE Deliver(task)
  <2>1. SubSeq(task.msg, 1, 3) = task.msg
        BY <1>1, SubSeqFull DEF Texts
  <2> QED BY <1>1, <1>2, <1>3, <2>1 DEF Deliver, Hand, DATA_MESSAGE_SIZE
<1>4. CASE Lose(task)
  <2>1. SubSeq(task.msg, 1, 0) = <<>> /\ mail[task.to] \o <<>> = mail[task.to]
        BY <1>1, TextParts, ConcatEmptySeq DEF ServiceTypeOK, Texts
  <2>2. mail' = mail
        BY <1>1, <1>4, <2>1 DEF Lose, Hand, ServiceTypeOK
  <2> QED BY <1>1, <1>2, <2>2
<1> QED BY <1>3, <1>4

\* Deliver and Lose keep the types.
LEMMA HandType ==
    ASSUME ServiceTypeOK, NEW task \in BagToSet(transit), Deliver(task) \/ Lose(task)
    PROVE  ServiceTypeOK'
<1>1. /\ task.to \in Conns /\ task.msg \in Texts
      /\ mail' = mail \/ mail' = [mail EXCEPT ![task.to] = @ \o task.msg]
      /\ BagToSet(transit') \subseteq BagToSet(transit)
      /\ UNCHANGED <<link, unread, seat, name, directory>>
      BY HandStep
<1>2. mail[task.to] \o task.msg \in Texts
      BY <1>1, TextParts DEF ServiceTypeOK
<1>3. mail' \in [Conns -> Texts]
      BY <1>1, <1>2 DEF ServiceTypeOK
<1> QED BY <1>1, <1>3 DEF ServiceTypeOK

\* start() and the process that ends.
LEMMA StartupType ==
    ASSUME StartupTypeOK, Boot \/ StartFails \/ ListenFails \/ Stop \/ UNCHANGED startup
    PROVE  StartupTypeOK'
BY DEF StartupTypeOK, Boot, StartFails, ListenFails, Stop, Main, SpawnReader,
       SpawnWriter, InitSessions, OpenSocket, Bind, Listen, Stages, startup

\* A node goes to its next step.
LEMMA GoStep ==
    ASSUME NodeTypeOK, NEW n \in Nodes, NEW step \in Steps, NEW text \in Texts,
           Go(n, step, text)
    PROVE  /\ at' \in [Nodes -> Steps] /\ at'[n] = step
           /\ out' \in [Nodes -> Texts] /\ out'[n] = text
           /\ retry_count' \in [Nodes -> 0 .. MAX_RETRY - 1]
           /\ \A m \in Nodes \ {n} : at'[m] = at[m] /\ out'[m] = out[m]
<1>1. 0 \in 0 .. MAX_RETRY - 1
      BY DEF MAX_RETRY
<1> QED BY <1>1 DEF Go, NodeTypeOK

\* The texts a node sends.
LEMMA NodeTexts ==
    ASSUME NEW n \in Nodes
    PROVE  /\ n \in Values /\ DstId[n] \in Values
           /\ <<>> \in Texts
           /\ buildIdMessage(n) \in Texts
           /\ buildFirstMessage(n, DstId[n]) \in Texts
<1>1. n \in Values /\ DstId[n] \in Values /\ FIRST_MTI \in Values
      BY NodesAssumption, ValuesAssumption
<1> QED BY <1>1 DEF Texts, buildIdMessage, buildFirstMessage

\* What processMessage() returns is a text.
LEMMA ReplyText ==
    ASSUME NEW n \in Nodes, NEW s \in Texts, Len(s) = 3
    PROVE  processMessage(n, s) \in Texts
<1>1. s[1] \in Values /\ s[2] \in Values /\ s[3] \in Values
  <2>1. \A i \in 1 .. Len(s) : s[i] \in Values
        BY ElementOfSeq DEF Texts
  <2>2. 1 \in 1 .. 3 /\ 2 \in 1 .. 3 /\ 3 \in 1 .. 3
        OBVIOUS
  <2> QED BY <2>1, <2>2
<1>2. (s[2] + MTI_STEP) % MTI_LIMIT \in Values
  <2>1. \A x \in Int, d \in Nat, l \in Nat \ {0} : (x + d) % l \in 0 .. l - 1
        OBVIOUS
  <2> QED BY <1>1, <2>1, ValuesAssumption, Zenon
<1>3. <<s[3], (s[2] + MTI_STEP) % MTI_LIMIT, s[1]>> \in Texts
  <2>1. \A a, b, c \in Values : <<a, b, c>> \in Texts
        BY DEF Texts
  <2> QED BY <1>1, <1>2, <2>1, Zenon
<1> QED BY <1>3 DEF processMessage, Texts

\* connect_to_server() keeps the types.
LEMMA ConnectType ==
    ASSUME TypeInv, NEW n \in Nodes, Connect(n)
    PROVE  TypeInv'
<1>1. ServiceTypeOK /\ StartupTypeOK /\ NodeTypeOK
      BY TypeParts
<1>2. ServiceTypeOK'
      BY <1>1, NodesAssumption DEF Connect, Open, ServiceTypeOK, service, LinkStates
<1>3. "subscribe" \in Steps /\ buildIdMessage(n) \in Texts
      BY NodeTexts DEF Steps
<1>4. attempt[n] + 1 \in 1 .. MaxConnects
      BY <1>1, NodesAssumption DEF Connect, NodeTypeOK
<1>5. /\ attempt' \in [Nodes -> 0 .. MaxConnects] /\ attempt'[n] > 0
      /\ \A m \in Nodes \ {n} : attempt'[m] = attempt[m]
      /\ sockets' \in [Nodes -> SUBSET (1 .. MaxConnects)]
      BY <1>1, <1>4, NodesAssumption DEF Connect, NodeTypeOK
<1>6. NodeTypeOK'
  <2>1. Go(n, "subscribe", buildIdMessage(n))
        BY DEF Connect
  <2> QED BY <1>1, <1>3, <1>5, <2>1, GoStep DEF NodeTypeOK
<1>7. StartupTypeOK'
      BY <1>1, StartupType DEF Connect
<1> QED BY <1>2, <1>6, <1>7, TypePartsNext

\* The other steps of a node: only its own state and the buffers of its
\* connection.
LEMMA NodeStepType ==
    ASSUME TypeInv, NEW n \in Nodes, ConnectFails(n) \/ NodeStep(n)
    PROVE  TypeInv'
<1>1. ServiceTypeOK /\ StartupTypeOK /\ NodeTypeOK
      BY TypeParts
<1>2. <<>> \in Texts /\ out[n] \in Texts
      BY <1>1, NodeTexts DEF NodeTypeOK
<1>3. at[n] \notin {"connect", "sleep"} => attempt[n] > 0 /\ Conn(n) \in Conns
      BY <1>1, ConnIsConn DEF NodeTypeOK
<1>4. StartupTypeOK'
      BY <1>1, StartupType
      DEF ConnectFails, NodeStep, Wake, SendOk, SendLost, SendAgain, GiveUp,
          RecvMessage, Recv, RecvError
<1>5. attempt' = attempt
      BY DEF ConnectFails, NodeStep, Wake, SendOk, SendLost, SendAgain, GiveUp,
             RecvMessage, Recv, RecvError
<1>6. sockets' \in [Nodes -> SUBSET (1 .. MaxConnects)]
      BY <1>1 DEF ConnectFails, NodeStep, Wake, SendOk, SendLost, SendAgain, GiveUp,
             RecvMessage, Recv, RecvError, closeConnection, NodeTypeOK
<1>7. ASSUME NEW step \in Steps, NEW text \in Texts, Go(n, step, text),
             step \in {"connect", "sleep"} \/ at[n] \notin {"connect", "sleep"}
      PROVE  NodeTypeOK'
      BY <1>1, <1>3, <1>5, <1>6, <1>7, GoStep DEF NodeTypeOK
<1>8. ASSUME UNCHANGED <<clients, service>>
      PROVE  ServiceTypeOK'
      BY <1>1, <1>8 DEF ServiceTypeOK, clients, service
<1>9. CASE ConnectFails(n) \/ Wake(n)
  <2>1. /\ UNCHANGED <<clients, service>>
        /\ Go(n, "sleep", <<>>) \/ Go(n, "connect", <<>>)
        BY <1>9 DEF ConnectFails, Wake
  <2>2. NodeTypeOK'
        BY <1>2, <1>7, <2>1 DEF Steps
  <2> QED BY <1>4, <1>8, <2>1, <2>2, TypePartsNext
<1>10. ASSUME Sent(n)
       PROVE  NodeTypeOK'
  <2>1. CASE /\ at[n] = "subscribe"
             /\ Go(n, "initiate", buildFirstMessage(n, DstId[n]))
        BY <1>7, <2>1, NodeTexts DEF Steps
  <2>2. CASE at[n] \in {"initiate", "reply"} /\ Go(n, "recv", <<>>)
        BY <1>2, <1>7, <2>2 DEF Steps
  <2> QED BY <1>10, <2>1, <2>2 DEF Sent
<1>11. CASE SendOk(n)
  <2>1. at[n] \notin {"connect", "sleep"}
        BY <1>11 DEF SendOk, Sent
  <2>2. unread[Conn(n)] \o out[n] \in Texts
        BY <1>1, <1>2, <1>3, <2>1, TextParts DEF ServiceTypeOK
  <2>3. ServiceTypeOK'
        BY <1>1, <1>11, <2>2 DEF SendOk, Send, service, ServiceTypeOK
  <2>4. NodeTypeOK'
        BY <1>10, <1>11 DEF SendOk
  <2> QED BY <1>4, <2>3, <2>4, TypePartsNext
<1>12. CASE SendLost(n)
  <2>1. Sent(n) /\ UNCHANGED <<clients, service>>
        BY <1>12 DEF SendLost
  <2> QED BY <1>4, <1>8, <1>10, <2>1, TypePartsNext
<1>13. CASE SendAgain(n)
  <2>1. UNCHANGED <<clients, service>> /\ NodeTypeOK'
        BY <1>1, <1>13 DEF SendAgain, NodeTypeOK, MAX_RETRY
  <2> QED BY <1>4, <1>8, <2>1, TypePartsNext
<1>14. CASE GiveUp(n) \/ RecvError(n)
  <2>1. UNCHANGED <<clients, service>> /\ Go(n, "connect", <<>>)
        BY <1>14 DEF GiveUp, RecvError
  <2>2. NodeTypeOK'
        BY <1>2, <1>7, <2>1 DEF Steps
  <2> QED BY <1>4, <1>8, <2>1, <2>2, TypePartsNext
<1>15. CASE RecvMessage(n)
  <2>1. at[n] = "recv" /\ Len(mail[Conn(n)]) >= 3 /\ mail[Conn(n)] \in Texts
        BY <1>1, <1>3, <1>15
        DEF RecvMessage, Recv, DATA_MESSAGE_SIZE, ServiceTypeOK
  <2>2. PICK s : s = SubSeq(mail[Conn(n)], 1, 3)
        OBVIOUS
  <2>3. /\ s \in Texts /\ Len(s) = 3
        /\ SubSeq(mail[Conn(n)], 4, Len(mail[Conn(n)])) \in Texts
        BY <2>1, <2>2, FirstMessage DEF Texts
  <2>4. ServiceTypeOK'
    <3>1. /\ mail' = [mail EXCEPT ![Conn(n)] =
                          SubSeq(mail[Conn(n)], 4, Len(mail[Conn(n)]))]
          /\ UNCHANGED <<link, unread, service>>
          BY <1>15 DEF RecvMessage, Recv, DATA_MESSAGE_SIZE
    <3>2. mail' \in [Conns -> Texts]
          BY <1>1, <2>3, <3>1 DEF ServiceTypeOK
    <3> QED BY <1>1, <3>1, <3>2 DEF service, ServiceTypeOK
  <2>5. Go(n, "reply", processMessage(n, s))
        BY <1>15, <2>2 DEF RecvMessage, DATA_MESSAGE_SIZE
  <2>6. processMessage(n, s) \in Texts
        BY <2>3, ReplyText
  <2>7. NodeTypeOK'
        BY <1>7, <2>1, <2>5, <2>6 DEF Steps
  <2> QED BY <1>4, <2>4, <2>7, TypePartsNext
<1> QED BY <1>9, <1>11, <1>12, <1>13, <1>14, <1>15 DEF NodeStep

\* Faults.
LEMMA FaultType ==
    ASSUME TypeInv, NEW n \in Nodes,
           LinkBreaks(n) \/ NodeRestart(n) \/ SegmentCut(n)
    PROVE  TypeInv'
<1>1. ServiceTypeOK /\ StartupTypeOK /\ NodeTypeOK
      BY TypeParts
<1>2. attempt[n] > 0 => Conn(n) \in Conns
      BY <1>1, ConnIsConn
<1>3. <<>> \in Texts
      BY NodeTexts
<1>4. CASE LinkBreaks(n)
  <2>1. SubSeq(unread[Conn(n)], 1, 0) \in Texts
        BY <1>1, <1>2, <1>3, <1>4, TextParts DEF LinkBreaks, ServiceTypeOK
  <2>2. ServiceTypeOK'
        BY <1>1, <1>4, <2>1 DEF LinkBreaks, Reset, ServiceTypeOK, LinkStates, service
  <2>3. StartupTypeOK' /\ NodeTypeOK'
        BY <1>1, <1>4 DEF LinkBreaks, startup, node, StartupTypeOK, NodeTypeOK
  <2> QED BY <2>2, <2>3, TypePartsNext
<1>5. CASE NodeRestart(n)
  <2>1. ServiceTypeOK' /\ StartupTypeOK'
        BY <1>1, <1>5
        DEF NodeRestart, ServiceTypeOK, StartupTypeOK, LinkStates, service, startup
  <2>2. Go(n, "connect", <<>>) /\ "connect" \in Steps
        BY <1>5 DEF NodeRestart, Steps
  <2>3. NodeTypeOK'
        BY <1>1, <1>3, <1>5, <2>2, GoStep DEF NodeRestart, NodeTypeOK
  <2> QED BY <2>1, <2>3, TypePartsNext
<1>6. CASE SegmentCut(n)
  <2>1. PICK k \in 1 .. 2 : ShortRecv(n, k)
        BY <1>6 DEF SegmentCut, DATA_MESSAGE_SIZE
  <2>2. /\ Conn(n) \in Conns /\ mail[Conn(n)] \in Texts
        /\ Len(mail[Conn(n)]) >= k /\ Len(mail[Conn(n)]) \in Nat
        BY <1>1, <1>2, <2>1, LenProperties
        DEF ShortRecv, Recv, NodeTypeOK, ServiceTypeOK, Texts
  <2>3. k \in 0 .. Len(mail[Conn(n)])
        BY <2>2
  <2>4. SubSeq(mail[Conn(n)], k + 1, Len(mail[Conn(n)])) \in Texts
        BY <2>2, <2>3, TextParts
  <2>5. ServiceTypeOK' /\ StartupTypeOK' /\ NodeTypeOK'
        BY <1>1, <2>1, <2>4
        DEF ShortRecv, Recv, ServiceTypeOK, StartupTypeOK, NodeTypeOK, service, startup
  <2> QED BY <2>5, TypePartsNext
<1> QED BY <1>4, <1>5, <1>6

\* Every step of the system keeps the types.
LEMMA TypeStep ==
    ASSUME TypeInv, [Next]_vars
    PROVE  TypeInv'
<1>1. ServiceTypeOK /\ StartupTypeOK /\ NodeTypeOK
      BY TypeParts
<1>2. ASSUME UNCHANGED node
      PROVE  NodeTypeOK'
      BY <1>1, <1>2 DEF node, NodeTypeOK
<1>3. ASSUME UNCHANGED <<clients, service>>
      PROVE  ServiceTypeOK'
      BY <1>1, <1>3 DEF clients, service, ServiceTypeOK
<1>4. CASE UNCHANGED vars
  <2>1. UNCHANGED <<clients, service>> /\ UNCHANGED startup /\ UNCHANGED node
        BY <1>4 DEF vars
  <2> QED BY <1>1, <1>2, <1>3, <2>1, StartupType, TypePartsNext
<1>5. CASE RouterBoot
  <2>1. UNCHANGED <<clients, service>> /\ UNCHANGED node /\ Boot
        BY <1>5 DEF RouterBoot
  <2> QED BY <1>1, <1>2, <1>3, <2>1, StartupType, TypePartsNext
<1>6. CASE BootFails
  <2>1. UNCHANGED <<clients, service>> /\ UNCHANGED node /\ (StartFails \/ ListenFails)
        BY <1>6 DEF BootFails
  <2> QED BY <1>1, <1>2, <1>3, <2>1, StartupType, TypePartsNext
<1>7. CASE RouterCrash
  <2>1. BagToSet(EmptyBag) = {}
        BY DEF BagToSet, EmptyBag, SetToBag
  <2>2. <<>> \in Texts
        BY DEF Texts
  <2>3. ServiceTypeOK'
        BY <1>1, <1>7, <2>1, <2>2 DEF RouterCrash, ServiceTypeOK, LinkStates
  <2>4. UNCHANGED node /\ Stop
        BY <1>7 DEF RouterCrash
  <2> QED BY <1>1, <1>2, <2>3, <2>4, StartupType, TypePartsNext
<1>8. CASE Write
  <2>1. PICK task \in BagToSet(transit) : Deliver(task) \/ Lose(task)
        BY <1>8 DEF Write
  <2>2. ServiceTypeOK'
        BY <1>1, <2>1, HandType
  <2>3. UNCHANGED node /\ UNCHANGED startup
        BY <1>8 DEF Write
  <2> QED BY <1>1, <1>2, <2>2, <2>3, StartupType, TypePartsNext
<1>9. ASSUME NEW c \in Conns, Serve(c) \/ ClientRefused(c)
      PROVE  TypeInv'
  <2>1. /\ Admit(c) \/ Refuse(c) \/ Register(c) \/ Take(c) \/ Leave(c)
        /\ UNCHANGED node /\ UNCHANGED startup
        BY <1>9 DEF Serve, ClientRefused
  <2>2. ServiceTypeOK'
        BY <1>1, <2>1, ServeType
  <2> QED BY <1>1, <1>2, <2>1, <2>2, StartupType, TypePartsNext
<1>10. ASSUME NEW n \in Nodes,
              \/ Connect(n) \/ ConnectFails(n) \/ NodeStep(n)
              \/ LinkBreaks(n) \/ NodeRestart(n) \/ SegmentCut(n)
       PROVE  TypeInv'
       BY <1>10, ConnectType, NodeStepType, FaultType
<1> QED BY <1>4, <1>5, <1>6, <1>7, <1>8, <1>9, <1>10 DEF Next

\* The nodes, the connections and the router keep their types, and nodes only
\* use connections they have made, whatever breaks and whenever (node.cpp,
\* router.cpp, sessions.cpp, tcpserver.cpp).
THEOREM SystemTypeCorrect == SafetySpec => []TypeOK
<1>1. Init => TypeInv
      BY InitTypeInv
<1>2. TypeInv /\ [Next]_vars => TypeInv'
      BY TypeStep
<1>3. TypeInv => TypeOK
      BY DEF TypeInv
<1> QED BY <1>1, <1>2, <1>3, PTL DEF SafetySpec

-----------------------------------------------------------------------------
(* Subscription.                                                             *)

\* A connection is a node's, and two nodes have different ones.
LEMMA ConnsAreNodes ==
    /\ \A c \in Conns : c[1] \in Nodes /\ c[1] # NONE /\ c[1] < MAX_CLIENTS_COUNT
    /\ \A n \in Nodes : Conn(n)[1] = n
    /\ \A m, n \in Nodes : m # n => Conn(m) # Conn(n)
BY NodesAssumption DEF Conn

\* It holds at the start.
LEMMA InitSubscribe == Init => SubscribeInv
<1> SUFFICES ASSUME Init PROVE SubscribeInv
    OBVIOUS
<1> USE DEF Init, ServiceInit, NodeInit
<1>1. LinksInOrder
      BY NodesAssumption DEF LinksInOrder
<1>2. NewIsUntouched /\ NamesAreOwn
      BY DEF NewIsUntouched, NamesAreOwn
<1>3. RoutesAreNamed
  <2>1. BagToSet(EmptyBag) = {}
        BY DEF BagToSet, EmptyBag, SetToBag
  <2> QED BY <2>1 DEF RoutesAreNamed
<1>4. NodesSubscribeFirst
      BY DEF NodesSubscribeFirst, SubscribesFirst
<1> QED BY <1>1, <1>2, <1>3, <1>4 DEF SubscribeInv

\* A registration is for the id of the node that connected.
LEMMA RegisterOwn ==
    ASSUME ServiceTypeOK, SubscribeInv, NEW c \in Conns, Register(c)
    PROVE  /\ name' = [name EXCEPT ![c] = c[1]]
           /\ directory' = [directory EXCEPT ![c[1]] = c]
<1>1. unread[c] \in Texts /\ unread[c] # <<>> /\ name[c] = NONE
      BY DEF Register, ID_MESSAGE_SIZE, ServiceTypeOK
<1>2. Head(unread[c]) = c[1]
      BY <1>1, TextParts DEF SubscribeInv, NamesAreOwn
<1>3. ~ (c[1] >= MAX_CLIENTS_COUNT)
  <2>1. \A i \in Int, l \in Nat : i < l => ~ (i >= l)
        OBVIOUS
  <2>2. c[1] \in Int /\ MAX_CLIENTS_COUNT \in Nat /\ c[1] < MAX_CLIENTS_COUNT
        BY ConnsAreNodes, NodesAssumption, ValuesAssumption
  <2> QED BY <2>1, <2>2, Zenon
<1> QED BY <1>2, <1>3, Zenon DEF Register, Claim

\* What the router does for a connection.
LEMMA ServeSubscribe ==
    ASSUME ServiceTypeOK, NodeTypeOK, SubscribeInv, NEW c \in Conns,
           Admit(c) \/ Refuse(c) \/ Register(c) \/ Take(c) \/ Leave(c),
           UNCHANGED node
    PROVE  SubscribeInv'
<1> USE DEF service, clients, node
<1>1. LinksInOrder'
  <2>1. link' = link \/ (link[c] # "new" /\ link' = [link EXCEPT ![c] = "refused"])
        BY DEF Admit, Refuse, Register, Take, Leave
  <2>2. \A d \in Conns : link'[d] = "new" <=> link[d] = "new"
        BY <2>1 DEF ServiceTypeOK
  <2> QED BY <2>2, NodesAssumption DEF SubscribeInv, LinksInOrder
<1>2. CASE Admit(c)
  <2>1. NewIsUntouched' /\ NamesAreOwn' /\ RoutesAreNamed'
        BY <1>2 DEF Admit, SubscribeInv, NewIsUntouched, NamesAreOwn, RoutesAreNamed,
           ServiceTypeOK
  <2>2. NodesSubscribeFirst'
        BY <1>2 DEF Admit, SubscribeInv, NodesSubscribeFirst, SubscribesFirst, Conn
  <2> QED BY <1>1, <2>1, <2>2 DEF SubscribeInv
<1>3. CASE Refuse(c)
  <2>1. NewIsUntouched' /\ NamesAreOwn' /\ RoutesAreNamed'
        BY <1>3 DEF Refuse, SubscribeInv, NewIsUntouched, NamesAreOwn, RoutesAreNamed,
           ServiceTypeOK
  <2>2. NodesSubscribeFirst'
        BY <1>3 DEF Refuse, SubscribeInv, NodesSubscribeFirst, SubscribesFirst, Conn, ServiceTypeOK
  <2> QED BY <1>1, <2>1, <2>2 DEF SubscribeInv
<1>4. CASE Register(c)
  <2>1. /\ unread[c] \in Texts /\ unread[c] # <<>> /\ name[c] = NONE
        /\ seat[c] = "seated"
        BY <1>4 DEF Register, ID_MESSAGE_SIZE, ServiceTypeOK
  <2>3. /\ name' = [name EXCEPT ![c] = c[1]]
        /\ directory' = [directory EXCEPT ![c[1]] = c]
        /\ unread' = [unread EXCEPT ![c] = Tail(@)]
        /\ UNCHANGED <<link, mail, seat, transit>>
        BY <1>4, RegisterOwn DEF Register
  <2>4. NewIsUntouched' /\ NamesAreOwn'
        BY <2>1, <2>3, ConnsAreNodes
        DEF SubscribeInv, NewIsUntouched, NamesAreOwn, ServiceTypeOK
  <2>5. RoutesAreNamed'
        BY <2>1, <2>3, ConnsAreNodes, NodesAssumption, ValuesAssumption
        DEF SubscribeInv, RoutesAreNamed, ServiceTypeOK
  <2>6. NodesSubscribeFirst'
        BY <2>1, <2>3, ConnsAreNodes
        DEF SubscribeInv, NodesSubscribeFirst, SubscribesFirst, Conn, ServiceTypeOK
  <2> QED BY <1>1, <2>4, <2>5, <2>6 DEF SubscribeInv
<1>5. CASE Take(c)
  <2>1. PICK m, rest : m = SubSeq(unread[c], 1, 3) /\ rest = SubSeq(unread[c], 4, Len(unread[c]))
        OBVIOUS
  <2>2. /\ name[c] # NONE /\ seat[c] = "seated"
        /\ unread' = [unread EXCEPT ![c] = rest]
        /\ transit' = IF directory[m[3]] = nullptr THEN transit
                      ELSE BagAdd(transit, [to |-> directory[m[3]], msg |-> m])
        /\ UNCHANGED <<link, mail, seat, name, directory>>
        BY <1>5, <2>1 DEF Take, DATA_MESSAGE_SIZE
  <2>3. m[3] \in Values
        BY <1>5, <2>1, FirstMessage DEF Take, DATA_MESSAGE_SIZE, ServiceTypeOK, Texts
  <2>4. NewIsUntouched' /\ NamesAreOwn'
        BY <2>2 DEF SubscribeInv, NewIsUntouched, NamesAreOwn, ServiceTypeOK
  <2>5. \A task \in BagToSet(transit') :
            task \in BagToSet(transit)
            \/ (directory[m[3]] # nullptr /\ task = [to |-> directory[m[3]], msg |-> m])
        BY <2>2, BagElements
  <2>6. RoutesAreNamed'
        BY <2>2, <2>3, <2>5 DEF SubscribeInv, RoutesAreNamed
  <2>7. NodesSubscribeFirst'
    <3>1. \A n \in Nodes : (Conn(n))' = Conn(n)
          BY DEF Conn
    <3>2. \A d : d # c => unread'[d] = unread[d]
          BY <2>2 DEF ServiceTypeOK
    <3> QED BY <2>2, <3>1, <3>2 DEF SubscribeInv, NodesSubscribeFirst, SubscribesFirst
  <2> QED BY <1>1, <2>4, <2>6, <2>7 DEF SubscribeInv
<1>6. CASE Leave(c)
  <2>1. /\ seat[c] = "seated" /\ seat' = [seat EXCEPT ![c] = "left"]
        /\ UNCHANGED <<clients, name, transit>>
        /\ \A i \in Values : directory'[i] = directory[i] \/ directory'[i] = nullptr
        BY <1>6 DEF Leave, ServiceTypeOK
  <2>2. NewIsUntouched' /\ NamesAreOwn' /\ RoutesAreNamed'
        BY <2>1 DEF SubscribeInv, NewIsUntouched, NamesAreOwn, RoutesAreNamed,
           ServiceTypeOK
  <2>3. NodesSubscribeFirst'
        BY <2>1 DEF SubscribeInv, NodesSubscribeFirst, SubscribesFirst, Conn
  <2> QED BY <1>1, <2>2, <2>3 DEF SubscribeInv
<1> QED BY <1>2, <1>3, <1>4, <1>5, <1>6

\* A delivery, or a loss.
LEMMA HandSubscribe ==
    ASSUME ServiceTypeOK, SubscribeInv, UNCHANGED node,
           NEW task \in BagToSet(transit), Deliver(task) \/ Lose(task)
    PROVE  SubscribeInv'
<1>1. /\ task.to \in Conns
      /\ mail' = mail \/ mail' = [mail EXCEPT ![task.to] = @ \o task.msg]
      /\ BagToSet(transit') \subseteq BagToSet(transit)
      /\ UNCHANGED <<link, unread, seat, name, directory>>
      /\ UNCHANGED <<at, attempt, out>>
      BY HandStep DEF node
<1>2. name[task.to] # NONE
      BY DEF SubscribeInv, RoutesAreNamed
<1>3. NamesAreOwn'
      BY <1>1, <1>2 DEF SubscribeInv, NamesAreOwn, ServiceTypeOK
<1>4. LinksInOrder' /\ NewIsUntouched' /\ RoutesAreNamed' /\ NodesSubscribeFirst'
      BY <1>1 DEF SubscribeInv, LinksInOrder, NewIsUntouched, RoutesAreNamed,
         NodesSubscribeFirst, SubscribesFirst, Conn
<1> QED BY <1>3, <1>4 DEF SubscribeInv

\* The router's process ends.
LEMMA CrashSubscribe ==
    ASSUME ServiceTypeOK, NodeTypeOK, SubscribeInv, RouterCrash
    PROVE  SubscribeInv'
<1> USE DEF RouterCrash, node
<1>1. LinksInOrder'
      BY NodesAssumption DEF SubscribeInv, LinksInOrder
<1>2. NewIsUntouched' /\ NamesAreOwn'
      BY DEF SubscribeInv, NewIsUntouched, NamesAreOwn
<1>3. RoutesAreNamed'
  <2>1. BagToSet(EmptyBag) = {}
        BY DEF BagToSet, EmptyBag, SetToBag
  <2> QED BY <2>1 DEF RoutesAreNamed
<1>4. NodesSubscribeFirst'
  <2>1. \A n \in Nodes : at[n] \notin {"connect", "sleep"} => Conn(n) \in Conns
        BY ConnIsConn DEF NodeTypeOK
  <2>2. \A c \in Conns : unread'[c] = <<>> /\ link'[c] # "open"
        OBVIOUS
  <2>3. \A n \in Nodes : (Conn(n))' = Conn(n)
        BY DEF Conn
  <2> QED BY <2>1, <2>2, <2>3 DEF SubscribeInv, NodesSubscribeFirst, SubscribesFirst
<1> QED BY <1>1, <1>2, <1>3, <1>4 DEF SubscribeInv

\* A new connection has no text, and the node is about to send its id.
LEMMA ConnectSubscribe ==
    ASSUME ServiceTypeOK, NodeTypeOK, SubscribeInv, NEW n \in Nodes, Connect(n)
    PROVE  SubscribeInv'
<1> USE DEF service
<1>1. attempt[n] \in Nat /\ attempt[n] + 1 \in 1 .. MaxConnects
      BY NodesAssumption DEF Connect, NodeTypeOK
<1>2. PICK c : c = <<n, attempt[n] + 1>>
      OBVIOUS
<1>3. /\ c \in Conns /\ link[c] = "new" /\ link' = [link EXCEPT ![c] = "open"]
      /\ attempt' = [attempt EXCEPT ![n] = @ + 1]
      /\ UNCHANGED <<seat, name, directory, transit, unread, mail>>
      BY <1>1, <1>2, NodesAssumption DEF Connect, Open
<1>4. /\ at'[n] = "subscribe" /\ out'[n] = <<n>>
      /\ \A m \in Nodes \ {n} : at'[m] = at[m] /\ out'[m] = out[m]
      BY NodeTexts, GoStep DEF Connect, buildIdMessage, Steps
<1>5. LinksInOrder'
  <2> SUFFICES ASSUME NEW m \in Nodes, NEW k \in 1 .. MaxConnects
               PROVE  link'[<<m, k>>] = "new" <=> k > attempt'[m]
      BY DEF LinksInOrder
  <2>1. <<m, k>> \in Conns /\ (link[<<m, k>>] = "new" <=> k > attempt[m])
        BY NodesAssumption DEF SubscribeInv, LinksInOrder
  <2>2. CASE m # n
        BY <1>2, <1>3, <2>1, <2>2 DEF ServiceTypeOK, NodeTypeOK
  <2>3. CASE m = n /\ k = attempt[n] + 1
        BY <1>1, <1>2, <1>3, <2>1, <2>3 DEF ServiceTypeOK, NodeTypeOK
  <2>4. CASE m = n /\ k # attempt[n] + 1
    <3>1. link'[<<m, k>>] = link[<<m, k>>] /\ attempt'[m] = attempt[n] + 1
          BY <1>2, <1>3, <2>1, <2>4 DEF ServiceTypeOK, NodeTypeOK
    <3>2. k > attempt[n] <=> k > attempt[n] + 1
          BY <1>1, <2>4
    <3> QED BY <2>1, <2>4, <3>1, <3>2
  <2> QED BY <2>2, <2>3, <2>4
<1>6. NewIsUntouched' /\ NamesAreOwn' /\ RoutesAreNamed'
      BY <1>3 DEF SubscribeInv, NewIsUntouched, NamesAreOwn, RoutesAreNamed,
         ServiceTypeOK
<1>7. NodesSubscribeFirst'
  <2>1. (Conn(n))' = c /\ name[c] = NONE /\ unread[c] = <<>>
        BY <1>2, <1>3 DEF Conn, NodeTypeOK, SubscribeInv, NewIsUntouched
  <2>2. \A m \in Nodes \ {n} : (Conn(m))' = Conn(m) /\ Conn(m) # c
        BY <1>2, <1>3 DEF Conn, NodeTypeOK
  <2>3. \A d : d # c => link'[d] = link[d]
        BY <1>3 DEF ServiceTypeOK
  <2> QED BY <1>3, <1>4, <2>1, <2>2, <2>3 DEF SubscribeInv, NodesSubscribeFirst, SubscribesFirst
<1> QED BY <1>5, <1>6, <1>7 DEF SubscribeInv

\* A node step that changes nothing of the connections.
LEMMA QuietSubscribe ==
    ASSUME SubscribeInv, UNCHANGED <<clients, service, attempt>>, NodesSubscribeFirst'
    PROVE  SubscribeInv'
BY DEF SubscribeInv, LinksInOrder, NewIsUntouched, NamesAreOwn, RoutesAreNamed,
       clients, service

\* The id is sent before anything else.
LEMMA SendSubscribe ==
    ASSUME ServiceTypeOK, NodeTypeOK, SubscribeInv, NEW n \in Nodes, SendOk(n)
    PROVE  SubscribeInv'
<1> USE DEF service
<1>1. /\ Conn(n) \in Conns /\ link[Conn(n)] = "open"
      /\ unread[Conn(n)] \in Texts /\ out[n] \in Texts /\ out[n] # <<>>
      /\ at[n] \in {"subscribe", "initiate", "reply"}
      BY ConnIsConn DEF NodeTypeOK, SendOk, Send, Sent, ServiceTypeOK
<1>2. PICK c, text : c = Conn(n) /\ text = unread[c] \o out[n]
      OBVIOUS
<1>3. /\ unread' = [unread EXCEPT ![c] = text]
      /\ UNCHANGED <<link, mail, seat, name, directory, transit, attempt>>
      BY <1>2 DEF SendOk, Send
<1>4. /\ text \in Texts /\ text # <<>>
      /\ unread[c] # <<>> => text[1] = unread[c][1]
      /\ unread[c] = <<>> => text = out[n]
  <2>1. unread[c] \in Seq(Values) /\ out[n] \in Seq(Values)
        BY <1>1, <1>2 DEF Texts
  <2>2. /\ text \in Seq(Values) /\ Len(text) = Len(unread[c]) + Len(out[n])
        /\ \A i \in 1 .. Len(unread[c]) + Len(out[n]) :
              text[i] = IF i <= Len(unread[c]) THEN unread[c][i]
                        ELSE out[n][i - Len(unread[c])]
        BY <1>2, <2>1, ConcatProperties
  <2>3. Len(out[n]) \in Nat \ {0} /\ Len(unread[c]) \in Nat
        BY <1>1, <2>1, LenProperties, EmptySeq
  <2>4. text # <<>>
    <3>1. \A k \in Nat, l \in Nat \ {0} : k + l # 0
          OBVIOUS
    <3>2. Len(text) # 0
          BY <2>2, <2>3, <3>1, Zenon
    <3> QED BY <2>2, <3>2, EmptySeq
  <2>5. ASSUME unread[c] # <<>>
        PROVE  text[1] = unread[c][1]
    <3>1. Len(unread[c]) # 0
          BY <2>1, <2>5, EmptySeq
    <3>2. \A k \in Nat \ {0}, l \in Nat : 1 \in 1 .. k + l /\ 1 <= k
          OBVIOUS
    <3> QED BY <2>2, <2>3, <3>1, <3>2
  <2>6. unread[c] = <<>> => text = out[n]
        BY <1>2, <2>1, ConcatEmptySeq
  <2> QED BY <2>2, <2>4, <2>5, <2>6 DEF Texts
<1>5. /\ at[n] = "subscribe" => /\ at'[n] = "initiate"
                                /\ out'[n] = <<n, FIRST_MTI, DstId[n]>>
      /\ at[n] # "subscribe" => at'[n] = "recv"
      /\ \A m \in Nodes \ {n} : at'[m] = at[m] /\ out'[m] = out[m]
  <2>1. CASE at[n] = "subscribe"
    <3>1. Go(n, "initiate", buildFirstMessage(n, DstId[n]))
          BY <2>1 DEF SendOk, Sent
    <3> QED BY <2>1, <3>1, NodeTexts, GoStep DEF buildFirstMessage, Steps
  <2>2. CASE at[n] # "subscribe"
    <3>1. Go(n, "recv", <<>>)
          BY <2>2 DEF SendOk, Sent
    <3> QED BY <2>2, <3>1, NodeTexts, GoStep DEF Steps
  <2> QED BY <2>1, <2>2
<1>6. name[c] = NONE => text[1] = n /\ c[1] = n
  <2>1. at[n] = "subscribe" => out[n] = <<n>> /\ unread[c] = <<>>
        BY <1>2 DEF SubscribeInv, NodesSubscribeFirst, SubscribesFirst
  <2>2. at[n] # "subscribe" => name[c] # NONE \/ unread[c] # <<>>
        BY <1>1, <1>2 DEF SubscribeInv, NodesSubscribeFirst, SubscribesFirst
  <2>3. c[1] = n /\ c \in Conns
        BY <1>1, <1>2, ConnsAreNodes
  <2>4. <<n>>[1] = n
        OBVIOUS
  <2> QED BY <1>4, <2>1, <2>2, <2>3, <2>4 DEF SubscribeInv, NamesAreOwn
<1>7. LinksInOrder' /\ RoutesAreNamed'
      BY <1>3 DEF SubscribeInv, LinksInOrder, RoutesAreNamed
<1>8. NewIsUntouched' /\ NamesAreOwn'
      BY <1>1, <1>2, <1>3, <1>6 DEF SubscribeInv, NewIsUntouched, NamesAreOwn, ServiceTypeOK
<1>9. NodesSubscribeFirst'
  <2>1. \A m \in Nodes : (Conn(m))' = Conn(m) /\ (m # n => Conn(m) # c)
        BY <1>2, <1>3, ConnsAreNodes DEF Conn
  <2>2. unread'[c] = text /\ \A d : d # c => unread'[d] = unread[d]
        BY <1>1, <1>2, <1>3 DEF ServiceTypeOK
  <2>3. \A m \in Nodes \ {n} :
            /\ at'[m] = at[m] /\ out'[m] = out[m] /\ unread'[Conn(m)] = unread[Conn(m)]
        BY <1>5, <2>1, <2>2
  <2>4. /\ at'[n] \in {"initiate", "recv"}
        /\ at'[n] = "initiate" => out'[n] = <<n, FIRST_MTI, DstId[n]>>
        BY <1>5
  <2>5. SubscribesFirst(n)'
        BY <1>2, <1>3, <1>4, <2>1, <2>2, <2>4 DEF SubscribesFirst
  <2>6. ASSUME NEW m \in Nodes \ {n}
        PROVE  SubscribesFirst(m)'
        BY <1>3, <2>1, <2>3 DEF SubscribeInv, NodesSubscribeFirst, SubscribesFirst
  <2> QED BY <2>5, <2>6 DEF NodesSubscribeFirst
<1> QED BY <1>7, <1>8, <1>9 DEF SubscribeInv

\* The steps of a node that leave the connections as they are.
LEMMA PauseSubscribe ==
    ASSUME NodeTypeOK, SubscribeInv, NEW n \in Nodes,
           \/ ConnectFails(n) \/ Wake(n) \/ SendLost(n) \/ SendAgain(n)
           \/ GiveUp(n) \/ RecvError(n)
    PROVE  SubscribeInv'
<1>1. UNCHANGED <<clients, service, attempt>>
      BY DEF ConnectFails, Wake, SendLost, SendAgain, GiveUp, RecvError
<1>2. SubscribesFirst(n)' /\ \A m \in Nodes \ {n} : at'[m] = at[m] /\ out'[m] = out[m]
  <2>1. CASE ConnectFails(n) \/ Wake(n) \/ GiveUp(n) \/ RecvError(n)
    <3>1. Go(n, "sleep", <<>>) \/ Go(n, "connect", <<>>)
          BY <2>1 DEF ConnectFails, Wake, GiveUp, RecvError
    <3>2. /\ at'[n] \in {"sleep", "connect"}
          /\ \A m \in Nodes \ {n} : at'[m] = at[m] /\ out'[m] = out[m]
          BY <3>1, NodeTexts, GoStep DEF Steps
    <3> QED BY <3>2 DEF SubscribesFirst
  <2>2. CASE SendLost(n)
    <3>1. link[Conn(n)] # "open" /\ (Conn(n))' = Conn(n) /\ link' = link
          BY <1>1, <2>2 DEF SendLost, Conn, clients
    <3>2. \/ Go(n, "initiate", buildFirstMessage(n, DstId[n]))
          \/ Go(n, "recv", <<>>)
          BY <2>2 DEF SendLost, Sent
    <3>3. /\ \/ at'[n] = "initiate" /\ out'[n] = <<n, FIRST_MTI, DstId[n]>>
             \/ at'[n] = "recv"
          /\ \A m \in Nodes \ {n} : at'[m] = at[m] /\ out'[m] = out[m]
          BY <3>2, NodeTexts, GoStep DEF Steps, buildFirstMessage
    <3> QED BY <3>1, <3>3 DEF SubscribesFirst
  <2>3. CASE SendAgain(n)
    <3>1. UNCHANGED <<at, out>> /\ (Conn(n))' = Conn(n)
          BY <1>1, <2>3 DEF SendAgain, Conn
    <3> QED BY <1>1, <3>1
            DEF SubscribeInv, NodesSubscribeFirst, SubscribesFirst, clients, service
  <2> QED BY <2>1, <2>2, <2>3
<1>3. ASSUME NEW m \in Nodes \ {n}
      PROVE  SubscribesFirst(m)'
  <2>1. at'[m] = at[m] /\ out'[m] = out[m] /\ (Conn(m))' = Conn(m)
        BY <1>1, <1>2 DEF Conn
  <2> QED BY <1>1, <2>1
          DEF SubscribeInv, NodesSubscribeFirst, SubscribesFirst, clients, service
<1>4. NodesSubscribeFirst'
      BY <1>2, <1>3 DEF NodesSubscribeFirst
<1> QED BY <1>1, <1>4, QuietSubscribe

\* recv() returns something: the connection has been registered.
LEMMA RecvIsNamed ==
    ASSUME ServiceTypeOK, NodeTypeOK, SubscribeInv, NEW n \in Nodes,
           NEW k \in 1 .. 3, Recv(n, k)
    PROVE  /\ Conn(n) \in Conns /\ mail[Conn(n)] \in Texts
           /\ Len(mail[Conn(n)]) \in Nat /\ Len(mail[Conn(n)]) >= k
           /\ name[Conn(n)] # NONE
<1>1. /\ Conn(n) \in Conns /\ mail[Conn(n)] \in Texts /\ Len(mail[Conn(n)]) >= k
      BY ConnIsConn DEF Recv, NodeTypeOK, ServiceTypeOK
<1>2. Len(mail[Conn(n)]) \in Nat
      BY <1>1, LenProperties DEF Texts
<1>3. mail[Conn(n)] # <<>>
  <2>1. Len(<<>>) = 0 /\ \A l \in Nat : l >= k => l # 0
        OBVIOUS
  <2> QED BY <1>1, <1>2, <2>1
<1> QED BY <1>1, <1>2, <1>3 DEF SubscribeInv, NamesAreOwn

\* A reply is a data message.
LEMMA RecvSubscribe ==
    ASSUME ServiceTypeOK, NodeTypeOK, SubscribeInv, NEW n \in Nodes,
           NEW k \in 1 .. 3, Recv(n, k),
           \/ UNCHANGED <<at, out>>
           \/ k = 3 /\ RecvMessage(n)
    PROVE  SubscribeInv'
<1> USE DEF service
<1>1. Conn(n) \in Conns /\ mail[Conn(n)] \in Texts /\ name[Conn(n)] # NONE
      BY RecvIsNamed
<1>2. /\ UNCHANGED <<link, unread, seat, name, directory, transit, attempt>>
      /\ \A c \in Conns : c # Conn(n) => mail'[c] = mail[c]
      BY DEF Recv, ServiceTypeOK
<1>3. LinksInOrder' /\ NewIsUntouched' /\ NamesAreOwn' /\ RoutesAreNamed'
      BY <1>1, <1>2
      DEF SubscribeInv, LinksInOrder, NewIsUntouched, NamesAreOwn, RoutesAreNamed
<1>4. \A m \in Nodes : (Conn(m))' = Conn(m)
      BY <1>2 DEF Conn
<1>5. CASE UNCHANGED <<at, out>>
  <2>1. NodesSubscribeFirst'
        BY <1>2, <1>4, <1>5 DEF SubscribeInv, NodesSubscribeFirst, SubscribesFirst
  <2> QED BY <1>3, <2>1 DEF SubscribeInv
<1>6. CASE k = 3 /\ RecvMessage(n)
  <2>1. PICK s : s = SubSeq(mail[Conn(n)], 1, 3)
        OBVIOUS
  <2>2. s \in Texts /\ Len(s) = 3
        BY <1>1, <1>6, <2>1, FirstMessage
        DEF RecvMessage, Recv, Texts, DATA_MESSAGE_SIZE
  <2>3. Go(n, "reply", processMessage(n, s))
        BY <1>6, <2>1 DEF RecvMessage, DATA_MESSAGE_SIZE
  <2>4. processMessage(n, s) = <<>> \/ Len(processMessage(n, s)) = DATA_MESSAGE_SIZE
        BY DEF processMessage, DATA_MESSAGE_SIZE
  <2>5. /\ at'[n] = "reply" /\ out'[n] = processMessage(n, s)
        /\ \A m \in Nodes \ {n} : at'[m] = at[m] /\ out'[m] = out[m]
        BY <2>2, <2>3, ReplyText, GoStep DEF Steps
  <2>6. SubscribesFirst(n)'
        BY <1>1, <1>2, <1>4, <2>4, <2>5 DEF SubscribesFirst
  <2>7. ASSUME NEW m \in Nodes \ {n}
        PROVE  SubscribesFirst(m)'
        BY <1>2, <1>4, <2>5 DEF SubscribeInv, NodesSubscribeFirst, SubscribesFirst
  <2> QED BY <1>3, <2>6, <2>7 DEF SubscribeInv, NodesSubscribeFirst
<1> QED BY <1>5, <1>6

\* A reset takes what the router has not read, and a restart keeps it.
LEMMA FaultSubscribe ==
    ASSUME ServiceTypeOK, NodeTypeOK, SubscribeInv, NEW n \in Nodes,
           LinkBreaks(n) \/ NodeRestart(n)
    PROVE  SubscribeInv'
<1> USE DEF service, node
<1>1. CASE LinkBreaks(n)
  <2>1. PICK c : c = Conn(n)
        OBVIOUS
  <2>2. c \in Conns /\ link[c] = "open" /\ unread[c] \in Texts
        BY <1>1, <2>1, ConnIsConn DEF LinkBreaks, Reset, ServiceTypeOK
  <2>3. SubSeq(unread[c], 1, 0) = <<>>
        BY <2>2, TextParts
  <2>4. /\ link' = [link EXCEPT ![c] = "reset"]
        /\ unread' = [unread EXCEPT ![c] = <<>>]
        /\ UNCHANGED <<mail, seat, name, directory, transit, at, attempt, out>>
        BY <1>1, <2>1, <2>3 DEF LinkBreaks, Reset
  <2>5. LinksInOrder' /\ NewIsUntouched' /\ NamesAreOwn' /\ RoutesAreNamed'
        BY <2>2, <2>4, NodesAssumption
        DEF SubscribeInv, LinksInOrder, NewIsUntouched, NamesAreOwn, RoutesAreNamed,
            ServiceTypeOK
  <2>6. \A m \in Nodes : (Conn(m))' = Conn(m)
        BY <2>4 DEF Conn
  <2>7. /\ link'[c] = "reset" /\ unread'[c] = <<>>
        /\ \A d : d # c => link'[d] = link[d] /\ unread'[d] = unread[d]
        BY <2>2, <2>4 DEF ServiceTypeOK
  <2>8. NodesSubscribeFirst'
        BY <2>4, <2>6, <2>7 DEF SubscribeInv, NodesSubscribeFirst, SubscribesFirst
  <2> QED BY <2>5, <2>8 DEF SubscribeInv
<1>2. CASE NodeRestart(n)
  <2>1. /\ UNCHANGED <<unread, mail, seat, name, directory, transit, attempt>>
        /\ \A c \in Conns : link'[c] = link[c] \/ (link[c] = "open" /\ link'[c] = "closed")
        BY <1>2 DEF NodeRestart
  <2>2. LinksInOrder' /\ NewIsUntouched' /\ NamesAreOwn' /\ RoutesAreNamed'
        BY <2>1, NodesAssumption
        DEF SubscribeInv, LinksInOrder, NewIsUntouched, NamesAreOwn, RoutesAreNamed
  <2>3. /\ at'[n] = "connect"
        /\ \A m \in Nodes \ {n} : at'[m] = at[m] /\ out'[m] = out[m]
        BY <1>2, NodeTexts, GoStep DEF NodeRestart, Steps
  <2>4. \A m \in Nodes : /\ (Conn(m))' = Conn(m)
                         /\ at[m] \notin {"connect", "sleep"} => Conn(m) \in Conns
        BY <2>1, ConnIsConn DEF Conn, NodeTypeOK
  <2>5. SubscribesFirst(n)'
        BY <2>3 DEF SubscribesFirst
  <2>6. ASSUME NEW m \in Nodes \ {n}
        PROVE  SubscribesFirst(m)'
        BY <2>1, <2>3, <2>4 DEF SubscribeInv, NodesSubscribeFirst, SubscribesFirst
  <2> QED BY <2>2, <2>5, <2>6 DEF SubscribeInv, NodesSubscribeFirst
<1> QED BY <1>1, <1>2

\* Every step keeps it.
LEMMA SubscribeStep ==
    ASSUME TypeInv, SubscribeInv, [Next]_vars
    PROVE  SubscribeInv'
<1>1. ServiceTypeOK /\ NodeTypeOK
      BY TypeParts
<1>2. ASSUME UNCHANGED <<clients, service, node>>
      PROVE  SubscribeInv'
  <2>1. NodesSubscribeFirst'
        BY <1>2 DEF SubscribeInv, NodesSubscribeFirst, SubscribesFirst, Conn, clients,
                    service, node
  <2> QED BY <1>2, <2>1, QuietSubscribe DEF node
<1>3. CASE UNCHANGED vars \/ RouterBoot \/ BootFails
      BY <1>2, <1>3 DEF vars, RouterBoot, BootFails
<1>4. CASE RouterCrash
      BY <1>1, <1>4, CrashSubscribe
<1>5. CASE Write
      BY <1>1, <1>5, HandSubscribe DEF Write
<1>6. ASSUME NEW c \in Conns, Serve(c) \/ ClientRefused(c)
      PROVE  SubscribeInv'
      BY <1>1, <1>6, ServeSubscribe DEF Serve, ClientRefused
<1>7. ASSUME NEW n \in Nodes,
             \/ Connect(n) \/ ConnectFails(n) \/ NodeStep(n)
             \/ LinkBreaks(n) \/ NodeRestart(n) \/ SegmentCut(n)
      PROVE  SubscribeInv'
  <2>1. CASE Connect(n)
        BY <1>1, <2>1, ConnectSubscribe
  <2>2. CASE SendOk(n)
        BY <1>1, <2>2, SendSubscribe
  <2>3. CASE RecvMessage(n)
    <3>1. PICK k \in 1 .. 3 : k = 3
          OBVIOUS
    <3>2. Recv(n, k)
          BY <2>3, <3>1 DEF RecvMessage, DATA_MESSAGE_SIZE
    <3> QED BY <1>1, <2>3, <3>1, <3>2, RecvSubscribe
  <2>4. CASE SegmentCut(n)
    <3>1. PICK k \in 1 .. 2 : Recv(n, k) /\ UNCHANGED <<at, out>>
          BY <2>4 DEF SegmentCut, ShortRecv, DATA_MESSAGE_SIZE
    <3>2. k \in 1 .. 3
          OBVIOUS
    <3> QED BY <1>1, <3>1, <3>2, RecvSubscribe
  <2>5. CASE LinkBreaks(n) \/ NodeRestart(n)
        BY <1>1, <2>5, FaultSubscribe
  <2>6. CASE ConnectFails(n) \/ (NodeStep(n) /\ ~ SendOk(n) /\ ~ RecvMessage(n))
        BY <1>1, <2>6, PauseSubscribe DEF NodeStep
  <2> QED BY <1>7, <2>1, <2>2, <2>3, <2>4, <2>5, <2>6
<1> QED BY <1>3, <1>4, <1>5, <1>6, <1>7 DEF Next

\* Sessions are registered under the id of the node that connected, entries of
\* sessions_by_id_ name a session registered under that id, and a node's id is
\* the first text on each of its connections (router.cpp:200-220,
\* sessions.cpp:24-43, node.cpp:33-43).
THEOREM NodesAreNamed == SafetySpec => []SubscribeInv
<1>1. Init => TypeInv /\ SubscribeInv
      BY InitTypeInv, InitSubscribe
<1>2. TypeInv /\ SubscribeInv /\ [Next]_vars => TypeInv' /\ SubscribeInv'
      BY TypeStep, SubscribeStep
<1> QED BY <1>1, <1>2, PTL DEF SafetySpec

-----------------------------------------------------------------------------
(* Trains of messages.                                                       *)

\* No text is a train.
LEMMA TrainEmpty ==
    ASSUME NEW A, NEW B
    PROVE  Train(<<>>, A, B)
BY DEF Train

\* A message behind a train makes a train.
LEMMA TrainAppend ==
    ASSUME NEW V, NEW A, NEW B, NEW s \in Seq(V), Train(s, A, B),
           NEW m \in Seq(V), Len(m) = 3, m[1] \in A, m[3] \in B
    PROVE  Train(s \o m, A, B)
<1>1. PICK k \in Nat : k = Len(s)
      BY LenProperties
<1>2. PICK u : u = s \o m
      OBVIOUS
<1>3. /\ Len(u) = k + 3
      /\ \A i \in 1 .. k + 3 : u[i] = IF i <= k THEN s[i] ELSE m[i - k]
  <2>1. /\ Len(u) = Len(s) + Len(m)
        /\ \A i \in 1 .. Len(s) + Len(m) :
              u[i] = IF i <= Len(s) THEN s[i] ELSE m[i - Len(s)]
        BY <1>2, ConcatProperties
  <2> QED BY <1>1, <2>1, Zenon
<1>4. /\ k % 3 = 0
      /\ \A i \in 1 .. k : (i % 3 = 1 => s[i] \in A) /\ (i % 3 = 0 => s[i] \in B)
      BY <1>1 DEF Train
<1>5. /\ (k + 3) % 3 = 0
      /\ \A i \in 1 .. k + 3 : i <= k => i \in 1 .. k
      /\ \A i \in 1 .. k + 3 : ~ (i <= k) /\ i % 3 = 1 => i - k = 1
      /\ \A i \in 1 .. k + 3 : ~ (i <= k) /\ i % 3 = 0 => i - k = 3
      BY <1>4
<1>6. ASSUME NEW i \in 1 .. k + 3
      PROVE  (i % 3 = 1 => u[i] \in A) /\ (i % 3 = 0 => u[i] \in B)
  <2>1. CASE i <= k
    <3>1. u[i] = s[i] /\ i \in 1 .. k
          BY <1>3, <1>5, <2>1
    <3> QED BY <1>4, <3>1
  <2>2. CASE ~ (i <= k)
    <3>1. u[i] = m[i - k] /\ (i % 3 = 1 => i - k = 1) /\ (i % 3 = 0 => i - k = 3)
          BY <1>3, <1>5, <2>2
    <3> QED BY <3>1
  <2> QED BY <2>1, <2>2
<1>7. Train(u, A, B)
      BY <1>3, <1>5, <1>6 DEF Train
<1> QED BY <1>2, <1>7

\* The first message of a train, and the train behind it.
LEMMA TrainFirst ==
    ASSUME NEW V, NEW A, NEW B, NEW s \in Seq(V), Train(s, A, B), Len(s) # 0
    PROVE  /\ Len(s) >= 3 /\ s[1] \in A /\ s[3] \in B
           /\ Train(SubSeq(s, 4, Len(s)), A, B)
<1>1. PICK k \in Nat : k = Len(s)
      BY LenProperties
<1>2. /\ k % 3 = 0
      /\ \A i \in 1 .. k : (i % 3 = 1 => s[i] \in A) /\ (i % 3 = 0 => s[i] \in B)
      BY <1>1 DEF Train
<1>3. k >= 3
      BY <1>1, <1>2
<1>4. s[1] \in A /\ s[3] \in B
  <2>1. 1 \in 1 .. k /\ 3 \in 1 .. k /\ 1 % 3 = 1 /\ 3 % 3 = 0
        BY <1>3
  <2> QED BY <1>2, <2>1
<1>5. PICK u : u = SubSeq(s, 4, Len(s))
      OBVIOUS
<1>6. Len(u) = k - 3 /\ \A i \in 1 .. k - 3 : u[i] = s[i + 3]
      BY <1>1, <1>3, <1>5, FirstMessage
<1>7. /\ (k - 3) % 3 = 0
      /\ \A i \in 1 .. k - 3 : i + 3 \in 1 .. k /\ (i + 3) % 3 = i % 3
      BY <1>2, <1>3
<1>8. ASSUME NEW i \in 1 .. k - 3
      PROVE  (i % 3 = 1 => u[i] \in A) /\ (i % 3 = 0 => u[i] \in B)
  <2>1. PICK j : j = i + 3
        OBVIOUS
  <2>2. j \in 1 .. k /\ j % 3 = i % 3 /\ u[i] = s[j]
        BY <1>6, <1>7, <2>1
  <2> QED BY <1>2, <2>2
<1>9. Train(u, A, B)
      BY <1>6, <1>7, <1>8 DEF Train
<1> QED BY <1>1, <1>3, <1>4, <1>5, <1>9

\* What is sent after the first chunk stays behind it.
LEMMA TailOfConcat ==
    ASSUME NEW V, NEW s \in Seq(V), s # <<>>, NEW m \in Seq(V)
    PROVE  Tail(s) \in Seq(V) /\ Tail(s \o m) = Tail(s) \o m
<1>1. PICK k \in Nat, l \in Nat : k = Len(s) /\ l = Len(m)
      BY LenProperties
<1>2. k > 0
      BY <1>1, EmptySeq
<1>3. PICK u, t : u = s \o m /\ t = Tail(s)
      OBVIOUS
<1>4. /\ u \in Seq(V) /\ Len(u) = k + l
      /\ \A i \in 1 .. k + l : u[i] = IF i <= k THEN s[i] ELSE m[i - k]
      BY <1>1, <1>3, ConcatProperties
<1>5. t \in Seq(V) /\ Len(t) = k - 1 /\ \A i \in 1 .. k - 1 : t[i] = s[i + 1]
      BY <1>1, <1>3, HeadTailProperties
<1>6. PICK v : v = Tail(u)
      OBVIOUS
<1>7. v \in Seq(V) /\ Len(v) = k + l - 1 /\ \A i \in 1 .. k + l - 1 : v[i] = u[i + 1]
  <2>1. u # <<>>
        BY <1>2, <1>4
  <2> QED BY <1>4, <1>6, <2>1, HeadTailProperties
<1>8. PICK w : w = t \o m
      OBVIOUS
<1>9. /\ w \in Seq(V) /\ Len(w) = (k - 1) + l
      /\ \A i \in 1 .. (k - 1) + l : w[i] = IF i <= k - 1 THEN t[i] ELSE m[i - (k - 1)]
  <2>1. /\ w \in Seq(V) /\ Len(w) = Len(t) + Len(m)
        /\ \A i \in 1 .. Len(t) + Len(m) :
              w[i] = IF i <= Len(t) THEN t[i] ELSE m[i - Len(t)]
        BY <1>5, <1>8, ConcatProperties
  <2> QED BY <1>1, <1>5, <2>1, Zenon
<1>10. Len(v) = Len(w)
       BY <1>7, <1>9
<1>11. ASSUME NEW i \in 1 .. Len(v)
       PROVE  v[i] = w[i]
  <2>1. i \in 1 .. k + l - 1 /\ i \in 1 .. (k - 1) + l
        BY <1>7
  <2>2. i + 1 \in 1 .. k + l
        BY <2>1
  <2>3. v[i] = IF i + 1 <= k THEN s[i + 1] ELSE m[i + 1 - k]
        BY <1>4, <1>7, <2>1, <2>2
  <2>4. CASE i <= k - 1
    <3>1. i + 1 <= k /\ i \in 1 .. k - 1
          BY <2>1, <2>4
    <3> QED BY <1>5, <1>9, <2>1, <2>3, <2>4, <3>1
  <2>5. CASE ~ (i <= k - 1)
    <3>1. ~ (i + 1 <= k) /\ i + 1 - k = i - (k - 1)
          BY <2>1, <2>5
    <3> QED BY <1>9, <2>1, <2>3, <2>5, <3>1
  <2> QED BY <2>4, <2>5
<1>12. v = w
       BY <1>7, <1>9, <1>10, <1>11, SeqEqual
<1> QED BY <1>3, <1>5, <1>6, <1>8, <1>12

-----------------------------------------------------------------------------
(* Reachability.                                                             *)

\* It holds at the start.
LEMMA InitReach == Init => ReachInv
<1> SUFFICES ASSUME Init PROVE ReachInv
    OBVIOUS
<1>1. \A n \in Nodes : \A k \in 1 .. MaxConnects : <<n, k>> \in Conns
      BY NodesAssumption
<1>2. \A n \in Nodes : ~ (attempt[n] > 0)
      BY DEF Init, NodeInit
<1> QED BY <1>1, <1>2 DEF Init, ServiceInit, ReachInv, GoneHaveLeft, OlderAreNamed, Reachable

\* Faults are never forgotten.
LEMMA FaultsRemain ==
    ASSUME [Next]_vars
    PROVE  faults.kinds \subseteq faults'.kinds
<1>1. ASSUME NEW kind, Fault(kind)
      PROVE  faults.kinds \subseteq faults'.kinds
      BY <1>1 DEF Fault
<1> QED BY <1>1 DEF Next, vars, RouterBoot, BootFails, RouterCrash, Write, Serve,
           ClientRefused, LinkBreaks, NodeRestart, SegmentCut

\* Steps that only change what nodes and workers have to read or to write.
LEMMA QuietReach ==
    ASSUME NodeTypeOK, ReachInv, OnlyRouterFails, SubscribeInv,
           UNCHANGED <<link, seat, name, directory, attempt>>,
           \A n \in Nodes :
               at'[n] \in {"connect", "sleep"} =>
                   \/ at[n] \in {"connect", "sleep"}
                   \/ link[Conn(n)] # "open" \/ name[Conn(n)] # NONE
    PROVE  GoneHaveLeft' /\ OlderAreNamed' /\ \A n \in Nodes : Reachable(n)'
<1>1. GoneHaveLeft'
      BY DEF ReachInv, GoneHaveLeft
<1>2. \A n \in Nodes : Reachable(n)'
      BY DEF ReachInv, Reachable, Conn
<1>3. OlderAreNamed'
  <2> SUFFICES ASSUME NEW n \in Nodes, NEW k \in 1 .. MaxConnects,
                      link[<<n, k>>] = "open",
                      k < attempt[n] \/ at'[n] \in {"connect", "sleep"}
               PROVE  name[<<n, k>>] # NONE
      BY DEF OlderAreNamed
  <2>1. k < attempt[n] \/ k = attempt[n]
    <3>1. ~ (k > attempt[n])
          BY DEF SubscribeInv, LinksInOrder
    <3>2. k \in Int /\ attempt[n] \in Int
          BY NodesAssumption DEF NodeTypeOK
    <3> QED BY <3>1, <3>2
  <2>2. CASE k < attempt[n]
        BY <2>2 DEF ReachInv, OlderAreNamed
  <2>3. CASE k = attempt[n] /\ ~ (k < attempt[n])
        BY <2>3 DEF ReachInv, OlderAreNamed, Conn
  <2> QED BY <2>1, <2>2, <2>3
<1> QED BY <1>1, <1>2, <1>3

\* The router's steps: only connections that have ended leave, and an id is
\* claimed by the connection its node uses.
LEMMA ServeReach ==
    ASSUME ServiceTypeOK, NodeTypeOK, SubscribeInv, ReachInv, OnlyRouterFails,
           NEW c \in Conns, Admit(c) \/ Register(c) \/ Take(c) \/ Leave(c),
           UNCHANGED node
    PROVE  GoneHaveLeft' /\ OlderAreNamed' /\ \A n \in Nodes : Reachable(n)'
<1> USE DEF clients, service, node
<1>1. CASE Admit(c)
  <2>1. GoneHaveLeft'
        BY <1>1 DEF Admit, ReachInv, GoneHaveLeft, ServiceTypeOK
  <2>2. OlderAreNamed' /\ \A n \in Nodes : Reachable(n)'
        BY <1>1 DEF Admit, ReachInv, OlderAreNamed, Reachable, Conn
  <2> QED BY <2>1, <2>2
<1>2. CASE Register(c)
  <2>1. /\ unread[c] \in Texts /\ unread[c] # <<>> /\ name[c] = NONE
        /\ seat[c] = "seated" /\ UNCHANGED <<link, seat>>
        BY <1>2 DEF Register, ID_MESSAGE_SIZE, ServiceTypeOK
  <2>2. /\ name' = [name EXCEPT ![c] = c[1]]
        /\ directory' = [directory EXCEPT ![c[1]] = c]
        BY <1>2, RegisterOwn
  <2>3. GoneHaveLeft' /\ OlderAreNamed'
        BY <2>1, <2>2, ConnsAreNodes
        DEF ReachInv, GoneHaveLeft, OlderAreNamed, ServiceTypeOK
  <2>4. link[c] = "open"
        BY <2>1 DEF ReachInv, GoneHaveLeft, SubscribeInv, NewIsUntouched
  <2>5. c = Conn(c[1])
    <3>1. PICK n \in Nodes, k \in 1 .. MaxConnects : c = <<n, k>>
          BY NodesAssumption
    <3>2. ~ (k > attempt[n]) /\ ~ (k < attempt[n])
          BY <2>1, <2>4, <3>1 DEF SubscribeInv, LinksInOrder, ReachInv, OlderAreNamed
    <3>3. k \in Int /\ attempt[n] \in Int
          BY NodesAssumption DEF NodeTypeOK
    <3>4. k = attempt[n]
          BY <3>2, <3>3
    <3> QED BY <3>1, <3>4 DEF Conn
  <2>6. ASSUME NEW n \in Nodes
        PROVE  Reachable(n)'
    <3>1. (Conn(n))' = Conn(n) /\ attempt'[n] = attempt[n] /\ link' = link
          BY <2>1 DEF Conn
    <3>2. c[1] \in Values /\ n \in Values
          BY ConnsAreNodes, NodesAssumption
    <3>3. CASE n = c[1]
          BY <2>2, <2>5, <3>1, <3>2, <3>3 DEF Reachable, ServiceTypeOK
    <3>4. CASE n # c[1]
      <4>1. Conn(n) # c
            BY <2>5, <3>4 DEF Conn
      <4> QED BY <2>2, <3>1, <3>2, <3>4, <4>1 DEF ReachInv, Reachable, ServiceTypeOK
    <3> QED BY <3>3, <3>4
  <2> QED BY <2>3, <2>6
<1>3. CASE Take(c)
  <2>1. UNCHANGED <<link, seat, name, directory, attempt, at>>
        BY <1>3 DEF Take
  <2> QED BY <2>1, QuietReach
<1>4. CASE Leave(c)
      BY <1>4, ReadersAssumption DEF Leave, Ended, ReachInv, GoneHaveLeft
<1> QED BY <1>1, <1>2, <1>3, <1>4

\* A node connects again only after its connection has ended or beside one that
\* is registered.
LEMMA ConnectReach ==
    ASSUME ServiceTypeOK, NodeTypeOK, SubscribeInv, ReachInv, OnlyRouterFails,
           NEW n \in Nodes, Connect(n)
    PROVE  GoneHaveLeft' /\ OlderAreNamed' /\ \A m \in Nodes : Reachable(m)'
<1> USE DEF service
<1>1. attempt[n] \in Nat /\ attempt[n] + 1 \in 1 .. MaxConnects
      BY NodesAssumption DEF Connect, NodeTypeOK
<1>2. PICK c : c = <<n, attempt[n] + 1>>
      OBVIOUS
<1>3. /\ c \in Conns /\ link[c] = "new" /\ link' = [link EXCEPT ![c] = "open"]
      /\ attempt' = [attempt EXCEPT ![n] = @ + 1] /\ at[n] = "connect"
      /\ UNCHANGED <<seat, name, directory>>
      BY <1>1, <1>2, NodesAssumption DEF Connect, Open
<1>4. at'[n] = "subscribe" /\ \A m \in Nodes \ {n} : at'[m] = at[m]
      BY NodeTexts, GoStep DEF Connect, Steps
<1>5. GoneHaveLeft'
      BY <1>3 DEF ReachInv, GoneHaveLeft, ServiceTypeOK
<1>6. OlderAreNamed'
  <2> SUFFICES ASSUME NEW m \in Nodes, NEW k \in 1 .. MaxConnects,
                      link'[<<m, k>>] = "open",
                      k < attempt'[m] \/ at'[m] \in {"connect", "sleep"}
               PROVE  name[<<m, k>>] # NONE
      BY <1>3 DEF OlderAreNamed
  <2>1. CASE m # n
        BY <1>2, <1>3, <1>4, <2>1 DEF ReachInv, OlderAreNamed, ServiceTypeOK, NodeTypeOK
  <2>2. CASE m = n
    <3>1. k < attempt[n] + 1
          BY <1>3, <1>4, <2>2 DEF NodeTypeOK
    <3>2. <<m, k>> # c
          BY <1>1, <1>2, <3>1
    <3>3. link[<<m, k>>] = "open"
          BY <1>3, <3>2 DEF ServiceTypeOK
    <3> QED BY <1>3, <2>2, <3>3 DEF ReachInv, OlderAreNamed
  <2> QED BY <2>1, <2>2
<1>7. ASSUME NEW m \in Nodes
      PROVE  Reachable(m)'
  <2>1. CASE m # n
    <3>1. (Conn(m))' = Conn(m) /\ Conn(m) # c /\ attempt'[m] = attempt[m]
          BY <1>2, <1>3, <2>1 DEF Conn, NodeTypeOK
    <3>2. link'[Conn(m)] = link[Conn(m)]
          BY <1>3, <3>1 DEF ServiceTypeOK
    <3> QED BY <1>3, <3>1, <3>2 DEF ReachInv, Reachable
  <2>2. CASE m = n
    <3>1. (Conn(m))' = c /\ name[c] = NONE
          BY <1>2, <1>3, <2>2 DEF Conn, NodeTypeOK, SubscribeInv, NewIsUntouched
    <3>2. m # NONE
          BY NodesAssumption
    <3> QED BY <1>3, <3>1, <3>2 DEF Reachable
  <2> QED BY <2>1, <2>2
<1> QED BY <1>5, <1>6, <1>7

\* A node gives a connection up when it is over, or after it was registered.
LEMMA GiveUpReach ==
    ASSUME SubscribeInv, NEW n \in Nodes, GiveUp(n) \/ RecvError(n)
    PROVE  link[Conn(n)] # "open" \/ name[Conn(n)] # NONE
<1>1. <<n>> # <<>> /\ <<n, FIRST_MTI, DstId[n]>> # <<>>
      OBVIOUS
<1> QED BY <1>1 DEF GiveUp, RecvError, SendFailing, SubscribeInv, NodesSubscribeFirst, SubscribesFirst

\* Every step keeps it.
LEMMA ReachStep ==
    ASSUME TypeInv, SubscribeInv, ReachInv, [Next]_vars
    PROVE  ReachInv'
<1> SUFFICES ASSUME OnlyRouterFails'
             PROVE  GoneHaveLeft' /\ OlderAreNamed' /\ \A n \in Nodes : Reachable(n)'
    BY DEF ReachInv
<1>1. ServiceTypeOK /\ NodeTypeOK
      BY TypeParts
<1>2. OnlyRouterFails
      BY FaultsRemain DEF OnlyRouterFails
<1>3. ASSUME NEW kind, Fault(kind)
      PROVE  kind \notin {"reset", "refuse", "restart"}
      BY <1>3 DEF Fault, OnlyRouterFails
<1>4. CASE UNCHANGED vars \/ RouterBoot \/ BootFails \/ Write
  <2>1. UNCHANGED <<link, seat, name, directory, attempt, at>>
        BY <1>4 DEF vars, RouterBoot, BootFails, Write, Deliver, Lose, Hand, clients,
                    service, node
  <2> QED BY <1>1, <1>2, <2>1, QuietReach
<1>5. CASE RouterCrash
  <2>1. \A c \in Conns : link'[c] # "open"
        BY <1>5 DEF RouterCrash
  <2>2. GoneHaveLeft'
        BY <1>5 DEF RouterCrash, GoneHaveLeft, ReachInv
  <2>3. OlderAreNamed'
        BY <2>1, NodesAssumption DEF OlderAreNamed
  <2>4. \A n \in Nodes : Reachable(n)'
    <3>1. UNCHANGED attempt /\ \A n \in Nodes : (Conn(n))' = Conn(n)
          BY <1>5 DEF RouterCrash, node, Conn
    <3>2. \A n \in Nodes : attempt[n] > 0 => Conn(n) \in Conns
          BY <1>1, ConnIsConn
    <3> QED BY <2>1, <3>1, <3>2 DEF Reachable
  <2> QED BY <2>2, <2>3, <2>4
<1>6. ASSUME NEW c \in Conns, Serve(c) \/ ClientRefused(c)
      PROVE  GoneHaveLeft' /\ OlderAreNamed' /\ \A n \in Nodes : Reachable(n)'
  <2>1. Serve(c)
        BY <1>3, <1>6 DEF ClientRefused
  <2>2. (Admit(c) \/ Register(c) \/ Take(c) \/ Leave(c)) /\ UNCHANGED node
        BY <2>1 DEF Serve
  <2> QED BY <1>1, <1>2, <2>2, ServeReach
<1>7. ASSUME NEW n \in Nodes,
             \/ Connect(n) \/ ConnectFails(n) \/ NodeStep(n)
             \/ LinkBreaks(n) \/ NodeRestart(n) \/ SegmentCut(n)
      PROVE  GoneHaveLeft' /\ OlderAreNamed' /\ \A m \in Nodes : Reachable(m)'
  <2>1. CASE Connect(n)
        BY <1>1, <1>2, <2>1, ConnectReach
  <2>2. ~ LinkBreaks(n) /\ ~ NodeRestart(n)
        BY <1>3 DEF LinkBreaks, NodeRestart
  <2>3. CASE ConnectFails(n) \/ NodeStep(n) \/ SegmentCut(n)
    <3>1. UNCHANGED <<link, seat, name, directory, attempt>>
          BY <2>3 DEF ConnectFails, NodeStep, SegmentCut, Wake, SendOk, Send, SendLost,
             SendAgain, GiveUp, RecvMessage, RecvError, ShortRecv, Recv, clients, service
    <3>2. \A m \in Nodes \ {n} : at'[m] = at[m]
          BY <1>1, <2>3 DEF ConnectFails, NodeStep, SegmentCut, Wake, SendOk, Sent, SendLost,
             SendAgain, GiveUp, RecvMessage, RecvError, ShortRecv, Go, NodeTypeOK
    <3>3. at'[n] \in {"connect", "sleep"} =>
              \/ at[n] \in {"connect", "sleep"}
              \/ link[Conn(n)] # "open" \/ name[Conn(n)] # NONE
      <4>1. CASE GiveUp(n) \/ RecvError(n)
            BY <4>1, GiveUpReach
      <4>2. CASE ConnectFails(n) \/ Wake(n)
            BY <4>2 DEF ConnectFails, Wake
      <4>3. CASE SendOk(n) \/ SendLost(n) \/ SendAgain(n) \/ RecvMessage(n) \/ SegmentCut(n)
        <5>1. \/ at' = [at EXCEPT ![n] = "initiate"] \/ at' = [at EXCEPT ![n] = "recv"]
              \/ at' = [at EXCEPT ![n] = "reply"] \/ at' = at
              BY <4>3 DEF SendOk, SendLost, Sent, SendAgain, RecvMessage, SegmentCut,
                 ShortRecv, Go
        <5> QED BY <1>1, <5>1 DEF NodeTypeOK
      <4> QED BY <2>3, <4>1, <4>2, <4>3 DEF NodeStep
    <3> QED BY <1>1, <1>2, <3>1, <3>2, <3>3, QuietReach
  <2> QED BY <1>7, <2>1, <2>2, <2>3
<1> QED BY <1>4, <1>5, <1>6, <1>7 DEF Next

\* Unless a single connection ends, the messages for a node go to the
\* connection it has subscribed on: add_node() claims the id for it, and
\* removeSession() only runs for connections of a router that is gone
\* (sessions.cpp:24-43, 62-85; router.cpp:200-220).
THEOREM SubscribedNodesAreReachable == SafetySpec => []SubscribedNodeIsReachable
<1>1. Init => TypeInv /\ SubscribeInv /\ ReachInv
      BY InitTypeInv, InitSubscribe, InitReach
<1>2. TypeInv /\ SubscribeInv /\ ReachInv /\ [Next]_vars
      => TypeInv' /\ SubscribeInv' /\ ReachInv'
      BY TypeStep, SubscribeStep, ReachStep
<1>3. ReachInv => SubscribedNodeIsReachable
      BY DEF ReachInv, OnlyRouterFails, SubscribedNodeIsReachable, Reachable
<1> QED BY <1>1, <1>2, <1>3, PTL DEF SafetySpec

-----------------------------------------------------------------------------
(* Addresses.                                                                *)

\* It holds at the start.
LEMMA InitAligned == Init => AlignedInv
<1> SUFFICES ASSUME Init PROVE AlignedInv
    OBVIOUS
<1> USE DEF Init, ServiceInit, NodeInit
<1>1. \A c \in Conns : Outgoing(c) /\ Incoming(c)
      BY TrainEmpty DEF Outgoing, Incoming
<1>2. CarriedRight
  <2>1. BagToSet(EmptyBag) = {}
        BY DEF BagToSet, EmptyBag, SetToBag
  <2> QED BY <2>1 DEF CarriedRight
<1>3. \A n \in Nodes : Answers(n)
      BY DEF Answers
<1>4. \A n \in Nodes : LastIsLive(n)
      BY NodesAssumption DEF LastIsLive
<1> QED BY <1>1, <1>2, <1>3, <1>4 DEF AlignedInv

\* A node's peers are those it is a peer of.
LEMMA PeersAreMutual ==
    ASSUME NEW n \in Nodes, NEW b \in Nodes, b \in Peers(n)
    PROVE  n \in Senders(b)
BY NodesAssumption DEF Peers, Senders

\* After its id, a node sends messages to its peers.
LEMMA SendsRight ==
    ASSUME NodeTypeOK, SubscribeInv, NEW n \in Nodes, Answers(n),
           at[n] \in {"initiate", "reply"}
    PROVE  Len(out[n]) = 3 /\ out[n][1] = n /\ out[n][3] \in Peers(n)
<1>1. CASE at[n] = "initiate"
  <2>1. out[n] = <<n, FIRST_MTI, DstId[n]>>
        BY <1>1 DEF SubscribeInv, NodesSubscribeFirst, SubscribesFirst
  <2>2. DstId[n] \in Peers(n)
        BY NodesAssumption DEF Peers
  <2> QED BY <2>1, <2>2
<1>2. CASE at[n] = "reply"
      BY <1>2 DEF SubscribeInv, NodesSubscribeFirst, SubscribesFirst, Answers, Senders,
                  DATA_MESSAGE_SIZE
<1> QED BY <1>1, <1>2

\* What clients have sent, step by step.
LEMMA SendOutgoing ==
    ASSUME ServiceTypeOK, NodeTypeOK, SubscribeInv, NEW n \in Nodes, SendOk(n),
           Answers(n), \A c \in Conns : Outgoing(c)
    PROVE  \A c \in Conns : Outgoing(c)'
<1>1. PICK c : c = Conn(n)
      OBVIOUS
<1>2. /\ c \in Conns /\ c[1] = n /\ link[c] = "open"
      /\ unread[c] \in Texts /\ out[n] \in Texts
      /\ at[n] \in {"subscribe", "initiate", "reply"}
      BY <1>1, ConnIsConn, ConnsAreNodes DEF NodeTypeOK, SendOk, Send, Sent, ServiceTypeOK
<1>3. unread' = [unread EXCEPT ![c] = unread[c] \o out[n]] /\ UNCHANGED name
      BY <1>1 DEF SendOk, Send, service
<1>4. \A d \in Conns : d # c => unread'[d] = unread[d]
      BY <1>3 DEF ServiceTypeOK
<1>5. unread'[c] = unread[c] \o out[n]
      BY <1>2, <1>3 DEF ServiceTypeOK
<1>6. unread[c] \in Seq(Values) /\ out[n] \in Seq(Values)
      BY <1>2 DEF Texts
<1>7. CASE at[n] = "subscribe"
  <2>1. out[n] = <<n>> /\ name[c] = NONE /\ unread[c] = <<>>
        BY <1>1, <1>7 DEF SubscribeInv, NodesSubscribeFirst, SubscribesFirst
  <2>2. unread'[c] = <<n>>
        BY <1>5, <1>6, <2>1, ConcatEmptySeq
  <2>3. Tail(<<n>>) = <<>>
        OBVIOUS
  <2>4. Outgoing(c)'
        BY <1>3, <2>1, <2>2, <2>3, TrainEmpty DEF Outgoing
  <2> QED BY <1>3, <1>4, <2>4 DEF Outgoing
<1>8. CASE at[n] \in {"initiate", "reply"}
  <2>1. Len(out[n]) = 3 /\ out[n][1] \in {n} /\ out[n][3] \in Peers(n)
        BY <1>8, SendsRight
  <2>2. CASE name[c] # NONE
    <3>1. Train(unread[c] \o out[n], {n}, Peers(n))
          BY <1>2, <1>6, <2>1, <2>2, TrainAppend DEF Outgoing
    <3>2. Outgoing(c)'
          BY <1>2, <1>3, <1>5, <2>2, <3>1 DEF Outgoing
    <3> QED BY <1>3, <1>4, <3>2 DEF Outgoing
  <2>3. CASE name[c] = NONE
    <3>1. unread[c] # <<>>
          BY <1>1, <1>2, <1>8, <2>3
          DEF SubscribeInv, NodesSubscribeFirst, SubscribesFirst
    <3>2. /\ Tail(unread[c]) \in Seq(Values)
          /\ Tail(unread[c] \o out[n]) = Tail(unread[c]) \o out[n]
          BY <1>6, <3>1, TailOfConcat
    <3>3. Train(Tail(unread[c]), {n}, Peers(n))
          BY <1>2, <2>3, <3>1 DEF Outgoing
    <3>4. Train(Tail(unread[c]) \o out[n], {n}, Peers(n))
          BY <1>6, <2>1, <3>2, <3>3, TrainAppend
    <3>5. Train(Tail(unread'[c]), {n}, Peers(n))
          BY <1>5, <3>2, <3>4
    <3>6. Outgoing(c)'
          BY <1>2, <1>3, <2>3, <3>5 DEF Outgoing
    <3> QED BY <1>3, <1>4, <3>6 DEF Outgoing
  <2> QED BY <2>2, <2>3
<1> QED BY <1>2, <1>7, <1>8

\* What nodes send is a train behind the id.
LEMMA OutgoingStep ==
    ASSUME ServiceTypeOK, NodeTypeOK, SubscribeInv, [Next]_vars,
           \A c \in Conns : Outgoing(c), \A n \in Nodes : Answers(n)
    PROVE  \A c \in Conns : Outgoing(c)'
<1> USE DEF clients, service
<1>1. CASE UNCHANGED <<name, unread>>
      BY <1>1 DEF Outgoing
<1>2. ASSUME NEW c \in Conns, UNCHANGED name, unread' = [unread EXCEPT ![c] = <<>>]
      PROVE  \A d \in Conns : Outgoing(d)'
      BY <1>2, TrainEmpty DEF Outgoing, ServiceTypeOK
<1>3. CASE RouterCrash
  <2>1. \A c \in Conns : unread'[c] = <<>>
        BY <1>3 DEF RouterCrash
  <2> QED BY <2>1, TrainEmpty DEF Outgoing
<1>4. ASSUME NEW c \in Conns, Refuse(c)
      PROVE  \A d \in Conns : Outgoing(d)'
      BY <1>2, <1>4 DEF Refuse
<1>5. ASSUME NEW c \in Conns, Register(c)
      PROVE  \A d \in Conns : Outgoing(d)'
  <2>1. /\ name[c] = NONE /\ unread[c] # <<>>
        /\ unread' = [unread EXCEPT ![c] = Tail(unread[c])]
        /\ name' = [name EXCEPT ![c] = c[1]] /\ c[1] # NONE
    <3>1. name' = [name EXCEPT ![c] = c[1]] /\ c[1] # NONE
          BY <1>5, RegisterOwn, ConnsAreNodes
    <3> QED BY <1>5, <3>1 DEF Register, ID_MESSAGE_SIZE
  <2>2. unread'[c] = Tail(unread[c]) /\ name'[c] # NONE
        BY <2>1 DEF ServiceTypeOK
  <2>3. Outgoing(c)'
        BY <2>1, <2>2 DEF Outgoing
  <2>4. \A d \in Conns : d # c => unread'[d] = unread[d] /\ name'[d] = name[d]
        BY <2>1 DEF ServiceTypeOK
  <2> QED BY <2>3, <2>4 DEF Outgoing
<1>6. ASSUME NEW c \in Conns, Take(c)
      PROVE  \A d \in Conns : Outgoing(d)'
  <2>1. PICK rest : rest = SubSeq(unread[c], 4, Len(unread[c]))
        OBVIOUS
  <2>2. /\ name[c] # NONE /\ UNCHANGED name /\ Len(unread[c]) >= 3
        /\ unread' = [unread EXCEPT ![c] = rest]
        BY <1>6, <2>1 DEF Take, DATA_MESSAGE_SIZE
  <2>3. unread[c] \in Seq(Values) /\ Len(unread[c]) # 0
        BY <2>2 DEF ServiceTypeOK, Texts
  <2>4. Train(rest, {c[1]}, Peers(c[1]))
        BY <2>1, <2>2, <2>3, TrainFirst DEF Outgoing
  <2>5. unread'[c] = rest /\ \A d \in Conns : d # c => unread'[d] = unread[d]
        BY <2>2 DEF ServiceTypeOK
  <2> QED BY <2>2, <2>4, <2>5 DEF Outgoing
<1>7. ASSUME NEW n \in Nodes, LinkBreaks(n)
      PROVE  \A d \in Conns : Outgoing(d)'
  <2>1. Conn(n) \in Conns /\ unread[Conn(n)] \in Texts
        BY <1>7, ConnIsConn DEF LinkBreaks, ServiceTypeOK
  <2>2. SubSeq(unread[Conn(n)], 1, 0) = <<>>
        BY <2>1, TextParts
  <2>3. UNCHANGED name /\ unread' = [unread EXCEPT ![Conn(n)] = <<>>]
        BY <1>7, <2>2 DEF LinkBreaks, Reset
  <2> QED BY <1>2, <2>1, <2>3
<1>8. ASSUME NEW n \in Nodes, SendOk(n)
      PROVE  \A d \in Conns : Outgoing(d)'
      BY <1>8, SendOutgoing
<1>9. CASE UNCHANGED vars \/ RouterBoot \/ BootFails \/ Write
      BY <1>1, <1>9 DEF vars, RouterBoot, BootFails, Write, Deliver, Lose, Hand
<1>10. ASSUME NEW c \in Conns, Serve(c) \/ ClientRefused(c)
       PROVE  \A d \in Conns : Outgoing(d)'
  <2>1. CASE Admit(c) \/ Leave(c)
        BY <1>1, <2>1 DEF Admit, Leave
  <2> QED BY <1>4, <1>5, <1>6, <1>10, <2>1 DEF Serve, ClientRefused
<1>11. ASSUME NEW n \in Nodes,
              \/ Connect(n) \/ ConnectFails(n) \/ NodeStep(n)
              \/ LinkBreaks(n) \/ NodeRestart(n) \/ SegmentCut(n)
       PROVE  \A d \in Conns : Outgoing(d)'
  <2>1. CASE ~ SendOk(n) /\ ~ LinkBreaks(n)
    <3>1. UNCHANGED <<name, unread>>
          BY <1>11, <2>1 DEF Connect, Open, ConnectFails, NodeStep, Wake, SendLost,
             SendAgain, GiveUp, RecvMessage, RecvError, Recv, NodeRestart, SegmentCut,
             ShortRecv
    <3> QED BY <1>1, <3>1
  <2> QED BY <1>7, <1>8, <2>1
<1> QED BY <1>3, <1>9, <1>10, <1>11 DEF Next

\* With whole messages in the buffer, only a fault makes recv() return less.
LEMMA NoShortRecv ==
    ASSUME ServiceTypeOK, NodeTypeOK, SubscribeInv, NEW n \in Nodes, NoCuts',
           \A c \in Conns : Incoming(c)
    PROVE  ~ SegmentCut(n)
<1> SUFFICES ASSUME SegmentCut(n) PROVE FALSE
    OBVIOUS
<1>1. PICK k \in 1 .. 2 : Recv(n, k) /\ (k = Len(mail[Conn(n)]) \/ Fault("cut"))
  <2>1. PICK k \in 1 .. DATA_MESSAGE_SIZE - 1 :
            Recv(n, k) /\ (k = Len(mail[Conn(n)]) \/ Fault("cut"))
        BY Zenon DEF SegmentCut, ShortRecv
  <2>2. k \in 1 .. 2
        BY DEF DATA_MESSAGE_SIZE
  <2> QED BY <2>1, <2>2
<1>2. ~ Fault("cut")
      BY DEF Fault, NoCuts
<1>3. k \in 1 .. 3
      OBVIOUS
<1>4. /\ Conn(n) \in Conns /\ mail[Conn(n)] \in Seq(Values)
      /\ Len(mail[Conn(n)]) \in Nat
      BY <1>1, <1>3, RecvIsNamed DEF Texts
<1>5. Len(mail[Conn(n)]) \in 1 .. 2
      BY <1>1, <1>2
<1>6. Len(mail[Conn(n)]) >= 3
  <2>1. Len(mail[Conn(n)]) # 0
        BY <1>5
  <2> QED BY <1>4, <2>1, TrainFirst DEF Incoming
<1>7. \A l \in 1 .. 2 : ~ (l >= 3)
      OBVIOUS
<1> QED BY <1>5, <1>6, <1>7, Zenon

\* What is carried: the messages taken go to the node they name.
LEMMA CarriedStep ==
    ASSUME ServiceTypeOK, SubscribeInv, [Next]_vars,
           \A c \in Conns : Outgoing(c), CarriedRight
    PROVE  CarriedRight'
<1> USE DEF clients, service
<1>1. CASE BagToSet(transit') \subseteq BagToSet(transit)
      BY <1>1 DEF CarriedRight
<1>2. CASE RouterCrash
  <2>1. BagToSet(EmptyBag) = {}
        BY DEF BagToSet, EmptyBag, SetToBag
  <2> QED BY <1>2, <2>1 DEF CarriedRight, RouterCrash
<1>3. ASSUME NEW c \in Conns, Take(c)
      PROVE  CarriedRight'
  <2>1. PICK m : m = SubSeq(unread[c], 1, 3)
        OBVIOUS
  <2>2. /\ name[c] # NONE /\ Len(unread[c]) >= 3
        /\ transit' = IF directory[m[3]] = nullptr THEN transit
                      ELSE BagAdd(transit, [to |-> directory[m[3]], msg |-> m])
        BY <1>3, <2>1 DEF Take, DATA_MESSAGE_SIZE
  <2>3. unread[c] \in Seq(Values) /\ Len(unread[c]) # 0
        BY <2>2 DEF ServiceTypeOK, Texts
  <2>4. m[1] = unread[c][1] /\ m[3] = unread[c][3] /\ m[3] \in Values
        BY <2>1, <2>2, <2>3, FirstMessage
  <2>5. m[1] = c[1] /\ m[3] \in Peers(c[1])
    <3>1. Train(unread[c], {c[1]}, Peers(c[1]))
          BY <2>2 DEF Outgoing
    <3>2. unread[c][1] \in {c[1]} /\ unread[c][3] \in Peers(c[1])
          BY <2>3, <3>1, TrainFirst
    <3> QED BY <2>4, <3>2
  <2>6. \A task \in BagToSet(transit') :
            task \in BagToSet(transit)
            \/ (directory[m[3]] # nullptr /\ task = [to |-> directory[m[3]], msg |-> m])
        BY <2>2, BagElements
  <2>7. ASSUME directory[m[3]] # nullptr
        PROVE  m[3] = directory[m[3]][1] /\ m[1] \in Senders(m[3])
    <3>1. PICK d \in Conns : d = directory[m[3]]
          BY <2>4, <2>7 DEF ServiceTypeOK
    <3>2. m[3] # NONE /\ name[d] = m[3]
          BY <2>4, <2>7, <3>1 DEF SubscribeInv, RoutesAreNamed
    <3>3. m[3] = d[1]
          BY <3>1, <3>2 DEF SubscribeInv, NamesAreOwn
    <3>4. m[1] \in Nodes /\ m[3] \in Nodes /\ m[3] \in Peers(m[1])
          BY <2>5, <3>3, ConnsAreNodes
    <3> QED BY <3>1, <3>3, <3>4, PeersAreMutual
  <2> QED BY <2>6, <2>7 DEF CarriedRight
<1>4. CASE Write
  <2>1. PICK task \in BagToSet(transit) : Deliver(task) \/ Lose(task)
        BY <1>4 DEF Write
  <2> QED BY <1>1, <2>1, HandStep
<1>5. CASE UNCHANGED vars \/ RouterBoot \/ BootFails
      BY <1>1, <1>5 DEF vars, RouterBoot, BootFails
<1>6. ASSUME NEW c \in Conns, Serve(c) \/ ClientRefused(c)
      PROVE  CarriedRight'
  <2>1. CASE Admit(c) \/ Refuse(c) \/ Register(c) \/ Leave(c)
        BY <1>1, <2>1 DEF Admit, Refuse, Register, Leave
  <2> QED BY <1>3, <1>6, <2>1 DEF Serve, ClientRefused
<1>7. ASSUME NEW n \in Nodes,
             \/ Connect(n) \/ ConnectFails(n) \/ NodeStep(n)
             \/ LinkBreaks(n) \/ NodeRestart(n) \/ SegmentCut(n)
      PROVE  CarriedRight'
  <2>1. transit' = transit
        BY <1>7 DEF Connect, Open, ConnectFails, NodeStep, Wake, SendOk, Send, SendLost,
           SendAgain, GiveUp, RecvMessage, RecvError, Recv, LinkBreaks, Reset,
           NodeRestart, SegmentCut, ShortRecv
  <2> QED BY <1>1, <2>1
<1> QED BY <1>2, <1>4, <1>5, <1>6, <1>7 DEF Next

\* What a node finds when recv() returns a whole message, and what it then has.
LEMMA RecvRight ==
    ASSUME ServiceTypeOK, NodeTypeOK, SubscribeInv, NEW n \in Nodes, RecvMessage(n),
           \A c \in Conns : Incoming(c)
    PROVE  Answers(n)' /\ \A c \in Conns : Incoming(c)'
<1>1. PICK k \in 1 .. 3 : k = 3
      OBVIOUS
<1>2. Recv(n, k)
      BY <1>1 DEF RecvMessage, DATA_MESSAGE_SIZE
<1>3. PICK c, s : c = Conn(n) /\ s = SubSeq(mail[c], 1, 3)
      OBVIOUS
<1>4. /\ c \in Conns /\ mail[c] \in Texts /\ Len(mail[c]) >= 3 /\ c[1] = n
      /\ mail[c] \in Seq(Values) /\ Len(mail[c]) # 0
      BY <1>1, <1>2, <1>3, RecvIsNamed, ConnsAreNodes DEF Texts
<1>5. /\ mail[c][1] \in Senders(n) /\ mail[c][3] \in {n}
      /\ Train(SubSeq(mail[c], 4, Len(mail[c])), Senders(n), {n})
      BY <1>4, TrainFirst DEF Incoming
<1>6. mail' = [mail EXCEPT ![c] = SubSeq(mail[c], 4, Len(mail[c]))]
      BY <1>3 DEF RecvMessage, Recv, DATA_MESSAGE_SIZE
<1>7. \A d \in Conns : Incoming(d)'
  <2>1. /\ mail'[c] = SubSeq(mail[c], 4, Len(mail[c]))
        /\ \A d \in Conns : d # c => mail'[d] = mail[d]
        BY <1>4, <1>6 DEF ServiceTypeOK
  <2> QED BY <1>4, <1>5, <2>1 DEF Incoming
<1>8. s \in Texts /\ Len(s) = 3 /\ s[1] = mail[c][1] /\ s[3] = mail[c][3]
      BY <1>3, <1>4, FirstMessage DEF Texts
<1>9. Answers(n)'
  <2>1. Go(n, "reply", processMessage(n, s))
        BY <1>3 DEF RecvMessage, DATA_MESSAGE_SIZE
  <2>2. out'[n] = processMessage(n, s)
        BY <1>8, <2>1, ReplyText, GoStep DEF Steps
  <2>3. PICK mti : mti = (s[2] + MTI_STEP) % MTI_LIMIT
        OBVIOUS
  <2>4. out'[n] = <<n, mti, s[1]>>
        BY <1>5, <1>8, <2>2, <2>3 DEF processMessage
  <2>5. out'[n] # <<>> /\ out'[n][1] = n /\ out'[n][3] = s[1]
        BY <2>4
  <2> QED BY <1>5, <1>8, <2>5 DEF Answers
<1> QED BY <1>7, <1>9

\* What is delivered.
LEMMA IncomingStep ==
    ASSUME ServiceTypeOK, NodeTypeOK, SubscribeInv, [Next]_vars, NoCuts',
           CarriedRight, \A c \in Conns : Incoming(c)
    PROVE  \A c \in Conns : Incoming(c)'
<1> USE DEF clients, service
<1>1. CASE UNCHANGED mail
      BY <1>1 DEF Incoming
<1>2. CASE Write
  <2>1. PICK task \in BagToSet(transit) : Deliver(task) \/ Lose(task)
        BY <1>2 DEF Write
  <2>2. PICK c, m : c = task.to /\ m = task.msg
        OBVIOUS
  <2>3. /\ c \in Conns /\ m \in Texts /\ Len(m) = 3
        /\ mail' = mail \/ mail' = [mail EXCEPT ![c] = mail[c] \o m]
        BY <2>1, <2>2, HandStep
  <2>4. m[3] \in {c[1]} /\ m[1] \in Senders(c[1])
        BY <2>2 DEF CarriedRight
  <2>5. Train(mail[c] \o m, Senders(c[1]), {c[1]})
    <3>1. mail[c] \in Seq(Values) /\ m \in Seq(Values)
          BY <2>3 DEF ServiceTypeOK, Texts
    <3> QED BY <2>3, <2>4, <3>1, TrainAppend DEF Incoming
  <2>6. CASE mail' = [mail EXCEPT ![c] = mail[c] \o m]
    <3>1. /\ mail'[c] = mail[c] \o m
          /\ \A d \in Conns : d # c => mail'[d] = mail[d]
          BY <2>3, <2>6 DEF ServiceTypeOK
    <3> QED BY <2>5, <3>1 DEF Incoming
  <2> QED BY <1>1, <2>3, <2>6
<1>3. CASE UNCHANGED vars \/ RouterBoot \/ BootFails \/ RouterCrash
      BY <1>1, <1>3 DEF vars, RouterBoot, BootFails, RouterCrash
<1>4. ASSUME NEW c \in Conns, Serve(c) \/ ClientRefused(c)
      PROVE  \A d \in Conns : Incoming(d)'
  <2>1. UNCHANGED mail
        BY <1>4 DEF Serve, ClientRefused, Admit, Refuse, Register, Take, Leave
  <2> QED BY <1>1, <2>1
<1>5. ASSUME NEW n \in Nodes,
             \/ Connect(n) \/ ConnectFails(n) \/ NodeStep(n)
             \/ LinkBreaks(n) \/ NodeRestart(n) \/ SegmentCut(n)
      PROVE  \A d \in Conns : Incoming(d)'
  <2>1. CASE RecvMessage(n)
        BY <2>1, RecvRight
  <2>2. ~ SegmentCut(n)
        BY NoShortRecv
  <2>3. CASE ~ RecvMessage(n)
    <3>1. UNCHANGED mail
          BY <1>5, <2>2, <2>3 DEF Connect, Open, ConnectFails, NodeStep, Wake, SendOk,
             Send, SendLost, SendAgain, GiveUp, RecvError, LinkBreaks, Reset, NodeRestart
    <3> QED BY <1>1, <3>1
  <2> QED BY <2>1, <2>3
<1> QED BY <1>2, <1>3, <1>4, <1>5 DEF Next

\* A node's reply.
LEMMA AnswerStep ==
    ASSUME ServiceTypeOK, NodeTypeOK, SubscribeInv, [Next]_vars, NoCuts',
           \A c \in Conns : Incoming(c), \A n \in Nodes : Answers(n)
    PROVE  \A n \in Nodes : Answers(n)'
<1> USE DEF node
<1>1. CASE UNCHANGED <<at, out>>
      BY <1>1 DEF Answers
<1>2. CASE UNCHANGED vars \/ RouterBoot \/ BootFails \/ RouterCrash \/ Write
      BY <1>1, <1>2 DEF vars, RouterBoot, BootFails, RouterCrash, Write
<1>3. ASSUME NEW c \in Conns, Serve(c) \/ ClientRefused(c)
      PROVE  \A n \in Nodes : Answers(n)'
      BY <1>1, <1>3 DEF Serve, ClientRefused
<1>4. ASSUME NEW n \in Nodes,
             \/ Connect(n) \/ ConnectFails(n) \/ NodeStep(n)
             \/ LinkBreaks(n) \/ NodeRestart(n) \/ SegmentCut(n)
      PROVE  \A m \in Nodes : Answers(m)'
  <2>1. CASE LinkBreaks(n) \/ SegmentCut(n) \/ SendAgain(n)
        BY <1>1, <2>1 DEF LinkBreaks, SegmentCut, ShortRecv, SendAgain
  <2>2. CASE ~ (LinkBreaks(n) \/ SegmentCut(n) \/ SendAgain(n))
    <3>1. \A m \in Nodes \ {n} : at'[m] = at[m] /\ out'[m] = out[m]
          BY <1>4, <2>2 DEF Connect, ConnectFails, NodeStep, Wake, SendOk, SendLost,
             Sent, GiveUp, RecvMessage, RecvError, NodeRestart, Go, NodeTypeOK
    <3>2. Answers(n)'
      <4>1. CASE RecvMessage(n)
            BY <4>1, RecvRight
      <4>2. CASE ~ RecvMessage(n)
        <5>1. \E step \in {"connect", "sleep", "subscribe", "initiate", "recv"} :
                  at' = [at EXCEPT ![n] = step]
              BY <1>4, <2>2, <4>2 DEF Connect, ConnectFails, NodeStep, Wake, SendOk,
                 SendLost, Sent, GiveUp, RecvError, NodeRestart, Go
        <5> QED BY <5>1 DEF Answers, NodeTypeOK
      <4> QED BY <4>1, <4>2
    <3> QED BY <3>1, <3>2 DEF Answers
  <2> QED BY <2>1, <2>2
<1> QED BY <1>2, <1>3, <1>4 DEF Next

\* A node gives a connection up only when it is over.
LEMMA GivesUpEnded ==
    ASSUME SubscribeInv, NEW n \in Nodes, Answers(n), GiveUp(n) \/ RecvError(n)
    PROVE  link[Conn(n)] # "open" /\ at[n] \notin {"connect", "sleep"}
<1>1. <<n>> # <<>> /\ <<n, FIRST_MTI, DstId[n]>> # <<>>
      OBVIOUS
<1> QED BY <1>1 DEF GiveUp, RecvError, SendFailing, Answers, SubscribeInv,
           NodesSubscribeFirst, SubscribesFirst

\* The connections that work.
LEMMA LiveStep ==
    ASSUME ServiceTypeOK, NodeTypeOK, SubscribeInv, [Next]_vars,
           \A n \in Nodes : Answers(n) /\ LastIsLive(n)
    PROVE  \A n \in Nodes : LastIsLive(n)'
<1> USE DEF clients, service, node
<1>1. \A n \in Nodes : \A k \in 1 .. MaxConnects : <<n, k>> \in Conns
      BY NodesAssumption
<1>2. ASSUME UNCHANGED <<attempt, sockets, at>>,
             \A c \in Conns : link'[c] = "open" => link[c] = "open"
      PROVE  \A n \in Nodes : LastIsLive(n)'
      BY <1>1, <1>2 DEF LastIsLive
<1>3. CASE UNCHANGED vars \/ RouterBoot \/ BootFails \/ RouterCrash \/ Write
  <2>1. UNCHANGED <<attempt, sockets, at>>
        BY <1>3 DEF vars, RouterBoot, BootFails, RouterCrash, Write
  <2>2. \A c \in Conns : link'[c] = "open" => link[c] = "open"
        BY <1>3 DEF vars, RouterBoot, BootFails, RouterCrash, Write, Deliver, Lose, Hand
  <2> QED BY <1>2, <2>1, <2>2
<1>4. ASSUME NEW c \in Conns, Serve(c) \/ ClientRefused(c)
      PROVE  \A n \in Nodes : LastIsLive(n)'
  <2>1. UNCHANGED <<attempt, sockets, at>>
        BY <1>4 DEF Serve, ClientRefused
  <2>2. link' = link \/ link' = [link EXCEPT ![c] = "refused"]
        BY <1>4 DEF Serve, ClientRefused, Admit, Refuse, Register, Take, Leave
  <2>3. \A d \in Conns : link'[d] = "open" => link[d] = "open"
        BY <2>2 DEF ServiceTypeOK
  <2> QED BY <1>2, <2>1, <2>3
<1>5. ASSUME NEW n \in Nodes,
             \/ Connect(n) \/ ConnectFails(n) \/ NodeStep(n)
             \/ LinkBreaks(n) \/ NodeRestart(n) \/ SegmentCut(n)
      PROVE  \A m \in Nodes : LastIsLive(m)'
  <2>1. CASE Connect(n)
    <3>1. attempt[n] + 1 \in 1 .. MaxConnects
          BY <2>1, NodesAssumption DEF Connect, NodeTypeOK
    <3>2. PICK c : c = <<n, attempt[n] + 1>>
          OBVIOUS
    <3>3. /\ c \in Conns /\ link' = [link EXCEPT ![c] = "open"]
          /\ attempt' = [attempt EXCEPT ![n] = attempt[n] + 1] /\ at[n] = "connect"
          /\ sockets' = [sockets EXCEPT ![n] = sockets[n] \cup {attempt[n] + 1}]
          BY <1>1, <2>1, <3>1, <3>2 DEF Connect, Open
    <3>4. at'[n] = "subscribe" /\ \A m \in Nodes \ {n} : at'[m] = at[m]
          BY <2>1, NodeTexts, GoStep DEF Connect, Steps
    <3>5. \A d \in Conns : d # c => link'[d] = link[d]
          BY <3>3 DEF ServiceTypeOK
    <3>6. LastIsLive(n)'
      <4>1. \A k \in 1 .. MaxConnects : link[<<n, k>>] # "open"
            BY <3>3 DEF LastIsLive
      <4>2. \A k \in 1 .. MaxConnects : link'[<<n, k>>] = "open" => k = attempt[n] + 1
            BY <1>1, <3>2, <3>5, <4>1
      <4>3. attempt'[n] = attempt[n] + 1 /\ attempt[n] + 1 \in sockets'[n]
            BY <3>3 DEF NodeTypeOK
      <4> QED BY <3>4, <4>2, <4>3 DEF LastIsLive
    <3>7. ASSUME NEW m \in Nodes \ {n}
          PROVE  LastIsLive(m)'
      <4>1. attempt'[m] = attempt[m] /\ sockets'[m] = sockets[m] /\ at'[m] = at[m]
            BY <3>3, <3>4 DEF NodeTypeOK
      <4>2. \A k \in 1 .. MaxConnects : link'[<<m, k>>] = link[<<m, k>>]
            BY <1>1, <3>2, <3>5
      <4> QED BY <4>1, <4>2 DEF LastIsLive
    <3> QED BY <3>6, <3>7
  <2>2. CASE LinkBreaks(n)
    <3>1. UNCHANGED <<attempt, sockets, at>> /\ link' = [link EXCEPT ![Conn(n)] = "reset"]
          BY <2>2 DEF LinkBreaks, Reset
    <3>2. \A d \in Conns : link'[d] = "open" => link[d] = "open"
          BY <3>1 DEF ServiceTypeOK
    <3> QED BY <1>2, <3>1, <3>2
  <2>3. CASE NodeRestart(n)
    <3>1. /\ UNCHANGED attempt /\ sockets' = [sockets EXCEPT ![n] = {}]
          /\ \A c \in Conns :
                /\ c[1] = n => link'[c] # "open"
                /\ c[1] # n => link'[c] = link[c]
          BY <2>3 DEF NodeRestart
    <3>2. \A m \in Nodes \ {n} : at'[m] = at[m] /\ sockets'[m] = sockets[m]
          BY <2>3, <3>1 DEF NodeRestart, Go, NodeTypeOK
    <3>3. LastIsLive(n)'
          BY <1>1, <3>1 DEF LastIsLive
    <3>4. ASSUME NEW m \in Nodes \ {n}
          PROVE  LastIsLive(m)'
          BY <1>1, <3>1, <3>2 DEF LastIsLive
    <3> QED BY <3>3, <3>4
  <2>4. CASE GiveUp(n) \/ RecvError(n)
    <3>1. UNCHANGED <<link, attempt>>
          BY <2>4 DEF GiveUp, RecvError
    <3>2. \A m \in Nodes \ {n} : at'[m] = at[m] /\ sockets'[m] = sockets[m]
          BY <2>4 DEF GiveUp, RecvError, closeConnection, Go, NodeTypeOK
    <3>3. LastIsLive(n)'
      <4>1. link[Conn(n)] # "open"
            BY <2>4, GivesUpEnded
      <4>2. \A k \in 1 .. MaxConnects : link[<<n, k>>] # "open"
            BY <4>1 DEF LastIsLive, Conn
      <4> QED BY <3>1, <4>2 DEF LastIsLive
    <3>4. ASSUME NEW m \in Nodes \ {n}
          PROVE  LastIsLive(m)'
          BY <3>1, <3>2 DEF LastIsLive
    <3> QED BY <3>3, <3>4
  <2>5. CASE ConnectFails(n) \/ Wake(n)
    <3>1. /\ UNCHANGED <<link, attempt, sockets>>
          /\ at[n] \in {"connect", "sleep"}
          /\ \A m \in Nodes \ {n} : at'[m] = at[m]
          BY <2>5 DEF ConnectFails, Wake, Go, NodeTypeOK
    <3>2. \A k \in 1 .. MaxConnects : link[<<n, k>>] # "open"
          BY <3>1 DEF LastIsLive
    <3>3. LastIsLive(n)'
          BY <3>1, <3>2 DEF LastIsLive
    <3>4. ASSUME NEW m \in Nodes \ {n}
          PROVE  LastIsLive(m)'
          BY <3>1 DEF LastIsLive
    <3> QED BY <3>3, <3>4
  <2>6. CASE SendOk(n) \/ SendLost(n) \/ SendAgain(n) \/ RecvMessage(n) \/ SegmentCut(n)
    <3>1. UNCHANGED <<link, attempt, sockets>>
          BY <2>6 DEF SendOk, Send, SendLost, SendAgain, RecvMessage, SegmentCut,
             ShortRecv, Recv
    <3>2. \/ at' = [at EXCEPT ![n] = "initiate"] \/ at' = [at EXCEPT ![n] = "recv"]
          \/ at' = [at EXCEPT ![n] = "reply"] \/ at' = at
          BY <2>6 DEF SendOk, SendLost, Sent, SendAgain, RecvMessage, SegmentCut,
             ShortRecv, Go
    <3>3. \A m \in Nodes : at'[m] \in {"connect", "sleep"} => at'[m] = at[m]
          BY <3>2 DEF NodeTypeOK
    <3> QED BY <3>1, <3>3 DEF LastIsLive
  <2> QED BY <1>5, <2>1, <2>2, <2>3, <2>4, <2>5, <2>6 DEF NodeStep
<1> QED BY <1>3, <1>4, <1>5 DEF Next

\* Every step keeps it.
LEMMA AlignedStep ==
    ASSUME TypeInv, SubscribeInv, AlignedInv, [Next]_vars
    PROVE  AlignedInv'
<1> SUFFICES ASSUME NoCuts'
             PROVE  /\ \A c \in Conns : Outgoing(c)' /\ Incoming(c)'
                    /\ CarriedRight'
                    /\ \A n \in Nodes : Answers(n)' /\ LastIsLive(n)'
    BY DEF AlignedInv
<1>1. ServiceTypeOK /\ NodeTypeOK
      BY TypeParts
<1>2. NoCuts
      BY FaultsRemain DEF NoCuts
<1>3. /\ \A c \in Conns : Outgoing(c) /\ Incoming(c)
      /\ CarriedRight
      /\ \A n \in Nodes : Answers(n) /\ LastIsLive(n)
      BY <1>2 DEF AlignedInv
<1>4. \A c \in Conns : Outgoing(c)'
      BY <1>1, <1>3, OutgoingStep
<1>5. \A c \in Conns : Incoming(c)'
      BY <1>1, <1>3, IncomingStep
<1>6. CarriedRight'
      BY <1>1, <1>3, CarriedStep
<1>7. \A n \in Nodes : Answers(n)'
      BY <1>1, <1>3, AnswerStep
<1>8. \A n \in Nodes : LastIsLive(n)'
      BY <1>1, <1>3, LiveStep
<1> QED BY <1>4, <1>5, <1>6, <1>7, <1>8

\* It is an invariant of the system.
LEMMA AlignedAlways == SafetySpec => []AlignedInv
<1>1. Init => TypeInv /\ SubscribeInv /\ AlignedInv
      BY InitTypeInv, InitSubscribe, InitAligned
<1>2. TypeInv /\ SubscribeInv /\ AlignedInv /\ [Next]_vars
      => TypeInv' /\ SubscribeInv' /\ AlignedInv'
      BY TypeStep, SubscribeStep, AlignedStep
<1> QED BY <1>1, <1>2, PTL DEF SafetySpec

\* Unless a segment ends inside a message, a node only gets messages for it,
\* and its reply goes back to the node the message came from, through any
\* number of breaks, restarts and crashes (node.cpp:33-67, node/include/message.h).
THEOREM RepliesAreToSenders == SafetySpec => []RepliesAreAddressed
<1>1. AlignedInv => RepliesAreAddressed
      BY DEF AlignedInv, NoCuts, RepliesAreAddressed, Answers, Senders, Peers
<1> QED BY <1>1, AlignedAlways, PTL

\* With the same exception, a node that connects again has no connection that
\* works, and has closed none that does (node.cpp:33-67, 128-130).
THEOREM NodesHaveOneLiveLink == SafetySpec => []OneLiveLink
<1>1. AlignedInv => OneLiveLink
      BY DEF AlignedInv, NoCuts, OneLiveLink, LastIsLive
<1> QED BY <1>1, AlignedAlways, PTL

-----------------------------------------------------------------------------
(* Counting.                                                                 *)

\* One element for another.
LEMMA Exchanged ==
    ASSUME NEW S, NEW T, IsFiniteSet(S), NEW y \in S, NEW z, T \subseteq (S \ {y}) \cup {z}
    PROVE  IsFiniteSet(T) /\ Cardinality(T) <= Cardinality(S)
<1>1. PICK R, Q : R = S \ {y} /\ Q = R \cup {z}
      OBVIOUS
<1>2. IsFiniteSet(R) /\ Cardinality(R) = Cardinality(S) - 1 /\ Cardinality(S) \in Nat
      BY <1>1, FS_RemoveElement, FS_CardinalityType
<1>3. /\ IsFiniteSet(Q) /\ Cardinality(R) \in Nat
      /\ Cardinality(Q) = Cardinality(R) \/ Cardinality(Q) = Cardinality(R) + 1
      BY <1>1, <1>2, FS_AddElement, FS_CardinalityType
<1>4. IsFiniteSet(T) /\ Cardinality(T) <= Cardinality(Q) /\ Cardinality(T) \in Nat
      BY <1>1, <1>3, FS_Subset, FS_CardinalityType
<1>5. \A s, r, q, t \in Int :
          r = s - 1 /\ (q = r \/ q = r + 1) /\ t <= q => t <= s
      OBVIOUS
<1>6. Cardinality(Q) \in Nat
      BY <1>3, FS_CardinalityType
<1>7. \A k \in Nat : k \in Int
      OBVIOUS
<1> QED BY <1>2, <1>3, <1>4, <1>5, <1>6, <1>7, Zenon

\* A box of which one text changes.
LEMMA BoxChanges ==
    ASSUME NEW box, NEW text \in [Conns -> Texts], NEW text2 \in [Conns -> Texts],
           NEW c \in Conns, \A d \in Conns : d # c => text2[d] = text[d]
    PROVE  /\ Len(text2[c]) \div 3 <= Len(text[c]) \div 3 =>
                  Messages(box, text2) \subseteq Messages(box, text)
           /\ Len(text2[c]) = Len(text[c]) + 3 =>
                  \E z : Messages(box, text2) \subseteq Messages(box, text) \cup {z}
           /\ Len(text[c]) = Len(text2[c]) + 3 =>
                  \E y \in Messages(box, text) :
                      Messages(box, text2) \subseteq Messages(box, text) \ {y}
<1>1. \A s \in [Conns -> Texts] : \A x :
          x \in Messages(box, s) <=>
              \E d \in Conns : \E i \in 1 .. Len(s[d]) \div 3 : x = <<box, d, i>>
  <2> SUFFICES ASSUME NEW s \in [Conns -> Texts], NEW x
               PROVE  x \in Messages(box, s) <=>
                          \E d \in Conns : \E i \in 1 .. Len(s[d]) \div 3 : x = <<box, d, i>>
      OBVIOUS
  <2>1. PICK k : k = [d \in Conns |-> Len(s[d]) \div 3]
        OBVIOUS
  <2>2. \A d \in Conns : k[d] = Len(s[d]) \div 3
        BY <2>1
  <2>3. Messages(box, s) = UNION {{<<box, d, i>> : i \in 1 .. k[d]} : d \in Conns}
    <3> DEFINE F(d) == {<<box, d, i>> : i \in 1 .. Len(s[d]) \div 3}
               G(d) == {<<box, d, i>> : i \in 1 .. k[d]}
    <3>1. \A d \in Conns : F(d) = G(d)
          BY <2>2, Zenon
    <3>2. Messages(box, s) = UNION {F(d) : d \in Conns}
          BY DEF Messages, DATA_MESSAGE_SIZE
    <3>3. UNION {F(d) : d \in Conns} = UNION {G(d) : d \in Conns}
      <4> HIDE DEF F, G
      <4>1. {F(d) : d \in Conns} = {G(d) : d \in Conns}
            BY <3>1
      <4> QED BY <4>1, Zenon
    <3> QED BY <3>2, <3>3
  <2>4. x \in UNION {{<<box, d, i>> : i \in 1 .. k[d]} : d \in Conns} <=>
            \E d \in Conns : \E i \in 1 .. k[d] : x = <<box, d, i>>
        OBVIOUS
  <2> QED BY <2>2, <2>3, <2>4, Zenon
<1>2. PICK k \in Nat, l \in Nat : k = Len(text[c]) /\ l = Len(text2[c])
      BY LenProperties DEF Texts
<1>3. k \div 3 \in Nat /\ l \div 3 \in Nat
      OBVIOUS
<1>4. PICK p, q \in Nat : p = k \div 3 /\ q = l \div 3
      BY <1>3
<1>5. \A x : x \in Messages(box, text2) =>
          \/ x \in Messages(box, text) /\ \A i : x # <<box, c, i>>
          \/ \E i \in 1 .. q : x = <<box, c, i>>
  <2> SUFFICES ASSUME NEW x \in Messages(box, text2)
               PROVE  \/ x \in Messages(box, text) /\ \A i : x # <<box, c, i>>
                      \/ \E i \in 1 .. q : x = <<box, c, i>>
      OBVIOUS
  <2>0. PICK d \in Conns : \E i \in 1 .. Len(text2[d]) \div 3 : x = <<box, d, i>>
        BY <1>1
  <2>1. PICK i \in 1 .. Len(text2[d]) \div 3 : x = <<box, d, i>>
        BY <2>0
  <2>2. CASE d = c
        BY <1>2, <1>4, <2>1, <2>2
  <2>3. CASE d # c
    <3>1. text2[d] = text[d]
          BY <2>3
    <3>2. x \in Messages(box, text)
          BY <1>1, <2>1, <3>1
    <3> QED BY <2>1, <2>3, <3>2
  <2> QED BY <2>2, <2>3
<1>6. \A i \in 1 .. p : <<box, c, i>> \in Messages(box, text)
      BY <1>1, <1>2, <1>4
<1>7. ASSUME q <= p
      PROVE  Messages(box, text2) \subseteq Messages(box, text)
  <2>1. \A i \in 1 .. q : i \in 1 .. p
        BY <1>7
  <2> QED BY <1>5, <1>6, <2>1
<1>8. ASSUME l = k + 3
      PROVE  \E z : Messages(box, text2) \subseteq Messages(box, text) \cup {z}
  <2>1. q = p + 1
        BY <1>4, <1>8
  <2>2. \A i \in 1 .. q : i \in 1 .. p \/ i = q
        BY <2>1
  <2>3. Messages(box, text2) \subseteq Messages(box, text) \cup {<<box, c, q>>}
        BY <1>5, <1>6, <2>2
  <2> QED BY <2>3
<1>9. ASSUME k = l + 3
      PROVE  \E y \in Messages(box, text) :
                 Messages(box, text2) \subseteq Messages(box, text) \ {y}
  <2>1. p = q + 1
        BY <1>4, <1>9
  <2>2. p \in 1 .. p /\ \A i \in 1 .. q : i \in 1 .. p /\ i # p
        BY <2>1
  <2>3. Messages(box, text2) \subseteq Messages(box, text) \ {<<box, c, p>>}
        BY <1>5, <1>6, <2>2
  <2> QED BY <1>6, <2>2, <2>3
<1> QED BY <1>2, <1>4, <1>7, <1>8, <1>9

\* A task more, and a task less.
LEMMA BagChanges ==
    ASSUME NEW B, \A e \in BagToSet(B) : B[e] \in Nat \ {0}, NEW x
    PROVE  /\ \A e \in BagToSet(BagAdd(B, x)) : BagAdd(B, x)[e] \in Nat \ {0}
           /\ \E z : Carried(BagAdd(B, x)) \subseteq Carried(B) \cup {z}
           /\ \A e \in BagToSet(BagRemove(B, x)) : BagRemove(B, x)[e] \in Nat \ {0}
           /\ x \in BagToSet(B) =>
                  \E y \in Carried(B) : Carried(BagRemove(B, x)) \subseteq Carried(B) \ {y}
<1>1. \A C : \A t : t \in Carried(C) <=>
          \E e \in BagToSet(C) : \E i \in 1 .. C[e] : t = <<"transit", e, i>>
      BY DEF Carried
<1>2. PICK C : C = BagAdd(B, x)
      OBVIOUS
<1>3. PICK D : D = BagRemove(B, x)
      OBVIOUS
<1>4. PICK b \in Nat : (x \in BagToSet(B) /\ b = B[x]) \/ (x \notin BagToSet(B) /\ b = 0)
  <2>1. x \in BagToSet(B) => B[x] \in Nat
        OBVIOUS
  <2>2. 0 \in Nat
        OBVIOUS
  <2> QED BY <2>1, <2>2
<1>5. /\ \A e \in BagToSet(C) : e # x => e \in BagToSet(B) /\ C[e] = B[e]
      /\ x \in BagToSet(C) /\ C[x] = b + 1
      BY <1>2, <1>4 DEF BagAdd, BagToSet
<1>6. \A e \in BagToSet(C) : C[e] \in Nat \ {0}
      BY <1>5
<1>7. Carried(C) \subseteq Carried(B) \cup {<<"transit", x, b + 1>>}
  <2> SUFFICES ASSUME NEW t \in Carried(C), t # <<"transit", x, b + 1>>
               PROVE  t \in Carried(B)
      OBVIOUS
  <2>0. PICK e \in BagToSet(C) : \E i \in 1 .. C[e] : t = <<"transit", e, i>>
        BY <1>1
  <2>1. PICK i \in 1 .. C[e] : t = <<"transit", e, i>>
        BY <2>0
  <2>2. CASE e # x
        BY <1>1, <1>5, <2>1, <2>2
  <2>3. CASE e = x
    <3>1. i \in 1 .. b + 1 /\ i # b + 1
          BY <1>5, <2>1, <2>3
    <3>2. i \in 1 .. b /\ b # 0
          BY <3>1
    <3>3. x \in BagToSet(B) /\ i \in 1 .. B[x]
          BY <1>4, <3>2
    <3> QED BY <1>1, <2>1, <2>3, <3>3
  <2> QED BY <2>2, <2>3
<1>8. ASSUME x \in BagToSet(B)
      PROVE  /\ \A e \in BagToSet(D) : D[e] \in Nat \ {0}
             /\ \E y \in Carried(B) : Carried(D) \subseteq Carried(B) \ {y}
  <2>1. b = B[x] /\ b # 0
        BY <1>4, <1>8
  <2>2. \A e \in BagToSet(D) : e # x => e \in BagToSet(B) /\ D[e] = B[e]
        BY <1>3, <1>8 DEF BagRemove, BagToSet
  <2>3. x \in BagToSet(D) => b # 1 /\ D[x] = b - 1
        BY <1>3, <1>8, <2>1 DEF BagRemove, BagToSet
  <2>4. \A e \in BagToSet(D) : D[e] \in Nat \ {0}
    <3>1. b # 1 => b - 1 \in Nat \ {0}
          BY <2>1
    <3> QED BY <2>2, <2>3, <3>1
  <2>5. <<"transit", x, b>> \in Carried(B)
    <3>1. b \in 1 .. b
          BY <2>1
    <3> QED BY <1>1, <1>8, <2>1, <3>1
  <2>6. Carried(D) \subseteq Carried(B) \ {<<"transit", x, b>>}
    <3> SUFFICES ASSUME NEW t \in Carried(D)
                 PROVE  t \in Carried(B) /\ t # <<"transit", x, b>>
        OBVIOUS
    <3>0. PICK e \in BagToSet(D) : \E i \in 1 .. D[e] : t = <<"transit", e, i>>
          BY <1>1
    <3>1. PICK i \in 1 .. D[e] : t = <<"transit", e, i>>
          BY <3>0
    <3>2. CASE e # x
          BY <1>1, <2>2, <3>1, <3>2
    <3>3. CASE e = x
      <4>1. i \in 1 .. b - 1
            BY <2>3, <3>1, <3>3
      <4>2. i \in 1 .. b /\ i # b
            BY <4>1
      <4> QED BY <1>1, <1>8, <2>1, <3>1, <3>3, <4>2
    <3> QED BY <3>2, <3>3
  <2> QED BY <2>4, <2>5, <2>6
<1>9. x \notin BagToSet(B) => D = B
      BY <1>3 DEF BagRemove, BagToSet
<1> QED BY <1>2, <1>3, <1>6, <1>7, <1>8, <1>9

\* Nothing is in two places.
LEMMA Places ==
    /\ \A box, text : \A x \in Messages(box, text) : x[1] = box
    /\ \A tasks : \A x \in Carried(tasks) : x[1] = "transit"
    /\ \A x \in Replies : x[1] = "reply"
    /\ \A x \in Starting : x[1] = "start"
<1>1. ASSUME NEW box, NEW text, NEW x \in Messages(box, text)
      PROVE  x[1] = box
      BY <1>1 DEF Messages
<1>2. ASSUME NEW tasks, NEW x \in Carried(tasks)
      PROVE  x[1] = "transit"
      BY <1>2 DEF Carried
<1>3. (\A x \in Replies : x[1] = "reply") /\ \A x \in Starting : x[1] = "start"
      BY DEF Replies, Starting
<1> QED BY <1>1, <1>2, <1>3

\* What a step of a node makes of its reply and its start.
LEMMA NodePlaces ==
    ASSUME NEW n \in Nodes, \A m \in Nodes \ {n} : at'[m] = at[m] /\ out'[m] = out[m]
    PROVE  /\ Replies' \subseteq Replies \cup {<<"reply", n>>}
           /\ at'[n] # "reply" => Replies' \subseteq Replies \ {<<"reply", n>>}
           /\ at[n] = "reply" /\ out[n] # <<>> => <<"reply", n>> \in Replies
           /\ Starting' \subseteq Starting \cup {<<"start", n>>}
           /\ at'[n] \notin {"subscribe", "initiate"} =>
                  Starting' \subseteq Starting \ {<<"start", n>>}
           /\ at[n] \in {"subscribe", "initiate"} => <<"start", n>> \in Starting
BY DEF Replies, Starting

\* The parts of Total, and what of them a step may change.
LEMMA TotalParts ==
    ASSUME NEW U, NEW T, NEW M, NEW R, NEW S,
           U = Messages("unread", unread), T = Carried(transit),
           M = Messages("mail", mail), R = Replies, S = Starting
    PROVE  /\ Total = U \cup T \cup M \cup R \cup S
           /\ \A x \in U : x \notin T /\ x \notin M /\ x \notin R /\ x \notin S
           /\ \A x \in T : x \notin U /\ x \notin M /\ x \notin R /\ x \notin S
           /\ \A x \in M : x \notin U /\ x \notin T /\ x \notin R /\ x \notin S
           /\ \A x \in R : x \notin U /\ x \notin T /\ x \notin M /\ x \notin S
           /\ \A x \in S : x \notin U /\ x \notin T /\ x \notin M /\ x \notin R
<1>1. Total = U \cup T \cup M \cup R \cup S
      BY DEF Total, InPlay
<1>2. /\ \A x \in U : x[1] = "unread"
      /\ \A x \in T : x[1] = "transit"
      /\ \A x \in M : x[1] = "mail"
      /\ \A x \in R : x[1] = "reply"
      /\ \A x \in S : x[1] = "start"
      BY Places
<1> QED BY <1>1, <1>2

\* It holds at the start.
LEMMA InitCount == Init => CountInv
<1> SUFFICES ASSUME Init PROVE CountInv
    OBVIOUS
<1> USE DEF Init, ServiceInit, NodeInit
<1>1. BagToSet(EmptyBag) = {}
      BY DEF BagToSet, EmptyBag, SetToBag
<1>2. Messages("unread", unread) = {} /\ Messages("mail", mail) = {}
  <2>1. \A c \in Conns : Len(unread[c]) = 0 /\ Len(mail[c]) = 0
        OBVIOUS
  <2>2. 1 .. 0 \div 3 = {}
        OBVIOUS
  <2> QED BY <2>1, <2>2, Zenon DEF Messages, DATA_MESSAGE_SIZE
<1>3. Carried(transit) = {} /\ TransitIsBag
      BY <1>1 DEF Carried, TransitIsBag
<1>4. Replies = {} /\ Starting = {}
      BY DEF Replies, Starting
<1>5. Total = {}
      BY <1>2, <1>3, <1>4 DEF Total, InPlay
<1>6. Made = {}
      BY DEF Made
<1> QED BY <1>3, <1>5, <1>6, FS_EmptySet DEF CountInv

\* What a step may do to Total.
LEMMA Counted ==
    ASSUME CountInv, TransitIsBag', Made' = Made,
           \/ Total' \subseteq Total
           \/ \E y \in Total : \E z : Total' \subseteq (Total \ {y}) \cup {z}
    PROVE  CountInv'
<1>1. PICK S, T : S = Total /\ T = Total'
      OBVIOUS
<1>2. IsFiniteSet(S) /\ Cardinality(S) <= Cardinality(Made) /\ IsFiniteSet(Made)
      BY <1>1 DEF CountInv
<1>3. IsFiniteSet(T) /\ Cardinality(T) <= Cardinality(S)
      BY <1>1, <1>2, Exchanged, FS_Subset
<1>4. Cardinality(T) \in Nat /\ Cardinality(S) \in Nat /\ Cardinality(Made) \in Nat
      BY <1>2, <1>3, FS_CardinalityType
<1>5. \A t, s, m \in Nat : t <= s /\ s <= m => t <= m
      OBVIOUS
<1>6. Cardinality(T) <= Cardinality(Made)
      BY <1>2, <1>3, <1>4, <1>5, Zenon
<1> QED BY <1>1, <1>2, <1>3, <1>6 DEF CountInv

\* The messages in play in the next state, part by part.
LEMMA TotalNext ==
    Total' = Messages("unread", unread') \cup Carried(transit')
                 \cup Messages("mail", mail') \cup Replies' \cup Starting'
BY DEF Total, InPlay

\* The router moves messages and makes none.
LEMMA ServeCount ==
    ASSUME ServiceTypeOK, ServiceTypeOK', CountInv, Made' = Made, UNCHANGED node,
           NEW c \in Conns,
           Admit(c) \/ Refuse(c) \/ Register(c) \/ Take(c) \/ Leave(c)
    PROVE  CountInv'
<1> USE DEF clients, service
<1>1. PICK U, T, M, R, S :
          /\ U = Messages("unread", unread) /\ T = Carried(transit)
          /\ M = Messages("mail", mail) /\ R = Replies /\ S = Starting
      OBVIOUS
<1>2. /\ Total = U \cup T \cup M \cup R \cup S
      /\ \A x \in U : x \notin T /\ x \notin M /\ x \notin R /\ x \notin S
      BY <1>1, TotalParts
<1>3. Replies' = R /\ Starting' = S
      BY <1>1 DEF node, Replies, Starting
<1>4. mail' = mail
      BY DEF Admit, Refuse, Register, Take, Leave
<1>5. PICK U1, T1 : U1 = Messages("unread", unread') /\ T1 = Carried(transit')
      OBVIOUS
<1>6. Total' = U1 \cup T1 \cup M \cup R \cup S
      BY <1>1, <1>3, <1>4, <1>5, TotalNext
<1>7. unread \in [Conns -> Texts] /\ unread' \in [Conns -> Texts]
      BY DEF ServiceTypeOK
<1>8. TransitIsBag
      BY DEF CountInv
<1>9. CASE Admit(c) \/ Leave(c)
  <2>1. U1 = U /\ T1 = T /\ transit' = transit
        BY <1>1, <1>5, <1>9 DEF Admit, Leave
  <2> QED BY <1>2, <1>6, <1>8, <2>1, Counted DEF TransitIsBag
<1>10. CASE Refuse(c) \/ Register(c)
  <2>1. T1 = T /\ transit' = transit
        BY <1>1, <1>5, <1>10 DEF Refuse, Register
  <2>2. PICK s : s = unread'[c]
        OBVIOUS
  <2>3. \A d \in Conns : d # c => unread'[d] = unread[d]
        BY <1>10 DEF Refuse, Register, ServiceTypeOK
  <2>4. Len(s) \in Nat /\ Len(unread[c]) \in Nat /\ Len(s) <= Len(unread[c])
    <3>1. unread[c] \in Seq(Values) /\ Len(unread[c]) \in Nat
          BY LenProperties DEF ServiceTypeOK, Texts
    <3>2. CASE Refuse(c)
      <4>1. s = <<>>
            BY <2>2, <3>2 DEF Refuse, ServiceTypeOK
      <4>2. Len(s) = 0
            BY <4>1
      <4> QED BY <3>1, <4>2
    <3>3. CASE Register(c)
      <4>1. unread[c] # <<>> /\ s = Tail(unread[c])
            BY <2>2, <3>3 DEF Register, ServiceTypeOK, ID_MESSAGE_SIZE
      <4>2. Len(s) = Len(unread[c]) - 1 /\ Len(s) \in Nat
            BY <3>1, <4>1, HeadTailProperties, LenProperties
      <4> QED BY <3>1, <4>2
    <3> QED BY <1>10, <3>2, <3>3
  <2>5. Len(unread'[c]) \div 3 <= Len(unread[c]) \div 3
    <3>1. \A k, l \in Nat : k <= l => k \div 3 <= l \div 3
          OBVIOUS
    <3> QED BY <2>2, <2>4, <3>1, Zenon
  <2>6. U1 \subseteq U
        BY <1>1, <1>5, <1>7, <2>3, <2>5, BoxChanges
  <2> QED BY <1>2, <1>6, <1>8, <2>1, <2>6, Counted DEF TransitIsBag
<1>11. CASE Take(c)
  <2>1. unread[c] \in Seq(Values) /\ Len(unread[c]) >= 3 /\ Len(unread[c]) \in Nat
        BY <1>11, LenProperties DEF Take, DATA_MESSAGE_SIZE, ServiceTypeOK, Texts
  <2>2. \A d \in Conns : d # c => unread'[d] = unread[d]
        BY <1>11 DEF Take, ServiceTypeOK
  <2>3. unread'[c] = SubSeq(unread[c], 4, Len(unread[c]))
        BY <1>11 DEF Take, DATA_MESSAGE_SIZE, ServiceTypeOK
  <2>4. Len(unread[c]) = Len(unread'[c]) + 3
    <3>1. Len(unread'[c]) = Len(unread[c]) - 3
          BY <2>1, <2>3, FirstMessage
    <3>2. \A k \in Nat : k = (k - 3) + 3
          OBVIOUS
    <3> QED BY <2>1, <3>1, <3>2, Zenon
  <2>5. PICK y \in U : U1 \subseteq U \ {y}
        BY <1>1, <1>5, <1>7, <2>2, <2>4, BoxChanges
  <2>6. TransitIsBag' /\ \E z : T1 \subseteq T \cup {z}
    <3>1. transit' = transit \/ \E task : transit' = BagAdd(transit, task)
          BY <1>11 DEF Take
    <3>2. CASE transit' = transit
          BY <1>1, <1>5, <1>8, <3>2 DEF TransitIsBag
    <3>3. ASSUME NEW task, transit' = BagAdd(transit, task)
          PROVE  TransitIsBag' /\ \E z : T1 \subseteq T \cup {z}
          BY <1>1, <1>5, <1>8, <3>3, BagChanges DEF TransitIsBag
    <3> QED BY <3>1, <3>2, <3>3
  <2>7. PICK z : T1 \subseteq T \cup {z}
        BY <2>6
  <2>8. y \in Total /\ Total' \subseteq (Total \ {y}) \cup {z}
        BY <1>2, <1>6, <2>5, <2>7
  <2> QED BY <2>6, <2>8, Counted
<1> QED BY <1>9, <1>10, <1>11

\* Delivering moves a message, losing it takes it away.
LEMMA HandCount ==
    ASSUME ServiceTypeOK, ServiceTypeOK', CountInv, Made' = Made, UNCHANGED node,
           NEW task \in BagToSet(transit), Deliver(task) \/ Lose(task)
    PROVE  CountInv'
<1>1. PICK U, T, M, R, S :
          /\ U = Messages("unread", unread) /\ T = Carried(transit)
          /\ M = Messages("mail", mail) /\ R = Replies /\ S = Starting
      OBVIOUS
<1>2. /\ Total = U \cup T \cup M \cup R \cup S
      /\ \A x \in T : x \notin U /\ x \notin M /\ x \notin R /\ x \notin S
      BY <1>1, TotalParts
<1>3. Replies' = R /\ Starting' = S
      BY <1>1 DEF node, Replies, Starting
<1>4. /\ task.to \in Conns /\ task.msg \in Texts /\ Len(task.msg) = 3
      /\ mail' = mail \/ mail' = [mail EXCEPT ![task.to] = @ \o task.msg]
      /\ UNCHANGED unread
      BY HandStep
<1>5. PICK T1, M1 : T1 = Carried(transit') /\ M1 = Messages("mail", mail')
      OBVIOUS
<1>6. Total' = U \cup T1 \cup M1 \cup R \cup S
      BY <1>1, <1>3, <1>4, <1>5, TotalNext
<1>7. transit' = BagRemove(transit, task)
      BY DEF Deliver, Lose, Hand
<1>8. TransitIsBag
      BY DEF CountInv
<1>9. TransitIsBag' /\ \E y \in T : T1 \subseteq T \ {y}
      BY <1>1, <1>5, <1>7, <1>8, BagChanges DEF TransitIsBag
<1>10. PICK y \in T : T1 \subseteq T \ {y}
       BY <1>9
<1>11. \E z : M1 \subseteq M \cup {z}
  <2>1. CASE mail' = mail
        BY <1>1, <1>5, <2>1
  <2>2. CASE mail' = [mail EXCEPT ![task.to] = @ \o task.msg]
    <3>1. PICK c \in Conns : c = task.to
          BY <1>4
    <3>2. mail \in [Conns -> Texts] /\ mail' \in [Conns -> Texts]
          BY DEF ServiceTypeOK
    <3>3. /\ mail'[c] = mail[c] \o task.msg
          /\ \A d \in Conns : d # c => mail'[d] = mail[d]
          BY <2>2, <3>1, <3>2
    <3>4. Len(mail'[c]) = Len(mail[c]) + 3
      <4>1. mail[c] \in Seq(Values) /\ task.msg \in Seq(Values)
            BY <1>4, <3>2 DEF Texts
      <4>2. Len(mail[c] \o task.msg) = Len(mail[c]) + Len(task.msg)
            BY <4>1, ConcatProperties
      <4> QED BY <1>4, <3>3, <4>2
    <3> QED BY <1>1, <1>5, <3>2, <3>3, <3>4, BoxChanges
  <2> QED BY <1>4, <2>1, <2>2
<1>12. PICK z : M1 \subseteq M \cup {z}
       BY <1>11
<1>13. y \in Total /\ Total' \subseteq (Total \ {y}) \cup {z}
       BY <1>2, <1>6, <1>10, <1>12
<1> QED BY <1>9, <1>13, Counted

\* A crash only takes messages away.
LEMMA CrashCount ==
    ASSUME CountInv, Made' = Made, RouterCrash
    PROVE  CountInv'
<1>1. PICK U, T, M, R, S :
          /\ U = Messages("unread", unread) /\ T = Carried(transit)
          /\ M = Messages("mail", mail) /\ R = Replies /\ S = Starting
      OBVIOUS
<1>2. Total = U \cup T \cup M \cup R \cup S
      BY <1>1, TotalParts
<1>3. Replies' = R /\ Starting' = S /\ mail' = mail
      BY <1>1 DEF RouterCrash, node, Replies, Starting
<1>4. Carried(transit') = {} /\ TransitIsBag'
  <2>1. BagToSet(EmptyBag) = {}
        BY DEF BagToSet, EmptyBag, SetToBag
  <2> QED BY <2>1 DEF RouterCrash, Carried, TransitIsBag
<1>5. Messages("unread", unread') = {}
  <2>1. \A c \in Conns : Len(unread'[c]) = 0
        BY DEF RouterCrash
  <2>2. 1 .. 0 \div 3 = {}
        OBVIOUS
  <2> QED BY <2>1, <2>2, Zenon DEF Messages, DATA_MESSAGE_SIZE
<1>6. Total' \subseteq Total
      BY <1>1, <1>2, <1>3, <1>4, <1>5, TotalNext
<1> QED BY <1>4, <1>6, Counted

\* A send: the node's start or its reply becomes a message of its connection.
LEMMA SendCount ==
    ASSUME ServiceTypeOK, ServiceTypeOK', NodeTypeOK, SubscribeInv, CountInv,
           Made' = Made, NEW n \in Nodes, SendOk(n)
    PROVE  CountInv'
<1>1. PICK U, T, M, R, S :
          /\ U = Messages("unread", unread) /\ T = Carried(transit)
          /\ M = Messages("mail", mail) /\ R = Replies /\ S = Starting
      OBVIOUS
<1>2. /\ Total = U \cup T \cup M \cup R \cup S
      /\ \A x \in R : x \notin U /\ x \notin T /\ x \notin M /\ x \notin S
      /\ \A x \in S : x \notin U /\ x \notin T /\ x \notin M /\ x \notin R
      BY <1>1, TotalParts
<1>3. PICK c : c = Conn(n)
      OBVIOUS
<1>4. /\ c \in Conns /\ out[n] \in Texts /\ out[n] # <<>> /\ link[c] = "open"
      /\ at[n] \in {"subscribe", "initiate", "reply"}
      BY <1>3, ConnIsConn DEF NodeTypeOK, SendOk, Send, Sent
<1>5. /\ unread' = [unread EXCEPT ![c] = unread[c] \o out[n]]
      /\ UNCHANGED <<mail, transit>>
      BY <1>3 DEF SendOk, Send, service
<1>6. PICK U1, R1, S1 :
          U1 = Messages("unread", unread') /\ R1 = Replies' /\ S1 = Starting'
      OBVIOUS
<1>7. Total' = U1 \cup T \cup M \cup R1 \cup S1
      BY <1>1, <1>5, <1>6, TotalNext
<1>8. TransitIsBag'
      BY <1>5 DEF CountInv, TransitIsBag
<1>9. /\ unread \in [Conns -> Texts] /\ unread' \in [Conns -> Texts]
      /\ unread'[c] = unread[c] \o out[n]
      /\ \A d \in Conns : d # c => unread'[d] = unread[d]
      BY <1>4, <1>5 DEF ServiceTypeOK
<1>10. /\ unread[c] \in Seq(Values) /\ out[n] \in Seq(Values)
       /\ Len(unread'[c]) = Len(unread[c]) + Len(out[n])
       BY <1>4, <1>9, ConcatProperties DEF Texts
<1>11. \A m \in Nodes \ {n} : at'[m] = at[m] /\ out'[m] = out[m]
       BY DEF SendOk, Sent, Go, NodeTypeOK
<1>12. CASE at[n] = "subscribe"
  <2>1. unread[c] = <<>> /\ out[n] = <<n>>
        BY <1>3, <1>12 DEF SubscribeInv, NodesSubscribeFirst, SubscribesFirst
  <2>2. Len(unread[c]) = 0 /\ Len(out[n]) = 1
        BY <2>1
  <2>3. Len(unread'[c]) \div 3 <= Len(unread[c]) \div 3
        BY <1>10, <2>2
  <2>4. U1 \subseteq U
        BY <1>1, <1>4, <1>6, <1>9, <2>3, BoxChanges
  <2>5. at'[n] # "reply"
        BY <1>12 DEF SendOk, Sent, Go, NodeTypeOK
  <2>6. R1 \subseteq R /\ S1 \subseteq S
        BY <1>1, <1>6, <1>11, <1>12, <2>5, NodePlaces
  <2> QED BY <1>2, <1>7, <1>8, <2>4, <2>6, Counted
<1>13. CASE at[n] \in {"initiate", "reply"}
  <2>1. Len(out[n]) = 3
    <3>1. CASE at[n] = "initiate"
      <4>1. out[n] = <<n, FIRST_MTI, DstId[n]>>
            BY <3>1 DEF SubscribeInv, NodesSubscribeFirst, SubscribesFirst
      <4> QED BY <4>1
    <3>2. CASE at[n] = "reply"
      <4>1. out[n] = <<>> \/ Len(out[n]) = DATA_MESSAGE_SIZE
            BY <3>2 DEF SubscribeInv, NodesSubscribeFirst, SubscribesFirst
      <4> QED BY <1>4, <4>1 DEF DATA_MESSAGE_SIZE
    <3> QED BY <1>13, <3>1, <3>2
  <2>2. Len(unread'[c]) = Len(unread[c]) + 3
        BY <1>10, <2>1
  <2>3. PICK z : U1 \subseteq U \cup {z}
        BY <1>1, <1>4, <1>6, <1>9, <2>2, BoxChanges
  <2>4. at'[n] = "recv"
        BY <1>13 DEF SendOk, Sent, Go, NodeTypeOK
  <2>5. R1 \subseteq R \ {<<"reply", n>>} /\ S1 \subseteq S \ {<<"start", n>>}
        BY <1>1, <1>6, <1>11, <2>4, NodePlaces
  <2>6. <<"reply", n>> \in R \/ <<"start", n>> \in S
        BY <1>1, <1>4, <1>11, <1>13, NodePlaces
  <2>7. \E y \in Total : Total' \subseteq (Total \ {y}) \cup {z}
    <3>1. PICK y : \/ y \in R /\ y = <<"reply", n>>
                   \/ y \in S /\ y = <<"start", n>>
          BY <2>6
    <3>2. R1 \cup S1 \subseteq (R \cup S) \ {y}
          BY <1>2, <2>5, <3>1
    <3>3. y \in Total /\ Total' \subseteq (Total \ {y}) \cup {z}
          BY <1>2, <1>7, <2>3, <3>1, <3>2
    <3> QED BY <3>3
  <2> QED BY <1>8, <2>7, Counted
<1> QED BY <1>4, <1>12, <1>13

\* recv(): what leaves the buffer becomes a reply, or is dropped.
LEMMA RecvCount ==
    ASSUME ServiceTypeOK, ServiceTypeOK', NodeTypeOK, SubscribeInv, CountInv,
           Made' = Made, NEW n \in Nodes, RecvMessage(n) \/ SegmentCut(n)
    PROVE  CountInv'
<1>1. PICK U, T, M, R, S :
          /\ U = Messages("unread", unread) /\ T = Carried(transit)
          /\ M = Messages("mail", mail) /\ R = Replies /\ S = Starting
      OBVIOUS
<1>2. /\ Total = U \cup T \cup M \cup R \cup S
      /\ \A x \in M : x \notin U /\ x \notin T /\ x \notin R /\ x \notin S
      BY <1>1, TotalParts
<1>3. PICK k \in 1 .. 3 : Recv(n, k) /\ (RecvMessage(n) => k = 3)
  <2>1. CASE RecvMessage(n)
    <3>1. PICK k \in 1 .. 3 : k = 3
          OBVIOUS
    <3> QED BY <2>1, <3>1 DEF RecvMessage, DATA_MESSAGE_SIZE
  <2>2. CASE SegmentCut(n) /\ ~ RecvMessage(n)
    <3>1. PICK k \in 1 .. 2 : Recv(n, k)
          BY <2>2 DEF SegmentCut, ShortRecv, DATA_MESSAGE_SIZE
    <3>2. k \in 1 .. 3
          OBVIOUS
    <3> QED BY <2>2, <3>1, <3>2
  <2> QED BY <2>1, <2>2
<1>4. PICK c : c = Conn(n)
      OBVIOUS
<1>5. /\ c \in Conns /\ mail[c] \in Texts /\ Len(mail[c]) \in Nat
      /\ Len(mail[c]) >= k
      BY <1>3, <1>4, RecvIsNamed
<1>6. /\ mail' = [mail EXCEPT ![c] = SubSeq(mail[c], k + 1, Len(mail[c]))]
      /\ UNCHANGED <<unread, transit>>
      BY <1>3, <1>4 DEF Recv, service
<1>7. PICK M1, R1, S1 :
          M1 = Messages("mail", mail') /\ R1 = Replies' /\ S1 = Starting'
      OBVIOUS
<1>8. Total' = U \cup T \cup M1 \cup R1 \cup S1
      BY <1>1, <1>6, <1>7, TotalNext
<1>9. TransitIsBag'
      BY <1>6 DEF CountInv, TransitIsBag
<1>10. /\ mail \in [Conns -> Texts] /\ mail' \in [Conns -> Texts]
       /\ mail'[c] = SubSeq(mail[c], k + 1, Len(mail[c]))
       /\ \A d \in Conns : d # c => mail'[d] = mail[d]
       BY <1>5, <1>6 DEF ServiceTypeOK
<1>11. Len(mail'[c]) = Len(mail[c]) - k /\ Len(mail'[c]) \in Nat
  <2>1. PICK s, l : s = mail[c] /\ l = Len(mail[c]) /\ l \in Nat /\ l >= k
        BY <1>5
  <2>2. s \in Seq(Values) /\ \A i \in 1 .. l : s[i] \in Values
        BY <1>5, <2>1, ElementOfSeq DEF Texts
  <2>3. \A i \in k + 1 .. l : s[i] \in Values
        BY <2>2
  <2>4. Len(SubSeq(s, k + 1, l)) = IF k + 1 <= l THEN l - (k + 1) + 1 ELSE 0
        BY <2>1, <2>3, SubSeqProperties
  <2>5. (IF k + 1 <= l THEN l - (k + 1) + 1 ELSE 0) = l - k /\ l - k \in Nat
        BY <2>1
  <2> QED BY <1>10, <2>1, <2>4, <2>5
<1>12. CASE RecvMessage(n)
  <2>1. Len(mail[c]) = Len(mail'[c]) + 3
    <3>1. \A l \in Nat : l = (l - 3) + 3
          OBVIOUS
    <3> QED BY <1>3, <1>5, <1>11, <1>12, <3>1, Zenon
  <2>2. PICK y \in M : M1 \subseteq M \ {y}
        BY <1>1, <1>5, <1>7, <1>10, <2>1, BoxChanges
  <2>3. /\ at'[n] = "reply"
        /\ \A m \in Nodes \ {n} : at'[m] = at[m] /\ out'[m] = out[m]
        BY <1>12 DEF RecvMessage, Go, NodeTypeOK
  <2>4. R1 \subseteq R \cup {<<"reply", n>>} /\ S1 \subseteq S
        BY <1>1, <1>7, <2>3, NodePlaces
  <2>5. y \in Total /\ Total' \subseteq (Total \ {y}) \cup {<<"reply", n>>}
        BY <1>2, <1>8, <2>2, <2>4
  <2> QED BY <1>9, <2>5, Counted
<1>13. CASE SegmentCut(n)
  <2>1. Len(mail'[c]) \div 3 <= Len(mail[c]) \div 3
    <3>1. \A l \in Nat : \A i \in 1 .. 3 : l - i \in Nat => (l - i) \div 3 <= l \div 3
          OBVIOUS
    <3> QED BY <1>5, <1>11, <3>1, Zenon
  <2>2. M1 \subseteq M
        BY <1>1, <1>5, <1>7, <1>10, <2>1, BoxChanges
  <2>3. R1 = R /\ S1 = S
        BY <1>1, <1>7, <1>13 DEF SegmentCut, ShortRecv, Replies, Starting
  <2> QED BY <1>2, <1>8, <1>9, <2>2, <2>3, Counted
<1> QED BY <1>12, <1>13

\* The other steps of a node, and the ends of its connections.
LEMMA PauseCount ==
    ASSUME ServiceTypeOK, ServiceTypeOK', NodeTypeOK, CountInv, Made' = Made,
           NEW n \in Nodes,
           \/ ConnectFails(n) \/ Wake(n) \/ SendLost(n) \/ SendAgain(n)
           \/ GiveUp(n) \/ RecvError(n) \/ LinkBreaks(n) \/ NodeRestart(n)
    PROVE  CountInv'
<1> USE DEF clients, service
<1>1. PICK U, T, M, R, S :
          /\ U = Messages("unread", unread) /\ T = Carried(transit)
          /\ M = Messages("mail", mail) /\ R = Replies /\ S = Starting
      OBVIOUS
<1>2. Total = U \cup T \cup M \cup R \cup S
      BY <1>1, TotalParts
<1>3. UNCHANGED <<mail, transit>>
      BY DEF ConnectFails, Wake, SendLost, SendAgain, GiveUp, RecvError, LinkBreaks,
             Reset, NodeRestart
<1>4. Messages("unread", unread') \subseteq U
  <2>1. CASE LinkBreaks(n)
    <3>1. PICK c : c = Conn(n)
          OBVIOUS
    <3>2. c \in Conns /\ unread[c] \in Texts
          BY <2>1, <3>1, ConnIsConn DEF LinkBreaks, ServiceTypeOK
    <3>3. SubSeq(unread[c], 1, 0) = <<>>
          BY <3>2, TextParts
    <3>4. unread' = [unread EXCEPT ![c] = <<>>]
          BY <2>1, <3>1, <3>3 DEF LinkBreaks, Reset
    <3>5. /\ unread \in [Conns -> Texts] /\ unread' \in [Conns -> Texts]
          /\ unread'[c] = <<>> /\ \A d \in Conns : d # c => unread'[d] = unread[d]
          BY <3>2, <3>4 DEF ServiceTypeOK
    <3>6. Len(unread'[c]) \div 3 <= Len(unread[c]) \div 3
      <4>1. Len(unread[c]) \in Nat /\ Len(unread'[c]) = 0
            BY <3>2, <3>5, LenProperties DEF Texts
      <4>2. \A l \in Nat : 0 \div 3 <= l \div 3
            OBVIOUS
      <4> QED BY <4>1, <4>2, Zenon
    <3> QED BY <1>1, <3>2, <3>5, <3>6, BoxChanges
  <2>2. CASE ~ LinkBreaks(n)
    <3>1. unread' = unread
          BY <2>2 DEF ConnectFails, Wake, SendLost, SendAgain, GiveUp, RecvError,
                      NodeRestart
    <3> QED BY <1>1, <3>1
  <2> QED BY <2>1, <2>2
<1>5. Replies' \subseteq R /\ Starting' \subseteq S
  <2>1. CASE LinkBreaks(n) \/ SendAgain(n)
        BY <1>1, <2>1 DEF LinkBreaks, SendAgain, node, Replies, Starting
  <2>2. CASE ~ (LinkBreaks(n) \/ SendAgain(n))
    <3>1. /\ at'[n] # "reply"
          /\ at'[n] \in {"subscribe", "initiate"} => at[n] \in {"subscribe", "initiate"}
          /\ \A m \in Nodes \ {n} : at'[m] = at[m] /\ out'[m] = out[m]
          BY <2>2 DEF ConnectFails, Wake, SendLost, Sent, GiveUp, RecvError, NodeRestart,
                      Go, NodeTypeOK
    <3> QED BY <1>1, <3>1, NodePlaces
  <2> QED BY <2>1, <2>2
<1>6. Total' \subseteq Total
      BY <1>1, <1>2, <1>3, <1>4, <1>5, TotalNext
<1>7. TransitIsBag'
      BY <1>3 DEF CountInv, TransitIsBag
<1> QED BY <1>6, <1>7, Counted

\* A connection more, and a node that starts on it.
LEMMA ConnectCount ==
    ASSUME ServiceTypeOK, NodeTypeOK, CountInv, NEW n \in Nodes, Connect(n)
    PROVE  CountInv'
<1> USE DEF service
<1>1. attempt[n] + 1 \in 1 .. MaxConnects
      BY NodesAssumption DEF Connect, NodeTypeOK
<1>2. PICK c : c = <<n, attempt[n] + 1>>
      OBVIOUS
<1>3. /\ c \in Conns /\ link[c] = "new" /\ link' = [link EXCEPT ![c] = "open"]
      /\ UNCHANGED <<unread, mail, transit>>
      BY <1>1, <1>2, NodesAssumption DEF Connect, Open
<1>4. PICK K, L : K = Made /\ L = Total
      OBVIOUS
<1>5. Made' = K \cup {c} /\ c \notin K
      BY <1>3, <1>4 DEF Made, ServiceTypeOK
<1>6. /\ at'[n] = "subscribe"
      /\ \A m \in Nodes \ {n} : at'[m] = at[m] /\ out'[m] = out[m]
      BY DEF Connect, Go, NodeTypeOK
<1>7. Replies' \subseteq Replies /\ Starting' \subseteq Starting \cup {<<"start", n>>}
      BY <1>6, NodePlaces
<1>8. PICK z : z = <<"start", n>>
      OBVIOUS
<1>9. Total' \subseteq L \cup {z}
      BY <1>3, <1>4, <1>7, <1>8, TotalNext DEF Total, InPlay
<1>10. IsFiniteSet(K) /\ IsFiniteSet(L) /\ Cardinality(L) <= Cardinality(K)
       BY <1>4 DEF CountInv
<1>11. /\ IsFiniteSet(K \cup {c}) /\ Cardinality(K \cup {c}) = Cardinality(K) + 1
       /\ Cardinality(K) \in Nat
       BY <1>5, <1>10, FS_AddElement, FS_CardinalityType
<1>12. /\ IsFiniteSet(L \cup {z}) /\ Cardinality(L) \in Nat
       /\ Cardinality(L \cup {z}) \in {Cardinality(L), Cardinality(L) + 1}
       BY <1>10, FS_AddElement, FS_CardinalityType
<1>13. PICK Q : Q = Total'
       OBVIOUS
<1>14. /\ IsFiniteSet(Q) /\ Cardinality(Q) <= Cardinality(L \cup {z})
       /\ Cardinality(Q) \in Nat
       BY <1>9, <1>12, <1>13, FS_Subset, FS_CardinalityType
<1>15. Cardinality(Q) <= Cardinality(K) + 1
  <2>1. \A q, l, k \in Nat : \A b \in {l, l + 1} : q <= b /\ l <= k => q <= k + 1
        OBVIOUS
  <2> QED BY <1>10, <1>11, <1>12, <1>14, <2>1, Zenon
<1>16. TransitIsBag'
       BY <1>3 DEF CountInv, TransitIsBag
<1> QED BY <1>5, <1>11, <1>13, <1>14, <1>15, <1>16 DEF CountInv

\* Every step keeps it.
LEMMA CountStep ==
    ASSUME TypeInv, SubscribeInv, CountInv, [Next]_vars
    PROVE  CountInv'
<1>1. ServiceTypeOK /\ NodeTypeOK
      BY TypeParts
<1>2. ServiceTypeOK' /\ NodeTypeOK'
      BY TypeStep, TypePartsNext
<1>3. SubscribeInv'
      BY SubscribeStep
<1>4. ASSUME UNCHANGED attempt
      PROVE  Made' = Made
  <2>1. \A n \in Nodes : \A k \in 1 .. MaxConnects :
            link'[<<n, k>>] = "new" <=> link[<<n, k>>] = "new"
        BY <1>3, <1>4 DEF SubscribeInv, LinksInOrder
  <2>2. \A c \in Conns : link'[c] = "new" <=> link[c] = "new"
        BY <2>1, NodesAssumption
  <2> QED BY <2>2 DEF Made
<1>5. CASE UNCHANGED vars \/ RouterBoot \/ BootFails
  <2>1. UNCHANGED <<link, unread, mail, transit, at, out, attempt>>
        BY <1>5 DEF vars, RouterBoot, BootFails, clients, service, node
  <2>2. Total' = Total /\ TransitIsBag'
        BY <2>1 DEF Total, InPlay, Replies, Starting, CountInv, TransitIsBag
  <2> QED BY <1>4, <2>1, <2>2, Counted
<1>6. CASE RouterCrash
      BY <1>4, <1>6, CrashCount DEF RouterCrash, node
<1>7. CASE Write
  <2>1. UNCHANGED node /\ UNCHANGED attempt
        BY <1>7 DEF Write, node
  <2> QED BY <1>1, <1>2, <1>4, <1>7, <2>1, HandCount DEF Write
<1>8. ASSUME NEW c \in Conns, Serve(c) \/ ClientRefused(c)
      PROVE  CountInv'
  <2>1. UNCHANGED node /\ UNCHANGED attempt
        BY <1>8 DEF Serve, ClientRefused, node
  <2> QED BY <1>1, <1>2, <1>4, <1>8, <2>1, ServeCount DEF Serve, ClientRefused
<1>9. ASSUME NEW n \in Nodes,
             \/ Connect(n) \/ ConnectFails(n) \/ NodeStep(n)
             \/ LinkBreaks(n) \/ NodeRestart(n) \/ SegmentCut(n)
      PROVE  CountInv'
  <2>1. CASE Connect(n)
        BY <1>1, <2>1, ConnectCount
  <2>2. CASE ~ Connect(n)
    <3>1. UNCHANGED attempt
          BY <1>9, <2>2 DEF ConnectFails, NodeStep, Wake, SendOk, SendLost, SendAgain,
             GiveUp, RecvMessage, RecvError, Recv, LinkBreaks, NodeRestart, SegmentCut,
             ShortRecv, node
    <3>2. Made' = Made
          BY <1>4, <3>1
    <3> QED BY <1>1, <1>2, <1>9, <2>2, <3>2, SendCount, RecvCount, PauseCount DEF NodeStep
  <2> QED BY <2>1, <2>2
<1> QED BY <1>5, <1>6, <1>7, <1>8, <1>9 DEF Next

\* Retries, reconnections, faults and the router's queue never make two
\* messages of one: there are no more messages than connections were made
\* (node.cpp:33-89, router.cpp:158-190).
THEOREM EachConnectionAddsOneMessage == SafetySpec => []NothingIsDuplicated
<1>1. Init => TypeInv /\ SubscribeInv /\ CountInv
      BY InitTypeInv, InitSubscribe, InitCount
<1>2. TypeInv /\ SubscribeInv /\ CountInv /\ [Next]_vars
      => TypeInv' /\ SubscribeInv' /\ CountInv'
      BY TypeStep, SubscribeStep, CountStep
<1>3. CountInv => NothingIsDuplicated
  <2> SUFFICES ASSUME CountInv
               PROVE  Cardinality(InPlay) <= Cardinality(Made)
      BY DEF NothingIsDuplicated, Made
  <2>1. PICK I, L : I = InPlay /\ L = Total
        OBVIOUS
  <2>2. I \subseteq L /\ IsFiniteSet(L) /\ IsFiniteSet(Made)
        /\ Cardinality(L) <= Cardinality(Made)
        BY <2>1 DEF CountInv, Total
  <2>3. Cardinality(I) <= Cardinality(L) /\ IsFiniteSet(I)
        BY <2>2, FS_Subset
  <2>4. Cardinality(I) \in Nat /\ Cardinality(L) \in Nat /\ Cardinality(Made) \in Nat
        BY <2>2, <2>3, FS_CardinalityType
  <2>5. \A i, l, k \in Nat : i <= l /\ l <= k => i <= k
        OBVIOUS
  <2> QED BY <2>1, <2>2, <2>3, <2>4, <2>5, Zenon
<1> QED BY <1>1, <1>2, <1>3, PTL DEF SafetySpec
=============================================================================
