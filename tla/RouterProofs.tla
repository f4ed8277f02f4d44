---------------------------- MODULE RouterProofs ----------------------------
(***************************************************************************)
(* For every set of connections, descriptors, streams and threads: the     *)
(* types of the router's state; and the mutex of a session object          *)
(* serialises the accesses to its descriptor, a reader's session stays     *)
(* registered under it, and accept_client() never locks sessions_mutex_    *)
(* twice.                                                                  *)
(***************************************************************************)
EXTENDS Router, SequenceFacts

\* select() watches client sockets.
LEMMA FdSetType ==
    ASSUME NEW D, NEW clients \in [D -> Sockets]
    PROVE  FdSet(clients) \subseteq Sockets
<1> SUFFICES ASSUME NEW x \in FdSet(clients) PROVE x \in Sockets
    OBVIOUS
<1>1. \E i \in D : x = clients[i]
      BY Zenon DEF FdSet
<1> QED BY <1>1

\* What an erase makes of a copy in progress is a possible copy again.
LEMMA SmearType ==
    ASSUME copy \in Seq(SUBSET Sockets), NEW new \in Seq(Sockets)
    PROVE  Smear(new) \in Seq(SUBSET Sockets)
<1>1. DOMAIN copy = 1 .. Len(copy) /\ Len(copy) \in Nat
      BY LenProperties
<1>2. \A i \in 1 .. Len(copy) : copy[i] \in SUBSET Sockets
      BY ElementOfSeq
<1>3. \A i \in 1 .. Len(copy) :
         i <= Len(new) => new[i] \in Sockets
      BY ElementOfSeq, LenProperties
<1>4. Smear(new) \in [1 .. Len(copy) -> SUBSET Sockets]
      BY <1>1, <1>2, <1>3 DEF Smear
<1> QED BY <1>1, <1>4, FunctionIsSeq

-----------------------------------------------------------------------------
(* The registry operations, each with what it leaves alone.                  *)

\* accept_client() keeps the types; a socket field, once set, stays set; the
\* session it stores has its socket.
LEMMA AcceptClientType ==
    ASSUME SessionsTypeOK, NEW s \in Sockets, NEW c \in Conns,
           accept_client(s, c)
    PROVE  /\ SessionsTypeOK'
           /\ \A d \in Conns : socket_[d] # nullptr => socket_'[d] # nullptr
           /\ \A u \in Sockets : \/ sessions_by_socket_'[u] = sessions_by_socket_[u]
                                 \/ /\ sessions_by_socket_'[u] = c
                                    /\ socket_'[c] # nullptr
           /\ sessions_by_id_' = sessions_by_id_
<1> USE RegistryAssumption
<1>1. accepted_clients_' \in Seq(Sockets)
  <2>1. Append(accepted_clients_, s) \in Seq(Sockets)
        BY AppendProperties DEF SessionsTypeOK
  <2> QED BY <2>1 DEF accept_client, SessionsTypeOK
<1>2. UNCHANGED <<sessions_by_id_, id_, mutex_>>
      BY DEF accept_client
<1>3. CASE sessions_by_socket_[s] # nullptr
  <2>1. sessions_mutex_' = "held" /\ UNCHANGED <<sessions_by_socket_, socket_>>
        BY <1>3 DEF accept_client
  <2> QED BY <1>1, <1>2, <2>1 DEF SessionsTypeOK
<1>4. CASE sessions_by_socket_[s] = nullptr
  <2>1. /\ sessions_by_socket_' = [sessions_by_socket_ EXCEPT ![s] = c]
        /\ socket_' = [socket_ EXCEPT ![c] = s]
        /\ sessions_mutex_' = sessions_mutex_
        BY <1>4 DEF accept_client
  <2> QED BY <1>1, <1>2, <2>1 DEF SessionsTypeOK
<1> QED BY <1>3, <1>4

\* add_node() keeps the types, and only enters a session that is stored under
\* a socket.
LEMMA AddNodeType ==
    ASSUME SessionsTypeOK, mutex_' = mutex_, NEW s \in Sockets, NEW i \in Values,
           add_node(s, i)
    PROVE  /\ SessionsTypeOK'
           /\ UNCHANGED <<sessions_by_socket_, socket_>>
           /\ \A j \in Values : \/ sessions_by_id_'[j] = sessions_by_id_[j]
                                \/ sessions_by_id_'[j] = sessions_by_socket_[s]
<1> DEFINE session == sessions_by_socket_[s]
<1>1. UNCHANGED <<sessions_by_socket_, accepted_clients_, sessions_mutex_,
                  socket_>>
      BY DEF add_node
<1>2. CASE session = nullptr \/ i >= MAX_CLIENTS_COUNT
  <2>1. UNCHANGED <<sessions_by_id_, id_>>
        BY <1>2 DEF add_node
  <2> QED BY <1>1, <2>1 DEF SessionsTypeOK
<1>3. CASE ~ (session = nullptr \/ i >= MAX_CLIENTS_COUNT)
  <2>1. /\ id_' = [id_ EXCEPT ![session] = i]
        /\ sessions_by_id_' = [sessions_by_id_ EXCEPT ![i] = session]
        BY <1>3 DEF add_node
  <2> QED BY <1>1, <1>3, <2>1 DEF SessionsTypeOK
<1> QED BY <1>2, <1>3

\* removeSession() keeps the types and only empties entries of the two maps,
\* and of the map by socket no other entry than that of the socket.
LEMMA RemoveSessionType ==
    ASSUME SessionsTypeOK, mutex_' \in [Conns -> Workers \cup {nullptr}],
           NEW s, removeSession(s)
    PROVE  /\ SessionsTypeOK'
           /\ UNCHANGED <<socket_, id_, sessions_mutex_>>
           /\ sessions_by_socket_' = [sessions_by_socket_ EXCEPT ![s] = nullptr]
           /\ \A j \in Values : \/ sessions_by_id_'[j] = sessions_by_id_[j]
                                \/ sessions_by_id_'[j] = nullptr
<1> DEFINE session == sessions_by_socket_[s]
<1>1. /\ UNCHANGED <<socket_, id_, sessions_mutex_>>
      /\ sessions_by_socket_' = [sessions_by_socket_ EXCEPT ![s] = nullptr]
      BY DEF removeSession
<1>2. accepted_clients_' \in Seq(Sockets)
      BY RemoveFirstType DEF removeSession, SessionsTypeOK
<1>3. CASE session # nullptr /\ id_[session] # NONE
  <2>1. sessions_by_id_' = [sessions_by_id_ EXCEPT ![id_[session]] = nullptr]
        BY <1>3 DEF removeSession
  <2> QED BY <1>1, <1>2, <2>1 DEF SessionsTypeOK
<1>4. CASE ~ (session # nullptr /\ id_[session] # NONE)
  <2>1. sessions_by_id_' = sessions_by_id_
        BY <1>4 DEF removeSession
  <2> QED BY <1>1, <1>2, <2>1 DEF SessionsTypeOK
<1> QED BY <1>3, <1>4

-----------------------------------------------------------------------------
\* What the parts of the state look like when a step leaves them alone.
LEMMA UnchangedType ==
    /\ SessionsTypeOK /\ UNCHANGED <<registry, objects>> => SessionsTypeOK'
    /\ KernelTypeOK /\ UNCHANGED kernel => KernelTypeOK'
    /\ QueuesTypeOK /\ UNCHANGED queues => QueuesTypeOK'
    /\ ListenerTypeOK /\ UNCHANGED <<listener, backlog>> => ListenerTypeOK'
    /\ WorkersTypeOK /\ UNCHANGED workers => WorkersTypeOK'
<1>1. SessionsTypeOK /\ UNCHANGED <<registry, objects>> => SessionsTypeOK'
      BY DEF SessionsTypeOK, registry, maps, objects
<1>2. KernelTypeOK /\ UNCHANGED kernel => KernelTypeOK'
      BY DEF KernelTypeOK, kernel
<1>3. QueuesTypeOK /\ UNCHANGED queues => QueuesTypeOK'
      BY DEF QueuesTypeOK, queues
<1>4. ListenerTypeOK /\ UNCHANGED <<listener, backlog>> => ListenerTypeOK'
      BY DEF ListenerTypeOK, listener
<1>5. WorkersTypeOK /\ UNCHANGED workers => WorkersTypeOK'
      BY DEF WorkersTypeOK, workers
<1> QED BY <1>1, <1>2, <1>3, <1>4, <1>5

\* No step takes a socket field away, and references to sessions are copied
\* from other references.
LEMMA SocketsKept ==
    ASSUME TypeOK,
           \A c \in Conns : socket_[c] # nullptr => socket_'[c] # nullptr,
           \A s \in Sockets : sessions_by_socket_'[s] \in
                                  {sessions_by_socket_[s], nullptr},
           \A i \in Values : \/ sessions_by_id_'[i] \in {sessions_by_id_[i], nullptr}
                             \/ \E s \in Sockets :
                                    sessions_by_id_'[i] = sessions_by_socket_[s],
           \A t \in Workers : \/ dst'[t] \in {dst[t], nullptr}
                              \/ \E i \in Values : dst'[t] = sessions_by_id_[i]
    PROVE  SessionsHaveSockets'
<1> USE DEF TypeOK, SessionsHaveSockets, SessionsTypeOK, WorkersTypeOK
<1>1. ASSUME NEW s \in Sockets, sessions_by_socket_'[s] # nullptr
      PROVE  socket_'[sessions_by_socket_'[s]] # nullptr
      BY <1>1
<1>2. ASSUME NEW i \in Values, sessions_by_id_'[i] # nullptr
      PROVE  socket_'[sessions_by_id_'[i]] # nullptr
      BY <1>2
<1>3. ASSUME NEW t \in Workers, dst'[t] # nullptr
      PROVE  socket_'[dst'[t]] # nullptr
      BY <1>3
<1> QED BY <1>1, <1>2, <1>3

\* Before the threads start nothing is registered and nobody works.
LEMMA InitTypeInv == Init => TypeOK
<1> SUFFICES ASSUME Init PROVE TypeOK
    OBVIOUS
<1> USE RegistryAssumption DEF Init, SessionsInit
<1>1. SessionsTypeOK
      BY DEF SessionsTypeOK
<1>2. KernelTypeOK /\ QueuesTypeOK
      BY DEF KernelTypeOK, QueuesTypeOK, PeerStates
<1>3. ListenerTypeOK
      BY DEF ListenerTypeOK, LoopSteps
<1>4. WorkersTypeOK
      BY DEF WorkersTypeOK, ReaderSteps, WriterSteps
<1>5. SessionsHaveSockets
      BY DEF SessionsHaveSockets
<1> QED BY <1>1, <1>2, <1>3, <1>4, <1>5 DEF TypeOK

\* The peers only touch their own connection and the backlog.
LEMMA PeerTypeInv ==
    ASSUME TypeOK, NEW c \in Conns, Peer(c)
    PROVE  TypeOK'
<1>1. /\ SessionsTypeOK /\ KernelTypeOK /\ QueuesTypeOK /\ ListenerTypeOK
      /\ WorkersTypeOK
      BY DEF TypeOK
<1>2. UNCHANGED <<registry, objects, listener, queues, workers>>
      BY DEF Peer, PeerConnect, PeerSend, PeerClose, PeerReset
<1>3. SessionsHaveSockets'
      BY <1>2 DEF TypeOK, SessionsHaveSockets, registry, maps, objects, workers
<1>4. CASE PeerConnect(c)
  <2>0. backlog \in Seq(Conns)
        BY <1>1 DEF KernelTypeOK
  <2>1. Append(backlog, c) \in Seq(Conns) /\ Append(backlog, c) # <<>>
        BY <2>0, AppendProperties
  <2>2. KernelTypeOK'
        BY <1>1, <1>4, <2>1 DEF PeerConnect, KernelTypeOK, PeerStates
  <2>3. ListenerTypeOK'
        BY <1>1, <1>2, <1>4, <2>1 DEF PeerConnect, ListenerTypeOK, listener
  <2> QED BY <1>1, <1>2, <1>3, <2>2, <2>3, UnchangedType DEF TypeOK
<1>5. CASE PeerSend(c)
  <2>1. PICK cut \in Cuts[c] :
           /\ cut > sent[c]
           /\ inbox' = [inbox EXCEPT ![c] =
                           inbox[c] \o SubSeq(Stream[c], sent[c] + 1, cut)]
           /\ sent' = [sent EXCEPT ![c] = cut]
        BY <1>5 DEF PeerSend
  <2>2. cut \in 1 .. Len(Stream[c]) /\ Stream[c] \in Seq(Values)
        BY PeersAssumption
  <2>3. cut \in Nat /\ sent[c] \in Nat
        BY <1>1, <2>2, LenProperties DEF KernelTypeOK
  <2>4. SubSeq(Stream[c], sent[c] + 1, cut) \in Seq(Values)
        BY <2>2, <2>3, SubSeqProperties, ElementOfSeq
  <2>5. inbox[c] \o SubSeq(Stream[c], sent[c] + 1, cut) \in Seq(Values)
        BY <1>1, <2>4, ConcatProperties DEF KernelTypeOK
  <2>6. KernelTypeOK' /\ backlog' = backlog
        BY <1>1, <1>5, <2>1, <2>3, <2>5 DEF PeerSend, KernelTypeOK
  <2> QED BY <1>1, <1>2, <1>3, <2>6, UnchangedType DEF TypeOK
<1>6. CASE PeerClose(c)
  <2>1. KernelTypeOK' /\ backlog' = backlog
        BY <1>1, <1>6 DEF PeerClose, KernelTypeOK, PeerStates
  <2> QED BY <1>1, <1>2, <1>3, <2>1, UnchangedType DEF TypeOK
<1>7. CASE PeerReset(c)
  <2>1. inbox' \in [Conns -> Seq(Values)]
    <3>1. <<>> \in Seq(Values)
          OBVIOUS
    <3> QED BY <1>1, <1>7, <3>1 DEF PeerReset, KernelTypeOK
  <2>2. KernelTypeOK' /\ backlog' = backlog
        BY <1>1, <1>7, <2>1 DEF PeerReset, KernelTypeOK, PeerStates
  <2> QED BY <1>1, <1>2, <1>3, <2>2, UnchangedType DEF TypeOK
<1> QED BY <1>4, <1>5, <1>6, <1>7 DEF Peer

\* The event loop keeps the types of its sets and of the registry.
LEMMA ListenerTypeInv ==
    ASSUME TypeOK, Listener
    PROVE  TypeOK'
<1>1. /\ SessionsTypeOK /\ KernelTypeOK /\ QueuesTypeOK /\ ListenerTypeOK
      /\ WorkersTypeOK
      BY DEF TypeOK
<1>2. UNCHANGED workers
      BY DEF Listener, ResetBegin, ResetEnd, Select, SelectError, Accept,
             AcceptRefused, AcceptError, PushReady
<1>3. WorkersTypeOK'
      BY <1>1, <1>2, UnchangedType
\* the steps that touch neither the registry nor the kernel nor the queues
<1>4. ASSUME UNCHANGED <<registry, objects, kernel, queues>>, ListenerTypeOK'
      PROVE  TypeOK'
  <2>1. SessionsHaveSockets'
        BY <1>2, <1>4
           DEF TypeOK, SessionsHaveSockets, registry, maps, objects, workers
  <2> QED BY <1>1, <1>3, <1>4, <2>1, UnchangedType DEF TypeOK
<1>5. CASE ResetBegin
  <2>0. accepted_clients_ \in Seq(Sockets)
        BY <1>1 DEF SessionsTypeOK
  <2>1. copy' \in [1 .. Len(accepted_clients_) -> SUBSET Sockets]
        BY <1>5, <2>0, ElementOfSeq DEF ResetBegin
  <2>2. copy' \in Seq(SUBSET Sockets)
        BY <2>0, <2>1, LenProperties, FunctionIsSeq
  <2>3. ListenerTypeOK'
        BY <1>1, <1>5, <2>2 DEF ResetBegin, ListenerTypeOK, LoopSteps
  <2> QED BY <1>4, <1>5, <2>3 DEF ResetBegin
<1>6. CASE ResetEnd
  <2>1. PICK clients \in [DOMAIN copy -> Sockets] : readfds' = FdSet(clients)
        BY <1>6 DEF ResetEnd
  <2>2. readfds' \subseteq Sockets
        BY <2>1, FdSetType
  <2>3. copy' = <<>> /\ loop' = "select" /\ ready' = ready
        BY <1>6 DEF ResetEnd
  <2>4. ListenerTypeOK'
        BY <1>1, <2>2, <2>3 DEF ListenerTypeOK, LoopSteps
  <2> QED BY <1>4, <1>6, <2>4 DEF ResetEnd
<1>7. CASE Select
  <2>1. ListenerTypeOK'
        BY <1>1, <1>7 DEF Select, ListenerTypeOK, LoopSteps, kernel
  <2> QED BY <1>4, <1>7, <2>1 DEF Select
<1>8. CASE SelectError
  <2>1. ListenerTypeOK'
        BY <1>1, <1>8 DEF SelectError, ListenerTypeOK, LoopSteps
  <2> QED BY <1>4, <1>8, <2>1 DEF SelectError
<1>9. CASE Accept
  <2>1. backlog # <<>> /\ backlog \in Seq(Conns)
        BY <1>1, <1>9 DEF Accept, ListenerTypeOK, KernelTypeOK
  <2>2. Head(backlog) \in Conns /\ Tail(backlog) \in Seq(Conns)
        BY <2>1, HeadTailProperties
  <2>3. PICK s \in Sockets, c \in Conns :
           /\ fd_table' = [fd_table EXCEPT ![s] = c]
           /\ accept_client(s, c)
        BY <1>9, <2>2 DEF Accept, FreeSockets
  <2>4. /\ SessionsTypeOK'
        /\ \A d \in Conns : socket_[d] # nullptr => socket_'[d] # nullptr
        /\ \A u \in Sockets : \/ sessions_by_socket_'[u] = sessions_by_socket_[u]
                              \/ /\ sessions_by_socket_'[u] = c
                                 /\ socket_'[c] # nullptr
        /\ sessions_by_id_' = sessions_by_id_
        BY <1>1, <2>3, AcceptClientType
  <2>5. SessionsHaveSockets'
        BY <1>1, <1>2, <2>4
           DEF TypeOK, SessionsHaveSockets, SessionsTypeOK, WorkersTypeOK, workers
  <2>6. KernelTypeOK'
        BY <1>1, <1>9, <2>2, <2>3 DEF Accept, KernelTypeOK
  <2>7. ListenerTypeOK'
        BY <1>1, <1>9 DEF Accept, ListenerTypeOK, LoopSteps, PushOrReset
  <2>8. QueuesTypeOK'
        BY <1>1, <1>9, UnchangedType DEF Accept
  <2> QED BY <1>3, <2>4, <2>5, <2>6, <2>7, <2>8 DEF TypeOK
<1>10. CASE AcceptRefused
  <2>1. backlog # <<>> /\ backlog \in Seq(Conns)
        BY <1>1, <1>10 DEF AcceptRefused, ListenerTypeOK, KernelTypeOK
  <2>2. Head(backlog) \in Conns /\ Tail(backlog) \in Seq(Conns)
        BY <2>1, HeadTailProperties
  <2>3. PICK c \in Conns : /\ peer' = [peer EXCEPT ![c] = "refused"]
                           /\ inbox' = [inbox EXCEPT ![c] = <<>>]
        BY <1>10, <2>2 DEF AcceptRefused
  <2>4. KernelTypeOK'
        BY <1>1, <1>10, <2>2, <2>3 DEF AcceptRefused, KernelTypeOK, PeerStates
  <2>5. ListenerTypeOK'
        BY <1>1, <1>10 DEF AcceptRefused, ListenerTypeOK, LoopSteps
  <2>6. SessionsHaveSockets'
        BY <1>2, <1>10
           DEF TypeOK, SessionsHaveSockets, AcceptRefused, registry, maps,
               objects, workers
  <2>7. SessionsTypeOK' /\ QueuesTypeOK'
        BY <1>1, <1>10, UnchangedType DEF AcceptRefused
  <2> QED BY <1>3, <2>4, <2>5, <2>6, <2>7 DEF TypeOK
<1>11. CASE AcceptError
  <2>1. ListenerTypeOK'
        BY <1>1, <1>11 DEF AcceptError, ListenerTypeOK, LoopSteps
  <2> QED BY <1>4, <1>11, <2>1 DEF AcceptError
<1>12. ASSUME NEW s \in Sockets, PushReady(s) PROVE TypeOK'
  <2>1. ready_read_sockets_queue_ \in Seq(Sockets)
        BY <1>1 DEF QueuesTypeOK
  <2>2. Append(ready_read_sockets_queue_, s) \in Seq(Sockets)
        BY <2>1, AppendProperties
  <2>3. QueuesTypeOK'
        BY <1>1, <1>12, <2>2 DEF PushReady, QueuesTypeOK
  <2>4. ListenerTypeOK'
        BY <1>1, <1>12 DEF PushReady, ListenerTypeOK, LoopSteps, PushOrReset
  <2>5. SessionsHaveSockets'
        BY <1>2, <1>12
           DEF TypeOK, SessionsHaveSockets, PushReady, registry, maps, objects,
               workers
  <2>6. SessionsTypeOK' /\ KernelTypeOK'
        BY <1>1, <1>12, UnchangedType DEF PushReady
  <2> QED BY <1>3, <2>3, <2>4, <2>5, <2>6 DEF TypeOK
<1> QED
    BY <1>5, <1>6, <1>7, <1>8, <1>9, <1>10, <1>11, <1>12 DEF Listener

-----------------------------------------------------------------------------
\* A worker that returns drops its locals.
LEMMA ReturnType ==
    ASSUME WorkersTypeOK, NEW t \in Workers, Return(t)
    PROVE  /\ WorkersTypeOK'
           /\ \A u \in Workers : dst'[u] \in {dst[u], nullptr}
<1> USE DEF WorkersTypeOK, Return
<1>1. /\ pc' \in [Workers -> ReaderSteps \cup WriterSteps]
      /\ sock' \in [Workers -> Sockets \cup {nullptr}]
      /\ sess' \in [Workers -> Conns \cup {nullptr}]
      /\ dst' \in [Workers -> Conns \cup {nullptr}]
      BY DEF ReaderSteps, WriterSteps
<1>2. <<>> \in Seq(Values)
      BY EmptySeq
<1>3. msg' \in [Workers -> Seq(Values)]
      BY <1>2
<1>4. \A u \in Workers :
          \/ /\ pc'[u] = pc[u] /\ sock'[u] = sock[u] /\ sess'[u] = sess[u]
             /\ msg'[u] = msg[u] /\ dst'[u] = dst[u]
          \/ pc'[u] = "pop" /\ dst'[u] = nullptr
      OBVIOUS
<1> QED BY <1>1, <1>3, <1>4

\* Releasing a session's mutex keeps the types of the session objects.
LEMMA UnlockType ==
    ASSUME SessionsTypeOK, NEW t, Unlock(t)
    PROVE  mutex_' \in [Conns -> Workers \cup {nullptr}]
BY DEF SessionsTypeOK, Unlock

\* A worker's step that leaves the maps and the socket fields alone and takes
\* no new destination.
LEMMA SameSockets ==
    ASSUME TypeOK, UNCHANGED <<sessions_by_socket_, sessions_by_id_, socket_>>,
           \A u \in Workers : dst'[u] \in {dst[u], nullptr}
    PROVE  SessionsHaveSockets'
BY DEF TypeOK, SessionsHaveSockets

\* The steps that end with Unlock and Return and touch nothing else.
LEMMA LeaveTypeInv ==
    ASSUME TypeOK, NEW t \in Workers, Return(t), Unlock(t) \/ UNCHANGED mutex_,
           UNCHANGED <<registry, socket_, id_, kernel, listener, queues>>
    PROVE  TypeOK'
<1>1. /\ SessionsTypeOK /\ KernelTypeOK /\ QueuesTypeOK /\ ListenerTypeOK
      /\ WorkersTypeOK
      BY DEF TypeOK
<1>2. /\ WorkersTypeOK'
      /\ \A u \in Workers : dst'[u] \in {dst[u], nullptr}
      BY <1>1, ReturnType
<1>3. mutex_' \in [Conns -> Workers \cup {nullptr}]
      BY <1>1, UnlockType DEF SessionsTypeOK
<1>4. SessionsTypeOK'
      BY <1>1, <1>3 DEF SessionsTypeOK, registry, maps
<1>5. SessionsHaveSockets'
      BY <1>2, SameSockets DEF registry, maps
<1>6. KernelTypeOK' /\ QueuesTypeOK' /\ ListenerTypeOK'
      BY <1>1, UnchangedType DEF kernel
<1> QED BY <1>2, <1>4, <1>5, <1>6 DEF TypeOK

\* The lookup and the lock before an access, for readers and writers.
LEMMA FindTypeInv ==
    ASSUME TypeOK, NEW t \in Workers, Find(t)
    PROVE  TypeOK'
<1>1. /\ SessionsTypeOK /\ KernelTypeOK /\ QueuesTypeOK /\ ListenerTypeOK
      /\ WorkersTypeOK
      BY DEF TypeOK
<1>2. UNCHANGED <<registry, objects, kernel, listener, queues>> /\ pc[t] = "find"
      BY DEF Find
<1>3. CASE find_session_by_socket(sock[t]) = nullptr
  <2>1. Return(t)
        BY <1>3 DEF Find
  <2> QED BY <1>2, <2>1, LeaveTypeInv DEF objects
<1>4. CASE find_session_by_socket(sock[t]) # nullptr
  <2>1. /\ sess' = [sess EXCEPT ![t] = sessions_by_socket_[sock[t]]]
        /\ pc' = [pc EXCEPT ![t] = "lock"]
        /\ UNCHANGED <<sock, msg, dst>>
        BY <1>4 DEF Find, Goto, find_session_by_socket
  <2>2. sessions_by_socket_[sock[t]] \in Conns
        BY <1>1, <1>2, <1>4
           DEF WorkersTypeOK, SessionsTypeOK, find_session_by_socket
  <2>3. WorkersTypeOK'
        BY <1>1, <1>2, <2>1, <2>2 DEF WorkersTypeOK, ReaderSteps, WriterSteps
  <2>4. SessionsHaveSockets'
        BY <1>2, <2>1, SameSockets DEF registry, maps, objects
  <2>5. SessionsTypeOK' /\ KernelTypeOK' /\ QueuesTypeOK' /\ ListenerTypeOK'
        BY <1>1, <1>2, UnchangedType DEF kernel
  <2> QED BY <2>3, <2>4, <2>5 DEF TypeOK
<1> QED BY <1>3, <1>4

\* Taking the mutex of the session found.
LEMMA LockTypeInv ==
    ASSUME TypeOK, NEW t \in Workers, NEW next \in {"refind", "send"},
           LockSession(t, next)
    PROVE  TypeOK'
<1>1. /\ SessionsTypeOK /\ KernelTypeOK /\ QueuesTypeOK /\ ListenerTypeOK
      /\ WorkersTypeOK
      BY DEF TypeOK
<1>2. /\ pc[t] = "lock"
      /\ mutex_' = [mutex_ EXCEPT ![sess[t]] = t]
      /\ pc' = [pc EXCEPT ![t] = next]
      /\ UNCHANGED <<sock, sess, msg, dst, registry, socket_, id_, kernel,
                     listener, queues>>
      BY DEF LockSession, Goto
<1>3. SessionsTypeOK'
      BY <1>1, <1>2 DEF SessionsTypeOK, registry, maps
<1>4. WorkersTypeOK'
      BY <1>1, <1>2 DEF WorkersTypeOK, ReaderSteps, WriterSteps
<1>5. SessionsHaveSockets'
      BY <1>2, SameSockets DEF registry, maps
<1>6. KernelTypeOK' /\ QueuesTypeOK' /\ ListenerTypeOK'
      BY <1>1, <1>2, UnchangedType DEF kernel
<1> QED BY <1>3, <1>4, <1>5, <1>6 DEF TypeOK

\* removeSession() as the last act of a worker.
LEMMA RemoveTypeInv ==
    ASSUME TypeOK, NEW t \in Workers, NEW s, RemoveSession(s), Unlock(t),
           Return(t), UNCHANGED <<kernel, loop, readfds, ready, queues>>
    PROVE  TypeOK'
<1>1. /\ SessionsTypeOK /\ KernelTypeOK /\ QueuesTypeOK /\ ListenerTypeOK
      /\ WorkersTypeOK
      BY DEF TypeOK
<1>2. mutex_' \in [Conns -> Workers \cup {nullptr}]
      BY <1>1, UnlockType
<1>3. /\ SessionsTypeOK'
      /\ UNCHANGED <<socket_, id_, sessions_mutex_>>
      /\ sessions_by_socket_' = [sessions_by_socket_ EXCEPT ![s] = nullptr]
      /\ \A j \in Values : \/ sessions_by_id_'[j] = sessions_by_id_[j]
                           \/ sessions_by_id_'[j] = nullptr
      BY <1>1, <1>2, RemoveSessionType DEF RemoveSession
<1>4. /\ WorkersTypeOK'
      /\ \A u \in Workers : dst'[u] \in {dst[u], nullptr}
      BY <1>1, ReturnType
<1>5. SessionsHaveSockets'
  <2>1. \A u \in Sockets : sessions_by_socket_'[u] \in
                               {sessions_by_socket_[u], nullptr}
        BY <1>1, <1>3 DEF SessionsTypeOK
  <2> QED BY <1>3, <1>4, <2>1, SocketsKept
<1>6. ListenerTypeOK'
  <2>1. copy' = Smear(accepted_clients_')
        BY DEF RemoveSession
  <2>2. copy \in Seq(SUBSET Sockets) /\ accepted_clients_' \in Seq(Sockets)
        BY <1>1, <1>3 DEF ListenerTypeOK, SessionsTypeOK
  <2>3. copy' \in Seq(SUBSET Sockets)
        BY <2>1, <2>2, SmearType
  <2> QED BY <1>1, <2>3 DEF ListenerTypeOK, kernel
<1>7. KernelTypeOK' /\ QueuesTypeOK'
      BY <1>1, UnchangedType
<1> QED BY <1>3, <1>4, <1>5, <1>6, <1>7 DEF TypeOK

\* What a reader takes out of a receive buffer.
LEMMA ReceivedType ==
    ASSUME KernelTypeOK, NEW r \in Workers, sock[r] \in Sockets
    PROVE  /\ Received(r) \in Seq(Values)
           /\ Len(Received(r)) \in Nat
           /\ Wanted(r) \in {ID_MESSAGE_SIZE, DATA_MESSAGE_SIZE}
           /\ \A n \in Nat : Consume(r, n) => inbox' \in [Conns -> Seq(Values)]
<1>1. Received(r) \in Seq(Values)
  <2>1. Behind(r) \in Conns \cup {nullptr}
        BY DEF Behind, KernelTypeOK
  <2>2. <<>> \in Seq(Values)
        BY EmptySeq
  <2> QED BY <2>1, <2>2 DEF Received, KernelTypeOK
<1>2. Len(Received(r)) \in Nat
      BY <1>1, LenProperties
<1>3. ASSUME NEW n \in Nat, Consume(r, n)
      PROVE  inbox' \in [Conns -> Seq(Values)]
  <2>1. ASSUME NEW c \in Conns
        PROVE  SubSeq(inbox[c], n + 1, Len(inbox[c])) \in Seq(Values)
        BY <1>3, SubSeqProperties, LenProperties, ElementOfSeq DEF KernelTypeOK
  <2> QED BY <1>3, <2>1 DEF Consume, KernelTypeOK
<1> QED BY <1>1, <1>2, <1>3 DEF Wanted

\* A read step that ends where another step of the same task begins, with a
\* new message in the worker's buffer.
LEMMA ReadFullTypeInv ==
    ASSUME TypeOK, NEW r \in Readers, ReadFull(r)
    PROVE  TypeOK'
<1>0. r \in Workers /\ r \notin Writers
      BY RegistryAssumption DEF Workers
<1>1. /\ SessionsTypeOK /\ KernelTypeOK /\ QueuesTypeOK /\ ListenerTypeOK
      /\ WorkersTypeOK
      BY DEF TypeOK
<1>2. sock[r] \in Sockets /\ sess[r] \in Conns
      BY <1>0, <1>1 DEF ReadFull, WorkersTypeOK
<1> DEFINE n == Wanted(r)
           next == IF id_[sess[r]] = NONE THEN "add" ELSE "route"
<1>3. /\ Received(r) \in Seq(Values)
      /\ Len(Received(r)) \in Nat
      /\ n \in {ID_MESSAGE_SIZE, DATA_MESSAGE_SIZE}
      /\ n \in Nat
      /\ inbox' \in [Conns -> Seq(Values)]
      BY <1>0, <1>1, <1>2, ReceivedType
         DEF ReadFull, ID_MESSAGE_SIZE, DATA_MESSAGE_SIZE
<1>4. n <= Len(Received(r))
      BY <1>3 DEF ReadFull
<1>5. /\ SubSeq(Received(r), 1, n) \in Seq(Values)
      /\ Len(SubSeq(Received(r), 1, n)) = n
      BY <1>3, <1>4, SubSeqProperties, ElementOfSeq
<1>6. /\ msg' = [msg EXCEPT ![r] = SubSeq(Received(r), 1, n)]
      /\ pc' = [pc EXCEPT ![r] = next]
      /\ UNCHANGED <<sock, sess, dst, peer, sent, backlog, fd_table, outbox,
                     registry, objects, listener, queues>>
      BY DEF ReadFull, Goto
<1>7. \/ next = "add" /\ n = ID_MESSAGE_SIZE
      \/ next = "route" /\ n = DATA_MESSAGE_SIZE
      BY DEF Wanted
<1> HIDE DEF n, next
<1>8. WorkersTypeOK'
  <2>1. pc' \in [Workers -> ReaderSteps \cup WriterSteps]
        BY <1>1, <1>6, <1>7 DEF WorkersTypeOK, ReaderSteps, WriterSteps
  <2>2. msg' \in [Workers -> Seq(Values)]
        BY <1>1, <1>5, <1>6 DEF WorkersTypeOK
  <2>3. pc'[r] = next /\ Len(msg'[r]) = n
        BY <1>0, <1>1, <1>5, <1>6 DEF WorkersTypeOK
  <2>4. \A u \in Workers : u # r => pc'[u] = pc[u] /\ msg'[u] = msg[u]
        BY <1>1, <1>6 DEF WorkersTypeOK
  <2> QED BY <1>0, <1>1, <1>2, <1>6, <1>7, <2>1, <2>2, <2>3, <2>4 DEF WorkersTypeOK
<1>9. KernelTypeOK'
      BY <1>1, <1>3, <1>6 DEF KernelTypeOK
<1>10. SessionsHaveSockets'
      BY <1>6, SameSockets DEF registry, maps, objects
<1>11. SessionsTypeOK' /\ QueuesTypeOK' /\ ListenerTypeOK'
      BY <1>1, <1>6, UnchangedType
<1> QED BY <1>8, <1>9, <1>10, <1>11 DEF TypeOK

\* A read step that takes what is there and learns nothing.
LEMMA ReadShortTypeInv ==
    ASSUME TypeOK, NEW r \in Readers, ReadPartial(r) \/ ReadError(r)
    PROVE  TypeOK'
<1>0. r \in Workers /\ r \notin Writers
      BY RegistryAssumption DEF Workers
<1>1. /\ SessionsTypeOK /\ KernelTypeOK /\ QueuesTypeOK /\ ListenerTypeOK
      /\ WorkersTypeOK
      BY DEF TypeOK
<1>2. sock[r] \in Sockets /\ sess[r] \in Conns
      BY <1>0, <1>1 DEF ReadPartial, ReadError, WorkersTypeOK
<1>3. inbox' \in [Conns -> Seq(Values)]
      BY <1>0, <1>1, <1>2, ReceivedType DEF ReadPartial, ReadError
<1>4. UNCHANGED <<sock, sess, msg, dst, peer, sent, backlog, fd_table, outbox,
                  registry, objects, listener, queues>>
      BY DEF ReadPartial, ReadError, workers
<1>5. pc' = pc \/ pc' = [pc EXCEPT ![r] = "remove"]
      BY DEF ReadPartial, ReadError, workers, Goto
<1>6. WorkersTypeOK'
      BY <1>0, <1>1, <1>2, <1>4, <1>5 DEF WorkersTypeOK, ReaderSteps, WriterSteps
<1>7. KernelTypeOK'
      BY <1>1, <1>3, <1>4 DEF KernelTypeOK
<1>8. SessionsHaveSockets'
      BY <1>4, SameSockets DEF registry, maps, objects
<1>9. SessionsTypeOK' /\ QueuesTypeOK' /\ ListenerTypeOK'
      BY <1>1, <1>4, UnchangedType
<1> QED BY <1>6, <1>7, <1>8, <1>9 DEF TypeOK

\* The read workers keep the types.
LEMMA ReaderTypeInv ==
    ASSUME TypeOK, NEW r \in Readers, Reader(r)
    PROVE  TypeOK'
<1>1. /\ SessionsTypeOK /\ KernelTypeOK /\ QueuesTypeOK /\ ListenerTypeOK
      /\ WorkersTypeOK
      BY DEF TypeOK
<1>2. r \in Workers /\ r \notin Writers
      BY RegistryAssumption DEF Workers
<1>3. CASE ReadPop(r)
  <2>1. ready_read_sockets_queue_ \in Seq(Sockets) /\ ready_read_sockets_queue_ # <<>>
        BY <1>1, <1>3 DEF QueuesTypeOK, ReadPop
  <2>2. /\ Head(ready_read_sockets_queue_) \in Sockets
        /\ Tail(ready_read_sockets_queue_) \in Seq(Sockets)
        BY <2>1, HeadTailProperties
  <2>3. QueuesTypeOK'
        BY <1>1, <1>3, <2>2 DEF QueuesTypeOK, ReadPop
  <2>4. PICK s \in Sockets : /\ sock' = [sock EXCEPT ![r] = s]
                             /\ pc' = [pc EXCEPT ![r] = "find"]
                             /\ UNCHANGED <<sess, msg, dst>>
        BY <1>3, <2>2 DEF ReadPop, Goto
  <2>5. WorkersTypeOK'
        BY <1>1, <1>2, <2>4 DEF WorkersTypeOK, ReaderSteps, WriterSteps
  <2>6. SessionsHaveSockets'
        BY <1>3, SameSockets DEF ReadPop, registry, maps, objects
  <2>7. SessionsTypeOK' /\ KernelTypeOK' /\ ListenerTypeOK'
        BY <1>1, <1>3, UnchangedType DEF ReadPop, kernel
  <2> QED BY <2>3, <2>5, <2>6, <2>7 DEF TypeOK
<1>4. CASE Find(r)
      BY <1>2, <1>4, FindTypeInv
<1>5. CASE ReadLock(r)
      BY <1>2, <1>5, LockTypeInv DEF ReadLock
<1>6. CASE Refind(r)
  <2>1. /\ UNCHANGED <<registry, socket_, id_, kernel, listener, queues>>
        /\ pc[r] = "refind"
        BY <1>6 DEF Refind
  <2>2. CASE find_session_by_socket(sock[r]) = nullptr
    <3>1. Unlock(r) /\ Return(r)
          BY <1>6, <2>2 DEF Refind
    <3> QED BY <1>2, <2>1, <3>1, LeaveTypeInv
  <2>3. CASE find_session_by_socket(sock[r]) # nullptr
    <3>1. /\ sess' = [sess EXCEPT ![r] = sessions_by_socket_[sock[r]]]
          /\ pc' = [pc EXCEPT ![r] = "read"]
          /\ UNCHANGED <<sock, msg, dst, mutex_>>
          BY <1>6, <2>3 DEF Refind, Goto, find_session_by_socket
    <3>2. sessions_by_socket_[sock[r]] \in Conns
          BY <1>1, <1>2, <2>1, <2>3
             DEF WorkersTypeOK, SessionsTypeOK, find_session_by_socket
    <3>3. WorkersTypeOK'
          BY <1>1, <1>2, <2>1, <3>1, <3>2 DEF WorkersTypeOK, ReaderSteps, WriterSteps
    <3>4. SessionsHaveSockets'
          BY <2>1, <3>1, SameSockets DEF registry, maps
    <3>5. SessionsTypeOK' /\ KernelTypeOK' /\ QueuesTypeOK' /\ ListenerTypeOK'
          BY <1>1, <2>1, <3>1, UnchangedType DEF kernel, objects
    <3> QED BY <3>3, <3>4, <3>5 DEF TypeOK
  <2> QED BY <2>2, <2>3
<1>7. CASE ReadFull(r)
      BY <1>7, ReadFullTypeInv
<1>8. CASE ReadPartial(r) \/ ReadError(r)
      BY <1>8, ReadShortTypeInv
<1>9. CASE ReadNothing(r)
      BY <1>2, <1>9, LeaveTypeInv DEF ReadNothing
<1>10. CASE AddNode(r)
  <2>1. pc[r] = "add" /\ sock[r] \in Sockets /\ sess[r] \in Conns
        BY <1>1, <1>2, <1>10 DEF AddNode, WorkersTypeOK
  <2>2. extract_src_id(msg[r]) \in Values
    <3>1. msg[r] \in Seq(Values) /\ Len(msg[r]) = 1
          BY <1>1, <1>2, <2>1 DEF WorkersTypeOK, ID_MESSAGE_SIZE
    <3> QED BY <3>1, ElementOfSeq DEF extract_src_id
  <2>3. /\ add_node(sock[r], extract_src_id(msg[r]))
        /\ mutex_' = mutex_
        /\ msg' = [msg EXCEPT ![r] = <<>>]
        /\ pc' = [pc EXCEPT ![r] = "read"]
        /\ UNCHANGED <<sock, sess, dst, kernel, listener, queues>>
        BY <1>10 DEF AddNode, Goto
  <2>4. /\ SessionsTypeOK'
        /\ UNCHANGED <<sessions_by_socket_, socket_>>
        /\ \A j \in Values : \/ sessions_by_id_'[j] = sessions_by_id_[j]
                             \/ sessions_by_id_'[j] = sessions_by_socket_[sock[r]]
        BY <1>1, <2>1, <2>2, <2>3, AddNodeType
  <2>5. SessionsHaveSockets'
        BY <2>1, <2>3, <2>4, SocketsKept
  <2>6. WorkersTypeOK'
        BY <1>1, <1>2, <2>1, <2>3, EmptySeq
           DEF WorkersTypeOK, ReaderSteps, WriterSteps
  <2>7. KernelTypeOK' /\ QueuesTypeOK' /\ ListenerTypeOK'
        BY <1>1, <2>3, UnchangedType DEF kernel
  <2> QED BY <2>4, <2>5, <2>6, <2>7 DEF TypeOK
<1>11. CASE Route(r)
  <2>1. /\ UNCHANGED <<registry, socket_, id_, kernel, listener, queues>>
        /\ pc[r] = "route"
        BY <1>11 DEF Route
  <2> DEFINE d == find_session_by_id(extract_dst_id(msg[r]))
  <2>2. extract_dst_id(msg[r]) \in Values
    <3>1. msg[r] \in Seq(Values) /\ Len(msg[r]) = 3
          BY <1>1, <1>2, <2>1 DEF WorkersTypeOK, DATA_MESSAGE_SIZE
    <3> QED BY <3>1, ElementOfSeq DEF extract_dst_id, DATA_MESSAGE_SIZE
  <2>3. CASE d = nullptr
    <3>1. Unlock(r) /\ Return(r)
          BY <1>11, <2>3 DEF Route
    <3> QED BY <1>2, <2>1, <3>1, LeaveTypeInv
  <2>4. CASE d # nullptr
    <3>1. /\ dst' = [dst EXCEPT ![r] = d]
          /\ pc' = [pc EXCEPT ![r] = "forward"]
          /\ UNCHANGED <<sock, sess, msg, mutex_>>
          BY <1>11, <2>4 DEF Route, Goto
    <3>2. d \in Conns /\ \E i \in Values : d = sessions_by_id_[i]
          BY <1>1, <2>2, <2>4 DEF SessionsTypeOK, find_session_by_id
    <3> HIDE DEF d
    <3>3. WorkersTypeOK'
          BY <1>1, <1>2, <2>1, <3>1, <3>2 DEF WorkersTypeOK, ReaderSteps, WriterSteps
    <3>4. \A u \in Workers : \/ dst'[u] \in {dst[u], nullptr}
                             \/ \E i \in Values : dst'[u] = sessions_by_id_[i]
          BY <1>1, <3>1, <3>2 DEF WorkersTypeOK
    <3>5. SessionsHaveSockets'
          BY <2>1, <3>4, SocketsKept DEF registry, maps
    <3>6. SessionsTypeOK' /\ KernelTypeOK' /\ QueuesTypeOK' /\ ListenerTypeOK'
          BY <1>1, <2>1, <3>1, UnchangedType DEF kernel, objects
    <3> QED BY <3>3, <3>5, <3>6 DEF TypeOK
  <2> QED BY <2>3, <2>4
<1>12. CASE Forward(r)
  <2>1. pc[r] = "forward" /\ sock[r] \in Sockets /\ dst[r] \in Conns
        BY <1>1, <1>2, <1>12 DEF Forward, WorkersTypeOK
  <2>2. socket_[dst[r]] \in Sockets
        BY <1>1, <1>2, <2>1, RegistryAssumption
           DEF TypeOK, SessionsHaveSockets, SessionsTypeOK
  <2> DEFINE task == [socket |-> socket_[dst[r]], msg |-> msg[r]]
  <2>3. task \in Tasks
    <3>1. msg[r] \in Seq(Values) /\ Len(msg[r]) = DATA_MESSAGE_SIZE
          BY <1>1, <1>2, <2>1 DEF WorkersTypeOK
    <3> QED BY <2>2, <3>1 DEF Tasks
  <2>4. /\ ready_write_sockets_queue_' = Append(ready_write_sockets_queue_, task)
        /\ msg' = [msg EXCEPT ![r] = <<>>]
        /\ dst' = [dst EXCEPT ![r] = nullptr]
        /\ pc' = [pc EXCEPT ![r] = "read"]
        /\ UNCHANGED <<sock, sess, ready_read_sockets_queue_, registry, objects,
                       kernel, listener>>
        BY <1>12 DEF Forward, Goto
  <2> HIDE DEF task
  <2>5. ready_write_sockets_queue_ \in Seq(Tasks)
        BY <1>1 DEF QueuesTypeOK
  <2>6. ready_write_sockets_queue_' \in Seq(Tasks)
        BY <2>3, <2>4, <2>5, AppendProperties
  <2>7. QueuesTypeOK'
        BY <1>1, <2>4, <2>6 DEF QueuesTypeOK
  <2>8. WorkersTypeOK'
        BY <1>1, <1>2, <2>1, <2>4, EmptySeq
           DEF WorkersTypeOK, ReaderSteps, WriterSteps
  <2>9. \A u \in Workers : dst'[u] \in {dst[u], nullptr}
        BY <1>1, <2>4 DEF WorkersTypeOK
  <2>10. SessionsHaveSockets'
        BY <2>4, <2>9, SameSockets DEF registry, maps, objects
  <2>11. SessionsTypeOK' /\ KernelTypeOK' /\ ListenerTypeOK'
        BY <1>1, <2>4, UnchangedType DEF kernel
  <2> QED BY <2>7, <2>8, <2>10, <2>11 DEF TypeOK
<1>13. CASE ReadRemove(r)
      BY <1>2, <1>13, RemoveTypeInv DEF ReadRemove
<1> QED
    BY <1>3, <1>4, <1>5, <1>6, <1>7, <1>8, <1>9, <1>10, <1>11, <1>12, <1>13
       DEF Reader

\* The write workers keep the types.
LEMMA WriterTypeInv ==
    ASSUME TypeOK, NEW w \in Writers, Writer(w)
    PROVE  TypeOK'
<1>1. /\ SessionsTypeOK /\ KernelTypeOK /\ QueuesTypeOK /\ ListenerTypeOK
      /\ WorkersTypeOK
      BY DEF TypeOK
<1>2. w \in Workers
      BY DEF Workers
<1>3. CASE WritePop(w)
  <2>1. ready_write_sockets_queue_ \in Seq(Tasks) /\ ready_write_sockets_queue_ # <<>>
        BY <1>1, <1>3 DEF QueuesTypeOK, WritePop
  <2>2. /\ Head(ready_write_sockets_queue_) \in Tasks
        /\ Tail(ready_write_sockets_queue_) \in Seq(Tasks)
        BY <2>1, HeadTailProperties
  <2>3. QueuesTypeOK'
        BY <1>1, <1>3, <2>2 DEF QueuesTypeOK, WritePop
  <2>4. PICK s \in Sockets, m \in Seq(Values) :
           /\ Len(m) = DATA_MESSAGE_SIZE
           /\ sock' = [sock EXCEPT ![w] = s]
           /\ msg' = [msg EXCEPT ![w] = m]
           /\ pc' = [pc EXCEPT ![w] = "find"]
           /\ UNCHANGED <<sess, dst>>
        BY <1>3, <2>2 DEF WritePop, Goto, Tasks
  <2>5. WorkersTypeOK'
        BY <1>1, <1>2, <2>4 DEF WorkersTypeOK, ReaderSteps, WriterSteps
  <2>6. SessionsHaveSockets'
        BY <1>3, SameSockets DEF WritePop, registry, maps, objects
  <2>7. SessionsTypeOK' /\ KernelTypeOK' /\ ListenerTypeOK'
        BY <1>1, <1>3, UnchangedType DEF WritePop, kernel
  <2> QED BY <2>3, <2>5, <2>6, <2>7 DEF TypeOK
<1>4. CASE Find(w)
      BY <1>2, <1>4, FindTypeInv
<1>5. CASE WriteLock(w)
      BY <1>2, <1>5, LockTypeInv DEF WriteLock
<1>6. CASE SendOk(w)
  <2>1. pc[w] = "send" /\ sock[w] \in Sockets
        BY <1>1, <1>2, <1>6 DEF SendOk, WorkersTypeOK
  <2>2. Behind(w) \in Conns
        BY <1>1, <1>6, <2>1 DEF SendOk, Behind, KernelTypeOK
  <2>3. msg[w] \in Seq(Values) /\ outbox[Behind(w)] \in Seq(Seq(Values))
        BY <1>1, <1>2, <2>2 DEF WorkersTypeOK, KernelTypeOK
  <2>4. Append(outbox[Behind(w)], msg[w]) \in Seq(Seq(Values))
        BY <2>3, AppendProperties
  <2>5. KernelTypeOK'
        BY <1>1, <1>6, <2>4 DEF SendOk, KernelTypeOK
  <2>6. /\ WorkersTypeOK'
        /\ \A u \in Workers : dst'[u] \in {dst[u], nullptr}
        BY <1>1, <1>2, <1>6, ReturnType DEF SendOk
  <2>7. SessionsTypeOK'
        BY <1>1, <1>6, UnlockType DEF SendOk, SessionsTypeOK, registry, maps
  <2>8. SessionsHaveSockets'
        BY <1>6, <2>6, SameSockets DEF SendOk, registry, maps
  <2>9. QueuesTypeOK' /\ ListenerTypeOK'
        BY <1>1, <1>6, UnchangedType DEF SendOk
  <2> QED BY <2>5, <2>6, <2>7, <2>8, <2>9 DEF TypeOK
<1>7. CASE SendError(w)
  <2>1. /\ pc[w] = "send"
        /\ pc' = [pc EXCEPT ![w] = "remove"]
        /\ UNCHANGED <<sock, sess, msg, dst, registry, objects, kernel, listener,
                       queues>>
        BY <1>7 DEF SendError, Goto
  <2>2. WorkersTypeOK'
        BY <1>1, <1>2, <2>1 DEF WorkersTypeOK, ReaderSteps, WriterSteps
  <2>3. SessionsHaveSockets'
        BY <2>1, SameSockets DEF registry, maps, objects
  <2>4. SessionsTypeOK' /\ KernelTypeOK' /\ QueuesTypeOK' /\ ListenerTypeOK'
        BY <1>1, <2>1, UnchangedType DEF kernel
  <2> QED BY <2>2, <2>3, <2>4 DEF TypeOK
<1>8. CASE SendPartial(w)
  <2>1. pc[w] = "send" /\ sock[w] \in Sockets
        BY <1>1, <1>2, <1>8 DEF SendPartial, WorkersTypeOK
  <2>2. Behind(w) \in Conns
        BY <1>1, <1>8, <2>1 DEF SendPartial, Behind, KernelTypeOK
  <2>3. msg[w] \in Seq(Values) /\ outbox[Behind(w)] \in Seq(Seq(Values))
        BY <1>1, <1>2, <2>2 DEF WorkersTypeOK, KernelTypeOK
  <2>4. PICK n \in 1 .. Len(msg[w]) - 1 :
           outbox' = [outbox EXCEPT ![Behind(w)] =
                         Append(@, SubSeq(msg[w], 1, n))]
        BY <1>8 DEF SendPartial
  <2>5. n \in Nat /\ n <= Len(msg[w])
        BY <2>3, <2>4
  <2>6. SubSeq(msg[w], 1, n) \in Seq(Values)
        BY <2>3, <2>5, SubSeqProperties, ElementOfSeq
  <2>7. Append(outbox[Behind(w)], SubSeq(msg[w], 1, n)) \in Seq(Seq(Values))
        BY <2>3, <2>6, AppendProperties
  <2>8. KernelTypeOK'
        BY <1>1, <1>8, <2>4, <2>7 DEF SendPartial, KernelTypeOK
  <2>9. /\ pc' = [pc EXCEPT ![w] = "remove"]
        /\ UNCHANGED <<sock, sess, msg, dst, registry, objects, listener, queues>>
        BY <1>8 DEF SendPartial, Goto
  <2>10. WorkersTypeOK'
        BY <1>1, <1>2, <2>1, <2>9 DEF WorkersTypeOK, ReaderSteps, WriterSteps
  <2>11. SessionsHaveSockets'
        BY <2>9, SameSockets DEF registry, maps, objects
  <2>12. SessionsTypeOK' /\ QueuesTypeOK' /\ ListenerTypeOK'
        BY <1>1, <1>8, <2>9, UnchangedType DEF SendPartial
  <2> QED BY <2>8, <2>10, <2>11, <2>12 DEF TypeOK
<1>9. CASE WriteRemove(w)
      BY <1>2, <1>9, RemoveTypeInv DEF WriteRemove
<1> QED BY <1>3, <1>4, <1>5, <1>6, <1>7, <1>8, <1>9 DEF Writer

\* Every step keeps the types.
LEMMA NextTypeInv == TypeOK /\ [Next]_vars => TypeOK'
<1> SUFFICES ASSUME TypeOK, [Next]_vars PROVE TypeOK'
    OBVIOUS
<1>1. CASE UNCHANGED vars
  <2>1. UNCHANGED <<registry, objects, kernel, listener, queues, workers>>
        BY <1>1 DEF vars
  <2>2. SessionsHaveSockets'
        BY <2>1 DEF TypeOK, SessionsHaveSockets, registry, maps, objects, workers
  <2> QED BY <2>1, <2>2, UnchangedType DEF TypeOK, kernel
<1>2. ASSUME NEW c \in Conns, Peer(c) PROVE TypeOK'
      BY <1>2, PeerTypeInv
<1>3. CASE Listener
      BY <1>3, ListenerTypeInv
<1>4. ASSUME NEW r \in Readers, Reader(r) PROVE TypeOK'
      BY <1>4, ReaderTypeInv
<1>5. ASSUME NEW w \in Writers, Writer(w) PROVE TypeOK'
      BY <1>5, WriterTypeInv
<1> QED BY <1>1, <1>2, <1>3, <1>4, <1>5 DEF Next

\* The router's state keeps its types, and no worker locks, reads for, writes
\* for or forwards through a null session: do_reads(), process_message() and
\* do_writes() test every lookup they use.
THEOREM RouterTypeCorrect == SafetySpec => []TypeOK
BY InitTypeInv, NextTypeInv, PTL DEF SafetySpec

-----------------------------------------------------------------------------
(* The mutex of a session.                                                 *)

\* Before the threads start no mutex is held and no descriptor is open.
LEMMA InitLockInv == Init => LockInv
<1> SUFFICES ASSUME Init PROVE LockInv
    OBVIOUS
<1> USE DEF Init, SessionsInit
<1>1. \A t \in Workers : pc[t] = "pop"
      OBVIOUS
<1>2. LocksHeld /\ ReaderSessionStable
      BY <1>1 DEF LocksHeld, LockedSteps, ReaderSessionStable, Workers
<1>3. DescriptorsNotReused
      BY <1>1 DEF DescriptorsNotReused
<1>4. BacklogIsFresh
      BY EmptySeq DEF BacklogIsFresh
<1>5. NoSelfDeadlock
      BY DEF NoSelfDeadlock
<1> QED BY <1>2, <1>3, <1>4, <1>5 DEF LockInv

\* A step of worker t that keeps the kernel's tables, may take or release
\* mutexes that are free or its own, and removes at most the session of the
\* socket it has locked.
LEMMA WorkerKeepsLocks ==
    ASSUME TypeOK, LockInv, NEW t \in Workers,
           UNCHANGED <<fd_table, backlog, peer, socket_, sessions_mutex_>>,
           \A u \in Workers : u # t => /\ pc'[u] = pc[u]
                                       /\ sock'[u] = sock[u]
                                       /\ sess'[u] = sess[u],
           \A c \in Conns : mutex_'[c] = mutex_[c] \/ mutex_[c] \in {t, nullptr},
           \A s \in Sockets :
               \/ sessions_by_socket_'[s] = sessions_by_socket_[s]
               \/ /\ sessions_by_socket_'[s] = nullptr
                  /\ s = sock[t]
                  /\ pc[t] \in LockedSteps,
           pc'[t] \notin {"pop", "find"} => fd_table[sock'[t]] = sess'[t],
           pc'[t] \in LockedSteps => mutex_'[sess'[t]] = t,
           t \in Readers /\ pc'[t] \in {"read", "add", "route", "forward", "remove"}
               => sessions_by_socket_'[sock'[t]] = sess'[t]
    PROVE  LockInv'
<1>1. /\ LocksHeld /\ DescriptorsNotReused /\ BacklogIsFresh
      /\ ReaderSessionStable /\ NoSelfDeadlock
      BY DEF LockInv
<1>2. /\ pc \in [Workers -> ReaderSteps \cup WriterSteps]
      /\ \A u \in Workers : pc[u] # "pop" => sock[u] \in Sockets
      /\ \A u \in Workers : pc[u] \notin {"pop", "find"} => sess[u] \in Conns
      BY DEF TypeOK, WorkersTypeOK
<1>3. nullptr \notin Workers
      BY RegistryAssumption
<1>4. \A u \in Workers : pc[u] \in LockedSteps => pc[u] \notin {"pop", "find"}
      BY DEF LockedSteps
<1>5. LocksHeld'
  <2> SUFFICES ASSUME NEW u \in Workers, pc'[u] \in LockedSteps
               PROVE  mutex_'[sess'[u]] = u
      BY DEF LocksHeld
  <2>1. CASE u = t
        BY <2>1
  <2>2. CASE u # t
    <3>1. pc[u] \in LockedSteps /\ sess'[u] = sess[u]
          BY <2>2
    <3>2. sess[u] \in Conns /\ mutex_[sess[u]] = u
          BY <1>1, <1>2, <1>4, <3>1 DEF LocksHeld
    <3> QED BY <1>3, <2>2, <3>1, <3>2
  <2> QED BY <2>1, <2>2
<1>6. DescriptorsNotReused'
  <2>1. ASSUME NEW u \in Workers, pc'[u] \notin {"pop", "find"}
        PROVE  fd_table'[sock'[u]] = sess'[u]
        BY <1>1, <2>1 DEF DescriptorsNotReused
  <2>2. ASSUME NEW s \in Sockets, sessions_by_socket_'[s] # nullptr
        PROVE  fd_table'[s] = sessions_by_socket_'[s]
        BY <1>1, <2>2 DEF DescriptorsNotReused
  <2>3. \A s \in Sockets : fd_table'[s] # nullptr => socket_'[fd_table'[s]] = s
        BY <1>1 DEF DescriptorsNotReused
  <2> QED BY <2>1, <2>2, <2>3 DEF DescriptorsNotReused
<1>7. BacklogIsFresh'
      BY <1>1 DEF BacklogIsFresh
<1>8. ReaderSessionStable'
  <2> SUFFICES ASSUME NEW r \in Readers,
                      pc'[r] \in {"read", "add", "route", "forward", "remove"}
               PROVE  sessions_by_socket_'[sock'[r]] = sess'[r] /\ mutex_'[sess'[r]] = r
      BY DEF ReaderSessionStable
  <2>1. r \in Workers /\ pc'[r] \in LockedSteps
        BY DEF Workers, LockedSteps
  <2>2. mutex_'[sess'[r]] = r
        BY <1>5, <2>1 DEF LocksHeld
  <2>3. CASE r = t
        BY <2>2, <2>3
  <2>4. CASE r # t
    <3>1. pc[r] = pc'[r] /\ sock'[r] = sock[r] /\ sess'[r] = sess[r]
          BY <2>1, <2>4
    <3>2. sessions_by_socket_[sock[r]] = sess[r] /\ mutex_[sess[r]] = r
          BY <1>1, <3>1 DEF ReaderSessionStable
    <3>3. sock[r] \in Sockets
          BY <1>2, <2>1, <3>1
    <3>4. ASSUME sock[r] = sock[t], pc[t] \in LockedSteps PROVE FALSE
      <4>1. fd_table[sock[r]] = sess[r] /\ fd_table[sock[t]] = sess[t]
            BY <1>1, <1>4, <2>1, <3>1, <3>4 DEF DescriptorsNotReused
      <4>2. mutex_[sess[t]] = t
            BY <1>1, <3>4 DEF LocksHeld
      <4> QED BY <2>4, <3>2, <3>4, <4>1, <4>2
    <3>5. sessions_by_socket_'[sock[r]] = sessions_by_socket_[sock[r]]
          BY <3>3, <3>4
    <3> QED BY <2>2, <3>1, <3>2, <3>5
  <2> QED BY <2>3, <2>4
<1>9. NoSelfDeadlock'
      BY <1>1 DEF NoSelfDeadlock
<1> QED BY <1>5, <1>6, <1>7, <1>8, <1>9 DEF LockInv

\* A step that changes none of the variables of LockInv.
LEMMA SameLocks ==
    ASSUME LockInv,
           UNCHANGED <<fd_table, backlog, peer, socket_, sessions_mutex_,
                       sessions_by_socket_, mutex_, pc, sock, sess>>
    PROVE  LockInv'
BY DEF LockInv, LocksHeld, DescriptorsNotReused, BacklogIsFresh,
       ReaderSessionStable, NoSelfDeadlock

-----------------------------------------------------------------------------
\* A connection that starts enters the backlog for the first time.
LEMMA PeerLockInv ==
    ASSUME TypeOK, LockInv, NEW c \in Conns, Peer(c)
    PROVE  LockInv'
<1>1. /\ LocksHeld /\ DescriptorsNotReused /\ BacklogIsFresh
      /\ ReaderSessionStable /\ NoSelfDeadlock
      BY DEF LockInv
<1>2. /\ peer \in [Conns -> PeerStates]
      /\ backlog \in Seq(Conns)
      /\ fd_table \in [Sockets -> Conns \cup {nullptr}]
      BY DEF TypeOK, KernelTypeOK
<1>3. UNCHANGED <<fd_table, socket_, sessions_mutex_, sessions_by_socket_, mutex_,
                  pc, sock, sess>>
      BY DEF Peer, PeerConnect, PeerSend, PeerClose, PeerReset, registry, maps,
             objects, workers
<1>4. BacklogIsFresh'
  <2>1. CASE PeerConnect(c)
    <3>1. /\ peer[c] = "new"
          /\ peer' = [peer EXCEPT ![c] = "open"]
          /\ backlog' = Append(backlog, c)
          BY <2>1 DEF PeerConnect
    <3>2. /\ DOMAIN backlog = 1 .. Len(backlog) /\ Len(backlog) \in Nat
          /\ DOMAIN backlog' = 1 .. Len(backlog) + 1
          /\ \A i \in 1 .. Len(backlog) : backlog'[i] = backlog[i]
          /\ backlog'[Len(backlog) + 1] = c
          BY <1>2, <3>1, AppendProperties, LenProperties
    <3>3. \A i \in DOMAIN backlog : backlog[i] \in Conns /\ backlog[i] # c
          BY <1>1, <1>2, <3>1, <3>2, ElementOfSeq DEF BacklogIsFresh
    <3>4. \A s \in Sockets : fd_table[s] # c
          BY <1>1, <1>2, <3>1, RegistryAssumption DEF BacklogIsFresh
    <3>5. \A i, j \in DOMAIN backlog' : backlog'[i] = backlog'[j] => i = j
          BY <1>1, <3>2, <3>3 DEF BacklogIsFresh
    <3>6. \A d \in Conns : peer'[d] # "new" <=> peer[d] # "new" \/ d = c
          BY <1>2, <3>1
    <3>7. \A i \in DOMAIN backlog' : /\ peer'[backlog'[i]] # "new"
                                     /\ \A s \in Sockets : fd_table[s] # backlog'[i]
          BY <1>1, <3>2, <3>3, <3>4, <3>6 DEF BacklogIsFresh
    <3>8. \A s \in Sockets : fd_table[s] # nullptr => peer'[fd_table[s]] # "new"
          BY <1>1, <1>2, <3>6 DEF BacklogIsFresh
    <3> QED BY <1>3, <3>5, <3>7, <3>8 DEF BacklogIsFresh
  <2>2. CASE PeerSend(c) \/ PeerClose(c) \/ PeerReset(c)
    <3>1. /\ backlog' = backlog
          /\ \A d \in Conns : peer[d] # "new" => peer'[d] # "new"
          BY <1>2, <2>2 DEF PeerSend, PeerClose, PeerReset
    <3>2. \A i \in DOMAIN backlog : backlog[i] \in Conns
          BY <1>2, ElementOfSeq, LenProperties
    <3> QED BY <1>1, <1>2, <1>3, <3>1, <3>2 DEF BacklogIsFresh
  <2> QED BY <2>1, <2>2 DEF Peer
<1> QED BY <1>1, <1>3, <1>4
        DEF LockInv, LocksHeld, DescriptorsNotReused, ReaderSessionStable,
            NoSelfDeadlock

\* What is left of the backlog when its head has been taken.
LEMMA BacklogTail ==
    ASSUME TypeOK, BacklogIsFresh, backlog # <<>>
    PROVE  /\ Head(backlog) \in Conns
           /\ peer[Head(backlog)] # "new"
           /\ \A s \in Sockets : fd_table[s] # Head(backlog)
           /\ \A i, j \in DOMAIN Tail(backlog) :
                 Tail(backlog)[i] = Tail(backlog)[j] => i = j
           /\ \A i \in DOMAIN Tail(backlog) :
                 /\ Tail(backlog)[i] \in Conns
                 /\ Tail(backlog)[i] # Head(backlog)
                 /\ peer[Tail(backlog)[i]] # "new"
                 /\ \A s \in Sockets : fd_table[s] # Tail(backlog)[i]
<1>1. backlog \in Seq(Conns)
      BY DEF TypeOK, KernelTypeOK
<1>2. /\ DOMAIN backlog = 1 .. Len(backlog) /\ Len(backlog) \in Nat \ {0}
      /\ \A i \in DOMAIN backlog : backlog[i] \in Conns
      BY <1>1, LenProperties, ElementOfSeq, EmptySeq
<1>3. /\ Head(backlog) = backlog[1]
      /\ Tail(backlog) \in Seq(Conns)
      /\ Len(Tail(backlog)) = Len(backlog) - 1
      /\ \A i \in 1 .. Len(Tail(backlog)) : Tail(backlog)[i] = backlog[i + 1]
      BY <1>1, HeadTailProperties
<1>4. DOMAIN Tail(backlog) = 1 .. Len(backlog) - 1
      BY <1>3, LenProperties
<1> QED BY <1>2, <1>3, <1>4 DEF BacklogIsFresh

\* accept() hands out a descriptor no session was ever stored under, so
\* accept_client() does not call removeSession().
LEMMA AcceptLockInv ==
    ASSUME TypeOK, LockInv, Accept
    PROVE  LockInv'
<1>1. /\ LocksHeld /\ DescriptorsNotReused /\ BacklogIsFresh
      /\ ReaderSessionStable /\ NoSelfDeadlock
      BY DEF LockInv
<1>2. /\ backlog # <<>>
      /\ fd_table \in [Sockets -> Conns \cup {nullptr}]
      /\ sessions_by_socket_ \in [Sockets -> Conns \cup {nullptr}]
      /\ socket_ \in [Conns -> Sockets \cup {nullptr}]
      BY DEF TypeOK, KernelTypeOK, SessionsTypeOK, ListenerTypeOK, Accept
<1>3. /\ \A t \in Workers : pc[t] # "pop" => sock[t] \in Sockets
      /\ \A t \in Workers : pc[t] \notin {"pop", "find"} => sess[t] \in Conns
      BY DEF TypeOK, WorkersTypeOK
<1> DEFINE c == Head(backlog)
<1>4. c \in Conns /\ peer[c] # "new" /\ \A s \in Sockets : fd_table[s] # c
      BY <1>1, <1>2, BacklogTail
<1>5. PICK s \in Sockets : /\ fd_table[s] = nullptr
                           /\ fd_table' = [fd_table EXCEPT ![s] = c]
                           /\ accept_client(s, c)
      BY DEF Accept, FreeSockets
<1> HIDE DEF c
<1>6. c # nullptr
      BY <1>4, RegistryAssumption
<1>7. sessions_by_socket_[s] = nullptr
      BY <1>1, <1>5 DEF DescriptorsNotReused
<1>8. /\ sessions_by_socket_' = [sessions_by_socket_ EXCEPT ![s] = c]
      /\ socket_' = [socket_ EXCEPT ![c] = s]
      /\ sessions_mutex_' = sessions_mutex_
      /\ mutex_' = mutex_
      BY <1>5, <1>7 DEF accept_client
<1>9. UNCHANGED <<peer, pc, sock, sess>> /\ backlog' = Tail(backlog)
      BY DEF Accept, workers
<1>10. DescriptorsNotReused'
  <2>1. ASSUME NEW u \in Sockets, fd_table'[u] # nullptr
        PROVE  socket_'[fd_table'[u]] = u
        BY <1>1, <1>2, <1>4, <1>5, <1>8, <2>1 DEF DescriptorsNotReused
  <2>2. ASSUME NEW u \in Sockets, sessions_by_socket_'[u] # nullptr
        PROVE  fd_table'[u] = sessions_by_socket_'[u]
        BY <1>1, <1>2, <1>5, <1>8, <2>2 DEF DescriptorsNotReused
  <2>3. ASSUME NEW t \in Workers, pc[t] \notin {"pop", "find"}
        PROVE  fd_table'[sock[t]] = sess[t]
    <3>1. fd_table[sock[t]] = sess[t] /\ sess[t] \in Conns /\ sock[t] \in Sockets
          BY <1>1, <1>3, <2>3 DEF DescriptorsNotReused
    <3>2. sock[t] # s
          BY <1>5, <3>1, RegistryAssumption
    <3> QED BY <1>2, <1>5, <3>1, <3>2
  <2> QED BY <1>9, <2>1, <2>2, <2>3 DEF DescriptorsNotReused
<1>11. BacklogIsFresh'
  <2>1. /\ \A i, j \in DOMAIN Tail(backlog) :
              Tail(backlog)[i] = Tail(backlog)[j] => i = j
        /\ \A i \in DOMAIN Tail(backlog) :
              /\ Tail(backlog)[i] # c
              /\ peer[Tail(backlog)[i]] # "new"
              /\ \A u \in Sockets : fd_table[u] # Tail(backlog)[i]
        BY <1>1, <1>2, BacklogTail DEF c
  <2>2. \A u \in Sockets : fd_table'[u] = fd_table[u] \/ fd_table'[u] = c
        BY <1>2, <1>5
  <2>3. \A u \in Sockets : fd_table'[u] # nullptr => peer[fd_table'[u]] # "new"
        BY <1>1, <1>4, <2>2 DEF BacklogIsFresh
  <2>4. \A i \in DOMAIN Tail(backlog) :
           \A u \in Sockets : fd_table'[u] # Tail(backlog)[i]
        BY <2>1, <2>2
  <2> QED BY <1>9, <2>1, <2>3, <2>4 DEF BacklogIsFresh
<1>12. ReaderSessionStable'
  <2> SUFFICES ASSUME NEW r \in Readers,
                      pc[r] \in {"read", "add", "route", "forward", "remove"}
               PROVE  sessions_by_socket_'[sock[r]] = sess[r] /\ mutex_[sess[r]] = r
      BY <1>8, <1>9 DEF ReaderSessionStable
  <2>1. sessions_by_socket_[sock[r]] = sess[r] /\ mutex_[sess[r]] = r
        BY <1>1 DEF ReaderSessionStable
  <2>2. sess[r] \in Conns /\ sock[r] \in Sockets
        BY <1>3 DEF Workers
  <2>3. sock[r] # s
        BY <1>7, <2>1, <2>2, RegistryAssumption
  <2> QED BY <1>2, <1>8, <2>1, <2>2, <2>3
<1>13. LocksHeld' /\ NoSelfDeadlock'
      BY <1>1, <1>8, <1>9 DEF LocksHeld, NoSelfDeadlock
<1> QED BY <1>10, <1>11, <1>12, <1>13 DEF LockInv

\* The event loop keeps the invariant.
LEMMA ListenerLockInv ==
    ASSUME TypeOK, LockInv, Listener
    PROVE  LockInv'
<1>1. CASE Accept
      BY <1>1, AcceptLockInv
<1>2. CASE AcceptRefused
  <2>1. BacklogIsFresh /\ backlog # <<>> /\ peer \in [Conns -> PeerStates]
        BY <1>2 DEF LockInv, TypeOK, KernelTypeOK, ListenerTypeOK, AcceptRefused
  <2>2. /\ UNCHANGED <<fd_table, socket_, sessions_mutex_, sessions_by_socket_,
                       mutex_, pc, sock, sess>>
        /\ peer' = [peer EXCEPT ![Head(backlog)] = "refused"]
        /\ backlog' = Tail(backlog)
        BY <1>2 DEF AcceptRefused, registry, maps, objects, workers
  <2>3. \A d \in Conns : peer[d] # "new" => peer'[d] # "new"
        BY <2>1, <2>2
  <2>4. \A s \in Sockets : fd_table[s] # nullptr => fd_table[s] \in Conns
        BY DEF TypeOK, KernelTypeOK
  <2>5. BacklogIsFresh'
    <3>1. /\ \A i, j \in DOMAIN Tail(backlog) :
                Tail(backlog)[i] = Tail(backlog)[j] => i = j
          /\ \A i \in DOMAIN Tail(backlog) :
                /\ peer'[Tail(backlog)[i]] # "new"
                /\ \A s \in Sockets : fd_table[s] # Tail(backlog)[i]
          BY <2>1, <2>3, BacklogTail
    <3>2. \A s \in Sockets : fd_table[s] # nullptr => peer'[fd_table[s]] # "new"
          BY <2>1, <2>3, <2>4 DEF BacklogIsFresh
    <3> QED BY <2>2, <3>1, <3>2 DEF BacklogIsFresh
  <2> QED BY <2>2, <2>5
          DEF LockInv, LocksHeld, DescriptorsNotReused, ReaderSessionStable,
              NoSelfDeadlock
<1>3. CASE ~ Accept /\ ~ AcceptRefused
  <2>1. UNCHANGED <<registry, objects, kernel, workers>>
        BY <1>3 DEF Listener, ResetBegin, ResetEnd, Select, SelectError,
                    AcceptError, PushReady
  <2> QED BY <2>1, SameLocks DEF registry, maps, objects, kernel, workers
<1> QED BY <1>1, <1>2, <1>3

-----------------------------------------------------------------------------
\* A worker that returns, with or without a lock to release, and removes at
\* most the session whose mutex it holds.
LEMMA LeaveLockInv ==
    ASSUME TypeOK, LockInv, NEW t \in Workers, Return(t),
           Unlock(t) \/ UNCHANGED mutex_,
           UNCHANGED <<fd_table, backlog, peer, socket_, sessions_mutex_>>,
           \A s \in Sockets :
               \/ sessions_by_socket_'[s] = sessions_by_socket_[s]
               \/ /\ sessions_by_socket_'[s] = nullptr
                  /\ s = sock[t]
                  /\ pc[t] \in LockedSteps
    PROVE  LockInv'
<1>1. WorkersTypeOK
      BY DEF TypeOK
<1>2. \A u \in Workers : u # t => /\ pc'[u] = pc[u]
                                  /\ sock'[u] = sock[u]
                                  /\ sess'[u] = sess[u]
      BY <1>1 DEF Return, WorkersTypeOK
<1>3. pc'[t] = "pop"
      BY <1>1 DEF Return, WorkersTypeOK
<1>4. \A c \in Conns : mutex_'[c] = mutex_[c] \/ mutex_[c] \in {t, nullptr}
      BY DEF Unlock
<1> QED BY <1>2, <1>3, <1>4, WorkerKeepsLocks DEF LockedSteps

\* The second step of a task: a worker takes the mutex only if it is free.
LEMMA LockLockInv ==
    ASSUME TypeOK, LockInv, NEW t \in Workers, NEW next \in {"refind", "send"},
           LockSession(t, next)
    PROVE  LockInv'
<1>1. WorkersTypeOK /\ SessionsTypeOK /\ DescriptorsNotReused
      BY DEF TypeOK, LockInv
<1>2. /\ pc[t] = "lock"
      /\ mutex_[sess[t]] = nullptr
      /\ mutex_' = [mutex_ EXCEPT ![sess[t]] = t]
      /\ pc' = [pc EXCEPT ![t] = next]
      /\ UNCHANGED <<sock, sess, registry, socket_, kernel>>
      BY DEF LockSession, Goto
<1>3. sess[t] \in Conns /\ fd_table[sock[t]] = sess[t]
      BY <1>1, <1>2 DEF WorkersTypeOK, DescriptorsNotReused
<1>4. /\ \A u \in Workers : u # t => pc'[u] = pc[u]
      /\ pc'[t] = next
      BY <1>1, <1>2 DEF WorkersTypeOK
<1>5. /\ \A c \in Conns : mutex_'[c] = mutex_[c] \/ mutex_[c] \in {t, nullptr}
      /\ mutex_'[sess[t]] = t
      BY <1>1, <1>2, <1>3 DEF SessionsTypeOK
<1> QED BY <1>2, <1>3, <1>4, <1>5, WorkerKeepsLocks DEF registry, maps, kernel

\* Find, for readers and writers.
LEMMA FindLockInv ==
    ASSUME TypeOK, LockInv, NEW t \in Workers, Find(t)
    PROVE  LockInv'
<1>1. WorkersTypeOK /\ SessionsTypeOK /\ DescriptorsNotReused
      BY DEF TypeOK, LockInv
<1>2. /\ pc[t] = "find"
      /\ UNCHANGED <<registry, objects, kernel>>
      BY DEF Find
<1>3. CASE find_session_by_socket(sock[t]) = nullptr
  <2>1. Return(t)
        BY <1>3 DEF Find
  <2> QED BY <1>2, <2>1, LeaveLockInv DEF registry, maps, objects, kernel
<1>4. CASE find_session_by_socket(sock[t]) # nullptr
  <2>1. /\ sess' = [sess EXCEPT ![t] = sessions_by_socket_[sock[t]]]
        /\ pc' = [pc EXCEPT ![t] = "lock"]
        /\ sock' = sock
        /\ sessions_by_socket_[sock[t]] # nullptr
        BY <1>4 DEF Find, Goto, find_session_by_socket
  <2>2. sock[t] \in Sockets
        BY <1>1, <1>2 DEF WorkersTypeOK
  <2>3. fd_table[sock[t]] = sessions_by_socket_[sock[t]]
        BY <1>1, <2>1, <2>2 DEF DescriptorsNotReused
  <2>4. /\ \A u \in Workers : u # t => pc'[u] = pc[u] /\ sess'[u] = sess[u]
        /\ pc'[t] = "lock"
        /\ sess'[t] = fd_table[sock[t]]
        BY <1>1, <2>1, <2>3 DEF WorkersTypeOK
  <2> QED BY <1>2, <2>1, <2>4, WorkerKeepsLocks
          DEF registry, maps, objects, kernel, LockedSteps
<1> QED BY <1>3, <1>4

\* A reader that goes on from one locked step to another with the same socket
\* and session.
LEMMA ReaderGoesOn ==
    ASSUME TypeOK, LockInv, NEW r \in Readers,
           NEW next \in {"read", "add", "route", "forward", "remove"},
           pc[r] \in {"read", "add", "route", "forward"},
           pc' = [pc EXCEPT ![r] = next],
           UNCHANGED <<fd_table, backlog, peer, socket_, sessions_mutex_,
                       sessions_by_socket_, mutex_, sock, sess>>
    PROVE  LockInv'
<1>1. r \in Workers
      BY DEF Workers
<1>2. WorkersTypeOK /\ DescriptorsNotReused /\ LocksHeld /\ ReaderSessionStable
      BY DEF TypeOK, LockInv
<1>3. /\ fd_table[sock[r]] = sess[r]
      /\ mutex_[sess[r]] = r
      /\ sessions_by_socket_[sock[r]] = sess[r]
      BY <1>1, <1>2 DEF DescriptorsNotReused, ReaderSessionStable
<1>4. /\ \A u \in Workers : u # r => pc'[u] = pc[u]
      /\ pc'[r] = next
      BY <1>1, <1>2 DEF WorkersTypeOK
<1> QED BY <1>1, <1>3, <1>4, WorkerKeepsLocks

\* The read workers keep the invariant.
LEMMA ReaderLockInv ==
    ASSUME TypeOK, LockInv, NEW r \in Readers, Reader(r)
    PROVE  LockInv'
<1> USE DEF registry, maps, objects, kernel
<1>1. r \in Workers
      BY DEF Workers
<1>2. /\ WorkersTypeOK /\ SessionsTypeOK
      /\ DescriptorsNotReused /\ LocksHeld /\ ReaderSessionStable
      BY DEF TypeOK, LockInv
<1>3. CASE ReadPop(r)
  <2>1. /\ pc' = [pc EXCEPT ![r] = "find"]
        /\ sock' = [sock EXCEPT ![r] = Head(ready_read_sockets_queue_)]
        /\ UNCHANGED <<sess, fd_table, backlog, peer, socket_, sessions_mutex_,
                       sessions_by_socket_, mutex_>>
        BY <1>3 DEF ReadPop, Goto
  <2>2. /\ \A u \in Workers : u # r => pc'[u] = pc[u] /\ sock'[u] = sock[u]
        /\ pc'[r] = "find"
        BY <1>1, <1>2, <2>1 DEF WorkersTypeOK
  <2> QED BY <1>1, <2>1, <2>2, WorkerKeepsLocks DEF LockedSteps
<1>4. CASE Find(r)
      BY <1>1, <1>4, FindLockInv
<1>5. CASE ReadLock(r)
      BY <1>1, <1>5, LockLockInv DEF ReadLock
<1>6. CASE Refind(r)
  <2>1. /\ pc[r] = "refind"
        /\ UNCHANGED <<fd_table, backlog, peer, socket_, sessions_mutex_,
                       sessions_by_socket_>>
        BY <1>6 DEF Refind
  <2>2. CASE find_session_by_socket(sock[r]) = nullptr
    <3>1. Unlock(r) /\ Return(r)
          BY <1>6, <2>2 DEF Refind
    <3> QED BY <1>1, <2>1, <3>1, LeaveLockInv
  <2>3. CASE find_session_by_socket(sock[r]) # nullptr
    <3>1. /\ sess' = [sess EXCEPT ![r] = sessions_by_socket_[sock[r]]]
          /\ pc' = [pc EXCEPT ![r] = "read"]
          /\ sock' = sock
          /\ mutex_' = mutex_
          /\ sessions_by_socket_[sock[r]] # nullptr
          BY <1>6, <2>3 DEF Refind, Goto, find_session_by_socket
    <3>2. sock[r] \in Sockets
          BY <1>1, <1>2, <2>1 DEF WorkersTypeOK
    \* the second lookup finds the session that is locked
    <3>3. /\ sessions_by_socket_[sock[r]] = fd_table[sock[r]]
          /\ fd_table[sock[r]] = sess[r]
          /\ mutex_[sess[r]] = r
          BY <1>1, <1>2, <2>1, <3>1, <3>2
             DEF DescriptorsNotReused, LocksHeld, LockedSteps
    <3>4. /\ \A u \in Workers : u # r => pc'[u] = pc[u] /\ sess'[u] = sess[u]
          /\ pc'[r] = "read"
          /\ sess'[r] = sess[r]
          BY <1>1, <1>2, <3>1, <3>3 DEF WorkersTypeOK
    <3> QED BY <1>1, <2>1, <3>1, <3>3, <3>4, WorkerKeepsLocks
  <2> QED BY <2>2, <2>3
<1>7. CASE ReadFull(r)
  <2>1. /\ pc[r] = "read"
        /\ \E next \in {"add", "route"} : pc' = [pc EXCEPT ![r] = next]
        /\ UNCHANGED <<fd_table, backlog, peer, socket_, sessions_mutex_,
                       sessions_by_socket_, mutex_, sock, sess>>
        BY <1>7 DEF ReadFull, Goto
  <2> QED BY <2>1, ReaderGoesOn
<1>8. CASE ReadPartial(r)
      BY <1>8, SameLocks DEF ReadPartial, workers
<1>9. CASE ReadNothing(r)
      BY <1>1, <1>9, LeaveLockInv DEF ReadNothing
<1>10. CASE ReadError(r)
      BY <1>10, ReaderGoesOn DEF ReadError, Goto
<1>11. CASE AddNode(r)
      BY <1>11, ReaderGoesOn DEF AddNode, add_node, Goto
<1>12. CASE Route(r)
  <2>1. /\ pc[r] = "route"
        /\ UNCHANGED <<fd_table, backlog, peer, socket_, sessions_mutex_,
                       sessions_by_socket_>>
        BY <1>12 DEF Route
  <2>2. CASE find_session_by_id(extract_dst_id(msg[r])) = nullptr
    <3>1. Unlock(r) /\ Return(r)
          BY <1>12, <2>2 DEF Route
    <3> QED BY <1>1, <2>1, <3>1, LeaveLockInv
  <2>3. CASE find_session_by_id(extract_dst_id(msg[r])) # nullptr
    <3>1. /\ pc' = [pc EXCEPT ![r] = "forward"]
          /\ UNCHANGED <<sock, sess, mutex_>>
          BY <1>12, <2>3 DEF Route, Goto
    <3> QED BY <2>1, <3>1, ReaderGoesOn
  <2> QED BY <2>2, <2>3
<1>13. CASE Forward(r)
      BY <1>13, ReaderGoesOn DEF Forward, Goto
<1>14. CASE ReadRemove(r)
  <2>1. /\ pc[r] = "remove"
        /\ Unlock(r) /\ Return(r)
        /\ sessions_by_socket_' = [sessions_by_socket_ EXCEPT ![sock[r]] = nullptr]
        /\ UNCHANGED <<fd_table, backlog, peer, socket_, sessions_mutex_>>
        BY <1>14 DEF ReadRemove, RemoveSession, removeSession
  <2>2. \A s \in Sockets : \/ sessions_by_socket_'[s] = sessions_by_socket_[s]
                           \/ /\ sessions_by_socket_'[s] = nullptr
                              /\ s = sock[r]
                              /\ pc[r] \in LockedSteps
        BY <1>2, <2>1 DEF SessionsTypeOK, LockedSteps
  <2> QED BY <1>1, <2>1, <2>2, LeaveLockInv
<1> QED
    BY <1>3, <1>4, <1>5, <1>6, <1>7, <1>8, <1>9, <1>10, <1>11, <1>12, <1>13,
       <1>14
       DEF Reader

\* The write workers keep the invariant, although they do not look the session
\* up again under the lock.
LEMMA WriterLockInv ==
    ASSUME TypeOK, LockInv, NEW w \in Writers, Writer(w)
    PROVE  LockInv'
<1> USE DEF registry, maps, objects, kernel
<1>1. w \in Workers /\ w \notin Readers
      BY RegistryAssumption DEF Workers
<1>2. /\ WorkersTypeOK /\ SessionsTypeOK /\ KernelTypeOK
      /\ DescriptorsNotReused /\ LocksHeld
      BY DEF TypeOK, LockInv
<1>3. CASE WritePop(w)
  <2>1. /\ pc' = [pc EXCEPT ![w] = "find"]
        /\ sock' = [sock EXCEPT ![w] = Head(ready_write_sockets_queue_).socket]
        /\ UNCHANGED <<sess, fd_table, backlog, peer, socket_, sessions_mutex_,
                       sessions_by_socket_, mutex_>>
        BY <1>3 DEF WritePop, Goto
  <2>2. /\ \A u \in Workers : u # w => pc'[u] = pc[u] /\ sock'[u] = sock[u]
        /\ pc'[w] = "find"
        BY <1>1, <1>2, <2>1 DEF WorkersTypeOK
  <2> QED BY <1>1, <2>1, <2>2, WorkerKeepsLocks DEF LockedSteps
<1>4. CASE Find(w)
      BY <1>1, <1>4, FindLockInv
<1>5. CASE WriteLock(w)
      BY <1>1, <1>5, LockLockInv DEF WriteLock
<1>6. CASE SendOk(w)
      BY <1>1, <1>6, LeaveLockInv DEF SendOk
<1>7. CASE SendError(w)
  <2>1. /\ pc[w] = "send"
        /\ pc' = [pc EXCEPT ![w] = "remove"]
        /\ UNCHANGED <<sock, sess, fd_table, backlog, peer, socket_,
                       sessions_mutex_, sessions_by_socket_, mutex_>>
        BY <1>7 DEF SendError, Goto
  <2>2. /\ \A u \in Workers : u # w => pc'[u] = pc[u]
        /\ pc'[w] = "remove"
        BY <1>1, <1>2, <2>1 DEF WorkersTypeOK
  <2>3. fd_table[sock[w]] = sess[w] /\ mutex_[sess[w]] = w
        BY <1>1, <1>2, <2>1 DEF DescriptorsNotReused, LocksHeld, LockedSteps
  <2> QED BY <1>1, <2>1, <2>2, <2>3, WorkerKeepsLocks
<1>8. CASE SendPartial(w)
  <2>1. /\ pc[w] = "send"
        /\ pc' = [pc EXCEPT ![w] = "remove"]
        /\ UNCHANGED <<sock, sess, fd_table, backlog, peer, socket_,
                       sessions_mutex_, sessions_by_socket_, mutex_>>
        BY <1>8 DEF SendPartial, Goto
  <2>2. /\ \A u \in Workers : u # w => pc'[u] = pc[u]
        /\ pc'[w] = "remove"
        BY <1>1, <1>2, <2>1 DEF WorkersTypeOK
  <2>3. fd_table[sock[w]] = sess[w] /\ mutex_[sess[w]] = w
        BY <1>1, <1>2, <2>1 DEF DescriptorsNotReused, LocksHeld, LockedSteps
  <2> QED BY <1>1, <2>1, <2>2, <2>3, WorkerKeepsLocks
<1>9. CASE WriteRemove(w)
  <2>1. /\ pc[w] = "remove"
        /\ Unlock(w) /\ Return(w)
        /\ sessions_by_socket_' =
              [sessions_by_socket_ EXCEPT ![socket_[sess[w]]] = nullptr]
        /\ UNCHANGED <<fd_table, backlog, peer, socket_, sessions_mutex_>>
        BY <1>9 DEF WriteRemove, RemoveSession, removeSession
  \* the session's own socket is the one the task names
  <2>2. socket_[sess[w]] = sock[w]
    <3>1. fd_table[sock[w]] = sess[w] /\ sess[w] \in Conns /\ sock[w] \in Sockets
          BY <1>1, <1>2, <2>1 DEF DescriptorsNotReused, WorkersTypeOK
    <3> QED BY <1>2, <3>1, RegistryAssumption DEF DescriptorsNotReused
  <2>3. \A s \in Sockets : \/ sessions_by_socket_'[s] = sessions_by_socket_[s]
                           \/ /\ sessions_by_socket_'[s] = nullptr
                              /\ s = sock[w]
                              /\ pc[w] \in LockedSteps
        BY <1>2, <2>1, <2>2 DEF SessionsTypeOK, LockedSteps
  <2> QED BY <1>1, <2>1, <2>3, LeaveLockInv
<1> QED BY <1>3, <1>4, <1>5, <1>6, <1>7, <1>8, <1>9 DEF Writer

-----------------------------------------------------------------------------
\* Every step keeps the invariant.
LEMMA NextLockInv == TypeOK /\ LockInv /\ [Next]_vars => LockInv'
<1> SUFFICES ASSUME TypeOK, LockInv, [Next]_vars PROVE LockInv'
    OBVIOUS
<1>1. CASE UNCHANGED vars
      BY <1>1, SameLocks DEF vars, registry, maps, objects, kernel, workers
<1>2. ASSUME NEW c \in Conns, Peer(c) PROVE LockInv'
      BY <1>2, PeerLockInv
<1>3. CASE Listener
      BY <1>3, ListenerLockInv
<1>4. ASSUME NEW r \in Readers, Reader(r) PROVE LockInv'
      BY <1>4, ReaderLockInv
<1>5. ASSUME NEW w \in Writers, Writer(w) PROVE LockInv'
      BY <1>5, WriterLockInv
<1> QED BY <1>1, <1>2, <1>3, <1>4, <1>5 DEF Next

\* The inductive invariant holds for any number of threads, descriptors and
\* connections.
THEOREM LocksAreEffective == SafetySpec => []LockInv
BY InitTypeInv, NextTypeInv, InitLockInv, NextLockInv, PTL DEF SafetySpec

\* No two workers read from or write to the same descriptor at the same time,
\* although the mutex belongs to the Session object and a task names the
\* descriptor only.
THEOREM SocketIOIsExclusive == SafetySpec => []ExclusiveSocketIO
<1>1. LockInv => ExclusiveSocketIO
  <2> SUFFICES ASSUME LockInv, NEW t \in Workers, NEW u \in Workers,
                      pc[t] \in LockedSteps, pc[u] \in LockedSteps,
                      sock[t] = sock[u]
               PROVE  t = u
      BY DEF ExclusiveSocketIO
  <2>1. mutex_[sess[t]] = t /\ mutex_[sess[u]] = u
        BY DEF LockInv, LocksHeld
  <2>2. fd_table[sock[t]] = sess[t] /\ fd_table[sock[u]] = sess[u]
        BY DEF LockInv, DescriptorsNotReused, LockedSteps
  <2> QED BY <2>1, <2>2
<1> QED BY <1>1, LocksAreEffective, PTL

\* The session do_reads() looked up again under its mutex stays registered
\* until that reader removes it.
THEOREM ReaderSessionStays == SafetySpec => []ReaderSessionStable
<1>1. LockInv => ReaderSessionStable
      BY DEF LockInv
<1> QED BY <1>1, LocksAreEffective, PTL

\* accept_client() never calls removeSession() under sessions_mutex_, because
\* the router never closes a descriptor that has a session.
THEOREM RegistryNeverDeadlocks == SafetySpec => []NoSelfDeadlock
<1>1. LockInv => NoSelfDeadlock
      BY DEF LockInv
<1> QED BY <1>1, LocksAreEffective, PTL
=============================================================================
