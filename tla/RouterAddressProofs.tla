------------------------- MODULE RouterAddressProofs -------------------------
(***************************************************************************)
(* For every number of connections, descriptors and threads: a node id     *)
(* only ever leads to the live session registered under it, and a message  *)
(* only reaches the connection registered under the id it names; the three *)
(* containers of the registry agree; a client that has got a part of a     *)
(* message is removed before anybody who looks it up can send it more; and *)
(* from peers that send whole messages, every message arrives at most once *)
(* and, with one write worker, in the order sent.                          *)
(***************************************************************************)
EXTENDS RouterProofs, FiniteSetTheorems

\* The conjuncts of AddressInv.
SocketsKnown == \A c \in Conns : socket_[c] # nullptr => fd_table[socket_[c]] = c

AddsOnce == \A r \in Readers : pc[r] = "add" => id_[sess[r]] = NONE

ForwardsAddressed ==
    \A r \in Readers :
        pc[r] = "forward" => extract_dst_id(msg[r]) \in {id_[dst[r]], NONE}

TasksAddressed ==
    \A i \in DOMAIN ready_write_sockets_queue_ :
        Addressed(ready_write_sockets_queue_[i].socket,
                  ready_write_sockets_queue_[i].msg)

WritersAddressed ==
    \A w \in Writers : pc[w] # "pop" => Addressed(sock[w], msg[w])

\* AddressInv is the conjunction of these parts.
LEMMA AddressParts ==
    AddressInv <=> /\ SocketsKnown /\ AddsOnce /\ IdsResolveToLiveSessions
                   /\ ForwardsAddressed /\ TasksAddressed /\ WritersAddressed
                   /\ NoMisdelivery
BY DEF AddressInv, SocketsKnown, AddsOnce, ForwardsAddressed, TasksAddressed,
       WritersAddressed

\* Before the threads start no session has an id and no message is queued.
LEMMA InitAddressInv == Init => AddressInv
<1> SUFFICES ASSUME Init PROVE AddressInv
    OBVIOUS
<1> USE DEF Init, SessionsInit
<1>1. SocketsKnown /\ IdsResolveToLiveSessions
      BY DEF SocketsKnown, IdsResolveToLiveSessions
<1>2. AddsOnce /\ ForwardsAddressed /\ WritersAddressed
      BY DEF AddsOnce, ForwardsAddressed, WritersAddressed, Workers
<1>3. TasksAddressed /\ NoMisdelivery
      BY EmptySeq DEF TasksAddressed, NoMisdelivery
<1> QED BY <1>1, <1>2, <1>3, AddressParts

\* What an accept does: one fresh descriptor for one connection that had none.
LEMMA AcceptIsFresh ==
    ASSUME TypeOK, LockInv, Accept
    PROVE  \E s \in Sockets, c \in Conns :
               /\ fd_table[s] = nullptr
               /\ sessions_by_socket_[s] = nullptr
               /\ \A u \in Sockets : fd_table[u] # c
               /\ fd_table' = [fd_table EXCEPT ![s] = c]
               /\ sessions_by_socket_' = [sessions_by_socket_ EXCEPT ![s] = c]
               /\ socket_' = [socket_ EXCEPT ![c] = s]
               /\ UNCHANGED <<sessions_by_id_, id_, mutex_, queues, workers, outbox>>
<1>1. backlog # <<>> /\ BacklogIsFresh /\ DescriptorsNotReused
      BY DEF TypeOK, ListenerTypeOK, Accept, LockInv
<1>2. /\ Head(backlog) \in Conns
      /\ \A u \in Sockets : fd_table[u] # Head(backlog)
      BY <1>1, BacklogTail
<1>3. PICK s \in Sockets : /\ fd_table[s] = nullptr
                           /\ fd_table' = [fd_table EXCEPT ![s] = Head(backlog)]
                           /\ accept_client(s, Head(backlog))
      BY DEF Accept, FreeSockets
<1>4. sessions_by_socket_[s] = nullptr
      BY <1>1, <1>3 DEF DescriptorsNotReused
<1>5. /\ sessions_by_socket_' = [sessions_by_socket_ EXCEPT ![s] = Head(backlog)]
      /\ socket_' = [socket_ EXCEPT ![Head(backlog)] = s]
      /\ UNCHANGED <<sessions_by_id_, id_, mutex_, queues, workers, outbox>>
      BY <1>3, <1>4 DEF accept_client, Accept
<1> QED BY <1>2, <1>3, <1>4, <1>5

\* What registration does: it only names the reader's own session, which has
\* no id yet.
LEMMA AddNodeNamesOwn ==
    ASSUME TypeOK, LockInv, AddsOnce, NEW r \in Readers, AddNode(r)
    PROVE  /\ sess[r] \in Conns
           /\ id_[sess[r]] = NONE
           /\ sessions_by_socket_[sock[r]] = sess[r]
           /\ socket_[sess[r]] = sock[r]
           /\ sock[r] \in Sockets
           /\ mutex_[sess[r]] = r
           /\ \/ UNCHANGED <<sessions_by_id_, id_>>
              \/ \E n \in Values :
                    /\ id_' = [id_ EXCEPT ![sess[r]] = n]
                    /\ sessions_by_id_' = [sessions_by_id_ EXCEPT ![n] = sess[r]]
           /\ UNCHANGED <<sessions_by_socket_, socket_>>
<1>1. pc[r] = "add" /\ r \in Workers
      BY DEF AddNode, Workers
<1>2. /\ sess[r] \in Conns /\ sock[r] \in Sockets
      /\ msg[r] \in Seq(Values) /\ Len(msg[r]) = 1
      BY <1>1 DEF TypeOK, WorkersTypeOK, ID_MESSAGE_SIZE
<1>3. sessions_by_socket_[sock[r]] = sess[r] /\ mutex_[sess[r]] = r
      BY <1>1 DEF LockInv, ReaderSessionStable
<1>4. fd_table[sock[r]] = sess[r] /\ sess[r] # nullptr
      BY <1>1, <1>2, RegistryAssumption DEF LockInv, DescriptorsNotReused
<1>5. socket_[sess[r]] = sock[r]
      BY <1>2, <1>4 DEF LockInv, DescriptorsNotReused
<1> DEFINE n == extract_src_id(msg[r])
<1>6. n \in Values
      BY <1>2, ElementOfSeq DEF extract_src_id
<1>7. \/ UNCHANGED <<sessions_by_id_, id_>>
      \/ /\ id_' = [id_ EXCEPT ![sess[r]] = n]
         /\ sessions_by_id_' = [sessions_by_id_ EXCEPT ![n] = sess[r]]
      BY <1>3 DEF AddNode, add_node
<1>8. UNCHANGED <<sessions_by_socket_, socket_>>
      BY DEF AddNode, add_node
<1> QED BY <1>1, <1>2, <1>3, <1>5, <1>6, <1>7, <1>8 DEF AddsOnce

\* What a removal does: the session under the worker's own socket goes.
LEMMA RemovalIsOwn ==
    ASSUME TypeOK, LockInv, NEW t \in Workers,
           (t \in Readers /\ ReadRemove(t)) \/ (t \in Writers /\ WriteRemove(t))
    PROVE  /\ sock[t] \in Sockets
           /\ removeSession(sock[t])
           /\ Return(t)
           /\ UNCHANGED <<kernel, queues>>
<1>1. /\ pc[t] = "remove"
      /\ Return(t)
      /\ UNCHANGED <<kernel, queues>>
      BY DEF ReadRemove, WriteRemove
<1>2. sock[t] \in Sockets /\ sess[t] \in Conns
      BY <1>1 DEF TypeOK, WorkersTypeOK
<1>3. fd_table[sock[t]] = sess[t] /\ sess[t] # nullptr
      BY <1>1, <1>2, RegistryAssumption DEF LockInv, DescriptorsNotReused
<1>4. socket_[sess[t]] = sock[t]
      BY <1>2, <1>3 DEF LockInv, DescriptorsNotReused
<1>5. removeSession(sock[t])
      BY <1>4 DEF ReadRemove, WriteRemove, RemoveSession
<1> QED BY <1>1, <1>2, <1>5

\* The four kinds of steps, as far as the registry is concerned.
LEMMA RegistrySteps ==
    ASSUME [Next]_vars
    PROVE  \/ Accept
           \/ \E r \in Readers : AddNode(r)
           \/ \E r \in Readers : ReadRemove(r)
           \/ \E w \in Writers : WriteRemove(w)
           \/ UNCHANGED <<fd_table, socket_, id_, sessions_by_id_,
                          sessions_by_socket_>>
<1> USE DEF registry, maps, objects, kernel
<1>1. CASE UNCHANGED vars
      BY <1>1 DEF vars
<1>2. ASSUME NEW c \in Conns, Peer(c)
      PROVE  UNCHANGED <<fd_table, socket_, id_, sessions_by_id_,
                         sessions_by_socket_>>
      BY <1>2 DEF Peer, PeerConnect, PeerSend, PeerClose, PeerReset
<1>3. ASSUME Listener, ~ Accept
      PROVE  UNCHANGED <<fd_table, socket_, id_, sessions_by_id_,
                         sessions_by_socket_>>
      BY <1>3 DEF Listener, ResetBegin, ResetEnd, Select, SelectError,
                  AcceptRefused, AcceptError, PushReady
<1>4. ASSUME NEW r \in Readers, Reader(r), ~ AddNode(r), ~ ReadRemove(r)
      PROVE  UNCHANGED <<fd_table, socket_, id_, sessions_by_id_,
                         sessions_by_socket_>>
      BY <1>4 DEF Reader, ReadPop, Find, ReadLock, LockSession, Refind, ReadFull,
                  ReadPartial, ReadNothing, ReadError, Route, Forward
<1>5. ASSUME NEW w \in Writers, Writer(w), ~ WriteRemove(w)
      PROVE  UNCHANGED <<fd_table, socket_, id_, sessions_by_id_,
                         sessions_by_socket_>>
      BY <1>5 DEF Writer, WritePop, Find, WriteLock, LockSession, SendOk, SendError,
                  SendPartial
<1> QED BY <1>1, <1>2, <1>3, <1>4, <1>5 DEF Next

\* An open descriptor keeps its connection, and an id, once given, stays.
LEMMA IdsStay ==
    ASSUME TypeOK, LockInv, AddsOnce, [Next]_vars
    PROVE  /\ \A s \in Sockets : fd_table[s] # nullptr => fd_table'[s] = fd_table[s]
           /\ \A c \in Conns : id_[c] # NONE => id_'[c] = id_[c]
<1> USE DEF kernel
<1>1. /\ fd_table \in [Sockets -> Conns \cup {nullptr}]
      /\ id_ \in [Conns -> Values]
      BY DEF TypeOK, KernelTypeOK, SessionsTypeOK
<1>2. CASE Accept
      BY <1>1, <1>2, AcceptIsFresh
<1>3. ASSUME NEW r \in Readers, AddNode(r)
      PROVE  /\ fd_table' = fd_table
             /\ \A c \in Conns : id_[c] # NONE => id_'[c] = id_[c]
      BY <1>1, <1>3, AddNodeNamesOwn DEF AddNode
<1>4. ASSUME NEW r \in Readers, ReadRemove(r) PROVE UNCHANGED <<fd_table, id_>>
      BY <1>4 DEF ReadRemove, RemoveSession, removeSession
<1>5. ASSUME NEW w \in Writers, WriteRemove(w) PROVE UNCHANGED <<fd_table, id_>>
      BY <1>5 DEF WriteRemove, RemoveSession, removeSession
<1> QED BY <1>2, <1>3, <1>4, <1>5, RegistrySteps

\* So a message that may be sent to a descriptor may be sent to it later.
LEMMA AddressedStays ==
    ASSUME TypeOK, LockInv, AddsOnce, [Next]_vars,
           NEW s \in Sockets, NEW m, Addressed(s, m)
    PROVE  /\ fd_table'[s] # nullptr
           /\ extract_dst_id(m) \in {id_'[fd_table'[s]], NONE}
<1>1. fd_table[s] \in Conns /\ fd_table'[s] = fd_table[s]
      BY IdsStay DEF Addressed, TypeOK, KernelTypeOK
<1> QED BY <1>1, IdsStay DEF Addressed

\* The registry keeps leading to the right sessions.
LEMMA RegistryAddress ==
    ASSUME TypeOK, LockInv, SocketsKnown, AddsOnce, IdsResolveToLiveSessions,
           [Next]_vars
    PROVE  SocketsKnown' /\ IdsResolveToLiveSessions'
<1>1. /\ fd_table \in [Sockets -> Conns \cup {nullptr}]
      /\ id_ \in [Conns -> Values]
      /\ socket_ \in [Conns -> Sockets \cup {nullptr}]
      /\ sessions_by_socket_ \in [Sockets -> Conns \cup {nullptr}]
      /\ sessions_by_id_ \in [Values -> Conns \cup {nullptr}]
      BY DEF TypeOK, KernelTypeOK, SessionsTypeOK
<1>2. CASE Accept
  <2>1. PICK s \in Sockets, c \in Conns :
               /\ fd_table[s] = nullptr
               /\ sessions_by_socket_[s] = nullptr
               /\ \A u \in Sockets : fd_table[u] # c
               /\ fd_table' = [fd_table EXCEPT ![s] = c]
               /\ sessions_by_socket_' = [sessions_by_socket_ EXCEPT ![s] = c]
               /\ socket_' = [socket_ EXCEPT ![c] = s]
               /\ UNCHANGED <<sessions_by_id_, id_>>
        BY <1>2, AcceptIsFresh
  <2>2. SocketsKnown'
        BY <1>1, <2>1, RegistryAssumption DEF SocketsKnown
  <2>3. ASSUME NEW i \in Values \ {NONE}, sessions_by_id_[i] # nullptr
        PROVE  LET d == sessions_by_id_[i] IN
               /\ id_[d] = i
               /\ socket_'[d] # nullptr
               /\ sessions_by_socket_'[socket_'[d]] = d
    <3> DEFINE d == sessions_by_id_[i]
    <3>1. d \in Conns /\ id_[d] = i /\ socket_[d] # nullptr
          /\ sessions_by_socket_[socket_[d]] = d
          BY <1>1, <2>3 DEF IdsResolveToLiveSessions, Registered
    <3>2. socket_[d] \in Sockets /\ fd_table[socket_[d]] = d
          BY <1>1, <3>1 DEF SocketsKnown
    <3>3. d # c /\ socket_[d] # s
          BY <2>1, <3>1, <3>2, RegistryAssumption
    <3> QED BY <1>1, <2>1, <3>1, <3>2, <3>3
  <2> QED BY <2>1, <2>2, <2>3 DEF IdsResolveToLiveSessions, Registered
<1>3. ASSUME NEW r \in Readers, AddNode(r)
      PROVE  SocketsKnown' /\ IdsResolveToLiveSessions'
  <2>1. /\ sess[r] \in Conns /\ id_[sess[r]] = NONE
        /\ sessions_by_socket_[sock[r]] = sess[r]
        /\ socket_[sess[r]] = sock[r] /\ sock[r] \in Sockets
        /\ \/ UNCHANGED <<sessions_by_id_, id_>>
           \/ \E n \in Values :
                 /\ id_' = [id_ EXCEPT ![sess[r]] = n]
                 /\ sessions_by_id_' = [sessions_by_id_ EXCEPT ![n] = sess[r]]
        /\ UNCHANGED <<sessions_by_socket_, socket_>>
        BY <1>3, AddNodeNamesOwn
  <2>2. SocketsKnown'
        BY <1>3, <2>1 DEF SocketsKnown, AddNode, kernel
  <2>3. CASE UNCHANGED <<sessions_by_id_, id_>>
        BY <2>1, <2>2, <2>3 DEF IdsResolveToLiveSessions, Registered
  <2>4. ASSUME NEW n \in Values,
               id_' = [id_ EXCEPT ![sess[r]] = n],
               sessions_by_id_' = [sessions_by_id_ EXCEPT ![n] = sess[r]]
        PROVE  IdsResolveToLiveSessions'
    <3> SUFFICES ASSUME NEW i \in Values \ {NONE}, sessions_by_id_'[i] # nullptr
                 PROVE  LET d == sessions_by_id_'[i] IN
                        id_'[d] = i /\ Registered(d)
        BY <2>1 DEF IdsResolveToLiveSessions, Registered
    <3>1. CASE i = n
      <4>1. sock[r] # nullptr
            BY <2>1, RegistryAssumption
      <4> QED BY <1>1, <2>1, <2>4, <3>1, <4>1 DEF Registered
    <3>2. CASE i # n
      <4>1. sessions_by_id_'[i] = sessions_by_id_[i]
            BY <1>1, <2>4, <3>2
      <4>2. id_[sessions_by_id_[i]] = i /\ Registered(sessions_by_id_[i])
            BY <4>1 DEF IdsResolveToLiveSessions
      <4>3. sessions_by_id_[i] # sess[r]
            BY <2>1, <4>2
      <4> QED BY <1>1, <2>4, <4>1, <4>2, <4>3
    <3> QED BY <3>1, <3>2
  <2> QED BY <2>1, <2>2, <2>3, <2>4
<1>4. ASSUME NEW t \in Workers,
             (t \in Readers /\ ReadRemove(t)) \/ (t \in Writers /\ WriteRemove(t))
      PROVE  SocketsKnown' /\ IdsResolveToLiveSessions'
  <2>1. sock[t] \in Sockets /\ removeSession(sock[t]) /\ UNCHANGED kernel
        BY <1>4, RemovalIsOwn
  <2> DEFINE gone == sessions_by_socket_[sock[t]]
  <2>2. /\ sessions_by_socket_' = [sessions_by_socket_ EXCEPT ![sock[t]] = nullptr]
        /\ sessions_by_id_' =
              IF gone # nullptr /\ id_[gone] # NONE
              THEN [sessions_by_id_ EXCEPT ![id_[gone]] = nullptr]
              ELSE sessions_by_id_
        /\ UNCHANGED <<socket_, id_, fd_table>>
        BY <2>1 DEF removeSession, kernel
  <2>3. SocketsKnown'
        BY <2>2 DEF SocketsKnown
  <2>4. ASSUME NEW i \in Values \ {NONE}, sessions_by_id_'[i] # nullptr
        PROVE  LET d == sessions_by_id_'[i] IN
               /\ id_[d] = i
               /\ socket_[d] # nullptr
               /\ sessions_by_socket_'[socket_[d]] = d
    <3>1. sessions_by_id_'[i] = sessions_by_id_[i]
          BY <1>1, <2>2, <2>4
    <3> DEFINE d == sessions_by_id_[i]
    <3>2. /\ d \in Conns /\ id_[d] = i /\ socket_[d] # nullptr
          /\ sessions_by_socket_[socket_[d]] = d
          BY <1>1, <2>4, <3>1 DEF IdsResolveToLiveSessions, Registered
    \* had d been the session that goes, its entry would have gone with it
    <3>3. socket_[d] # sock[t]
      <4> SUFFICES ASSUME socket_[d] = sock[t] PROVE FALSE
          OBVIOUS
      <4>1. gone = d /\ id_[gone] # NONE /\ gone # nullptr
            BY <3>2, RegistryAssumption
      <4>2. sessions_by_id_' = [sessions_by_id_ EXCEPT ![i] = nullptr]
            BY <2>2, <3>2, <4>1
      <4> QED BY <1>1, <2>4, <4>2
    <3> QED BY <1>1, <2>2, <3>1, <3>2, <3>3
  <2> QED BY <2>2, <2>3, <2>4 DEF IdsResolveToLiveSessions, Registered
<1>5. CASE UNCHANGED <<fd_table, socket_, id_, sessions_by_id_, sessions_by_socket_>>
      BY <1>5 DEF SocketsKnown, IdsResolveToLiveSessions, Registered
<1> QED BY <1>2, <1>3, <1>4, <1>5, RegistrySteps DEF Workers

-----------------------------------------------------------------------------
\* A worker's locals as another worker's step leaves them.
SameLocals(u) ==
    /\ pc'[u] = pc[u] /\ sock'[u] = sock[u] /\ sess'[u] = sess[u]
    /\ msg'[u] = msg[u] /\ dst'[u] = dst[u]

\* What a step of a read worker may do to the locals and the write queue.
LEMMA ReaderStep ==
    ASSUME TypeOK, NEW r \in Readers, Reader(r)
    PROVE  /\ \A u \in Workers : u # r => SameLocals(u)
           /\ pc'[r] \in {"add", "route"} => ReadFull(r)
           /\ pc'[r] = "forward" => Route(r)
           /\ outbox' = outbox
           /\ ready_write_sockets_queue_' = ready_write_sockets_queue_ \/ Forward(r)
<1> USE DEF kernel, queues, SameLocals
<1>1. r \in Workers /\ WorkersTypeOK
      BY DEF Workers, TypeOK
<1>2. ASSUME Return(r)
      PROVE  /\ \A u \in Workers : u # r => SameLocals(u)
             /\ pc'[r] = "pop"
      BY <1>1, <1>2 DEF Return, WorkersTypeOK
<1>3. CASE ReadPop(r)
      BY <1>1, <1>3 DEF ReadPop, Goto, WorkersTypeOK
<1>4. CASE Find(r)
  <2>1. CASE Return(r)
        BY <1>2, <1>4, <2>1 DEF Find
  <2>2. CASE ~ Return(r)
        BY <1>1, <1>4, <2>2 DEF Find, Goto, WorkersTypeOK
  <2> QED BY <2>1, <2>2
<1>5. CASE ReadLock(r)
      BY <1>1, <1>5 DEF ReadLock, LockSession, Goto, WorkersTypeOK
<1>6. CASE Refind(r)
  <2>1. CASE Return(r)
        BY <1>2, <1>6, <2>1 DEF Refind
  <2>2. CASE ~ Return(r)
        BY <1>1, <1>6, <2>2 DEF Refind, Goto, WorkersTypeOK
  <2> QED BY <2>1, <2>2
<1>7. CASE ReadFull(r)
      BY <1>1, <1>7 DEF ReadFull, Goto, WorkersTypeOK
<1>8. CASE ReadPartial(r)
      BY <1>1, <1>8 DEF ReadPartial, workers
<1>9. CASE ReadNothing(r)
      BY <1>2, <1>9 DEF ReadNothing
<1>10. CASE ReadError(r)
      BY <1>1, <1>10 DEF ReadError, Goto, WorkersTypeOK
<1>11. CASE AddNode(r)
      BY <1>1, <1>11 DEF AddNode, Goto, WorkersTypeOK
<1>12. CASE Route(r)
  <2>1. CASE Return(r)
        BY <1>2, <1>12, <2>1 DEF Route
  <2>2. CASE ~ Return(r)
        BY <1>1, <1>12, <2>2 DEF Route, Goto, WorkersTypeOK
  <2> QED BY <2>1, <2>2
<1>13. CASE Forward(r)
      BY <1>1, <1>13 DEF Forward, Goto, WorkersTypeOK
<1>14. CASE ReadRemove(r)
      BY <1>2, <1>14 DEF ReadRemove
<1> QED
    BY <1>3, <1>4, <1>5, <1>6, <1>7, <1>8, <1>9, <1>10, <1>11, <1>12, <1>13,
       <1>14
       DEF Reader

\* What a step of a write worker may do to the locals, the write queue and the
\* messages sent.
LEMMA WriterStep ==
    ASSUME TypeOK, NEW w \in Writers, Writer(w)
    PROVE  /\ \A u \in Workers : u # w => SameLocals(u)
           /\ pc'[w] # "pop" => \/ WritePop(w)
                                \/ /\ pc[w] # "pop"
                                   /\ sock'[w] = sock[w]
                                   /\ msg'[w] = msg[w]
           /\ outbox' = outbox \/ SendOk(w) \/ SendPartial(w)
           /\ ready_write_sockets_queue_' = ready_write_sockets_queue_ \/ WritePop(w)
<1> USE DEF kernel, queues, SameLocals
<1>1. w \in Workers /\ WorkersTypeOK
      BY DEF Workers, TypeOK
<1>2. ASSUME Return(w)
      PROVE  /\ \A u \in Workers : u # w => SameLocals(u)
             /\ pc'[w] = "pop"
      BY <1>1, <1>2 DEF Return, WorkersTypeOK
<1>3. CASE WritePop(w)
      BY <1>1, <1>3 DEF WritePop, Goto, WorkersTypeOK
<1>4. CASE Find(w)
  <2>1. CASE Return(w)
        BY <1>2, <1>4, <2>1 DEF Find
  <2>2. CASE ~ Return(w)
        BY <1>1, <1>4, <2>2 DEF Find, Goto, WorkersTypeOK
  <2> QED BY <2>1, <2>2
<1>5. CASE WriteLock(w)
      BY <1>1, <1>5 DEF WriteLock, LockSession, Goto, WorkersTypeOK
<1>6. CASE SendOk(w)
      BY <1>2, <1>6 DEF SendOk
<1>7. CASE SendError(w)
      BY <1>1, <1>7 DEF SendError, Goto, WorkersTypeOK
<1>8. CASE SendPartial(w)
      BY <1>1, <1>8 DEF SendPartial, Goto, WorkersTypeOK
<1>9. CASE WriteRemove(w)
      BY <1>2, <1>9 DEF WriteRemove
<1> QED BY <1>3, <1>4, <1>5, <1>6, <1>7, <1>8, <1>9 DEF Writer

\* The other steps touch neither the locals nor the write queue nor what was
\* sent nor the ids.
LEMMA OtherStep ==
    ASSUME [Next]_vars
    PROVE  \/ UNCHANGED <<workers, ready_write_sockets_queue_, outbox, id_>>
           \/ \E r \in Readers : Reader(r)
           \/ \E w \in Writers : Writer(w)
<1> USE DEF registry, objects, kernel, queues
<1>1. CASE UNCHANGED vars
      BY <1>1 DEF vars
<1>2. ASSUME NEW c \in Conns, Peer(c)
      PROVE  UNCHANGED <<workers, ready_write_sockets_queue_, outbox, id_>>
      BY <1>2 DEF Peer, PeerConnect, PeerSend, PeerClose, PeerReset
<1>3. CASE Listener
      BY <1>3 DEF Listener, ResetBegin, ResetEnd, Select, SelectError, Accept,
                  AcceptRefused, AcceptError, PushReady, accept_client
<1> QED BY <1>1, <1>2, <1>3 DEF Next

\* A session that is about to get its id has none: only the holder of its
\* mutex gives it one.
LEMMA NextAddsOnce ==
    ASSUME TypeOK, LockInv, AddsOnce, [Next]_vars
    PROVE  AddsOnce'
<1> SUFFICES ASSUME NEW u \in Readers, pc'[u] = "add"
             PROVE  id_'[sess'[u]] = NONE
    BY DEF AddsOnce
<1>1. u \in Workers /\ \A v \in Readers : v \in Workers
      BY DEF Workers
<1>2. CASE UNCHANGED <<workers, ready_write_sockets_queue_, outbox, id_>>
      BY <1>2 DEF AddsOnce, workers
<1>3. ASSUME NEW r \in Readers, Reader(r)
      PROVE  id_'[sess'[u]] = NONE
  <2>1. CASE u = r
    <3>1. ReadFull(r)
          BY <1>3, <2>1, ReaderStep
    <3>2. UNCHANGED <<sess, id_>>
          BY <3>1 DEF ReadFull, objects
    <3>3. pc' = [pc EXCEPT ![r] = IF id_[sess[r]] = NONE THEN "add" ELSE "route"]
          BY <3>1 DEF ReadFull, Goto
    <3>4. id_[sess[r]] = NONE
          BY <1>1, <2>1, <3>3 DEF TypeOK, WorkersTypeOK
    <3> QED BY <2>1, <3>2, <3>4
  <2>2. CASE u # r
    <3>1. pc[u] = "add" /\ sess'[u] = sess[u]
          BY <1>1, <1>3, <2>2, ReaderStep DEF SameLocals
    <3>2. id_[sess[u]] = NONE /\ mutex_[sess[u]] = u /\ sess[u] \in Conns
          BY <1>1, <3>1
             DEF AddsOnce, LockInv, ReaderSessionStable, TypeOK,
                 WorkersTypeOK
    <3>3. CASE AddNode(r)
      <4>1. /\ sess[r] \in Conns /\ mutex_[sess[r]] = r
            /\ \/ id_' = id_
               \/ \E n \in Values : id_' = [id_ EXCEPT ![sess[r]] = n]
            BY <3>3, AddNodeNamesOwn
      <4>2. sess[u] # sess[r]
            BY <2>2, <3>2, <4>1
      <4>3. id_ \in [Conns -> Values]
            BY DEF TypeOK, SessionsTypeOK
      <4> QED BY <3>1, <3>2, <4>1, <4>2, <4>3
    <3>4. CASE ~ AddNode(r)
      <4>1. id_' = id_
            BY <1>3, <3>4
               DEF Reader, ReadPop, Find, ReadLock, LockSession, Refind, ReadFull,
                   ReadPartial, ReadNothing, ReadError, Route, Forward, ReadRemove,
                   RemoveSession, removeSession, objects
      <4> QED BY <3>1, <3>2, <4>1
    <3> QED BY <3>3, <3>4
  <2> QED BY <2>1, <2>2
<1>4. ASSUME NEW w \in Writers, Writer(w)
      PROVE  id_'[sess'[u]] = NONE
  <2>1. u # w
        BY RegistryAssumption
  <2>2. pc[u] = "add" /\ sess'[u] = sess[u]
        BY <1>1, <1>4, <2>1, WriterStep DEF SameLocals
  <2>3. id_' = id_
        BY <1>4 DEF Writer, WritePop, Find, WriteLock, LockSession, SendOk,
                    SendError, SendPartial, WriteRemove, RemoveSession,
                    removeSession, objects
  <2> QED BY <2>2, <2>3 DEF AddsOnce
<1> QED BY <1>2, <1>3, <1>4, OtherStep

\* The session a reader forwards to is the one its message names.
LEMMA NextForwards ==
    ASSUME TypeOK, LockInv, AddsOnce, IdsResolveToLiveSessions,
           ForwardsAddressed, [Next]_vars
    PROVE  ForwardsAddressed'
<1> SUFFICES ASSUME NEW u \in Readers, pc'[u] = "forward"
             PROVE  extract_dst_id(msg'[u]) \in {id_'[dst'[u]], NONE}
    BY DEF ForwardsAddressed, extract_dst_id
<1>1. u \in Workers /\ \A v \in Readers : v \in Workers
      BY DEF Workers
<1>2. ASSUME pc[u] = "forward", msg'[u] = msg[u], dst'[u] = dst[u]
      PROVE  extract_dst_id(msg'[u]) \in {id_'[dst'[u]], NONE}
  <2>1. dst[u] \in Conns
        BY <1>1, <1>2 DEF TypeOK, WorkersTypeOK
  <2> QED BY <1>2, <2>1, IdsStay DEF ForwardsAddressed
<1>3. CASE UNCHANGED <<workers, ready_write_sockets_queue_, outbox, id_>>
      BY <1>2, <1>3 DEF workers
<1>4. ASSUME NEW r \in Readers, Reader(r)
      PROVE  extract_dst_id(msg'[u]) \in {id_'[dst'[u]], NONE}
  <2>1. CASE u # r
        BY <1>1, <1>2, <1>4, <2>1, ReaderStep DEF SameLocals
  <2>2. CASE u = r
    <3>1. Route(r)
          BY <1>4, <2>2, ReaderStep
    <3>2. ~ Return(r)
      <4>1. pc'[r] = "forward" /\ pc \in [Workers -> ReaderSteps \cup WriterSteps]
            BY <2>2 DEF TypeOK, WorkersTypeOK
      <4> QED BY <1>1, <4>1 DEF Return
    <3> DEFINE n == extract_dst_id(msg[r])
    <3>3. /\ sessions_by_id_[n] # nullptr
          /\ dst' = [dst EXCEPT ![r] = sessions_by_id_[n]]
          /\ UNCHANGED <<msg, id_>>
          BY <3>1, <3>2 DEF Route, find_session_by_id
    <3>4. n \in Values
      <4>1. msg[r] \in Seq(Values) /\ Len(msg[r]) = 3
            BY <1>1, <3>1 DEF Route, TypeOK, WorkersTypeOK, DATA_MESSAGE_SIZE
      <4> QED BY <4>1, ElementOfSeq DEF extract_dst_id, DATA_MESSAGE_SIZE
    <3>5. n # NONE => id_[sessions_by_id_[n]] = n
          BY <3>3, <3>4 DEF IdsResolveToLiveSessions
    <3>6. dst'[r] = sessions_by_id_[n]
          BY <1>1, <3>3 DEF TypeOK, WorkersTypeOK
    <3> QED BY <2>2, <3>3, <3>5, <3>6
  <2> QED BY <2>1, <2>2
<1>5. ASSUME NEW w \in Writers, Writer(w)
      PROVE  extract_dst_id(msg'[u]) \in {id_'[dst'[u]], NONE}
  <2>1. u # w
        BY RegistryAssumption
  <2> QED BY <1>1, <1>2, <1>5, <2>1, WriterStep DEF SameLocals
<1> QED BY <1>3, <1>4, <1>5, OtherStep

\* The tasks in the write queue name the descriptor of the addressee.
LEMMA NextTasks ==
    ASSUME TypeOK, LockInv, SocketsKnown, AddsOnce, ForwardsAddressed,
           TasksAddressed, [Next]_vars
    PROVE  TasksAddressed'
<1> DEFINE q == ready_write_sockets_queue_
<1>1. q \in Seq(Tasks)
      BY DEF TypeOK, QueuesTypeOK
<1>2. /\ DOMAIN q = 1 .. Len(q) /\ Len(q) \in Nat
      /\ \A i \in 1 .. Len(q) : q[i].socket \in Sockets
  <2> HIDE DEF q
  <2>1. DOMAIN q = 1 .. Len(q) /\ Len(q) \in Nat
        BY <1>1, LenProperties
  <2>2. \A i \in 1 .. Len(q) : q[i] \in Tasks
        BY <1>1, ElementOfSeq
  <2> QED BY <2>1, <2>2 DEF Tasks
<1>3. \A i \in 1 .. Len(q) :
         /\ fd_table'[q[i].socket] # nullptr
         /\ extract_dst_id(q[i].msg) \in {id_'[fd_table'[q[i].socket]], NONE}
      BY <1>2, AddressedStays DEF TasksAddressed
<1>4. CASE q' = q
      BY <1>2, <1>3, <1>4 DEF TasksAddressed, Addressed, extract_dst_id
<1>5. ASSUME NEW r \in Readers, Forward(r)
      PROVE  TasksAddressed'
  <2>1. pc[r] = "forward" /\ dst[r] \in Conns /\ r \in Workers
        BY <1>5 DEF Forward, TypeOK, WorkersTypeOK, Workers
  <2>2. socket_[dst[r]] # nullptr
        BY <2>1, RegistryAssumption DEF TypeOK, SessionsHaveSockets
  <2>3. fd_table[socket_[dst[r]]] = dst[r] /\ dst[r] # nullptr
        BY <2>1, <2>2, RegistryAssumption DEF SocketsKnown
  <2>4. /\ socket_[dst[r]] \in Sockets
        /\ msg[r] \in Seq(Values) /\ Len(msg[r]) = DATA_MESSAGE_SIZE
        BY <2>1, <2>2 DEF TypeOK, SessionsTypeOK, WorkersTypeOK
  <2> DEFINE task == [socket |-> socket_[dst[r]], msg |-> msg[r]]
  <2>5. task \in Tasks /\ q' = Append(q, task) /\ UNCHANGED <<fd_table, id_>>
        BY <1>5, <2>4 DEF Forward, Tasks, kernel, objects
  <2>6. /\ fd_table[task.socket] # nullptr
        /\ extract_dst_id(task.msg) \in {id_[fd_table[task.socket]], NONE}
        BY <2>1, <2>3 DEF ForwardsAddressed
  <2> HIDE DEF task
  <2>7. /\ DOMAIN q' = 1 .. Len(q) + 1
        /\ \A i \in 1 .. Len(q) : q'[i] = q[i]
        /\ q'[Len(q) + 1] = task
        BY <1>1, <2>5, AppendProperties, LenProperties
  <2>8. \A i \in DOMAIN q' :
           /\ fd_table'[q'[i].socket] # nullptr
           /\ extract_dst_id(q'[i].msg) \in {id_'[fd_table'[q'[i].socket]], NONE}
        BY <1>2, <1>3, <2>5, <2>6, <2>7
  <2> QED BY <2>8 DEF TasksAddressed, Addressed, extract_dst_id
<1>6. ASSUME NEW w \in Writers, WritePop(w)
      PROVE  TasksAddressed'
  <2>1. q # <<>> /\ q' = Tail(q)
        BY <1>6 DEF WritePop
  <2>2. /\ q' \in Seq(Tasks)
        /\ Len(q') = Len(q) - 1
        /\ \A i \in 1 .. Len(q') : q'[i] = q[i + 1]
        BY <1>1, <2>1, HeadTailProperties
  <2>3. DOMAIN q' = 1 .. Len(q) - 1
        BY <2>2, LenProperties
  <2>4. \A i \in DOMAIN q' :
           /\ fd_table'[q'[i].socket] # nullptr
           /\ extract_dst_id(q'[i].msg) \in {id_'[fd_table'[q'[i].socket]], NONE}
        BY <1>2, <1>3, <2>2, <2>3
  <2> QED BY <2>4 DEF TasksAddressed, Addressed, extract_dst_id
<1> QED BY <1>4, <1>5, <1>6, OtherStep, ReaderStep, WriterStep

\* So do the tasks the write workers execute.
LEMMA NextWriters ==
    ASSUME TypeOK, LockInv, AddsOnce, TasksAddressed, WritersAddressed,
           [Next]_vars
    PROVE  WritersAddressed'
<1> SUFFICES ASSUME NEW u \in Writers, pc'[u] # "pop"
             PROVE  /\ fd_table'[sock'[u]] # nullptr
                    /\ extract_dst_id(msg'[u]) \in {id_'[fd_table'[sock'[u]]], NONE}
    BY DEF WritersAddressed, Addressed, extract_dst_id
<1>1. u \in Workers /\ \A v \in Writers : v \in Workers
      BY DEF Workers
<1>2. ASSUME pc[u] # "pop", sock'[u] = sock[u], msg'[u] = msg[u]
      PROVE  /\ fd_table'[sock'[u]] # nullptr
             /\ extract_dst_id(msg'[u]) \in {id_'[fd_table'[sock'[u]]], NONE}
  <2>1. sock[u] \in Sockets /\ Addressed(sock[u], msg[u])
        BY <1>1, <1>2 DEF TypeOK, WorkersTypeOK, WritersAddressed
  <2> QED BY <1>2, <2>1, AddressedStays
<1>3. CASE UNCHANGED <<workers, ready_write_sockets_queue_, outbox, id_>>
      BY <1>2, <1>3 DEF workers
<1>4. CASE \E r \in Readers : Reader(r)
  <2>1. PICK r \in Readers : Reader(r)
        BY <1>4
  <2>2. u # r
        BY RegistryAssumption
  <2> QED BY <1>1, <1>2, <2>1, <2>2, ReaderStep DEF SameLocals
<1>5. ASSUME NEW w \in Writers, Writer(w)
      PROVE  /\ fd_table'[sock'[u]] # nullptr
             /\ extract_dst_id(msg'[u]) \in {id_'[fd_table'[sock'[u]]], NONE}
  <2>1. CASE u # w
        BY <1>1, <1>2, <1>5, <2>1, WriterStep DEF SameLocals
  <2>2. CASE u = w /\ ~ WritePop(w)
        BY <1>2, <1>5, <2>2, WriterStep
  <2>3. CASE u = w /\ WritePop(w)
    <3> DEFINE q == ready_write_sockets_queue_
    <3>1. q \in Seq(Tasks) /\ q # <<>>
          BY <2>3 DEF WritePop, TypeOK, QueuesTypeOK
    <3>2. Head(q) = q[1] /\ 1 \in DOMAIN q /\ Head(q) \in Tasks
          BY <3>1, HeadTailProperties, LenProperties, EmptySeq
    <3>3. Addressed(Head(q).socket, Head(q).msg) /\ Head(q).socket \in Sockets
          BY <3>2 DEF TasksAddressed, Tasks
    <3>4. /\ sock' = [sock EXCEPT ![w] = Head(q).socket]
          /\ msg' = [msg EXCEPT ![w] = Head(q).msg]
          BY <2>3 DEF WritePop
    <3>5. sock'[u] = Head(q).socket /\ msg'[u] = Head(q).msg
          BY <1>1, <2>3, <3>4 DEF TypeOK, WorkersTypeOK
    <3> QED BY <3>3, <3>5, AddressedStays
  <2> QED BY <2>1, <2>2, <2>3
<1> QED BY <1>3, <1>4, <1>5, OtherStep

\* What was sent was sent to the addressee, and still is after the step.
LEMMA NextDelivery ==
    ASSUME TypeOK, LockInv, AddsOnce, WritersAddressed, NoMisdelivery, [Next]_vars
    PROVE  NoMisdelivery'
<1>1. \A c \in Conns : \A i \in DOMAIN outbox[c] :
         Len(outbox[c][i]) = DATA_MESSAGE_SIZE =>
             extract_dst_id(outbox[c][i]) \in {id_'[c], NONE}
      BY IdsStay DEF NoMisdelivery
<1>2. CASE outbox' = outbox
      BY <1>1, <1>2 DEF NoMisdelivery, extract_dst_id, DATA_MESSAGE_SIZE
\* a write worker sends its message, or something shorter
<1>3. ASSUME NEW w \in Writers, NEW text \in Seq(Values), pc[w] = "send",
             Behind(w) # nullptr, id_' = id_,
             outbox' = [outbox EXCEPT ![Behind(w)] = Append(@, text)],
             Len(text) = DATA_MESSAGE_SIZE => text = msg[w]
      PROVE  NoMisdelivery'
  <2>1. w \in Workers /\ sock[w] \in Sockets
        BY <1>3 DEF TypeOK, WorkersTypeOK, Workers
  <2> DEFINE d == fd_table[sock[w]]
  <2>2. /\ d \in Conns
        /\ outbox \in [Conns -> Seq(Seq(Values))]
        /\ extract_dst_id(msg[w]) \in {id_[d], NONE}
        BY <1>3, <2>1
           DEF Behind, WritersAddressed, Addressed, TypeOK, KernelTypeOK
  <2>3. outbox' = [outbox EXCEPT ![d] = Append(outbox[d], text)]
        BY <1>3 DEF Behind
  <2> HIDE DEF d
  <2>4. outbox[d] \in Seq(Seq(Values))
        BY <2>2
  <2>5. /\ DOMAIN outbox[d] = 1 .. Len(outbox[d]) /\ Len(outbox[d]) \in Nat
        /\ outbox'[d] = Append(outbox[d], text)
        /\ DOMAIN outbox'[d] = 1 .. Len(outbox[d]) + 1
        /\ \A i \in 1 .. Len(outbox[d]) : outbox'[d][i] = outbox[d][i]
        /\ outbox'[d][Len(outbox[d]) + 1] = text
        BY <1>3, <2>2, <2>3, <2>4, AppendProperties, LenProperties
  <2>6. \A i \in DOMAIN outbox'[d] :
           Len(outbox'[d][i]) = DATA_MESSAGE_SIZE =>
               extract_dst_id(outbox'[d][i]) \in {id_'[d], NONE}
        BY <1>1, <1>3, <2>2, <2>5
  <2>7. \A c \in Conns : c # d => outbox'[c] = outbox[c]
        BY <2>2, <2>3
  <2>8. \A c \in Conns : \A i \in DOMAIN outbox'[c] :
           Len(outbox'[c][i]) = DATA_MESSAGE_SIZE =>
               extract_dst_id(outbox'[c][i]) \in {id_'[c], NONE}
        BY <1>1, <2>6, <2>7
  <2> QED BY <2>8 DEF NoMisdelivery, extract_dst_id, DATA_MESSAGE_SIZE
<1>4. \A w \in Writers : w \in Workers
      BY DEF Workers
<1>5. ASSUME NEW w \in Writers, SendOk(w)
      PROVE  NoMisdelivery'
  <2>1. msg[w] \in Seq(Values)
        BY <1>4 DEF TypeOK, WorkersTypeOK
  <2> QED BY <1>3, <1>5, <2>1 DEF SendOk
<1>6. ASSUME NEW w \in Writers, SendPartial(w)
      PROVE  NoMisdelivery'
  <2>1. msg[w] \in Seq(Values) /\ Len(msg[w]) = 3
        BY <1>4, <1>6
           DEF SendPartial, TypeOK, WorkersTypeOK, DATA_MESSAGE_SIZE
  <2>2. PICK n \in 1 .. Len(msg[w]) - 1 :
           outbox' = [outbox EXCEPT ![Behind(w)] =
                         Append(@, SubSeq(msg[w], 1, n))]
        BY <1>6 DEF SendPartial
  <2> DEFINE text == SubSeq(msg[w], 1, n)
  <2>3. text \in Seq(Values) /\ Len(text) # DATA_MESSAGE_SIZE
        BY <2>1, <2>2 DEF DATA_MESSAGE_SIZE
  <2>4. pc[w] = "send" /\ Behind(w) # nullptr /\ id_' = id_
        BY <1>6 DEF SendPartial, objects
  <2> HIDE DEF text
  <2> QED BY <1>3, <2>2, <2>3, <2>4 DEF text
<1> QED BY <1>2, <1>5, <1>6, OtherStep, ReaderStep, WriterStep

-----------------------------------------------------------------------------
\* AddressInv holds for any number of threads, descriptors and connections.
THEOREM AddressesAreRight == SafetySpec => []AddressInv
<1>1. TypeOK /\ LockInv /\ AddressInv /\ [Next]_vars => AddressInv'
  <2> SUFFICES ASSUME TypeOK, LockInv, AddressInv, [Next]_vars
               PROVE  AddressInv'
      OBVIOUS
  <2>1. /\ SocketsKnown /\ AddsOnce /\ IdsResolveToLiveSessions
        /\ ForwardsAddressed /\ TasksAddressed /\ WritersAddressed /\ NoMisdelivery
        BY AddressParts
  <2>2. SocketsKnown' /\ IdsResolveToLiveSessions'
        BY <2>1, RegistryAddress
  <2>3. AddsOnce' /\ ForwardsAddressed'
        BY <2>1, NextAddsOnce, NextForwards
  <2>4. TasksAddressed' /\ WritersAddressed' /\ NoMisdelivery'
        BY <2>1, NextTasks, NextWriters, NextDelivery
  <2> QED BY <2>2, <2>3, <2>4
          DEF AddressInv, SocketsKnown, AddsOnce, ForwardsAddressed,
              TasksAddressed, WritersAddressed
<1> QED
    BY <1>1, InitTypeInv, NextTypeInv, InitLockInv, NextLockInv, InitAddressInv, PTL
       DEF SafetySpec

\* A message is only ever sent to a connection registered under the id the
\* message names, although do_writes() does not check the session again after
\* it has waited for the mutex.
THEOREM NothingIsMisdelivered == SafetySpec => []NoMisdelivery
<1>1. AddressInv => NoMisdelivery
      BY DEF AddressInv
<1> QED BY <1>1, AddressesAreRight, PTL

\* A node id only leads to a session that is still registered, under that id.
THEOREM IdsLeadToLiveSessions == SafetySpec => []IdsResolveToLiveSessions
<1>1. AddressInv => IdsResolveToLiveSessions
      BY DEF AddressInv
<1> QED BY <1>1, AddressesAreRight, PTL

-----------------------------------------------------------------------------
\* The list of watched sockets and the map of sessions.
ListAgrees ==
    /\ ToSet(accepted_clients_) =
          {s \in Sockets : sessions_by_socket_[s] # nullptr}
    /\ IsInjective(accepted_clients_)

\* The rest of ContainersAgree: a session is stored under its socket, which is
\* known, and under its id.
LEMMA AgreementParts ==
    ASSUME DescriptorsNotReused, ListAgrees, OwnIdResolves
    PROVE  ContainersAgree
BY DEF ContainersAgree, ListAgrees, DescriptorsNotReused

\* The registry is empty before the threads start.
LEMMA InitListAgrees == Init => ListAgrees
BY DEF Init, SessionsInit, ListAgrees, ToSet, IsInjective

\* The steps that change the list or the map are the accept and the removals.
LEMMA ListSteps ==
    ASSUME [Next]_vars
    PROVE  \/ Accept
           \/ \E r \in Readers : ReadRemove(r)
           \/ \E w \in Writers : WriteRemove(w)
           \/ UNCHANGED <<accepted_clients_, sessions_by_socket_>>
<1> USE DEF registry, maps
<1>1. CASE UNCHANGED vars
      BY <1>1 DEF vars
<1>2. ASSUME NEW c \in Conns, Peer(c)
      PROVE  UNCHANGED <<accepted_clients_, sessions_by_socket_>>
      BY <1>2 DEF Peer, PeerConnect, PeerSend, PeerClose, PeerReset
<1>3. ASSUME Listener, ~ Accept
      PROVE  UNCHANGED <<accepted_clients_, sessions_by_socket_>>
      BY <1>3 DEF Listener, ResetBegin, ResetEnd, Select, SelectError,
                  AcceptRefused, AcceptError, PushReady
<1>4. ASSUME NEW r \in Readers, Reader(r), ~ ReadRemove(r)
      PROVE  UNCHANGED <<accepted_clients_, sessions_by_socket_>>
      BY <1>4 DEF Reader, ReadPop, Find, ReadLock, LockSession, Refind, ReadFull,
                  ReadPartial, ReadNothing, ReadError, Route, Forward, AddNode,
                  add_node
<1>5. ASSUME NEW w \in Writers, Writer(w), ~ WriteRemove(w)
      PROVE  UNCHANGED <<accepted_clients_, sessions_by_socket_>>
      BY <1>5 DEF Writer, WritePop, Find, WriteLock, LockSession, SendOk, SendError,
                  SendPartial
<1> QED BY <1>1, <1>2, <1>3, <1>4, <1>5 DEF Next

\* An accept and a removal change both in the same way.
LEMMA NextListAgrees ==
    ASSUME TypeOK, LockInv, ListAgrees, [Next]_vars
    PROVE  ListAgrees'
<1>1. /\ sessions_by_socket_ \in [Sockets -> Conns \cup {nullptr}]
      /\ accepted_clients_ \in Seq(Sockets)
      BY DEF TypeOK, SessionsTypeOK
<1> DEFINE Stored == {s \in Sockets : sessions_by_socket_[s] # nullptr}
<1>2. ToSet(accepted_clients_) = Stored /\ IsInjective(accepted_clients_)
      BY DEF ListAgrees
<1>3. CASE Accept
  <2>1. backlog # <<>> /\ BacklogIsFresh /\ DescriptorsNotReused
        BY <1>3 DEF TypeOK, ListenerTypeOK, Accept, LockInv
  <2>2. Head(backlog) \in Conns /\ Head(backlog) # nullptr
        BY <2>1, BacklogTail, RegistryAssumption
  <2>3. PICK s \in Sockets : fd_table[s] = nullptr /\ accept_client(s, Head(backlog))
        BY <1>3 DEF Accept, FreeSockets
  <2>4. sessions_by_socket_[s] = nullptr
        BY <2>1, <2>3 DEF DescriptorsNotReused
  <2>5. s \notin ToSet(accepted_clients_)
        BY <1>2, <2>4
  <2>6. ~ Contains(accepted_clients_, s)
        BY <1>1, <2>5, LenProperties DEF Contains, ToSet
  <2>7. /\ accepted_clients_' = Append(accepted_clients_, s)
        /\ sessions_by_socket_' = [sessions_by_socket_ EXCEPT ![s] = Head(backlog)]
        BY <2>3, <2>4, <2>6 DEF accept_client
  <2>8. /\ ToSet(accepted_clients_') = ToSet(accepted_clients_) \cup {s}
        /\ IsInjective(accepted_clients_')
        BY <1>1, <1>2, <2>5, <2>7, AppendElements
  <2>9. {u \in Sockets : sessions_by_socket_'[u] # nullptr} = Stored \cup {s}
        BY <1>1, <2>2, <2>7
  <2> QED BY <1>2, <2>8, <2>9 DEF ListAgrees, ToSet, IsInjective
<1>4. ASSUME NEW t \in Workers,
             (t \in Readers /\ ReadRemove(t)) \/ (t \in Writers /\ WriteRemove(t))
      PROVE  ListAgrees'
  <2>1. sock[t] \in Sockets /\ removeSession(sock[t])
        BY <1>4, RemovalIsOwn
  <2>2. /\ sessions_by_socket_' = [sessions_by_socket_ EXCEPT ![sock[t]] = nullptr]
        /\ accepted_clients_' = RemoveFirst(accepted_clients_, sock[t])
        BY <2>1 DEF removeSession
  <2>3. /\ ToSet(accepted_clients_') = ToSet(accepted_clients_) \ {sock[t]}
        /\ IsInjective(accepted_clients_')
        BY <1>1, <1>2, <2>2, RemoveFirstElements
  <2>4. {u \in Sockets : sessions_by_socket_'[u] # nullptr} = Stored \ {sock[t]}
        BY <1>1, <2>1, <2>2
  <2> QED BY <1>2, <2>3, <2>4 DEF ListAgrees, ToSet, IsInjective
<1>5. CASE UNCHANGED <<accepted_clients_, sessions_by_socket_>>
      BY <1>5 DEF ListAgrees, ToSet, IsInjective
<1> QED BY <1>3, <1>4, <1>5, ListSteps DEF Workers

\* A session gets its id after it has been accepted.
NamedAfterAccept == \A c \in Conns : socket_[c] = nullptr => id_[c] = NONE

\* No session has an id before the threads start.
LEMMA InitOwnIds == Init => NamedAfterAccept /\ OwnIdResolves
BY DEF Init, SessionsInit, NamedAfterAccept, OwnIdResolves, Registered

\* The entry under an id that only one session has is not touched by the
\* registration or the removal of the others.
LEMMA NextOwnIds ==
    ASSUME TypeOK, LockInv, SocketsKnown, AddsOnce, NamedAfterAccept,
           OwnIdResolves, [Next]_vars
    PROVE  NamedAfterAccept' /\ OwnIdResolves'
<1>1. /\ fd_table \in [Sockets -> Conns \cup {nullptr}]
      /\ id_ \in [Conns -> Values]
      /\ socket_ \in [Conns -> Sockets \cup {nullptr}]
      /\ sessions_by_socket_ \in [Sockets -> Conns \cup {nullptr}]
      /\ sessions_by_id_ \in [Values -> Conns \cup {nullptr}]
      BY DEF TypeOK, KernelTypeOK, SessionsTypeOK
<1>2. CASE Accept
  <2>1. PICK s \in Sockets, new \in Conns :
               /\ sessions_by_socket_[s] = nullptr
               /\ \A u \in Sockets : fd_table[u] # new
               /\ sessions_by_socket_' = [sessions_by_socket_ EXCEPT ![s] = new]
               /\ socket_' = [socket_ EXCEPT ![new] = s]
               /\ UNCHANGED <<sessions_by_id_, id_>>
        BY <1>2, AcceptIsFresh
  <2>2. id_[new] = NONE
    <3>1. socket_[new] = nullptr
          BY <1>1, <2>1 DEF SocketsKnown
    <3> QED BY <3>1 DEF NamedAfterAccept
  <2>3. NamedAfterAccept'
        BY <1>1, <2>1, <2>2 DEF NamedAfterAccept
  <2>4. ASSUME NEW c \in Conns, Registered(c)', id_[c] # NONE
        PROVE  Registered(c)
    <3>1. c # new /\ socket_'[c] = socket_[c]
          BY <1>1, <2>1, <2>2, <2>4
    <3> QED BY <1>1, <2>1, <2>4, <3>1 DEF Registered
  <2> QED BY <2>1, <2>3, <2>4 DEF OwnIdResolves
<1>3. ASSUME NEW r \in Readers, AddNode(r)
      PROVE  NamedAfterAccept' /\ OwnIdResolves'
  <2>1. /\ sess[r] \in Conns /\ id_[sess[r]] = NONE
        /\ socket_[sess[r]] = sock[r] /\ sock[r] \in Sockets
        /\ \/ UNCHANGED <<sessions_by_id_, id_>>
           \/ \E n \in Values :
                 /\ id_' = [id_ EXCEPT ![sess[r]] = n]
                 /\ sessions_by_id_' = [sessions_by_id_ EXCEPT ![n] = sess[r]]
        /\ UNCHANGED <<sessions_by_socket_, socket_>>
        BY <1>3, AddNodeNamesOwn
  <2>2. CASE UNCHANGED <<sessions_by_id_, id_>>
        BY <2>1, <2>2 DEF NamedAfterAccept, OwnIdResolves, Registered
  <2>3. ASSUME NEW n \in Values,
               id_' = [id_ EXCEPT ![sess[r]] = n],
               sessions_by_id_' = [sessions_by_id_ EXCEPT ![n] = sess[r]]
        PROVE  NamedAfterAccept' /\ OwnIdResolves'
    <3>1. NamedAfterAccept'
      <4>1. sock[r] # nullptr
            BY <2>1, RegistryAssumption
      <4> QED BY <1>1, <2>1, <2>3, <4>1 DEF NamedAfterAccept
    <3>2. ASSUME NEW c \in Conns, Registered(c), id_'[c] # NONE,
                 \A d \in Conns \ {c} : id_'[d] # id_'[c]
          PROVE  sessions_by_id_'[id_'[c]] = c
      <4>1. CASE c = sess[r]
            BY <1>1, <2>3, <4>1
      <4>2. CASE c # sess[r]
        <5>1. id_'[c] = id_[c] /\ id_'[sess[r]] = n /\ n # id_[c]
              BY <1>1, <2>1, <2>3, <3>2, <4>2
        <5>2. \A d \in Conns \ {c} : id_[d] # id_[c]
              BY <1>1, <2>1, <2>3, <3>2, <5>1
        <5>3. sessions_by_id_[id_[c]] = c
              BY <3>2, <5>1, <5>2 DEF OwnIdResolves
        <5> QED BY <1>1, <2>3, <5>1, <5>3
      <4> QED BY <4>1, <4>2
    <3> QED BY <2>1, <3>1, <3>2 DEF OwnIdResolves, Registered
  <2> QED BY <2>1, <2>2, <2>3
<1>4. ASSUME NEW t \in Workers,
             (t \in Readers /\ ReadRemove(t)) \/ (t \in Writers /\ WriteRemove(t))
      PROVE  NamedAfterAccept' /\ OwnIdResolves'
  <2>1. sock[t] \in Sockets /\ removeSession(sock[t])
        BY <1>4, RemovalIsOwn
  <2> DEFINE gone == sessions_by_socket_[sock[t]]
  <2>2. /\ sessions_by_socket_' = [sessions_by_socket_ EXCEPT ![sock[t]] = nullptr]
        /\ sessions_by_id_' =
              IF gone # nullptr /\ id_[gone] # NONE
              THEN [sessions_by_id_ EXCEPT ![id_[gone]] = nullptr]
              ELSE sessions_by_id_
        /\ UNCHANGED <<socket_, id_>>
        BY <2>1 DEF removeSession
  <2>3. gone \in Conns \cup {nullptr} /\ (gone # nullptr => socket_[gone] = sock[t])
        BY <1>1, <2>1 DEF LockInv, DescriptorsNotReused
  <2>4. ASSUME NEW c \in Conns, Registered(c)', id_[c] # NONE,
               \A d \in Conns \ {c} : id_[d] # id_[c]
        PROVE  sessions_by_id_'[id_[c]] = c
    <3>1. /\ socket_[c] # nullptr /\ socket_[c] \in Sockets
          /\ sessions_by_socket_'[socket_[c]] = c
          BY <1>1, <2>2, <2>4 DEF Registered
    <3>2. c # nullptr /\ socket_[c] # sock[t]
          BY <1>1, <2>1, <2>2, <3>1, RegistryAssumption
    <3>3. Registered(c)
          BY <1>1, <2>1, <2>2, <3>1, <3>2 DEF Registered
    <3>4. sessions_by_id_[id_[c]] = c
          BY <2>4, <3>3 DEF OwnIdResolves
    <3>5. gone # nullptr => gone \in Conns \ {c} /\ id_[gone] # id_[c]
          BY <2>3, <2>4, <3>2
    <3> HIDE DEF gone
    <3> QED BY <1>1, <2>2, <3>4, <3>5
  <2> QED BY <2>2, <2>4 DEF NamedAfterAccept, OwnIdResolves
<1>5. CASE UNCHANGED <<fd_table, socket_, id_, sessions_by_id_, sessions_by_socket_>>
      BY <1>5 DEF NamedAfterAccept, OwnIdResolves, Registered
<1> QED BY <1>2, <1>3, <1>4, <1>5, RegistrySteps DEF Workers

\* The event loop's list of sockets and the two maps of sessions never come
\* apart, although three kinds of threads change them; only a second client
\* that claims its id can take a session out of the map of ids.
THEOREM RegistryIsConsistent == SafetySpec => []ContainersAgree
<1> DEFINE Inv == /\ TypeOK /\ LockInv /\ ListAgrees
                  /\ NamedAfterAccept /\ OwnIdResolves
<1>1. Init => Inv
      BY InitTypeInv, InitLockInv, InitListAgrees, InitOwnIds
<1>2. Inv /\ AddressInv /\ [Next]_vars => Inv'
      BY AddressParts, NextTypeInv, NextLockInv, NextListAgrees, NextOwnIds
<1>3. Inv => ContainersAgree
      BY AgreementParts DEF LockInv
<1> QED BY <1>1, <1>2, <1>3, AddressesAreRight, PTL DEF SafetySpec
-----------------------------------------------------------------------------
(* Fragments.                                                                *)

\* c has got a part of a message.
HasFragment(c) ==
    \E i \in DOMAIN outbox[c] : Len(outbox[c][i]) < DATA_MESSAGE_SIZE

\* A fragment ends a session: the write worker that has sent it is about to
\* remove the session it found.  Only an accepted connection has got anything.
FragmentInv ==
    /\ \A c \in Conns : outbox[c] # <<>> => socket_[c] # nullptr
    /\ \A c \in Conns :
          HasFragment(c) =>
              \/ ~ Registered(c)
              \/ \E w \in Writers : pc[w] = "remove" /\ sess[w] = c

\* The worker that is about to remove the session holds its mutex.
LEMMA FragmentParts ==
    ASSUME LocksHeld, FragmentInv
    PROVE  FragmentEndsSession
<1> SUFFICES ASSUME NEW c \in Conns, HasFragment(c), Registered(c)
             PROVE  \E w \in Writers : pc[w] = "remove" /\ mutex_[c] = w
    BY DEF FragmentEndsSession, HasFragment
<1>1. PICK w \in Writers : pc[w] = "remove" /\ sess[w] = c
      BY DEF FragmentInv
<1> QED BY <1>1 DEF LocksHeld, LockedSteps, Workers

\* Nothing has been sent before the threads start.
LEMMA InitFragmentInv == Init => FragmentInv
BY EmptySeq DEF Init, FragmentInv, HasFragment

\* What a write worker sends goes to the session it has locked.
LEMMA SendsToOwn ==
    ASSUME TypeOK, LockInv, NEW w \in Writers, pc[w] = "send", Behind(w) # nullptr
    PROVE  /\ w \in Workers
           /\ Behind(w) \in Conns
           /\ Behind(w) = sess[w]
           /\ socket_[Behind(w)] # nullptr
           /\ msg[w] \in Seq(Values)
           /\ Len(msg[w]) = DATA_MESSAGE_SIZE
<1>1. w \in Workers /\ sock[w] \in Sockets /\ sess[w] \in Conns
      BY DEF TypeOK, WorkersTypeOK, Workers
<1>2. fd_table[sock[w]] = sess[w]
      BY <1>1 DEF LockInv, DescriptorsNotReused
<1>3. socket_[fd_table[sock[w]]] = sock[w]
      BY <1>1 DEF LockInv, DescriptorsNotReused, Behind
<1>4. msg[w] \in Seq(Values) /\ Len(msg[w]) = DATA_MESSAGE_SIZE
      BY <1>1 DEF TypeOK, WorkersTypeOK
<1> QED BY <1>1, <1>2, <1>3, <1>4, RegistryAssumption DEF Behind

\* A connection that is not registered any more is not registered again, as
\* a socket is not given out twice.
LEMMA GoneStaysGone ==
    ASSUME TypeOK, LockInv, SocketsKnown, [Next]_vars,
           NEW c \in Conns, socket_[c] # nullptr
    PROVE  socket_'[c] = socket_[c] /\ (~ Registered(c) => ~ Registered(c)')
<1>1. /\ socket_ \in [Conns -> Sockets \cup {nullptr}]
      /\ sessions_by_socket_ \in [Sockets -> Conns \cup {nullptr}]
      /\ socket_[c] \in Sockets
      BY DEF TypeOK, SessionsTypeOK
<1>2. CASE Accept
  <2>1. PICK s \in Sockets, d \in Conns :
               /\ fd_table[s] = nullptr
               /\ \A u \in Sockets : fd_table[u] # d
               /\ sessions_by_socket_' = [sessions_by_socket_ EXCEPT ![s] = d]
               /\ socket_' = [socket_ EXCEPT ![d] = s]
        BY <1>2, AcceptIsFresh
  <2>2. fd_table[socket_[c]] = c
        BY DEF SocketsKnown
  <2>3. c # d /\ socket_[c] # s
        BY <1>1, <2>1, <2>2, RegistryAssumption
  <2> QED BY <1>1, <2>1, <2>3 DEF Registered
<1>3. ASSUME NEW t \in Workers,
             (t \in Readers /\ ReadRemove(t)) \/ (t \in Writers /\ WriteRemove(t))
      PROVE  socket_'[c] = socket_[c] /\ (~ Registered(c) => ~ Registered(c)')
  <2>1. sock[t] \in Sockets /\ removeSession(sock[t])
        BY <1>3, RemovalIsOwn
  <2>2. /\ sessions_by_socket_' = [sessions_by_socket_ EXCEPT ![sock[t]] = nullptr]
        /\ socket_' = socket_
        BY <2>1 DEF removeSession
  <2> QED BY <1>1, <2>1, <2>2, RegistryAssumption DEF Registered
<1>4. ASSUME NEW r \in Readers, AddNode(r)
      PROVE  UNCHANGED <<socket_, sessions_by_socket_>>
      BY <1>4 DEF AddNode, add_node
<1>5. CASE UNCHANGED <<socket_, sessions_by_socket_>>
      BY <1>5 DEF Registered
<1> QED BY <1>2, <1>3, <1>4, <1>5, RegistrySteps DEF Workers

\* A worker that is about to remove a session is about to, or has done so.
LEMMA RemovalHappens ==
    ASSUME TypeOK, LockInv, [Next]_vars,
           NEW w \in Writers, NEW c \in Conns, pc[w] = "remove", sess[w] = c
    PROVE  (pc'[w] = "remove" /\ sess'[w] = c) \/ ~ Registered(c)'
<1>1. w \in Workers /\ sock[w] \in Sockets
      BY DEF TypeOK, WorkersTypeOK, Workers
<1>2. CASE UNCHANGED <<workers, ready_write_sockets_queue_, outbox, id_>>
      BY <1>2 DEF workers
<1>3. ASSUME NEW r \in Readers, Reader(r)
      PROVE  pc'[w] = "remove" /\ sess'[w] = c
  <2>1. w # r
        BY RegistryAssumption
  <2> QED BY <1>1, <1>3, <2>1, ReaderStep DEF SameLocals
<1>4. ASSUME NEW v \in Writers, Writer(v), v # w
      PROVE  pc'[w] = "remove" /\ sess'[w] = c
      BY <1>1, <1>4, WriterStep DEF SameLocals
<1>5. CASE Writer(w)
  <2>1. WriteRemove(w)
        BY <1>5 DEF Writer, WritePop, Find, WriteLock, LockSession, SendOk,
                    SendError, SendPartial
  <2>2. removeSession(sock[w])
        BY <1>1, <2>1, RemovalIsOwn
  <2>3. fd_table[sock[w]] = c /\ c # nullptr
        BY <1>1, RegistryAssumption DEF LockInv, DescriptorsNotReused
  <2>4. socket_[c] = sock[w]
        BY <1>1, <2>3 DEF LockInv, DescriptorsNotReused
  <2>5. /\ sessions_by_socket_' = [sessions_by_socket_ EXCEPT ![sock[w]] = nullptr]
        /\ socket_' = socket_
        BY <2>2 DEF removeSession
  <2>6. sessions_by_socket_'[sock[w]] = nullptr
        BY <1>1, <2>5 DEF TypeOK, SessionsTypeOK
  <2> QED BY <2>3, <2>4, <2>5, <2>6 DEF Registered
<1> QED BY <1>2, <1>3, <1>4, <1>5, OtherStep

\* A fragment is followed by the removal of the session, whatever the other
\* threads do meanwhile.
LEMMA NextFragmentInv ==
    ASSUME TypeOK, LockInv, SocketsKnown, FragmentInv, [Next]_vars
    PROVE  FragmentInv'
<1>1. outbox \in [Conns -> Seq(Seq(Values))]
      BY DEF TypeOK, KernelTypeOK
\* a fragment that was there before the step
<1>2. ASSUME NEW c \in Conns, HasFragment(c)
      PROVE  \/ ~ Registered(c)'
             \/ \E w \in Writers : pc'[w] = "remove" /\ sess'[w] = c
  <2>1. outbox[c] # <<>>
        BY <1>2, EmptySeq DEF HasFragment
  <2>2. socket_[c] # nullptr
        BY <2>1 DEF FragmentInv
  <2>3. CASE ~ Registered(c)
        BY <2>2, <2>3, GoneStaysGone
  <2>4. ASSUME NEW w \in Writers, pc[w] = "remove", sess[w] = c
        PROVE  ~ Registered(c)' \/ (pc'[w] = "remove" /\ sess'[w] = c)
        BY <2>4, RemovalHappens
  <2> QED BY <1>2, <2>3, <2>4 DEF FragmentInv
<1>3. \A c \in Conns : socket_[c] # nullptr => socket_'[c] # nullptr
      BY GoneStaysGone
<1>4. CASE outbox' = outbox
  <2>1. \A c \in Conns : HasFragment(c)' => HasFragment(c)
        BY <1>4 DEF HasFragment, DATA_MESSAGE_SIZE
  <2>2. \A c \in Conns : outbox'[c] # <<>> => socket_'[c] # nullptr
        BY <1>3, <1>4 DEF FragmentInv
  <2> QED BY <1>2, <2>1, <2>2 DEF FragmentInv
\* a write worker sends its message, or a part of it
<1>5. ASSUME NEW w \in Writers, NEW text \in Seq(Values), pc[w] = "send",
             Behind(w) # nullptr,
             outbox' = [outbox EXCEPT ![Behind(w)] = Append(@, text)],
             \/ Len(text) = DATA_MESSAGE_SIZE
             \/ pc'[w] = "remove" /\ sess'[w] = sess[w]
      PROVE  FragmentInv'
  <2>1. PICK d \in Conns : d = Behind(w) /\ d = sess[w] /\ socket_[d] # nullptr
        BY <1>5, SendsToOwn
  <2>2. outbox' = [outbox EXCEPT ![d] = Append(outbox[d], text)]
        BY <1>5, <2>1
  <2>3. /\ DOMAIN outbox[d] = 1 .. Len(outbox[d]) /\ Len(outbox[d]) \in Nat
        /\ outbox'[d] = Append(outbox[d], text)
        /\ DOMAIN outbox'[d] = 1 .. Len(outbox[d]) + 1
        /\ \A i \in 1 .. Len(outbox[d]) : outbox'[d][i] = outbox[d][i]
        /\ outbox'[d][Len(outbox[d]) + 1] = text
        BY <1>1, <1>5, <2>1, <2>2, AppendProperties, LenProperties
  <2>4. \A c \in Conns : c # d => outbox'[c] = outbox[c]
        BY <1>1, <2>2
  <2>5. \A c \in Conns : outbox'[c] # <<>> => socket_'[c] # nullptr
        BY <1>3, <2>1, <2>4 DEF FragmentInv
  <2>6. \A c \in Conns : c # d => (HasFragment(c)' => HasFragment(c))
        BY <2>4 DEF HasFragment, DATA_MESSAGE_SIZE
  <2>7. HasFragment(d)' => HasFragment(d) \/ Len(text) # DATA_MESSAGE_SIZE
    <3> SUFFICES ASSUME HasFragment(d)', Len(text) = DATA_MESSAGE_SIZE
                 PROVE  HasFragment(d)
        OBVIOUS
    <3>1. PICK i \in 1 .. Len(outbox[d]) + 1 : Len(outbox'[d][i]) < 3
          BY <2>3 DEF HasFragment, DATA_MESSAGE_SIZE
    <3>2. i # Len(outbox[d]) + 1
      <4> SUFFICES ASSUME i = Len(outbox[d]) + 1
                   PROVE  FALSE
          OBVIOUS
      <4>1. outbox'[d][i] = text
            BY <2>3
      <4>2. Len(text) < 3 /\ Len(text) = 3
            BY <3>1, <4>1 DEF DATA_MESSAGE_SIZE
      <4> QED BY <4>2
    <3>3. i \in 1 .. Len(outbox[d])
          BY <2>3, <3>1, <3>2
    <3> QED BY <2>3, <3>1, <3>3 DEF HasFragment, DATA_MESSAGE_SIZE
  <2>8. ASSUME NEW c \in Conns, HasFragment(c)'
        PROVE  \/ ~ Registered(c)'
               \/ \E v \in Writers : pc'[v] = "remove" /\ sess'[v] = c
    <3>1. CASE HasFragment(c)
          BY <1>2, <3>1
    <3>2. CASE ~ HasFragment(c)
      <4>1. c = d /\ pc'[w] = "remove" /\ sess'[w] = sess[w]
            BY <1>5, <2>6, <2>7, <2>8, <3>2
      <4> QED BY <2>1, <4>1
    <3> QED BY <3>1, <3>2
  <2> QED BY <2>5, <2>8 DEF FragmentInv
<1>6. ASSUME NEW w \in Writers, SendOk(w)
      PROVE  FragmentInv'
  <2>1. pc[w] = "send" /\ Behind(w) # nullptr
        BY <1>6 DEF SendOk
  <2>2. msg[w] \in Seq(Values) /\ Len(msg[w]) = DATA_MESSAGE_SIZE
        BY <2>1, SendsToOwn
  <2> QED BY <1>5, <1>6, <2>1, <2>2 DEF SendOk
<1>7. ASSUME NEW w \in Writers, SendPartial(w)
      PROVE  FragmentInv'
  <2>1. pc[w] = "send" /\ Behind(w) # nullptr /\ sess' = sess
        /\ pc' = [pc EXCEPT ![w] = "remove"]
        BY <1>7 DEF SendPartial, Goto
  <2>2. w \in Workers /\ msg[w] \in Seq(Values) /\ Len(msg[w]) = 3
        BY <2>1, SendsToOwn DEF DATA_MESSAGE_SIZE
  <2>3. pc'[w] = "remove" /\ sess'[w] = sess[w]
        BY <2>1, <2>2 DEF TypeOK, WorkersTypeOK
  <2>4. PICK n \in 1 .. Len(msg[w]) - 1 :
           outbox' = [outbox EXCEPT ![Behind(w)] =
                         Append(@, SubSeq(msg[w], 1, n))]
        BY <1>7 DEF SendPartial
  <2> DEFINE text == SubSeq(msg[w], 1, n)
  <2>5. text \in Seq(Values)
        BY <2>2, <2>4
  <2> HIDE DEF text
  <2> QED BY <1>5, <2>1, <2>3, <2>4, <2>5 DEF text
<1> QED BY <1>4, <1>6, <1>7, OtherStep, ReaderStep, WriterStep

\* A client that has got a part of a message is removed before the mutex of
\* its session is released.
THEOREM FragmentsEndSessions == SafetySpec => []FragmentEndsSession
<1>1. Init => FragmentInv
      BY InitFragmentInv
<1>2. TypeOK /\ LockInv /\ AddressInv /\ FragmentInv /\ [Next]_vars => FragmentInv'
      BY NextFragmentInv, AddressParts
<1>3. LockInv /\ FragmentInv => FragmentEndsSession
      BY FragmentParts DEF LockInv
<1> QED BY <1>1, <1>2, <1>3, RouterTypeCorrect, LocksAreEffective,
           AddressesAreRight, PTL
        DEF SafetySpec

-----------------------------------------------------------------------------
(* Delivery once and in order.  The chunks of a stream are read in order, an *)
(* id and then whole messages; a message goes from its reader through the    *)
(* write queue and a write worker to its addressee, and no step copies it.   *)

\* What of the stream of c has been read, or was lost with the connection.
Consumed(c) == sent[c] - Len(inbox[c])

\* The receive buffer is the next part of the stream, from a boundary to one.
StreamRead(c) ==
    /\ sent[c] \in 0 .. Len(Stream[c]) /\ Len(inbox[c]) <= sent[c]
    /\ sent[c] = 0 \/ sent[c] % 3 = 1
    /\ Consumed(c) = 0 \/ Consumed(c) % 3 = 1
    /\ \A i \in 1 .. Len(inbox[c]) : inbox[c][i] = Stream[c][Consumed(c) + i]

\* A reader has read the id of c, and has not registered it yet.
BeingNamed(c) == \E r \in Readers : pc[r] = "add" /\ sess[r] = c

\* The id is the first thing read from a connection that may still be read.
IdComesFirst(c) ==
    peer[c] \in {"new", "open"} \/ inbox[c] # <<>> =>
        (Consumed(c) = 0 <=> id_[c] = NONE /\ ~ BeingNamed(c))

NamesRead ==
    \A r \in Readers :
        pc[r] = "add" => Stream[sess[r]] # <<>> /\ msg[r][1] = Stream[sess[r]][1]

\* The messages that have been forwarded: delivered, held by a write worker, or
\* in the write queue.
Delivered == UNION {{outbox[d][i] : i \in DOMAIN outbox[d]} : d \in Conns}

HeldByWriters == {msg[w] : w \in {v \in Writers : pc[v] # "pop"}}

InWriteQueue ==
    {ready_write_sockets_queue_[i].msg : i \in DOMAIN ready_write_sockets_queue_}

Passed == Delivered \cup HeldByWriters \cup InWriteQueue

\* They are messages of peers that have been read.
PassedWereRead ==
    \A m \in Passed : \E c \in Conns : \E k \in MessagesOf(c) :
        m = Message(c, k) /\ 1 + 3 * k <= Consumed(c)

\* A reader has a message of its connection that comes after those forwarded.
ReadsNext(r) ==
    pc[r] \in {"route", "forward"} =>
        \E k \in MessagesOf(sess[r]) :
            /\ msg[r] = Message(sess[r], k) /\ 1 + 3 * k <= Consumed(sess[r])
            /\ \A l \in MessagesOf(sess[r]) :
                  Message(sess[r], l) \in Passed => l < k

StreamInv ==
    WholeMessages =>
        /\ \A c \in Conns : StreamRead(c) /\ IdComesFirst(c)
        /\ NamesRead
        /\ PassedWereRead
        /\ \A r \in Readers : ReadsNext(r)

\* m may be before n on the way to one client.
InOrder(m, n) ==
    \A c \in Conns : \A k, l \in MessagesOf(c) :
        m = Message(c, k) /\ n = Message(c, l) =>
            IF Cardinality(Writers) = 1 THEN k < l ELSE k # l

SentInOrder ==
    \A d \in Conns : \A i, j \in DOMAIN outbox[d] :
        i < j => InOrder(outbox[d][i], outbox[d][j])

SentBeforeWriters ==
    \A d \in Conns : \A i \in DOMAIN outbox[d] : \A w \in Writers :
        pc[w] # "pop" => InOrder(outbox[d][i], msg[w])

SentBeforeQueue ==
    \A d \in Conns : \A i \in DOMAIN outbox[d] :
        \A j \in DOMAIN ready_write_sockets_queue_ :
            InOrder(outbox[d][i], ready_write_sockets_queue_[j].msg)

WritersApart ==
    \A v, w \in Writers :
        v # w /\ pc[v] # "pop" /\ pc[w] # "pop" => InOrder(msg[v], msg[w])

WritersBeforeQueue ==
    \A w \in Writers : \A j \in DOMAIN ready_write_sockets_queue_ :
        pc[w] # "pop" => InOrder(msg[w], ready_write_sockets_queue_[j].msg)

QueueInOrder ==
    \A i, j \in DOMAIN ready_write_sockets_queue_ :
        i < j => InOrder(ready_write_sockets_queue_[i].msg,
                         ready_write_sockets_queue_[j].msg)

OrderInv ==
    WholeMessages =>
        /\ SentInOrder /\ SentBeforeWriters /\ SentBeforeQueue
        /\ WritersApart /\ WritersBeforeQueue /\ QueueInOrder

\* Before the threads start nothing was read and nothing forwarded.
LEMMA InitOrder == Init => StreamInv /\ OrderInv
<1> SUFFICES ASSUME Init PROVE StreamInv /\ OrderInv
    OBVIOUS
<1>1. \A w \in Workers : pc[w] = "pop"
      BY DEF Init
<1>2. /\ \A d \in Conns : DOMAIN outbox[d] = {}
      /\ DOMAIN ready_write_sockets_queue_ = {}
      BY DEF Init
<1>3. Passed = {}
      BY <1>1, <1>2 DEF Passed, Delivered, HeldByWriters, InWriteQueue, Workers
<1>4. ASSUME NEW c \in Conns PROVE StreamRead(c) /\ IdComesFirst(c)
  <2>1. inbox[c] = <<>> /\ Len(inbox[c]) = 0 /\ sent[c] = 0 /\ id_[c] = NONE
        BY DEF Init, SessionsInit
  <2>2. Len(Stream[c]) \in Nat
        BY PeersAssumption, LenProperties
  <2>3. ~ BeingNamed(c)
        BY <1>1 DEF BeingNamed, Workers
  <2>4. Consumed(c) = 0
    <3>1. Consumed(c) = 0 - 0
          BY <2>1, Zenon DEF Consumed
    <3> QED BY <3>1
  <2>5. StreamRead(c)
    <3>1. 0 \in 0 .. Len(Stream[c]) /\ 1 .. 0 = {}
          BY <2>2
    <3> QED BY <2>1, <2>4, <3>1 DEF StreamRead
  <2> QED BY <2>1, <2>3, <2>4, <2>5 DEF IdComesFirst
<1>5. StreamInv
      BY <1>1, <1>3, <1>4 DEF StreamInv, NamesRead, PassedWereRead, ReadsNext, Workers
<1>6. OrderInv
      BY <1>1, <1>2 DEF OrderInv, SentInOrder, SentBeforeWriters, SentBeforeQueue,
         WritersApart, WritersBeforeQueue, QueueInOrder, Workers
<1> QED BY <1>5, <1>6

\* The steps that move text, or change who may be read.
LEMMA StreamSteps ==
    ASSUME TypeOK, [Next]_vars
    PROVE  \/ \E c \in Conns : Peer(c)
           \/ AcceptRefused
           \/ \E r \in Readers : \/ ReadFull(r) \/ ReadPartial(r)
                                 \/ ReadError(r) \/ AddNode(r)
           \/ /\ UNCHANGED <<peer, sent, inbox, id_>>
              /\ \A r \in Readers :
                    /\ pc'[r] = "add" <=> pc[r] = "add"
                    /\ pc[r] = "add" => sess'[r] = sess[r] /\ msg'[r] = msg[r]
<1> USE DEF kernel, objects
<1>1. CASE UNCHANGED vars
      BY <1>1 DEF vars, workers
<1>2. CASE Listener /\ ~ AcceptRefused
      BY <1>2 DEF Listener, ResetBegin, ResetEnd, Select, SelectError, Accept,
                  AcceptError, PushReady, accept_client, workers
<1>3. ASSUME NEW q \in Readers, Reader(q),
             ~ (ReadFull(q) \/ ReadPartial(q) \/ ReadError(q) \/ AddNode(q))
      PROVE  /\ UNCHANGED <<peer, sent, inbox, id_>>
             /\ \A r \in Readers :
                   /\ pc'[r] = "add" <=> pc[r] = "add"
                   /\ pc[r] = "add" => sess'[r] = sess[r] /\ msg'[r] = msg[r]
  <2>1. UNCHANGED <<peer, sent, inbox, id_>> /\ pc[q] # "add"
        BY <1>3 DEF Reader, ReadPop, Find, ReadLock, LockSession, Refind,
                    ReadNothing, Route, Forward, ReadRemove, RemoveSession,
                    removeSession
  <2>2. pc'[q] # "add"
        BY <1>3, ReaderStep
  <2>3. \A r \in Readers : r # q => SameLocals(r)
        BY <1>3, ReaderStep DEF Workers
  <2> QED BY <2>1, <2>2, <2>3 DEF SameLocals
<1>4. ASSUME NEW w \in Writers, Writer(w)
      PROVE  /\ UNCHANGED <<peer, sent, inbox, id_>>
             /\ \A r \in Readers : SameLocals(r)
  <2>1. UNCHANGED <<peer, sent, inbox, id_>>
        BY <1>4 DEF Writer, WritePop, Find, WriteLock, LockSession, SendOk, SendError,
                    SendPartial, WriteRemove, RemoveSession, removeSession
  <2>2. \A r \in Readers : r \in Workers /\ r # w
        BY RegistryAssumption DEF Workers
  <2> QED BY <1>4, <2>1, <2>2, WriterStep
<1> QED BY <1>1, <1>2, <1>3, <1>4 DEF Next, SameLocals

\* Where a message that has been forwarded is.
IsPassed(m) ==
    \/ \E d \in Conns : \E i \in DOMAIN outbox[d] : m = outbox[d][i]
    \/ \E i \in DOMAIN ready_write_sockets_queue_ :
          m = ready_write_sockets_queue_[i].msg
    \/ \E w \in Writers : pc[w] # "pop" /\ m = msg[w]

LEMMA WherePassed == \A m : m \in Passed <=> IsPassed(m)
<1> TAKE m
<1>1. m \in Delivered <=>
          \E d \in Conns : \E i \in DOMAIN outbox[d] : m = outbox[d][i]
  <2>1. \A d \in Conns : m \in {outbox[d][i] : i \in DOMAIN outbox[d]} <=>
                          \E i \in DOMAIN outbox[d] : m = outbox[d][i]
        OBVIOUS
  <2> QED BY <2>1 DEF Delivered
<1>2. m \in InWriteQueue <=> \E i \in DOMAIN ready_write_sockets_queue_ :
                            m = ready_write_sockets_queue_[i].msg
      BY Zenon DEF InWriteQueue
<1>3. m \in HeldByWriters <=> \E w \in Writers : pc[w] # "pop" /\ m = msg[w]
      BY Zenon DEF HeldByWriters
<1> QED BY <1>1, <1>2, <1>3 DEF Passed, IsPassed

\* The same in the next state.
LEMMA WherePassedNext == (\A m : m \in Passed <=> IsPassed(m))'
BY WherePassed, PTL

\* What is forwarded stays what it was, except for what a reader adds.
LEMMA PassedStep ==
    ASSUME TypeOK, SlowPeers = {}, [Next]_vars, NEW m \in Passed'
    PROVE  m \in Passed \/ \E r \in Readers : Forward(r) /\ m = msg[r]
<1>1. /\ ready_write_sockets_queue_ \in Seq(Tasks)
      /\ outbox \in [Conns -> Seq(Seq(Values))]
      /\ WorkersTypeOK
      BY DEF TypeOK, QueuesTypeOK, KernelTypeOK
<1>2. \/ \E d \in Conns : \E i \in DOMAIN outbox'[d] : m = outbox'[d][i]
      \/ \E i \in DOMAIN ready_write_sockets_queue_' :
            m = ready_write_sockets_queue_'[i].msg
      \/ \E w \in Writers : pc'[w] # "pop" /\ m = msg'[w]
      BY WherePassedNext, Zenon DEF IsPassed
<1>3. CASE UNCHANGED <<workers, ready_write_sockets_queue_, outbox, id_>>
      BY <1>2, <1>3, WherePassed DEF IsPassed, workers
<1>4. ASSUME NEW r \in Readers, Reader(r)
      PROVE  m \in Passed \/ (Forward(r) /\ m = msg[r])
  <2>1. /\ outbox' = outbox
        /\ \A w \in Writers : pc'[w] = pc[w] /\ msg'[w] = msg[w]
        BY <1>4, ReaderStep, RegistryAssumption DEF Workers, SameLocals
  <2>2. CASE ready_write_sockets_queue_' = ready_write_sockets_queue_
        BY <1>2, <2>1, <2>2, WherePassed DEF IsPassed
  <2>3. CASE Forward(r)
    <3>1. PICK q, e : /\ q = ready_write_sockets_queue_
                      /\ e = [socket |-> socket_[dst[r]], msg |-> msg[r]]
                      /\ ready_write_sockets_queue_' = Append(q, e)
          BY <2>3 DEF Forward
    <3>2. ASSUME NEW i \in DOMAIN Append(q, e)
          PROVE  (i \in DOMAIN q /\ Append(q, e)[i] = q[i]) \/ Append(q, e)[i] = e
      <4>1. q \in Seq(Tasks) /\ Len(q) \in Nat /\ DOMAIN q = 1 .. Len(q)
            BY <1>1, <3>1, LenProperties
      <4>2. e \in Tasks
        <5>1. r \in Workers /\ pc[r] = "forward"
              BY <2>3 DEF Forward, Workers
        <5>2. socket_[dst[r]] \in Sockets
              BY <1>1, <5>1, RegistryAssumption
                 DEF WorkersTypeOK, TypeOK, SessionsHaveSockets, SessionsTypeOK
        <5>3. msg[r] \in Seq(Values) /\ Len(msg[r]) = DATA_MESSAGE_SIZE
              BY <1>1, <5>1 DEF WorkersTypeOK
        <5> QED BY <3>1, <5>2, <5>3 DEF Tasks
      <4>3. /\ DOMAIN Append(q, e) = 1 .. Len(q) + 1
            /\ \A j \in 1 .. Len(q) : Append(q, e)[j] = q[j]
            /\ Append(q, e)[Len(q) + 1] = e
        <5>1. Append(q, e) \in Seq(Tasks) /\ Len(Append(q, e)) = Len(q) + 1
              BY <4>1, <4>2, AppendProperties
        <5> QED BY <4>1, <4>2, <5>1, AppendProperties, LenProperties
      <4> QED BY <4>1, <4>3
    <3>3. e.msg = msg[r]
          BY <3>1
    <3> QED BY <1>2, <2>1, <2>3, <3>1, <3>2, <3>3, WherePassed DEF IsPassed
  <2> QED BY <1>4, <2>2, <2>3, ReaderStep
<1>5. ASSUME NEW w \in Writers, Writer(w)
      PROVE  m \in Passed
  <2>1. /\ \A v \in Writers \ {w} : pc'[v] = pc[v] /\ msg'[v] = msg[v]
        /\ w \in Workers
        BY <1>5, WriterStep DEF Workers, SameLocals
  <2>2. ASSUME NEW d \in Conns, NEW i \in DOMAIN outbox'[d], m = outbox'[d][i]
        PROVE  m \in Passed
    <3>1. CASE outbox' = outbox
          BY <2>2, <3>1, WherePassed DEF IsPassed
    <3>2. CASE SendOk(w)
      <4>1. /\ pc[w] = "send" /\ msg[w] \in Seq(Values)
            /\ outbox' = [outbox EXCEPT ![Behind(w)] = Append(@, msg[w])]
            BY <1>1, <2>1, <3>2 DEF SendOk, WorkersTypeOK
      <4>2. CASE d # Behind(w)
            BY <1>1, <2>2, <4>1, <4>2, WherePassed DEF IsPassed
      <4>3. CASE d = Behind(w)
        <5>1. PICK s, e : s = outbox[d] /\ e = msg[w] /\ outbox'[d] = Append(s, e)
              BY <1>1, <4>1, <4>3
        <5>2. s \in Seq(Seq(Values)) /\ e \in Seq(Values)
              BY <1>1, <4>1, <5>1
        <5>3. (i \in DOMAIN s /\ Append(s, e)[i] = s[i]) \/ Append(s, e)[i] = e
          <6>1. /\ Len(s) \in Nat /\ DOMAIN s = 1 .. Len(s)
                /\ DOMAIN Append(s, e) = 1 .. Len(s) + 1
                /\ \A j \in 1 .. Len(s) : Append(s, e)[j] = s[j]
                /\ Append(s, e)[Len(s) + 1] = e
                BY <5>2, AppendProperties, LenProperties
          <6> QED BY <2>2, <5>1, <6>1
        <5>4. e \in Passed
              BY <4>1, <5>1, WherePassed DEF IsPassed
        <5> QED BY <2>2, <5>1, <5>3, <5>4, WherePassed DEF IsPassed
      <4> QED BY <4>2, <4>3
    <3>3. ~ SendPartial(w)
          BY DEF SendPartial
    <3> QED BY <1>5, <3>1, <3>2, <3>3, WriterStep
  <2>3. /\ \A i \in DOMAIN ready_write_sockets_queue_' :
              ready_write_sockets_queue_'[i].msg \in Passed
        /\ WritePop(w) => msg'[w] \in Passed
    <3>1. CASE ~ WritePop(w)
          BY <1>5, <3>1, WriterStep, WherePassed DEF IsPassed
    <3>2. CASE WritePop(w)
      <4>1. PICK q : /\ q = ready_write_sockets_queue_ /\ q # <<>>
                     /\ ready_write_sockets_queue_' = Tail(q)
                     /\ msg' = [msg EXCEPT ![w] = Head(q).msg]
            BY <3>2 DEF WritePop
      <4>2. /\ Len(q) \in Nat \ {0} /\ DOMAIN q = 1 .. Len(q) /\ Head(q) = q[1]
            /\ DOMAIN Tail(q) = 1 .. Len(q) - 1
            /\ \A i \in 1 .. Len(q) - 1 : Tail(q)[i] = q[i + 1]
            BY <1>1, <4>1, HeadTailProperties, LenProperties, EmptySeq
      <4>3. /\ 1 \in DOMAIN q
            /\ \A i \in DOMAIN Tail(q) : i + 1 \in DOMAIN q /\ Tail(q)[i] = q[i + 1]
            BY <4>2
      <4>4. msg'[w] = q[1].msg
            BY <1>1, <2>1, <4>1, <4>2 DEF WorkersTypeOK
      <4> QED BY <4>1, <4>3, <4>4, WherePassed DEF IsPassed
    <3> QED BY <3>1, <3>2
  <2>4. pc'[w] # "pop" => msg'[w] \in Passed
        BY <1>5, <2>3, WriterStep, WherePassed DEF IsPassed
  <2>5. \A v \in Writers : pc'[v] # "pop" => msg'[v] \in Passed
        BY <2>1, <2>4, WherePassed DEF IsPassed
  <2> QED BY <1>2, <2>2, <2>3, <2>5
<1> QED BY <1>3, <1>4, <1>5, OtherStep

\* The k-th message of a stream: its three chunks, if the stream has them.
LEMMA MessageChunks ==
    ASSUME NEW c \in Conns, NEW k \in Nat \ {0}
    PROVE  /\ k \in MessagesOf(c) <=> 1 + 3 * k <= Len(Stream[c])
           /\ k \in MessagesOf(c) =>
                 /\ Message(c, k) \in Seq(Values) /\ Len(Message(c, k)) = 3
                 /\ \A i \in 1 .. 3 : Message(c, k)[i] = Stream[c][3 * k - 2 + i]
<1>1. Stream[c] \in Seq(Values) /\ Len(Stream[c]) \in Nat
      BY PeersAssumption, LenProperties
<1>2. k \in MessagesOf(c) <=> 1 + 3 * k <= Len(Stream[c])
  <2>1. PICK n \in Nat : n = Len(Stream[c])
        BY <1>1
  <2>2. k \in 1 .. (n - 1) \div 3 <=> 1 + 3 * k <= n
        OBVIOUS
  <2>3. MessagesOf(c) = 1 .. (n - 1) \div 3
        BY <2>1 DEF MessagesOf, ID_MESSAGE_SIZE, DATA_MESSAGE_SIZE
  <2> QED BY <2>1, <2>2, <2>3, Zenon
<1>3. ASSUME k \in MessagesOf(c)
      PROVE  /\ Message(c, k) \in Seq(Values) /\ Len(Message(c, k)) = 3
             /\ \A i \in 1 .. 3 : Message(c, k)[i] = Stream[c][3 * k - 2 + i]
  <2>1. PICK s, a, b : s = Stream[c] /\ a = 3 * k - 1 /\ b = 3 * k + 1
        OBVIOUS
  <2>2. Message(c, k) = SubSeq(s, a, b)
    <3>1. ID_MESSAGE_SIZE + (k - 1) * DATA_MESSAGE_SIZE + 1 = a
          BY <2>1 DEF ID_MESSAGE_SIZE, DATA_MESSAGE_SIZE
    <3>2. ID_MESSAGE_SIZE + k * DATA_MESSAGE_SIZE = b
          BY <2>1 DEF ID_MESSAGE_SIZE, DATA_MESSAGE_SIZE
    <3> QED BY <2>1, <3>1, <3>2 DEF Message
  <2>3. a \in 1 .. Len(s) + 1 /\ b \in 0 .. Len(s) /\ a \in Int /\ b \in Int
        BY <1>1, <1>2, <1>3, <2>1
  <2>4. a <= b /\ b - a + 1 = 3
        BY <2>1
  <2>5. /\ SubSeq(s, a, b) \in Seq(Values) /\ Len(SubSeq(s, a, b)) = b - a + 1
        /\ \A i \in 1 .. b - a + 1 : SubSeq(s, a, b)[i] = s[a + i - 1]
        BY <1>1, <2>1, <2>3, <2>4, SubSeqProperties
  <2>6. \A i \in 1 .. 3 : a + i - 1 = 3 * k - 2 + i
        BY <2>1
  <2> QED BY <2>1, <2>2, <2>4, <2>5, <2>6
<1> QED BY <1>2, <1>3

\* The numbers of a stream.
LEMMA StreamNumbers ==
    ASSUME TypeOK, NEW c \in Conns, StreamRead(c)
    PROVE  /\ sent[c] \in Nat /\ Len(inbox[c]) \in Nat /\ Len(Stream[c]) \in Nat
           /\ Consumed(c) \in Nat /\ Consumed(c) + Len(inbox[c]) = sent[c]
           /\ sent[c] <= Len(Stream[c])
<1>1. inbox[c] \in Seq(Values) /\ Stream[c] \in Seq(Values)
      BY PeersAssumption DEF TypeOK, KernelTypeOK
<1>2. Len(inbox[c]) \in Nat /\ Len(Stream[c]) \in Nat
      BY <1>1, LenProperties
<1>3. sent[c] \in 0 .. Len(Stream[c]) /\ Len(inbox[c]) <= sent[c]
      BY DEF StreamRead
<1>4. sent[c] \in Nat /\ sent[c] <= Len(Stream[c])
      BY <1>2, <1>3
<1>5. PICK a, b : a = sent[c] /\ b = Len(inbox[c])
      OBVIOUS
<1>6. Consumed(c) = a - b
      BY <1>5 DEF Consumed
<1>7. a - b \in Nat /\ (a - b) + b = a
      BY <1>2, <1>3, <1>4, <1>5
<1> QED BY <1>2, <1>4, <1>5, <1>6, <1>7

\* A reader that reads, or works on what it read, is alone with its session,
\* whose connection is the one behind its socket.
LEMMA ReaderAlone ==
    ASSUME TypeOK, LockInv, NEW r \in Readers,
           pc[r] \in {"read", "add", "route", "forward"}
    PROVE  /\ sess[r] \in Conns /\ sock[r] \in Sockets /\ Behind(r) = sess[r]
           /\ sess[r] # nullptr /\ r \in Workers
           /\ \A u \in Readers :
                 pc[u] \in {"read", "add", "route", "forward"} /\ sess[u] = sess[r]
                     => u = r
<1>1. r \in Workers
      BY DEF Workers
<1>2. sess[r] \in Conns /\ sock[r] \in Sockets
      BY <1>1 DEF TypeOK, WorkersTypeOK
<1>3. Behind(r) = sess[r]
      BY <1>1 DEF LockInv, DescriptorsNotReused, Behind
<1>4. \A u \in Readers :
          pc[u] \in {"read", "add", "route", "forward"} => mutex_[sess[u]] = u
      BY DEF LockInv, ReaderSessionStable
<1> QED BY <1>1, <1>2, <1>3, <1>4, RegistryAssumption

\* What a complete read takes: the id from the start of the stream, or a whole
\* message.
LEMMA FullRead ==
    ASSUME TypeOK, LockInv, NEW r \in Readers, ReadFull(r), NEW c \in Conns,
           c = sess[r], StreamRead(c), IdComesFirst(c)
    PROVE  \E n \in {1, 3} :
               /\ n <= Len(inbox[c])
               /\ msg'[r] = SubSeq(inbox[c], 1, n)
               /\ inbox' = [inbox EXCEPT ![c] = SubSeq(inbox[c], n + 1, Len(inbox[c]))]
               /\ sent' = sent /\ sess'[r] = c /\ id_' = id_
               /\ n = 1 => id_[c] = NONE /\ Consumed(c) = 0 /\ pc'[r] = "add"
               /\ n = 3 => id_[c] # NONE /\ Consumed(c) % 3 = 1 /\ pc'[r] = "route"
<1>1. pc[r] = "read"
      BY DEF ReadFull
<1>2. /\ sess[r] \in Conns /\ sock[r] \in Sockets /\ Behind(r) = c /\ c # nullptr
      /\ r \in Workers
      /\ \A u \in Readers : ~ (pc[u] = "add" /\ sess[u] = c)
      BY <1>1, ReaderAlone
<1>3. Received(r) = inbox[c]
      BY <1>2 DEF Received
<1>4. PICK n : n = Wanted(r)
      OBVIOUS
<1>5. n = IF id_[c] = NONE THEN 1 ELSE 3
      BY <1>4 DEF Wanted, ID_MESSAGE_SIZE, DATA_MESSAGE_SIZE
<1>6. n \in {1, 3} /\ n <= Len(inbox[c])
  <2>1. Len(inbox[c]) >= n /\ n \in {1, 3} /\ Len(inbox[c]) \in Nat
        BY <1>3, <1>4, <1>5, StreamNumbers DEF ReadFull
  <2> QED BY <2>1
<1>7. inbox[c] # <<>>
  <2>1. Len(inbox[c]) # 0
        BY <1>6, StreamNumbers
  <2> QED BY <2>1
<1>8. Consumed(c) = 0 <=> id_[c] = NONE
      BY <1>2, <1>7 DEF IdComesFirst, BeingNamed
<1>9. /\ sent' = sent /\ id_' = id_ /\ sess'[r] = c
      /\ pc'[r] = IF id_[c] = NONE THEN "add" ELSE "route"
      /\ msg'[r] = SubSeq(inbox[c], 1, n)
      BY <1>2, <1>3, <1>4 DEF ReadFull, Goto, objects, TypeOK, WorkersTypeOK
<1>10. inbox' = [inbox EXCEPT ![c] = SubSeq(inbox[c], n + 1, Len(inbox[c]))]
  <2>1. inbox' = [d \in Conns |-> IF d = c THEN SubSeq(inbox[d], n + 1, Len(inbox[d]))
                                           ELSE inbox[d]]
        BY <1>2, <1>4 DEF ReadFull, Consume
  <2>2. inbox \in [Conns -> Seq(Values)]
        BY DEF TypeOK, KernelTypeOK
  <2> QED BY <2>1, <2>2
<1>11. n = 3 => Consumed(c) % 3 = 1
       BY <1>5, <1>8 DEF StreamRead
<1>12. /\ n = 1 => id_[c] = NONE
       /\ n = 3 => id_[c] # NONE
       BY <1>5
<1> QED BY <1>6, <1>8, <1>9, <1>10, <1>11, <1>12

\* No read finds a part of a message.
LEMMA NoPartialRead ==
    ASSUME TypeOK, LockInv, NEW r \in Readers, ReadPartial(r), NEW c \in Conns,
           c = sess[r], StreamRead(c), IdComesFirst(c)
    PROVE  FALSE
<1>1. pc[r] = "read"
      BY DEF ReadPartial
<1>2. Behind(r) = c /\ c # nullptr /\ \A u \in Readers : ~ (pc[u] = "add" /\ sess[u] = c)
      BY <1>1, ReaderAlone
<1>3. Received(r) = inbox[c]
      BY <1>2 DEF Received
<1>4. Wanted(r) = IF id_[c] = NONE THEN 1 ELSE 3
      BY DEF Wanted, ID_MESSAGE_SIZE, DATA_MESSAGE_SIZE
<1>5. PICK n \in Nat : n = Len(inbox[c]) /\ n \in 1 .. Wanted(r) - 1
      BY <1>3, StreamNumbers DEF ReadPartial
<1>6. id_[c] # NONE /\ n \in {1, 2}
  <2>1. 1 .. 1 - 1 = {} /\ 1 .. 3 - 1 = {1, 2}
        OBVIOUS
  <2> QED BY <1>4, <1>5, <2>1, Zenon
<1>7. inbox[c] # <<>>
      BY <1>5, <1>6
<1>8. Consumed(c) # 0
      BY <1>2, <1>6, <1>7 DEF IdComesFirst, BeingNamed
<1>9. PICK a \in Nat, b \in Nat : a = Consumed(c) /\ b = sent[c] /\ a + n = b
      BY <1>5, StreamNumbers
<1>10. a % 3 = 1 /\ (b = 0 \/ b % 3 = 1)
       BY <1>8, <1>9 DEF StreamRead
<1> QED BY <1>6, <1>9, <1>10

\* What a step does to the stream of c.
LEMMA BufferStep ==
    ASSUME TypeOK, LockInv, [Next]_vars, NEW c \in Conns,
           \A d \in Conns : StreamRead(d) /\ IdComesFirst(d)
    PROVE  \/ sent'[c] = sent[c] /\ inbox'[c] = inbox[c]
           \/ PeerSend(c)
           \/ /\ sent'[c] = sent[c] /\ inbox'[c] = <<>>
              /\ peer'[c] \notin {"new", "open"}
           \/ \E r \in Readers : ReadFull(r) /\ sess[r] = c
<1>1. /\ inbox \in [Conns -> Seq(Values)] /\ sent \in [Conns -> Nat]
      /\ peer \in [Conns -> PeerStates]
      BY DEF TypeOK, KernelTypeOK
<1>2. ASSUME NEW d \in Conns, Peer(d), ~ PeerSend(c)
      PROVE  \/ sent'[c] = sent[c] /\ inbox'[c] = inbox[c]
             \/ /\ sent'[c] = sent[c] /\ inbox'[c] = <<>>
                /\ peer'[c] \notin {"new", "open"}
      BY <1>1, <1>2 DEF Peer, PeerConnect, PeerSend, PeerClose, PeerReset
<1>3. CASE AcceptRefused
  <2>1. Head(backlog) \in Conns
        BY <1>3, BacklogTail DEF AcceptRefused, TypeOK, ListenerTypeOK, LockInv
  <2> QED BY <1>1, <1>3, <2>1 DEF AcceptRefused
<1>4. ASSUME NEW r \in Readers, ReadFull(r), sess[r] # c
      PROVE  sent'[c] = sent[c] /\ inbox'[c] = inbox[c]
  <2>1. Behind(r) = sess[r] /\ sess[r] \in Conns
        BY <1>4, ReaderAlone DEF ReadFull
  <2> QED BY <1>1, <1>4, <2>1 DEF ReadFull, Consume
<1>5. ASSUME NEW r \in Readers, ReadPartial(r)
      PROVE  FALSE
  <2>1. sess[r] \in Conns
        BY <1>5, ReaderAlone DEF ReadPartial
  <2> QED BY <1>5, <2>1, NoPartialRead
<1>6. ASSUME NEW r \in Readers, ReadError(r)
      PROVE  \/ sent'[c] = sent[c] /\ inbox'[c] = inbox[c]
             \/ /\ sent'[c] = sent[c] /\ inbox'[c] = <<>>
                /\ peer'[c] \notin {"new", "open"}
  <2>1. Behind(r) = sess[r] /\ sess[r] \in Conns /\ sess[r] # nullptr
        BY <1>6, ReaderAlone DEF ReadError
  <2>2. sent' = sent /\ peer' = peer /\ Consume(r, Len(Received(r)))
        BY <1>6 DEF ReadError
  <2>3. CASE sess[r] # c
        BY <1>1, <2>1, <2>2, <2>3 DEF Consume
  <2>4. CASE sess[r] = c
    <3>1. Received(r) = inbox[c]
          BY <2>1, <2>4 DEF Received
    <3>2. inbox'[c] = SubSeq(inbox[c], Len(inbox[c]) + 1, Len(inbox[c]))
          BY <2>1, <2>2, <2>4, <3>1 DEF Consume
    <3>3. Len(inbox[c]) \in Nat
          BY <1>1, LenProperties
    <3>4. Len(inbox[c]) + 1 \in Int /\ Len(inbox[c]) \in Int
          /\ Len(inbox[c]) < Len(inbox[c]) + 1
          BY <3>3
    <3>5. inbox'[c] = <<>>
          BY <3>2, <3>4, SubSeqEmpty
    <3>6. peer[c] \in {"closed", "reset"}
          BY <1>6, <2>1, <2>4 DEF ReadError, Gone, Ended
    <3> QED BY <2>2, <3>5, <3>6
  <2> QED BY <2>3, <2>4
<1>7. ASSUME NEW r \in Readers, AddNode(r)
      PROVE  UNCHANGED <<sent, inbox>>
      BY <1>7 DEF AddNode, kernel
<1> QED BY <1>2, <1>3, <1>4, <1>5, <1>6, <1>7, StreamSteps

\* The buffer after a segment has arrived.
LEMMA SegmentExtends ==
    ASSUME TypeOK, WholeMessages, NEW c \in Conns, StreamRead(c), PeerSend(c)
    PROVE  /\ sent'[c] \in 0 .. Len(Stream[c]) /\ sent'[c] % 3 = 1
           /\ sent'[c] - Len(inbox'[c]) = Consumed(c) /\ Len(inbox'[c]) <= sent'[c]
           /\ \A i \in 1 .. Len(inbox'[c]) : inbox'[c][i] = Stream[c][Consumed(c) + i]
<1>1. PICK cut \in Cuts[c] :
          /\ cut > sent[c]
          /\ inbox'[c] = inbox[c] \o SubSeq(Stream[c], sent[c] + 1, cut)
          /\ sent'[c] = cut
      BY DEF PeerSend, TypeOK, KernelTypeOK
<1>2. Stream[c] \in Seq(Values) /\ inbox[c] \in Seq(Values) /\ cut \in 1 .. Len(Stream[c])
      BY PeersAssumption DEF TypeOK, KernelTypeOK
<1>3. cut % 3 = 1
  <2>1. (cut - 1) % 3 = 0
        BY DEF WholeMessages, ID_MESSAGE_SIZE, DATA_MESSAGE_SIZE
  <2>2. cut \in Int
        BY <1>2
  <2> QED BY <2>1, <2>2
<1>4. PICK a \in Nat, n \in Nat, m \in Nat, k \in Nat :
          /\ a = Consumed(c) /\ n = Len(inbox[c]) /\ m = sent[c] /\ a + n = m
          /\ k = Len(Stream[c])
      BY StreamNumbers
<1>5. cut \in Nat /\ m < cut /\ cut <= k
      BY <1>1, <1>2, <1>4
<1>6. PICK t : t = SubSeq(Stream[c], m + 1, cut)
      OBVIOUS
<1>7. /\ t \in Seq(Values) /\ Len(t) = cut - m
      /\ \A i \in 1 .. cut - m : t[i] = Stream[c][m + i]
  <2>1. /\ m + 1 \in Int /\ cut \in Int /\ m + 1 <= cut /\ cut - (m + 1) + 1 = cut - m
        /\ \A i \in m + 1 .. cut : i \in 1 .. k
        /\ \A i \in 1 .. cut - m : m + 1 + i - 1 = m + i
        BY <1>5
  <2>2. \A i \in m + 1 .. cut : Stream[c][i] \in Values
        BY <1>2, <1>4, <2>1, ElementOfSeq
  <2>3. /\ t \in Seq(Values)
        /\ Len(t) = IF m + 1 <= cut THEN cut - (m + 1) + 1 ELSE 0
        /\ \A i \in 1 .. cut - (m + 1) + 1 : t[i] = Stream[c][m + 1 + i - 1]
        BY <1>6, <2>1, <2>2, SubSeqProperties
  <2> QED BY <2>1, <2>3
<1>8. PICK s : s = inbox[c]
      OBVIOUS
<1>9. /\ inbox'[c] = s \o t /\ Len(s \o t) = n + (cut - m)
      /\ \A i \in 1 .. n + (cut - m) : (s \o t)[i] = IF i <= n THEN s[i] ELSE t[i - n]
  <2>1. inbox'[c] = s \o t
        BY <1>1, <1>4, <1>6, <1>8
  <2>2. /\ Len(s \o t) = Len(s) + Len(t)
        /\ \A i \in 1 .. Len(s) + Len(t) :
              (s \o t)[i] = IF i <= Len(s) THEN s[i] ELSE t[i - Len(s)]
        BY <1>2, <1>7, <1>8, ConcatProperties
  <2> QED BY <1>4, <1>7, <1>8, <2>1, <2>2
<1>10. \A i \in 1 .. n : s[i] = Stream[c][a + i]
       BY <1>4, <1>8 DEF StreamRead
<1>11. ASSUME NEW i \in 1 .. n + (cut - m)
       PROVE  (s \o t)[i] = Stream[c][a + i]
  <2>1. CASE i <= n
    <3>1. i \in 1 .. n
          BY <2>1
    <3> QED BY <1>9, <1>10, <2>1, <3>1
  <2>2. CASE ~ (i <= n)
    <3>1. i \in Int /\ i <= n + (cut - m) /\ m = a + n
          BY <1>4, <1>5
    <3>2. i - n \in 1 .. cut - m /\ m + (i - n) = a + i
          BY <1>5, <2>2, <3>1
    <3> QED BY <1>7, <1>9, <2>2, <3>2
  <2> QED BY <2>1, <2>2
<1>12. cut - (n + (cut - m)) = a /\ n + (cut - m) <= cut /\ cut \in 0 .. k
       BY <1>4, <1>5
<1> QED BY <1>1, <1>3, <1>4, <1>9, <1>11, <1>12

\* The text a complete read takes, and where it leaves the stream.
LEMMA FullReadTakes ==
    ASSUME TypeOK, NEW c \in Conns, StreamRead(c), NEW n \in {1, 3},
           n <= Len(inbox[c]),
           inbox' = [inbox EXCEPT ![c] = SubSeq(inbox[c], n + 1, Len(inbox[c]))],
           sent' = sent
    PROVE  /\ Consumed(c)' = Consumed(c) + n
           /\ Len(inbox'[c]) <= sent[c]
           /\ \A i \in 1 .. Len(inbox'[c]) :
                 inbox'[c][i] = Stream[c][Consumed(c)' + i]
           /\ SubSeq(inbox[c], 1, n) \in Seq(Values)
           /\ Len(SubSeq(inbox[c], 1, n)) = n
           /\ \A i \in 1 .. n :
                 SubSeq(inbox[c], 1, n)[i] = Stream[c][Consumed(c) + i]
<1>1. PICK s : s = inbox[c] /\ s \in Seq(Values)
      BY DEF TypeOK, KernelTypeOK
<1>2. PICK a \in Nat, l \in Nat, m \in Nat :
          a = Consumed(c) /\ l = Len(s) /\ m = sent[c] /\ a + l = m
      BY <1>1, StreamNumbers
<1>3. inbox'[c] = SubSeq(s, n + 1, l)
      BY <1>1, <1>2 DEF TypeOK, KernelTypeOK
<1>4. n \in Nat /\ n >= 1 /\ n <= l
      BY <1>1, <1>2
<1>5. \A i \in 1 .. l : s[i] \in Values /\ s[i] = Stream[c][a + i]
      BY <1>1, <1>2, ElementOfSeq DEF StreamRead
<1>6. /\ Len(SubSeq(s, n + 1, l)) = l - n
      /\ \A i \in 1 .. l - n : SubSeq(s, n + 1, l)[i] = s[n + i]
  <2>1. n + 1 \in Int /\ l \in Int /\ l - (n + 1) + 1 = l - n
        /\ (\A i \in n + 1 .. l : i \in 1 .. l)
        /\ (\A i \in 1 .. l - n : n + 1 + i - 1 = n + i)
        /\ (IF n + 1 <= l THEN l - (n + 1) + 1 ELSE 0) = l - n
        BY <1>4
  <2>2. \A i \in n + 1 .. l : s[i] \in Values
        BY <1>5, <2>1
  <2>3. /\ Len(SubSeq(s, n + 1, l)) = IF n + 1 <= l THEN l - (n + 1) + 1 ELSE 0
        /\ \A i \in 1 .. l - (n + 1) + 1 : SubSeq(s, n + 1, l)[i] = s[n + 1 + i - 1]
        BY <2>1, <2>2, SubSeqProperties
  <2> QED BY <2>1, <2>3
<1>7. /\ SubSeq(s, 1, n) \in Seq(Values) /\ Len(SubSeq(s, 1, n)) = n
      /\ \A i \in 1 .. n : SubSeq(s, 1, n)[i] = s[i]
  <2>1. 1 \in Int /\ n \in Int /\ n - 1 + 1 = n
        /\ (\A i \in 1 .. n : i \in 1 .. l /\ 1 + i - 1 = i)
        /\ (IF 1 <= n THEN n - 1 + 1 ELSE 0) = n
        BY <1>4
  <2>2. \A i \in 1 .. n : s[i] \in Values
        BY <1>5, <2>1
  <2>3. /\ SubSeq(s, 1, n) \in Seq(Values)
        /\ Len(SubSeq(s, 1, n)) = IF 1 <= n THEN n - 1 + 1 ELSE 0
        /\ \A i \in 1 .. n - 1 + 1 : SubSeq(s, 1, n)[i] = s[1 + i - 1]
        BY <2>1, <2>2, SubSeqProperties
  <2> QED BY <2>1, <2>3
<1>8. Consumed(c)' = a + n
  <2>1. Consumed(c)' = m - (l - n)
        BY <1>2, <1>3, <1>6 DEF Consumed
  <2>2. m - (l - n) = a + n
        BY <1>2, <1>4
  <2> QED BY <2>1, <2>2
<1>9. ASSUME NEW i \in 1 .. l - n
      PROVE  SubSeq(s, n + 1, l)[i] = Stream[c][(a + n) + i]
  <2>1. n + i \in 1 .. l /\ a + (n + i) = (a + n) + i
        BY <1>4
  <2> QED BY <1>5, <1>6, <2>1
<1>10. l - n <= m
       BY <1>2, <1>4
<1>11. \A i \in 1 .. n : SubSeq(s, 1, n)[i] = Stream[c][a + i]
  <2>1. \A i \in 1 .. n : i \in 1 .. l
        BY <1>4
  <2> QED BY <1>5, <1>7, <2>1
<1> QED BY <1>1, <1>2, <1>3, <1>6, <1>7, <1>8, <1>9, <1>10, <1>11

\* A stream is read in order, and nothing is put back.
LEMMA StreamReadNext ==
    ASSUME TypeOK, LockInv, WholeMessages, [Next]_vars, NEW c \in Conns,
           \A d \in Conns : StreamRead(d) /\ IdComesFirst(d)
    PROVE  StreamRead(c)' /\ Consumed(c)' \in Nat /\ Consumed(c) <= Consumed(c)'
<1>1. PICK a \in Nat, n \in Nat, m \in Nat, k \in Nat :
          /\ a = Consumed(c) /\ n = Len(inbox[c]) /\ m = sent[c] /\ a + n = m
          /\ k = Len(Stream[c]) /\ m <= k
      BY StreamNumbers
<1>2. CASE sent'[c] = sent[c] /\ inbox'[c] = inbox[c]
  <2>1. Consumed(c)' = Consumed(c)
        BY <1>2 DEF Consumed
  <2> QED BY <1>1, <1>2, <2>1 DEF StreamRead
<1>3. CASE PeerSend(c)
  <2>1. Consumed(c)' = Consumed(c)
        BY <1>3, SegmentExtends DEF Consumed
  <2>2. StreamRead(c)'
        BY <1>3, <2>1, SegmentExtends DEF StreamRead
  <2> QED BY <1>1, <2>1, <2>2
<1>4. CASE sent'[c] = sent[c] /\ inbox'[c] = <<>>
  <2>1. Len(inbox'[c]) = 0 /\ 1 .. 0 = {} /\ m - 0 = m /\ 0 <= m /\ a <= m
        BY <1>1, <1>4
  <2>2. Consumed(c)' = m
        BY <1>1, <1>4, <2>1 DEF Consumed
  <2>3. sent[c] \in 0 .. Len(Stream[c]) /\ (sent[c] = 0 \/ sent[c] % 3 = 1)
        BY DEF StreamRead
  <2>4. StreamRead(c)'
        BY <1>1, <1>4, <2>1, <2>2, <2>3 DEF StreamRead
  <2> QED BY <1>1, <2>1, <2>2, <2>4
<1>5. ASSUME NEW r \in Readers, ReadFull(r), sess[r] = c
      PROVE  StreamRead(c)' /\ Consumed(c)' \in Nat /\ Consumed(c) <= Consumed(c)'
  <2>1. PICK j \in {1, 3} :
            /\ j <= Len(inbox[c])
            /\ inbox' = [inbox EXCEPT ![c] = SubSeq(inbox[c], j + 1, Len(inbox[c]))]
            /\ sent' = sent
            /\ j = 1 => Consumed(c) = 0
            /\ j = 3 => Consumed(c) % 3 = 1
        BY <1>5, FullRead
  <2>2. /\ Consumed(c)' = a + j /\ Len(inbox'[c]) <= sent'[c]
        /\ \A i \in 1 .. Len(inbox'[c]) :
              inbox'[c][i] = Stream[c][Consumed(c)' + i]
        BY <1>1, <2>1, FullReadTakes
  <2>3. (a + j) % 3 = 1 /\ a + j \in Nat /\ a <= a + j
    <3>1. CASE j = 1
          BY <1>1, <2>1, <3>1
    <3>2. CASE j = 3
      <4>1. a % 3 = 1
            BY <1>1, <2>1, <3>2
      <4> QED BY <3>2, <4>1
    <3> QED BY <3>1, <3>2
  <2>4. sent'[c] \in 0 .. Len(Stream[c]) /\ (sent'[c] = 0 \/ sent'[c] % 3 = 1)
        BY <2>1 DEF StreamRead
  <2>5. StreamRead(c)'
        BY <2>2, <2>3, <2>4 DEF StreamRead
  <2> QED BY <1>1, <2>2, <2>3, <2>5
<1> QED BY <1>2, <1>3, <1>4, <1>5, BufferStep

\* A connection that has ended does not come back.
LEMMA PeerStays ==
    ASSUME TypeOK, LockInv, [Next]_vars, NEW c \in Conns, peer'[c] \in {"new", "open"}
    PROVE  peer[c] \in {"new", "open"}
<1>1. peer \in [Conns -> PeerStates]
      BY DEF TypeOK, KernelTypeOK
<1>2. ASSUME NEW d \in Conns, Peer(d)
      PROVE  peer[c] \in {"new", "open"}
      BY <1>1, <1>2 DEF Peer, PeerConnect, PeerSend, PeerClose, PeerReset
<1>3. CASE AcceptRefused
  <2>1. Head(backlog) \in Conns
        BY <1>3, BacklogTail DEF AcceptRefused, TypeOK, ListenerTypeOK, LockInv
  <2> QED BY <1>1, <1>3, <2>1 DEF AcceptRefused
<1>4. ASSUME NEW r \in Readers,
             ReadFull(r) \/ ReadPartial(r) \/ ReadError(r) \/ AddNode(r)
      PROVE  peer' = peer
      BY <1>4 DEF ReadFull, ReadPartial, ReadError, AddNode, kernel
<1> QED BY <1>2, <1>3, <1>4, StreamSteps

\* The session of c gets its id from a reader that has read it, and from
\* nobody else.
LEMMA NamingStep ==
    ASSUME TypeOK, LockInv, AddsOnce, WholeMessages, NamesRead, [Next]_vars,
           NEW c \in Conns
    PROVE  \/ \E r \in Readers : ReadFull(r) /\ sess[r] = c
           \/ BeingNamed(c) /\ id_'[c] # NONE
           \/ id_'[c] = id_[c] /\ (BeingNamed(c)' <=> BeingNamed(c))
<1>1. id_ \in [Conns -> Values] /\ \A r \in Readers : r \in Workers
      BY DEF TypeOK, SessionsTypeOK, Workers
<1>2. CASE UNCHANGED <<workers, ready_write_sockets_queue_, outbox, id_>>
      BY <1>2 DEF BeingNamed, workers
<1>3. ASSUME NEW r \in Readers, ReadFull(r) \/ ReadPartial(r) \/ ReadError(r),
             ~ (ReadFull(r) /\ sess[r] = c)
      PROVE  id_'[c] = id_[c] /\ (BeingNamed(c)' <=> BeingNamed(c))
  <2>1. id_' = id_ /\ pc[r] = "read" /\ sess'[r] = sess[r]
        BY <1>3 DEF ReadFull, ReadPartial, ReadError, objects, workers
  <2>2. \A u \in Readers : u # r => SameLocals(u)
        BY <1>1, <1>3, ReaderStep DEF Reader
  <2>3. pc'[r] = "add" => ReadFull(r)
        BY <1>3, ReaderStep DEF Reader
  <2> QED BY <1>3, <2>1, <2>2, <2>3 DEF BeingNamed, SameLocals
<1>4. ASSUME NEW r \in Readers, AddNode(r)
      PROVE  \/ BeingNamed(c) /\ id_'[c] # NONE
             \/ id_'[c] = id_[c] /\ (BeingNamed(c)' <=> BeingNamed(c))
  <2>1. pc[r] = "add" /\ sess'[r] = sess[r]
        BY <1>4 DEF AddNode
  <2>2. pc'[r] # "add"
        BY <1>1, <1>4 DEF AddNode, Goto, TypeOK, WorkersTypeOK
  <2>3. \A u \in Readers : u # r => SameLocals(u)
        BY <1>1, <1>4, ReaderStep DEF Reader
  <2>4. CASE sess[r] # c
    <3>1. id_'[c] = id_[c]
          BY <1>1, <1>4, <2>4, AddNodeNamesOwn
    <3> QED BY <2>1, <2>2, <2>3, <2>4, <3>1 DEF BeingNamed, SameLocals
  <2>5. CASE sess[r] = c
    <3>1. Stream[c] # <<>> /\ msg[r][1] = Stream[c][1]
          BY <2>1, <2>5 DEF NamesRead
    <3>2. msg[r][1] # NONE /\ msg[r][1] < MAX_CLIENTS_COUNT
          BY <3>1 DEF WholeMessages
    <3>3. Len(Stream[c]) \in Nat \ {0} /\ Stream[c] \in Seq(Values)
          BY <3>1, PeersAssumption, LenProperties, EmptySeq
    <3>4. msg[r][1] \in Int /\ MAX_CLIENTS_COUNT \in Int
      <4>1. Stream[c][1] \in Values
            BY <3>3, ElementOfSeq
      <4>2. Values \subseteq Int /\ MAX_CLIENTS_COUNT \in Int
            BY RegistryAssumption
      <4> QED BY <3>1, <4>1, <4>2, Zenon
    <3>5. ~ (msg[r][1] >= MAX_CLIENTS_COUNT)
          BY <3>2, <3>4
    <3>6. sessions_by_socket_[sock[r]] = c /\ c # nullptr
          BY <1>4, <2>5, AddNodeNamesOwn, RegistryAssumption
    <3>7. id_' = [id_ EXCEPT ![c] = msg[r][1]]
          BY <1>4, <3>5, <3>6 DEF AddNode, add_node, extract_src_id
    <3> QED BY <1>1, <2>1, <2>5, <3>2, <3>7 DEF BeingNamed
  <2> QED BY <2>4, <2>5
<1>5. CASE /\ UNCHANGED <<peer, sent, inbox, id_>>
           /\ \A r \in Readers :
                 /\ pc'[r] = "add" <=> pc[r] = "add"
                 /\ pc[r] = "add" => sess'[r] = sess[r] /\ msg'[r] = msg[r]
      BY <1>5 DEF BeingNamed
<1>6. ASSUME NEW d \in Conns, Peer(d)
      PROVE  UNCHANGED <<workers, ready_write_sockets_queue_, outbox, id_>>
      BY <1>6 DEF Peer, PeerConnect, PeerSend, PeerClose, PeerReset, queues, objects
<1>7. AcceptRefused => UNCHANGED <<workers, ready_write_sockets_queue_, outbox, id_>>
      BY DEF AcceptRefused, queues, objects
<1> QED BY <1>2, <1>3, <1>4, <1>5, <1>6, <1>7, StreamSteps

\* The id of a connection is still the first thing read from it.
LEMMA IdComesFirstNext ==
    ASSUME TypeOK, LockInv, AddsOnce, WholeMessages, NamesRead, [Next]_vars,
           \A d \in Conns : StreamRead(d) /\ IdComesFirst(d), NEW c \in Conns
    PROVE  IdComesFirst(c)'
<1>1. ASSUME NEW r \in Readers, ReadFull(r), sess[r] = c
      PROVE  IdComesFirst(c)'
  <2>1. PICK j \in {1, 3} :
            /\ j <= Len(inbox[c])
            /\ inbox' = [inbox EXCEPT ![c] = SubSeq(inbox[c], j + 1, Len(inbox[c]))]
            /\ sent' = sent /\ sess'[r] = c /\ id_' = id_
            /\ j = 1 => pc'[r] = "add"
            /\ j = 3 => id_[c] # NONE
        BY <1>1, FullRead
  <2>2. Consumed(c)' = Consumed(c) + j
        BY <2>1, FullReadTakes
  <2>3. Consumed(c)' # 0
        BY <2>2, StreamNumbers
  <2>4. id_'[c] # NONE \/ BeingNamed(c)'
        BY <2>1 DEF BeingNamed
  <2> QED BY <2>3, <2>4 DEF IdComesFirst
<1>2. ASSUME Consumed(c)' = Consumed(c),
             peer'[c] \in {"new", "open"} \/ inbox'[c] # <<>> =>
                 peer[c] \in {"new", "open"} \/ inbox[c] # <<>>,
             ~ \E r \in Readers : ReadFull(r) /\ sess[r] = c
      PROVE  IdComesFirst(c)'
  <2>1. \/ BeingNamed(c) /\ id_'[c] # NONE
        \/ id_'[c] = id_[c] /\ (BeingNamed(c)' <=> BeingNamed(c))
        BY <1>2, NamingStep
  <2>2. IdComesFirst(c)
        OBVIOUS
  <2> QED BY <1>2, <2>1, <2>2 DEF IdComesFirst
<1>3. CASE ~ \E r \in Readers : ReadFull(r) /\ sess[r] = c
  <2>1. CASE sent'[c] = sent[c] /\ inbox'[c] = inbox[c]
    <3>1. Consumed(c)' = Consumed(c)
          BY <2>1 DEF Consumed
    <3> QED BY <1>2, <1>3, <2>1, <3>1, PeerStays
  <2>2. CASE PeerSend(c)
    <3>1. Consumed(c)' = Consumed(c)
          BY <2>2, SegmentExtends DEF Consumed
    <3>2. peer[c] = "open"
          BY <2>2 DEF PeerSend
    <3> QED BY <1>2, <1>3, <3>1, <3>2
  <2>3. CASE inbox'[c] = <<>> /\ peer'[c] \notin {"new", "open"}
        BY <2>3 DEF IdComesFirst
  <2> QED BY <1>3, <2>1, <2>2, <2>3, BufferStep
<1> QED BY <1>1, <1>3

\* What a reader is about to register is the start of its stream.
LEMMA NamesReadNext ==
    ASSUME TypeOK, LockInv, WholeMessages, NamesRead, [Next]_vars,
           \A d \in Conns : StreamRead(d) /\ IdComesFirst(d)
    PROVE  NamesRead'
<1> SUFFICES ASSUME NEW u \in Readers, pc'[u] = "add"
             PROVE  Stream[sess'[u]] # <<>> /\ msg'[u][1] = Stream[sess'[u]][1]
    BY DEF NamesRead
<1>1. u \in Workers
      BY DEF Workers
<1>2. CASE pc[u] = "add" /\ sess'[u] = sess[u] /\ msg'[u] = msg[u]
      BY <1>2 DEF NamesRead
<1>3. CASE ReadFull(u)
  <2>1. PICK c \in Conns : c = sess[u]
        BY <1>3, ReaderAlone DEF ReadFull
  <2>2. PICK j \in {1, 3} :
            /\ j <= Len(inbox[c]) /\ msg'[u] = SubSeq(inbox[c], 1, j)
            /\ inbox' = [inbox EXCEPT ![c] = SubSeq(inbox[c], j + 1, Len(inbox[c]))]
            /\ sent' = sent /\ sess'[u] = c
            /\ j = 1 => Consumed(c) = 0
            /\ j = 3 => pc'[u] = "route"
        BY <1>3, <2>1, FullRead
  <2>3. j = 1 /\ Consumed(c) = 0
        BY <2>2
  <2>4. \A i \in 1 .. j : msg'[u][i] = Stream[c][Consumed(c) + i]
    <3>1. \A i \in 1 .. j :
              SubSeq(inbox[c], 1, j)[i] = Stream[c][Consumed(c) + i]
          BY <2>2, FullReadTakes
    <3> QED BY <2>2, <3>1, Zenon
  <2>5. msg'[u][1] = Stream[c][1]
        BY <2>3, <2>4
  <2>6. Len(Stream[c]) # 0
        BY <2>2, <2>3, StreamNumbers
  <2> QED BY <2>2, <2>5, <2>6
<1>4. ASSUME NEW r \in Readers, Reader(r)
      PROVE  \/ pc[u] = "add" /\ sess'[u] = sess[u] /\ msg'[u] = msg[u]
             \/ ReadFull(u)
      BY <1>1, <1>4, ReaderStep DEF SameLocals
<1>5. ASSUME NEW w \in Writers, Writer(w)
      PROVE  pc[u] = "add" /\ sess'[u] = sess[u] /\ msg'[u] = msg[u]
      BY <1>1, <1>5, WriterStep, RegistryAssumption DEF SameLocals
<1>6. CASE UNCHANGED <<workers, ready_write_sockets_queue_, outbox, id_>>
      BY <1>2, <1>6 DEF workers
<1> QED BY <1>2, <1>3, <1>4, <1>5, <1>6, OtherStep

\* No two messages are alike.
LEMMA MessagesDiffer ==
    ASSUME WholeMessages, NEW c \in Conns, NEW d \in Conns,
           NEW k \in MessagesOf(c), NEW l \in MessagesOf(d),
           Message(c, k) = Message(d, l)
    PROVE  c = d /\ k = l
BY DEF WholeMessages

\* What is forwarded was read from the stream of a peer.
LEMMA PassedWereReadNext ==
    ASSUME TypeOK, LockInv, WholeMessages, PassedWereRead,
           \A r \in Readers : ReadsNext(r), [Next]_vars,
           \A d \in Conns : StreamRead(d) /\ IdComesFirst(d)
    PROVE  PassedWereRead'
<1> SUFFICES ASSUME NEW m \in Passed'
             PROVE  \E c \in Conns : \E k \in MessagesOf(c) :
                        m = Message(c, k) /\ 1 + 3 * k <= Consumed(c)'
    BY DEF PassedWereRead
<1>1. \E c \in Conns : \E k \in MessagesOf(c) :
          m = Message(c, k) /\ 1 + 3 * k <= Consumed(c)
  <2>1. CASE m \in Passed
        BY <2>1 DEF PassedWereRead
  <2>2. ASSUME NEW r \in Readers, Forward(r), m = msg[r]
        PROVE  \E c \in Conns : \E k \in MessagesOf(c) :
                   m = Message(c, k) /\ 1 + 3 * k <= Consumed(c)
    <3>1. pc[r] = "forward" /\ ReadsNext(r)
          BY <2>2 DEF Forward
    <3>2. sess[r] \in Conns
          BY <3>1, ReaderAlone
    <3> QED BY <2>2, <3>1, <3>2 DEF ReadsNext
  <2>3. SlowPeers = {}
        BY DEF WholeMessages
  <2> QED BY <2>1, <2>2, <2>3, PassedStep
<1>2. PICK c \in Conns : \E k \in MessagesOf(c) :
          m = Message(c, k) /\ 1 + 3 * k <= Consumed(c)
      BY <1>1
<1>3. PICK k \in MessagesOf(c) : m = Message(c, k) /\ 1 + 3 * k <= Consumed(c)
      BY <1>2
<1>4. Consumed(c) \in Nat /\ Consumed(c)' \in Nat /\ Consumed(c) <= Consumed(c)'
      BY StreamNumbers, StreamReadNext
<1>5. k \in Nat
      BY PeersAssumption, LenProperties DEF MessagesOf
<1>6. 1 + 3 * k <= Consumed(c)'
      BY <1>3, <1>4, <1>5
<1> QED BY <1>3, <1>6

\* What a reader at work has in its hands after a step: what it had, or what it
\* has just read.
LEMMA ReaderKeepsMessage ==
    ASSUME TypeOK, [Next]_vars, NEW u \in Readers, pc'[u] \in {"route", "forward"}
    PROVE  \/ /\ pc[u] \in {"route", "forward"} /\ msg'[u] = msg[u]
              /\ sess'[u] = sess[u] /\ ~ Forward(u)
           \/ ReadFull(u) /\ pc'[u] = "route"
<1>1. u \in Workers /\ pc \in [Workers -> ReaderSteps \cup WriterSteps]
      BY DEF Workers, TypeOK, WorkersTypeOK
<1>2. ~ Forward(u)
      BY <1>1 DEF Forward, Goto
<1>3. CASE SameLocals(u)
      BY <1>2, <1>3 DEF SameLocals
<1>4. ASSUME NEW r \in Readers, Reader(r)
      PROVE  SameLocals(u) \/ Route(u) \/ (ReadFull(u) /\ pc'[u] = "route")
      BY <1>1, <1>4, ReaderStep
<1>5. ASSUME Route(u)
      PROVE  pc[u] = "route" /\ msg'[u] = msg[u] /\ sess'[u] = sess[u]
      BY <1>1, <1>5 DEF Route, Return
<1>6. ASSUME NEW w \in Writers, Writer(w)
      PROVE  SameLocals(u)
      BY <1>1, <1>6, WriterStep, RegistryAssumption
<1>7. CASE UNCHANGED <<workers, ready_write_sockets_queue_, outbox, id_>>
      BY <1>3, <1>7 DEF workers, SameLocals
<1> QED BY <1>2, <1>3, <1>4, <1>5, <1>6, <1>7, OtherStep

\* A message a reader has just read is the next one of its stream.
LEMMA ReadIsNext ==
    ASSUME TypeOK, LockInv, WholeMessages, PassedWereRead, [Next]_vars,
           \A d \in Conns : StreamRead(d) /\ IdComesFirst(d),
           NEW u \in Readers, ReadFull(u), pc'[u] = "route"
    PROVE  ReadsNext(u)'
<1>1. PICK c \in Conns : c = sess[u]
      BY ReaderAlone DEF ReadFull
<1>2. PICK j \in {1, 3} :
          /\ j <= Len(inbox[c]) /\ msg'[u] = SubSeq(inbox[c], 1, j)
          /\ inbox' = [inbox EXCEPT ![c] = SubSeq(inbox[c], j + 1, Len(inbox[c]))]
          /\ sent' = sent /\ sess'[u] = c
          /\ j = 1 => pc'[u] = "add"
          /\ j = 3 => Consumed(c) % 3 = 1
      BY <1>1, FullRead
<1>3. j = 3 /\ Consumed(c) % 3 = 1
      BY <1>2
<1>4. PICK a \in Nat, n \in Nat, m \in Nat :
          /\ a = Consumed(c) /\ n = Len(inbox[c]) /\ a + n = m
          /\ m <= Len(Stream[c]) /\ Len(Stream[c]) \in Nat
      BY StreamNumbers
<1>5. PICK k \in Nat \ {0} : a + 2 = 3 * k
  <2>1. a % 3 = 1
        BY <1>3, <1>4
  <2>2. (a + 2) \div 3 \in Nat \ {0} /\ a + 2 = 3 * ((a + 2) \div 3)
        BY <2>1
  <2> QED BY <2>2
<1>6. k \in MessagesOf(c)
  <2>1. 1 + 3 * k <= Len(Stream[c])
        BY <1>2, <1>3, <1>4, <1>5
  <2> QED BY <2>1, MessageChunks
<1>7. Consumed(c)' = a + 3
      BY <1>2, <1>3, <1>4, FullReadTakes
<1>8. msg'[u] = Message(c, k)
  <2>1. PICK t : t = SubSeq(inbox[c], 1, 3)
        OBVIOUS
  <2>2. /\ t \in Seq(Values) /\ Len(t) = 3
        /\ \A i \in 1 .. 3 : t[i] = Stream[c][a + i]
        BY <1>2, <1>3, <1>4, <2>1, FullReadTakes
  <2>3. /\ Message(c, k) \in Seq(Values) /\ Len(Message(c, k)) = 3
        /\ \A i \in 1 .. 3 : Message(c, k)[i] = Stream[c][3 * k - 2 + i]
        BY <1>6, MessageChunks
  <2>4. \A i \in 1 .. 3 : 3 * k - 2 + i = a + i
        BY <1>5
  <2>5. \A i \in 1 .. 3 : t[i] = Message(c, k)[i]
        BY <2>2, <2>3, <2>4
  <2>6. t = Message(c, k)
        BY <2>2, <2>3, <2>5, SeqEqual
  <2> QED BY <1>2, <1>3, <2>1, <2>6
<1>9. ASSUME NEW l \in MessagesOf(c), Message(c, l) \in Passed'
      PROVE  l < k
  <2>1. ASSUME NEW r \in Readers, Forward(r)
        PROVE  FALSE
    <3>1. pc[r] = "forward" /\ pc[u] = "read" /\ r \in Workers /\ u \in Workers
          BY <2>1 DEF Forward, ReadFull, Workers
    <3>2. /\ pc' = [pc EXCEPT ![r] = "read"]
          /\ pc \in [Workers -> ReaderSteps \cup WriterSteps]
          BY <2>1 DEF Forward, Goto, TypeOK, WorkersTypeOK
    <3> QED BY <3>1, <3>2
  <2>2. Message(c, l) \in Passed
    <3>1. PICK x \in Passed' : x = Message(c, l)
          BY <1>9
    <3>2. SlowPeers = {}
          BY DEF WholeMessages
    <3> QED BY <2>1, <3>1, <3>2, PassedStep
  <2>3. PICK d \in Conns : \E i \in MessagesOf(d) :
            Message(c, l) = Message(d, i) /\ 1 + 3 * i <= Consumed(d)
        BY <2>2 DEF PassedWereRead
  <2>4. d = c /\ 1 + 3 * l <= Consumed(c)
        BY <2>3, MessagesDiffer
  <2>5. l \in Nat
        BY PeersAssumption, LenProperties DEF MessagesOf
  <2>6. 1 + 3 * l <= a
        BY <1>4, <2>4
  <2> QED BY <1>5, <2>5, <2>6
<1>10. 1 + 3 * k <= a + 3
       BY <1>5
<1> QED BY <1>2, <1>6, <1>7, <1>8, <1>9, <1>10 DEF ReadsNext

\* A reader that goes on has the next message of its stream.
LEMMA ReadsNextNext ==
    ASSUME TypeOK, LockInv, WholeMessages, PassedWereRead,
           \A r \in Readers : ReadsNext(r), [Next]_vars,
           \A d \in Conns : StreamRead(d) /\ IdComesFirst(d), NEW u \in Readers
    PROVE  ReadsNext(u)'
<1>1. CASE pc'[u] \notin {"route", "forward"}
      BY <1>1 DEF ReadsNext
<1>2. CASE ReadFull(u) /\ pc'[u] = "route"
      BY <1>2, ReadIsNext
<1>3. CASE /\ pc[u] \in {"route", "forward"} /\ msg'[u] = msg[u]
           /\ sess'[u] = sess[u] /\ ~ Forward(u)
  <2>1. PICK c \in Conns : c = sess[u]
        BY <1>3, ReaderAlone
  <2>2. PICK k \in MessagesOf(c) :
            /\ msg[u] = Message(c, k) /\ 1 + 3 * k <= Consumed(c)
            /\ \A l \in MessagesOf(c) : Message(c, l) \in Passed => l < k
        BY <1>3, <2>1 DEF ReadsNext
  <2>3. 1 + 3 * k <= Consumed(c)'
    <3>1. Consumed(c) \in Nat /\ Consumed(c)' \in Nat /\ Consumed(c) <= Consumed(c)'
          BY StreamNumbers, StreamReadNext
    <3>2. k \in Nat
          BY PeersAssumption, LenProperties DEF MessagesOf
    <3> QED BY <2>2, <3>1, <3>2
  <2>4. ASSUME NEW l \in MessagesOf(c), Message(c, l) \in Passed'
        PROVE  l < k
    <3>1. ASSUME NEW r \in Readers, Forward(r), Message(c, l) = msg[r]
          PROVE  FALSE
      <4>1. pc[r] = "forward" /\ r # u
            BY <1>3, <3>1 DEF Forward
      <4>2. sess[r] \in Conns /\ sess[r] # c
            BY <1>3, <2>1, <4>1, ReaderAlone
      <4>3. \E j \in MessagesOf(sess[r]) : msg[r] = Message(sess[r], j)
            BY <4>1, <4>2 DEF ReadsNext
      <4> QED BY <3>1, <4>2, <4>3, MessagesDiffer
    <3>2. PICK m \in Passed' : m = Message(c, l)
          BY <2>4
    <3>3. SlowPeers = {}
          BY DEF WholeMessages
    <3>4. Message(c, l) \in Passed
          BY <3>1, <3>2, <3>3, PassedStep
    <3> QED BY <2>2, <3>4
  <2> QED BY <1>3, <2>1, <2>2, <2>3, <2>4 DEF ReadsNext
<1> QED BY <1>1, <1>2, <1>3, ReaderKeepsMessage

\* Together: streams are read in order and forwarded as they are read.
LEMMA NextStreamInv ==
    ASSUME TypeOK, LockInv, AddsOnce, StreamInv, [Next]_vars
    PROVE  StreamInv'
<1> SUFFICES ASSUME WholeMessages
             PROVE  /\ \A c \in Conns : StreamRead(c)' /\ IdComesFirst(c)'
                    /\ NamesRead'
                    /\ PassedWereRead'
                    /\ \A r \in Readers : ReadsNext(r)'
    BY DEF StreamInv, WholeMessages, MessagesOf, Message
<1>1. /\ \A c \in Conns : StreamRead(c) /\ IdComesFirst(c)
      /\ NamesRead
      /\ PassedWereRead
      /\ \A r \in Readers : ReadsNext(r)
      BY DEF StreamInv
<1> QED BY <1>1, StreamReadNext, IdComesFirstNext, NamesReadNext,
           PassedWereReadNext, ReadsNextNext

-----------------------------------------------------------------------------
\* Everything that was forwarded may come before the message a reader forwards.
LEMMA PassedComesBefore ==
    ASSUME TypeOK, LockInv, WholeMessages, NEW r \in Readers, pc[r] = "forward",
           ReadsNext(r), NEW x \in Passed
    PROVE  InOrder(x, msg[r])
<1>1. PICK d \in Conns : d = sess[r]
      BY ReaderAlone
<1>2. PICK n \in MessagesOf(d) :
          /\ msg[r] = Message(d, n)
          /\ \A l \in MessagesOf(d) : Message(d, l) \in Passed => l < n
      BY <1>1 DEF ReadsNext
<1>3. ASSUME NEW c \in Conns, NEW k \in MessagesOf(c), NEW l \in MessagesOf(c),
             x = Message(c, k), msg[r] = Message(c, l)
      PROVE  k < l /\ k # l
  <2>1. d = c /\ n = l
        BY <1>2, <1>3, MessagesDiffer
  <2>2. k < l
        BY <1>2, <1>3, <2>1
  <2>3. k \in Int /\ l \in Int
        BY DEF MessagesOf
  <2> QED BY <2>2, <2>3
<1> QED BY <1>3 DEF InOrder

\* Messages on their way to the same client by two workers differ either way
\* round; with one write worker there are no two.
LEMMA OtherWriter ==
    ASSUME NEW v \in Writers, NEW w \in Writers, v # w, NEW m, NEW n, InOrder(m, n)
    PROVE  InOrder(n, m)
<1>1. Cardinality(Writers) # 1
  <2>1. IsFiniteSet(Writers)
        BY PoolsAssumption, FS_Subset DEF Workers
  <2>2. ASSUME Cardinality(Writers) = 1 PROVE FALSE
    <3>1. \E x : Writers = {x}
          BY <2>1, <2>2, FS_Singleton
    <3> QED BY <3>1
  <2> QED BY <2>2
<1> QED BY <1>1 DEF InOrder

\* The parts of OrderInv.
OrderParts ==
    /\ SentInOrder /\ SentBeforeWriters /\ SentBeforeQueue
    /\ WritersApart /\ WritersBeforeQueue /\ QueueInOrder

\* A step of which the write queue, the clients and the write workers see
\* nothing, or after which a worker is idle.
LEMMA OrderKept ==
    ASSUME OrderParts, outbox' = outbox,
           ready_write_sockets_queue_' = ready_write_sockets_queue_,
           \A v \in Writers : pc'[v] # "pop" => pc[v] # "pop" /\ msg'[v] = msg[v]
    PROVE  OrderParts'
<1> USE DEF OrderParts
<1>1. SentInOrder' /\ SentBeforeQueue' /\ QueueInOrder'
      BY DEF SentInOrder, SentBeforeQueue, QueueInOrder
<1>2. SentBeforeWriters'
      BY DEF SentBeforeWriters
<1>3. WritersApart'
      BY DEF WritersApart
<1>4. WritersBeforeQueue'
      BY DEF WritersBeforeQueue
<1> QED BY <1>1, <1>2, <1>3, <1>4

\* A reader puts a message at the end of the write queue.
LEMMA OrderForward ==
    ASSUME TypeOK, LockInv, WholeMessages, OrderParts, NEW r \in Readers, Forward(r),
           ReadsNext(r)
    PROVE  OrderParts'
<1>1. /\ outbox' = outbox /\ pc[r] = "forward" /\ r \in Workers
      /\ \A w \in Writers : pc'[w] = pc[w] /\ msg'[w] = msg[w]
  <2>1. \A w \in Writers : w \in Workers /\ w # r
        BY RegistryAssumption DEF Workers
  <2>2. Reader(r)
        BY DEF Reader
  <2> QED BY <2>1, <2>2, ReaderStep DEF Forward, SameLocals, Workers
<1>2. PICK q, e : /\ q = ready_write_sockets_queue_
                  /\ e = [socket |-> socket_[dst[r]], msg |-> msg[r]]
                  /\ ready_write_sockets_queue_' = Append(q, e)
      BY DEF Forward
<1>3. q \in Seq(Tasks) /\ e \in Tasks /\ e.msg = msg[r]
  <2>1. socket_[dst[r]] \in Sockets
        BY <1>1, RegistryAssumption
           DEF WorkersTypeOK, TypeOK, SessionsHaveSockets, SessionsTypeOK
  <2>2. msg[r] \in Seq(Values) /\ Len(msg[r]) = DATA_MESSAGE_SIZE
        BY <1>1 DEF WorkersTypeOK, TypeOK
  <2> QED BY <1>2, <2>1, <2>2 DEF Tasks, TypeOK, QueuesTypeOK
<1>4. /\ \A i \in DOMAIN q : Append(q, e)[i].msg = q[i].msg
      /\ \A i \in DOMAIN Append(q, e) : i \notin DOMAIN q =>
                                            Append(q, e)[i].msg = msg[r]
      /\ \A i, j \in DOMAIN Append(q, e) : i < j => i \in DOMAIN q
      BY <1>3, AppendPositions
<1>5. /\ \A d \in Conns : \A i \in DOMAIN outbox[d] : InOrder(outbox[d][i], msg[r])
      /\ \A w \in Writers : pc[w] # "pop" => InOrder(msg[w], msg[r])
      /\ \A i \in DOMAIN q : InOrder(q[i].msg, msg[r])
  <2>1. \A m : IsPassed(m) => InOrder(m, msg[r])
        BY <1>1, WherePassed, PassedComesBefore
  <2> QED BY <1>2, <2>1 DEF IsPassed
<1> USE DEF OrderParts
<1>6. SentInOrder' /\ SentBeforeWriters' /\ WritersApart'
      BY <1>1 DEF SentInOrder, SentBeforeWriters, WritersApart
<1>7. SentBeforeQueue'
      BY <1>1, <1>2, <1>4, <1>5 DEF SentBeforeQueue
<1>8. WritersBeforeQueue'
      BY <1>1, <1>2, <1>4, <1>5 DEF WritersBeforeQueue
<1>9. QueueInOrder'
      BY <1>1, <1>2, <1>4, <1>5 DEF QueueInOrder
<1> QED BY <1>6, <1>7, <1>8, <1>9

\* A write worker takes the message at the head of the queue.
LEMMA OrderWritePop ==
    ASSUME TypeOK, OrderParts, NEW w \in Writers, WritePop(w)
    PROVE  OrderParts'
<1>1. /\ outbox' = outbox /\ w \in Workers
      /\ \A v \in Writers : v # w => pc'[v] = pc[v] /\ msg'[v] = msg[v]
  <2>1. Writer(w)
        BY DEF Writer
  <2> QED BY <2>1, WriterStep DEF WritePop, SameLocals, Workers, kernel
<1>2. PICK q : /\ q = ready_write_sockets_queue_ /\ q # <<>>
               /\ ready_write_sockets_queue_' = Tail(q)
               /\ msg'[w] = Head(q).msg
      BY <1>1 DEF WritePop, TypeOK, WorkersTypeOK
<1>3. /\ 1 \in DOMAIN q /\ msg'[w] = q[1].msg
      /\ \A i \in DOMAIN Tail(q) :
            i + 1 \in DOMAIN q /\ 1 < i + 1 /\ Tail(q)[i].msg = q[i + 1].msg
      /\ \A i, j \in DOMAIN Tail(q) : i < j => i + 1 < j + 1
      BY <1>2, TailPositions DEF TypeOK, QueuesTypeOK
<1> USE DEF OrderParts
<1>4. SentInOrder'
      BY <1>1 DEF SentInOrder
<1>5. SentBeforeWriters'
      BY <1>1, <1>2, <1>3 DEF SentBeforeWriters, SentBeforeQueue
<1>6. SentBeforeQueue'
      BY <1>1, <1>2, <1>3 DEF SentBeforeQueue
<1>7. WritersApart'
  <2>1. \A v \in Writers : v # w /\ pc[v] # "pop" => InOrder(msg[v], msg'[w])
        BY <1>2, <1>3 DEF WritersBeforeQueue
  <2>2. \A v \in Writers : v # w /\ pc[v] # "pop" => InOrder(msg'[w], msg[v])
        BY <2>1, OtherWriter
  <2> QED BY <1>1, <2>1, <2>2 DEF WritersApart
<1>8. WritersBeforeQueue'
      BY <1>1, <1>2, <1>3 DEF WritersBeforeQueue, QueueInOrder
<1>9. QueueInOrder'
      BY <1>2, <1>3 DEF QueueInOrder
<1> QED BY <1>4, <1>5, <1>6, <1>7, <1>8, <1>9

\* A write worker sends its message, and has none any more.
LEMMA OrderSend ==
    ASSUME TypeOK, OrderParts, NEW w \in Writers, SendOk(w)
    PROVE  OrderParts'
<1>1. /\ w \in Workers /\ pc[w] = "send" /\ pc'[w] = "pop"
      /\ ready_write_sockets_queue_' = ready_write_sockets_queue_
      /\ \A v \in Writers : v # w => pc'[v] = pc[v] /\ msg'[v] = msg[v]
  <2>1. Writer(w)
        BY DEF Writer
  <2>2. w \in Workers
        BY DEF Workers
  <2> QED BY <2>1, <2>2, WriterStep
          DEF SendOk, SameLocals, Workers, queues, Return, TypeOK, WorkersTypeOK
<1>2. ASSUME NEW d \in Conns
      PROVE  /\ \A i \in DOMAIN outbox[d] : outbox'[d][i] = outbox[d][i]
             /\ \A i \in DOMAIN outbox'[d] : i \notin DOMAIN outbox[d] =>
                                                 outbox'[d][i] = msg[w]
             /\ \A i, j \in DOMAIN outbox'[d] : i < j => i \in DOMAIN outbox[d]
  <2>1. outbox' = [outbox EXCEPT ![Behind(w)] = Append(@, msg[w])]
        BY DEF SendOk
  <2>2. outbox \in [Conns -> Seq(Seq(Values))] /\ msg[w] \in Seq(Values)
        BY <1>1 DEF TypeOK, KernelTypeOK, WorkersTypeOK
  <2>3. CASE d # Behind(w)
        BY <2>1, <2>2, <2>3
  <2>4. CASE d = Behind(w)
    <3>1. PICK s, e : s = outbox[d] /\ e = msg[w] /\ outbox'[d] = Append(s, e)
          BY <2>1, <2>2, <2>4
    <3>2. /\ \A i \in DOMAIN s : Append(s, e)[i] = s[i]
          /\ \A i \in DOMAIN Append(s, e) : i \notin DOMAIN s => Append(s, e)[i] = e
          /\ \A i, j \in DOMAIN Append(s, e) : i < j => i \in DOMAIN s
          BY <2>2, <3>1, AppendPositions
    <3> QED BY <3>1, <3>2
  <2> QED BY <2>3, <2>4
<1> USE DEF OrderParts
<1>3. SentInOrder'
      BY <1>1, <1>2 DEF SentInOrder, SentBeforeWriters
<1>4. SentBeforeWriters'
      BY <1>1, <1>2 DEF SentBeforeWriters, WritersApart
<1>5. SentBeforeQueue'
      BY <1>1, <1>2 DEF SentBeforeQueue, WritersBeforeQueue
<1>6. WritersApart' /\ WritersBeforeQueue' /\ QueueInOrder'
      BY <1>1 DEF WritersApart, WritersBeforeQueue, QueueInOrder
<1> QED BY <1>3, <1>4, <1>5, <1>6

\* Together: no step lets a message overtake one of the same peer.
LEMMA NextOrderInv ==
    ASSUME TypeOK, LockInv, StreamInv, OrderInv, [Next]_vars
    PROVE  OrderInv'
<1> SUFFICES ASSUME WholeMessages PROVE OrderParts'
    BY DEF OrderInv, OrderParts, WholeMessages, Message, MessagesOf
<1>1. OrderParts /\ \A r \in Readers : ReadsNext(r)
      BY DEF OrderInv, OrderParts, StreamInv
<1>2. CASE UNCHANGED <<workers, ready_write_sockets_queue_, outbox, id_>>
      BY <1>1, <1>2, OrderKept DEF workers
<1>3. ASSUME NEW r \in Readers, Reader(r) PROVE OrderParts'
  <2>1. outbox' = outbox /\ \A w \in Writers : pc'[w] = pc[w] /\ msg'[w] = msg[w]
        BY <1>3, ReaderStep, RegistryAssumption DEF Workers, SameLocals
  <2>2. CASE Forward(r)
        BY <1>1, <2>2, OrderForward
  <2>3. CASE ready_write_sockets_queue_' = ready_write_sockets_queue_
        BY <1>1, <2>1, <2>3, OrderKept
  <2> QED BY <1>3, <2>2, <2>3, ReaderStep
<1>4. ASSUME NEW w \in Writers, Writer(w) PROVE OrderParts'
  <2>1. CASE WritePop(w)
        BY <1>1, <2>1, OrderWritePop
  <2>2. CASE SendOk(w)
        BY <1>1, <2>2, OrderSend
  <2>3. ~ SendPartial(w)
        BY DEF SendPartial, WholeMessages
  <2>4. CASE ~ WritePop(w) /\ outbox' = outbox
    <3>1. \A v \in Writers : v # w => SameLocals(v)
          BY <1>4, WriterStep DEF Workers
    <3> QED BY <1>1, <1>4, <2>4, <3>1, OrderKept, WriterStep DEF SameLocals
  <2> QED BY <1>4, <2>1, <2>2, <2>3, <2>4, WriterStep
<1> QED BY <1>2, <1>3, <1>4, OtherStep

\* router.cpp: do_reads() reads until nothing is left under the mutex of the
\* session, forward() queues at the back, do_writes() takes from the front and
\* sends under the mutex of the addressee.  From peers that send whole messages
\* every message arrives at most once, and in the order sent if there is one
\* write worker, for every number of readers, writers and connections.
THEOREM MessagesArriveOnceInOrder == SafetySpec => []DeliveredOnceInOrder
<1>1. Init => StreamInv /\ OrderInv
      BY InitOrder
<1>2. TypeOK /\ LockInv /\ AddressInv /\ StreamInv /\ OrderInv /\ [Next]_vars
          => StreamInv' /\ OrderInv'
      BY NextStreamInv, NextOrderInv, AddressParts
<1>3. StreamInv /\ OrderInv => DeliveredOnceInOrder
  <2> SUFFICES ASSUME StreamInv, OrderInv, WholeMessages, NEW d \in Conns
               PROVE  /\ \A i \in DOMAIN outbox[d] :
                            \E c \in Conns : \E k \in MessagesOf(c) :
                                outbox[d][i] = Message(c, k)
                      /\ \A i, j \in DOMAIN outbox[d] : \A c \in Conns :
                            \A k, l \in MessagesOf(c) :
                                /\ i < j
                                /\ outbox[d][i] = Message(c, k)
                                /\ outbox[d][j] = Message(c, l)
                                => IF Cardinality(Writers) = 1 THEN k < l ELSE k # l
      BY DEF DeliveredOnceInOrder
  <2>1. ASSUME NEW i \in DOMAIN outbox[d]
        PROVE  \E c \in Conns : \E k \in MessagesOf(c) : outbox[d][i] = Message(c, k)
    <3>1. outbox[d][i] \in Passed
          BY WherePassed DEF IsPassed
    <3> QED BY <3>1 DEF StreamInv, PassedWereRead
  <2>2. \A i, j \in DOMAIN outbox[d] : i < j => InOrder(outbox[d][i], outbox[d][j])
        BY DEF OrderInv, SentInOrder
  <2> QED BY <2>1, <2>2 DEF InOrder
<1> QED BY <1>1, <1>2, <1>3, RouterTypeCorrect, LocksAreEffective,
           AddressesAreRight, PTL
        DEF SafetySpec
=============================================================================
