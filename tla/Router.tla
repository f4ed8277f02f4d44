------------------------------- MODULE Router -------------------------------
(***************************************************************************)
(* router/src/router.cpp with router/src/tcpserver.cpp: the event loop     *)
(* (one listener thread), the read workers, the write workers, and the     *)
(* registry of module Sessions they share.  The two SignalingQueues are    *)
(* the FIFO queues module SignalingQueue implements, so a push or a pop is *)
(* one step here.                                                          *)
(*                                                                         *)
(* Text is abstracted to chunks: a chunk is the number std::stoi finds in  *)
(* it (NONE if there is none).  An id message is one chunk, a data message *)
(* is three: source id, body, destination id.                              *)
(*                                                                         *)
(* The operating system and the peers (external): a connection has a       *)
(* backlog entry, then a descriptor, a receive buffer, and a peer that     *)
(* sends its stream in segments, closes or resets.  The router never       *)
(* closes a descriptor, so the kernel never gives one out twice.           *)
(***************************************************************************)
EXTENDS Sessions

CONSTANTS
    Stream,         \* Stream[c]: all the chunks the peer of c will send
    Cuts,           \* Cuts[c]: positions of Stream[c] where a segment may end
    Closers,        \* connections whose peer may close
    Resetters,      \* connections whose peer may reset
    SlowPeers,      \* connections whose send buffer may be full
    FD_SETSIZE,     \* descriptors an fd_set holds, the server socket included
    MaxReadQueue    \* bound: the event loop waits at this queue length

ID_MESSAGE_SIZE == 1
DATA_MESSAGE_SIZE == 3

ASSUME PeersAssumption ==
    /\ Stream \in [Conns -> Seq(Values)]
    /\ \A c \in Conns : Cuts[c] \subseteq 1 .. Len(Stream[c])
    /\ FD_SETSIZE \in Nat \ {0}
    /\ MaxReadQueue \in Nat \ {0}

\* The pools are vectors of threads.
ASSUME PoolsAssumption == IsFiniteSet(Workers)

VARIABLES
    \* the kernel and the peers
    peer,           \* peer[c]: new, open, closed, reset or refused
    sent,           \* sent[c]: how much of Stream[c] the peer has sent
    backlog,        \* connections that wait for accept()
    fd_table,       \* fd_table[s]: the connection behind descriptor s
    inbox,          \* inbox[c]: chunks received and not yet read
    outbox,         \* outbox[c]: messages send() has accepted for c
    \* the queues
    ready_read_sockets_queue_,
    ready_write_sockets_queue_,
    \* the event loop
    loop,           \* reset, copy, select, accept or push
    copy,           \* copy[i]: what the copied vector may hold at index i
    readfds,        \* the descriptors given to select()
    ready,          \* those select() reported and that are not pushed yet
    \* the worker threads
    pc,             \* pc[t]: where worker t is
    sock,           \* sock[t]: the socket t works on
    sess,           \* sess[t]: the session t found for it
    msg,            \* msg[t]: what t read, or is about to send
    dst             \* dst[t]: the session a reader forwards to

kernel == <<peer, sent, backlog, fd_table, inbox, outbox>>
listener == <<loop, copy, readfds, ready>>
queues == <<ready_read_sockets_queue_, ready_write_sockets_queue_>>
workers == <<pc, sock, sess, msg, dst>>
vars == <<registry, objects, kernel, listener, queues, workers>>

PeerStates == {"new", "open", "closed", "reset", "refused"}
LoopSteps == {"reset", "copy", "select", "accept", "push"}
ReaderSteps == {"pop", "find", "lock", "refind", "read", "add", "route",
                "forward", "remove"}
WriterSteps == {"pop", "find", "lock", "send", "remove"}

Tasks == [socket : Sockets,
          msg : {text \in Seq(Values) : Len(text) = DATA_MESSAGE_SIZE}]

Init ==
    /\ SessionsInit
    /\ peer = [c \in Conns |-> "new"]
    /\ sent = [c \in Conns |-> 0]
    /\ backlog = <<>>
    /\ fd_table = [s \in Sockets |-> nullptr]
    /\ inbox = [c \in Conns |-> <<>>]
    /\ outbox = [c \in Conns |-> <<>>]
    /\ ready_read_sockets_queue_ = <<>>
    /\ ready_write_sockets_queue_ = <<>>
    /\ loop = "reset"
    /\ copy = <<>>
    /\ readfds = {}
    /\ ready = {}
    /\ pc = [t \in Workers |-> "pop"]
    /\ sock = [t \in Workers |-> nullptr]
    /\ sess = [t \in Workers |-> nullptr]
    /\ msg = [t \in Workers |-> <<>>]
    /\ dst = [t \in Workers |-> nullptr]

-----------------------------------------------------------------------------
\* The peers and their network (external)

PeerConnect(c) ==
    /\ peer[c] = "new"
    /\ peer' = [peer EXCEPT ![c] = "open"]
    /\ backlog' = Append(backlog, c)
    /\ UNCHANGED <<sent, fd_table, inbox, outbox, registry, objects, listener,
                   queues, workers>>

\* One segment arrives: the stream up to one of the cuts.
PeerSend(c) ==
    /\ peer[c] = "open"
    /\ \E cut \in Cuts[c] :
          /\ cut > sent[c]
          /\ inbox' = [inbox EXCEPT ![c] = @ \o SubSeq(Stream[c], sent[c] + 1, cut)]
          /\ sent' = [sent EXCEPT ![c] = cut]
    /\ UNCHANGED <<peer, backlog, fd_table, outbox, registry, objects, listener,
                   queues, workers>>

\* An orderly close: what was sent can still be read, then recv() returns 0.
PeerClose(c) ==
    /\ c \in Closers
    /\ peer[c] = "open"
    /\ peer' = [peer EXCEPT ![c] = "closed"]
    /\ UNCHANGED <<sent, backlog, fd_table, inbox, outbox, registry, objects,
                   listener, queues, workers>>

\* A reset: recv() fails at once and unread data is lost, or it fails once that
\* data has been read; the systems differ.
PeerReset(c) ==
    /\ c \in Resetters
    /\ peer[c] = "open"
    /\ peer' = [peer EXCEPT ![c] = "reset"]
    /\ inbox' \in {inbox, [inbox EXCEPT ![c] = <<>>]}
    /\ UNCHANGED <<sent, backlog, fd_table, outbox, registry, objects, listener,
                   queues, workers>>

Ended(c) == peer[c] \in {"closed", "reset"}

\* select() reports a descriptor that has data, an end of stream or an error.
Readable(s) ==
    /\ fd_table[s] # nullptr
    /\ inbox[fd_table[s]] # <<>> \/ Ended(fd_table[s])

-----------------------------------------------------------------------------
\* The event loop: start_event_listener()

(***************************************************************************)
(* reset_fd_set() gets a copy of accepted_clients_, made without a lock    *)
(* while a worker may be erasing an element.  The size is read first; each *)
(* element read later is any value its slot has had since.  The vector     *)
(* never reallocates (init_sessions() reserves), and only this thread adds *)
(* to it.                                                                  *)
(***************************************************************************)
ResetBegin ==
    /\ loop = "reset"
    /\ copy' = [i \in 1 .. Len(accepted_clients_) |-> {accepted_clients_[i]}]
    /\ loop' = "copy"
    /\ UNCHANGED <<readfds, ready, registry, objects, kernel, queues, workers>>

\* What an erase does to a copy in progress: the slots behind the erased one
\* now have their new values, the last slot keeps its old one.
Smear(new) ==
    [i \in DOMAIN copy |->
        IF i <= Len(new) THEN copy[i] \cup {new[i]} ELSE copy[i]]

\* FD_SET() takes the server socket first and then ignores what does not fit.
FdSet(clients) ==
    {clients[i] : i \in {j \in DOMAIN clients :
        Cardinality({clients[k] : k \in 1 .. j - 1} \ {clients[j]})
            < FD_SETSIZE - 1}}

ResetEnd ==
    /\ loop = "copy"
    /\ \E clients \in [DOMAIN copy -> Sockets] :
          /\ \A i \in DOMAIN copy : clients[i] \in copy[i]
          /\ readfds' = FdSet(clients)
    /\ copy' = <<>>
    /\ loop' = "select"
    /\ UNCHANGED <<ready, registry, objects, kernel, queues, workers>>

\* select() without a timeout: blocks until something is ready.
Select ==
    /\ loop = "select"
    /\ LET active == {s \in readfds : Readable(s)} IN
       /\ backlog # <<>> \/ active # {}
       /\ ready' = active
       /\ loop' = IF backlog # <<>> THEN "accept" ELSE "push"
    /\ readfds' = {}
    /\ UNCHANGED <<copy, registry, objects, kernel, queues, workers>>

\* select() fails: the loop starts over.
SelectError ==
    /\ loop = "select"
    /\ loop' = "reset"
    /\ readfds' = {}
    /\ UNCHANGED <<copy, ready, registry, objects, kernel, queues, workers>>

FreeSockets == {s \in Sockets : fd_table[s] = nullptr}

\* Where the loop goes with the sockets still to be pushed.
PushOrReset(left) == IF left = {} THEN "reset" ELSE "push"

\* TcpServer::accept_client() and Sessions::accept_client().
Accept ==
    /\ loop = "accept"
    /\ \E s \in FreeSockets :
          /\ fd_table' = [fd_table EXCEPT ![s] = Head(backlog)]
          /\ accept_client(s, Head(backlog))
    /\ backlog' = Tail(backlog)
    /\ loop' = PushOrReset(ready)
    /\ UNCHANGED <<copy, readfds, ready, peer, sent, inbox, outbox, queues,
                   workers>>

\* accept() succeeds, the socket cannot be made non-blocking and is closed:
\* the loop starts over and forgets the sockets select() reported.
AcceptRefused ==
    /\ loop = "accept"
    /\ FreeSockets # {}
    /\ peer' = [peer EXCEPT ![Head(backlog)] = "refused"]
    /\ inbox' = [inbox EXCEPT ![Head(backlog)] = <<>>]
    /\ backlog' = Tail(backlog)
    /\ ready' = {}
    /\ loop' = "reset"
    /\ UNCHANGED <<copy, readfds, sent, fd_table, outbox, registry, objects,
                   queues, workers>>

\* accept() fails for want of a descriptor; the connection stays in the
\* backlog, and the loop forgets the sockets select() reported.
AcceptError ==
    /\ loop = "accept"
    /\ FreeSockets = {}
    /\ ready' = {}
    /\ loop' = "reset"
    /\ UNCHANGED <<copy, readfds, registry, objects, kernel, queues, workers>>

\* push(socket, dont_push_if_repeated_event)
PushReady(s) ==
    /\ loop = "push"
    /\ s \in ready
    /\ Len(ready_read_sockets_queue_) < MaxReadQueue
    /\ ready_read_sockets_queue_' =
          IF /\ ready_read_sockets_queue_ # <<>>
             /\ Last(ready_read_sockets_queue_) = s
          THEN ready_read_sockets_queue_
          ELSE Append(ready_read_sockets_queue_, s)
    /\ ready' = ready \ {s}
    /\ loop' = PushOrReset(ready')
    /\ UNCHANGED <<copy, readfds, ready_write_sockets_queue_, registry, objects,
                   kernel, workers>>

-----------------------------------------------------------------------------
\* Steps shared by the worker threads

\* A worker goes to another step of the same task.
Goto(t, step) == pc' = [pc EXCEPT ![t] = step]

\* A worker returns from do_reads() or do_writes(): its locals go out of
\* scope.
Return(t) ==
    /\ pc' = [pc EXCEPT ![t] = "pop"]
    /\ sock' = [sock EXCEPT ![t] = nullptr]
    /\ sess' = [sess EXCEPT ![t] = nullptr]
    /\ msg' = [msg EXCEPT ![t] = <<>>]
    /\ dst' = [dst EXCEPT ![t] = nullptr]

\* The unique_lock on a session's mutex is released by its destructor.
Unlock(t) ==
    mutex_' = [c \in Conns |-> IF mutex_[c] = t THEN nullptr ELSE mutex_[c]]

\* removeSession() as a step: it may run into a copy made by the event loop.
RemoveSession(socket) ==
    /\ removeSession(socket)
    /\ copy' = Smear(accepted_clients_')

\* MUTANT of Find: the result of the lookup is not tested.
FindUnchecked(t) ==
    /\ pc[t] = "find"
    /\ RegistryFree
    /\ sess' = [sess EXCEPT ![t] = find_session_by_socket(sock[t])]
    /\ Goto(t, "lock")
    /\ UNCHANGED <<sock, msg, dst, registry, objects, kernel, listener, queues>>

\* find_session_by_socket() before the lock, for readers and writers.
Find(t) ==
    /\ pc[t] = "find"
    /\ RegistryFree
    /\ IF find_session_by_socket(sock[t]) = nullptr
       THEN Return(t)
       ELSE /\ sess' = [sess EXCEPT ![t] = find_session_by_socket(sock[t])]
            /\ Goto(t, "lock")
            /\ UNCHANGED <<sock, msg, dst>>
    /\ UNCHANGED <<registry, objects, kernel, listener, queues>>

\* MUTANT of LockSession: a shared lock instead of an exclusive one.
LockSessionShared(t, next) ==
    /\ pc[t] = "lock"
    /\ mutex_' = [mutex_ EXCEPT ![sess[t]] = t]
    /\ Goto(t, next)
    /\ UNCHANGED <<sock, sess, msg, dst, registry, socket_, id_, kernel, listener,
                   queues>>

\* The lock on the mutex of the session found.
LockSession(t, next) ==
    /\ pc[t] = "lock"
    /\ mutex_[sess[t]] = nullptr
    /\ mutex_' = [mutex_ EXCEPT ![sess[t]] = t]
    /\ Goto(t, next)
    /\ UNCHANGED <<sock, sess, msg, dst, registry, socket_, id_, kernel, listener,
                   queues>>

-----------------------------------------------------------------------------
\* Read workers: worker_thread_read_handler() and do_reads()

ReadPop(r) ==
    /\ pc[r] = "pop"
    /\ ready_read_sockets_queue_ # <<>>
    /\ sock' = [sock EXCEPT ![r] = Head(ready_read_sockets_queue_)]
    /\ ready_read_sockets_queue_' = Tail(ready_read_sockets_queue_)
    /\ Goto(r, "find")
    /\ UNCHANGED <<sess, msg, dst, ready_write_sockets_queue_, registry, objects,
                   kernel, listener>>

ReadLock(r) == LockSession(r, "refind")

\* MUTANT of Refind: no second lookup.
RefindSkipped(r) ==
    /\ pc[r] = "refind"
    /\ RegistryFree
    /\ Goto(r, "read")
    /\ UNCHANGED <<sock, sess, msg, dst, registry, objects, kernel, listener,
                   queues>>

\* The second lookup, under the lock; the result shadows the first one.
Refind(r) ==
    /\ pc[r] = "refind"
    /\ RegistryFree
    /\ IF find_session_by_socket(sock[r]) = nullptr
       THEN Unlock(r) /\ Return(r)
       ELSE /\ sess' = [sess EXCEPT ![r] = find_session_by_socket(sock[r])]
            /\ Goto(r, "read")
            /\ UNCHANGED <<sock, msg, dst, mutex_>>
    /\ UNCHANGED <<registry, socket_, id_, kernel, listener, queues>>

(***************************************************************************)
(* read_async(): recv() until size chunks are there, the buffer is empty,  *)
(* the stream has ended or the connection is gone.  Only this thread reads *)
(* from the socket (see ExclusiveSocketIO), so the loop acts at the        *)
(* instant of its last recv().                                             *)
(***************************************************************************)
Wanted(r) == IF id_[sess[r]] = NONE THEN ID_MESSAGE_SIZE ELSE DATA_MESSAGE_SIZE

\* The connection behind the socket a worker uses.
Behind(t) == fd_table[sock[t]]

Received(r) == IF Behind(r) = nullptr THEN <<>> ELSE inbox[Behind(r)]

\* recv() or send() finds the stream ended or the descriptor invalid.
Gone(t) == Behind(t) # nullptr => Ended(Behind(t))

Consume(r, n) ==
    inbox' = [c \in Conns |-> IF c = Behind(r)
                              THEN SubSeq(inbox[c], n + 1, Len(inbox[c]))
                              ELSE inbox[c]]

\* MUTANT of ReadFull: the lock only covers the read.
ReadFullUnlocks(r) ==
    /\ pc[r] = "read"
    /\ Len(Received(r)) >= Wanted(r)
    /\ msg' = [msg EXCEPT ![r] = SubSeq(Received(r), 1, Wanted(r))]
    /\ Consume(r, Wanted(r))
    /\ Goto(r, IF id_[sess[r]] = NONE THEN "add" ELSE "route")
    /\ Unlock(r)
    /\ UNCHANGED <<sock, sess, dst, peer, sent, backlog, fd_table, outbox,
                   registry, socket_, id_, listener, queues>>

\* All the bytes are there: handle_handshake() or process_message() goes on.
ReadFull(r) ==
    /\ pc[r] = "read"
    /\ Len(Received(r)) >= Wanted(r)
    /\ msg' = [msg EXCEPT ![r] = SubSeq(Received(r), 1, Wanted(r))]
    /\ Consume(r, Wanted(r))
    /\ Goto(r, IF id_[sess[r]] = NONE THEN "add" ELSE "route")
    /\ UNCHANGED <<sock, sess, dst, peer, sent, backlog, fd_table, outbox,
                   registry, objects, listener, queues>>

\* Fewer bytes than a message: they are dropped, and read again.
ReadPartial(r) ==
    /\ pc[r] = "read"
    /\ Len(Received(r)) \in 1 .. Wanted(r) - 1
    /\ ~ Gone(r)
    /\ Consume(r, Len(Received(r)))
    /\ UNCHANGED <<workers, peer, sent, backlog, fd_table, outbox, registry,
                   objects, listener, queues>>

\* MUTANT of ReadNothing: the mutex stays locked.
ReadNothingKeepsLock(r) ==
    /\ pc[r] = "read"
    /\ Received(r) = <<>>
    /\ ~ Gone(r)
    /\ Return(r)
    /\ UNCHANGED <<registry, objects, kernel, listener, queues>>

\* No more data: do_reads() ends.
ReadNothing(r) ==
    /\ pc[r] = "read"
    /\ Received(r) = <<>>
    /\ ~ Gone(r)
    /\ Unlock(r)
    /\ Return(r)
    /\ UNCHANGED <<registry, socket_, id_, kernel, listener, queues>>

\* MUTANT of ReadError: the descriptor is closed before the session goes.
ReadErrorCloses(r) ==
    /\ pc[r] = "read"
    /\ Gone(r)
    /\ Len(Received(r)) < Wanted(r)
    /\ Consume(r, Len(Received(r)))
    /\ fd_table' = [fd_table EXCEPT ![sock[r]] = nullptr]
    /\ Goto(r, "remove")
    /\ UNCHANGED <<sock, sess, msg, dst, peer, sent, backlog, outbox, registry,
                   objects, listener, queues>>

\* End of stream or error before the message is complete.
ReadError(r) ==
    /\ pc[r] = "read"
    /\ Gone(r)
    /\ Len(Received(r)) < Wanted(r)
    /\ Consume(r, Len(Received(r)))
    /\ Goto(r, "remove")
    /\ UNCHANGED <<sock, sess, msg, dst, peer, sent, backlog, fd_table, outbox,
                   registry, objects, listener, queues>>

\* do_reads() after a read error.
ReadRemove(r) ==
    /\ pc[r] = "remove"
    /\ RemoveSession(sock[r])
    /\ Unlock(r)
    /\ Return(r)
    /\ UNCHANGED <<kernel, loop, readfds, ready, queues>>

extract_src_id(text) == text[1]

extract_dst_id(text) == text[DATA_MESSAGE_SIZE]

\* The rest of handle_handshake().
AddNode(r) ==
    /\ pc[r] = "add"
    /\ add_node(sock[r], extract_src_id(msg[r]))
    /\ msg' = [msg EXCEPT ![r] = <<>>]
    /\ Goto(r, "read")
    /\ UNCHANGED <<sock, sess, dst, mutex_, kernel, listener, queues>>

\* The rest of process_message(): an unknown destination ends do_reads(),
\* though more messages may be waiting in the socket.
Route(r) ==
    /\ pc[r] = "route"
    /\ RegistryFree
    /\ LET d == find_session_by_id(extract_dst_id(msg[r])) IN
       IF d = nullptr
       THEN Unlock(r) /\ Return(r)
       ELSE /\ dst' = [dst EXCEPT ![r] = d]
            /\ Goto(r, "forward")
            /\ UNCHANGED <<sock, sess, msg, mutex_>>
    /\ UNCHANGED <<registry, socket_, id_, kernel, listener, queues>>

\* MUTANT of Forward: the task gets the socket of the source.
ForwardToSource(r) ==
    /\ pc[r] = "forward"
    /\ ready_write_sockets_queue_' =
          Append(ready_write_sockets_queue_,
                 [socket |-> socket_[sess[r]], msg |-> msg[r]])
    /\ msg' = [msg EXCEPT ![r] = <<>>]
    /\ dst' = [dst EXCEPT ![r] = nullptr]
    /\ Goto(r, "read")
    /\ UNCHANGED <<sock, sess, ready_read_sockets_queue_, registry, objects,
                   kernel, listener>>

\* forward(): the task names the socket, not the session.
Forward(r) ==
    /\ pc[r] = "forward"
    /\ ready_write_sockets_queue_' =
          Append(ready_write_sockets_queue_,
                 [socket |-> socket_[dst[r]], msg |-> msg[r]])
    /\ msg' = [msg EXCEPT ![r] = <<>>]
    /\ dst' = [dst EXCEPT ![r] = nullptr]
    /\ Goto(r, "read")
    /\ UNCHANGED <<sock, sess, ready_read_sockets_queue_, registry, objects,
                   kernel, listener>>

-----------------------------------------------------------------------------
\* Write workers: worker_thread_write_handler() and do_writes()

WritePop(w) ==
    /\ pc[w] = "pop"
    /\ ready_write_sockets_queue_ # <<>>
    /\ sock' = [sock EXCEPT ![w] = Head(ready_write_sockets_queue_).socket]
    /\ msg' = [msg EXCEPT ![w] = Head(ready_write_sockets_queue_).msg]
    /\ ready_write_sockets_queue_' = Tail(ready_write_sockets_queue_)
    /\ Goto(w, "find")
    /\ UNCHANGED <<sess, dst, ready_read_sockets_queue_, registry, objects,
                   kernel, listener>>

\* No second lookup follows this lock.
WriteLock(w) == LockSession(w, "send")

\* send() takes the whole message.  The peer may have closed meanwhile: the
\* first send() after that still succeeds.
SendOk(w) ==
    /\ pc[w] = "send"
    /\ Behind(w) # nullptr
    /\ peer[Behind(w)] \in {"open", "closed"}
    /\ outbox' = [outbox EXCEPT ![Behind(w)] = Append(@, msg[w])]
    /\ Unlock(w)
    /\ Return(w)
    /\ UNCHANGED <<peer, sent, backlog, fd_table, inbox, registry, socket_, id_,
                   listener, queues>>

\* send() fails, or takes nothing because its buffer is full.
SendError(w) ==
    /\ pc[w] = "send"
    /\ Gone(w) \/ Behind(w) \in SlowPeers
    /\ Goto(w, "remove")
    /\ UNCHANGED <<sock, sess, msg, dst, registry, objects, kernel, listener,
                   queues>>

\* MUTANT of SendPartial: what was sent is returned, and only logged.
SendPartialReturns(w) ==
    /\ pc[w] = "send"
    /\ Behind(w) # nullptr
    /\ Behind(w) \in SlowPeers
    /\ \E n \in 1 .. Len(msg[w]) - 1 :
          outbox' = [outbox EXCEPT ![Behind(w)] = Append(@, SubSeq(msg[w], 1, n))]
    /\ Unlock(w)
    /\ Return(w)
    /\ UNCHANGED <<peer, sent, backlog, fd_table, inbox, registry, socket_, id_,
                   listener, queues>>

\* The buffer takes a part of the message before it is full:
\* send_to_client() reports an error, and nobody sends the rest.
SendPartial(w) ==
    /\ pc[w] = "send"
    /\ Behind(w) # nullptr
    /\ Behind(w) \in SlowPeers
    /\ \E n \in 1 .. Len(msg[w]) - 1 :
          outbox' = [outbox EXCEPT ![Behind(w)] = Append(@, SubSeq(msg[w], 1, n))]
    /\ Goto(w, "remove")
    /\ UNCHANGED <<sock, sess, msg, dst, peer, sent, backlog, fd_table, inbox,
                   registry, objects, listener, queues>>

\* MUTANT of WriteRemove: the descriptor is closed with the session.
WriteRemoveCloses(w) ==
    /\ pc[w] = "remove"
    /\ RemoveSession(socket_[sess[w]])
    /\ fd_table' = [fd_table EXCEPT ![sock[w]] = nullptr]
    /\ Unlock(w)
    /\ Return(w)
    /\ UNCHANGED <<peer, sent, backlog, inbox, outbox, loop, readfds, ready,
                   queues>>

\* do_writes() after a send error.
WriteRemove(w) ==
    /\ pc[w] = "remove"
    /\ RemoveSession(socket_[sess[w]])
    /\ Unlock(w)
    /\ Return(w)
    /\ UNCHANGED <<kernel, loop, readfds, ready, queues>>

-----------------------------------------------------------------------------
Peer(c) == PeerConnect(c) \/ PeerSend(c) \/ PeerClose(c) \/ PeerReset(c)

Listener ==
    \/ ResetBegin
    \/ ResetEnd
    \/ Select
    \/ SelectError
    \/ Accept
    \/ AcceptRefused
    \/ AcceptError
    \/ \E s \in Sockets : PushReady(s)

Reader(r) ==
    \/ ReadPop(r)
    \/ Find(r)
    \/ ReadLock(r)
    \/ Refind(r)
    \/ ReadFull(r)
    \/ ReadPartial(r)
    \/ ReadNothing(r)
    \/ ReadError(r)
    \/ AddNode(r)
    \/ Route(r)
    \/ Forward(r)
    \/ ReadRemove(r)

Writer(w) ==
    \/ WritePop(w)
    \/ Find(w)
    \/ WriteLock(w)
    \/ SendOk(w)
    \/ SendError(w)
    \/ SendPartial(w)
    \/ WriteRemove(w)

Next ==
    \/ \E c \in Conns : Peer(c)
    \/ Listener
    \/ \E r \in Readers : Reader(r)
    \/ \E w \in Writers : Writer(w)

SafetySpec == Init /\ [][Next]_vars

(***************************************************************************)
(* Every thread is scheduled: its next step is taken unless it becomes     *)
(* impossible.  Waiting for a session's mutex and for select() is strong:  *)
(* a mutex that is released again and again is obtained, and select() does *)
(* not fail every time.  A pop is fair for the workers together, which is  *)
(* what module SignalingQueue establishes.  Peers owe nothing.             *)
(***************************************************************************)
Fairness ==
    /\ WF_vars(ResetBegin \/ ResetEnd)
    /\ WF_vars(Accept \/ AcceptRefused \/ AcceptError)
    /\ WF_vars(\E s \in Sockets : PushReady(s))
    /\ SF_vars(Select)
    /\ WF_vars(\E r \in Readers : ReadPop(r))
    /\ WF_vars(\E w \in Writers : WritePop(w))
    /\ \A r \in Readers :
          /\ SF_vars(ReadLock(r))
          /\ WF_vars(\/ Find(r) \/ Refind(r) \/ ReadFull(r) \/ ReadPartial(r)
                     \/ ReadNothing(r) \/ ReadError(r) \/ AddNode(r)
                     \/ Route(r) \/ Forward(r) \/ ReadRemove(r))
    /\ \A w \in Writers :
          /\ SF_vars(WriteLock(w))
          /\ WF_vars(\/ Find(w) \/ SendOk(w) \/ SendError(w)
                     \/ SendPartial(w) \/ WriteRemove(w))

Spec == SafetySpec /\ Fairness

-----------------------------------------------------------------------------
\* Properties

KernelTypeOK ==
    /\ peer \in [Conns -> PeerStates]
    /\ sent \in [Conns -> Nat]
    /\ backlog \in Seq(Conns)
    /\ fd_table \in [Sockets -> Conns \cup {nullptr}]
    /\ inbox \in [Conns -> Seq(Values)]
    /\ outbox \in [Conns -> Seq(Seq(Values))]

QueuesTypeOK ==
    /\ ready_read_sockets_queue_ \in Seq(Sockets)
    /\ ready_write_sockets_queue_ \in Seq(Tasks)

ListenerTypeOK ==
    /\ loop \in LoopSteps
    /\ copy \in Seq(SUBSET Sockets)
    /\ readfds \subseteq Sockets
    /\ ready \subseteq Sockets
    /\ loop = "accept" => backlog # <<>>

WorkersTypeOK ==
    /\ pc \in [Workers -> ReaderSteps \cup WriterSteps]
    /\ sock \in [Workers -> Sockets \cup {nullptr}]
    /\ sess \in [Workers -> Conns \cup {nullptr}]
    /\ msg \in [Workers -> Seq(Values)]
    /\ dst \in [Workers -> Conns \cup {nullptr}]
    /\ \A t \in Workers :
          /\ pc[t] # "pop" => sock[t] \in Sockets
          /\ pc[t] \notin {"pop", "find"} => sess[t] \in Conns
          /\ pc[t] = "forward" => dst[t] \in Conns
          /\ pc[t] = "add" => Len(msg[t]) = ID_MESSAGE_SIZE
          /\ pc[t] \in {"route", "forward"} => Len(msg[t]) = DATA_MESSAGE_SIZE
          /\ t \in Writers /\ pc[t] # "pop" => Len(msg[t]) = DATA_MESSAGE_SIZE

\* Every session a map or a worker refers to knows its socket, so a task never
\* names a missing descriptor.
SessionsHaveSockets ==
    /\ \A s \in Sockets :
          sessions_by_socket_[s] # nullptr =>
              socket_[sessions_by_socket_[s]] # nullptr
    /\ \A i \in Values :
          sessions_by_id_[i] # nullptr => socket_[sessions_by_id_[i]] # nullptr
    /\ \A t \in Workers : dst[t] # nullptr => socket_[dst[t]] # nullptr

\* The registry, the buffers, the queues, the event loop and the locals of
\* the workers keep their types, and a local is set where it is used: no
\* worker locks, reads, or forwards through a null session, no task names a
\* missing descriptor, and accept(), on a blocking socket, is only called when
\* a connection waits.
TypeOK ==
    /\ SessionsTypeOK
    /\ KernelTypeOK
    /\ QueuesTypeOK
    /\ ListenerTypeOK
    /\ WorkersTypeOK
    /\ SessionsHaveSockets

\* The steps a worker performs under the mutex of a session.
LockedSteps == {"refind", "read", "add", "route", "forward", "send", "remove"}

\* A worker that may touch a socket holds the mutex of the session it found.
LocksHeld ==
    \A t \in Workers : pc[t] \in LockedSteps => mutex_[sess[t]] = t

\* A descriptor stands for one connection and one session for as long as the
\* router runs: the session stored under a socket, and the one a worker found
\* for it, however long ago, is that of the connection behind the descriptor.
DescriptorsNotReused ==
    /\ \A s \in Sockets : fd_table[s] # nullptr => socket_[fd_table[s]] = s
    /\ \A s \in Sockets :
          sessions_by_socket_[s] # nullptr =>
              fd_table[s] = sessions_by_socket_[s]
    /\ \A t \in Workers :
          pc[t] \notin {"pop", "find"} => fd_table[sock[t]] = sess[t]

\* A connection waits in the backlog once, and before it has a descriptor.
BacklogIsFresh ==
    /\ \A i, j \in DOMAIN backlog : backlog[i] = backlog[j] => i = j
    /\ \A i \in DOMAIN backlog :
          /\ peer[backlog[i]] # "new"
          /\ \A s \in Sockets : fd_table[s] # backlog[i]
    /\ \A s \in Sockets : fd_table[s] # nullptr => peer[fd_table[s]] # "new"

\* session.h: a session's mutex is there "for avoid read/write on single
\* socket from multiple thread".  It is a mutex of the session object, not of
\* the descriptor, so this needs that a descriptor never gets a second session
\* while a worker still uses the first one.
ExclusiveSocketIO ==
    \A t, u \in Workers :
        /\ pc[t] \in LockedSteps
        /\ pc[u] \in LockedSteps
        /\ sock[t] = sock[u]
        => t = u

\* A reader that has looked its socket up again under the lock works on a
\* session that stays in the registry until it removes it itself: no write
\* worker and no other reader removes the session it is reading for.  So
\* add_node() finds the session, and a message is never routed on behalf of a
\* removed one.
ReaderSessionStable ==
    \A r \in Readers :
        pc[r] \in {"read", "add", "route", "forward", "remove"} =>
            /\ sessions_by_socket_[sock[r]] = sess[r]
            /\ mutex_[sess[r]] = r

\* accept_client() never reaches its call of removeSession(), which would
\* lock sessions_mutex_ a second time and stop every thread of the router.
NoSelfDeadlock == sessions_mutex_ = "free"

\* What keeps the session mutexes effective, as one inductive invariant.
LockInv ==
    /\ LocksHeld
    /\ DescriptorsNotReused
    /\ BacklogIsFresh
    /\ ReaderSessionStable
    /\ NoSelfDeadlock

\* A message is only sent to a connection registered under the id the message
\* names, although the write queue and do_writes() know the destination by its
\* descriptor and the session may be removed at any time in between.  (A
\* destination that is not a number is looked up as NONE; what send() took of
\* a message before its buffer was full has no destination.)
NoMisdelivery ==
    \A c \in Conns : \A i \in DOMAIN outbox[c] :
        Len(outbox[c][i]) = DATA_MESSAGE_SIZE =>
            extract_dst_id(outbox[c][i]) \in {id_[c], NONE}

\* The message may be sent to this descriptor.
Addressed(socket, text) ==
    /\ fd_table[socket] # nullptr
    /\ extract_dst_id(text) \in {id_[fd_table[socket]], NONE}

\* What makes misdelivery impossible, as one inductive invariant (together
\* with LockInv): a session gets its id once, a session is found by its id
\* only, and a task still names the right descriptor when it is executed.
AddressInv ==
    /\ \A c \in Conns : socket_[c] # nullptr => fd_table[socket_[c]] = c
    /\ \A r \in Readers : pc[r] = "add" => id_[sess[r]] = NONE
    /\ IdsResolveToLiveSessions
    /\ \A r \in Readers :
          pc[r] = "forward" => extract_dst_id(msg[r]) \in {id_[dst[r]], NONE}
    /\ \A i \in DOMAIN ready_write_sockets_queue_ :
          Addressed(ready_write_sockets_queue_[i].socket,
                    ready_write_sockets_queue_[i].msg)
    /\ \A w \in Writers : pc[w] # "pop" => Addressed(sock[w], msg[w])
    /\ NoMisdelivery

\* The k-th data message of a peer.
Message(c, k) ==
    SubSeq(Stream[c], ID_MESSAGE_SIZE + (k - 1) * DATA_MESSAGE_SIZE + 1,
           ID_MESSAGE_SIZE + k * DATA_MESSAGE_SIZE)

MessagesOf(c) == 1 .. (Len(Stream[c]) - ID_MESSAGE_SIZE) \div DATA_MESSAGE_SIZE

\* Peers that register under an id the registry takes and send segments that
\* end where messages end, no two messages alike, to peers that read them.
WholeMessages ==
    /\ SlowPeers = {}
    /\ \A c \in Conns :
          /\ \A cut \in Cuts[c] :
                (cut - ID_MESSAGE_SIZE) % DATA_MESSAGE_SIZE = 0
          /\ Stream[c] # <<>> =>
                Stream[c][1] # NONE /\ Stream[c][1] < MAX_CLIENTS_COUNT
    /\ \A c, d \in Conns : \A k \in MessagesOf(c), l \in MessagesOf(d) :
          Message(c, k) = Message(d, l) => c = d /\ k = l

\* Then every message that is delivered is one that a peer sent, none is
\* delivered twice, and with one write worker the messages of a peer arrive in
\* the order they were sent in, however the readers share the work.
DeliveredOnceInOrder ==
    WholeMessages =>
    \A d \in Conns :
        /\ \A i \in DOMAIN outbox[d] :
              \E c \in Conns : \E k \in MessagesOf(c) :
                  outbox[d][i] = Message(c, k)
        /\ \A i, j \in DOMAIN outbox[d] : \A c \in Conns :
              \A k, l \in MessagesOf(c) :
                  /\ i < j
                  /\ outbox[d][i] = Message(c, k)
                  /\ outbox[d][j] = Message(c, l)
                  => IF Cardinality(Writers) = 1 THEN k < l ELSE k # l

\* router.h: the event loop is there "to monitor socket intruppt and handle
\* them to worker threads".  A registered client that has something to read is
\* served until it has nothing more or its session is removed.
ReadEventsServed ==
    \A c \in Conns :
        Registered(c) /\ Readable(socket_[c]) ~>
            ~ Registered(c) \/ ~ Readable(socket_[c])

\* A complete message waiting in the buffer of a registered client, addressed
\* to another registered client, reaches it unless one of the two sessions is
\* removed first.
MessagesDelivered ==
    \A c, d \in Conns : \A k \in MessagesOf(c) :
        /\ Registered(c)
        /\ id_[c] # NONE
        /\ inbox[c] = Message(c, k)
        /\ sessions_by_id_[extract_dst_id(Message(c, k))] = d
        ~>
        \/ Message(c, k) \in ToSet(outbox[d])
        \/ ~ Registered(c)
        \/ ~ Registered(d)

\* A client that has got a part of a message, which nobody will complete, is
\* removed before the mutex of its session is released: only a write worker
\* that had found the session before and waits for that mutex still sends to
\* it.  (Such a worker does not look again, and its message follows the
\* fragment.)
FragmentEndsSession ==
    \A c \in Conns :
        (\E i \in DOMAIN outbox[c] : Len(outbox[c][i]) < DATA_MESSAGE_SIZE) =>
            \/ ~ Registered(c)
            \/ \E w \in Writers : pc[w] = "remove" /\ mutex_[c] = w


\* sessions.h documents sessions_mutex_ as "Mutex for thread-safe access to
\* sessions add/read/remove": the event loop must not miss a client in the
\* list it reads, so while select() blocks, none of its sockets being ready, no
\* registered client has anything for the router to read.
NobodyWaitsForSelect ==
    /\ loop = "select"
    /\ backlog = <<>>
    /\ \A s \in readfds : ~ Readable(s)
    =>
    \A s \in Sockets : sessions_by_socket_[s] # nullptr => ~ Readable(s)

=============================================================================
