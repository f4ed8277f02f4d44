# A verification project for the router and its nodes

The repository is a message router and its clients. The router accepts TCP
connections on one thread with `select()`, reads and routes messages on a pool of
read workers, and sends them on a pool of write workers. A client (*node*) sends
its id in a 3-byte message and then 32-byte data messages that carry a source and
a destination id; it answers every message it gets and connects again when something
fails. This directory models both, checks the models with TLC on small instances and
proves their safety properties and refinements with TLAPS for every instance.

The router reads `fd_set::fd_array`, so the build modelled is the one for Windows.

## 1. The system

| Part | State | Operations | Talks to |
|---|---|---|---|
| `SignalingQueue<T>` (`router/include/signaling_queue.h`) | `m_queue`, `m_mutex`, `m_cond` | `push(item, skip_if_repeated)`, blocking `pop()` | any number of producing and consuming threads |
| `Sessions`, `Session` (`router/src/sessions.cpp`, `session.h`) | `sessions_by_socket_`, `sessions_by_id_`, `accepted_clients_`, `sessions_mutex_`; per session `socket_`, `id_`, `mutex_` | `accept_client`, `add_node`, `find_session_by_socket`, `find_session_by_id`, `removeSession`, `get_accpeted_sockets` | called by the event loop and all workers |
| Event loop (`Router::start_event_listener`) | `readfds` | copy the watched sockets, `select()`, accept one client, push the ready sockets | read queue, `Sessions` |
| Read workers (`do_reads`, `handle_handshake`, `process_message`, `forward`) | one receive buffer per thread | pop a socket, find and lock its session, read until empty, register or route | both queues, `Sessions` |
| Write workers (`do_writes`) | the task | pop a task, find and lock the session, send, remove on failure | write queue, `Sessions` |
| `TcpServer` | the buffer of one `read_async()` | start the server, accept, recv until full, send, fill the fd_set | kernel |
| `Message` (router side) | none | `extract_src_id`, `extract_dst_id` | |
| `Router::start`, `main` | thread pool, server socket | half of the threads read, half write; start the server | |
| `Node` (`node/src/node.cpp`) | ids, one `TCPSocket`, the retries of a send | connect, subscribe, send a first message, answer in a loop, reconnect | router |
| Node's `TCPSocket` | `_socket`, `_buffer` | `connect_to_server`, `sendMessage`, `recvMessage`, `closeSocket` | kernel |
| Node's `Message` | none | `processMessage`, `buildFirstMessage`, `buildIdMessage` | |
| loggers, tests, build scripts | | | |

What is hard here:

* **Three layers of locks.** A queue mutex, one `sessions_mutex_` for the registry,
  and one mutex per Session *object*. The last protects a *descriptor* only as long
  as no descriptor has two sessions, and the registry's mutex is not recursive.
* **State read before a lock and used after it.** `do_reads` looks its session up
  again under the lock, `do_writes` does not. A queued write task names a
  descriptor, and may be executed long after its client has left.
* **A condition variable with one `notify_one()` per push**, consumers that sleep
  and consumers that enter directly.
* **An unsynchronised copy** of `accepted_clients_` by the event loop.
* **Repeated events.** A socket stays readable until it is read, so several readers
  get events for one socket; only *adjacent* repeats are merged.
* **Failures in the middle**: reset peers, full send buffers, a failing `select()`
  or `accept()`, messages cut by segment boundaries, in both directions.
* **Reconnection.** A node finds out about a broken connection, and subscribes on a new
  one, independently of the router finding out about the old one. A crash of the router
  takes its registry with it, and the nodes must set the conversation up again; nobody
  orders who is there first.
* **Text.** Ids and the MTI pass through `std::setw` and `std::stoi`, which accept and
  produce more than the format has room for.

`PROJECT.json` lists the hazards with their lines and the properties that cover them.

## 2. The modules

| Module | Models |
|---|---|
| `FifoQueue` | what `SignalingQueue` promises: an atomic FIFO queue |
| `SignalingQueue` | every step of `push()` and `pop()` between two lock operations |
| `SignalingQueueProofs` | theorems about it |
| `Sessions` | the registry; one operator per method |
| `Router` | EXTENDS `Sessions`: event loop, read workers, write workers, kernel and peers |
| `RoutingService` | what the router promises its clients, without threads, queues and locks |
| `RouterService` | EXTENDS `Router`: the refinement mapping to `RoutingService` |
| `MCRouter` | the streams and bounds of the router's runs |
| `Startup` | `main`, `Router::start` and `start_tcp_server` up to the event loop |
| `Node` | EXTENDS `RoutingService`, `Startup`: the nodes, on the sockets of the service |
| `System` | EXTENDS `Node`: nodes, router and faults together |
| `MCSystem` | two nodes that name each other |
| `MessageText` | the text of the messages and what `stoi` and `setw` make of it |
| `Exchange` | EXTENDS `MessageText`: one message answered again and again |
| `AtomicRead` | how `Router` sees `read_async()`: one step, here in bytes |
| `Framing` | `read_async()` recv by recv, and that it implements `AtomicRead` |
| `MCFraming` | where segments end in its runs |
| `SequenceFacts` | lemmas about sequences the proofs share |
| `RouterProofs` | types of the router's state and the session mutexes |
| `RouterAddressProofs` | the registry, addresses, fragments, delivery once and in order |
| `RouterServiceProofs` | `Router` implements `RoutingService` |
| `FramingProofs` | `Framing` implements `AtomicRead`, and messages are read intact |
| `SystemProofs` | the safety invariants of nodes, router and faults together |
| `ExchangeProofs` | the format of the messages |

### SignalingQueue

`pc[t]` is the place of thread *t* in `push()` or `pop()`; a step ends where another
thread could see a difference. `PushLock`, `PushTest` or `PushSkip`, `PushAppend`,
`PushNotify` are lines 28-41 of the header, `PopLock`, `PopWait` or `PopReady`,
`PopRelock`, `PopFront`, `PopTake` lines 50-57. `notify_one()` wakes any one
sleeper, and `SpuriousWakeup` any sleeper at any time. `Fifo` instantiates `FifoQueue`
with `queue <- m_queue` and a push that has its parameters but has not changed the
queue as a pending call.

### Sessions

A Session object is created once per accepted connection, so it is named by its
connection; its fields live on after its removal because workers hold a
`shared_ptr`. Every method but `get_accpeted_sockets()` holds `sessions_mutex_` from
its first to its last line and is one step. `sessions_mutex_ = "held"` is the state
after `accept_client()` has called `removeSession()` under its own lock: every
registry step needs `"free"`.

### Router

* *Queues* are sequences with atomic push and pop: that is what `ImplementsFifo`
  and `QueueIsFifo` establish about the class.
* *Text* is a sequence of chunks. A chunk is the number `std::stoi` finds in it, -1 if
  none. An id message is one chunk, a data message three (source, body, destination);
  so a segment can end inside a message and a data message can be read as three id
  messages, as with bytes.
* *Event loop.* `ResetBegin` reads the size of `accepted_clients_`; until `ResetEnd`
  every `removeSession()` adds the values it moves to what a slot may be read as
  (`Smear`). `Select` blocks until something is ready. `Accept`, `AcceptRefused` (the
  socket cannot be made non-blocking) and `AcceptError` (no descriptor) are the three
  outcomes of accepting; the last two forget the sockets `select()` reported, as the
  `continue` in the code does. `PushReady` pushes with the merge flag.
* *Readers* pop, `Find`, `ReadLock`, `Refind`, then read in a loop: `ReadFull` goes on
  to `AddNode` or `Route` and `Forward`; `ReadPartial` drops the bytes; `ReadNothing`
  returns; `ReadError` leads to `ReadRemove`. `read_async()` is one step, because only
  the lock's owner reads the socket (`ExclusiveSocketIO`).
* *Writers* pop, `Find`, `WriteLock`, then `SendOk`, or `SendError` or `SendPartial` (the
  peer has got a fragment) and `WriteRemove`.
* *Kernel and peers* (external): a connection is new, in the backlog, then has a
  descriptor. `close()` is never called on a registered descriptor, so none is handed
  out twice; peers connect, send up to one of the positions in `Cuts`, close or reset. After
  a reset unread data is lost or can still be read: the systems differ.

`LockInv` and `AddressInv` are stated in `Router` because TLC checks them too.

### RoutingService and RouterService

The abstract service keeps, for each connection, whether it waits, is seated or has
left, the id it registered, and the text not yet acted upon; a directory from ids to
connections; and a *bag* of messages in transit, because the code promises no order
between write workers. `Take` decides the addressee, `Deliver`, `Lose` and `Tear` end a
message. The mapping: text in a reader's buffer is still unread until `AddNode` or
`Route`; a message is in transit in the reader that forwards it, in the write queue, and
in the write worker until `send()`; a connection is seated while `sessions_by_socket_`
has its session. The descriptors disappear: a task goes to the connection behind its
descriptor.

### Node and System

`at[n]` is the place of node *n* in `Node::start()`: connect, sleep, three places where
`send_message()` runs (`subscribe`, `initiate`, `reply`) and `recv`. `retry_count` and
`out` are the local and the parameter of `send_message()`. `SendLost` is a `send()` that
succeeds locally on a connection that has ended; `GiveUp` is the third failed try;
an empty reply fails the same way, because `sendMessage()` returns 0. `sockets[n]` are
the sockets `closeSocket()` was not called for. `initiate_messaging` is `true` in
`main`, so every node sends a first message. `MTI_LIMIT` is 1 in the runs: no property of
this module depends on the MTI, `Exchange` is about it.

`Startup` is the way from a router process that is started to its event loop: the
worker threads one by one, the socket, `bind`, `listen`. When one of them fails the process
ends (`std::terminate()`, because the threads are neither joined nor detached), except
`listen()`, whose result is ignored: the router is then `deaf`.

`System` puts the nodes on `RoutingService`, which `Router` implements, once the router
is up, and adds faults: a connection is reset, a client is refused, a node or the router
ends and is started again, the start of the router fails, a segment ends inside a message on its
way to a node. `faults` counts them and remembers their kinds. The service's reads need a
read worker, its deliveries a write worker. Nodes send whole messages, so `Discard` and
`Tear` of the service do not occur here.

### MessageText, Exchange

Characters are the digits, the signs, a blank and a letter. `stoi` skips blanks, takes a
sign and digits and ignores the rest; `setw` pads on the left, before a sign, and never
cuts. `Exchange` lets a message go back and forth; `Throw` is the exception of
`std::stoi` that leaves `start()` and ends the node. The assumption `NodeTests` is
`tests/node_tests.cpp`: TLC evaluates its five expectations in every run of the module.
So it does with `NumbersReadBack` and `RepliesReadBack`, facts without parameters on which the
proofs rest: `stoi` reads back what `setw` writes, for every id below 999 and every MTI from 0 to
9999; and the MTI a node writes has four characters and is a number, whatever number `stoi` has
found in the four characters of the other MTI (all 14^4 texts).

### AtomicRead, Framing

One connection, real sizes (3 and 32 bytes). `sender` is chosen at the start: an id and the
set of places where segments may end. Bytes are positions in its stream, with `sender.ids` what
`extract_src_id()` finds at each of them. In `Framing`, `RecvSome`, `RecvWouldBlock`, `RecvEnd` (it
returns 0) and `RecvError` (it fails) are one `recv()` each, and segments, a close or a reset arrive
in between. After a reset `recv()` may fail at once or hand out what it still has; either way
`SOCKET_ERROR` drops what is in the buffer and ends the session, which may leave whole messages
unread. The mapping counts the bytes in the buffer of an unfinished `read_async()` as unread. After a data message the loop of `do_reads()` goes on or, if
nobody has the destination id, ends.

## 3. The runs

| Run | Instance | Result |
|---|---|---|
| `read_queue` | 1 producer, 2 consumers, 2 items, 3 places, flag always set | mutual exclusion, no lost wakeup, no adjacent repeat, implements `FifoQueue` with its liveness |
| `write_queue` | 2 producers, 2 consumers, flag never set | the same refinement with competing pushes |
| `router_talk` | 2 clients, 2 readers, 1 writer | types, exclusive I/O, stable reader sessions, delivery once and in order |
| `router_churn` | 3 clients, 2 descriptors, 1 reader, 2 writers; a reset, a slow peer, a duplicate id, a non-numeric id | the two inductive invariants, consistent containers, no misdelivery, no self-deadlock |
| `router_serves` | 2 clients, 1 reader, 1 writer, an `fd_set` of 3 places, a message to nobody and one to a client that may close, be reset or have a full send buffer, fairness | readable clients are served, messages arrive |
| `framing` | ids 3, 998 and 999, 3 messages; 15 places where a segment may end, or only boundaries; a close or a reset | implements `AtomicRead`; the reader that has come to a boundary gets the message there, unless the connection is reset; with aligned segments messages are read as sent |
| `exchange` | 4 ids, 1001 replies; every MTI of 4 characters out of 7 | the format is kept past the wrap of the MTI, router and nodes agree on the ids, replies are well formed |
| `system_talk` | 2 nodes, 3 threads, 2 failed starts or crashes of the router, fairness | the conversation goes on for ever |
| `system_faults` | 2 nodes, 3 connections each, 2 faults of 7 kinds | nothing is doubled, replies are addressed, one live connection per node, subscribed nodes are reachable |
| `duplicate_id` | 2 connections with one id | **violated**: the newer client's entry is erased with the older session |
| `torn_copy` | 3 clients, one is removed for its full send buffer | **violated**: `select()` blocks while a registered client it does not watch has sent something |
| `accept_starves` | 2 clients, 1 descriptor, fairness | **violated**: no readable client is served while `accept()` fails |

The last three state what a comment of the code says and what it does not do; the
findings in `PROJECT.json` quote the lines. `duplicate_id` needs no second node: its two
connections may be those of one node that reconnects before the router notices.

The models show more of this kind; where a property has an exception, this is why:

* `FragmentEndsSession`: a write worker that waits for the session's mutex while another one
  sends a fragment and removes the session does not look again, and sends behind the fragment
  (`router.cpp:239`; `do_reads` looks twice).
* `IdsResolveToLiveSessions`: a client whose id message is not a number is stored under -1,
  which `removeSession()` takes for "no id" and leaves in `sessions_by_id_` (`sessions.cpp:72`).
* `ReadEventsServed`: with one place less in the `fd_set` the last client is never served
  (`tcpserver.cpp:141`; `FD_SETSIZE` is 64, `MAX_CLIENTS_COUNT` 999).
* `FramesIntact`: the id 999 is refused, the session stays, the next bytes are read as id
  messages, and the node is registered as 220, from its MTI (`sessions.cpp:32`). A segment that
  ends inside a message puts the stream out of step until a read ends at a boundary.
* `RouterAndNodesAgree`: ids have up to three digits; `setw(3)` does not cut a longer one, of
  which the router reads three characters (`message.h:106`).
* `RepliesAreAddressed`, `OneLiveLink`: after a cut segment a node may take the end of one message
  and the beginning of the next for a message; the reply is then empty, which counts as a failed
  send, and the node connects again without closing the socket (`node.cpp:56`).
* `SubscribedNodeIsReachable` and `KeepsTalking` exclude the reset of a single connection for what
  `duplicate_id` shows; a cut segment ends the conversation it belongs to.

The repository's README has the limit of `select()`, partial sends and framing on its list of
future work.

*Bounds.* `MaxLen` and `MaxReadQueue` delay a push at a queue of 3 and 2 entries: one
entry more than the number of events that can compete for one socket. Two
consumers are the fewest that can race for one item. In `router_talk` two readers hold
events of the same socket while the writer uses it; in `router_churn` a descriptor is
missing for the third client, so a reused descriptor would be seen at once (the
mutants that close a descriptor show it). `Stream` gives each client an id and up to two
messages. `Cuts` lets a segment end after the id or between messages in `router_talk`;
in `router_churn` the first client's id, its first message and all or a part of the
second arrive in one segment, which keeps the instance at about a million states. Thread and descriptor names are
interchangeable, hence the symmetry sets; the runs with liveness use none.
Deadlock is not checked in the router's runs, because the streams are finite and a
router without work waits. It is checked in the queue's runs: a consumer may sleep
there, but a producer can always push.

In `router_churn` two messages for a slow client let two writers compete for its mutex, one of
them after the other has removed the session. In `router_serves` the server socket and the
clients just fit into the `fd_set`; with a third client the copy of the list could miss one of them when
a writer removes another, as `torn_copy` shows. `framing` cuts before, at and after boundaries
and inside the fields. In `system_faults` two faults leave every node a third connection, and
in `system_talk`, where deadlock is checked, two crashes do. `exchange` goes once round the
1000 values of the MTI. `THREAD_COUNT` is 4 as in the code (a constant of `main.cpp`) and, in
`system_talk`, 3, so that the division of the threads has a remainder.

*Fairness.* In the router: A thread inside a method is scheduled again (weak). A thread that waits for a
mutex gets it if it is released again and again, and `select()` does not fail every time
(strong). Pops are fair for the workers together, as `notify_one()` gives no
preference. Peers owe nothing: they may stop at any point. No fairness is assumed for the
outcome of `send()` or `accept()`. In `Framing`: the worker runs. In `System`: a node's
thread runs; `connect()` to a running router does not fail every time (strong, because the node
sleeps in between); the router serves every connection and every message, which is
what `router_serves` shows of it; and a router that has ended is started again. No fault is
fair.

`DeliveredOnceInOrder` asks for the order only with one writer; with two, the code lets
two messages for one client overtake each other between `pop()` and the lock.
It is about peers of which `WholeMessages` says that segments end where messages end (after a cut
message the stream stays out of step), that the id is one the registry takes (after 999 the next
bytes are read as an id), that no send buffer is full, and that no two messages are alike, without
which a message that arrives twice could not be told from two. The streams of `router_talk` are
such; it is a statement about the constants, and a hypothesis of the theorem in section 4.

## 4. What is proved

Every safety invariant a passing run checks is also a theorem, and so are the three refinements, for
every number of threads, connections, descriptors, items, nodes, messages, replies and faults.

### The queue

* `TypeCorrect`, `CriticalSectionHolds`: by induction; who is between lock and unlock
  owns `m_mutex`, and what was read under it still holds.
* `NoLostWakeup`: every append is followed by a notification that either wakes a
  sleeper or finds none; every consumer that leaves the awake set takes an item or sees
  the queue empty. Counting both gives items <= awake consumers + pending notification.
* `QueueIsFifo`: each step of the class is a step of `FifoQueue` or a stutter, from
  `CriticalSection`. `ReadQueueHasNoRepeats`: the queue of the event loop.

### The router

* `RouterTypeCorrect`: `TypeOK` is inductive because it includes that every session a
  map or a worker refers to has a socket, without which a forwarded task would not be
  well-typed.
* `LocksAreEffective` (`LockInv`). Exclusive I/O is not inductive: a mutex belongs to an
  object. What makes it so is that a descriptor never changes its connection
  (`DescriptorsNotReused`), which needs that a connection enters the backlog once
  (`BacklogIsFresh`). Then the session stored under a socket and the sessions workers
  found for it coincide, a removal can only be done by the holder of that mutex, and
  `SocketIOIsExclusive`, `ReaderSessionStays` and `RegistryNeverDeadlocks` follow.
  All of it rests on the router never closing the descriptor of a session.
* `AddressesAreRight` (`AddressInv`). A session gets an id once, because only the holder
  of its mutex registers it and only while it has none; so a task that named the
  right descriptor when it was queued still does when it is executed.
  `NothingIsMisdelivered` and `IdsLeadToLiveSessions` follow.
* `RegistryIsConsistent`: `ListAgrees`, the list of sockets against the map, is inductive; that
  a session is stored under its own socket is part of `LockInv`. `OwnIdResolves`, the map of ids,
  is inductive together with `NamedAfterAccept` and `AddressInv`: a registration and a removal only
  touch the entry under the id of their own session.
* `FragmentsEndSessions` (`FragmentInv`): the writer that has sent a fragment is at its removal,
  with the session it found, which is the one registered, if any.
* `MessagesArriveOnceInOrder`, for the peers of `WholeMessages`. `StreamInv` follows the text:
  the receive buffer is the next part of the stream and starts at a boundary, the id is the
  first thing read (so a session that has an id is at the start of a message, and no reader gets
  a part of one), everything forwarded was read, and what a reader holds comes after
  everything of its stream that was forwarded, because it is alone with its session.
  `OrderInv` follows the messages: those delivered, those in write workers and those in the queue
  are in order, or differ if there are several writers; each step moves one of them one place on.
* `RouterImplementsService`. `ServiceInv` adds to the invariants above why a session may be
  removed and why a reader that routes has an id. Then each step is a step of `RoutingService` or
  a stutter: reads, locks, pops and pushes stutter, `AddNode`, `Route`, the sends and removals act.
  The bag of messages in transit is counted over the queue and the workers, so a pop takes
  one from the first count and adds it to the second; what a client has got is the concatenation
  of the messages sent, by induction over them (`FlattenAppend`, from a least counterexample).

### Reading, text, and the whole system

* `LoopImplementsAtomicRead`, from `PositionsAreInOrder` (`ReadInv`): what is in the buffer of
  an unfinished `read_async()` was received, is less than a message, and is not left to the next call. `MessagesAreReadIntact`:
  with aligned segments every read ends at a boundary (`AlignedInv`), so the first one finds the id.
* `MessagesKeepTheirShape` (`ExchangeInv`): the text is always the two ids and a four-character
  MTI around the constants, the MTI is that of the number of replies or, in a stranger's
  conversation, a number after the first reply. `FormatIsKept`, `RouterReadsWhatNodesWrite` and
  `RepliesEndNoNode` follow.
* `SystemTypeCorrect`, then four invariants of `System`, two of them for some faults
  only: `NodesAreNamed` (`SubscribeInv`: a connection belongs to the node that made it, is
  subscribed first and registered under that node's id); `AlignedInv`, without cut segments:
  what is under way in either direction is whole messages between the right nodes, and the
  live connection is the one in use, hence `RepliesAreToSenders` and `NodesHaveOneLiveLink`;
  `ReachInv`, without the end of a single connection: older connections have left, so the entry
  under a node's id is that of the newest, hence `SubscribedNodesAreReachable`; `CountInv`:
  messages, replies being sent and nodes yet to send their first message are together no more
  than the connections made, hence `EachConnectionAddsOneMessage`.

### What the proofs assume

The named assumptions of the modules, which TLC evaluates in the runs: `ThreadsAssumption`,
`DataAssumption`, `RegistryAssumption` and `PeersAssumption` (disjoint identities, -1 among the values, streams
of values), `PoolsAssumption` (finitely many threads), `SenderAssumption`, `ThreadCountAssumption`,
`NodesAssumption` (a node's id is a number below `MAX_CLIENTS_COUNT`), `ValuesAssumption`,
`ReadersAssumption` (no node leaves its messages unread until a buffer is full),
`ArgumentsAssumption` (ids below 999). `IdsReadBack`, `NumbersReadBack` and `RepliesReadBack` have no parameters: TLC
evaluates them completely, and so stands in for the induction over digits the prover cannot do.

### What is only model-checked

The liveness properties (`ReadEventsServed`, `MessagesDelivered`, `RecoversAtBoundary`, `KeepsTalking`) and the
liveness part of `ImplementsFifo`, because the prover does not handle
fairness. The three findings are counterexamples of TLC.

## 5. Not modelled, and what is left

Not modelled: the loggers, which nothing depends on; the build scripts; the tests other
than as `NodeTests`; time (the delay of five seconds is a step `Wake`); the command lines,
which are taken to be right (a port beyond 16 bits is cut by `htons()`); `SIGPIPE`, which ends a node on Unix at a second `send()` to
a broken connection (a node that ends is `NodeRestart`); the exceptions of `std::stoi` in
`System`, where every text is a number (they are in `Exchange`); `std::out_of_range`,
which three characters cannot cause; exhaustion of memory.

Left to prove: what of the liveness arguments is safety, for instance which steps keep a waiting
worker able to go on. That the two queues of `Router` are `FifoQueue`s is by the form of its pushes
and pops; no theorem composes the two modules.
