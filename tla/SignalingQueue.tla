--------------------------- MODULE SignalingQueue ---------------------------
(***************************************************************************)
(* router/include/signaling_queue.h: std::queue + std::mutex +             *)
(* std::condition_variable.  Every thread is at one of the steps of push() *)
(* or of pop(); pc "idle" is outside the class (a worker that handles the  *)
(* item it popped, the event loop between two pushes).                     *)
(*                                                                         *)
(*   push():  idle -> test -> append -> notify -> idle                     *)
(*                      \-> idle  (a repeated item is skipped)             *)
(*   pop():   idle -> check -> front -> take -> idle                       *)
(*                    |   ^                                                *)
(*                    v   |                                                *)
(*              waiting -> woken                                           *)
(***************************************************************************)
EXTENDS Naturals, Sequences, FiniteSets

CONSTANTS
    Producers,      \* threads that call push()
    Consumers,      \* threads that call pop()
    Items,          \* the values of T
    SkipFlags,      \* the values callers give to skip_if_repeated
    NoItem,         \* the content of a local T before it is assigned
    Nobody,         \* the owner of an unlocked m_mutex
    MaxLen          \* bound: no push() starts while m_queue has this length

Threads == Producers \cup Consumers

ASSUME ThreadsAssumption ==
    /\ IsFiniteSet(Consumers)
    /\ Producers \cap Consumers = {}
    /\ Nobody \notin Threads

ASSUME DataAssumption ==
    /\ NoItem \notin Items \cup [item : Items, skip : BOOLEAN]
    /\ SkipFlags \subseteq BOOLEAN
    /\ MaxLen \in Nat \ {0}

VARIABLES
    m_queue,        \* the std::queue, front first
    m_mutex,        \* the thread that holds m_mutex
    pc,             \* pc[t]: where thread t is
    item,           \* item[t]: the parameter of push(), the local of pop()
    skip,           \* skip[p]: the parameter skip_if_repeated of push()
    got             \* got[c]: the value the latest pop() of c returned

vars == <<m_queue, m_mutex, pc, item, skip, got>>

ProducerSteps == {"idle", "test", "append", "notify"}
ConsumerSteps == {"idle", "check", "front", "take", "waiting", "woken"}

\* The steps a thread performs while it holds m_mutex.
LockedSteps == {"test", "append", "notify", "check", "front", "take"}

Goto(t, step) == pc' = [pc EXCEPT ![t] = step]

Lock(t) == m_mutex = Nobody /\ m_mutex' = t

Unlock == m_mutex' = Nobody

Init ==
    /\ m_queue = <<>>
    /\ m_mutex = Nobody
    /\ pc = [t \in Threads |-> "idle"]
    /\ item = [t \in Threads |-> NoItem]
    /\ skip = [p \in Producers |-> FALSE]
    /\ got = [c \in Consumers |-> NoItem]

-----------------------------------------------------------------------------
\* push(item, skip_if_repeated)

\* MUTANT of PushLock: the parameter is not stored.
PushLockForgetsItem(p, i, s) ==
    /\ pc[p] = "idle"
    /\ Len(m_queue) < MaxLen
    /\ Lock(p)
    /\ skip' = [skip EXCEPT ![p] = s]
    /\ Goto(p, "test")
    /\ UNCHANGED <<m_queue, item, got>>

PushLock(p, i, s) ==
    /\ pc[p] = "idle"
    /\ Len(m_queue) < MaxLen
    /\ Lock(p)
    /\ item' = [item EXCEPT ![p] = i]
    /\ skip' = [skip EXCEPT ![p] = s]
    /\ Goto(p, "test")
    /\ UNCHANGED <<m_queue, got>>

\* MUTANT of IsRepeated: compares with the oldest element.
IsRepeatedAtFront(p) ==
    /\ skip[p]
    /\ Len(m_queue) > 0
    /\ m_queue[1] = item[p]

\* MUTANT of IsRepeated: merges equal items whatever the flag says.
IsRepeatedAnyFlag(p) ==
    /\ Len(m_queue) > 0
    /\ m_queue[Len(m_queue)] = item[p]

\* The early return: the newest element of the queue is already this item.
IsRepeated(p) ==
    /\ skip[p]
    /\ Len(m_queue) > 0
    /\ m_queue[Len(m_queue)] = item[p]

PushSkip(p) ==
    /\ pc[p] = "test"
    /\ IsRepeated(p)
    /\ Unlock
    /\ Goto(p, "idle")
    /\ UNCHANGED <<m_queue, item, skip, got>>

PushTest(p) ==
    /\ pc[p] = "test"
    /\ ~ IsRepeated(p)
    /\ Goto(p, "append")
    /\ UNCHANGED <<m_queue, m_mutex, item, skip, got>>

PushAppend(p) ==
    /\ pc[p] = "append"
    /\ m_queue' = Append(m_queue, item[p])
    /\ Goto(p, "notify")
    /\ UNCHANGED <<m_mutex, item, skip, got>>

Sleepers == {c \in Consumers : pc[c] = "waiting"}

\* MUTANT of PushNotify: notifies only when the queue was empty.
PushNotifyFirstOnly(p) ==
    /\ pc[p] = "notify"
    /\ \/ /\ Sleepers = {} \/ Len(m_queue) > 1
          /\ Goto(p, "idle")
       \/ /\ Len(m_queue) = 1
          /\ \E c \in Sleepers : pc' = [pc EXCEPT ![p] = "idle", ![c] = "woken"]
    /\ Unlock
    /\ UNCHANGED <<m_queue, item, skip, got>>

\* notify_one() wakes any one of the waiting threads, or nobody.
PushNotify(p) ==
    /\ pc[p] = "notify"
    /\ \/ /\ Sleepers = {}
          /\ Goto(p, "idle")
       \/ \E c \in Sleepers : pc' = [pc EXCEPT ![p] = "idle", ![c] = "woken"]
    /\ Unlock
    /\ UNCHANGED <<m_queue, item, skip, got>>

-----------------------------------------------------------------------------
\* pop()

PopLock(c) ==
    /\ pc[c] = "idle"
    /\ Lock(c)
    /\ Goto(c, "check")
    /\ UNCHANGED <<m_queue, item, skip, got>>

\* The predicate of m_cond.wait() is false: release m_mutex and sleep.
PopWait(c) ==
    /\ pc[c] = "check"
    /\ m_queue = <<>>
    /\ Unlock
    /\ Goto(c, "waiting")
    /\ UNCHANGED <<m_queue, item, skip, got>>

PopReady(c) ==
    /\ pc[c] = "check"
    /\ m_queue # <<>>
    /\ Goto(c, "front")
    /\ UNCHANGED <<m_queue, m_mutex, item, skip, got>>

\* A condition variable may wake a thread nobody notified.
SpuriousWakeup(c) ==
    /\ pc[c] = "waiting"
    /\ Goto(c, "woken")
    /\ UNCHANGED <<m_queue, m_mutex, item, skip, got>>

\* m_cond.wait() returns with m_mutex held, then tests the predicate again.
PopRelock(c) ==
    /\ pc[c] = "woken"
    /\ Lock(c)
    /\ Goto(c, "check")
    /\ UNCHANGED <<m_queue, item, skip, got>>

\* MUTANT of PopFront: gives m_mutex up between front() and pop().
PopFrontUnlocks(c) ==
    /\ pc[c] = "front"
    /\ item' = [item EXCEPT ![c] = Head(m_queue)]
    /\ Unlock
    /\ Goto(c, "take")
    /\ UNCHANGED <<m_queue, skip, got>>

PopFront(c) ==
    /\ pc[c] = "front"
    /\ item' = [item EXCEPT ![c] = Head(m_queue)]
    /\ Goto(c, "take")
    /\ UNCHANGED <<m_queue, m_mutex, skip, got>>

\* MUTANT of PopTake: removes the newest element, as a stack would.
PopTakeNewest(c) ==
    /\ pc[c] = "take"
    /\ m_queue' = SubSeq(m_queue, 1, Len(m_queue) - 1)
    /\ got' = [got EXCEPT ![c] = item[c]]
    /\ Unlock
    /\ Goto(c, "idle")
    /\ UNCHANGED <<item, skip>>

PopTake(c) ==
    /\ pc[c] = "take"
    /\ m_queue' = Tail(m_queue)
    /\ got' = [got EXCEPT ![c] = item[c]]
    /\ Unlock
    /\ Goto(c, "idle")
    /\ UNCHANGED <<item, skip>>

-----------------------------------------------------------------------------
Produce(p) ==
    \/ \E i \in Items, s \in SkipFlags : PushLock(p, i, s)
    \/ PushSkip(p)
    \/ PushTest(p)
    \/ PushAppend(p)
    \/ PushNotify(p)

Consume(c) ==
    \/ PopLock(c)
    \/ PopWait(c)
    \/ PopReady(c)
    \/ SpuriousWakeup(c)
    \/ PopRelock(c)
    \/ PopFront(c)
    \/ PopTake(c)

Next ==
    \/ \E p \in Producers : Produce(p)
    \/ \E c \in Consumers : Consume(c)

SafetySpec == Init /\ [][Next]_vars

(***************************************************************************)
(* A thread inside push() or pop() is scheduled again (weak fairness), and *)
(* one that wants m_mutex gets it if the mutex is free again and again     *)
(* (strong fairness).  Nothing obliges a producer to call push(), nor the  *)
(* condition variable to wake up spuriously.                               *)
(***************************************************************************)
Fairness ==
    /\ \A p \in Producers :
          WF_vars(PushSkip(p) \/ PushTest(p) \/ PushAppend(p) \/ PushNotify(p))
    /\ \A c \in Consumers :
          /\ WF_vars(PopWait(c) \/ PopReady(c) \/ PopFront(c) \/ PopTake(c))
          /\ SF_vars(PopLock(c))
          /\ SF_vars(PopRelock(c))

Spec == SafetySpec /\ Fairness

-----------------------------------------------------------------------------
\* Properties

\* m_queue, m_mutex and the locals of push() and pop() keep their types, and a
\* thread is only ever at a step of its own method.
TypeOK ==
    /\ m_queue \in Seq(Items)
    /\ m_mutex \in Threads \cup {Nobody}
    /\ pc \in [Threads -> ProducerSteps \cup ConsumerSteps]
    /\ \A p \in Producers : pc[p] \in ProducerSteps
    /\ \A c \in Consumers : pc[c] \in ConsumerSteps
    /\ item \in [Threads -> Items \cup {NoItem}]
    /\ skip \in [Producers -> BOOLEAN]
    /\ got \in [Consumers -> Items \cup {NoItem}]

\* m_mutex is held by the thread, and only the thread, that is between the
\* lock and the end of push() or pop(): what front() returned is still the
\* front when pop() removes it, and what push() decided about the back of the
\* queue still holds when it appends.
CriticalSection ==
    /\ \A t \in Threads : pc[t] \in LockedSteps => m_mutex = t
    /\ \A p \in Producers :
          /\ pc[p] \in {"test", "append"} =>
                item[p] \in Items /\ skip[p] \in SkipFlags
          /\ pc[p] = "append" => ~ IsRepeated(p)
    /\ \A c \in Consumers :
          /\ pc[c] \in {"front", "take"} => m_queue # <<>>
          /\ pc[c] = "take" => item[c] = Head(m_queue)

\* A push() has appended its item and not yet called notify_one().
NotifyPending == \E p \in Producers : pc[p] = "notify"

\* Threads of pop() that will test the predicate again before they sleep.
Awake == {c \in Consumers : pc[c] \in {"woken", "check", "front", "take"}}

\* No lost wakeup: while a thread sleeps in m_cond.wait(), every item in the
\* queue has an awake thread on its way to it, or a notify_one() still to
\* come.  notify_one() once per push() is enough, although woken threads race
\* with threads that enter pop() directly.
WakeupPerItem ==
    Sleepers # {} =>
        Len(m_queue) <= Cardinality(Awake) + (IF NotifyPending THEN 1 ELSE 0)

\* With skip_if_repeated always true (the read queue of the router), the queue
\* never holds the same socket twice in a row, so a socket that stays readable
\* while no worker pops does not fill it.
NoAdjacentRepeat ==
    SkipFlags = {TRUE} =>
        \A i \in 1 .. Len(m_queue) - 1 : m_queue[i] # m_queue[i + 1]

\* A push() that has its parameters and has not yet changed m_queue.
PendingPush == [p \in Producers |->
                    IF pc[p] \in {"test", "append"}
                    THEN [item |-> item[p], skip |-> skip[p]]
                    ELSE NoItem]

Fifo == INSTANCE FifoQueue WITH queue <- m_queue, pending <- PendingPush

\* The class is a FIFO queue: every push() enters its item unless it asked to
\* be merged with an equal newest one, pop() hands out each item once and in
\* the order of the pushes, and an item never stays in the queue for ever
\* while the workers come back to pop().
ImplementsFifo == Fifo!Spec
=============================================================================
