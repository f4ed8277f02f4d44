------------------------ MODULE SignalingQueueProofs ------------------------
(***************************************************************************)
(* For every set of producers and consumers and every bound: the types,    *)
(* the critical section, the absence of lost wakeups, and the safety part  *)
(* of the refinement of FifoQueue.                                         *)
(***************************************************************************)
EXTENDS SignalingQueue, FiniteSetTheorems, SequenceTheorems, TLAPS

\* The initial state of the queue has the right types.
LEMMA InitType == Init => TypeOK
BY DataAssumption DEF Init, TypeOK, ProducerSteps, ConsumerSteps, Threads

\* Every step of push() and of pop() keeps the types.
LEMMA NextType == TypeOK /\ CriticalSection /\ [Next]_vars => TypeOK'
<1> SUFFICES ASSUME TypeOK, CriticalSection, [Next]_vars
             PROVE  TypeOK'
    OBVIOUS
<1> USE ThreadsAssumption, DataAssumption
        DEF TypeOK, ProducerSteps, ConsumerSteps, Threads, Goto, Lock, Unlock
<1>1. ASSUME NEW p \in Producers, NEW i \in Items, NEW s \in SkipFlags,
             PushLock(p, i, s)
      PROVE  TypeOK'
      BY <1>1 DEF PushLock
<1>2. ASSUME NEW p \in Producers, PushSkip(p) PROVE TypeOK'
      BY <1>2 DEF PushSkip
<1>3. ASSUME NEW p \in Producers, PushTest(p) PROVE TypeOK'
      BY <1>3 DEF PushTest
<1>4. ASSUME NEW p \in Producers, PushAppend(p) PROVE TypeOK'
  <2>1. item[p] \in Items
        BY <1>4 DEF PushAppend, CriticalSection
  <2> QED BY <1>4, <2>1 DEF PushAppend
<1>5. ASSUME NEW p \in Producers, PushNotify(p) PROVE TypeOK'
  <2>1. CASE Sleepers = {} /\ Goto(p, "idle")
        BY <1>5, <2>1 DEF PushNotify
  <2>2. ASSUME NEW c \in Sleepers,
               pc' = [pc EXCEPT ![p] = "idle", ![c] = "woken"]
        PROVE  TypeOK'
        BY <1>5, <2>2 DEF PushNotify, Sleepers
  <2> QED BY <1>5, <2>1, <2>2 DEF PushNotify
<1>6. ASSUME NEW c \in Consumers, PopLock(c) PROVE TypeOK'
      BY <1>6 DEF PopLock
<1>7. ASSUME NEW c \in Consumers, PopWait(c) PROVE TypeOK'
      BY <1>7 DEF PopWait
<1>8. ASSUME NEW c \in Consumers, PopReady(c) PROVE TypeOK'
      BY <1>8 DEF PopReady
<1>9. ASSUME NEW c \in Consumers, SpuriousWakeup(c) PROVE TypeOK'
      BY <1>9 DEF SpuriousWakeup
<1>10. ASSUME NEW c \in Consumers, PopRelock(c) PROVE TypeOK'
      BY <1>10 DEF PopRelock
<1>11. ASSUME NEW c \in Consumers, PopFront(c) PROVE TypeOK'
  <2>1. Head(m_queue) \in Items
        BY <1>11, HeadTailProperties DEF PopFront, CriticalSection
  <2> QED BY <1>11, <2>1 DEF PopFront
<1>12. ASSUME NEW c \in Consumers, PopTake(c) PROVE TypeOK'
  <2>1. Tail(m_queue) \in Seq(Items)
        BY <1>12, HeadTailProperties DEF PopTake, CriticalSection
  <2> QED BY <1>12, <2>1 DEF PopTake
<1>13. CASE UNCHANGED vars
      BY <1>13 DEF vars
<1> QED
    BY <1>1, <1>2, <1>3, <1>4, <1>5, <1>6, <1>7, <1>8, <1>9, <1>10, <1>11,
       <1>12, <1>13 DEF Next, Produce, Consume

\* No thread is inside push() or pop() at the start.
LEMMA InitCritical == Init => CriticalSection
BY DEF Init, CriticalSection, LockedSteps, Threads

\* The mutex serialises push() and pop(): a step of the thread that holds it
\* leaves alone what the others rely on.
LEMMA NextCritical == TypeOK /\ CriticalSection /\ [Next]_vars => CriticalSection'
<1> SUFFICES ASSUME TypeOK, CriticalSection, [Next]_vars
             PROVE  CriticalSection'
    OBVIOUS
<1> USE ThreadsAssumption, DataAssumption
        DEF TypeOK, CriticalSection, LockedSteps, IsRepeated,
            ProducerSteps, ConsumerSteps, Threads, Goto, Lock, Unlock
<1>1. ASSUME NEW p \in Producers, NEW i \in Items, NEW s \in SkipFlags,
             PushLock(p, i, s)
      PROVE  CriticalSection'
      BY <1>1 DEF PushLock
<1>2. ASSUME NEW p \in Producers, PushSkip(p) PROVE CriticalSection'
      BY <1>2 DEF PushSkip
<1>3. ASSUME NEW p \in Producers, PushTest(p) PROVE CriticalSection'
      BY <1>3 DEF PushTest
<1>4. ASSUME NEW p \in Producers, PushAppend(p) PROVE CriticalSection'
  <2>1. \A t \in Threads : t # p => pc[t] \notin LockedSteps
        BY <1>4 DEF PushAppend
  <2>2. pc' = [pc EXCEPT ![p] = "notify"] /\ m_mutex' = m_mutex /\ m_mutex = p
        BY <1>4 DEF PushAppend
  <2> QED BY <2>1, <2>2
<1>5. ASSUME NEW p \in Producers, PushNotify(p) PROVE CriticalSection'
  <2>1. CASE Sleepers = {} /\ Goto(p, "idle")
        BY <1>5, <2>1 DEF PushNotify
  <2>2. ASSUME NEW c \in Sleepers,
               pc' = [pc EXCEPT ![p] = "idle", ![c] = "woken"]
        PROVE  CriticalSection'
        BY <1>5, <2>2 DEF PushNotify, Sleepers
  <2> QED BY <1>5, <2>1, <2>2 DEF PushNotify
<1>6. ASSUME NEW c \in Consumers, PopLock(c) PROVE CriticalSection'
      BY <1>6 DEF PopLock
<1>7. ASSUME NEW c \in Consumers, PopWait(c) PROVE CriticalSection'
      BY <1>7 DEF PopWait
<1>8. ASSUME NEW c \in Consumers, PopReady(c) PROVE CriticalSection'
      BY <1>8 DEF PopReady
<1>9. ASSUME NEW c \in Consumers, SpuriousWakeup(c) PROVE CriticalSection'
      BY <1>9 DEF SpuriousWakeup
<1>10. ASSUME NEW c \in Consumers, PopRelock(c) PROVE CriticalSection'
      BY <1>10 DEF PopRelock
<1>11. ASSUME NEW c \in Consumers, PopFront(c) PROVE CriticalSection'
      BY <1>11 DEF PopFront
<1>12. ASSUME NEW c \in Consumers, PopTake(c) PROVE CriticalSection'
  <2>1. \A t \in Threads : t # c => pc[t] \notin LockedSteps
        BY <1>12 DEF PopTake
  <2>2. pc' = [pc EXCEPT ![c] = "idle"]
        BY <1>12 DEF PopTake
  <2> QED BY <2>1, <2>2
<1>13. CASE UNCHANGED vars
      BY <1>13 DEF vars
<1> QED
    BY <1>1, <1>2, <1>3, <1>4, <1>5, <1>6, <1>7, <1>8, <1>9, <1>10, <1>11,
       <1>12, <1>13 DEF Next, Produce, Consume

\* The locals and the containers of SignalingQueue always have their types,
\* for every number of threads.
THEOREM TypeCorrect == SafetySpec => []TypeOK
<1>1. Init => TypeOK /\ CriticalSection
      BY InitType, InitCritical
<1>2. TypeOK /\ CriticalSection /\ [Next]_vars => TypeOK' /\ CriticalSection'
      BY NextType, NextCritical
<1> QED BY <1>1, <1>2, PTL DEF SafetySpec

\* front() and pop(), the test and the append, are never torn apart by
\* another thread of push() or pop().
THEOREM CriticalSectionHolds == SafetySpec => []CriticalSection
<1>1. Init => TypeOK /\ CriticalSection
      BY InitType, InitCritical
<1>2. TypeOK /\ CriticalSection /\ [Next]_vars => TypeOK' /\ CriticalSection'
      BY NextType, NextCritical
<1> QED BY <1>1, <1>2, PTL DEF SafetySpec

-----------------------------------------------------------------------------
(* The wakeup argument counts threads: Awake grows by one with a wakeup and  *)
(* with an entry into pop(), and shrinks by one only when the thread takes   *)
(* an item or finds the queue empty.                                         *)

\* Before the threads start nobody sleeps.
LEMMA InitWakeup == Init => WakeupPerItem
<1> SUFFICES ASSUME Init PROVE Sleepers = {}
    BY DEF WakeupPerItem
<1> QED BY DEF Init, Sleepers, Threads

\* A step that leaves the queue and the set of awake threads alone, or adds
\* to that set, adds no sleeper to a queue that is not empty, and takes no
\* notification away.
LEMMA WakeupKept ==
    ASSUME WakeupPerItem, m_queue' = m_queue, m_queue \in Seq(Items),
           IsFiniteSet(Awake), IsFiniteSet(Awake'),
           Awake \subseteq Awake',
           Sleepers' # {} => Sleepers # {},
           NotifyPending => NotifyPending'
    PROVE  WakeupPerItem'
<1>1. Cardinality(Awake) <= Cardinality(Awake')
      BY FS_Subset
<1>2. Cardinality(Awake) \in Nat /\ Cardinality(Awake') \in Nat
      BY FS_CardinalityType
<1>3. Len(m_queue) \in Nat
      BY LenProperties
<1> QED BY <1>1, <1>2, <1>3 DEF WakeupPerItem

\* Every step keeps one wakeup per queued item.
LEMMA NextWakeup ==
    TypeOK /\ CriticalSection /\ WakeupPerItem /\ [Next]_vars => WakeupPerItem'
<1> SUFFICES ASSUME TypeOK, CriticalSection, WakeupPerItem, [Next]_vars
             PROVE  WakeupPerItem'
    OBVIOUS
<1>0. /\ IsFiniteSet(Awake) /\ IsFiniteSet(Awake')
      /\ Cardinality(Awake) \in Nat /\ Cardinality(Awake') \in Nat
  <2>1. IsFiniteSet(Awake) /\ IsFiniteSet(Awake')
        BY FS_Subset, ThreadsAssumption DEF Awake
  <2> QED BY <2>1, FS_CardinalityType
<1> USE ThreadsAssumption
        DEF TypeOK, ProducerSteps, ConsumerSteps, Threads, Goto, Lock, Unlock
<1>1. ASSUME NEW p \in Producers, NEW i \in Items, NEW s \in SkipFlags,
             PushLock(p, i, s)
      PROVE  WakeupPerItem'
  <2>1. Awake' = Awake /\ Sleepers' = Sleepers
        BY <1>1 DEF PushLock, Awake, Sleepers
  <2>2. NotifyPending => NotifyPending'
        BY <1>1 DEF PushLock, NotifyPending
  <2> QED BY <1>0, <1>1, <2>1, <2>2, WakeupKept DEF PushLock
<1>2. ASSUME NEW p \in Producers, PushSkip(p) PROVE WakeupPerItem'
  <2>1. Awake' = Awake /\ Sleepers' = Sleepers
        BY <1>2 DEF PushSkip, Awake, Sleepers
  <2>2. NotifyPending => NotifyPending'
        BY <1>2 DEF PushSkip, NotifyPending
  <2> QED BY <1>0, <1>2, <2>1, <2>2, WakeupKept DEF PushSkip
<1>3. ASSUME NEW p \in Producers, PushTest(p) PROVE WakeupPerItem'
  <2>1. Awake' = Awake /\ Sleepers' = Sleepers
        BY <1>3 DEF PushTest, Awake, Sleepers
  <2>2. NotifyPending => NotifyPending'
        BY <1>3 DEF PushTest, NotifyPending
  <2> QED BY <1>0, <1>3, <2>1, <2>2, WakeupKept DEF PushTest
<1>4. ASSUME NEW p \in Producers, PushAppend(p) PROVE WakeupPerItem'
  <2>1. Awake' = Awake /\ Sleepers' = Sleepers
        BY <1>4 DEF PushAppend, Awake, Sleepers
  <2>2. ~ NotifyPending
        BY <1>4 DEF PushAppend, NotifyPending, CriticalSection, LockedSteps
  <2>3. NotifyPending'
        BY <1>4 DEF PushAppend, NotifyPending
  <2>4. Len(m_queue') = Len(m_queue) + 1
        BY <1>4 DEF PushAppend, CriticalSection
  <2> QED BY <1>0, <2>1, <2>2, <2>3, <2>4 DEF WakeupPerItem
<1>5. ASSUME NEW p \in Producers, PushNotify(p) PROVE WakeupPerItem'
  <2>1. CASE Sleepers = {} /\ Goto(p, "idle")
    <3>1. Sleepers' = {}
          BY <2>1 DEF Sleepers
    <3> QED BY <3>1 DEF WakeupPerItem
  <2>2. ASSUME NEW c \in Sleepers,
               pc' = [pc EXCEPT ![p] = "idle", ![c] = "woken"]
        PROVE  WakeupPerItem'
    <3>1. Awake' = Awake \cup {c} /\ c \notin Awake
          BY <2>2 DEF Awake, Sleepers
    <3>2. Cardinality(Awake') = Cardinality(Awake) + 1
          BY <1>0, <3>1, FS_AddElement
    <3>3. m_queue' = m_queue /\ Len(m_queue) \in Nat
          BY <1>5, LenProperties DEF PushNotify
    <3> QED BY <1>0, <2>2, <3>2, <3>3 DEF WakeupPerItem
  <2> QED BY <1>5, <2>1, <2>2 DEF PushNotify
<1>6. ASSUME NEW c \in Consumers, PopLock(c) PROVE WakeupPerItem'
  <2>1. Awake \subseteq Awake' /\ Sleepers' = Sleepers
        BY <1>6 DEF PopLock, Awake, Sleepers
  <2>2. NotifyPending => NotifyPending'
        BY <1>6 DEF PopLock, NotifyPending
  <2> QED BY <1>0, <1>6, <2>1, <2>2, WakeupKept DEF PopLock
<1>7. ASSUME NEW c \in Consumers, PopWait(c) PROVE WakeupPerItem'
  <2>1. Len(m_queue') = 0
        BY <1>7 DEF PopWait
  <2> QED BY <1>0, <2>1 DEF WakeupPerItem
<1>8. ASSUME NEW c \in Consumers, PopReady(c) PROVE WakeupPerItem'
  <2>1. Awake' = Awake /\ Sleepers' = Sleepers
        BY <1>8 DEF PopReady, Awake, Sleepers
  <2>2. NotifyPending => NotifyPending'
        BY <1>8 DEF PopReady, NotifyPending
  <2> QED BY <1>0, <1>8, <2>1, <2>2, WakeupKept DEF PopReady
<1>9. ASSUME NEW c \in Consumers, SpuriousWakeup(c) PROVE WakeupPerItem'
  <2>1. Awake \subseteq Awake' /\ Sleepers' \subseteq Sleepers
        BY <1>9 DEF SpuriousWakeup, Awake, Sleepers
  <2>2. NotifyPending => NotifyPending'
        BY <1>9 DEF SpuriousWakeup, NotifyPending
  <2> QED BY <1>0, <1>9, <2>1, <2>2, WakeupKept DEF SpuriousWakeup
<1>10. ASSUME NEW c \in Consumers, PopRelock(c) PROVE WakeupPerItem'
  <2>1. Awake' = Awake /\ Sleepers' = Sleepers
        BY <1>10 DEF PopRelock, Awake, Sleepers
  <2>2. NotifyPending => NotifyPending'
        BY <1>10 DEF PopRelock, NotifyPending
  <2> QED BY <1>0, <1>10, <2>1, <2>2, WakeupKept DEF PopRelock
<1>11. ASSUME NEW c \in Consumers, PopFront(c) PROVE WakeupPerItem'
  <2>1. Awake' = Awake /\ Sleepers' = Sleepers
        BY <1>11 DEF PopFront, Awake, Sleepers
  <2>2. NotifyPending => NotifyPending'
        BY <1>11 DEF PopFront, NotifyPending
  <2> QED BY <1>0, <1>11, <2>1, <2>2, WakeupKept DEF PopFront
<1>12. ASSUME NEW c \in Consumers, PopTake(c) PROVE WakeupPerItem'
  <2>1. Awake' = Awake \ {c} /\ c \in Awake /\ Sleepers' = Sleepers
        BY <1>12 DEF PopTake, Awake, Sleepers
  <2>2. Cardinality(Awake') = Cardinality(Awake) - 1
        BY <1>0, <2>1, FS_RemoveElement
  <2>3. NotifyPending => NotifyPending'
        BY <1>12 DEF PopTake, NotifyPending
  <2>4. Len(m_queue') = Len(m_queue) - 1 /\ Len(m_queue) \in Nat
        BY <1>12, HeadTailProperties, LenProperties
           DEF PopTake, CriticalSection
  <2> QED BY <1>0, <2>1, <2>2, <2>3, <2>4 DEF WakeupPerItem
<1>13. CASE UNCHANGED vars
  <2>1. Awake' = Awake /\ Sleepers' = Sleepers /\ NotifyPending' = NotifyPending
        BY <1>13 DEF vars, Awake, Sleepers, NotifyPending
  <2> QED BY <1>0, <1>13, <2>1, WakeupKept DEF vars
<1> QED
    BY <1>1, <1>2, <1>3, <1>4, <1>5, <1>6, <1>7, <1>8, <1>9, <1>10, <1>11,
       <1>12, <1>13 DEF Next, Produce, Consume

\* No wakeup is lost, for every number of producers and consumers: one
\* notify_one() per push() is enough.
THEOREM NoLostWakeup == SafetySpec => []WakeupPerItem
<1>1. Init => TypeOK /\ CriticalSection /\ WakeupPerItem
      BY InitType, InitCritical, InitWakeup
<1>2. TypeOK /\ CriticalSection /\ WakeupPerItem /\ [Next]_vars
         => TypeOK' /\ CriticalSection' /\ WakeupPerItem'
      BY NextType, NextCritical, NextWakeup
<1> QED BY <1>1, <1>2, PTL DEF SafetySpec

-----------------------------------------------------------------------------
(* The refinement: PushAppend and PushSkip are the instants a push takes     *)
(* effect, PopTake the one of a pop, PushLock a call; the other steps do not *)
(* change what the callers can see.                                          *)

\* The initial state is one of the FIFO queue.
LEMMA InitFifo == Init => Fifo!Init
BY DEF Init, Fifo!Init, PendingPush, Threads

\* Every step is a step of the FIFO queue or invisible.
LEMMA NextFifo ==
    TypeOK /\ CriticalSection /\ [Next]_vars => [Fifo!Next]_(Fifo!vars)
<1> SUFFICES ASSUME TypeOK, CriticalSection, [Next]_vars
             PROVE  [Fifo!Next]_(Fifo!vars)
    OBVIOUS
<1> USE ThreadsAssumption, DataAssumption
        DEF TypeOK, ProducerSteps, ConsumerSteps, Threads, Goto, Lock, Unlock
<1>1. ASSUME NEW p \in Producers, NEW i \in Items, NEW s \in SkipFlags,
             PushLock(p, i, s)
      PROVE  Fifo!Call(p, i, s)
  <2>1. PendingPush[p] = NoItem
        BY <1>1 DEF PushLock, PendingPush
  <2>2. PendingPush' = [PendingPush EXCEPT ![p] = [item |-> i, skip |-> s]]
        BY <1>1 DEF PushLock, PendingPush
  <2> QED BY <1>1, <2>1, <2>2 DEF PushLock, Fifo!Call
<1>2. ASSUME NEW p \in Producers, PushSkip(p) PROVE Fifo!Push(p)
  <2>1. PendingPush[p] = [item |-> item[p], skip |-> skip[p]]
        BY <1>2 DEF PushSkip, PendingPush
  <2>2. PendingPush' = [PendingPush EXCEPT ![p] = NoItem]
        BY <1>2 DEF PushSkip, PendingPush
  <2>3. PendingPush[p] # NoItem
        BY <1>2, <2>1 DEF PushSkip, CriticalSection
  <2>4. skip[p] /\ m_queue # <<>> /\ m_queue[Len(m_queue)] = item[p]
        BY <1>2 DEF PushSkip, IsRepeated
  <2>5. m_queue' = m_queue /\ got' = got
        BY <1>2 DEF PushSkip
  <2> QED BY <2>1, <2>2, <2>3, <2>4, <2>5 DEF Fifo!Push
<1>3. ASSUME NEW p \in Producers, PushTest(p) PROVE UNCHANGED Fifo!vars
  <2>1. PendingPush' = PendingPush
        BY <1>3 DEF PushTest, PendingPush
  <2> QED BY <1>3, <2>1 DEF PushTest, Fifo!vars
<1>4. ASSUME NEW p \in Producers, PushAppend(p) PROVE Fifo!Push(p)
  <2>1. PendingPush[p] = [item |-> item[p], skip |-> skip[p]]
        BY <1>4 DEF PushAppend, PendingPush
  <2>2. PendingPush' = [PendingPush EXCEPT ![p] = NoItem]
        BY <1>4 DEF PushAppend, PendingPush
  <2>3. PendingPush[p] # NoItem
        BY <1>4, <2>1 DEF PushAppend, CriticalSection
  <2>4. ~ (skip[p] /\ m_queue # <<>> /\ m_queue[Len(m_queue)] = item[p])
        BY <1>4, EmptySeq, LenProperties DEF PushAppend, CriticalSection, IsRepeated
  <2>5. m_queue' = Append(m_queue, item[p]) /\ got' = got
        BY <1>4 DEF PushAppend
  <2> QED BY <2>1, <2>2, <2>3, <2>4, <2>5 DEF Fifo!Push
<1>5. ASSUME NEW p \in Producers, PushNotify(p) PROVE UNCHANGED Fifo!vars
  <2>1. PendingPush' = PendingPush
        BY <1>5 DEF PushNotify, PendingPush, Sleepers
  <2> QED BY <1>5, <2>1 DEF PushNotify, Fifo!vars
<1>6. ASSUME NEW c \in Consumers,
             \/ PopLock(c) \/ PopWait(c) \/ PopReady(c) \/ SpuriousWakeup(c)
             \/ PopRelock(c) \/ PopFront(c)
      PROVE  UNCHANGED Fifo!vars
  <2>1. PendingPush' = PendingPush
        BY <1>6 DEF PopLock, PopWait, PopReady, SpuriousWakeup, PopRelock,
                    PopFront, PendingPush
  <2> QED BY <1>6, <2>1 DEF PopLock, PopWait, PopReady, SpuriousWakeup,
                            PopRelock, PopFront, Fifo!vars
<1>7. ASSUME NEW c \in Consumers, PopTake(c) PROVE Fifo!Pop(c)
  <2>1. PendingPush' = PendingPush
        BY <1>7 DEF PopTake, PendingPush
  <2>2. m_queue # <<>> /\ item[c] = Head(m_queue)
        BY <1>7 DEF PopTake, CriticalSection
  <2> QED BY <1>7, <2>1, <2>2 DEF PopTake, Fifo!Pop
<1>8. CASE UNCHANGED vars
  <2>1. PendingPush' = PendingPush
        BY <1>8 DEF vars, PendingPush
  <2> QED BY <1>8, <2>1 DEF vars, Fifo!vars
<1> QED
    BY <1>1, <1>2, <1>3, <1>4, <1>5, <1>6, <1>7, <1>8
       DEF Next, Produce, Consume, Fifo!Next

\* The safety part of the refinement: the items pop() hands out are those of
\* a FIFO queue with atomic push and pop, for every number of threads.
THEOREM QueueIsFifo == SafetySpec => Fifo!Safety
<1>1. Init => TypeOK /\ CriticalSection /\ Fifo!Init
      BY InitType, InitCritical, InitFifo
<1>2. TypeOK /\ CriticalSection /\ [Next]_vars
         => TypeOK' /\ CriticalSection' /\ [Fifo!Next]_(Fifo!vars)
      BY NextType, NextCritical, NextFifo
<1> QED BY <1>1, <1>2, PTL DEF SafetySpec, Fifo!Safety

-----------------------------------------------------------------------------
\* What push() and pop() do to the queue keeps equal neighbours out.
LEMMA NextNoRepeat ==
    TypeOK /\ CriticalSection /\ NoAdjacentRepeat /\ [Next]_vars
       => NoAdjacentRepeat'
<1> SUFFICES ASSUME TypeOK, CriticalSection, NoAdjacentRepeat, [Next]_vars,
                    SkipFlags = {TRUE},
                    NEW i \in 1 .. Len(m_queue') - 1
             PROVE  m_queue'[i] # m_queue'[i + 1]
    BY DEF NoAdjacentRepeat
<1> USE ThreadsAssumption DEF TypeOK, Threads
<1>1. ASSUME NEW p \in Producers, PushAppend(p)
      PROVE  m_queue'[i] # m_queue'[i + 1]
  <2>1. item[p] \in Items /\ skip[p] /\ ~ IsRepeated(p)
        BY <1>1 DEF PushAppend, CriticalSection
  <2>2. m_queue' = Append(m_queue, item[p]) /\ Len(m_queue') = Len(m_queue) + 1
        BY <1>1, <2>1 DEF PushAppend
  <2>3. CASE i = Len(m_queue)
        BY <2>1, <2>2, <2>3 DEF IsRepeated
  <2>4. CASE i < Len(m_queue)
    <3>1. m_queue[i] # m_queue[i + 1]
          BY <2>4 DEF NoAdjacentRepeat
    <3> QED BY <2>1, <2>2, <2>4, <3>1
  <2> QED BY <2>2, <2>3, <2>4, LenProperties
<1>2. ASSUME NEW c \in Consumers, PopTake(c)
      PROVE  m_queue'[i] # m_queue'[i + 1]
  <2>1. m_queue # <<>> /\ m_queue' = Tail(m_queue)
        BY <1>2 DEF PopTake, CriticalSection
  <2>2. /\ Len(m_queue') = Len(m_queue) - 1
        /\ \A k \in 1 .. Len(m_queue') : m_queue'[k] = m_queue[k + 1]
        BY <2>1, HeadTailProperties
  <2>3. m_queue[i + 1] # m_queue[i + 2]
        BY <2>2, LenProperties DEF NoAdjacentRepeat
  <2> QED BY <2>2, <2>3, LenProperties
<1>3. CASE m_queue' = m_queue
      BY <1>3 DEF NoAdjacentRepeat
<1> QED
    BY <1>1, <1>2, <1>3
       DEF Next, Produce, Consume, vars, PushLock, PushSkip, PushTest,
           PushNotify, PopLock, PopWait, PopReady, SpuriousWakeup, PopRelock,
           PopFront

\* The read queue never holds the same socket twice in a row.
THEOREM ReadQueueHasNoRepeats == SafetySpec => []NoAdjacentRepeat
<1>1. Init => TypeOK /\ CriticalSection /\ NoAdjacentRepeat
  <2>1. Init => NoAdjacentRepeat
        BY DEF Init, NoAdjacentRepeat
  <2> QED BY <2>1, InitType, InitCritical
<1>2. TypeOK /\ CriticalSection /\ NoAdjacentRepeat /\ [Next]_vars
         => TypeOK' /\ CriticalSection' /\ NoAdjacentRepeat'
      BY NextType, NextCritical, NextNoRepeat
<1> QED BY <1>1, <1>2, PTL DEF SafetySpec
=============================================================================
