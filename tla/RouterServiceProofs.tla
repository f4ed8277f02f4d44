------------------------ MODULE RouterServiceProofs ------------------------
(***************************************************************************)
(* For every number of connections, descriptors, threads and messages: the *)
(* router implements the routing service (the safety part, which is all of *)
(* RoutingService).                                                        *)
(***************************************************************************)
EXTENDS RouterService, RouterAddressProofs, FiniteSetTheorems

-----------------------------------------------------------------------------
\* The messages in transit are a bag.  It is counted over two families of
\* tasks: q by index of the write queue, k by thread that carries one.
Count(f, x) == Cardinality({i \in DOMAIN f : f[i] = x})

Tally(q, k) ==
    [x \in {q[i] : i \in DOMAIN q} \cup {k[t] : t \in DOMAIN k} |->
        Count(q, x) + Count(k, x)]

\* The count of a task is a number, and zero if there is no such task.
LEMMA CountType ==
    ASSUME NEW f, IsFiniteSet(DOMAIN f)
    PROVE  \A x : /\ Count(f, x) \in Nat
                  /\ Count(f, x) = 0 <=> \A i \in DOMAIN f : f[i] # x
<1> TAKE x
<1> DEFINE S == {i \in DOMAIN f : f[i] = x}
<1>1. S \in SUBSET DOMAIN f
      OBVIOUS
<1>2. IsFiniteSet(S)
      BY <1>1, FS_Subset
<1>3. Cardinality(S) \in Nat /\ (Cardinality(S) = 0 <=> S = {})
  <2> HIDE DEF S
  <2> QED BY <1>2, FS_CardinalityType, FS_EmptySet
<1> QED BY <1>3 DEF Count

\* g is the family f and one more task.
OneMore(f, g, t) ==
    /\ IsFiniteSet(DOMAIN f)
    /\ t \notin DOMAIN f
    /\ DOMAIN g = DOMAIN f \cup {t}
    /\ \A i \in DOMAIN f : g[i] = f[i]

\* It is counted once.
LEMMA CountAdd ==
    ASSUME NEW f, NEW g, NEW t, OneMore(f, g, t)
    PROVE  /\ IsFiniteSet(DOMAIN g)
           /\ \A x : Count(g, x) = IF g[t] = x THEN Count(f, x) + 1
                                   ELSE Count(f, x)
<1> USE DEF OneMore
<1>1. IsFiniteSet(DOMAIN g)
      BY FS_AddElement
<1>2. ASSUME NEW x
      PROVE  Count(g, x) = IF g[t] = x THEN Count(f, x) + 1 ELSE Count(f, x)
  <2> DEFINE S == {i \in DOMAIN f : f[i] = x}
             T == {i \in DOMAIN g : g[i] = x}
  <2>1. S \in SUBSET DOMAIN f /\ t \notin S
        OBVIOUS
  <2>2. IsFiniteSet(S)
        BY <2>1, FS_Subset
  <2>3. T = IF g[t] = x THEN S \cup {t} ELSE S
        OBVIOUS
  <2>4. Cardinality(S \cup {t}) = Cardinality(S) + 1
    <3> HIDE DEF S
    <3> QED BY <2>1, <2>2, FS_AddElement
  <2>5. Cardinality(T) = IF g[t] = x THEN Cardinality(S) + 1 ELSE Cardinality(S)
    <3> HIDE DEF S, T
    <3> QED BY <2>3, <2>4
  <2> QED BY <2>5, Zenon DEF Count
<1> QED BY <1>1, <1>2

\* The first task of the queue is counted once.
LEMMA CountTail ==
    ASSUME NEW S, NEW q \in Seq(S), q # <<>>
    PROVE  \A x : Count(q, x) = IF Head(q) = x THEN Count(Tail(q), x) + 1
                                ELSE Count(Tail(q), x)
<1> DEFINE n == Len(q)
           p == Tail(q)
<1>1. /\ n \in Nat /\ n >= 1 /\ DOMAIN q = 1 .. n /\ Head(q) = q[1]
      /\ DOMAIN p = 1 .. n - 1
      /\ \A i \in 1 .. n - 1 : p[i] = q[i + 1]
      BY EmptySeq, HeadTailProperties, LenProperties
<1> HIDE DEF n, p
<1> SUFFICES ASSUME NEW x
             PROVE  Count(q, x) = IF q[1] = x THEN Count(p, x) + 1 ELSE Count(p, x)
    BY <1>1 DEF p
<1> DEFINE A == {i \in 1 .. n : q[i] = x}
           B == {i \in 1 .. n - 1 : p[i] = x}
           C == {i \in 2 .. n : q[i] = x}
           f == [i \in B |-> i + 1]
<1>2. IsFiniteSet(B)
  <2>1. B \in SUBSET (1 .. n - 1) /\ IsFiniteSet(1 .. n - 1)
        BY <1>1, FS_Interval
  <2> QED BY <2>1, FS_Subset
<1>3. f \in Bijection(B, C)
  <2>1. f \in [B -> C]
    <3> SUFFICES ASSUME NEW i \in B PROVE i + 1 \in C
        OBVIOUS
    <3>1. i \in 1 .. n - 1 /\ p[i] = x
          OBVIOUS
    <3>2. i + 1 \in 2 .. n
          BY <1>1, <3>1
    <3>3. q[i + 1] = x
          BY <1>1, <3>1
    <3> QED BY <3>2, <3>3
  <2>2. \A i, j \in B : f[i] = f[j] => i = j
    <3> SUFFICES ASSUME NEW i \in B, NEW j \in B, f[i] = f[j] PROVE i = j
        OBVIOUS
    <3>1. i \in Int /\ j \in Int /\ i + 1 = j + 1
          BY <1>1
    <3> QED BY <3>1
  <2>3. \A j \in C : \E i \in B : f[i] = j
    <3> SUFFICES ASSUME NEW j \in C PROVE \E i \in B : f[i] = j
        OBVIOUS
    <3>1. j \in 2 .. n /\ q[j] = x
          OBVIOUS
    <3>2. j - 1 \in 1 .. n - 1 /\ (j - 1) + 1 = j
          BY <1>1, <3>1
    <3>3. p[j - 1] = x
          BY <1>1, <3>1, <3>2
    <3>4. j - 1 \in B
          BY <3>2, <3>3
    <3> QED BY <3>2, <3>4
  <2> HIDE DEF f, B, C
  <2> QED BY <2>1, <2>2, <2>3 DEF Bijection, Injection, Surjection, IsInjective
<1>4. IsFiniteSet(C) /\ Cardinality(C) = Cardinality(B)
  <2> HIDE DEF f, B, C
  <2> QED BY <1>2, <1>3, FS_Bijection DEF ExistsBijection
<1>5. 1 \notin C /\ A = IF q[1] = x THEN C \cup {1} ELSE C
      BY <1>1
<1>6. Cardinality(C \cup {1}) = Cardinality(C) + 1
  <2> HIDE DEF C, A
  <2> QED BY <1>4, <1>5, FS_AddElement
<1>7. Cardinality(A) = IF q[1] = x THEN Cardinality(B) + 1 ELSE Cardinality(B)
  <2> HIDE DEF A, B, C
  <2> QED BY <1>4, <1>5, <1>6
<1>8. Count(q, x) = Cardinality(A) /\ Count(p, x) = Cardinality(B)
      BY <1>1, Zenon DEF Count
<1> HIDE DEF A, B
<1> QED BY <1>7, <1>8

\* What the bag holds, in terms of the counts.
LEMMA TallyIs ==
    ASSUME NEW q, NEW k, IsFiniteSet(DOMAIN q), IsFiniteSet(DOMAIN k)
    PROVE  /\ \A x : /\ Count(q, x) + Count(k, x) \in Nat
                     /\ x \in DOMAIN Tally(q, k) <=> Count(q, x) + Count(k, x) # 0
           /\ Tally(q, k) =
                 [x \in DOMAIN Tally(q, k) |-> Count(q, x) + Count(k, x)]
<1>1. ASSUME NEW x
      PROVE  /\ Count(q, x) + Count(k, x) \in Nat
             /\ x \in DOMAIN Tally(q, k) <=> Count(q, x) + Count(k, x) # 0
  <2>1. Count(q, x) \in Nat /\ Count(k, x) \in Nat
        BY CountType
  <2>2. Count(q, x) + Count(k, x) # 0 <=> ~ (Count(q, x) = 0 /\ Count(k, x) = 0)
        BY <2>1
  <2>3. x \in DOMAIN Tally(q, k) <=> \/ \E i \in DOMAIN q : q[i] = x
                                     \/ \E t \in DOMAIN k : k[t] = x
        BY Zenon DEF Tally
  <2>4. /\ Count(q, x) = 0 <=> \A i \in DOMAIN q : q[i] # x
        /\ Count(k, x) = 0 <=> \A i \in DOMAIN k : k[i] # x
        BY CountType
  <2>5. x \in DOMAIN Tally(q, k) <=> ~ (Count(q, x) = 0 /\ Count(k, x) = 0)
        BY <2>3, <2>4, Zenon
  <2> QED BY <2>1, <2>2, <2>5
<1> QED BY <1>1 DEF Tally

\* Both pairs of families hold each task equally often.
SameCounts(q, k, p, l) ==
    \A x : Count(p, x) + Count(l, x) = Count(q, x) + Count(k, x)

\* Bags with the same counts are equal.
LEMMA TallyEqual ==
    ASSUME NEW q, NEW k, IsFiniteSet(DOMAIN q), IsFiniteSet(DOMAIN k),
           NEW p, NEW l, IsFiniteSet(DOMAIN p), IsFiniteSet(DOMAIN l),
           SameCounts(q, k, p, l)
    PROVE  Tally(p, l) = Tally(q, k)
<1> USE DEF SameCounts
<1> DEFINE A == Tally(q, k)
           B == Tally(p, l)
<1>1. /\ \A x : x \in DOMAIN A <=> Count(q, x) + Count(k, x) # 0
      /\ A = [x \in DOMAIN A |-> Count(q, x) + Count(k, x)]
      BY TallyIs
<1>2. /\ \A x : x \in DOMAIN B <=> Count(p, x) + Count(l, x) # 0
      /\ B = [x \in DOMAIN B |-> Count(p, x) + Count(l, x)]
      BY TallyIs
<1> HIDE DEF A, B
<1>3. DOMAIN A = DOMAIN B
      BY <1>1, <1>2
<1>4. A = B
      BY <1>1, <1>2, <1>3
<1> QED BY <1>4 DEF A, B

\* A thread starts to carry a task: it is added to the bag.
LEMMA TallyAdd ==
    ASSUME NEW q, IsFiniteSet(DOMAIN q), NEW k, NEW l, NEW t, OneMore(k, l, t)
    PROVE  Tally(q, l) = Service!BagAdd(Tally(q, k), l[t])
<1> DEFINE A == Tally(q, k)
           B == Tally(q, l)
           N(x) == Count(q, x) + Count(k, x)
           e == l[t]
<1>1. /\ IsFiniteSet(DOMAIN l)
      /\ \A x : Count(l, x) = IF e = x THEN Count(k, x) + 1 ELSE Count(k, x)
      BY CountAdd
<1>2. /\ \A x : N(x) \in Nat /\ (x \in DOMAIN A <=> N(x) # 0)
      /\ A = [x \in DOMAIN A |-> N(x)]
      BY TallyIs DEF OneMore
<1>3. /\ \A x : x \in DOMAIN B <=> Count(q, x) + Count(l, x) # 0
      /\ B = [x \in DOMAIN B |-> Count(q, x) + Count(l, x)]
      BY <1>1, TallyIs
<1>4. \A x : Count(q, x) + Count(l, x) = IF e = x THEN N(x) + 1 ELSE N(x)
  <2> TAKE x
  <2>1. Count(q, x) \in Nat /\ Count(k, x) \in Nat
        BY CountType DEF OneMore
  <2> QED BY <1>1, <2>1
<1> HIDE DEF A, B, N, e
<1>5. \A x : x \in DOMAIN B <=> x \in DOMAIN A \cup {e}
      BY <1>2, <1>3, <1>4
<1>6. B = [x \in DOMAIN A \cup {e} |-> IF e = x THEN N(x) + 1 ELSE N(x)]
      BY <1>3, <1>4, <1>5
<1>7. CASE e \in DOMAIN A
  <2>1. DOMAIN A \cup {e} = DOMAIN A
        BY <1>7
  <2>2. B = [x \in DOMAIN A |-> IF x = e THEN A[x] + 1 ELSE A[x]]
        BY <1>2, <1>6, <2>1
  <2> QED BY <1>7, <2>2 DEF Service!BagAdd, A, B, e
<1>8. CASE e \notin DOMAIN A
  <2>1. N(e) = 0
        BY <1>2, <1>8
  <2>2. B = [x \in DOMAIN A \cup {e} |-> IF x = e THEN 1 ELSE A[x]]
        BY <1>2, <1>6, <2>1
  <2> QED BY <1>8, <2>2 DEF Service!BagAdd, A, B, e
<1> QED BY <1>7, <1>8

\* A thread gets rid of its task: it is removed from the bag.
LEMMA TallyRemove ==
    ASSUME NEW q, IsFiniteSet(DOMAIN q), NEW k, NEW l, NEW t, OneMore(l, k, t)
    PROVE  /\ k[t] \in DOMAIN Tally(q, k)
           /\ Tally(q, l) = Service!BagRemove(Tally(q, k), k[t])
<1> DEFINE A == Tally(q, k)
           B == Tally(q, l)
           N(x) == Count(q, x) + Count(l, x)
           e == k[t]
<1>1. IsFiniteSet(DOMAIN l)
      BY DEF OneMore
<1>2. /\ IsFiniteSet(DOMAIN k)
      /\ \A x : Count(k, x) = IF e = x THEN Count(l, x) + 1 ELSE Count(l, x)
      BY CountAdd
<1>3. /\ \A x : x \in DOMAIN A <=> Count(q, x) + Count(k, x) # 0
      /\ A = [x \in DOMAIN A |-> Count(q, x) + Count(k, x)]
      BY <1>2, TallyIs
<1>4. /\ \A x : N(x) \in Nat /\ (x \in DOMAIN B <=> N(x) # 0)
      /\ B = [x \in DOMAIN B |-> N(x)]
      BY <1>1, TallyIs
<1>5. \A x : Count(q, x) + Count(k, x) = IF e = x THEN N(x) + 1 ELSE N(x)
  <2> TAKE x
  <2>1. Count(q, x) \in Nat /\ Count(l, x) \in Nat
        BY <1>1, CountType
  <2> QED BY <1>2, <2>1
<1> HIDE DEF A, B, N, e
<1>6. /\ \A x : x \in DOMAIN A <=> x = e \/ N(x) # 0
      /\ \A x \in DOMAIN A : A[x] = IF e = x THEN N(x) + 1 ELSE N(x)
      BY <1>3, <1>4, <1>5
<1>7. CASE N(e) = 0
  <2>1. A[e] = 1 /\ e \in DOMAIN A
        BY <1>6, <1>7
  <2>2. DOMAIN B = DOMAIN A \ {e}
        BY <1>4, <1>6, <1>7
  <2>3. B = [x \in DOMAIN A \ {e} |-> A[x]]
        BY <1>4, <1>6, <2>2
  <2> QED BY <2>1, <2>3 DEF Service!BagRemove, A, B, e
<1>8. CASE N(e) # 0
  <2>1. A[e] # 1 /\ e \in DOMAIN A
        BY <1>4, <1>6, <1>8
  <2>2. DOMAIN B = DOMAIN A
        BY <1>4, <1>6, <1>8
  <2>3. \A x \in DOMAIN A : N(x) = IF x = e THEN A[x] - 1 ELSE A[x]
        BY <1>4, <1>6
  <2>4. B = [x \in DOMAIN A |-> IF x = e THEN A[x] - 1 ELSE A[x]]
        BY <1>4, <2>2, <2>3
  <2> QED BY <2>1, <2>4 DEF Service!BagRemove, A, B, e
<1> QED BY <1>7, <1>8

\* A thread puts its task at the end of the queue: the bag stays the same.
LEMMA TallyPush ==
    ASSUME NEW S, NEW q \in Seq(S), NEW k, NEW l, NEW t, OneMore(l, k, t),
           k[t] \in S
    PROVE  Tally(Append(q, k[t]), l) = Tally(q, k)
<1> DEFINE p == Append(q, k[t])
           n == Len(q)
<1>1. /\ DOMAIN p = 1 .. n + 1 /\ p[n + 1] = k[t] /\ n \in Nat
      /\ DOMAIN q = 1 .. n
      /\ \A i \in 1 .. n : p[i] = q[i]
      BY AppendProperties, LenProperties
<1> HIDE DEF p, n
<1>2. IsFiniteSet(DOMAIN q) /\ IsFiniteSet(DOMAIN l)
  <2>1. IsFiniteSet(1 .. n)
        BY <1>1, FS_Interval
  <2> QED BY <1>1, <2>1 DEF OneMore
<1>3. OneMore(q, p, n + 1)
  <2>1. n + 1 \notin DOMAIN q /\ DOMAIN p = DOMAIN q \cup {n + 1}
        BY <1>1
  <2> QED BY <1>1, <1>2, <2>1 DEF OneMore
<1>4. /\ IsFiniteSet(DOMAIN p)
      /\ \A x : Count(p, x) = IF p[n + 1] = x THEN Count(q, x) + 1 ELSE Count(q, x)
      BY <1>3, CountAdd
<1>5. /\ IsFiniteSet(DOMAIN k)
      /\ \A x : Count(k, x) = IF k[t] = x THEN Count(l, x) + 1 ELSE Count(l, x)
      BY CountAdd
<1>6. SameCounts(q, k, p, l)
  <2> SUFFICES ASSUME NEW x
               PROVE  Count(p, x) + Count(l, x) = Count(q, x) + Count(k, x)
      BY DEF SameCounts
  <2>1. Count(q, x) \in Nat /\ Count(l, x) \in Nat
        BY <1>2, CountType
  <2>2. p[n + 1] = k[t]
        BY <1>1
  <2> QED BY <1>4, <1>5, <2>1, <2>2
<1>7. Tally(p, l) = Tally(q, k)
      BY <1>2, <1>4, <1>5, <1>6, TallyEqual
<1> QED BY <1>7, Zenon DEF p

\* A thread takes the first task of the queue: the bag stays the same.
LEMMA TallyPop ==
    ASSUME NEW S, NEW q \in Seq(S), q # <<>>, NEW k, NEW l, NEW t,
           OneMore(k, l, t), l[t] = Head(q)
    PROVE  Tally(Tail(q), l) = Tally(q, k)
<1> DEFINE p == Tail(q)
<1>1. /\ Len(q) \in Nat /\ DOMAIN q = 1 .. Len(q)
      /\ p \in Seq(S)
      BY EmptySeq, HeadTailProperties, LenProperties
<1>2. Len(p) \in Nat /\ DOMAIN p = 1 .. Len(p)
      BY <1>1, LenProperties
<1>3. IsFiniteSet(DOMAIN q) /\ IsFiniteSet(DOMAIN p)
  <2> HIDE DEF p
  <2> QED BY <1>1, <1>2, FS_Interval
<1>4. \A x : Count(q, x) = IF Head(q) = x THEN Count(p, x) + 1 ELSE Count(p, x)
      BY CountTail
<1> HIDE DEF p
<1>5. /\ IsFiniteSet(DOMAIN l)
      /\ \A x : Count(l, x) = IF Head(q) = x THEN Count(k, x) + 1 ELSE Count(k, x)
      BY CountAdd
<1>6. SameCounts(q, k, p, l)
  <2> SUFFICES ASSUME NEW x
               PROVE  Count(p, x) + Count(l, x) = Count(q, x) + Count(k, x)
      BY DEF SameCounts
  <2>1. Count(p, x) \in Nat /\ Count(k, x) \in Nat
        BY <1>3, CountType DEF OneMore
  <2> QED BY <1>4, <1>5, <2>1
<1>7. Tally(p, l) = Tally(q, k)
      BY <1>3, <1>5, <1>6, TallyEqual DEF OneMore
<1> QED BY <1>7, Zenon DEF p

-----------------------------------------------------------------------------
\* What the service needs to know besides LockInv and AddressInv.  A
\* connection in the backlog was not refused before.
BacklogNotRefused == \A i \in DOMAIN backlog : peer[backlog[i]] # "refused"

\* Data messages are only taken from a session that has its id.
RoutesNamed == \A r \in Readers : pc[r] = "route" => id_[sess[r]] # NONE

\* A session is only removed if its connection has ended or its buffer is full.
RemovalsJustified ==
    \A t \in Workers :
        pc[t] = "remove" => Ended(sess[t]) \/ sess[t] \in SlowPeers

ServiceInv == BacklogNotRefused /\ RoutesNamed /\ RemovalsJustified

\* Before the threads start there is no connection and no work.
LEMMA InitServiceInv == Init => ServiceInv
<1> SUFFICES ASSUME Init PROVE ServiceInv
    OBVIOUS
<1>1. BacklogNotRefused
      BY EmptySeq DEF Init, BacklogNotRefused
<1>2. RoutesNamed /\ RemovalsJustified
      BY DEF Init, RoutesNamed, RemovalsJustified, Workers
<1> QED BY <1>1, <1>2 DEF ServiceInv

\* The kinds of steps, as far as the peers are concerned.
LEMMA PeerSteps ==
    ASSUME [Next]_vars
    PROVE  \/ \E c \in Conns : Peer(c)
           \/ Accept
           \/ AcceptRefused
           \/ UNCHANGED <<peer, backlog>>
<1> USE DEF kernel
<1>1. CASE UNCHANGED vars
      BY <1>1 DEF vars
<1>2. ASSUME Listener, ~ Accept, ~ AcceptRefused
      PROVE  UNCHANGED <<peer, backlog>>
      BY <1>2 DEF Listener, ResetBegin, ResetEnd, Select, SelectError,
                  AcceptError, PushReady
<1>3. ASSUME NEW r \in Readers, Reader(r)
      PROVE  UNCHANGED <<peer, backlog>>
      BY <1>3 DEF Reader, ReadPop, Find, ReadLock, LockSession, Refind, ReadFull,
                  ReadPartial, ReadNothing, ReadError, Route, Forward, AddNode,
                  ReadRemove
<1>4. ASSUME NEW w \in Writers, Writer(w)
      PROVE  UNCHANGED <<peer, backlog>>
      BY <1>4 DEF Writer, WritePop, Find, WriteLock, LockSession, SendOk, SendError,
                  SendPartial, WriteRemove
<1> QED BY <1>1, <1>2, <1>3, <1>4 DEF Next

\* Only the connection at the head of the backlog is ever refused, and it
\* leaves the backlog.
LEMMA NextBacklogNotRefused ==
    ASSUME TypeOK, LockInv, BacklogNotRefused, [Next]_vars
    PROVE  BacklogNotRefused'
<1>1. /\ peer \in [Conns -> PeerStates]
      /\ backlog \in Seq(Conns)
      /\ BacklogIsFresh
      BY DEF TypeOK, KernelTypeOK, LockInv
<1>2. \A i \in DOMAIN backlog : backlog[i] \in Conns
      BY <1>1, ElementOfSeq, LenProperties
<1>3. ASSUME NEW c \in Conns, PeerConnect(c)
      PROVE  BacklogNotRefused'
  <2>1. peer' = [peer EXCEPT ![c] = "open"] /\ backlog' = Append(backlog, c)
        BY <1>3 DEF PeerConnect
  <2>2. /\ DOMAIN backlog = 1 .. Len(backlog) /\ Len(backlog) \in Nat
        /\ DOMAIN backlog' = 1 .. Len(backlog) + 1
        /\ \A i \in 1 .. Len(backlog) : backlog'[i] = backlog[i]
        /\ backlog'[Len(backlog) + 1] = c
        BY <1>1, <2>1, AppendProperties, LenProperties
  <2>3. \A i \in DOMAIN backlog' : i \in DOMAIN backlog \/ backlog'[i] = c
        BY <2>2
  <2> QED BY <1>1, <1>2, <2>1, <2>2, <2>3 DEF BacklogNotRefused
<1>4. ASSUME NEW c \in Conns, PeerSend(c) \/ PeerClose(c) \/ PeerReset(c)
      PROVE  BacklogNotRefused'
  <2>1. /\ backlog' = backlog
        /\ \A d \in Conns : peer[d] # "refused" => peer'[d] # "refused"
        BY <1>1, <1>4 DEF PeerSend, PeerClose, PeerReset
  <2> QED BY <1>2, <2>1 DEF BacklogNotRefused
<1>5. CASE Accept \/ AcceptRefused
  <2>1. backlog # <<>> /\ backlog' = Tail(backlog)
        BY <1>5 DEF Accept, AcceptRefused, TypeOK, ListenerTypeOK
  <2>2. /\ Head(backlog) \in Conns
        /\ \A i \in DOMAIN Tail(backlog) :
              Tail(backlog)[i] \in Conns /\ Tail(backlog)[i] # Head(backlog)
        BY <1>1, <2>1, BacklogTail
  <2>3. \A d \in Conns : d # Head(backlog) => peer'[d] = peer[d]
        BY <1>1, <1>5 DEF Accept, AcceptRefused
  <2>4. \A i \in DOMAIN Tail(backlog) :
           \E j \in DOMAIN backlog : Tail(backlog)[i] = backlog[j]
    <3>1. /\ Len(backlog) \in Nat \ {0} /\ DOMAIN backlog = 1 .. Len(backlog)
          /\ Len(Tail(backlog)) = Len(backlog) - 1
          /\ Tail(backlog) \in Seq(Conns)
          /\ \A i \in 1 .. Len(Tail(backlog)) : Tail(backlog)[i] = backlog[i + 1]
          BY <1>1, <2>1, HeadTailProperties, LenProperties, EmptySeq
    <3>2. DOMAIN Tail(backlog) = 1 .. Len(backlog) - 1
          BY <3>1, LenProperties
    <3> QED BY <3>1, <3>2
  <2>5. \A i \in DOMAIN Tail(backlog) : peer[Tail(backlog)[i]] # "refused"
        BY <2>4 DEF BacklogNotRefused
  <2> QED BY <2>1, <2>2, <2>3, <2>5 DEF BacklogNotRefused
<1>6. CASE UNCHANGED <<peer, backlog>>
      BY <1>6 DEF BacklogNotRefused
<1> QED BY <1>3, <1>4, <1>5, <1>6, PeerSteps DEF Peer

\* A connection with a descriptor that has ended stays so.
LEMMA EndedStays ==
    ASSUME TypeOK, LockInv, [Next]_vars,
           NEW s \in Sockets, NEW c \in Conns, fd_table[s] = c, Ended(c)
    PROVE  peer'[c] \in {"closed", "reset"}
<1>1. peer \in [Conns -> PeerStates] /\ BacklogIsFresh
      BY DEF TypeOK, KernelTypeOK, LockInv
<1>2. ASSUME NEW d \in Conns, Peer(d)
      PROVE  peer'[c] = peer[c]
      BY <1>1, <1>2 DEF Peer, PeerConnect, PeerSend, PeerClose, PeerReset, Ended
<1>3. CASE AcceptRefused
  <2>1. backlog # <<>>
        BY <1>3 DEF AcceptRefused, TypeOK, ListenerTypeOK
  <2>2. c # Head(backlog)
        BY <1>1, <2>1, BacklogTail
  <2>3. peer'[c] = peer[c]
        BY <1>1, <1>3, <2>2 DEF AcceptRefused
  <2> QED BY <2>3 DEF Ended
<1>4. CASE Accept
      BY <1>4 DEF Accept, Ended
<1> QED BY <1>2, <1>3, <1>4, PeerSteps DEF Ended

\* Where a worker's removal and a reader's lookup come from.
LEMMA ReaderSources ==
    ASSUME TypeOK, NEW r \in Readers, Reader(r)
    PROVE  /\ pc'[r] = "remove" => ReadError(r)
           /\ pc'[r] = "route" => ReadFull(r)
<1>1. r \in Workers /\ pc \in [Workers -> ReaderSteps \cup WriterSteps]
      BY DEF Workers, TypeOK, WorkersTypeOK
<1>2. CASE ReadFull(r)
      BY <1>1, <1>2 DEF ReadFull, Goto
<1>3. CASE ReadError(r)
      BY <1>1, <1>3 DEF ReadError, Goto
<1>4. CASE ReadPop(r) \/ Find(r) \/ ReadLock(r) \/ Refind(r) \/ ReadPartial(r)
      BY <1>1, <1>4 DEF ReadPop, Find, ReadLock, LockSession, Refind, ReadPartial,
                        Goto, Return, workers
<1>5. CASE ReadNothing(r) \/ AddNode(r) \/ Route(r) \/ Forward(r) \/ ReadRemove(r)
      BY <1>1, <1>5 DEF ReadNothing, AddNode, Route, Forward, ReadRemove, Goto,
                        Return
<1> QED BY <1>2, <1>3, <1>4, <1>5 DEF Reader

\* Where the places of a write worker come from.
LEMMA WriterSources ==
    ASSUME TypeOK, NEW w \in Writers, Writer(w)
    PROVE  pc'[w] = "remove" => SendError(w) \/ SendPartial(w)
<1>1. w \in Workers /\ pc \in [Workers -> ReaderSteps \cup WriterSteps]
      BY DEF Workers, TypeOK, WorkersTypeOK
<1>2. CASE WritePop(w) \/ Find(w) \/ WriteLock(w)
      BY <1>1, <1>2 DEF WritePop, Find, WriteLock, LockSession, Goto, Return
<1>3. CASE SendOk(w) \/ WriteRemove(w)
      BY <1>1, <1>3 DEF SendOk, WriteRemove, Return
<1> QED BY <1>2, <1>3 DEF Writer

\* What a worker removes has ended, or has a full buffer.
LEMMA NextRemovalsJustified ==
    ASSUME TypeOK, LockInv, RemovalsJustified, [Next]_vars
    PROVE  RemovalsJustified'
<1> SUFFICES ASSUME NEW t \in Workers, pc'[t] = "remove"
             PROVE  Ended(sess[t])' \/ sess'[t] \in SlowPeers
    BY DEF RemovalsJustified
<1>1. ASSUME pc[t] = "remove", sess'[t] = sess[t]
      PROVE  Ended(sess[t])' \/ sess'[t] \in SlowPeers
  <2>1. sock[t] \in Sockets /\ sess[t] \in Conns /\ fd_table[sock[t]] = sess[t]
        BY <1>1 DEF TypeOK, WorkersTypeOK, LockInv, DescriptorsNotReused
  <2>2. CASE Ended(sess[t])
        BY <1>1, <2>1, <2>2, EndedStays DEF Ended
  <2> QED BY <1>1, <2>2 DEF RemovalsJustified
<1>2. CASE SameLocals(t)
      BY <1>1, <1>2 DEF SameLocals
<1>3. CASE UNCHANGED <<workers, ready_write_sockets_queue_, outbox, id_>>
      BY <1>2, <1>3 DEF SameLocals, workers
<1>4. ASSUME t \in Readers, ReadError(t)
      PROVE  Ended(sess[t])' \/ sess'[t] \in SlowPeers
  <2>1. pc[t] = "read" /\ Gone(t) /\ peer' = peer /\ sess' = sess
        BY <1>4 DEF ReadError
  <2>2. sess[t] \in Conns /\ fd_table[sock[t]] = sess[t]
        BY <2>1 DEF TypeOK, WorkersTypeOK, LockInv, DescriptorsNotReused
  <2> QED BY <2>1, <2>2, RegistryAssumption DEF Gone, Behind, Ended
<1>5. ASSUME t \in Writers, SendError(t) \/ SendPartial(t)
      PROVE  Ended(sess[t])' \/ sess'[t] \in SlowPeers
  <2>1. /\ pc[t] = "send" /\ peer' = peer /\ sess' = sess
        /\ Gone(t) \/ Behind(t) \in SlowPeers
        BY <1>5 DEF SendError, SendPartial, kernel
  <2>2. sess[t] \in Conns /\ fd_table[sock[t]] = sess[t]
        BY <2>1 DEF TypeOK, WorkersTypeOK, LockInv, DescriptorsNotReused
  <2> QED BY <2>1, <2>2, RegistryAssumption DEF Gone, Behind, Ended
<1>6. ASSUME NEW r \in Readers, Reader(r)
      PROVE  Ended(sess[t])' \/ sess'[t] \in SlowPeers
      BY <1>2, <1>4, <1>6, ReaderStep, ReaderSources
<1>7. ASSUME NEW w \in Writers, Writer(w)
      PROVE  Ended(sess[t])' \/ sess'[t] \in SlowPeers
      BY <1>2, <1>5, <1>7, WriterStep, WriterSources
<1> QED BY <1>3, <1>6, <1>7, OtherStep

\* A session whose message is looked up keeps its id.
LEMMA NextRoutesNamed ==
    ASSUME TypeOK, LockInv, AddsOnce, RoutesNamed, [Next]_vars
    PROVE  RoutesNamed'
<1> SUFFICES ASSUME NEW r \in Readers, pc'[r] = "route"
             PROVE  id_'[sess'[r]] # NONE
    BY DEF RoutesNamed
<1>1. r \in Workers
      BY DEF Workers
<1>2. ASSUME pc[r] = "route", sess'[r] = sess[r]
      PROVE  id_'[sess'[r]] # NONE
  <2>1. sess[r] \in Conns
        BY <1>1, <1>2 DEF TypeOK, WorkersTypeOK
  <2>2. id_[sess[r]] # NONE
        BY <1>2 DEF RoutesNamed
  <2> QED BY <1>2, <2>1, <2>2, IdsStay
<1>3. CASE SameLocals(r)
      BY <1>2, <1>3 DEF SameLocals
<1>4. CASE UNCHANGED <<workers, ready_write_sockets_queue_, outbox, id_>>
      BY <1>3, <1>4 DEF SameLocals, workers
<1>5. CASE ReadFull(r)
  <2>1. pc' = [pc EXCEPT ![r] = IF id_[sess[r]] = NONE THEN "add" ELSE "route"]
        /\ id_' = id_ /\ sess' = sess
        BY <1>5 DEF ReadFull, Goto, objects
  <2> QED BY <1>1, <2>1 DEF TypeOK, WorkersTypeOK
<1>6. ASSUME NEW q \in Readers, Reader(q)
      PROVE  id_'[sess'[r]] # NONE
      BY <1>1, <1>3, <1>5, <1>6, ReaderStep, ReaderSources
<1>7. ASSUME NEW w \in Writers, Writer(w)
      PROVE  id_'[sess'[r]] # NONE
  <2>1. w # r
        BY RegistryAssumption
  <2> QED BY <1>1, <1>3, <1>7, <2>1, WriterStep
<1> QED BY <1>4, <1>6, <1>7, OtherStep

\* ServiceInv is inductive.
LEMMA NextServiceInv ==
    ASSUME TypeOK, LockInv, AddressInv, ServiceInv, [Next]_vars
    PROVE  ServiceInv'
BY NextBacklogNotRefused, NextRoutesNamed, NextRemovalsJustified, AddressParts
   DEF ServiceInv

-----------------------------------------------------------------------------
\* The abstract state in terms of the threads.  A reader that has taken
\* something from the socket of c and not yet acted upon it:
Holds(r, c) == pc[r] \in {"add", "route"} /\ sess[r] = c

\* What is held for a connection is the message of the only reader that can
\* hold one, as it has the session's mutex.
HeldIsUnique ==
    \A c \in Conns :
        /\ \A r \in Readers : Holds(r, c) => Held[c] = msg[r]
        /\ (\A r \in Readers : ~ Holds(r, c)) => Held[c] = <<>>
        /\ Held[c] \in Seq(Values)

\* At most one reader holds text of a connection: it owns the session's mutex.
LEMMA HeldFacts == TypeOK /\ LockInv => HeldIsUnique
<1> SUFFICES ASSUME TypeOK, LockInv, NEW c \in Conns
             PROVE  /\ \A r \in Readers : Holds(r, c) => Held[c] = msg[r]
                    /\ (\A r \in Readers : ~ Holds(r, c)) => Held[c] = <<>>
                    /\ Held[c] \in Seq(Values)
    BY DEF HeldIsUnique
<1> DEFINE rs == {r \in Readers : pc[r] \in {"add", "route"} /\ sess[r] = c}
<1>1. Held[c] = IF rs = {} THEN <<>> ELSE msg[CHOOSE r \in rs : TRUE]
      BY DEF Held
<1>2. \A r \in Readers : Holds(r, c) <=> r \in rs
      BY DEF Holds
<1>3. \A r \in rs : r \in Workers /\ mutex_[c] = r /\ msg[r] \in Seq(Values)
      BY DEF LockInv, ReaderSessionStable, Workers, TypeOK, WorkersTypeOK
<1> HIDE DEF rs
<1>4. CASE rs = {}
      BY <1>1, <1>2, <1>4, EmptySeq
<1>5. CASE rs # {}
  <2>1. (CHOOSE r \in rs : TRUE) \in rs
        BY <1>5
  <2>2. PICK q \in rs : q = CHOOSE r \in rs : TRUE
        BY <2>1
  <2>3. Held[c] = msg[q]
        BY <1>1, <1>5, <2>2
  <2>4. q \in Readers /\ Holds(q, c)
        BY <1>2, <2>2 DEF rs
  <2>5. \A r \in rs : r = q
        BY <1>3, <2>2
  <2> QED BY <1>2, <1>3, <2>3, <2>4, <2>5
<1> QED BY <1>4, <1>5

\* The same in the next state.
LEMMA HeldFactsNext == (TypeOK /\ LockInv => HeldIsUnique)'
BY HeldFacts, PTL

\* Held messages that no step touches.
LEMMA HeldStays ==
    ASSUME NEW c \in Conns,
           \A r \in Readers : /\ Holds(r, c)' <=> Holds(r, c)
                              /\ Holds(r, c) => msg'[r] = msg[r]
    PROVE  Held'[c] = Held[c]
<1> DEFINE rs == {r \in Readers : pc[r] \in {"add", "route"} /\ sess[r] = c}
<1> DEFINE rt == {r \in Readers : pc'[r] \in {"add", "route"} /\ sess'[r] = c}
<1>1. Held[c] = IF rs = {} THEN <<>> ELSE msg[CHOOSE r \in rs : TRUE]
      BY DEF Held
<1>2. Held'[c] = IF rt = {} THEN <<>> ELSE msg'[CHOOSE r \in rt : TRUE]
      BY DEF Held
<1>3. rt = rs /\ \A r \in rs : msg'[r] = msg[r]
      BY DEF Holds
<1> HIDE DEF rs, rt
<1>4. rs # {} => (CHOOSE r \in rs : TRUE) \in rs
      OBVIOUS
<1> QED BY <1>1, <1>2, <1>3, <1>4

\* The tasks in the queue and the tasks of the threads, as two families.
QueuedTasks == [i \in DOMAIN ready_write_sockets_queue_ |-> Queued(i)]

CarriedTasks == [t \in Carriers |-> Carried(t)]

\* The bag in transit is their tally, now and after a step.
LEMMA TransitIsTally ==
    /\ InTransit = Tally(QueuedTasks, CarriedTasks)
    /\ InTransit' = Tally(QueuedTasks', CarriedTasks')
<1>1. /\ DOMAIN QueuedTasks = DOMAIN ready_write_sockets_queue_
      /\ DOMAIN CarriedTasks = Carriers
      /\ DOMAIN QueuedTasks' = DOMAIN ready_write_sockets_queue_'
      /\ DOMAIN CarriedTasks' = Carriers'
      BY DEF QueuedTasks, CarriedTasks
<1>2. InTransit = Tally(QueuedTasks, CarriedTasks)
      BY Zenon DEF InTransit, Tally, Count, QueuedTasks, CarriedTasks
<1>3. InTransit' = Tally(QueuedTasks', CarriedTasks')
      BY Zenon DEF InTransit, Tally, Count, QueuedTasks, CarriedTasks
<1> QED BY <1>2, <1>3

\* There are finitely many of both.
LEMMA TasksFinite ==
    ASSUME TypeOK
    PROVE  /\ QueuedTasks \in Seq([to : Conns \cup {nullptr}, msg : Seq(Values)])
           /\ Len(QueuedTasks) = Len(ready_write_sockets_queue_)
           /\ IsFiniteSet(DOMAIN QueuedTasks)
           /\ IsFiniteSet(Carriers)
           /\ Carriers \subseteq Workers
<1> DEFINE q == ready_write_sockets_queue_
           T == [to : Conns \cup {nullptr}, msg : Seq(Values)]
<1>1. /\ q \in Seq(Tasks) /\ DOMAIN q = 1 .. Len(q) /\ Len(q) \in Nat
      /\ fd_table \in [Sockets -> Conns \cup {nullptr}]
      BY LenProperties DEF TypeOK, QueuesTypeOK, KernelTypeOK
<1>2. ASSUME NEW i \in 1 .. Len(q)
      PROVE  Queued(i) \in T
  <2>1. q[i] \in Tasks
        BY <1>1, ElementOfSeq
  <2> QED BY <1>1, <2>1 DEF Queued, Tasks
<1>3. QueuedTasks \in [1 .. Len(q) -> T]
      BY <1>1, <1>2 DEF QueuedTasks
<1>4. QueuedTasks \in Seq(T) /\ Len(QueuedTasks) = Len(q)
  <2> HIDE DEF T, q
  <2>1. QueuedTasks \in Seq(T)
        BY <1>1, <1>3, FunctionIsSeq
  <2>2. Len(QueuedTasks) \in Nat /\ 1 .. Len(QueuedTasks) = 1 .. Len(q)
        BY <1>3, <2>1, LenProperties
  <2> QED BY <1>1, <2>1, <2>2
<1>5. IsFiniteSet(DOMAIN QueuedTasks)
      BY <1>1, <1>3, FS_Interval
<1>6. Carriers \in SUBSET Workers
      BY DEF Carriers, Workers
<1>7. IsFiniteSet(Carriers)
      BY <1>6, FS_Subset, PoolsAssumption
<1> QED BY <1>4, <1>5, <1>6, <1>7

\* Everything that is known of a reachable state.
RouterInv == TypeOK /\ LockInv /\ AddressInv /\ ServiceInv

\* A thread that a step leaves alone keeps its task, and the task its
\* addressee.
LEMMA TaskStays ==
    ASSUME RouterInv, [Next]_vars, NEW t \in Workers, SameLocals(t)
    PROVE  /\ t \in Carriers' <=> t \in Carriers
           /\ t \in Carriers => Carried(t)' = Carried(t)
<1>1. t \in Carriers' <=> t \in Carriers
      BY DEF Carriers, SameLocals
<1>2. ASSUME t \in Writers, pc[t] \in {"find", "lock", "send"}
      PROVE  fd_table'[sock[t]] = fd_table[sock[t]]
  <2>1. sock[t] \in Sockets
        BY <1>2 DEF RouterInv, TypeOK, WorkersTypeOK
  <2>2. fd_table[sock[t]] # nullptr
        BY <1>2, AddressParts DEF RouterInv, WritersAddressed, Addressed
  <2> QED BY <2>1, <2>2, IdsStay, AddressParts DEF RouterInv
<1>3. t \in Carriers => t \in Readers \/ (t \in Writers /\ pc[t] \in {"find", "lock", "send"})
      BY DEF Carriers
<1>4. ASSUME t \in Carriers
      PROVE  Carried(t)' = Carried(t)
      BY <1>2, <1>3, <1>4 DEF Carried, SameLocals
<1> QED BY <1>1, <1>4

\* A queued task keeps its addressee.
LEMMA QueuedStays ==
    ASSUME RouterInv, [Next]_vars
    PROVE  \A i \in DOMAIN ready_write_sockets_queue_ :
               LET task == ready_write_sockets_queue_[i] IN
               task \in Tasks /\ fd_table'[task.socket] = fd_table[task.socket]
<1> SUFFICES ASSUME NEW i \in DOMAIN ready_write_sockets_queue_
             PROVE  LET task == ready_write_sockets_queue_[i] IN
                    task \in Tasks /\ fd_table'[task.socket] = fd_table[task.socket]
    OBVIOUS
<1>1. ready_write_sockets_queue_[i] \in Tasks
      BY ElementOfSeq, LenProperties DEF RouterInv, TypeOK, QueuesTypeOK
<1>2. ready_write_sockets_queue_[i].socket \in Sockets
      BY <1>1 DEF Tasks
<1>3. fd_table[ready_write_sockets_queue_[i].socket] # nullptr
      BY AddressParts DEF RouterInv, TasksAddressed, Addressed
<1> QED BY <1>1, <1>2, <1>3, IdsStay, AddressParts DEF RouterInv

\* A step that leaves the write queue alone leaves its tasks alone.
LEMMA SameQueue ==
    ASSUME RouterInv, [Next]_vars, UNCHANGED ready_write_sockets_queue_
    PROVE  QueuedTasks' = QueuedTasks
<1>1. \A i \in DOMAIN ready_write_sockets_queue_ : Queued(i)' = Queued(i)
      BY QueuedStays DEF Queued
<1> QED BY <1>1 DEF QueuedTasks

\* What a step of thread t does to the family of carried tasks.
LEMMA CarriedStep ==
    ASSUME RouterInv, [Next]_vars, NEW t \in Workers,
           \A u \in Workers : u # t => SameLocals(u)
    PROVE  /\ /\ t \in Carriers' <=> t \in Carriers
              /\ t \in Carriers => Carried(t)' = Carried(t)
              => CarriedTasks' = CarriedTasks
           /\ t \notin Carriers /\ t \in Carriers' =>
                 /\ OneMore(CarriedTasks, CarriedTasks', t)
                 /\ CarriedTasks'[t] = Carried(t)'
           /\ t \in Carriers /\ t \notin Carriers' =>
                 /\ OneMore(CarriedTasks', CarriedTasks, t)
                 /\ CarriedTasks[t] = Carried(t)
<1>1. /\ Carriers \subseteq Workers /\ Carriers' \subseteq Workers
      /\ IsFiniteSet(Carriers)
      BY TasksFinite DEF RouterInv, Carriers, Workers
<1>2. /\ DOMAIN CarriedTasks = Carriers /\ DOMAIN CarriedTasks' = Carriers'
      /\ \A u \in Carriers : CarriedTasks[u] = Carried(u)
      /\ \A u \in Carriers' : CarriedTasks'[u] = Carried(u)'
      BY DEF CarriedTasks
<1>3. \A u \in Workers : u # t => /\ u \in Carriers' <=> u \in Carriers
                                  /\ u \in Carriers => Carried(u)' = Carried(u)
      BY TaskStays
<1>4. ASSUME t \in Carriers' <=> t \in Carriers,
             t \in Carriers => Carried(t)' = Carried(t)
      PROVE  CarriedTasks' = CarriedTasks
  <2>1. Carriers' = Carriers /\ \A u \in Carriers : Carried(u)' = Carried(u)
        BY <1>1, <1>3, <1>4
  <2> QED BY <2>1 DEF CarriedTasks
<1>5. ASSUME t \notin Carriers, t \in Carriers'
      PROVE  OneMore(CarriedTasks, CarriedTasks', t)
  <2>1. Carriers' = Carriers \cup {t}
        BY <1>1, <1>3, <1>5
  <2> QED BY <1>1, <1>2, <1>3, <1>5, <2>1 DEF OneMore
<1>6. ASSUME t \in Carriers, t \notin Carriers'
      PROVE  OneMore(CarriedTasks', CarriedTasks, t)
  <2>1. Carriers = Carriers' \cup {t} /\ Carriers' = Carriers \ {t}
        BY <1>1, <1>3, <1>6
  <2>2. IsFiniteSet(Carriers')
        BY <1>1, <2>1, FS_RemoveElement
  <2> QED BY <1>1, <1>2, <1>3, <1>6, <2>1, <2>2 DEF OneMore
<1> QED BY <1>2, <1>4, <1>5, <1>6

\* Steps of other threads than the workers leave the bag alone.
LEMMA TransitSame ==
    ASSUME RouterInv, [Next]_vars, UNCHANGED <<workers, ready_write_sockets_queue_>>
    PROVE  InTransit' = InTransit
<1>1. \A u \in Workers : SameLocals(u)
      BY DEF SameLocals, workers
<1>2. Carriers' = Carriers
      BY DEF Carriers, workers
<1>3. \A u \in Carriers : Carried(u)' = Carried(u)
      BY <1>1, TaskStays, TasksFinite DEF RouterInv
<1>4. CarriedTasks' = CarriedTasks
      BY <1>2, <1>3 DEF CarriedTasks
<1>5. QueuedTasks' = QueuedTasks
      BY SameQueue
<1> QED BY <1>4, <1>5, TransitIsTally

\* A worker's step that does not touch its task, or has none.
LEMMA TransitKept ==
    ASSUME RouterInv, [Next]_vars, NEW t \in Workers,
           \A u \in Workers : u # t => SameLocals(u),
           UNCHANGED ready_write_sockets_queue_,
           t \in Carriers' <=> t \in Carriers,
           t \in Carriers => Carried(t)' = Carried(t)
    PROVE  InTransit' = InTransit
<1>1. CarriedTasks' = CarriedTasks
      BY CarriedStep
<1>2. QueuedTasks' = QueuedTasks
      BY SameQueue
<1> QED BY <1>1, <1>2, TransitIsTally

\* A worker's step that gets a task from nobody, or gives its task up.
LEMMA TransitAdds ==
    ASSUME RouterInv, [Next]_vars, NEW t \in Workers,
           \A u \in Workers : u # t => SameLocals(u),
           UNCHANGED ready_write_sockets_queue_,
           t \notin Carriers, t \in Carriers'
    PROVE  InTransit' = Service!BagAdd(InTransit, Carried(t)')
<1>1. /\ OneMore(CarriedTasks, CarriedTasks', t)
      /\ CarriedTasks'[t] = Carried(t)'
      BY CarriedStep
<1>2. QueuedTasks' = QueuedTasks /\ IsFiniteSet(DOMAIN QueuedTasks)
      BY SameQueue, TasksFinite DEF RouterInv
<1>3. Tally(QueuedTasks, CarriedTasks') =
         Service!BagAdd(Tally(QueuedTasks, CarriedTasks), CarriedTasks'[t])
      BY <1>1, <1>2, TallyAdd
<1> QED BY <1>1, <1>2, <1>3, TransitIsTally

\* A worker that drops or sends its message takes it out of transit.
LEMMA TransitRemoves ==
    ASSUME RouterInv, [Next]_vars, NEW t \in Workers,
           \A u \in Workers : u # t => SameLocals(u),
           UNCHANGED ready_write_sockets_queue_,
           t \in Carriers, t \notin Carriers'
    PROVE  /\ Carried(t) \in DOMAIN InTransit
           /\ InTransit' = Service!BagRemove(InTransit, Carried(t))
<1>1. /\ OneMore(CarriedTasks', CarriedTasks, t)
      /\ CarriedTasks[t] = Carried(t)
      BY CarriedStep
<1>2. QueuedTasks' = QueuedTasks /\ IsFiniteSet(DOMAIN QueuedTasks)
      BY SameQueue, TasksFinite DEF RouterInv
<1>3. /\ CarriedTasks[t] \in DOMAIN Tally(QueuedTasks, CarriedTasks)
      /\ Tally(QueuedTasks, CarriedTasks') =
            Service!BagRemove(Tally(QueuedTasks, CarriedTasks), CarriedTasks[t])
      BY <1>1, <1>2, TallyRemove
<1> QED BY <1>1, <1>2, <1>3, TransitIsTally

\* The queued tasks, by index, before and after a step.
LEMMA QueuedElements ==
    ASSUME TypeOK, TypeOK'
    PROVE  /\ \A i \in DOMAIN ready_write_sockets_queue_ :
                 QueuedTasks[i] =
                     [to |-> fd_table[ready_write_sockets_queue_[i].socket],
                      msg |-> ready_write_sockets_queue_[i].msg]
           /\ \A i \in DOMAIN ready_write_sockets_queue_' :
                 QueuedTasks'[i] =
                     [to |-> fd_table'[ready_write_sockets_queue_'[i].socket],
                      msg |-> ready_write_sockets_queue_'[i].msg]
           /\ QueuedTasks' \in [DOMAIN ready_write_sockets_queue_' ->
                                   [to : Conns \cup {nullptr}, msg : Seq(Values)]]
<1> DEFINE q == ready_write_sockets_queue_
<1>1. /\ \A i \in DOMAIN q :
            QueuedTasks[i] = [to |-> fd_table[q[i].socket], msg |-> q[i].msg]
      /\ QueuedTasks' =
            [i \in DOMAIN q' |-> [to |-> fd_table'[q'[i].socket], msg |-> q'[i].msg]]
      BY DEF QueuedTasks, Queued
<1>2. \A i \in DOMAIN q' : q'[i] \in Tasks
      BY ElementOfSeq, LenProperties DEF TypeOK, QueuesTypeOK
<1>3. \A i \in DOMAIN q' :
         /\ fd_table'[q'[i].socket] \in Conns \cup {nullptr}
         /\ q'[i].msg \in Seq(Values)
      BY <1>2 DEF Tasks, TypeOK, KernelTypeOK
<1> HIDE DEF q
<1> QED BY <1>1, <1>3 DEF q

\* forward() moves a task from its reader to the end of the queue.
LEMMA TransitForward ==
    ASSUME RouterInv, [Next]_vars, NEW r \in Readers, Forward(r), TypeOK'
    PROVE  InTransit' = InTransit
<1> DEFINE q == ready_write_sockets_queue_
           T == [to : Conns \cup {nullptr}, msg : Seq(Values)]
           n == Len(q)
<1>1. /\ r \in Workers /\ pc[r] = "forward" /\ dst[r] \in Conns
      /\ msg[r] \in Seq(Values) /\ r \in Carriers /\ r \notin Writers
      /\ pc'[r] = "read"
      BY RegistryAssumption
         DEF Forward, Goto, RouterInv, TypeOK, WorkersTypeOK, Workers, Carriers
<1>2. /\ \A u \in Workers : u # r => SameLocals(u)
      /\ r \notin Carriers'
      BY <1>1, ReaderStep DEF RouterInv, Reader, Carriers
<1>3. OneMore(CarriedTasks', CarriedTasks, r) /\ CarriedTasks[r] = Carried(r)
      BY <1>1, <1>2, CarriedStep
<1>4. Carried(r) = [to |-> dst[r], msg |-> msg[r]] /\ Carried(r) \in T
      BY <1>1 DEF Carried
<1>5. socket_[dst[r]] \in Sockets /\ fd_table[socket_[dst[r]]] = dst[r]
  <2>1. dst[r] # nullptr
        BY <1>1, RegistryAssumption
  <2>2. socket_[dst[r]] # nullptr
        BY <1>1, <2>1 DEF RouterInv, TypeOK, SessionsHaveSockets
  <2> QED BY <1>1, <2>2, AddressParts
          DEF RouterInv, SocketsKnown, TypeOK, SessionsTypeOK
<1>6. /\ q' = Append(q, [socket |-> socket_[dst[r]], msg |-> msg[r]])
      /\ fd_table' = fd_table
      BY DEF Forward, kernel
<1>7. /\ q \in Seq(Tasks) /\ n \in Nat /\ DOMAIN q = 1 .. n
      /\ DOMAIN q' = 1 .. n + 1
      /\ \A i \in 1 .. n : q'[i] = q[i]
      /\ q'[n + 1] = [socket |-> socket_[dst[r]], msg |-> msg[r]]
  <2>1. q \in Seq(Tasks) /\ q' \in Seq(Tasks)
        BY DEF RouterInv, TypeOK, QueuesTypeOK
  <2>2. [socket |-> socket_[dst[r]], msg |-> msg[r]] \in Tasks
        BY <1>1, <1>5 DEF Tasks, RouterInv, TypeOK, WorkersTypeOK
  <2> QED BY <1>6, <2>1, <2>2, AppendProperties, LenProperties
<1>8. QueuedTasks \in Seq(T) /\ Len(QueuedTasks) = n
      BY TasksFinite DEF RouterInv
<1>9. QueuedTasks' = Append(QueuedTasks, Carried(r))
  <2>1. QueuedTasks' \in [1 .. n + 1 -> T]
        BY <1>7, QueuedElements DEF RouterInv
  <2>2. \A i \in 1 .. n : QueuedTasks'[i] = QueuedTasks[i]
    <3> TAKE i \in 1 .. n
    <3>1. i \in DOMAIN q /\ i \in DOMAIN q' /\ q'[i] = q[i]
          BY <1>7
    <3> QED BY <1>6, <3>1, QueuedElements DEF RouterInv
  <2>3. QueuedTasks'[n + 1] = Carried(r)
    <3>1. n + 1 \in DOMAIN q'
          BY <1>7
    <3>2. QueuedTasks'[n + 1] = [to |-> fd_table'[q'[n + 1].socket],
                                 msg |-> q'[n + 1].msg]
          BY <3>1, QueuedElements DEF RouterInv
    <3> HIDE DEF q, n
    <3>3. q'[n + 1].socket = socket_[dst[r]] /\ q'[n + 1].msg = msg[r]
          BY <1>7
    <3> QED BY <1>4, <1>5, <1>6, <3>2, <3>3
  <2> HIDE DEF q, n, T
  <2> QED BY <1>4, <1>7, <1>8, <2>1, <2>2, <2>3, AppendByElements
<1>10. Tally(Append(QueuedTasks, CarriedTasks[r]), CarriedTasks') =
          Tally(QueuedTasks, CarriedTasks)
  <2> HIDE DEF T
  <2> QED BY <1>3, <1>4, <1>8, TallyPush
<1> QED BY <1>3, <1>9, <1>10, TransitIsTally

\* pop() moves a task from the head of the queue to its writer.
LEMMA TransitPop ==
    ASSUME RouterInv, [Next]_vars, NEW w \in Writers, WritePop(w), TypeOK'
    PROVE  InTransit' = InTransit
<1> DEFINE q == ready_write_sockets_queue_
           T == [to : Conns \cup {nullptr}, msg : Seq(Values)]
           n == Len(q)
<1>1. /\ w \in Workers /\ pc[w] = "pop" /\ w \notin Readers
      /\ pc'[w] = "find"
      /\ w \notin Carriers /\ w \in Carriers'
      BY RegistryAssumption
         DEF WritePop, Goto, RouterInv, TypeOK, WorkersTypeOK, Workers, Carriers
<1>2. \A u \in Workers : u # w => SameLocals(u)
      BY WriterStep DEF RouterInv, Writer
<1>3. OneMore(CarriedTasks, CarriedTasks', w) /\ CarriedTasks'[w] = Carried(w)'
      BY <1>1, <1>2, CarriedStep
<1>4. /\ q # <<>> /\ q' = Tail(q) /\ fd_table' = fd_table
      /\ sock'[w] = Head(q).socket /\ msg'[w] = Head(q).msg
      BY <1>1 DEF WritePop, kernel, RouterInv, TypeOK, WorkersTypeOK
<1>5. Carried(w)' = [to |-> fd_table[Head(q).socket], msg |-> Head(q).msg]
      BY <1>1, <1>4 DEF Carried
<1>6. /\ n - 1 \in Nat /\ n \in Nat /\ (n - 1) + 1 = n
      /\ DOMAIN q = 1 .. n /\ DOMAIN q' = 1 .. n - 1
      /\ \A i \in 1 .. n - 1 : q'[i] = q[i + 1]
      /\ Head(q) = q[1] /\ 1 \in 1 .. n
  <2>1. q \in Seq(Tasks) /\ q' \in Seq(Tasks)
        BY DEF RouterInv, TypeOK, QueuesTypeOK
  <2> QED BY <1>4, <2>1, HeadTailProperties, LenProperties, EmptySeq
<1>7. QueuedTasks \in Seq(T) /\ Len(QueuedTasks) = n
      BY TasksFinite DEF RouterInv
<1>8. QueuedTasks # <<>> /\ QueuedTasks' = Tail(QueuedTasks)
  <2>1. QueuedTasks' \in [1 .. n - 1 -> T]
        BY <1>6, QueuedElements DEF RouterInv
  <2>2. \A i \in 1 .. n - 1 : QueuedTasks'[i] = QueuedTasks[i + 1]
    <3> TAKE i \in 1 .. n - 1
    <3>1. i + 1 \in DOMAIN q /\ i \in DOMAIN q' /\ q'[i] = q[i + 1]
          BY <1>6
    <3> QED BY <1>4, <3>1, QueuedElements DEF RouterInv
  <2> HIDE DEF q, n, T
  <2> QED BY <1>6, <1>7, <2>1, <2>2, TailByElements
<1>9. CarriedTasks'[w] = Head(QueuedTasks)
  <2>1. QueuedTasks[1] = [to |-> fd_table[q[1].socket], msg |-> q[1].msg]
        BY <1>6, QueuedElements DEF RouterInv
  <2>2. Head(QueuedTasks) = QueuedTasks[1]
        BY <1>7, <1>8
  <2> HIDE DEF q, n, T
  <2> QED BY <1>3, <1>5, <1>6, <2>1, <2>2
<1>10. Tally(Tail(QueuedTasks), CarriedTasks') = Tally(QueuedTasks, CarriedTasks)
  <2> HIDE DEF T
  <2> QED BY <1>3, <1>7, <1>8, <1>9, TallyPop
<1> QED BY <1>8, <1>10, TransitIsTally

-----------------------------------------------------------------------------
\* A step of the router is a step of the service, or one it does not see.
ServiceStep == [Service!ServiceNext]_<<Service!clients, Service!service>>

\* Who is seated and what was delivered depends on these variables.
LEMMA SeatsSame ==
    ASSUME UNCHANGED <<socket_, sessions_by_socket_>>
    PROVE  Seats' = Seats
BY DEF Seats, Registered

\* What the peers have got, when nothing is sent.
LEMMA MailSame ==
    ASSUME UNCHANGED outbox
    PROVE  Mail' = Mail
BY DEF Mail

\* What is held for c, when thread t, which holds nothing for c, takes a step.
LEMMA HeldStep ==
    ASSUME NEW t \in Workers, \A u \in Workers : u # t => SameLocals(u),
           NEW c \in Conns, t \in Readers => ~ Holds(t, c) /\ ~ Holds(t, c)'
    PROVE  Held'[c] = Held[c]
<1>1. ASSUME NEW r \in Readers
      PROVE  /\ Holds(r, c)' <=> Holds(r, c)
             /\ Holds(r, c) => msg'[r] = msg[r]
      BY <1>1 DEF Holds, SameLocals, Workers
<1> QED BY <1>1, HeldStays

\* What readers hold, when they do not move.
LEMMA HeldSame ==
    ASSUME UNCHANGED workers
    PROVE  \A c \in Conns : Held'[c] = Held[c]
BY HeldStays DEF Holds, workers

\* What is unread, when nothing arrives and nothing is acted upon.
LEMMA UnreadSame ==
    ASSUME \A c \in Conns : Held'[c] = Held[c], UNCHANGED inbox
    PROVE  Unread' = Unread
BY DEF Unread

\* The type of what is unread.
LEMMA UnreadType ==
    ASSUME TypeOK, LockInv
    PROVE  /\ Unread \in [Conns -> Seq(Values)]
           /\ \A c \in Conns : /\ Unread[c] = Held[c] \o inbox[c]
                               /\ Held[c] \in Seq(Values) /\ inbox[c] \in Seq(Values)
<1>1. \A c \in Conns : Held[c] \in Seq(Values) /\ inbox[c] \in Seq(Values)
      BY HeldFacts DEF HeldIsUnique, TypeOK, KernelTypeOK
<1>2. \A c \in Conns : Held[c] \o inbox[c] \in Seq(Values)
      BY <1>1, ConcatProperties
<1> QED BY <1>1, <1>2 DEF Unread

\* The steps the service does not see.
LEMMA Unseen ==
    ASSUME UNCHANGED <<peer, socket_, sessions_by_socket_, id_, sessions_by_id_,
                       outbox>>,
           Unread' = Unread, InTransit' = InTransit
    PROVE  UNCHANGED <<Service!clients, Service!service>>
BY SeatsSame, MailSame DEF Service!clients, Service!service

\* The peers and the network.
LEMMA PeerImplements ==
    ASSUME RouterInv, [Next]_vars, NEW c \in Conns, Peer(c)
    PROVE  ServiceStep
<1>1. UNCHANGED <<socket_, sessions_by_socket_, id_, sessions_by_id_, outbox,
                  workers, ready_write_sockets_queue_>>
      BY DEF Peer, PeerConnect, PeerSend, PeerClose, PeerReset, registry, maps,
             objects, queues
<1>2. /\ Seats' = Seats /\ Mail' = Mail /\ InTransit' = InTransit
      /\ \A d \in Conns : Held'[d] = Held[d]
      BY <1>1, SeatsSame, MailSame, TransitSame, HeldSame
<1>3. /\ Unread \in [Conns -> Seq(Values)]
      /\ \A d \in Conns : /\ Unread[d] = Held[d] \o inbox[d]
                          /\ Held[d] \in Seq(Values) /\ inbox[d] \in Seq(Values)
      BY UnreadType DEF RouterInv
<1>4. Unread' = [d \in Conns |-> Held[d] \o inbox'[d]]
      BY <1>2 DEF Unread
<1>5. inbox \in [Conns -> Seq(Values)] /\ sent[c] \in Nat
      BY DEF RouterInv, TypeOK, KernelTypeOK
<1> USE DEF Service!service
<1>6. CASE PeerConnect(c)
  <2>1. Unread' = Unread
        BY <1>2, <1>6, UnreadSame DEF PeerConnect
  <2>2. Service!Open(c)
        BY <1>1, <1>2, <1>6, <2>1 DEF PeerConnect, Service!Open
  <2> QED BY <2>2 DEF ServiceStep, Service!ServiceNext
<1>7. CASE PeerClose(c)
  <2>1. Unread' = Unread
        BY <1>2, <1>7, UnreadSame DEF PeerClose
  <2>2. Service!Close(c)
        BY <1>1, <1>2, <1>7, <2>1 DEF PeerClose, Service!Close
  <2> QED BY <2>2 DEF ServiceStep, Service!ServiceNext
<1>8. CASE PeerSend(c)
  <2>1. PICK cut \in Cuts[c] :
           inbox' = [inbox EXCEPT ![c] = @ \o SubSeq(Stream[c], sent[c] + 1, cut)]
        BY <1>8 DEF PeerSend
  <2> DEFINE text == SubSeq(Stream[c], sent[c] + 1, cut)
  <2>2. text \in Seq(Values)
    <3>1. Stream[c] \in Seq(Values) /\ cut \in 1 .. Len(Stream[c])
          BY PeersAssumption
    <3>2. \A i \in sent[c] + 1 .. cut : i \in 1 .. Len(Stream[c])
          BY <1>5, <3>1
    <3> QED BY <1>5, <3>1, <3>2, ElementOfSeq, SubSeqProperties
  <2>3. inbox' = [inbox EXCEPT ![c] = inbox[c] \o text]
        BY <2>1
  <2> HIDE DEF text
  <2>4. Held[c] \o (inbox[c] \o text) = Unread[c] \o text
    <3>1. /\ Held[c] \in Seq(Values) /\ inbox[c] \in Seq(Values)
          /\ Unread[c] = Held[c] \o inbox[c]
          BY <1>3
    <3>2. ASSUME NEW s \in Seq(Values), NEW t \in Seq(Values), NEW u \in Seq(Values)
          PROVE  (s \o t) \o u = s \o (t \o u)
          BY ConcatAssociative
    <3>3. (Held[c] \o inbox[c]) \o text = Held[c] \o (inbox[c] \o text)
          BY <2>2, <3>1, <3>2, Zenon
    <3> QED BY <3>1, <3>3, Zenon
  <2>5. Unread' = [Unread EXCEPT ![c] = Unread[c] \o text]
        BY <1>3, <1>4, <1>5, <2>3, <2>4
  <2>6. Unread'[c] = Unread[c] \o text
        BY <1>3, <2>5
  <2>7. SubSeq(Unread'[c], Len(Unread[c]) + 1, Len(Unread'[c])) = text
        BY <1>3, <2>2, <2>6, SubSeqOfConcat
  <2>8. Service!Send(c, text)
        BY <1>1, <1>2, <1>8, <2>5 DEF PeerSend, Service!Send
  <2> QED BY <2>7, <2>8 DEF ServiceStep, Service!ServiceNext
<1>9. CASE PeerReset(c) /\ inbox' = inbox
  <2>1. Unread[c] \in Seq(Values) /\ Len(Unread[c]) \in 0 .. Len(Unread[c])
        BY <1>3, LenProperties
  <2>2. Unread' = Unread /\ SubSeq(Unread[c], 1, Len(Unread[c])) = Unread[c]
        BY <1>2, <1>9, <2>1, UnreadSame, SubSeqFull
  <2>3. Unread' = [Unread EXCEPT ![c] = SubSeq(Unread[c], 1, Len(Unread[c]))]
        BY <1>3, <2>2
  <2>4. Service!Reset(c, Len(Unread[c]))
        BY <1>1, <1>2, <1>9, <2>3 DEF PeerReset, Service!Reset
  <2> QED BY <2>1, <2>4 DEF ServiceStep, Service!ServiceNext
<1>10. CASE PeerReset(c) /\ inbox' = [inbox EXCEPT ![c] = <<>>]
  <2>1. inbox' = [inbox EXCEPT ![c] = <<>>]
        BY <1>10
  <2>2. /\ Held[c] \o <<>> = Held[c]
        /\ SubSeq(Unread[c], 1, Len(Held[c])) = Held[c]
        BY <1>3, ConcatEmptySeq, SubSeqOfConcat
  <2>3. Unread' = [Unread EXCEPT ![c] = SubSeq(Unread[c], 1, Len(Held[c]))]
        BY <1>3, <1>4, <1>5, <2>1, <2>2
  <2>4. Len(Held[c]) \in 0 .. Len(Unread[c])
    <3>1. /\ Len(Unread[c]) = Len(Held[c]) + Len(inbox[c])
          /\ Len(Held[c]) \in Nat /\ Len(inbox[c]) \in Nat
          BY <1>3, ConcatProperties, LenProperties
    <3>2. \A i, j \in Nat : i \in 0 .. i + j
          OBVIOUS
    <3> QED BY <3>1, <3>2, Zenon
  <2>5. Service!Reset(c, Len(Held[c]))
        BY <1>1, <1>2, <1>10, <2>3 DEF PeerReset, Service!Reset
  <2> QED BY <2>4, <2>5 DEF ServiceStep, Service!ServiceNext
<1> QED BY <1>6, <1>7, <1>8, <1>9, <1>10 DEF Peer, PeerReset

\* A connection in the backlog has no session, and nobody holds text of it.
LEMMA HeadIsWaiting ==
    ASSUME RouterInv, backlog # <<>>
    PROVE  /\ Head(backlog) \in Conns
           /\ peer[Head(backlog)] \notin {"new", "refused"}
           /\ \A s \in Sockets : fd_table[s] # Head(backlog)
           /\ socket_[Head(backlog)] = nullptr
           /\ Held[Head(backlog)] = <<>>
<1>1. PICK c \in Conns : c = Head(backlog) /\ \A s \in Sockets : fd_table[s] # c
      BY BacklogTail DEF RouterInv, LockInv
<1>2. peer[c] # "new"
      BY <1>1, BacklogTail DEF RouterInv, LockInv
<1>3. peer[c] # "refused"
  <2>1. backlog \in Seq(Conns)
        BY DEF RouterInv, TypeOK, KernelTypeOK
  <2>2. Head(backlog) = backlog[1] /\ 1 \in DOMAIN backlog
        BY <2>1, EmptySeq, LenProperties
  <2> QED BY <1>1, <2>2 DEF RouterInv, ServiceInv, BacklogNotRefused
<1>4. socket_[c] = nullptr
  <2>1. socket_[c] # nullptr => socket_[c] \in Sockets /\ fd_table[socket_[c]] = c
        BY AddressParts DEF RouterInv, SocketsKnown, TypeOK, SessionsTypeOK
  <2> QED BY <1>1, <2>1
<1>5. \A r \in Readers : ~ Holds(r, c)
  <2> SUFFICES ASSUME NEW r \in Readers, Holds(r, c)
               PROVE  FALSE
      OBVIOUS
  <2>1. r \in Workers /\ pc[r] \in {"add", "route"} /\ sess[r] = c
        BY DEF Holds, Workers
  <2>2. sock[r] \in Sockets /\ fd_table[sock[r]] = c
        BY <2>1 DEF RouterInv, TypeOK, WorkersTypeOK, LockInv, DescriptorsNotReused
  <2> QED BY <1>1, <2>2
<1>6. Held[c] = <<>>
      BY <1>5, HeldFacts DEF HeldIsUnique, RouterInv
<1> QED BY <1>1, <1>2, <1>3, <1>4, <1>6

\* The event loop.
LEMMA ListenerImplements ==
    ASSUME RouterInv, [Next]_vars, Listener
    PROVE  ServiceStep
<1>1. /\ UNCHANGED <<id_, sessions_by_id_, outbox, workers,
                     ready_write_sockets_queue_>>
      BY DEF Listener, ResetBegin, ResetEnd, Select, SelectError, Accept,
             accept_client, AcceptRefused, AcceptError, PushReady, registry, maps,
             objects, kernel, queues
<1>2. /\ Mail' = Mail /\ InTransit' = InTransit
      /\ \A d \in Conns : Held'[d] = Held[d]
      BY <1>1, MailSame, TransitSame, HeldSame
<1> USE DEF Service!service
<1>3. CASE Accept
  <2>1. backlog # <<>>
        BY <1>3 DEF Accept, RouterInv, TypeOK, ListenerTypeOK
  <2>2. PICK s \in Sockets, c \in Conns :
           /\ c = Head(backlog)
           /\ fd_table[s] = nullptr
           /\ accept_client(s, c)
        BY <1>3, <2>1, HeadIsWaiting DEF Accept, FreeSockets
  <2>3. /\ peer[c] \notin {"new", "refused"} /\ socket_[c] = nullptr
        BY <2>1, <2>2, HeadIsWaiting
  <2>4. sessions_by_socket_[s] = nullptr
        BY <2>2 DEF RouterInv, LockInv, DescriptorsNotReused
  <2>5. /\ sessions_by_socket_' = [sessions_by_socket_ EXCEPT ![s] = c]
        /\ socket_' = [socket_ EXCEPT ![c] = s]
        BY <2>2, <2>4 DEF accept_client
  <2>6. /\ socket_ \in [Conns -> Sockets \cup {nullptr}]
        /\ sessions_by_socket_ \in [Sockets -> Conns \cup {nullptr}]
        BY DEF RouterInv, TypeOK, SessionsTypeOK
  <2>7. Seats[c] = "waiting"
        BY <2>3 DEF Seats
  <2>8. \A d \in Conns : d # c /\ socket_[d] # nullptr => socket_[d] # s
        BY <2>2, <2>6, AddressParts, RegistryAssumption DEF RouterInv, SocketsKnown
  <2>9. ASSUME NEW d \in Conns
        PROVE  Seats'[d] = IF d = c THEN "seated" ELSE Seats[d]
    <3>1. s # nullptr
          BY RegistryAssumption
    <3>2. CASE d = c
          BY <2>5, <2>6, <3>1, <3>2 DEF Seats, Registered
    <3>3. CASE d # c
          BY <2>5, <2>6, <2>8, <3>3 DEF Seats, Registered
    <3> QED BY <3>2, <3>3
  <2>10. Seats' = [Seats EXCEPT ![c] = "seated"]
    <3>1. /\ Seats' = [d \in Conns |-> Seats'[d]] /\ Seats = [d \in Conns |-> Seats[d]]
          BY DEF Seats
    <3> QED BY <2>9, <3>1
  <2>11. Unread' = Unread
        BY <1>2, <1>3, UnreadSame DEF Accept
  <2>12. Service!Admit(c)
        BY <1>1, <1>2, <1>3, <2>3, <2>7, <2>10, <2>11
           DEF Accept, Service!Admit, Service!clients
  <2> QED BY <2>12 DEF ServiceStep, Service!ServiceNext
<1>4. CASE AcceptRefused
  <2>1. backlog # <<>>
        BY <1>4 DEF AcceptRefused, RouterInv, TypeOK, ListenerTypeOK
  <2>2. PICK c \in Conns : c = Head(backlog)
        BY <2>1, HeadIsWaiting
  <2>3. /\ peer[c] \notin {"new", "refused"} /\ socket_[c] = nullptr
        /\ Held[c] = <<>>
        BY <2>1, <2>2, HeadIsWaiting
  <2>4. /\ peer' = [peer EXCEPT ![c] = "refused"]
        /\ inbox' = [inbox EXCEPT ![c] = <<>>]
        /\ UNCHANGED <<socket_, sessions_by_socket_>>
        BY <1>4, <2>2 DEF AcceptRefused, registry, maps, objects
  <2>5. Seats' = Seats /\ Seats[c] = "waiting"
        BY <2>3, <2>4, SeatsSame DEF Seats
  <2>6. Unread' = [Unread EXCEPT ![c] = <<>>]
    <3>1. <<>> \o <<>> = <<>>
          BY EmptySeq, ConcatEmptySeq
    <3>2. inbox \in [Conns -> Seq(Values)]
          BY DEF RouterInv, TypeOK, KernelTypeOK
    <3>3. Unread' = [d \in Conns |-> Held[d] \o inbox'[d]]
          BY <1>2 DEF Unread
    <3>4. Unread = [d \in Conns |-> Held[d] \o inbox[d]]
          BY DEF Unread
    <3>5. Held[c] \o inbox'[c] = <<>>
          BY <2>3, <2>4, <3>1, <3>2
    <3>6. \A d \in Conns : d # c => inbox'[d] = inbox[d]
          BY <2>4, <3>2
    <3> QED BY <3>3, <3>4, <3>5, <3>6
  <2>7. Service!Refuse(c)
        BY <1>1, <1>2, <2>3, <2>4, <2>5, <2>6 DEF Service!Refuse
  <2> QED BY <2>7 DEF ServiceStep, Service!ServiceNext
<1>5. CASE ~ Accept /\ ~ AcceptRefused
  <2>1. UNCHANGED <<registry, objects, kernel>>
        BY <1>5 DEF Listener, ResetBegin, ResetEnd, Select, SelectError,
                    AcceptError, PushReady
  <2>2. UNCHANGED <<peer, socket_, sessions_by_socket_, inbox>>
        BY <2>1 DEF registry, maps, objects, kernel
  <2>3. Unread' = Unread
        BY <1>2, <2>2, UnreadSame
  <2> QED BY <1>1, <1>2, <2>2, <2>3, Unseen DEF ServiceStep
<1> QED BY <1>3, <1>4, <1>5

\* A worker that removes a session removes the one it has locked, unless
\* somebody else did before.
LEMMA RemovalImplements ==
    ASSUME RouterInv, [Next]_vars, NEW t \in Workers,
           \/ t \in Readers /\ Reader(t) /\ ReadRemove(t)
           \/ t \in Writers /\ Writer(t) /\ WriteRemove(t)
    PROVE  ServiceStep
<1>1. /\ pc[t] = "remove" /\ sock[t] \in Sockets /\ removeSession(sock[t])
      /\ Return(t) /\ UNCHANGED <<kernel, queues>>
      BY RemovalIsOwn DEF RouterInv, ReadRemove, WriteRemove
<1>2. PICK c \in Conns : /\ c = sess[t] /\ fd_table[sock[t]] = c
                         /\ socket_[c] = sock[t] /\ c # nullptr
  <2>1. sess[t] \in Conns /\ fd_table[sock[t]] = sess[t]
        BY <1>1 DEF RouterInv, TypeOK, WorkersTypeOK, LockInv, DescriptorsNotReused
  <2>2. sess[t] # nullptr
        BY <2>1, RegistryAssumption
  <2> QED BY <1>1, <2>1, <2>2 DEF RouterInv, LockInv, DescriptorsNotReused
<1>3. \A u \in Workers : u # t => SameLocals(u)
      BY ReaderStep, WriterStep DEF RouterInv
<1>4. pc'[t] = "pop"
      BY <1>1 DEF Return, RouterInv, TypeOK, WorkersTypeOK
<1>5. InTransit' = InTransit
  <2>1. t \notin Carriers /\ t \notin Carriers'
        BY <1>1, <1>4 DEF Carriers
  <2>2. UNCHANGED ready_write_sockets_queue_
        BY <1>1 DEF queues
  <2> QED BY <1>3, <2>1, <2>2, TransitKept
<1>6. Unread' = Unread /\ Mail' = Mail /\ peer' = peer
  <2>1. \A d \in Conns : Held'[d] = Held[d]
        BY <1>1, <1>3, <1>4, HeldStep DEF Holds
  <2>2. UNCHANGED <<inbox, outbox, peer>>
        BY <1>1 DEF kernel
  <2> QED BY <2>1, <2>2, UnreadSame, MailSame
<1>7. /\ sessions_by_socket_' = [sessions_by_socket_ EXCEPT ![sock[t]] = nullptr]
      /\ socket_' = socket_ /\ id_' = id_
      BY <1>1 DEF removeSession
<1>8. /\ socket_ \in [Conns -> Sockets \cup {nullptr}]
      /\ sessions_by_socket_ \in [Sockets -> Conns \cup {nullptr}]
      BY DEF RouterInv, TypeOK, SessionsTypeOK
<1>9. sessions_by_socket_[sock[t]] \in {c, nullptr}
      BY <1>1, <1>2 DEF RouterInv, LockInv, DescriptorsNotReused
<1>10. CASE sessions_by_socket_[sock[t]] = nullptr
  <2>1. sessions_by_socket_' = sessions_by_socket_
        BY <1>1, <1>7, <1>8, <1>10
  <2>2. sessions_by_id_' = sessions_by_id_
        BY <1>1, <1>10 DEF removeSession
  <2>3. outbox' = outbox
        BY <1>1 DEF kernel
  <2> QED BY <1>5, <1>6, <1>7, <2>1, <2>2, <2>3, Unseen DEF ServiceStep
<1>11. CASE sessions_by_socket_[sock[t]] = c
  <2>1. \A d \in Conns : d # c => socket_[d] # sock[t]
        BY <1>1, <1>2, AddressParts, RegistryAssumption DEF RouterInv, SocketsKnown
  <2>2. ASSUME NEW d \in Conns
        PROVE  Seats'[d] = IF d = c THEN "left" ELSE Seats[d]
    <3>1. CASE d = c
          BY <1>1, <1>2, <1>7, <1>8, <3>1, RegistryAssumption DEF Seats, Registered
    <3>2. CASE d # c
          BY <1>1, <1>7, <1>8, <2>1, <3>2 DEF Seats, Registered
    <3> QED BY <3>1, <3>2
  <2>3. Seats' = [Seats EXCEPT ![c] = "left"]
    <3>1. /\ Seats' = [d \in Conns |-> Seats'[d]] /\ Seats = [d \in Conns |-> Seats[d]]
          BY DEF Seats
    <3> QED BY <2>2, <3>1
  <2>4. Seats[c] = "seated"
        BY <1>1, <1>2, <1>11, RegistryAssumption DEF Seats, Registered
  <2>5. Service!Ended(c) \/ c \in SlowPeers
        BY <1>1, <1>2
           DEF RouterInv, ServiceInv, RemovalsJustified, Ended, Service!Ended
  <2>6. sessions_by_id_' = IF id_[c] = NONE THEN sessions_by_id_
                           ELSE [sessions_by_id_ EXCEPT ![id_[c]] = nullptr]
        BY <1>1, <1>2, <1>11 DEF removeSession
  <2>7. Service!Leave(c)
        BY <1>5, <1>6, <1>7, <2>3, <2>4, <2>5, <2>6
           DEF Service!Leave, Service!clients, NONE, Service!NONE
  <2> QED BY <2>7 DEF ServiceStep, Service!ServiceNext
<1> QED BY <1>9, <1>10, <1>11

-----------------------------------------------------------------------------
\* The read workers.  What a reader past its second lookup knows:
LEMMA OwnSession ==
    ASSUME RouterInv, NEW r \in Readers,
           pc[r] \in {"read", "add", "route", "forward", "remove"}
    PROVE  /\ r \in Workers /\ sess[r] \in Conns /\ sock[r] \in Sockets
           /\ Behind(r) = sess[r] /\ sess[r] # nullptr
           /\ socket_[sess[r]] = sock[r]
           /\ sessions_by_socket_[sock[r]] = sess[r]
           /\ Seats[sess[r]] = "seated"
           /\ \A q \in Readers : q # r => ~ Holds(q, sess[r])
           /\ pc[r] \notin {"add", "route"} => Held[sess[r]] = <<>>
           /\ pc[r] \in {"add", "route"} => Held[sess[r]] = msg[r]
<1>1. r \in Workers /\ sess[r] \in Conns /\ sock[r] \in Sockets
      BY DEF Workers, RouterInv, TypeOK, WorkersTypeOK
<1>2. fd_table[sock[r]] = sess[r] /\ sess[r] # nullptr /\ sock[r] # nullptr
      BY <1>1, RegistryAssumption DEF RouterInv, LockInv, DescriptorsNotReused
<1>3. socket_[sess[r]] = sock[r]
      BY <1>1, <1>2 DEF RouterInv, LockInv, DescriptorsNotReused
<1>4. sessions_by_socket_[sock[r]] = sess[r] /\ mutex_[sess[r]] = r
      BY DEF RouterInv, LockInv, ReaderSessionStable
<1>5. Seats[sess[r]] = "seated"
      BY <1>1, <1>2, <1>3, <1>4 DEF Seats, Registered
<1>6. \A q \in Readers : q # r => ~ Holds(q, sess[r])
      BY <1>4 DEF RouterInv, LockInv, ReaderSessionStable, Holds
<1>7. HeldIsUnique
      BY HeldFacts DEF RouterInv
<1>8. pc[r] \notin {"add", "route"} => Held[sess[r]] = <<>>
      BY <1>1, <1>6, <1>7 DEF HeldIsUnique, Holds
<1>9. pc[r] \in {"add", "route"} => Held[sess[r]] = msg[r]
      BY <1>1, <1>7 DEF HeldIsUnique, Holds
<1> QED BY <1>1, <1>2, <1>3, <1>4, <1>5, <1>6, <1>8, <1>9 DEF Behind

\* The steps of a reader between its messages.
LEMMA ReaderUnseen ==
    ASSUME RouterInv, [Next]_vars, TypeOK', NEW r \in Readers, Reader(r),
           \/ ReadPop(r) \/ Find(r) \/ ReadLock(r) \/ Refind(r) \/ ReadNothing(r)
           \/ Forward(r)
    PROVE  ServiceStep
<1>1. r \in Workers /\ r \notin Writers
      /\ pc \in [Workers -> ReaderSteps \cup WriterSteps]
      BY RegistryAssumption DEF Workers, RouterInv, TypeOK, WorkersTypeOK
<1>2. \A u \in Workers : u # r => SameLocals(u)
      BY ReaderStep DEF RouterInv
<1>3. pc[r] \notin {"add", "route"} /\ pc'[r] \notin {"add", "route", "forward"}
      BY <1>1 DEF ReadPop, Find, ReadLock, LockSession, Refind, ReadNothing, Forward,
                  Goto, Return
<1>4. UNCHANGED <<peer, socket_, sessions_by_socket_, id_, sessions_by_id_, inbox,
                  outbox>>
      BY DEF ReadPop, Find, ReadLock, LockSession, Refind, ReadNothing, Forward,
             registry, maps, objects, kernel
<1>5. Unread' = Unread
  <2>1. \A d \in Conns : Held'[d] = Held[d]
        BY <1>1, <1>2, <1>3, HeldStep DEF Holds
  <2> QED BY <1>4, <2>1, UnreadSame
<1>6. InTransit' = InTransit
  <2>1. CASE Forward(r)
        BY <2>1, TransitForward
  <2>2. CASE ~ Forward(r)
    <3>1. pc[r] # "forward" /\ UNCHANGED ready_write_sockets_queue_
          BY <2>2 DEF ReadPop, Find, ReadLock, LockSession, Refind, ReadNothing, queues
    <3>2. r \notin Carriers /\ r \notin Carriers'
          BY <1>1, <1>3, <3>1 DEF Carriers
    <3> QED BY <1>1, <1>2, <3>1, <3>2, TransitKept
  <2> QED BY <2>1, <2>2
<1> QED BY <1>4, <1>5, <1>6, Unseen DEF ServiceStep

\* What a read takes from the buffer goes to the reader: it stays unread.
LEMMA ReadFullImplements ==
    ASSUME RouterInv, [Next]_vars, TypeOK', LockInv', NEW r \in Readers, Reader(r),
           ReadFull(r)
    PROVE  ServiceStep
<1>1. pc[r] = "read"
      BY DEF ReadFull
<1>2. PICK c \in Conns : /\ c = sess[r] /\ c = Behind(r) /\ r \in Workers
                         /\ c # nullptr /\ Held[c] = <<>>
      BY <1>1, OwnSession
<1>3. PICK n \in 0 .. Len(inbox[c]) : n = Wanted(r)
  <2>1. Received(r) = inbox[c]
        BY <1>2 DEF Received
  <2>2. Wanted(r) \in {1, 3} /\ Len(inbox[c]) >= Wanted(r)
        BY <2>1 DEF ReadFull, Wanted, ID_MESSAGE_SIZE, DATA_MESSAGE_SIZE
  <2>3. Len(inbox[c]) \in Nat
        BY LenProperties DEF RouterInv, TypeOK, KernelTypeOK
  <2> QED BY <2>2, <2>3
<1>4. /\ msg'[r] = SubSeq(inbox[c], 1, n)
      /\ inbox' = [d \in Conns |-> IF d = c THEN SubSeq(inbox[d], n + 1, Len(inbox[d]))
                                   ELSE inbox[d]]
      /\ pc'[r] \in {"add", "route"} /\ sess'[r] = c
      BY <1>2, <1>3
         DEF ReadFull, Consume, Received, Goto, RouterInv, TypeOK, WorkersTypeOK
<1>5. UNCHANGED <<peer, socket_, sessions_by_socket_, id_, sessions_by_id_, outbox,
                  ready_write_sockets_queue_>>
      BY DEF ReadFull, registry, maps, objects, queues
<1>6. \A u \in Workers : u # r => SameLocals(u)
      BY ReaderStep DEF RouterInv
<1>7. Held'[c] = msg'[r]
      BY <1>2, <1>4, HeldFactsNext DEF HeldIsUnique, Holds
<1>8. \A d \in Conns : d # c => Held'[d] = Held[d]
      BY <1>1, <1>2, <1>4, <1>6, HeldStep DEF Holds
<1>9. Held'[c] \o inbox'[c] = Held[c] \o inbox[c]
  <2>1. inbox[c] \in Seq(Values)
        BY DEF RouterInv, TypeOK, KernelTypeOK
  <2>2. SubSeq(inbox[c], 1, n) \o SubSeq(inbox[c], n + 1, Len(inbox[c])) = inbox[c]
        BY <2>1, FrontAndRest
  <2>3. inbox'[c] = SubSeq(inbox[c], n + 1, Len(inbox[c]))
        BY <1>4
  <2>4. <<>> \o inbox[c] = inbox[c]
        BY <2>1, ConcatEmptySeq
  <2> QED BY <1>2, <1>4, <1>7, <2>2, <2>3, <2>4
<1>10. Unread' = Unread
  <2>1. \A d \in Conns : Held'[d] \o inbox'[d] = Held[d] \o inbox[d]
        BY <1>4, <1>8, <1>9
  <2>2. /\ Unread' = [d \in Conns |-> Held'[d] \o inbox'[d]]
        /\ Unread = [d \in Conns |-> Held[d] \o inbox[d]]
        BY DEF Unread
  <2> QED BY <2>1, <2>2
<1>11. InTransit' = InTransit
  <2>1. r \notin Carriers /\ r \notin Carriers'
        BY <1>1, <1>4, RegistryAssumption DEF Carriers
  <2> QED BY <1>2, <1>5, <1>6, <2>1, TransitKept
<1> QED BY <1>5, <1>10, <1>11, Unseen DEF ServiceStep

\* A read that ends before the message does takes all there is, and drops it.
LEMMA ReadShortImplements ==
    ASSUME RouterInv, [Next]_vars, NEW r \in Readers, Reader(r),
           ReadPartial(r) \/ ReadError(r)
    PROVE  ServiceStep
<1>1. pc[r] = "read"
      BY DEF ReadPartial, ReadError
<1>2. PICK c \in Conns : /\ c = sess[r] /\ c = Behind(r) /\ r \in Workers
                         /\ c # nullptr /\ Held[c] = <<>> /\ Seats[c] = "seated"
      BY <1>1, OwnSession
<1>3. Received(r) = inbox[c] /\ inbox[c] \in Seq(Values)
      BY <1>2 DEF Received, RouterInv, TypeOK, KernelTypeOK
<1>4. Len(inbox[c]) \in Nat /\ Len(inbox[c]) < Wanted(r)
  <2>1. Len(inbox[c]) \in Nat /\ Wanted(r) \in Nat
        BY <1>3, LenProperties DEF Wanted, ID_MESSAGE_SIZE, DATA_MESSAGE_SIZE
  <2> QED BY <1>3, <2>1 DEF ReadPartial, ReadError
<1>5. inbox' = [d \in Conns |->
                   IF d = c
                   THEN SubSeq(inbox[d], Len(inbox[c]) + 1, Len(inbox[d]))
                   ELSE inbox[d]]
      BY <1>2, <1>3 DEF ReadPartial, ReadError, Consume
<1>6. inbox'[c] = <<>>
  <2>1. SubSeq(inbox[c], Len(inbox[c]) + 1, Len(inbox[c])) = <<>>
        BY <1>4, SubSeqEmpty
  <2> QED BY <1>5, <2>1
<1>7. /\ UNCHANGED <<peer, socket_, sessions_by_socket_, id_, sessions_by_id_, outbox,
                     ready_write_sockets_queue_>>
      /\ pc'[r] \in {"read", "remove"}
      BY <1>1, <1>2 DEF ReadPartial, ReadError, registry, maps, objects, queues,
                        workers, Goto, RouterInv, TypeOK, WorkersTypeOK
<1>8. \A u \in Workers : u # r => SameLocals(u)
      BY ReaderStep DEF RouterInv
<1>9. \A d \in Conns : Held'[d] = Held[d]
      BY <1>1, <1>2, <1>7, <1>8, HeldStep DEF Holds
<1>10. InTransit' = InTransit
  <2>1. r \notin Carriers /\ r \notin Carriers'
        BY <1>1, <1>7, RegistryAssumption DEF Carriers
  <2> QED BY <1>2, <1>7, <1>8, <2>1, TransitKept
<1>11. /\ Unread = [d \in Conns |-> Held[d] \o inbox[d]]
       /\ Unread' = [d \in Conns |-> Held[d] \o inbox'[d]]
       /\ Unread[c] = inbox[c]
  <2>1. <<>> \o inbox[c] = inbox[c]
        BY <1>3, ConcatEmptySeq
  <2> QED BY <1>2, <1>9, <2>1 DEF Unread
<1>12. Unread' = [Unread EXCEPT ![c] = <<>>]
  <2>1. <<>> \o <<>> = <<>>
        BY EmptySeq, ConcatEmptySeq
  <2>2. Held[c] \o inbox'[c] = <<>>
        BY <1>2, <1>6, <2>1
  <2>3. \A d \in Conns : d # c => inbox'[d] = inbox[d]
        BY <1>5
  <2> QED BY <1>11, <2>2, <2>3
<1>13. CASE inbox[c] = <<>>
  <2>1. Unread' = Unread
        BY <1>11, <1>12, <1>13
  <2> QED BY <1>7, <1>10, <2>1, Unseen DEF ServiceStep
<1>14. CASE inbox[c] # <<>>
  <2>1. Len(inbox[c]) # 0
        BY <1>3, <1>14, EmptySeq
  <2>2. id_[c] # NONE /\ Len(inbox[c]) \in 1 .. 3 - 1
    <3>1. PICK n \in Nat : n = Len(inbox[c]) /\ n # 0 /\ n < Wanted(r)
          BY <1>4, <2>1
    <3>2. \/ id_[c] = NONE /\ Wanted(r) = 1
          \/ id_[c] # NONE /\ Wanted(r) = 3
          BY <1>2 DEF Wanted, ID_MESSAGE_SIZE, DATA_MESSAGE_SIZE
    <3>3. ~ n < 1 /\ (n < 3 => n \in 1 .. 3 - 1)
      <4>1. \A k \in Nat : k # 0 => ~ k < 1 /\ (k < 3 => k \in 1 .. 3 - 1)
            OBVIOUS
      <4> QED BY <3>1, <4>1, Zenon
    <3>4. Wanted(r) = 3
          BY <3>1, <3>2, <3>3
    <3>5. id_[c] # NONE
          BY <3>1, <3>2, <3>3
    <3> QED BY <3>1, <3>3, <3>4, <3>5
  <2>3. Service!Discard(c)
        BY <1>2, <1>7, <1>10, <1>11, <1>12, <2>2, SeatsSame, MailSame
           DEF Service!Discard, Service!service, Service!DATA_MESSAGE_SIZE,
               Service!NONE, NONE
  <2> QED BY <2>3 DEF ServiceStep, Service!ServiceNext
<1> QED BY <1>13, <1>14

\* handle_handshake() acts upon the id message.
LEMMA AddNodeImplements ==
    ASSUME RouterInv, [Next]_vars, TypeOK', LockInv', NEW r \in Readers, Reader(r),
           AddNode(r)
    PROVE  ServiceStep
<1>1. pc[r] = "add"
      BY DEF AddNode
<1>2. PICK c \in Conns : /\ c = sess[r] /\ r \in Workers /\ c # nullptr
                         /\ sessions_by_socket_[sock[r]] = c
                         /\ Held[c] = msg[r] /\ Seats[c] = "seated"
      BY <1>1, OwnSession
<1>3. \A q \in Readers : q # r => ~ Holds(q, c)
      BY <1>1, <1>2, OwnSession
<1>4. /\ msg[r] \in Seq(Values) /\ Len(msg[r]) = 1 /\ inbox[c] \in Seq(Values)
      BY <1>1, <1>2
         DEF RouterInv, TypeOK, WorkersTypeOK, KernelTypeOK, ID_MESSAGE_SIZE
<1>5. /\ UNCHANGED <<peer, socket_, sessions_by_socket_, outbox, inbox,
                     ready_write_sockets_queue_>>
      /\ pc'[r] = "read"
      BY <1>2 DEF AddNode, add_node, kernel, queues, Goto, RouterInv, TypeOK,
                  WorkersTypeOK
<1>6. \A u \in Workers : u # r => SameLocals(u)
      BY ReaderStep DEF RouterInv
<1>7. Held'[c] = <<>>
  <2>1. \A q \in Readers : ~ Holds(q, c)'
        BY <1>3, <1>5, <1>6 DEF Holds, SameLocals, Workers
  <2> QED BY <2>1, HeldFactsNext DEF HeldIsUnique
<1>8. \A d \in Conns : d # c => Held'[d] = Held[d]
      BY <1>2, <1>5, <1>6, HeldStep DEF Holds
<1>9. /\ Unread[c] = msg[r] \o inbox[c]
      /\ Unread[c] \in Seq(Values)
      /\ Head(Unread[c]) = msg[r][1]
      /\ Tail(Unread[c]) = inbox[c]
      /\ Len(Unread[c]) >= 1
  <2>1. Unread[c] = msg[r] \o inbox[c]
        BY <1>2 DEF Unread
  <2>2. /\ msg[r] \o inbox[c] \in Seq(Values) /\ Len(msg[r] \o inbox[c]) >= 1
        /\ Head(msg[r] \o inbox[c]) = msg[r][1]
        /\ Tail(msg[r] \o inbox[c]) = inbox[c]
        BY <1>4, FirstAndRest
  <2> QED BY <2>1, <2>2
<1>10. Unread' = [Unread EXCEPT ![c] = Tail(Unread[c])]
  <2>1. /\ Unread = [d \in Conns |-> Held[d] \o inbox[d]]
        /\ Unread' = [d \in Conns |-> Held'[d] \o inbox[d]]
        BY <1>5 DEF Unread
  <2>2. Held'[c] \o inbox[c] = Tail(Unread[c])
        BY <1>4, <1>7, <1>9, ConcatEmptySeq
  <2> QED BY <1>8, <2>1, <2>2
<1>11. InTransit' = InTransit
  <2>1. r \notin Carriers /\ r \notin Carriers'
        BY <1>1, <1>5, RegistryAssumption DEF Carriers
  <2> QED BY <1>2, <1>5, <1>6, <2>1, TransitKept
<1>12. id_[c] = NONE
      BY <1>1, <1>2, AddressParts DEF RouterInv, AddsOnce
<1>13. IF msg[r][1] >= MAX_CLIENTS_COUNT
       THEN UNCHANGED <<sessions_by_id_, id_>>
       ELSE /\ id_' = [id_ EXCEPT ![c] = msg[r][1]]
            /\ sessions_by_id_' = [sessions_by_id_ EXCEPT ![msg[r][1]] = c]
      BY <1>2 DEF AddNode, add_node, extract_src_id
<1>14. Service!Register(c)
  <2>1. IF Head(Unread[c]) >= MAX_CLIENTS_COUNT
        THEN UNCHANGED <<id_, sessions_by_id_>>
        ELSE /\ id_' = [id_ EXCEPT ![c] = Head(Unread[c])]
             /\ sessions_by_id_' = Service!Claim(Head(Unread[c]), c)
        BY <1>9, <1>13 DEF Service!Claim
  <2>2. Seats' = Seats /\ Mail' = Mail
        BY <1>5, SeatsSame, MailSame
  <2> QED BY <1>2, <1>5, <1>9, <1>10, <1>11, <1>12, <2>1, <2>2
          DEF Service!Register, Service!NONE, NONE, Service!ID_MESSAGE_SIZE
<1> QED BY <1>14 DEF ServiceStep, Service!ServiceNext

\* process_message() acts upon a data message: the addressee is looked up, and
\* from here on the message is in transit, or is dropped.
LEMMA RouteImplements ==
    ASSUME RouterInv, [Next]_vars, TypeOK', LockInv', NEW r \in Readers, Reader(r),
           Route(r)
    PROVE  ServiceStep
<1>1. pc[r] = "route"
      BY DEF Route
<1>2. PICK c \in Conns : /\ c = sess[r] /\ r \in Workers /\ c # nullptr
                         /\ Held[c] = msg[r] /\ Seats[c] = "seated"
      BY <1>1, OwnSession
<1>3. \A q \in Readers : q # r => ~ Holds(q, c)
      BY <1>1, <1>2, OwnSession
<1>4. PICK m \in Seq(Values) : m = msg[r] /\ Len(m) = 3
      BY <1>1, <1>2 DEF RouterInv, TypeOK, WorkersTypeOK, DATA_MESSAGE_SIZE
<1>5. PICK b \in Seq(Values) : b = inbox[c]
      BY DEF RouterInv, TypeOK, KernelTypeOK
<1>6. PICK d : d = sessions_by_id_[m[3]]
      OBVIOUS
<1>7. /\ UNCHANGED <<peer, socket_, sessions_by_socket_, id_, sessions_by_id_, outbox,
                     inbox, ready_write_sockets_queue_>>
      /\ IF d = nullptr THEN pc'[r] = "pop"
         ELSE pc'[r] = "forward" /\ dst'[r] = d /\ msg'[r] = m
      BY <1>2, <1>4, <1>6
         DEF Route, Return, Goto, find_session_by_id, extract_dst_id,
             DATA_MESSAGE_SIZE, registry, maps, kernel, queues, RouterInv, TypeOK,
             WorkersTypeOK
<1>8. \A u \in Workers : u # r => SameLocals(u)
      BY ReaderStep DEF RouterInv
<1>9. pc'[r] \notin {"add", "route"}
      BY <1>7
<1>10. Held'[c] = <<>>
  <2>1. \A q \in Readers : ~ Holds(q, c)'
        BY <1>3, <1>8, <1>9 DEF Holds, SameLocals, Workers
  <2> QED BY <2>1, HeldFactsNext DEF HeldIsUnique
<1>11. \A e \in Conns : e # c => Held'[e] = Held[e]
      BY <1>2, <1>8, <1>9, HeldStep DEF Holds
<1>12. /\ Unread[c] = m \o b
       /\ SubSeq(Unread[c], 1, 3) = m
       /\ SubSeq(Unread[c], 3 + 1, Len(Unread[c])) = b
       /\ Len(Unread[c]) >= 3
  <2>1. Unread[c] = m \o b
        BY <1>2, <1>4, <1>5 DEF Unread
  <2>2. SubSeq(m \o b, 1, 3) = m /\ SubSeq(m \o b, 3 + 1, Len(m \o b)) = b
        BY <1>4, SubSeqOfConcat
  <2>3. Len(m \o b) >= 3
    <3>1. Len(m \o b) = Len(m) + Len(b) /\ Len(b) \in Nat
          BY ConcatProperties, LenProperties
    <3> QED BY <1>4, <3>1
  <2> QED BY <2>1, <2>2, <2>3, Zenon
<1>13. Unread' = [Unread EXCEPT ![c] = SubSeq(Unread[c], 3 + 1, Len(Unread[c]))]
  <2>1. /\ Unread = [e \in Conns |-> Held[e] \o inbox[e]]
        /\ Unread' = [e \in Conns |-> Held'[e] \o inbox[e]]
        BY <1>7 DEF Unread
  <2>2. Held'[c] \o inbox[c] = b
        BY <1>5, <1>10, ConcatEmptySeq
  <2> QED BY <1>11, <1>12, <2>1, <2>2
<1>14. InTransit' = IF d = nullptr THEN InTransit
                    ELSE Service!BagAdd(InTransit, [to |-> d, msg |-> m])
  <2>1. r \notin Carriers
        BY <1>1, RegistryAssumption DEF Carriers
  <2>2. CASE d = nullptr
    <3>1. r \notin Carriers'
          BY <1>7, <2>2, RegistryAssumption DEF Carriers
    <3> QED BY <1>2, <1>7, <1>8, <2>1, <2>2, <3>1, TransitKept
  <2>3. CASE d # nullptr
    <3>1. r \in Carriers' /\ Carried(r)' = [to |-> d, msg |-> m]
          BY <1>7, <2>3 DEF Carriers, Carried
    <3> QED BY <1>2, <1>7, <1>8, <2>1, <2>3, <3>1, TransitAdds
  <2> QED BY <2>2, <2>3
<1>15. id_[c] # NONE
      BY <1>1, <1>2 DEF RouterInv, ServiceInv, RoutesNamed
<1>16. Service!Take(c)
  <2>1. Seats' = Seats /\ Mail' = Mail
        BY <1>7, SeatsSame, MailSame
  <2> QED BY <1>2, <1>6, <1>7, <1>12, <1>13, <1>14, <1>15, <2>1
          DEF Service!Take, Service!NONE, NONE, Service!DATA_MESSAGE_SIZE
<1> QED BY <1>16 DEF ServiceStep, Service!ServiceNext

\* Every step of a reader.
LEMMA ReaderImplements ==
    ASSUME RouterInv, [Next]_vars, TypeOK', LockInv', NEW r \in Readers, Reader(r)
    PROVE  ServiceStep
<1>1. CASE \/ ReadPop(r) \/ Find(r) \/ ReadLock(r) \/ Refind(r) \/ ReadNothing(r)
           \/ Forward(r)
      BY <1>1, ReaderUnseen
<1>2. CASE ReadFull(r)
      BY <1>2, ReadFullImplements
<1>3. CASE ReadPartial(r) \/ ReadError(r)
      BY <1>3, ReadShortImplements
<1>4. CASE AddNode(r)
      BY <1>4, AddNodeImplements
<1>5. CASE Route(r)
      BY <1>5, RouteImplements
<1>6. CASE ReadRemove(r)
      BY <1>6, RemovalImplements DEF Workers
<1> QED BY <1>1, <1>2, <1>3, <1>4, <1>5, <1>6 DEF Reader

-----------------------------------------------------------------------------
\* The write workers.  What a writer with a message knows:
LEMMA OwnTask ==
    ASSUME RouterInv, NEW w \in Writers, w \in Carriers
    PROVE  /\ w \in Workers /\ sock[w] \in Sockets /\ Behind(w) \in Conns
           /\ Behind(w) # nullptr /\ socket_[Behind(w)] = sock[w]
           /\ msg[w] \in Seq(Values) /\ Len(msg[w]) = 3
           /\ Carried(w) = [to |-> Behind(w), msg |-> msg[w]]
<1>1. w \in Workers /\ w \notin Readers /\ pc[w] \in {"find", "lock", "send"}
      BY RegistryAssumption DEF Carriers, Workers
<1>2. /\ sock[w] \in Sockets /\ msg[w] \in Seq(Values) /\ Len(msg[w]) = 3
      BY <1>1 DEF RouterInv, TypeOK, WorkersTypeOK, DATA_MESSAGE_SIZE
<1>3. fd_table[sock[w]] # nullptr
      BY <1>1, AddressParts DEF RouterInv, WritersAddressed, Addressed
<1>4. fd_table[sock[w]] \in Conns /\ socket_[fd_table[sock[w]]] = sock[w]
      BY <1>2, <1>3 DEF RouterInv, TypeOK, KernelTypeOK, LockInv, DescriptorsNotReused
<1> QED BY <1>1, <1>2, <1>3, <1>4 DEF Behind, Carried

\* The steps of a writer that keep the message where it is, or take it from
\* the queue.
LEMMA WriterUnseen ==
    ASSUME RouterInv, [Next]_vars, TypeOK', NEW w \in Writers, Writer(w),
           WritePop(w) \/ WriteLock(w) \/ (Find(w) /\ pc'[w] = "lock")
    PROVE  ServiceStep
<1>1. w \in Workers /\ w \notin Readers
      /\ pc \in [Workers -> ReaderSteps \cup WriterSteps]
      BY RegistryAssumption DEF Workers, RouterInv, TypeOK, WorkersTypeOK
<1>2. \A u \in Workers : u # w => SameLocals(u)
      BY WriterStep DEF RouterInv
<1>3. UNCHANGED <<peer, socket_, sessions_by_socket_, id_, sessions_by_id_, inbox,
                  outbox>>
      BY DEF WritePop, WriteLock, LockSession, Find, registry, maps, objects, kernel
<1>4. Unread' = Unread
  <2>1. \A c \in Conns : Held'[c] = Held[c]
        BY <1>1, <1>2, HeldStep
  <2> QED BY <1>3, <2>1, UnreadSame
<1>5. InTransit' = InTransit
  <2>1. CASE WritePop(w)
        BY <2>1, TransitPop
  <2>2. CASE WriteLock(w) \/ (Find(w) /\ pc'[w] = "lock")
    <3>1. /\ pc[w] \in {"find", "lock"} /\ pc'[w] \in {"lock", "send"}
          /\ UNCHANGED <<sock, msg, fd_table, ready_write_sockets_queue_>>
          BY <1>1, <2>2 DEF WriteLock, LockSession, Find, Goto, Return, kernel, queues
    <3>2. w \in Carriers /\ w \in Carriers' /\ Carried(w)' = Carried(w)
          BY <1>1, <3>1 DEF Carriers, Carried
    <3> QED BY <1>1, <1>2, <3>1, <3>2, TransitKept
  <2> QED BY <2>1, <2>2
<1> QED BY <1>3, <1>4, <1>5, Unseen DEF ServiceStep

\* A writer lets go of its message with n chunks of it handed to the kernel.
LEMMA HandImplements ==
    ASSUME RouterInv, [Next]_vars, NEW w \in Writers, Writer(w),
           w \in Carriers, w \notin Carriers',
           UNCHANGED <<peer, socket_, sessions_by_socket_, id_, sessions_by_id_,
                       inbox, ready_write_sockets_queue_>>,
           NEW n \in 0 .. 3,
           \/ n = 0 /\ outbox' = outbox
           \/ outbox' = [outbox EXCEPT ![Behind(w)] = Append(@, SubSeq(msg[w], 1, n))]
    PROVE  /\ Carried(w) \in Service!BagToSet(InTransit)
           /\ Service!Hand(Carried(w), n)
<1>1. PICK c \in Conns, m \in Seq(Values) :
          /\ c = Behind(w) /\ m = msg[w] /\ Len(m) = 3
          /\ Carried(w) = [to |-> c, msg |-> m]
      BY OwnTask
<1>2. w \in Workers /\ w \notin Readers
      BY RegistryAssumption DEF Workers
<1>3. \A u \in Workers : u # w => SameLocals(u)
      BY WriterStep DEF RouterInv
<1>4. /\ Carried(w) \in DOMAIN InTransit
      /\ InTransit' = Service!BagRemove(InTransit, Carried(w))
      BY <1>2, <1>3, TransitRemoves
<1>5. Unread' = Unread
  <2>1. \A d \in Conns : Held'[d] = Held[d]
        BY <1>2, <1>3, HeldStep
  <2> QED BY <2>1, UnreadSame
<1>6. PICK e \in Seq(Values) : e = SubSeq(m, 1, n)
  <2>1. Len(m) \in Nat /\ n \in Int /\ n \in 0 .. Len(m)
        BY <1>1
  <2> QED BY <2>1, FrontAndRest
<1>7. outbox \in [Conns -> Seq(Seq(Values))]
      BY DEF RouterInv, TypeOK, KernelTypeOK
<1>8. Mail' = [Mail EXCEPT ![c] = @ \o e]
  <2>1. /\ Mail = [d \in Conns |-> FlattenSeq(outbox[d])]
        /\ Mail' = [d \in Conns |-> FlattenSeq(outbox'[d])]
        BY DEF Mail
  <2>2. /\ FlattenSeq(outbox[c]) \in Seq(Values)
        /\ FlattenSeq(Append(outbox[c], e)) = FlattenSeq(outbox[c]) \o e
        BY <1>7, FlattenAppend
  <2>3. CASE n = 0 /\ outbox' = outbox
    <3>1. e = <<>>
          BY <1>6, <2>3, SubSeqEmpty
    <3>2. FlattenSeq(outbox[c]) \o e = FlattenSeq(outbox[c])
          BY <2>2, <3>1, ConcatEmptySeq
    <3> QED BY <2>1, <2>3, <3>2
  <2>4. CASE outbox' = [outbox EXCEPT ![c] = Append(@, e)]
    <3>1. outbox'[c] = Append(outbox[c], e)
          BY <1>7, <2>4
    <3>2. \A d \in Conns : d # c => outbox'[d] = outbox[d]
          BY <1>7, <2>4
    <3> QED BY <2>1, <2>2, <3>1, <3>2
  <2> QED BY <1>1, <1>6, <2>3, <2>4
<1>9. Seats' = Seats
      BY SeatsSame
<1>10. Service!Hand(Carried(w), n)
      BY <1>1, <1>4, <1>5, <1>6, <1>8, <1>9 DEF Service!Hand
<1> QED BY <1>4, <1>10 DEF Service!BagToSet

\* send() takes the message, a part of it, or nothing; or the session is gone.
LEMMA SendImplements ==
    ASSUME RouterInv, [Next]_vars, NEW w \in Writers, Writer(w),
           \/ SendOk(w) \/ SendError(w) \/ SendPartial(w)
           \/ Find(w) /\ pc'[w] # "lock"
    PROVE  ServiceStep
<1>1. w \in Workers /\ pc \in [Workers -> ReaderSteps \cup WriterSteps]
      BY DEF Workers, RouterInv, TypeOK, WorkersTypeOK
<1>2. /\ pc[w] \in {"find", "send"} /\ pc'[w] \in {"pop", "remove"}
      /\ UNCHANGED <<peer, socket_, sessions_by_socket_, id_, sessions_by_id_,
                     inbox, ready_write_sockets_queue_>>
      BY <1>1 DEF SendOk, SendError, SendPartial, Find, Return, Goto, registry, maps,
                  objects, kernel, queues
<1>3. w \in Carriers /\ w \notin Carriers'
      BY <1>2, RegistryAssumption DEF Carriers
<1>4. PICK c \in Conns, m \in Seq(Values) :
          /\ c = Behind(w) /\ m = msg[w] /\ Len(m) = 3 /\ c # nullptr
          /\ Carried(w) = [to |-> c, msg |-> m]
          /\ socket_[c] = sock[w] /\ sock[w] \in Sockets
      BY <1>3, OwnTask
<1>5. SubSeq(m, 1, 3) = m
      BY <1>4, SubSeqFull
<1>6. SUFFICES ASSUME NEW task, task = Carried(w)
               PROVE  /\ task \in Service!BagToSet(InTransit)
                      /\ Service!Deliver(task) \/ Service!Lose(task)
                            \/ Service!Tear(task)
      BY DEF ServiceStep, Service!ServiceNext
<1>7. task.to = c
      BY <1>4, <1>6
<1>8. CASE SendOk(w)
  <2>1. outbox' = [outbox EXCEPT ![Behind(w)] = Append(@, SubSeq(msg[w], 1, 3))]
        BY <1>4, <1>5, <1>8 DEF SendOk
  <2>2. /\ Carried(w) \in Service!BagToSet(InTransit)
        /\ Service!Hand(Carried(w), 3)
    <3>1. PICK n \in 0 .. 3 : n = 3
          OBVIOUS
    <3>2. outbox' = [outbox EXCEPT ![Behind(w)] = Append(@, SubSeq(msg[w], 1, n))]
          BY <2>1, <3>1
    <3>3. /\ Carried(w) \in Service!BagToSet(InTransit)
          /\ Service!Hand(Carried(w), n)
          BY <1>2, <1>3, <3>2, HandImplements
    <3> QED BY <3>1, <3>3
  <2> QED BY <1>4, <1>6, <1>7, <1>8, <2>2
          DEF SendOk, Service!Deliver, Service!DATA_MESSAGE_SIZE
<1>9. CASE SendPartial(w)
  <2>1. PICK n \in 1 .. Len(msg[w]) - 1 :
            outbox' = [outbox EXCEPT ![Behind(w)] = Append(@, SubSeq(msg[w], 1, n))]
        BY <1>9 DEF SendPartial
  <2>2. n \in 1 .. 3 - 1 /\ n \in 0 .. 3
        BY <1>4, <2>1
  <2>3. /\ Carried(w) \in Service!BagToSet(InTransit)
        /\ Service!Hand(Carried(w), n)
        BY <1>2, <1>3, <2>1, <2>2, HandImplements
  <2> QED BY <1>4, <1>6, <1>7, <1>9, <2>2, <2>3
          DEF SendPartial, Service!Tear, Service!DATA_MESSAGE_SIZE
<1>10. CASE SendError(w) \/ (Find(w) /\ pc'[w] # "lock")
  <2>1. outbox' = outbox
        BY <1>10 DEF SendError, Find, kernel
  <2>2. /\ Carried(w) \in Service!BagToSet(InTransit)
        /\ Service!Hand(Carried(w), 0)
        BY <1>2, <1>3, <2>1, HandImplements
  <2>3. Service!Ended(c) \/ Seats[c] = "left" \/ c \in SlowPeers
    <3>1. CASE SendError(w)
          BY <1>4, <3>1 DEF SendError, Gone, Ended, Service!Ended
    <3>2. CASE Find(w) /\ pc'[w] # "lock"
      <4>1. sessions_by_socket_[sock[w]] = nullptr
            BY <1>1, <3>2 DEF Find, find_session_by_socket, Goto
      <4> QED BY <1>4, <4>1, RegistryAssumption DEF Seats, Registered
    <3> QED BY <1>10, <3>1, <3>2
  <2> QED BY <1>6, <1>7, <2>2, <2>3 DEF Service!Lose
<1> QED BY <1>8, <1>9, <1>10

\* Every step of a writer.
LEMMA WriterImplements ==
    ASSUME RouterInv, [Next]_vars, TypeOK', NEW w \in Writers, Writer(w)
    PROVE  ServiceStep
<1>1. CASE WritePop(w) \/ WriteLock(w) \/ (Find(w) /\ pc'[w] = "lock")
      BY <1>1, WriterUnseen
<1>2. CASE \/ SendOk(w) \/ SendError(w) \/ SendPartial(w)
           \/ Find(w) /\ pc'[w] # "lock"
      BY <1>2, SendImplements
<1>3. CASE WriteRemove(w)
      BY <1>3, RemovalImplements DEF Workers
<1> QED BY <1>1, <1>2, <1>3 DEF Writer

-----------------------------------------------------------------------------
\* The empty router is the empty service.
LEMMA InitService == Init => Service!ServiceInit
<1> SUFFICES ASSUME Init PROVE Service!ServiceInit
    OBVIOUS
<1>1. /\ peer = [c \in Conns |-> "new"] /\ socket_ = [c \in Conns |-> nullptr]
      /\ id_ = [c \in Conns |-> NONE] /\ sessions_by_id_ = [i \in Values |-> nullptr]
      /\ inbox = [c \in Conns |-> <<>>] /\ outbox = [c \in Conns |-> <<>>]
      /\ ready_write_sockets_queue_ = <<>> /\ pc = [t \in Workers |-> "pop"]
      BY DEF Init, SessionsInit
<1>2. \A c \in Conns : Held[c] = <<>>
      BY <1>1 DEF Held, Workers
<1>3. Unread = [c \in Conns |-> <<>>]
  <2>1. <<>> \o <<>> = <<>>
        BY EmptySeq, ConcatEmptySeq
  <2> QED BY <1>1, <1>2, <2>1 DEF Unread
<1>4. InTransit = Service!EmptyBag
  <2>1. Carriers = {} /\ DOMAIN ready_write_sockets_queue_ = {}
        BY <1>1 DEF Carriers, Workers
  <2> QED BY <2>1 DEF InTransit, Service!EmptyBag, Service!SetToBag
<1>5. Mail = [c \in Conns |-> <<>>]
  <2>1. FlattenSeq(<<>>) = <<>>
        BY DEF FlattenSeq
  <2> QED BY <1>1, <2>1 DEF Mail
<1>6. Seats = [c \in Conns |-> "waiting"]
      BY <1>1 DEF Seats
<1> QED BY <1>1, <1>3, <1>4, <1>5, <1>6 DEF Service!ServiceInit, Service!NONE, NONE

\* Every step of the router is a step of the service or a stutter of it.
LEMMA NextImplements ==
    ASSUME RouterInv, [Next]_vars, TypeOK', LockInv'
    PROVE  ServiceStep
<1>1. CASE UNCHANGED vars
  <2>1. UNCHANGED <<peer, socket_, sessions_by_socket_, id_, sessions_by_id_, inbox,
                    outbox, workers, ready_write_sockets_queue_>>
        BY <1>1 DEF vars, registry, maps, objects, kernel, queues
  <2>2. InTransit' = InTransit
        BY <2>1, TransitSame
  <2>3. Unread' = Unread
        BY <2>1, HeldSame, UnreadSame
  <2> QED BY <2>1, <2>2, <2>3, Unseen DEF ServiceStep
<1>2. CASE \E c \in Conns : Peer(c)
      BY <1>2, PeerImplements
<1>3. CASE Listener
      BY <1>3, ListenerImplements
<1>4. CASE \E r \in Readers : Reader(r)
      BY <1>4, ReaderImplements
<1>5. CASE \E w \in Writers : Writer(w)
      BY <1>5, WriterImplements
<1> QED BY <1>1, <1>2, <1>3, <1>4, <1>5 DEF Next

\* In every reachable state, whatever the pools, the connections and the
\* streams: a connection in the backlog was not refused before, a data message
\* is only routed for a session with an id, and a session is only removed if
\* its connection has ended or its buffer is full.
THEOREM ServiceFactsHold == SafetySpec => []ServiceInv
<1>1. Init => ServiceInv
      BY InitServiceInv
<1>2. TypeOK /\ LockInv /\ AddressInv /\ ServiceInv /\ [Next]_vars => ServiceInv'
      BY NextServiceInv
<1> QED BY <1>1, <1>2, RouterTypeCorrect, LocksAreEffective, AddressesAreRight, PTL
        DEF SafetySpec

\* The event loop, the two pools, the two queues, the session mutexes and the
\* registry implement the abstract routing service, for any number of threads,
\* connections and descriptors and whatever the peers send: each message a
\* reader takes is carried to the connection its id named at that moment
\* exactly once, and is lost or torn only if that connection ends, is removed
\* or is full.
THEOREM RouterImplementsService == SafetySpec => ImplementsService
<1>1. Init => Service!ServiceInit
      BY InitService
<1>2. /\ TypeOK /\ LockInv /\ AddressInv /\ ServiceInv /\ [Next]_vars
      /\ TypeOK' /\ LockInv'
      => [Service!ServiceNext]_<<Service!clients, Service!service>>
      BY NextImplements DEF RouterInv, ServiceStep
<1> QED BY <1>1, <1>2, RouterTypeCorrect, LocksAreEffective, AddressesAreRight,
           ServiceFactsHold, PTL
        DEF SafetySpec, ImplementsService, Service!ServiceSpec
=============================================================================
