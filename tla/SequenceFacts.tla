--------------------------- MODULE SequenceFacts ---------------------------
(***************************************************************************)
(* What the proofs need to know about sequences and about the operators of *)
(* SequencesExt that the models use.                                       *)
(***************************************************************************)
EXTENDS Integers, Sequences, SequencesExt, SequenceTheorems,
        WellFoundedInduction, TLAPS

\* A set of natural numbers that is not empty has a least element.
LEMMA LeastNatural ==
    ASSUME NEW T, T \subseteq Nat, T # {}
    PROVE  Min(T) \in T /\ \A y \in T : Min(T) <= y
<1> DEFINE R == OpToRel(<, Nat)
<1>1. PICK x \in T : \A y \in T : ~ (<<y, x>> \in R)
      BY NatLessThanWellFounded, WFMin, Zenon
<1>2. \A y \in T : x <= y
  <2> TAKE y \in T
  <2>1. ~ (y < x)
        BY <1>1 DEF OpToRel
  <2> QED BY <2>1
<1> QED BY <1>1, <1>2, Zenon DEF Min

\* A function on 1 .. n is a sequence.
LEMMA FunctionIsSeq ==
    ASSUME NEW S, NEW n \in Nat, NEW f \in [1 .. n -> S]
    PROVE  f \in Seq(S)
BY SeqDef

\* The front of a concatenation, and the rest of it.
LEMMA SubSeqOfConcat ==
    ASSUME NEW V, NEW s \in Seq(V), NEW t \in Seq(V)
    PROVE  /\ SubSeq(s \o t, 1, Len(s)) = s
           /\ SubSeq(s \o t, Len(s) + 1, Len(s \o t)) = t
<1> DEFINE u == s \o t
           m == Len(s)
           n == Len(t)
<1>1. /\ m \in Nat /\ n \in Nat /\ u \in Seq(V) /\ Len(u) = m + n
      /\ \A i \in 1 .. m + n : u[i] = IF i <= m THEN s[i] ELSE t[i - m]
      BY ConcatProperties, LenProperties
<1>2. \A i \in 1 .. m + n : u[i] \in V
      BY <1>1, ElementOfSeq
<1> HIDE DEF u, m, n
<1>3. SubSeq(u, 1, m) = s
  <2>1. \A i \in 1 .. m : i \in 1 .. m + n /\ i <= m /\ 1 + i - 1 = i
        BY <1>1
  <2>2. /\ SubSeq(u, 1, m) \in Seq(V)
        /\ Len(SubSeq(u, 1, m)) = IF 1 <= m THEN m - 1 + 1 ELSE 0
        /\ \A i \in 1 .. m - 1 + 1 : SubSeq(u, 1, m)[i] = u[1 + i - 1]
        BY <1>1, <1>2, <2>1, SubSeqProperties
  <2>3. Len(SubSeq(u, 1, m)) = m /\ m - 1 + 1 = m
        BY <1>1, <2>2
  <2>4. \A i \in 1 .. m : SubSeq(u, 1, m)[i] = s[i]
        BY <1>1, <2>1, <2>2, <2>3
  <2> QED BY <2>2, <2>3, <2>4, SeqEqual DEF m
<1>4. SubSeq(u, m + 1, m + n) = t
  <2>1. /\ \A i \in 1 .. n : /\ (m + 1) + i - 1 \in 1 .. m + n
                             /\ ~ ((m + 1) + i - 1 <= m)
                             /\ ((m + 1) + i - 1) - m = i
        /\ \A i \in m + 1 .. m + n : i \in 1 .. m + n
        /\ (m + n) - (m + 1) + 1 = n
        BY <1>1
  <2>2. /\ SubSeq(u, m + 1, m + n) \in Seq(V)
        /\ Len(SubSeq(u, m + 1, m + n)) =
              IF m + 1 <= m + n THEN (m + n) - (m + 1) + 1 ELSE 0
        /\ \A i \in 1 .. (m + n) - (m + 1) + 1 :
              SubSeq(u, m + 1, m + n)[i] = u[(m + 1) + i - 1]
        BY <1>1, <1>2, <2>1, SubSeqProperties
  <2>3. Len(SubSeq(u, m + 1, m + n)) = n
        BY <1>1, <2>2
  <2>4. \A i \in 1 .. n : SubSeq(u, m + 1, m + n)[i] = t[i]
        BY <1>1, <2>1, <2>2
  <2> QED BY <2>2, <2>3, <2>4, SeqEqual DEF n
<1> QED BY <1>1, <1>3, <1>4 DEF u, m

\* A sequence is its front and its rest.
LEMMA FrontAndRest ==
    ASSUME NEW V, NEW s \in Seq(V), NEW n \in 0 .. Len(s)
    PROVE  /\ SubSeq(s, 1, n) \in Seq(V) /\ SubSeq(s, n + 1, Len(s)) \in Seq(V)
           /\ SubSeq(s, 1, n) \o SubSeq(s, n + 1, Len(s)) = s
<1>1. Len(s) \in Nat /\ n \in Int /\ \A i \in 1 .. Len(s) : s[i] \in V
      BY ElementOfSeq, LenProperties
<1>2. SubSeq(s, 1, n) \in Seq(V)
      BY <1>1, SubSeqProperties
<1>3. SubSeq(s, n + 1, Len(s)) \in Seq(V)
      BY <1>1, SubSeqProperties
<1>4. 1 \in 1 .. Len(s) + 1 /\ n \in 1 - 1 .. Len(s) /\ Len(s) \in n .. Len(s)
      BY <1>1
<1>5. SubSeq(s, 1, n) \o SubSeq(s, n + 1, Len(s)) = SubSeq(s, 1, Len(s))
      BY <1>4, ConcatAdjacentSubSeq
<1> QED BY <1>2, <1>3, <1>5, SubSeqFull

\* The head and the tail of a sequence that starts with one element.
LEMMA FirstAndRest ==
    ASSUME NEW V, NEW s \in Seq(V), Len(s) = 1, NEW t \in Seq(V)
    PROVE  /\ s \o t \in Seq(V) /\ Len(s \o t) >= 1
           /\ Head(s \o t) = s[1] /\ Tail(s \o t) = t
<1> DEFINE u == s \o t
<1>1. /\ u \in Seq(V) /\ Len(u) = Len(s) + Len(t) /\ Len(t) \in Nat
      /\ \A i \in 1 .. Len(s) + Len(t) :
            u[i] = IF i <= Len(s) THEN s[i] ELSE t[i - Len(s)]
      BY ConcatProperties, LenProperties
<1> HIDE DEF u
<1>2. Len(u) >= 1 /\ 1 \in 1 .. 1 + Len(t) /\ u # <<>>
      BY <1>1, EmptySeq
<1>3. u[1] = s[1]
      BY <1>1, <1>2
<1>4. Head(u) = s[1]
      BY <1>1, <1>2, <1>3, HeadTailProperties
<1>5. /\ Tail(u) \in Seq(V) /\ Len(Tail(u)) = Len(t)
      /\ \A i \in 1 .. Len(t) : Tail(u)[i] = u[i + 1]
  <2>1. /\ Tail(u) \in Seq(V) /\ Len(Tail(u)) = Len(u) - 1
        /\ \A i \in 1 .. Len(Tail(u)) : Tail(u)[i] = u[i + 1]
        BY <1>1, <1>2, HeadTailProperties
  <2> QED BY <1>1, <2>1
<1>6. \A i \in 1 .. Len(t) : Tail(u)[i] = t[i]
  <2> TAKE i \in 1 .. Len(t)
  <2>1. i + 1 \in 1 .. 1 + Len(t) /\ ~ (i + 1 <= 1) /\ (i + 1) - 1 = i
        BY <1>1
  <2> QED BY <1>1, <1>5, <2>1
<1>7. Tail(u) = t
      BY <1>5, <1>6, SeqEqual
<1> QED BY <1>1, <1>2, <1>4, <1>7 DEF u

\* One more element of a sequence given by its elements.
LEMMA AppendByElements ==
    ASSUME NEW T, NEW f \in Seq(T), NEW e \in T, NEW n \in Nat, Len(f) = n,
           NEW g \in [1 .. n + 1 -> T],
           \A i \in 1 .. n : g[i] = f[i], g[n + 1] = e
    PROVE  g = Append(f, e)
<1>1. g \in Seq(T) /\ Len(g) = n + 1
  <2>1. g \in Seq(T)
        BY FunctionIsSeq
  <2>2. Len(g) \in Nat /\ 1 .. Len(g) = 1 .. n + 1
        BY <2>1, LenProperties
  <2> QED BY <2>1, <2>2
<1>2. /\ Append(f, e) \in Seq(T) /\ Len(Append(f, e)) = n + 1
      /\ \A i \in 1 .. n : Append(f, e)[i] = f[i]
      /\ Append(f, e)[n + 1] = e
      BY AppendProperties
<1>3. \A i \in 1 .. n + 1 : i \in 1 .. n \/ i = n + 1
      OBVIOUS
<1>4. \A i \in 1 .. n + 1 : g[i] = Append(f, e)[i]
      BY <1>2, <1>3
<1> QED BY <1>1, <1>2, <1>4, SeqEqual

\* And one less.
LEMMA TailByElements ==
    ASSUME NEW T, NEW f \in Seq(T), NEW n \in Nat, Len(f) = n + 1,
           NEW g \in [1 .. n -> T], \A i \in 1 .. n : g[i] = f[i + 1]
    PROVE  f # <<>> /\ g = Tail(f)
<1>1. g \in Seq(T) /\ Len(g) = n
  <2>1. g \in Seq(T)
        BY FunctionIsSeq
  <2>2. Len(g) \in Nat /\ 1 .. Len(g) = 1 .. n
        BY <2>1, LenProperties
  <2> QED BY <2>1, <2>2
<1>2. f # <<>>
      BY EmptySeq
<1>3. /\ Tail(f) \in Seq(T) /\ Len(Tail(f)) = n
      /\ \A i \in 1 .. n : Tail(f)[i] = f[i + 1]
      BY <1>2, HeadTailProperties
<1> QED BY <1>1, <1>2, <1>3, SeqEqual

\* The positions of a sequence with one more element.
LEMMA AppendPositions ==
    ASSUME NEW S, NEW s \in Seq(S), NEW e \in S
    PROVE  /\ \A i \in DOMAIN s : Append(s, e)[i] = s[i]
           /\ \A i \in DOMAIN Append(s, e) : i \notin DOMAIN s => Append(s, e)[i] = e
           /\ \A i, j \in DOMAIN Append(s, e) : i < j => i \in DOMAIN s
<1>1. /\ Len(s) \in Nat /\ DOMAIN s = 1 .. Len(s)
      /\ DOMAIN Append(s, e) = 1 .. Len(s) + 1
      /\ \A i \in 1 .. Len(s) : Append(s, e)[i] = s[i]
      /\ Append(s, e)[Len(s) + 1] = e
      BY LenProperties, AppendProperties
<1> QED BY <1>1

\* And of one without its first.
LEMMA TailPositions ==
    ASSUME NEW S, NEW s \in Seq(S), s # <<>>
    PROVE  /\ 1 \in DOMAIN s /\ Head(s) = s[1]
           /\ \A i \in DOMAIN Tail(s) :
                 i + 1 \in DOMAIN s /\ 1 < i + 1 /\ Tail(s)[i] = s[i + 1]
           /\ \A i, j \in DOMAIN Tail(s) : i < j => i + 1 < j + 1
<1>1. /\ Len(s) \in Nat \ {0} /\ DOMAIN s = 1 .. Len(s) /\ Head(s) = s[1]
      /\ DOMAIN Tail(s) = 1 .. Len(s) - 1
      /\ \A i \in 1 .. Len(s) - 1 : Tail(s)[i] = s[i + 1]
      BY HeadTailProperties, LenProperties, EmptySeq
<1> QED BY <1>1

\* Erasing an element leaves a sequence.
LEMMA RemoveFirstType ==
    ASSUME NEW S, NEW s \in Seq(S), NEW e
    PROVE  RemoveFirst(s, e) \in Seq(S)
<1>1. CASE \E i \in 1 .. Len(s) : s[i] = e
  <2> DEFINE I == {i \in 1 .. Len(s) : s[i] = e}
  <2>1. RemoveFirst(s, e) = RemoveAt(s, Min(I))
        BY <1>1, Zenon DEF RemoveFirst, SelectInSeq
  <2>2. Min(I) \in 1 .. Len(s)
    <3>1. I # {} /\ I \subseteq Nat
          BY <1>1
    <3>2. Min(I) \in I
          BY <3>1, LeastNatural
    <3> QED BY <3>2
  <2> DEFINE m == Min(I)
  <2> HIDE DEF m, I
  <2>3. SubSeq(s, 1, m - 1) \in Seq(S)
        BY <2>2, SubSeqProperties, ElementOfSeq DEF m
  <2>4. SubSeq(s, m + 1, Len(s)) \in Seq(S)
        BY <2>2, SubSeqProperties, ElementOfSeq, LenProperties DEF m
  <2> QED BY <2>1, <2>3, <2>4, ConcatProperties DEF RemoveAt, m
<1>2. CASE ~ \E i \in 1 .. Len(s) : s[i] = e
      BY <1>2 DEF RemoveFirst
<1> QED BY <1>1, <1>2

\* erase(): the element is gone, the others stay, and none is there twice.
LEMMA RemoveFirstElements ==
    ASSUME NEW S, NEW s \in Seq(S), IsInjective(s), NEW e
    PROVE  /\ ToSet(RemoveFirst(s, e)) = ToSet(s) \ {e}
           /\ IsInjective(RemoveFirst(s, e))
<1>1. DOMAIN s = 1 .. Len(s) /\ Len(s) \in Nat
      BY LenProperties
<1>2. \A i, j \in 1 .. Len(s) : s[i] = s[j] => i = j
      BY <1>1 DEF IsInjective
<1>3. CASE \E i \in 1 .. Len(s) : s[i] = e
  <2> DEFINE I == {i \in 1 .. Len(s) : s[i] = e}
             m == Min(I)
             t == RemoveFirst(s, e)
  <2>1. t = RemoveAt(s, m)
        BY <1>3, Zenon DEF RemoveFirst, SelectInSeq
  <2>2. I # {} /\ I \subseteq Nat
        BY <1>3
  <2>3. m \in I
        BY <2>2, LeastNatural
  <2>4. m \in 1 .. Len(s) /\ s[m] = e
        BY <2>3
  <2> HIDE DEF m, I
  <2>5. \A i \in 1 .. Len(s) : s[i] \in S
        BY ElementOfSeq
  <2> DEFINE a == SubSeq(s, 1, m - 1)
             b == SubSeq(s, m + 1, Len(s))
  <2>6. /\ a \in Seq(S) /\ Len(a) = m - 1
        /\ \A i \in 1 .. m - 1 : a[i] = s[i]
        BY <1>1, <2>4, <2>5, SubSeqProperties
  <2>7. /\ b \in Seq(S) /\ Len(b) = Len(s) - m
        /\ \A i \in 1 .. Len(s) - m : b[i] = s[m + i]
    <3>1. m + 1 \in Int /\ Len(s) \in Int /\ \A i \in m + 1 .. Len(s) : s[i] \in S
          BY <1>1, <2>4, <2>5
    <3>2. /\ b \in Seq(S)
          /\ Len(b) = IF m + 1 <= Len(s) THEN Len(s) - (m + 1) + 1 ELSE 0
          /\ \A i \in 1 .. Len(s) - (m + 1) + 1 : b[i] = s[(m + 1) + i - 1]
          BY <3>1, SubSeqProperties
    <3> HIDE DEF b
    <3>3. \A i \in 1 .. Len(s) - m : (m + 1) + i - 1 = m + i
          BY <1>1, <2>4
    <3>4. Len(s) - (m + 1) + 1 = Len(s) - m
          BY <1>1, <2>4
    <3>5. Len(b) = Len(s) - m
      <4>1. m \in 1 .. Len(s) /\ Len(s) \in Nat
            BY <1>1, <2>4
      <4>2. (IF m + 1 <= Len(s) THEN Len(s) - (m + 1) + 1 ELSE 0) = Len(s) - m
            BY <4>1
      <4> QED BY <3>2, <4>2
    <3>6. \A i \in 1 .. Len(s) - m : b[i] = s[m + i]
          BY <3>2, <3>3, <3>4
    <3> QED BY <3>2, <3>5, <3>6
  <2>8. t = a \o b
        BY <2>1 DEF RemoveAt
  <2> HIDE DEF a, b, t
  <2>9. /\ t \in Seq(S) /\ Len(t) = Len(s) - 1
        /\ \A i \in 1 .. Len(s) - 1 : t[i] = IF i < m THEN s[i] ELSE s[i + 1]
    <3>1. /\ t \in Seq(S) /\ Len(t) = Len(a) + Len(b)
          /\ \A i \in 1 .. Len(a) + Len(b) :
                t[i] = IF i <= Len(a) THEN a[i] ELSE b[i - Len(a)]
          BY <2>6, <2>7, <2>8, ConcatProperties
    <3>2. Len(a) + Len(b) = Len(s) - 1
          BY <1>1, <2>4, <2>6, <2>7
    <3>3. ASSUME NEW i \in 1 .. Len(s) - 1
          PROVE  t[i] = IF i < m THEN s[i] ELSE s[i + 1]
      <4>1. CASE i < m
            BY <1>1, <2>4, <2>6, <3>1, <3>2, <4>1
      <4>2. CASE i >= m
        <5>1. i - (m - 1) \in 1 .. Len(s) - m /\ ~ (i <= m - 1) /\ ~ (i < m)
              BY <1>1, <2>4, <4>2
        <5>2. m + (i - (m - 1)) = i + 1
              BY <2>4
        <5>3. t[i] = b[i - (m - 1)]
              BY <2>6, <3>1, <3>2, <5>1
        <5> QED BY <2>7, <5>1, <5>2, <5>3
      <4> QED BY <2>4, <4>1, <4>2
    <3> QED BY <3>1, <3>2, <3>3
  <2>10. DOMAIN t = 1 .. Len(s) - 1
        BY <2>9, LenProperties
  <2>11. IsInjective(t)
        BY <1>1, <1>2, <2>4, <2>9, <2>10 DEF IsInjective
  <2>12. ASSUME NEW x \in ToSet(t) PROVE x \in ToSet(s) \ {e}
    <3>1. PICK i \in 1 .. Len(s) - 1 : x = t[i]
          BY <2>10 DEF ToSet
    <3>2. \E j \in 1 .. Len(s) : x = s[j] /\ j # m
          BY <1>1, <2>4, <2>9, <3>1
    <3> QED BY <1>1, <1>2, <2>4, <3>2 DEF ToSet
  <2>13. ASSUME NEW x \in ToSet(s) \ {e} PROVE x \in ToSet(t)
    <3>1. PICK j \in 1 .. Len(s) : x = s[j] /\ j # m
          BY <1>1, <2>4 DEF ToSet
    <3>2. CASE j < m
          BY <1>1, <2>4, <2>9, <2>10, <3>1, <3>2 DEF ToSet
    <3>3. CASE j > m
      <4>1. j - 1 \in 1 .. Len(s) - 1 /\ t[j - 1] = s[j]
            BY <1>1, <2>4, <2>9, <3>1, <3>3
      <4> QED BY <2>10, <3>1, <4>1 DEF ToSet
    <3> QED BY <2>4, <3>1, <3>2, <3>3
  <2> QED BY <2>11, <2>12, <2>13 DEF t
<1>4. CASE ~ \E i \in 1 .. Len(s) : s[i] = e
  <2>1. RemoveFirst(s, e) = s
        BY <1>4 DEF RemoveFirst
  <2>2. e \notin ToSet(s)
        BY <1>1, <1>4 DEF ToSet
  <2> QED BY <2>1, <2>2
<1> QED BY <1>3, <1>4

\* push_back() of an element that is not there.
LEMMA AppendElements ==
    ASSUME NEW S, NEW s \in Seq(S), IsInjective(s), NEW e \in S, e \notin ToSet(s)
    PROVE  /\ ToSet(Append(s, e)) = ToSet(s) \cup {e}
           /\ IsInjective(Append(s, e))
<1> DEFINE t == Append(s, e)
<1>1. /\ DOMAIN s = 1 .. Len(s) /\ Len(s) \in Nat
      /\ DOMAIN t = 1 .. Len(s) + 1
      /\ \A i \in 1 .. Len(s) : t[i] = s[i]
      /\ t[Len(s) + 1] = e
      BY LenProperties, AppendProperties
<1> HIDE DEF t
<1>2. \A i \in 1 .. Len(s) : s[i] # e
      BY <1>1 DEF ToSet
<1>3. IsInjective(t)
      BY <1>1, <1>2 DEF IsInjective
<1>4. \A x \in ToSet(t) : x \in ToSet(s) \cup {e}
      BY <1>1 DEF ToSet
<1>5. \A x \in ToSet(s) \cup {e} : x \in ToSet(t)
      BY <1>1 DEF ToSet
<1> QED BY <1>3, <1>4, <1>5 DEF t

-----------------------------------------------------------------------------
\* FlattenSeq, which says what bytes a client has got, is defined by a
\* recursive function.  f is that function on the first n messages of s.
Flattens(f, s, n) ==
    \A i \in 1 .. n : f[i] = IF i = 1 THEN s[i] ELSE f[i - 1] \o s[i]

\* There is such a function for every number of messages: a least number
\* without one would have a predecessor with one, which can be extended.
LEMMA FlattenExists ==
    ASSUME NEW V, NEW s \in Seq(Seq(V))
    PROVE  \A n \in 0 .. Len(s) : \E f \in [1 .. n -> Seq(V)] : Flattens(f, s, n)
<1> DEFINE Missing == {n \in 0 .. Len(s) :
                          ~ \E f \in [1 .. n -> Seq(V)] : Flattens(f, s, n)}
<1> SUFFICES ASSUME Missing # {}
             PROVE  FALSE
    OBVIOUS
<1> DEFINE m == Min(Missing)
<1>1. Len(s) \in Nat /\ \A i \in 1 .. Len(s) : s[i] \in Seq(V)
      BY ElementOfSeq
<1>2. Missing \subseteq Nat
      BY <1>1
<1>3. m \in Missing
      BY <1>2, LeastNatural
<1>4. \A n \in Missing : m <= n
      BY <1>2, LeastNatural
<1> HIDE DEF m
<1>5. m \in 0 .. Len(s) /\ ~ \E f \in [1 .. m -> Seq(V)] : Flattens(f, s, m)
      BY <1>3
<1>6. CASE m = 0
  <2>1. [i \in 1 .. 0 |-> <<>>] \in [1 .. m -> Seq(V)]
        BY <1>6
  <2>2. Flattens([i \in 1 .. 0 |-> <<>>], s, m)
        BY <1>6 DEF Flattens
  <2> QED BY <1>5, <2>1, <2>2
<1>7. CASE m # 0
  <2>1. m - 1 \in 0 .. Len(s) /\ m \in 1 .. Len(s) /\ ~ (m <= m - 1)
        BY <1>1, <1>5, <1>7
  <2>2. m - 1 \notin Missing
        BY <1>4, <2>1
  <2>3. PICK f \in [1 .. m - 1 -> Seq(V)] : Flattens(f, s, m - 1)
        BY <2>1, <2>2
  <2> DEFINE g == [i \in 1 .. m |-> IF i < m THEN f[i]
                                    ELSE IF m = 1 THEN s[m]
                                    ELSE f[m - 1] \o s[m]]
  <2>4. s[m] \in Seq(V)
        BY <1>1, <2>1
  <2>5. \A i \in 1 .. m : i < m => i \in 1 .. m - 1
        BY <2>1, <1>1
  <2>6. m # 1 => m - 1 \in 1 .. m - 1
        BY <1>1, <2>1
  <2>7. m # 1 => f[m - 1] \o s[m] \in Seq(V)
        BY <2>4, <2>6, ConcatProperties
  <2>8. g \in [1 .. m -> Seq(V)]
        BY <2>4, <2>5, <2>7
  <2>9. ASSUME NEW i \in 1 .. m
        PROVE  g[i] = IF i = 1 THEN s[i] ELSE g[i - 1] \o s[i]
    <3>1. CASE i < m
      <4>1. i \in 1 .. m - 1 /\ (i # 1 => i - 1 \in 1 .. m /\ i - 1 < m)
            BY <1>1, <2>1, <3>1
      <4>2. g[i] = f[i] /\ (i # 1 => g[i - 1] = f[i - 1])
            BY <3>1, <4>1
      <4>3. f[i] = IF i = 1 THEN s[i] ELSE f[i - 1] \o s[i]
            BY <2>3, <4>1 DEF Flattens
      <4> HIDE DEF g
      <4> QED BY <4>2, <4>3
    <3>2. CASE ~ (i < m)
      <4>1. i = m
            BY <1>1, <2>1, <3>2
      <4>2. m # 1 => m - 1 \in 1 .. m /\ m - 1 < m
            BY <1>1, <2>1
      <4>3. m # 1 => g[m - 1] = f[m - 1]
            BY <4>2
      <4>4. m \in 1 .. m /\ ~ (m < m)
            BY <1>1, <2>1
      <4>5. g[m] = IF m = 1 THEN s[m] ELSE f[m - 1] \o s[m]
            BY <4>4
      <4> HIDE DEF g
      <4> QED BY <4>1, <4>3, <4>5
    <3> QED BY <3>1, <3>2
  <2>10. Flattens(g, s, m)
    <3> HIDE DEF g
    <3> QED BY <2>9 DEF Flattens
  <2> HIDE DEF g
  <2> QED BY <1>5, <2>8, <2>10
<1> QED BY <1>6, <1>7

\* There is only one.
LEMMA FlattenUnique ==
    ASSUME NEW s, NEW n \in Nat, NEW f, NEW g, Flattens(f, s, n), Flattens(g, s, n)
    PROVE  \A i \in 1 .. n : f[i] = g[i]
<1> DEFINE Differ == {i \in 1 .. n : f[i] # g[i]}
<1> SUFFICES ASSUME Differ # {}
             PROVE  FALSE
    OBVIOUS
<1> DEFINE m == Min(Differ)
<1>1. m \in Differ
      BY LeastNatural
<1>2. \A i \in Differ : m <= i
      BY LeastNatural
<1> HIDE DEF m
<1>3. m \in 1 .. n /\ f[m] # g[m]
      BY <1>1
<1>4. m # 1
      BY <1>3 DEF Flattens
<1>5. m - 1 \in 1 .. n /\ ~ (m <= m - 1)
      BY <1>3, <1>4
<1>6. f[m - 1] = g[m - 1]
      BY <1>2, <1>5
<1> QED BY <1>3, <1>4, <1>6 DEF Flattens

\* So FlattenSeq(s) is the last value of any such function.
LEMMA FlattenSeqIs ==
    ASSUME NEW V, NEW s \in Seq(Seq(V)), s # <<>>, NEW f, Flattens(f, s, Len(s))
    PROVE  FlattenSeq(s) = f[Len(s)]
<1> DEFINE N == Len(s)
           Step(g) == [i \in 1 .. N |-> IF i = 1 THEN s[i] ELSE g[i - 1] \o s[i]]
           flatten == CHOOSE g : g = Step(g)
<1>1. N \in Nat /\ N \in 0 .. N /\ N # 0 /\ N \in 1 .. N
      BY EmptySeq
<1>2. PICK h \in [1 .. N -> Seq(V)] : Flattens(h, s, N)
      BY <1>1, FlattenExists
<1>3. h = Step(h)
      BY <1>2 DEF Flattens
<1>4. flatten = Step(flatten)
  <2> HIDE DEF Step
  <2> QED BY <1>3
<1>5. Flattens(flatten, s, N)
  <2> HIDE DEF flatten
  <2>1. \A i \in 1 .. N :
           Step(flatten)[i] = IF i = 1 THEN s[i] ELSE flatten[i - 1] \o s[i]
        OBVIOUS
  <2> HIDE DEF Step
  <2> QED BY <1>4, <2>1 DEF Flattens
<1>6. flatten[N] = f[N]
  <2> HIDE DEF flatten
  <2> QED BY <1>1, <1>5, FlattenUnique
<1>7. FlattenSeq(s) = flatten[N]
      BY <1>1 DEF FlattenSeq
<1> QED BY <1>6, <1>7

\* One more message adds its bytes at the end.
LEMMA FlattenAppend ==
    ASSUME NEW V, NEW s \in Seq(Seq(V)), NEW e \in Seq(V)
    PROVE  /\ FlattenSeq(s) \in Seq(V)
           /\ FlattenSeq(Append(s, e)) = FlattenSeq(s) \o e
<1> DEFINE t == Append(s, e)
           N == Len(s)
<1>1. /\ t \in Seq(Seq(V)) /\ t # <<>> /\ Len(t) = N + 1 /\ N \in Nat
      /\ \A i \in 1 .. N : t[i] = s[i]
      /\ t[N + 1] = e
      BY AppendProperties
<1>2. PICK f \in [1 .. N + 1 -> Seq(V)] : Flattens(f, t, N + 1)
  <2>1. N + 1 \in 0 .. Len(t)
        BY <1>1
  <2> HIDE DEF t, N
  <2> QED BY <1>1, <2>1, FlattenExists
<1>3. FlattenSeq(t) = f[N + 1]
  <2> HIDE DEF t, N
  <2> QED BY <1>1, <1>2, FlattenSeqIs
<1>4. CASE s = <<>>
  <2>1. N = 0 /\ FlattenSeq(s) = <<>>
        BY <1>4 DEF FlattenSeq
  <2>2. f[1] = e
    <3> HIDE DEF t, N
    <3> QED BY <1>1, <1>2, <2>1 DEF Flattens
  <2>3. <<>> \o e = e /\ <<>> \in Seq(V)
        BY ConcatEmptySeq, EmptySeq
  <2>4. FlattenSeq(t) = f[1]
    <3>1. N + 1 = 1
          BY <2>1
    <3> HIDE DEF t, N
    <3> QED BY <1>3, <3>1
  <2>5. FlattenSeq(t) = e
    <3> HIDE DEF t, N
    <3> QED BY <2>2, <2>4
  <2> QED BY <2>1, <2>3, <2>5
<1>5. CASE s # <<>>
  <2>1. N \in 1 .. N + 1 /\ N + 1 \in 1 .. N + 1 /\ N + 1 # 1 /\ N \in 1 .. N
        BY <1>5, EmptySeq
  <2> HIDE DEF t, N
  <2>2. Flattens(f, s, N)
    <3> SUFFICES ASSUME NEW i \in 1 .. N
                 PROVE  f[i] = IF i = 1 THEN s[i] ELSE f[i - 1] \o s[i]
        BY DEF Flattens
    <3>1. i \in 1 .. N + 1
          BY <1>1
    <3> QED BY <1>1, <1>2, <3>1 DEF Flattens
  <2>3. FlattenSeq(s) = f[N]
        BY <1>5, <2>2, FlattenSeqIs DEF N
  <2>4. f[N + 1] = IF N + 1 = 1 THEN t[N + 1] ELSE f[(N + 1) - 1] \o t[N + 1]
        BY <1>2, <2>1, Zenon DEF Flattens
  <2>5. (N + 1) - 1 = N
        BY <1>1
  <2>6. f[N + 1] = f[N] \o e
        BY <1>1, <2>1, <2>4, <2>5, Zenon
  <2>7. f[N] \in Seq(V)
        BY <1>2, <2>1
  <2>8. FlattenSeq(t) = FlattenSeq(s) \o e
        BY <1>3, <2>3, <2>6
  <2> QED BY <2>3, <2>7, <2>8 DEF t
<1> QED BY <1>4, <1>5
=============================================================================
