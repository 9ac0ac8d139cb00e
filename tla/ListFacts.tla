------------------------------ MODULE ListFacts ------------------------------
(***************************************************************************)
(* What adding an element to a list or taking one away does to it and to   *)
(* the set of its elements.                                                *)
(***************************************************************************)
EXTENDS Integers, Sequences, FiniteSets, SequencesExt, FiniteSetTheorems,
        SequenceTheorems, WellFoundedInduction, TLAPS

\* The elements of a list are finitely many, at most one per place.
LEMMA ElementsBound ==
    ASSUME NEW S, NEW s \in Seq(S)
    PROVE  /\ ToSet(s) \subseteq S
           /\ IsFiniteSet(ToSet(s))
           /\ Cardinality(ToSet(s)) <= Len(s)
<1>1. Len(s) \in Nat /\ s \in [1..Len(s) -> S]
  OBVIOUS
<1>2. s \in [1..Len(s) -> ToSet(s)] /\ \A x \in ToSet(s) : \E k \in 1..Len(s) : s[k] = x
  BY <1>1 DEF ToSet
<1>3. s \in Surjection(1..Len(s), ToSet(s))
  BY <1>2 DEF Surjection
<1>4. IsFiniteSet(1..Len(s)) /\ Cardinality(1..Len(s)) = Len(s)
  BY <1>1, FS_Interval
<1>5. IsFiniteSet(ToSet(s)) /\ Cardinality(ToSet(s)) <= Len(s)
  BY <1>3, <1>4, FS_Surjection
<1> QED
  BY <1>1, <1>5 DEF ToSet

\* What is put at the end of a list is the only new element.
LEMMA ElementsAppend ==
    ASSUME NEW S, NEW s \in Seq(S), NEW x \in S
    PROVE  ToSet(Append(s, x)) = ToSet(s) \cup {x}
<1>1. Len(Append(s, x)) = Len(s) + 1 /\ Len(s) \in Nat
  OBVIOUS
<1>2. \A k \in 1..(Len(s) + 1) : Append(s, x)[k] = IF k = Len(s) + 1 THEN x ELSE s[k]
  OBVIOUS
<1>3. ASSUME NEW y \in ToSet(Append(s, x)) PROVE y \in ToSet(s) \cup {x}
  BY <1>1, <1>2 DEF ToSet
<1>4. ASSUME NEW y \in ToSet(s) PROVE y \in ToSet(Append(s, x))
  BY <1>1, <1>2 DEF ToSet
<1>5. x \in ToSet(Append(s, x))
  BY <1>1, <1>2 DEF ToSet
<1> QED
  BY <1>3, <1>4, <1>5

\* Taking the first element off a list leaves the others.
LEMMA ElementsTail ==
    ASSUME NEW S, NEW s \in Seq(S), s # <<>>
    PROVE  /\ Head(s) \in S
           /\ Tail(s) \in Seq(S)
           /\ ToSet(s) = ToSet(Tail(s)) \cup {Head(s)}
<1>1. Len(s) \in Nat /\ Len(s) > 0 /\ Head(s) = s[1] /\ Head(s) \in S
  OBVIOUS
<1>2. /\ Tail(s) \in Seq(S) /\ Len(Tail(s)) = Len(s) - 1
      /\ \A k \in 1..(Len(s) - 1) : Tail(s)[k] = s[k + 1]
  BY <1>1
<1>3. ASSUME NEW y \in ToSet(s) PROVE y \in ToSet(Tail(s)) \cup {Head(s)}
  <2>1. PICK k \in 1..Len(s) : s[k] = y
    BY DEF ToSet
  <2>2. CASE k = 1
    BY <2>1, <2>2, <1>1
  <2>3. CASE k # 1
    <3>1. k - 1 \in 1..(Len(s) - 1) /\ Tail(s)[k - 1] = y
      BY <2>1, <2>3, <1>1, <1>2
    <3>2. DOMAIN Tail(s) = 1..(Len(s) - 1)
      BY <1>2
    <3> QED
      BY <3>1, <3>2 DEF ToSet
  <2> QED
    BY <2>2, <2>3
<1>4. ASSUME NEW y \in ToSet(Tail(s)) PROVE y \in ToSet(s)
  <2>1. PICK k \in 1..(Len(s) - 1) : Tail(s)[k] = y
    BY <1>2 DEF ToSet
  <2>2. k + 1 \in 1..Len(s) /\ s[k + 1] = y
    BY <2>1, <1>1, <1>2
  <2> QED
    BY <2>2 DEF ToSet
<1>5. Head(s) \in ToSet(s)
  BY <1>1 DEF ToSet
<1> QED
  BY <1>1, <1>2, <1>3, <1>4, <1>5

\* A list without its element k.
LEMMA OneTaken ==
    ASSUME NEW S, NEW s \in Seq(S), NEW k \in 1..Len(s)
    PROVE  /\ RemoveAt(s, k) \in Seq(S) /\ Len(RemoveAt(s, k)) = Len(s) - 1
           /\ \A j \in 1..(Len(s) - 1) : RemoveAt(s, k)[j] = s[IF j < k THEN j ELSE j + 1]
<1> DEFINE first == SubSeq(s, 1, k - 1)
           rest == SubSeq(s, k + 1, Len(s))
<1>1. Len(s) \in Nat /\ k \in Nat /\ 1 <= k /\ k <= Len(s) /\ \A i \in 1..Len(s) : s[i] \in S
  OBVIOUS
<1>2. first \in Seq(S) /\ Len(first) = k - 1 /\ \A j \in 1..(k - 1) : first[j] = s[j]
  <2>1. 1 \in Int /\ k - 1 \in Int /\ \A i \in 1..(k - 1) : s[i] \in S
    BY <1>1
  <2>2. /\ first \in Seq(S) /\ Len(first) = (IF 1 <= k - 1 THEN (k - 1) - 1 + 1 ELSE 0)
        /\ \A i \in 1..((k - 1) - 1 + 1) : first[i] = s[1 + i - 1]
    BY <2>1, SubSeqProperties
  <2> HIDE DEF first
  <2> QED
    BY <1>1, <2>2
<1>3. rest \in Seq(S) /\ Len(rest) = Len(s) - k /\ \A j \in 1..(Len(s) - k) : rest[j] = s[k + j]
  <2>1. k + 1 \in Int /\ Len(s) \in Int /\ \A i \in (k + 1)..Len(s) : s[i] \in S
    BY <1>1
  <2>2. /\ rest \in Seq(S) /\ Len(rest) = (IF k + 1 <= Len(s) THEN Len(s) - (k + 1) + 1 ELSE 0)
        /\ \A i \in 1..(Len(s) - (k + 1) + 1) : rest[i] = s[(k + 1) + i - 1]
    BY <2>1, SubSeqProperties
  <2> HIDE DEF rest
  <2> QED
    BY <1>1, <2>2
<1>4. RemoveAt(s, k) = first \o rest
  BY DEF RemoveAt
<1> HIDE DEF first, rest
<1>5. first \o rest \in Seq(S) /\ Len(first \o rest) = Len(s) - 1
  <2>1. first \o rest \in Seq(S) /\ Len(first \o rest) = Len(first) + Len(rest)
    BY <1>2, <1>3, ConcatProperties
  <2> QED
    BY <1>1, <1>2, <1>3, <2>1
<1>6. ASSUME NEW j \in 1..(Len(s) - 1)
      PROVE  (first \o rest)[j] = s[IF j < k THEN j ELSE j + 1]
  <2>1. CASE j < k
    BY <1>1, <1>2, <1>3, <2>1
  <2>2. CASE ~(j < k)
    <3>1. (first \o rest)[j] = rest[j - (k - 1)]
      BY <1>1, <1>2, <1>3, <2>2
    <3>2. j - (k - 1) \in 1..(Len(s) - k) /\ k + (j - (k - 1)) = j + 1
      BY <1>1, <2>2
    <3> QED
      BY <1>3, <2>2, <3>1, <3>2
  <2> QED
    BY <2>1, <2>2
<1> QED
  BY <1>4, <1>5, <1>6

\* A set of natural numbers with an element has a least one: with it, what holds step by step
\* holds for all.
LEMMA Least ==
    ASSUME NEW T, T \subseteq Nat, T # {}
    PROVE  \E n \in T : \A m \in T : n <= m
<1> DEFINE Less == {p \in Nat \X Nat : p[1] < p[2]}
<1>1. IsWellFoundedOn(Less, Nat)
  BY NatLessThanWellFounded DEF OpToRel
<1>2. PICK n \in T : \A m \in T : <<m, n>> \notin Less
  BY <1>1, WFMin
<1>3. ASSUME NEW m \in T PROVE n <= m
  <2>1. n \in Nat /\ m \in Nat
    OBVIOUS
  <2>2. ~(m < n)
    BY <1>2, <2>1
  <2> QED
    BY <2>1, <2>2
<1> QED
  BY <1>3

\* What holds at 0, and after each step if it held before it, holds all along.
LEMMA StepByStep ==
    ASSUME NEW N \in Nat, NEW P, P \subseteq 0..N, 0 \in P, \A n \in 1..N : n - 1 \in P => n \in P
    PROVE  P = 0..N
<1> SUFFICES ASSUME 0..N \ P # {} PROVE FALSE
  OBVIOUS
<1> DEFINE Missing == 0..N \ P
<1>1. Missing \subseteq Nat /\ Missing # {}
  OBVIOUS
<1> HIDE DEF Missing
<1>2. PICK n \in Missing : \A m \in Missing : n <= m
  BY <1>1, Least
<1>3. n \in 1..N /\ n \notin P
  BY <1>2 DEF Missing
<1>4. n - 1 \in P
  BY <1>2, <1>3 DEF Missing
<1> QED
  BY <1>3, <1>4

\* RemoveFirst takes away one place of its element, if the list has one.
LEMMA FirstPlace ==
    ASSUME NEW S, NEW s \in Seq(S), NEW e, e \in ToSet(s)
    PROVE  \E k \in 1..Len(s) : s[k] = e /\ RemoveFirst(s, e) = RemoveAt(s, k)
<1> DEFINE I == {i \in 1..Len(s) : s[i] = e}
           k == SelectInSeq(s, LAMBDA v : v = e)
<1>1. I # {} /\ I \subseteq Nat
  BY DEF ToSet
<1> HIDE DEF I
<1>2. Min(I) \in I
  BY <1>1, Least DEF Min
<1>3. k = Min(I)
  BY <1>1 DEF SelectInSeq, I
<1>4. k \in 1..Len(s) /\ s[k] = e
  BY <1>2, <1>3 DEF I
<1>5. RemoveFirst(s, e) = RemoveAt(s, k)
  BY <1>4 DEF RemoveFirst
<1> HIDE DEF k
<1> QED
  BY <1>4, <1>5

\* RemoveFirst shortens a list by at most one element.
LEMMA Shortened ==
    ASSUME NEW S, NEW s \in Seq(S), NEW e
    PROVE  RemoveFirst(s, e) \in Seq(S) /\ Len(RemoveFirst(s, e)) <= Len(s)
<1>1. CASE e \notin ToSet(s)
  <2>1. RemoveFirst(s, e) = s
    BY <1>1 DEF RemoveFirst, ToSet
  <2> QED
    BY <2>1
<1>2. CASE e \in ToSet(s)
  <2>1. PICK k \in 1..Len(s) : s[k] = e /\ RemoveFirst(s, e) = RemoveAt(s, k)
    BY <1>2, FirstPlace
  <2>2. RemoveAt(s, k) \in Seq(S) /\ Len(RemoveAt(s, k)) = Len(s) - 1
    BY OneTaken
  <2> QED
    BY <2>1, <2>2
<1> QED
  BY <1>1, <1>2

\* From a list without repetitions RemoveFirst takes the element away for good.
LEMMA Leaving ==
    ASSUME NEW S, NEW s \in Seq(S), NEW e, IsInjective(s)
    PROVE  /\ RemoveFirst(s, e) \in Seq(S)
           /\ IsInjective(RemoveFirst(s, e))
           /\ ToSet(RemoveFirst(s, e)) \subseteq ToSet(s) \ {e}
<1>1. CASE e \notin ToSet(s)
  <2>1. RemoveFirst(s, e) = s
    BY <1>1 DEF RemoveFirst, ToSet
  <2> QED
    BY <1>1, <2>1
<1>2. CASE e \in ToSet(s)
  <2>1. PICK k \in 1..Len(s) : s[k] = e /\ RemoveFirst(s, e) = RemoveAt(s, k)
    BY <1>2, FirstPlace
  <2> DEFINE t == RemoveAt(s, k)
  <2>2. Len(s) \in Nat /\ DOMAIN s = 1..Len(s)
    OBVIOUS
  <2>3. /\ t \in Seq(S) /\ Len(t) = Len(s) - 1
        /\ \A j \in 1..(Len(s) - 1) : t[j] = s[IF j < k THEN j ELSE j + 1]
    BY <2>1, OneTaken
  <2> HIDE DEF t
  <2>4. DOMAIN t = 1..(Len(s) - 1)
    BY <2>3
  <2>5. ASSUME NEW j \in DOMAIN t
         PROVE  \E n \in DOMAIN s : n # k /\ t[j] = s[n] /\ n = IF j < k THEN j ELSE j + 1
    BY <2>2, <2>1, <2>3, <2>4
  <2>6. IsInjective(t)
    <3> SUFFICES ASSUME NEW a \in DOMAIN t, NEW b \in DOMAIN t, t[a] = t[b] PROVE a = b
      BY DEF IsInjective
    <3>1. PICK n \in DOMAIN s : n # k /\ t[a] = s[n] /\ n = IF a < k THEN a ELSE a + 1
      BY <2>5
    <3>2. PICK m \in DOMAIN s : m # k /\ t[b] = s[m] /\ m = IF b < k THEN b ELSE b + 1
      BY <2>5
    <3>3. n = m
      BY <3>1, <3>2 DEF IsInjective
    <3> QED
      BY <2>2, <2>1, <2>4, <3>1, <3>2, <3>3
  <2>7. ASSUME NEW x \in ToSet(t) PROVE x \in ToSet(s) /\ x # e
    <3>1. PICK j \in DOMAIN t : x = t[j]
      BY DEF ToSet
    <3>2. PICK n \in DOMAIN s : n # k /\ t[j] = s[n]
      BY <2>5
    <3>3. s[n] # s[k] /\ s[n] \in ToSet(s)
      BY <2>2, <2>1, <3>2 DEF IsInjective, ToSet
    <3> QED
      BY <2>1, <3>1, <3>2, <3>3
  <2> QED
    BY <2>1, <2>3, <2>6, <2>7 DEF t
<1> QED
  BY <1>1, <1>2

=============================================================================
