--------------------------- MODULE RecommendProofs ---------------------------
(***************************************************************************)
(* Theorems about Recommend and RangeBounds: whatever the tools answer and *)
(* whichever call fails, the result meets what is required, comes in the   *)
(* order meant, and nothing that fits is lost below the limits.            *)
(***************************************************************************)
EXTENDS Recommend, ListFacts

-----------------------------------------------------------------------------
\* The bounds sent to discover_movies against the exact test of the backend.

\* A strict bound on a year or a running time becomes the next integer: the
\* discovery asked for inclusive bounds keeps exactly the movies that
\* _range_contains accepts, for every range, the contradictory ones included,
\* and also when the movie has no year or no running time.
THEOREM IntegerBoundsExact ==
    ASSUME NEW r \in IntRange, NEW v \in Int \cup {None}
    PROVE  Between(IntegerLowerBound(r), IntegerUpperBound(r), v) <=> RangeContains(r, v)
<1> USE NoneAssumption
<1> DEFINE lower == IntegerLowerBound(r)
           upper == IntegerUpperBound(r)
<1>1. /\ r.minimum \in Int \cup {None} /\ r.maximum \in Int \cup {None}
      /\ r.minimum_inclusive \in BOOLEAN /\ r.maximum_inclusive \in BOOLEAN
  BY DEF IntRange
<1>2. lower = None <=> r.minimum = None
  BY <1>1 DEF IntegerLowerBound
<1>3. upper = None <=> r.maximum = None
  BY <1>1 DEF IntegerUpperBound
<1>4. CASE v = None
  BY <1>2, <1>3, <1>4 DEF Between, RangeContains, HasBounds
<1>5. CASE v \in Int
  <2>1. (lower # None => v >= lower) <=> AboveMinimum(r, v)
    <3>1. CASE r.minimum = None
      BY <1>2, <3>1 DEF AboveMinimum
    <3>2. CASE r.minimum # None /\ r.minimum_inclusive
      BY <1>1, <1>5, <3>2 DEF AboveMinimum, IntegerLowerBound
    <3>3. CASE r.minimum # None /\ ~r.minimum_inclusive
      BY <1>1, <1>5, <3>3 DEF AboveMinimum, IntegerLowerBound
    <3> QED
      BY <3>1, <3>2, <3>3
  <2>2. (upper # None => v <= upper) <=> BelowMaximum(r, v)
    <3>1. CASE r.maximum = None
      BY <1>3, <3>1 DEF BelowMaximum
    <3>2. CASE r.maximum # None /\ r.maximum_inclusive
      BY <1>1, <1>5, <3>2 DEF BelowMaximum, IntegerUpperBound
    <3>3. CASE r.maximum # None /\ ~r.maximum_inclusive
      BY <1>1, <1>5, <3>3 DEF BelowMaximum, IntegerUpperBound
    <3> QED
      BY <3>1, <3>2, <3>3
  <2>3. v # None
    BY <1>5
  <2>4. ~HasBounds(r) => AboveMinimum(r, v) /\ BelowMaximum(r, v)
    BY DEF HasBounds, AboveMinimum, BelowMaximum
  <2> QED
    BY <2>1, <2>2, <2>3, <2>4 DEF Between, RangeContains
<1> QED
  BY <1>4, <1>5

\* The bounds of a TMDB rating are sent as they are, strict or not: the
\* discovery may list a movie that the backend then refuses, and never hides
\* one that it accepts.
THEOREM RatingBoundsHideNothing ==
    ASSUME NEW r \in IntRange, NEW v \in Int \cup {None}, RangeContains(r, v)
    PROVE  Between(r.minimum, r.maximum, v)
<1> USE NoneAssumption
<1>1. r.minimum \in Int \cup {None} /\ r.maximum \in Int \cup {None}
  BY DEF IntRange
<1>2. CASE ~HasBounds(r)
  BY <1>2 DEF HasBounds, Between
<1>3. CASE HasBounds(r)
  <2>1. v \in Int /\ v # None /\ AboveMinimum(r, v) /\ BelowMaximum(r, v)
    BY <1>3 DEF RangeContains
  <2>2. r.minimum # None => v >= r.minimum
    BY <1>1, <2>1 DEF AboveMinimum
  <2>3. r.maximum # None => v <= r.maximum
    BY <1>1, <2>1 DEF BelowMaximum
  <2> QED
    BY <2>1, <2>2, <2>3 DEF Between
<1> QED
  BY <1>2, <1>3

-----------------------------------------------------------------------------
\* Lists put in an order.

StrictOrder(P, R) ==
    /\ \A i \in P : <<i, i>> \notin R
    /\ \A i, j \in P : i # j => <<i, j>> \in R \/ <<j, i>> \in R
    /\ \A i, j, k \in P : <<i, j>> \in R /\ <<j, k>> \in R => <<i, k>> \in R

\* at lists the positions in P, each once, in the order R
Lists(at, P, R) ==
    /\ at \in [1..Cardinality(P) -> P]
    /\ \A i \in P : \E k \in 1..Cardinality(P) : at[k] = i
    /\ \A k, l \in 1..Cardinality(P) : k < l => <<at[k], at[l]>> \in R

\* the list t takes its elements from the places of s in P, in the order R
TakesFrom(t, s, P, R) ==
    \E at : Lists(at, P, R) /\ t = [k \in 1..Cardinality(P) |-> s[at[k]]]

\* A finite set of positions in a strict order has a first one, a second one and so on:
\* Arrange takes the elements of the list from them.
LEMMA Arranged ==
    ASSUME NEW s, NEW P, NEW R, IsFiniteSet(P), StrictOrder(P, R)
    PROVE  TakesFrom(Arrange(s, P, R), s, P, R)
<1> DEFINE N == Cardinality(P)
           before(i) == {j \in P : <<j, i>> \in R}
           place == [i \in P |-> Cardinality(before(i)) + 1]
           at == [k \in 1..N |-> CHOOSE i \in P : place[i] = k]
<1>1. N \in Nat
  BY FS_CardinalityType
<1>2. ASSUME NEW i \in P
      PROVE  IsFiniteSet(before(i)) /\ Cardinality(before(i)) \in Nat /\ Cardinality(before(i)) < N
  <2> DEFINE B == before(i)
  <2>1. B \in SUBSET P /\ B # P
    BY DEF StrictOrder
  <2> HIDE DEF B
  <2>2. IsFiniteSet(B) /\ Cardinality(B) <= N /\ N # Cardinality(B)
    BY <2>1, FS_Subset
  <2>3. Cardinality(B) \in Nat
    BY <2>2, FS_CardinalityType
  <2>4. IsFiniteSet(B) /\ Cardinality(B) \in Nat /\ Cardinality(B) < N
    BY <1>1, <2>2, <2>3
  <2> QED
    BY <2>4 DEF B
<1>3. place \in [P -> 1..N]
  <2> HIDE DEF before
  <2>1. ASSUME NEW i \in P PROVE Cardinality(before(i)) + 1 \in 1..N
    BY <1>1, <1>2
  <2> QED
    BY <2>1
<1>4. ASSUME NEW i \in P, NEW j \in P, <<i, j>> \in R PROVE place[i] < place[j]
  <2> DEFINE B == before(i)
             C == before(j)
  <2>1. B \in SUBSET C /\ i \in C /\ i \notin B
    BY <1>4 DEF StrictOrder
  <2>2. IsFiniteSet(B) /\ Cardinality(B) \in Nat /\ IsFiniteSet(C) /\ Cardinality(C) \in Nat
    BY <1>2
  <2>3. place[i] = Cardinality(B) + 1 /\ place[j] = Cardinality(C) + 1
    OBVIOUS
  <2> HIDE DEF B, C
  <2>4. Cardinality(B) <= Cardinality(C) /\ Cardinality(B) # Cardinality(C)
    BY <2>1, <2>2, FS_Subset
  <2> HIDE DEF place
  <2> QED
    BY <2>2, <2>3, <2>4
<1> HIDE DEF place
<1>5. place \in Injection(P, 1..N)
  <2>1. ASSUME NEW i \in P, NEW j \in P, place[i] = place[j] PROVE i = j
    <3>1. place[i] \in Nat /\ place[j] \in Nat
      BY <1>3
    <3>2. ~(place[i] < place[j]) /\ ~(place[j] < place[i])
      BY <2>1, <3>1
    <3> QED
      BY <1>4, <3>2 DEF StrictOrder
  <2> QED
    BY <1>3, <2>1 DEF Injection, IsInjective
<1>6. place \in Surjection(P, 1..N)
  <2>1. IsFiniteSet(1..N) /\ Cardinality(1..N) = N
    BY <1>1, FS_Interval
  <2> QED
    BY ONLY <1>5, <2>1, FS_Injection
<1>7. \A k \in 1..N : \E i \in P : place[i] = k
  BY <1>6 DEF Surjection
<1>8. \A k \in 1..N : at[k] \in P /\ place[at[k]] = k
  BY <1>7
<1>9. Lists(at, P, R)
  <2>1. at \in [1..N -> P]
    BY <1>8
  <2>2. ASSUME NEW i \in P PROVE at[place[i]] = i /\ place[i] \in 1..N
    <3>1. place[i] \in 1..N
      BY <1>3
    <3>2. at[place[i]] \in P /\ place[at[place[i]]] = place[i]
      BY <1>8, <3>1
    <3> HIDE DEF at
    <3> QED
      BY <1>5, <3>1, <3>2 DEF Injection, IsInjective
  <2>3. ASSUME NEW k \in 1..N, NEW l \in 1..N, k < l PROVE <<at[k], at[l]>> \in R
    <3>1. at[k] \in P /\ at[l] \in P /\ place[at[k]] = k /\ place[at[l]] = l
      BY <1>8
    <3> HIDE DEF at
    <3>2. ~(place[at[l]] < place[at[k]]) /\ at[k] # at[l]
      BY <1>1, <2>3, <3>1
    <3> QED
      BY <1>4, <3>1, <3>2 DEF StrictOrder
  <2> HIDE DEF at
  <2> QED
    BY <2>1, <2>2, <2>3 DEF Lists
<1>10. Arrange(s, P, R) = [k \in 1..N |-> s[at[k]]]
  <2> DEFINE ranked(i) == Cardinality({j \in P : <<j, i>> \in R}) + 1
  <2>1. \A i \in P : place[i] = ranked(i)
    BY DEF place
  <2>2. Arrange(s, P, R) = [k \in 1..N |-> s[CHOOSE i \in P : ranked(i) = k]]
    BY DEF Arrange
  <2> HIDE DEF ranked
  <2>3. ASSUME NEW k \in 1..N PROVE at[k] = CHOOSE i \in P : ranked(i) = k
    <3>1. at[k] = CHOOSE i \in P : place[i] = k
      OBVIOUS
    <3>2. \A i \in P : place[i] = k <=> ranked(i) = k
      BY <2>1
    <3> QED
      BY <3>1, <3>2, Zenon
  <2> HIDE DEF at
  <2> QED
    BY <2>2, <2>3, Zenon
<1> HIDE DEF at
<1> QED
  BY <1>9, <1>10, Zenon DEF TakesFrom

Ordered(s, R) == \A i, j \in DOMAIN s : i < j => <<s[i], s[j]>> \in R

\* the positions in P are those of the list t, in their order
KeepsPlaces(t, s, P) ==
    \E at \in [DOMAIN t -> P] :
        /\ \A i \in P : \E k \in DOMAIN t : at[k] = i
        /\ \A k, l \in DOMAIN t : k < l => at[k] < at[l]
        /\ \A k \in DOMAIN t : t[k] = s[at[k]]

\* The list built from places of another one is a list of the same elements.
LEMMA Picked ==
    ASSUME NEW T, NEW s \in Seq(T), NEW P, P \subseteq DOMAIN s,
           NEW R, StrictOrder(P, R)
    PROVE  /\ Arrange(s, P, R) \in Seq(T)
           /\ Len(Arrange(s, P, R)) = Cardinality(P)
           /\ TakesFrom(Arrange(s, P, R), s, P, R)
<1>1. Len(s) \in Nat /\ DOMAIN s = 1..Len(s) /\ \A i \in DOMAIN s : s[i] \in T
  OBVIOUS
<1>2. IsFiniteSet(P) /\ Cardinality(P) \in Nat
  <2>1. IsFiniteSet(1..Len(s))
    BY <1>1, FS_Interval
  <2>2. IsFiniteSet(P)
    BY <1>1, <2>1, FS_Subset
  <2> QED
    BY <2>2, FS_CardinalityType
<1>3. TakesFrom(Arrange(s, P, R), s, P, R)
  BY <1>2, Arranged
<1>4. PICK at : Lists(at, P, R) /\ Arrange(s, P, R) = [k \in 1..Cardinality(P) |-> s[at[k]]]
  BY <1>3, Zenon DEF TakesFrom
<1>5. \A k \in 1..Cardinality(P) : at[k] \in P
  BY <1>4 DEF Lists
<1> DEFINE t == [k \in 1..Cardinality(P) |-> s[at[k]]]
<1>6. t \in Seq(T) /\ Len(t) = Cardinality(P)
  BY <1>1, <1>2, <1>5
<1> HIDE DEF t
<1>7. Arrange(s, P, R) = t
  BY <1>4, Zenon DEF t
<1> QED
  BY <1>3, <1>6, <1>7

\* Keeping some places of a list keeps their order.
LEMMA Kept ==
    ASSUME NEW T, NEW s \in Seq(T), NEW P, P \subseteq DOMAIN s
    PROVE  Keep(s, P) \in Seq(T) /\ KeepsPlaces(Keep(s, P), s, P)
<1> DEFINE R == {p \in P \X P : p[1] < p[2]}
           t == Keep(s, P)
<1>1. P \subseteq Nat
  OBVIOUS
<1>2. \A i, j \in P : <<i, j>> \in R <=> i < j
  OBVIOUS
<1>3. t = Arrange(s, P, R)
  BY DEF Keep
<1> HIDE DEF R, t
<1>4. StrictOrder(P, R)
  BY <1>1, <1>2 DEF StrictOrder
<1>5. t \in Seq(T) /\ Len(t) = Cardinality(P)
  BY <1>3, <1>4, Picked
<1>6. PICK at : Lists(at, P, R) /\ t = [k \in 1..Cardinality(P) |-> s[at[k]]]
  <2>1. TakesFrom(t, s, P, R)
    BY <1>3, <1>4, Picked
  <2> QED
    BY <2>1, Zenon DEF TakesFrom
<1>7. DOMAIN t = 1..Cardinality(P)
  BY <1>5
<1>8. at \in [DOMAIN t -> P] /\ \A i \in P : \E k \in DOMAIN t : at[k] = i
  BY <1>6, <1>7 DEF Lists
<1>9. \A k, l \in DOMAIN t : k < l => at[k] < at[l]
  BY <1>2, <1>6, <1>7, <1>8 DEF Lists
<1>10. \A k \in DOMAIN t : t[k] = s[at[k]]
  BY <1>6, <1>7
<1>11. KeepsPlaces(t, s, P)
  BY <1>8, <1>9, <1>10, Zenon DEF KeepsPlaces
<1> QED
  BY <1>5, <1>11 DEF t

\* A filter keeps exactly the elements that are in the set, once each if they were there
\* once, and in their order.
LEMMA Filtered ==
    ASSUME NEW T, NEW s \in Seq(T), NEW S
    PROVE  /\ Filter(s, S) \in Seq(T)
           /\ ToSet(Filter(s, S)) = ToSet(s) \cap S
           /\ IsInjective(s) => IsInjective(Filter(s, S))
           /\ \A R : Ordered(s, R) => Ordered(Filter(s, S), R)
<1> DEFINE P == {i \in DOMAIN s : s[i] \in S}
           t == Filter(s, S)
<1>1. t \in Seq(T) /\ KeepsPlaces(t, s, P)
  BY Kept DEF Filter
<1> HIDE DEF t
<1>2. PICK at \in [DOMAIN t -> P] :
        /\ \A i \in P : \E k \in DOMAIN t : at[k] = i
        /\ \A k, l \in DOMAIN t : k < l => at[k] < at[l]
        /\ \A k \in DOMAIN t : t[k] = s[at[k]]
  BY <1>1 DEF KeepsPlaces
<1>3. P \subseteq DOMAIN s /\ \A i \in DOMAIN s : i \in P <=> s[i] \in S
  OBVIOUS
<1> HIDE DEF P
<1>4. \A k \in DOMAIN t : at[k] \in P /\ at[k] \in DOMAIN s
  BY <1>2, <1>3
<1>5. ToSet(t) = ToSet(s) \cap S
  <2>1. ASSUME NEW x \in ToSet(t) PROVE x \in ToSet(s) \cap S
    BY <1>2, <1>3, <1>4 DEF ToSet
  <2>2. ASSUME NEW x \in ToSet(s) \cap S PROVE x \in ToSet(t)
    <3>1. PICK i \in DOMAIN s : s[i] = x
      BY DEF ToSet
    <3>2. PICK k \in DOMAIN t : at[k] = i
      BY <1>2, <1>3, <3>1
    <3> QED
      BY <1>2, <3>1, <3>2 DEF ToSet
  <2> QED
    BY <2>1, <2>2
<1>6. \A k, l \in DOMAIN t : at[k] = at[l] => k = l
  <2>1. DOMAIN t \subseteq Nat /\ DOMAIN s \subseteq Nat
    BY <1>1
  <2> QED
    BY <1>2, <1>4, <2>1
<1>7. IsInjective(s) => IsInjective(t)
  BY <1>2, <1>4, <1>6 DEF IsInjective
<1>8. ASSUME NEW R, Ordered(s, R) PROVE Ordered(t, R)
  BY <1>2, <1>4, <1>8 DEF Ordered
<1> QED
  BY <1>1, <1>5, <1>7, <1>8 DEF t

\* What _deduplicate returns: every movie listed, once, and nothing without an identifier.
LEMMA Deduplicated ==
    ASSUME NEW s \in Seq(Movies \cup {NoId})
    PROVE  /\ Deduplicate(s) \in Seq(Movies)
           /\ ToSet(Deduplicate(s)) = Ids(s)
           /\ IsInjective(Deduplicate(s))
<1> DEFINE T == Movies \cup {NoId}
           P == {i \in DOMAIN s : s[i] # NoId /\ \A j \in DOMAIN s : s[j] = s[i] => i <= j}
           t == Deduplicate(s)
<1>1. t \in Seq(T) /\ KeepsPlaces(t, s, P)
  BY Kept DEF Deduplicate
<1>2. P \subseteq DOMAIN s /\ DOMAIN s \subseteq Nat /\ \A i \in DOMAIN s : s[i] \in T
  OBVIOUS
<1>3. \A i \in P : s[i] # NoId /\ \A j \in P : s[j] = s[i] => i = j
  OBVIOUS
<1>4. ASSUME NEW x \in Ids(s) PROVE \E i \in P : s[i] = x
  <2> DEFINE Same == {i \in DOMAIN s : s[i] = x}
  <2>1. Same \subseteq Nat /\ Same # {}
    BY DEF Ids, ToSet
  <2> HIDE DEF Same
  <2>2. PICK n \in Same : \A m \in Same : n <= m
    BY <2>1, Least
  <2>3. n \in DOMAIN s /\ s[n] = x /\ x # NoId
    BY <2>2 DEF Same, Ids
  <2>4. \A j \in DOMAIN s : s[j] = s[n] => n <= j
    BY <2>2, <2>3 DEF Same
  <2> QED
    BY <2>3, <2>4
<1> HIDE DEF t, P
<1>5. PICK at \in [DOMAIN t -> P] :
        /\ \A i \in P : \E k \in DOMAIN t : at[k] = i
        /\ \A k, l \in DOMAIN t : k < l => at[k] < at[l]
        /\ \A k \in DOMAIN t : t[k] = s[at[k]]
  BY <1>1 DEF KeepsPlaces
<1>6. \A k \in DOMAIN t : at[k] \in P
  BY <1>5
<1>7. \A k \in DOMAIN t : t[k] \in Movies
  BY <1>2, <1>3, <1>5, <1>6
<1>8. t \in Seq(Movies)
  <2>1. Len(t) \in Nat /\ DOMAIN t = 1..Len(t) /\ t = [k \in 1..Len(t) |-> t[k]]
    BY <1>1
  <2> QED
    BY <1>7, <2>1
<1>9. ToSet(t) = Ids(s)
  <2>1. ASSUME NEW x \in ToSet(t) PROVE x \in Ids(s)
    BY <1>2, <1>3, <1>5, <1>6 DEF ToSet, Ids
  <2>2. ASSUME NEW x \in Ids(s) PROVE x \in ToSet(t)
    BY <1>4, <1>5 DEF ToSet
  <2> QED
    BY <2>1, <2>2
<1>10. IsInjective(t)
  <2> SUFFICES ASSUME NEW k \in DOMAIN t, NEW l \in DOMAIN t, t[k] = t[l] PROVE k = l
    BY DEF IsInjective
  <2>1. at[k] = at[l]
    BY <1>3, <1>5, <1>6
  <2>2. k \in Nat /\ l \in Nat /\ at[k] \in Nat
    BY <1>1, <1>2, <1>6
  <2> QED
    BY <1>5, <2>1, <2>2
<1> QED
  BY <1>8, <1>9, <1>10 DEF t

\* A sort by a key changes nothing but the order, and is stable: of two results the first has
\* the larger key, or the same one and came first before.
LEMMA SortedByKey ==
    ASSUME NEW s \in Seq(Movies), NEW key \in [Movies -> Int]
    PROVE  LET t == SortDescending(s, key) IN
           /\ t \in Seq(Movies)
           /\ ToSet(t) = ToSet(s)
           /\ IsInjective(s) => IsInjective(t)
           /\ \A R : Ordered(s, R) =>
                \A k, l \in DOMAIN t : k < l =>
                    \/ key[t[k]] > key[t[l]]
                    \/ key[t[k]] = key[t[l]] /\ <<t[k], t[l]>> \in R
<1> DEFINE P == DOMAIN s
           B == {p \in P \X P : \/ key[s[p[1]]] > key[s[p[2]]]
                                \/ key[s[p[1]]] = key[s[p[2]]] /\ p[1] < p[2]}
           before(i, j) == \/ key[s[i]] > key[s[j]]
                           \/ key[s[i]] = key[s[j]] /\ i < j
           t == SortDescending(s, key)
<1>1. P \subseteq Nat /\ \A i \in P : s[i] \in Movies /\ key[s[i]] \in Int
  OBVIOUS
<1>2. ASSUME NEW i \in P, NEW j \in P
      PROVE  <<i, j>> \in B <=> before(i, j)
  <2> HIDE DEF P
  <2>1. <<i, j>> \in P \X P /\ <<i, j>>[1] = i /\ <<i, j>>[2] = j
    OBVIOUS
  <2> QED
    BY <2>1, Zenon
<1>3. t = Arrange(s, P, B)
  BY DEF SortDescending
<1>4. P \subseteq DOMAIN s
  OBVIOUS
<1> HIDE DEF B, t
<1>5. StrictOrder(P, B)
  <2> HIDE DEF P
  <2>1. \A i \in P : <<i, i>> \notin B
    BY <1>1, <1>2
  <2>2. ASSUME NEW i \in P, NEW j \in P, i # j PROVE <<i, j>> \in B \/ <<j, i>> \in B
    <3>1. key[s[i]] \in Int /\ key[s[j]] \in Int /\ i \in Nat /\ j \in Nat
      BY <1>1
    <3>2. before(i, j) \/ before(j, i)
      BY <2>2, <3>1
    <3> HIDE DEF before
    <3> QED
      BY <1>2, <3>2
  <2>3. ASSUME NEW i \in P, NEW j \in P, NEW k \in P, <<i, j>> \in B, <<j, k>> \in B
        PROVE  <<i, k>> \in B
    <3>1. before(i, j) /\ before(j, k)
      BY <1>2, <2>3, Zenon
    <3>2. /\ key[s[i]] \in Int /\ key[s[j]] \in Int /\ key[s[k]] \in Int
          /\ i \in Nat /\ j \in Nat /\ k \in Nat
      BY <1>1
    <3>3. before(i, k)
      BY <3>1, <3>2
    <3> HIDE DEF before
    <3> QED
      BY <1>2, <3>3
  <2> QED
    BY <2>1, <2>2, <2>3 DEF StrictOrder
<1>6. t \in Seq(Movies) /\ Len(t) = Cardinality(P)
  BY <1>3, <1>4, <1>5, Picked
<1>7. PICK at : Lists(at, P, B) /\ t = [k \in 1..Cardinality(P) |-> s[at[k]]]
  <2>1. TakesFrom(t, s, P, B)
    BY <1>3, <1>4, <1>5, Picked
  <2> QED
    BY <2>1, Zenon DEF TakesFrom
<1>8. DOMAIN t = 1..Cardinality(P)
  BY <1>6
<1> HIDE DEF P
<1>9. /\ \A k \in DOMAIN t : at[k] \in P /\ t[k] = s[at[k]]
      /\ \A i \in P : \E k \in DOMAIN t : at[k] = i
      /\ \A k, l \in DOMAIN t : k < l => <<at[k], at[l]>> \in B
  BY <1>7, <1>8 DEF Lists
<1>10. ToSet(t) = ToSet(s)
  <2>1. ASSUME NEW x \in ToSet(t) PROVE x \in ToSet(s)
    BY <1>9 DEF ToSet, P
  <2>2. ASSUME NEW x \in ToSet(s) PROVE x \in ToSet(t)
    BY <1>9 DEF ToSet, P
  <2> QED
    BY <2>1, <2>2
<1>11. ASSUME IsInjective(s) PROVE IsInjective(t)
  <2> SUFFICES ASSUME NEW k \in DOMAIN t, NEW l \in DOMAIN t, t[k] = t[l] PROVE k = l
    BY DEF IsInjective
  <2>1. at[k] \in P /\ at[l] \in P /\ at[k] = at[l]
    BY <1>9, <1>11 DEF IsInjective, P
  <2>2. k \in Nat /\ l \in Nat
    BY <1>6
  <2>3. ~(k < l) /\ ~(l < k)
    BY <1>5, <1>9, <2>1 DEF StrictOrder
  <2> QED
    BY <2>2, <2>3
<1>12. ASSUME NEW R, Ordered(s, R), NEW k \in DOMAIN t, NEW l \in DOMAIN t, k < l
       PROVE  \/ key[t[k]] > key[t[l]]
              \/ key[t[k]] = key[t[l]] /\ <<t[k], t[l]>> \in R
  <2>1. at[k] \in P /\ at[l] \in P /\ t[k] = s[at[k]] /\ t[l] = s[at[l]] /\ <<at[k], at[l]>> \in B
    BY <1>9, <1>12
  <2>2. at[k] < at[l] => <<s[at[k]], s[at[l]]>> \in R
    BY <1>12, <2>1 DEF Ordered, P
  <2>3. before(at[k], at[l])
    BY <1>2, <2>1, Zenon
  <2> QED
    BY <2>1, <2>2, <2>3
<1> QED
  BY <1>6, <1>10, <1>11, <1>12, Zenon DEF t

-----------------------------------------------------------------------------
\* Lemmas about ordered lists.

\* Nothing is out of order in an empty list.
LEMMA NothingListed ==
    ToSet(<<>>) = {} /\ IsInjective(<<>>) /\ \A R : Ordered(<<>>, R)
<1>1. DOMAIN <<>> = {}
  OBVIOUS
<1> QED
  BY <1>1 DEF ToSet, IsInjective, Ordered

\* In a list without repetitions an element is at the place it is looked up at.
LEMMA AtItsPlace ==
    ASSUME NEW s, IsInjective(s), NEW i \in DOMAIN s
    PROVE  (CHOOSE j \in DOMAIN s : s[j] = s[i]) = i
  BY DEF IsInjective

\* The first element of an ordered list comes before the others, which stay in order.
LEMMA FirstTaken ==
    ASSUME NEW T, NEW s \in Seq(T), s # <<>>, IsInjective(s), NEW R, Ordered(s, R)
    PROVE  /\ Tail(s) \in Seq(T) /\ IsInjective(Tail(s)) /\ Ordered(Tail(s), R)
           /\ Head(s) \notin ToSet(Tail(s))
           /\ \A x \in ToSet(Tail(s)) : <<Head(s), x>> \in R
<1> DEFINE t == Tail(s)
<1>1. Len(s) \in Nat /\ Len(s) > 0 /\ Head(s) = s[1] /\ DOMAIN s = 1..Len(s)
  OBVIOUS
<1>2. /\ t \in Seq(T) /\ Len(t) = Len(s) - 1
      /\ \A k \in 1..(Len(s) - 1) : t[k] = s[k + 1]
  BY <1>1
<1> HIDE DEF t
<1>3. DOMAIN t = 1..(Len(s) - 1)
  BY <1>2
<1>4. ASSUME NEW k \in DOMAIN t PROVE k + 1 \in DOMAIN s /\ t[k] = s[k + 1] /\ k \in Nat /\ 1 < k + 1
  BY <1>1, <1>2, <1>3
<1>5. IsInjective(t)
  <2> SUFFICES ASSUME NEW k \in DOMAIN t, NEW l \in DOMAIN t, t[k] = t[l] PROVE k = l
    BY DEF IsInjective
  <2>1. k + 1 = l + 1
    BY <1>4 DEF IsInjective
  <2> QED
    BY <1>4, <2>1
<1>6. Ordered(t, R)
  <2> SUFFICES ASSUME NEW k \in DOMAIN t, NEW l \in DOMAIN t, k < l PROVE <<t[k], t[l]>> \in R
    BY DEF Ordered
  <2>1. k + 1 < l + 1
    BY <1>4
  <2> QED
    BY <1>4, <2>1 DEF Ordered
<1>7. ASSUME NEW k \in DOMAIN t PROVE t[k] # Head(s) /\ <<Head(s), t[k]>> \in R
  <2>1. 1 \in DOMAIN s /\ 1 # k + 1
    BY <1>1, <1>4
  <2> QED
    BY <1>1, <1>4, <2>1 DEF IsInjective, Ordered
<1> QED
  BY <1>2, <1>5, <1>6, <1>7 DEF ToSet, t

\* What comes after every element may be put at the end of an ordered list.
LEMMA LastAdded ==
    ASSUME NEW T, NEW s \in Seq(T), NEW x \in T, NEW R, Ordered(s, R),
           \A y \in ToSet(s) : <<y, x>> \in R
    PROVE  Ordered(Append(s, x), R)
<1> DEFINE t == Append(s, x)
<1>1. Len(s) \in Nat /\ DOMAIN s = 1..Len(s) /\ DOMAIN t = 1..(Len(s) + 1)
  OBVIOUS
<1>2. /\ \A k \in 1..Len(s) : t[k] = s[k]
      /\ t[Len(s) + 1] = x
  OBVIOUS
<1> HIDE DEF t
<1>3. ASSUME NEW k \in DOMAIN t, NEW l \in DOMAIN t, k < l PROVE <<t[k], t[l]>> \in R
  <2>1. k \in DOMAIN s /\ t[k] = s[k]
    BY <1>1, <1>2, <1>3
  <2>2. CASE l = Len(s) + 1
    BY <1>2, <2>1, <2>2 DEF ToSet
  <2>3. CASE l # Len(s) + 1
    <3>1. l \in DOMAIN s /\ t[l] = s[l]
      BY <1>1, <1>2, <2>3
    <3> QED
      BY <1>3, <2>1, <3>1 DEF Ordered
  <2> QED
    BY <2>2, <2>3
<1> QED
  BY <1>3 DEF Ordered, t

-----------------------------------------------------------------------------
\* The inductive invariant.

RankOrder == {p \in Movies \X Movies : RanksBefore(p[1], p[2])}
ResultsOrder == {p \in Movies \X Movies : Precedes(p[1], p[2])}

InRange == {m \in ToSet(found) : RangeContains(request.imdb, ratings[m])}

\* before the candidates are chosen
Searching == stage \in {"start", "resolve", "find", "crosscheck"}

\* the movies are being loaded, or were until the end or a failure
Loading == stage \in {"load", "enrich", "done"} \/ movies # <<>>

\* What is not there yet at each stage, and what stops a request with an unknown name.
NothingYet ==
    /\ Searching => found = <<>> /\ offered = {}
    /\ Searching \/ stage = "rate" => ratings = [m \in Movies |-> None] /\ similar = {}
    /\ Searching \/ stage \in {"rate", "favorites"}
           => movies = <<>> /\ details = [m \in Movies |-> None]
    /\ stage \in {"start", "resolve"} => candidates = <<>>
    /\ unresolved => stage \in {"start", "resolve", "done", "failed"} /\ found = <<>> /\ movies = <<>>

\* The shortlist has each movie once, and every one that was offered and has a required year
\* unless the limit cut it short; none but movies that every source listed.
Shortlisted ==
    /\ IsInjective(found)
    /\ stage \in {"rate", "favorites", "load", "enrich", "done"} /\ Len(found) < CandidateLimit
           => \A m \in offered : RangeContains(request.year, Year[m]) => m \in ToSet(found)
    /\ stage = "rate" => candidates = found
    /\ ToSet(found) \subseteq offered
    /\ found # <<>> /\ request.crosscheck => discovered

\* The candidates while the favourites are asked about.
Ranked ==
    stage = "favorites" =>
        /\ candidates \in Seq(Movies) /\ IsInjective(candidates)
        /\ ToSet(candidates) = InRange
        /\ Ordered(candidates, RankOrder)

\* Each movie in range is loaded or waits among the candidates, which come after every result
\* in the order of the results; a loaded one is a result exactly when it fits.
BeingLoaded ==
    Loading =>
        /\ candidates \in Seq(Movies) /\ IsInjective(candidates)
        /\ ToSet(candidates) \subseteq ToSet(found)
        /\ \A m \in ToSet(candidates) : details[m] = None
        /\ \A m \in InRange : m \in ToSet(candidates) \/ details[m] # None
        /\ \A m \in Movies : details[m] # None => m \in ToSet(found)
        /\ \A m \in Movies : m \in ToSet(movies) <=> Fits(m)
        /\ Ordered(candidates, ResultsOrder)
        /\ Ordered(movies, ResultsOrder)
        /\ \A c \in ToSet(movies), m \in ToSet(candidates) : Precedes(c, m)

\* Loading ends with the candidates or with enough results.
AllLoaded == stage \in {"enrich", "done"} => candidates = <<>> \/ Full

IInv == TypeOK /\ NothingYet /\ Shortlisted /\ Ranked /\ BeingLoaded /\ AllLoaded

-----------------------------------------------------------------------------
\* Lemmas about the parts of recommend().

\* The page of discover_movies is the one for any year without the years not required.
LEMMA Discovering ==
    ASSUME RecommendAssumption, request \in Requests, NEW page \in Answers
    PROVE  /\ Discovered(page) \in Seq(Movies \cup {NoId})
           /\ Ids(Discovered(page)) = {m \in Ids(page) : RangeContains(request.year, Year[m])}
<1> DEFINE T == Movies \cup {NoId}
           S == {NoId} \cup {m \in Movies : Between(IntegerLowerBound(request.year),
                                                    IntegerUpperBound(request.year), Year[m])}
           t == Discovered(page)
<1>1. page \in Seq(T)
  BY DEF RecommendAssumption
<1>2. request.year \in IntRange /\ \A m \in Movies : Year[m] \in Int \cup {None}
  BY DEF RecommendAssumption, Request
<1>3. \A m \in Movies : m \in S <=> m = NoId \/ RangeContains(request.year, Year[m])
  BY <1>2, IntegerBoundsExact
<1>4. t = Filter(page, S)
  BY DEF Discovered
<1>5. NoId \notin Movies
  BY DEF RecommendAssumption
<1> HIDE DEF T, S, t
<1>6. t \in Seq(T) /\ ToSet(t) = ToSet(page) \cap S
  BY <1>1, <1>4, Filtered
<1>7. Ids(page) \subseteq Movies /\ Ids(t) = Ids(page) \cap S
  BY <1>1, <1>6, ElementsBound DEF Ids, T
<1>8. Ids(t) = {m \in Ids(page) : RangeContains(request.year, Year[m])}
  BY <1>3, <1>5, <1>7
<1> QED
  BY <1>6, <1>8 DEF T, t

\* What the shortlist made of a list is, and where recommend() goes on with it.
ShortlistMade(list) ==
    /\ found' \in Seq(Movies) /\ IsInjective(found') /\ Len(found') <= CandidateLimit
    /\ ToSet(found') \subseteq Ids(list)
    /\ Len(found') < CandidateLimit => ToSet(found') = Ids(list)
    /\ candidates' = found'
    /\ \/ stage' = "done" /\ found' = <<>>
       \/ stage' = "rate"
       \/ stage' \in {"favorites", "load"} /\ ~NeedsRatings
    /\ left' \in Nat
    /\ UNCHANGED <<request, unresolved, ratings, similar, details, movies>>

\* There is no more to ask of the favourites than there are.
LEMMA FavoritesNext ==
    ASSUME RecommendAssumption, request \in Requests, ToFavorites
    PROVE  stage' \in {"favorites", "load"} /\ left' \in Nat
  BY DEF RecommendAssumption, Request, ToFavorites

\* The limit on candidates keeps the first ones, each once, of the list it is given.
LEMMA Shortlisting ==
    ASSUME RecommendAssumption, request \in Requests,
           NEW list \in Seq(Movies \cup {NoId}), Shortlist(list)
    PROVE  ShortlistMade(list)
<1> DEFINE unique == Deduplicate(list)
           n == IF Len(unique) < CandidateLimit THEN Len(unique) ELSE CandidateLimit
           kept == SubSeq(unique, 1, n)
<1>1. unique \in Seq(Movies) /\ ToSet(unique) = Ids(list) /\ IsInjective(unique)
  BY Deduplicated
<1>2. /\ candidates' = kept /\ found' = kept
      /\ IF kept = <<>> THEN stage' = "done" /\ left' = 0
         ELSE IF NeedsRatings THEN stage' = "rate" /\ left' = 0
         ELSE ToFavorites
      /\ UNCHANGED <<request, unresolved, ratings, similar, details, movies>>
  BY Zenon DEF Shortlist
<1> HIDE DEF unique
<1>3. Len(unique) \in Nat /\ CandidateLimit \in Nat /\ DOMAIN unique = 1..Len(unique)
  BY <1>1 DEF RecommendAssumption
<1>4. n \in Nat /\ n <= Len(unique) /\ n <= CandidateLimit /\ (n < CandidateLimit => n = Len(unique))
  <2>1. \A a, b \in Nat : \A c : c = (IF a < b THEN a ELSE b)
            => c \in Nat /\ c <= a /\ c <= b /\ (c < b => c = a)
    OBVIOUS
  <2> HIDE DEF kept
  <2> QED
    BY ONLY <1>3, <2>1
<1> HIDE DEF n
<1>5. kept \in Seq(Movies) /\ Len(kept) = n /\ \A i \in 1..n : kept[i] = unique[i]
  <2>1. 1 \in Int /\ n \in Int /\ \A i \in 1..n : unique[i] \in Movies
    <3>1. ASSUME NEW i \in 1..Len(unique) PROVE unique[i] \in Movies
      <4>1. unique \in Seq(Movies) /\ i \in 1..Len(unique)
        BY <1>1
      <4> QED
        BY ONLY <4>1
    <3>2. 1..n \subseteq 1..Len(unique)
      <4>1. Len(unique) \in Nat /\ n \in Nat /\ n <= Len(unique)
        BY <1>3, <1>4
      <4>2. \A a, b \in Nat : a <= b => 1..a \subseteq 1..b
        OBVIOUS
      <4> QED
        BY ONLY <4>1, <4>2, Zenon
    <3> QED
      BY <1>4, <3>1, <3>2
  <2>2. /\ kept \in Seq(Movies) /\ Len(kept) = (IF 1 <= n THEN n - 1 + 1 ELSE 0)
        /\ \A i \in 1..(n - 1 + 1) : kept[i] = unique[1 + i - 1]
    BY <2>1, SubSeqProperties
  <2> HIDE DEF kept
  <2> QED
    BY <1>4, <2>2
<1> HIDE DEF kept
<1>6. DOMAIN kept = 1..n /\ 1..n \subseteq DOMAIN unique
  BY <1>3, <1>4, <1>5
<1>7. IsInjective(kept)
  BY <1>1, <1>5, <1>6 DEF IsInjective
<1>8. ToSet(kept) \subseteq ToSet(unique) /\ (n = Len(unique) => ToSet(kept) = ToSet(unique))
  BY <1>3, <1>5, <1>6 DEF ToSet
<1>9. /\ \/ stage' = "done" /\ kept = <<>>
         \/ stage' = "rate"
         \/ stage' \in {"favorites", "load"} /\ ~NeedsRatings
      /\ left' \in Nat
  BY <1>2, FavoritesNext
<1> QED
  BY <1>1, <1>2, <1>4, <1>5, <1>7, <1>8, <1>9 DEF ShortlistMade

\* the order in which the movies were found
PlaceOrder == {p \in Movies \X Movies : Position(p[1]) < Position(p[2])}

\* Membership in the orders, after a step.
LEMMA OrdersAre ==
    ASSUME NEW c \in Movies, NEW m \in Movies
    PROVE  /\ <<c, m>> \in RankOrder' <=> RanksBefore(c, m)'
           /\ <<c, m>> \in ResultsOrder' <=> Precedes(c, m)'
           /\ <<c, m>> \in PlaceOrder' <=> (Position(c) < Position(m))'
<1>1. <<c, m>> \in Movies \X Movies /\ <<c, m>>[1] = c /\ <<c, m>>[2] = m
  OBVIOUS
<1>2. <<c, m>> \in RankOrder' <=> RanksBefore(c, m)'
  BY <1>1, Zenon DEF RankOrder
<1>3. <<c, m>> \in ResultsOrder' <=> Precedes(c, m)'
  BY <1>1, Zenon DEF ResultsOrder
<1>4. <<c, m>> \in PlaceOrder' <=> (Position(c) < Position(m))'
  BY <1>1, Zenon DEF PlaceOrder
<1> QED
  BY <1>2, <1>3, <1>4

\* The movies found are in the order they were found.
LEMMA FoundInOrder ==
    ASSUME found' \in Seq(Movies), IsInjective(found')
    PROVE  Ordered(found', PlaceOrder')
<1> SUFFICES ASSUME NEW i \in DOMAIN found', NEW j \in DOMAIN found', i < j
             PROVE  <<found'[i], found'[j]>> \in PlaceOrder'
  BY DEF Ordered
<1> DEFINE c == found'[i]
           m == found'[j]
<1>1. c \in Movies /\ m \in Movies
  OBVIOUS
<1>2. (CHOOSE k \in DOMAIN found' : found'[k] = found'[i]) = i
      /\ (CHOOSE k \in DOMAIN found' : found'[k] = found'[j]) = j
  BY AtItsPlace
<1>3. ASSUME NEW x, NEW y, x = found'[i], y = found'[j], x \in Movies, y \in Movies
      PROVE  <<x, y>> \in PlaceOrder'
  <2>1. Position(x)' = i /\ Position(y)' = j
    BY <1>2, <1>3, Zenon DEF Position
  <2>2. (Position(x) < Position(y))'
    BY <2>1
  <2> QED
    BY <1>3, <2>2, OrdersAre
<1> QED
  BY <1>1, <1>3

\* Without ratings in the request the movies rank as they were found.
LEMMA RanksAsFound ==
    ASSUME TypeOK', ~request'.byImdb
    PROVE  RankOrder' = PlaceOrder'
<1>1. \A c, m \in Movies : RanksBefore(c, m)' <=> (Position(c) < Position(m))'
  BY DEF RanksBefore
<1>2. RankOrder' = {p \in Movies \X Movies : RanksBefore(p[1], p[2])'}
  BY DEF RankOrder
<1>3. PlaceOrder' = {p \in Movies \X Movies : (Position(p[1]) < Position(p[2]))'}
  BY DEF PlaceOrder
<1>4. \A p \in Movies \X Movies : p[1] \in Movies /\ p[2] \in Movies
  OBVIOUS
<1> QED
  BY <1>1, <1>2, <1>3, <1>4, Zenon

\* Without similar movies the results are in the order of the ranking.
LEMMA ResultsAsRanked ==
    ASSUME similar' = {}
    PROVE  ResultsOrder' = RankOrder'
<1>1. \A c, m \in Movies : Precedes(c, m)' <=> RanksBefore(c, m)'
  BY DEF Precedes
<1>2. RankOrder' = {p \in Movies \X Movies : RanksBefore(p[1], p[2])'}
  BY DEF RankOrder
<1>3. ResultsOrder' = {p \in Movies \X Movies : Precedes(p[1], p[2])'}
  BY DEF ResultsOrder
<1>4. \A p \in Movies \X Movies : p[1] \in Movies /\ p[2] \in Movies
  OBVIOUS
<1> QED
  BY <1>1, <1>2, <1>3, <1>4, Zenon

\* What holds when loading begins, or ends with nothing to load.
LEMMA LoadingBegins ==
    ASSUME RecommendAssumption,
           movies' = <<>>, details' = [m \in Movies |-> None],
           candidates' \in Seq(Movies), IsInjective(candidates'),
           ToSet(candidates') = InRange', Ordered(candidates', ResultsOrder')
    PROVE  BeingLoaded'
<1>1. \A m \in Movies : details'[m] = None
  OBVIOUS
<1>2. ToSet(movies') = {} /\ Ordered(movies', ResultsOrder')
  BY NothingListed
<1>3. ToSet(candidates') \subseteq Movies /\ InRange' \subseteq ToSet(found')
  BY ElementsBound DEF InRange
<1>4. \A m \in Movies : ~Fits(m)'
  BY <1>1 DEF Fits
<1>5. \A m \in ToSet(candidates') : details'[m] = None
  BY <1>1, <1>3
<1>6. \A c \in ToSet(movies'), m \in ToSet(candidates') : Precedes(c, m)'
  BY <1>2
<1>7. \A m \in Movies : m \in ToSet(movies') <=> Fits(m)'
  BY <1>2, <1>4
<1> QED
  BY <1>1, <1>2, <1>3, <1>5, <1>6, <1>7 DEF BeingLoaded

\* Movies without a rating are in range when no rating is required.
LEMMA NoBoundsNoMiss ==
    ASSUME ~HasBounds(request'.imdb)
    PROVE  InRange' = ToSet(found')
  BY DEF InRange, RangeContains

-----------------------------------------------------------------------------
\* The steps.

\* Nothing has been asked, found or kept at the start.
LEMMA InitOk == RecommendAssumption /\ Init => IInv
<1> SUFFICES ASSUME RecommendAssumption, Init PROVE IInv
  OBVIOUS
<1>1. TypeOK
  <2>1. \A T : <<>> \in Seq(T) /\ Len(<<>>) = 0
    OBVIOUS
  <2>2. /\ groups \in Seq(Seq(Movies \cup {NoId})) /\ candidates \in Seq(Movies \cup {NoId})
        /\ found \in Seq(Movies) /\ Len(found) = 0 /\ movies \in Seq(Movies) /\ Len(movies) = 0
    BY <2>1 DEF Init
  <2>3. 0 <= CandidateLimit /\ 0 <= MaxResults
    BY DEF RecommendAssumption
  <2>4. /\ ratings \in [Movies -> Ratings \cup {None}]
        /\ details \in [Movies -> Details \cup {None}]
    BY DEF Init
  <2> QED
    BY <2>2, <2>3, <2>4 DEF Init, TypeOK, Stages
<1>2. NothingYet
  BY DEF Init, NothingYet, Searching
<1>3. Shortlisted
  BY NothingListed DEF Init, Shortlisted
<1>4. Ranked /\ BeingLoaded /\ AllLoaded
  BY DEF Init, Ranked, BeingLoaded, AllLoaded, Loading
<1> QED
  BY <1>1, <1>2, <1>3, <1>4 DEF IInv

\* Looking for the candidates changes neither what was found nor what is made of it.
LEMMA SearchGoesOn ==
    ASSUME RecommendAssumption, IInv, Searching, stage' \in {"resolve", "find", "crosscheck"},
           left' \in Nat, groups' \in Seq(Seq(Movies \cup {NoId})),
           candidates' \in Seq(Movies \cup {NoId}),
           stage' = "resolve" => candidates' = <<>>,
           unresolved' \in BOOLEAN, unresolved' => stage' = "resolve",
           UNCHANGED <<request, discovered, offered, found, ratings, similar, details, movies>>
    PROVE  IInv'
<1>1. TypeOK'
  BY DEF IInv, TypeOK, Stages
<1>2. NothingYet'
  BY DEF IInv, NothingYet, Searching
<1>3. Shortlisted' /\ Ranked'
  BY DEF IInv, Shortlisted, Ranked
<1>4. movies' = <<>>
  BY DEF IInv, NothingYet
<1>5. BeingLoaded' /\ AllLoaded'
  BY <1>4 DEF BeingLoaded, AllLoaded, Loading
<1> QED
  BY <1>1, <1>2, <1>3, <1>5 DEF IInv

\* Once candidates are shortlisted they are rated, ranked or loaded, or there is none.
LEMMA ShortlistKeeps ==
    ASSUME RecommendAssumption, IInv, stage \in {"find", "crosscheck"},
           NEW list \in Seq(Movies \cup {NoId}), Shortlist(list),
           offered' \subseteq Movies, Ids(list) \subseteq offered',
           request.crosscheck => discovered',
           \A m \in offered' : RangeContains(request.year, Year[m]) => m \in Ids(list),
           discovered' \in BOOLEAN, groups' \in Seq(Seq(Movies \cup {NoId}))
    PROVE  IInv'
<1>1. request \in Requests /\ TypeOK /\ NothingYet
  BY DEF IInv, TypeOK
<1>2. ShortlistMade(list)
  BY <1>1, Shortlisting
<1>3. /\ movies = <<>> /\ details = [m \in Movies |-> None] /\ ratings = [m \in Movies |-> None]
      /\ similar = {} /\ ~unresolved
  BY <1>1 DEF NothingYet, Searching
<1>4. found' \in Seq(Movies) /\ IsInjective(found') /\ Len(found') <= CandidateLimit
  BY <1>2 DEF ShortlistMade
<1>5. candidates' = found' /\ stage' \in {"done", "rate", "favorites", "load"} /\ left' \in Nat
  BY <1>2 DEF ShortlistMade
<1>6. UNCHANGED <<request, unresolved, ratings, similar, details, movies>>
  BY <1>2 DEF ShortlistMade
<1>7. candidates' \in Seq(Movies \cup {NoId})
  <2>1. \A s \in Seq(Movies) : s \in Seq(Movies \cup {NoId})
    OBVIOUS
  <2> QED
    BY <1>4, <1>5, <2>1
<1>8. TypeOK'
  BY <1>1, <1>4, <1>5, <1>6, <1>7 DEF TypeOK, Stages
<1>9. NothingYet'
  BY <1>3, <1>5, <1>6 DEF NothingYet, Searching
<1>10. Shortlisted'
  <2>1. Len(found') < CandidateLimit => ToSet(found') = Ids(list)
    BY <1>2 DEF ShortlistMade
  <2>2. ToSet(found') \subseteq offered' /\ (request'.crosscheck => discovered')
    BY <1>2, <1>6 DEF ShortlistMade
  <2> QED
    BY <1>4, <1>5, <1>6, <2>1, <2>2 DEF Shortlisted
<1>11. CASE stage' = "done"
  <2>1. found' = <<>>
    BY <1>2, <1>11 DEF ShortlistMade
  <2>2. /\ candidates' \in Seq(Movies) /\ IsInjective(candidates')
        /\ ToSet(candidates') = {} /\ InRange' = {} /\ Ordered(candidates', ResultsOrder')
    BY <1>4, <1>5, <2>1, NothingListed DEF InRange
  <2>3. BeingLoaded'
    BY <1>3, <1>6, <2>2, LoadingBegins
  <2>4. Ranked' /\ AllLoaded'
    BY <1>5, <1>11, <2>1 DEF Ranked, AllLoaded
  <2> QED
    BY <1>8, <1>9, <1>10, <2>3, <2>4 DEF IInv
<1>12. CASE stage' = "rate"
  <2>1. Ranked' /\ AllLoaded' /\ BeingLoaded'
    BY <1>3, <1>6, <1>12 DEF Ranked, AllLoaded, BeingLoaded, Loading
  <2> QED
    BY <1>8, <1>9, <1>10, <2>1 DEF IInv
<1>13. CASE stage' \in {"favorites", "load"}
  <2>1. ~HasBounds(request'.imdb) /\ ~request'.byImdb
    BY <1>2, <1>6, <1>13 DEF ShortlistMade, NeedsRatings
  <2>2. InRange' = ToSet(candidates')
    BY <1>5, <2>1, NoBoundsNoMiss
  <2>3. Ordered(candidates', RankOrder')
    BY <1>4, <1>5, <1>8, <2>1, FoundInOrder, RanksAsFound
  <2>4. Ordered(candidates', ResultsOrder')
    BY <1>3, <1>6, <2>3, ResultsAsRanked
  <2>5. BeingLoaded'
    BY <1>3, <1>4, <1>5, <1>6, <2>2, <2>4, LoadingBegins
  <2>6. Ranked' /\ AllLoaded'
    BY <1>4, <1>5, <1>13, <2>2, <2>3 DEF Ranked, AllLoaded
  <2> QED
    BY <1>8, <1>9, <1>10, <2>5, <2>6 DEF IInv
<1> QED
  BY <1>5, <1>11, <1>12, <1>13

\* A missing rating counts less than every rating.
LEMMA KeysOfRatings ==
    ASSUME RecommendAssumption, NEW batch \in [Movies -> Ratings \cup {None}]
    PROVE  /\ RatingKeys(batch) \in [Movies -> Int]
           /\ \A m \in Movies : RatingKeys(batch)[m] = IF batch[m] = None THEN -1 ELSE batch[m]
           /\ \A m \in Movies : batch[m] # None => batch[m] \in Nat /\ batch[m] > 0
<1>1. ASSUME NEW m \in Movies, batch[m] # None PROVE batch[m] \in Nat /\ batch[m] > 0
  <2>1. batch[m] \in Nat \ {0}
    BY <1>1, Zenon DEF RecommendAssumption
  <2> QED
    BY <2>1
<1>2. \A m \in Movies : (IF batch[m] = None THEN -1 ELSE batch[m]) \in Int
  BY <1>1
<1> QED
  BY <1>1, <1>2 DEF RatingKeys

\* list.sort by the IMDb rating leaves the movies in the order of their rank: without a rating
\* last, and those with the same rating as they were found.
LEMMA RatedOrder ==
    ASSUME RecommendAssumption, TypeOK', request'.byImdb,
           NEW s \in Seq(Movies), Ordered(s, PlaceOrder')
    PROVE  Ordered(SortDescending(s, RatingKeys(ratings')), RankOrder')
<1> DEFINE key == RatingKeys(ratings')
           t == SortDescending(s, key)
<1>1. ratings' \in [Movies -> Ratings \cup {None}]
  BY DEF TypeOK
<1>2. /\ key \in [Movies -> Int]
      /\ \A m \in Movies : key[m] = IF ratings'[m] = None THEN -1 ELSE ratings'[m]
  BY <1>1, KeysOfRatings
<1>3. \A m \in Movies : ratings'[m] # None => ratings'[m] \in Nat /\ ratings'[m] > 0
  BY <1>1, KeysOfRatings
<1> HIDE DEF key
<1>4. /\ t \in Seq(Movies)
      /\ \A k, l \in DOMAIN t : k < l =>
            \/ key[t[k]] > key[t[l]]
            \/ key[t[k]] = key[t[l]] /\ <<t[k], t[l]>> \in PlaceOrder'
  BY <1>2, SortedByKey
<1> HIDE DEF t
<1> SUFFICES ASSUME NEW k \in DOMAIN t, NEW l \in DOMAIN t, k < l
             PROVE  <<t[k], t[l]>> \in RankOrder'
  BY DEF Ordered, t, key
<1>5. \E c, m \in Movies : c = t[k] /\ m = t[l]
  BY <1>4
<1>6. PICK c \in Movies, m \in Movies : c = t[k] /\ m = t[l]
  BY <1>5
<1>7. CASE key[c] > key[m]
  <2>1. ratings'[c] # ratings'[m] /\ ratings'[c] # None
    BY <1>1, <1>2, <1>3, <1>7
  <2>2. ratings'[m] = None \/ ratings'[c] > ratings'[m]
    BY <1>1, <1>2, <1>3, <1>7, <2>1
  <2>3. RanksBefore(c, m)'
    BY <2>1, <2>2 DEF RanksBefore
  <2> QED
    BY <1>6, <2>3, OrdersAre
<1>8. CASE key[c] = key[m] /\ <<c, m>> \in PlaceOrder'
  <2>1. ratings'[c] = ratings'[m]
    BY <1>1, <1>2, <1>3, <1>8
  <2>2. (Position(c) < Position(m))'
    BY <1>8, OrdersAre
  <2>3. RanksBefore(c, m)'
    BY <2>1, <2>2 DEF RanksBefore
  <2> QED
    BY <1>6, <2>3, OrdersAre
<1> QED
  BY <1>4, <1>6, <1>7, <1>8

\* list.sort by similarity, after the ranking, leaves them in the order of the results.
LEMMA SimilarOrder ==
    ASSUME similar' \subseteq Movies, NEW s \in Seq(Movies), Ordered(s, RankOrder')
    PROVE  Ordered(SortDescending(s, SimilarKeys(similar')), ResultsOrder')
<1> DEFINE key == SimilarKeys(similar')
           t == SortDescending(s, key)
<1>1. /\ key \in [Movies -> Int]
      /\ \A m \in Movies : key[m] = IF m \in similar' THEN 1 ELSE 0
  BY DEF SimilarKeys
<1> HIDE DEF key
<1>2. /\ t \in Seq(Movies)
      /\ \A k, l \in DOMAIN t : k < l =>
            \/ key[t[k]] > key[t[l]]
            \/ key[t[k]] = key[t[l]] /\ <<t[k], t[l]>> \in RankOrder'
  BY <1>1, SortedByKey
<1> HIDE DEF t
<1> SUFFICES ASSUME NEW k \in DOMAIN t, NEW l \in DOMAIN t, k < l
             PROVE  <<t[k], t[l]>> \in ResultsOrder'
  BY DEF Ordered, t, key
<1>3. \E c, m \in Movies : c = t[k] /\ m = t[l]
  BY <1>2
<1>4. PICK c \in Movies, m \in Movies : c = t[k] /\ m = t[l]
  BY <1>3
<1>5. CASE key[c] > key[m]
  <2>1. c \in similar' /\ m \notin similar'
    BY <1>1, <1>5
  <2>2. Precedes(c, m)'
    BY <2>1 DEF Precedes
  <2> QED
    BY <1>4, <2>2, OrdersAre
<1>6. CASE key[c] = key[m] /\ <<c, m>> \in RankOrder'
  <2>1. c \in similar' <=> m \in similar'
    BY <1>1, <1>6
  <2>2. RanksBefore(c, m)'
    BY <1>6, OrdersAre
  <2>3. Precedes(c, m)'
    BY <2>1, <2>2 DEF Precedes
  <2> QED
    BY <1>4, <2>3, OrdersAre
<1> QED
  BY <1>2, <1>4, <1>5, <1>6

\* The batch of ratings: candidates out of range go, the others are sorted when a sort is asked for.
LEMMA RateKeeps ==
    ASSUME RecommendAssumption, IInv, RateCandidates
    PROVE  IInv'
<1>1. request \in Requests /\ TypeOK /\ NothingYet /\ Shortlisted /\ stage = "rate"
  BY DEF IInv, TypeOK, RateCandidates
<1>2. PICK batch \in [Ids(candidates) -> IF request.omdb THEN Ratings \cup {None} ELSE {None}] :
        LET known == [m \in Movies |-> IF m \in DOMAIN batch THEN batch[m] ELSE None]
            inRange == Filter(candidates, {m \in Movies : RangeContains(request.imdb, known[m])})
        IN  /\ ratings' = known
            /\ candidates' = IF request.byImdb THEN SortDescending(inRange, RatingKeys(known))
                             ELSE inRange
  BY Zenon DEF RateCandidates
<1> DEFINE S == {m \in Movies : RangeContains(request.imdb, ratings'[m])}
           inRange == Filter(candidates, S)
<1>3. candidates' = IF request.byImdb THEN SortDescending(inRange, RatingKeys(ratings')) ELSE inRange
  BY <1>2, Zenon
<1>4. ratings' \in [Movies -> Ratings \cup {None}]
  BY <1>2
<1>5. UNCHANGED <<request, unresolved, groups, discovered, offered, found, similar, details, movies>>
  BY DEF RateCandidates
<1>6. stage' \in {"favorites", "load"} /\ left' \in Nat
  BY <1>1, FavoritesNext DEF RateCandidates
<1>7. /\ movies = <<>> /\ details = [m \in Movies |-> None] /\ similar = {} /\ ~unresolved
      /\ candidates = found /\ found \in Seq(Movies) /\ IsInjective(found)
  BY <1>1 DEF NothingYet, Shortlisted, TypeOK, Searching
<1>8. ToSet(found) \subseteq Movies
  BY <1>7, ElementsBound
<1>9. /\ inRange \in Seq(Movies) /\ IsInjective(inRange)
      /\ ToSet(inRange) = ToSet(found) \cap S
      /\ Ordered(found, PlaceOrder') => Ordered(inRange, PlaceOrder')
  <2> HIDE DEF S
  <2> QED
    BY <1>7, Filtered
<1>10. Ordered(inRange, PlaceOrder')
  BY <1>5, <1>7, <1>9, FoundInOrder
<1>11. InRange' = ToSet(inRange)
  BY <1>5, <1>8, <1>9 DEF InRange
<1> HIDE DEF inRange, S
<1>12. RatingKeys(ratings') \in [Movies -> Int]
  BY <1>4, KeysOfRatings
<1>13. candidates' \in Seq(Movies) /\ IsInjective(candidates') /\ ToSet(candidates') = InRange'
  <2>1. CASE request.byImdb
    BY <1>3, <1>9, <1>11, <1>12, <2>1, SortedByKey
  <2>2. CASE ~request.byImdb
    BY <1>3, <1>9, <1>11, <2>2
  <2> QED
    BY <2>1, <2>2
<1>14. TypeOK'
  <2>1. \A s \in Seq(Movies) : s \in Seq(Movies \cup {NoId})
    OBVIOUS
  <2>2. candidates' \in Seq(Movies \cup {NoId})
    BY <1>13, <2>1
  <2> QED
    BY <1>1, <1>4, <1>5, <1>6, <2>2 DEF TypeOK, Stages
<1>15. Ordered(candidates', RankOrder')
  <2>1. CASE request.byImdb
    BY <1>3, <1>5, <1>9, <1>10, <1>14, <2>1, RatedOrder
  <2>2. CASE ~request.byImdb
    BY <1>3, <1>5, <1>10, <1>14, <2>2, RanksAsFound
  <2> QED
    BY <2>1, <2>2
<1>16. Ordered(candidates', ResultsOrder')
  BY <1>5, <1>7, <1>15, ResultsAsRanked
<1>17. BeingLoaded'
  BY <1>5, <1>7, <1>13, <1>16, LoadingBegins
<1>18. Ranked' /\ AllLoaded'
  BY <1>6, <1>13, <1>15 DEF Ranked, AllLoaded
<1>19. NothingYet'
  BY <1>5, <1>6, <1>7 DEF NothingYet, Searching
<1>20. Shortlisted'
  BY <1>1, <1>5, <1>6 DEF Shortlisted
<1> QED
  BY <1>14, <1>17, <1>18, <1>19, <1>20 DEF IInv

\* An answer about a favourite adds to what is similar; the last one sorts by it.
LEMMA AskKeeps ==
    ASSUME RecommendAssumption, IInv, AskFavorite
    PROVE  IInv'
<1>1. TypeOK /\ NothingYet /\ Shortlisted /\ Ranked /\ stage = "favorites"
  BY DEF IInv, AskFavorite
<1>2. PICK answer \in Answers \cup {<<>>} :
        /\ similar' = similar \cup Ids(answer)
        /\ IF left > 1
           THEN left' = left - 1 /\ UNCHANGED <<stage, candidates>>
           ELSE /\ left' = 0 /\ stage' = "load"
                /\ candidates' = SortDescending(candidates, SimilarKeys(similar'))
  BY Zenon DEF AskFavorite
<1>3. UNCHANGED <<request, unresolved, groups, discovered, offered, found, ratings, details, movies>>
  BY DEF AskFavorite
<1>4. movies = <<>> /\ details = [m \in Movies |-> None] /\ ~unresolved
  BY <1>1 DEF NothingYet
<1>5. /\ candidates \in Seq(Movies) /\ IsInjective(candidates)
      /\ ToSet(candidates) = InRange /\ Ordered(candidates, RankOrder)
  BY <1>1 DEF Ranked
<1>6. similar' \subseteq Movies
  <2>1. answer \in Seq(Movies \cup {NoId})
    <3>1. \A T : <<>> \in Seq(T)
      OBVIOUS
    <3>2. Answers \subseteq Seq(Movies \cup {NoId})
      BY DEF RecommendAssumption
    <3> QED
      BY <3>1, <3>2, Zenon
  <2>2. Ids(answer) \subseteq Movies
    BY <2>1, ElementsBound DEF Ids
  <2> QED
    BY <1>1, <1>2, <2>2 DEF TypeOK
<1>7. RankOrder' = RankOrder /\ InRange' = InRange
  BY <1>3 DEF RankOrder, RanksBefore, Position, InRange
<1>8. Shortlisted' /\ stage' \in {"favorites", "load"}
  BY <1>1, <1>2, <1>3 DEF Shortlisted
<1>9. NothingYet' /\ AllLoaded'
  BY <1>3, <1>4, <1>8 DEF NothingYet, Searching, AllLoaded
<1>10. CASE left > 1
  <2>1. left' = left - 1 /\ stage' = stage /\ candidates' = candidates
    BY <1>2, <1>10
  <2>2. TypeOK'
    BY <1>1, <1>3, <1>6, <1>10, <2>1 DEF TypeOK
  <2>3. Ranked' /\ BeingLoaded'
    BY <1>1, <1>3, <1>4, <1>5, <1>7, <2>1 DEF Ranked, BeingLoaded, Loading
  <2> QED
    BY <1>8, <1>9, <2>2, <2>3 DEF IInv
<1>11. CASE ~(left > 1)
  <2>1. left' = 0 /\ stage' = "load" /\ candidates' = SortDescending(candidates, SimilarKeys(similar'))
    BY <1>2, <1>11
  <2>2. SimilarKeys(similar') \in [Movies -> Int]
    BY DEF SimilarKeys
  <2>3. candidates' \in Seq(Movies) /\ IsInjective(candidates') /\ ToSet(candidates') = InRange'
    BY <1>5, <1>7, <2>1, <2>2, SortedByKey
  <2>4. Ordered(candidates', ResultsOrder')
    BY <1>5, <1>6, <1>7, <2>1, SimilarOrder
  <2>5. TypeOK'
    <3>1. \A s \in Seq(Movies) : s \in Seq(Movies \cup {NoId})
      OBVIOUS
    <3>2. candidates' \in Seq(Movies \cup {NoId})
      BY <2>3, <3>1
    <3> QED
      BY <1>1, <1>3, <1>6, <2>1, <3>2 DEF TypeOK, Stages
  <2>6. BeingLoaded'
    BY <1>3, <1>4, <2>3, <2>4, LoadingBegins
  <2>7. Ranked'
    BY <2>1 DEF Ranked
  <2> QED
    BY <1>8, <1>9, <2>5, <2>6, <2>7 DEF IInv
<1> QED
  BY <1>10, <1>11

\* A movie that is loaded joins the results, or is refused for what its details say.
LEMMA LoadKeeps ==
    ASSUME RecommendAssumption, IInv, LoadMovie
    PROVE  IInv'
<1>0. PICK m : m = Head(candidates)
  OBVIOUS
<1>1. TypeOK /\ NothingYet /\ Shortlisted /\ BeingLoaded /\ stage = "load"
      /\ candidates # <<>> /\ ~Full
  BY DEF IInv, LoadMovie
<1>2. PICK loaded \in [meets : BOOLEAN, imdb : IF request.omdb THEN Ratings \cup {None} ELSE {None}] :
        /\ details' = [details EXCEPT ![m] = loaded]
        /\ movies' = IF MatchesRequired(m, loaded) THEN Append(movies, m) ELSE movies
  BY <1>0, Zenon DEF LoadMovie
<1>3. /\ candidates' = Tail(candidates)
      /\ UNCHANGED <<request, stage, left, unresolved, groups, discovered, offered, found, ratings, similar>>
  BY DEF LoadMovie
<1>4. /\ candidates \in Seq(Movies) /\ IsInjective(candidates)
      /\ ToSet(candidates) \subseteq ToSet(found)
      /\ \A x \in ToSet(candidates) : details[x] = None
      /\ \A x \in InRange : x \in ToSet(candidates) \/ details[x] # None
      /\ \A x \in Movies : details[x] # None => x \in ToSet(found)
      /\ \A x \in Movies : x \in ToSet(movies) <=> Fits(x)
      /\ Ordered(candidates, ResultsOrder)
      /\ Ordered(movies, ResultsOrder)
      /\ \A c \in ToSet(movies), x \in ToSet(candidates) : Precedes(c, x)
  BY <1>1 DEF BeingLoaded, Loading
<1>5. /\ m \in Movies /\ ToSet(candidates) = ToSet(candidates') \cup {m}
      /\ candidates' \in Seq(Movies) /\ IsInjective(candidates')
      /\ Ordered(candidates', ResultsOrder)
      /\ m \notin ToSet(candidates')
      /\ \A x \in ToSet(candidates') : <<m, x>> \in ResultsOrder
  <2>1. /\ Head(candidates) \in Movies
        /\ ToSet(candidates) = ToSet(Tail(candidates)) \cup {Head(candidates)}
    BY <1>1, <1>4, ElementsTail
  <2>2. /\ Tail(candidates) \in Seq(Movies) /\ IsInjective(Tail(candidates))
        /\ Ordered(Tail(candidates), ResultsOrder)
        /\ Head(candidates) \notin ToSet(Tail(candidates))
        /\ \A x \in ToSet(Tail(candidates)) : <<Head(candidates), x>> \in ResultsOrder
    BY <1>1, <1>4, FirstTaken
  <2> QED
    BY <1>0, <1>3, <2>1, <2>2
<1>6. loaded \in Details /\ loaded # None
  <2>1. loaded \in Details
    BY DEF Details
  <2> QED
    BY <2>1 DEF RecommendAssumption
<1>7. /\ details \in [Movies -> Details \cup {None}] /\ movies \in Seq(Movies)
      /\ Len(movies) < MaxResults /\ Len(movies) \in Nat /\ MaxResults \in Nat
  BY <1>1 DEF TypeOK, Full, RecommendAssumption
<1>8. /\ details'[m] = loaded
      /\ \A x \in Movies : x # m => details'[x] = details[x]
      /\ details' \in [Movies -> Details \cup {None}]
  BY <1>2, <1>5, <1>6, <1>7
<1>9. Fits(m)' <=> MatchesRequired(m, loaded)
  <2> DEFINE rating == IF loaded.imdb # None THEN loaded.imdb ELSE ratings[m]
  <2>1. Fits(m)' <=> /\ loaded.meets
                     /\ RangeContains(request.year, Year[m])
                     /\ RangeContains(request.imdb, rating)
    BY <1>3, <1>6, <1>8 DEF Fits, ImdbRating
  <2>2. MatchesRequired(m, loaded) <=> /\ loaded.meets
                                       /\ RangeContains(request.year, Year[m])
                                       /\ RangeContains(request.imdb, rating)
    BY DEF MatchesRequired, ImdbRating
  <2> HIDE DEF rating
  <2> QED
    BY <2>1, <2>2
<1>10. ASSUME NEW x \in Movies, x # m PROVE Fits(x)' <=> Fits(x)
  BY <1>3, <1>8, <1>10 DEF Fits, ImdbRating
<1>11. ~Fits(m)
  BY <1>4, <1>5 DEF Fits
<1>12. /\ movies' \in Seq(Movies) /\ Len(movies') <= MaxResults
       /\ ToSet(movies') = IF MatchesRequired(m, loaded) THEN ToSet(movies) \cup {m} ELSE ToSet(movies)
  <2>1. CASE MatchesRequired(m, loaded)
    <3>1. movies' = Append(movies, m)
      BY <1>2, <2>1
    <3>2. ToSet(Append(movies, m)) = ToSet(movies) \cup {m}
      BY <1>5, <1>7, ElementsAppend
    <3> QED
      BY <1>5, <1>7, <2>1, <3>1, <3>2
  <2>2. CASE ~MatchesRequired(m, loaded)
    BY <1>2, <1>7, <2>2
  <2> QED
    BY <2>1, <2>2
<1>13. ResultsOrder' = ResultsOrder /\ \A c, x : Precedes(c, x)' <=> Precedes(c, x)
  BY <1>3 DEF ResultsOrder, Precedes, RanksBefore, Position
<1>14. \A c, x \in Movies : <<c, x>> \in ResultsOrder <=> Precedes(c, x)
  BY <1>13, OrdersAre
<1>15. ToSet(movies) \subseteq Movies /\ ToSet(candidates') \subseteq Movies
  BY <1>5, <1>7, ElementsBound
<1>16. Ordered(movies', ResultsOrder')
  <2>1. CASE MatchesRequired(m, loaded)
    <3>1. \A y \in ToSet(movies) : <<y, m>> \in ResultsOrder
      BY <1>4, <1>5, <1>14, <1>15
    <3> QED
      BY <1>2, <1>4, <1>5, <1>7, <1>13, <2>1, <3>1, LastAdded
  <2>2. CASE ~MatchesRequired(m, loaded)
    BY <1>2, <1>4, <1>13, <2>2
  <2> QED
    BY <2>1, <2>2
<1>17. \A c \in ToSet(movies'), x \in ToSet(candidates') : Precedes(c, x)'
  <2> SUFFICES ASSUME NEW c \in ToSet(movies'), NEW x \in ToSet(candidates')
               PROVE  Precedes(c, x)'
    OBVIOUS
  <2>1. CASE c = m
    BY <1>5, <1>13, <1>14, <1>15, <2>1
  <2>2. CASE c # m
    BY <1>4, <1>5, <1>12, <1>13, <2>2
  <2> QED
    BY <2>1, <2>2
<1>18. \A x \in Movies : x \in ToSet(movies') <=> Fits(x)'
  BY <1>4, <1>9, <1>10, <1>11, <1>12
<1>19. \A x \in ToSet(candidates') : details'[x] = None
  BY <1>4, <1>5, <1>8, <1>15
<1>20. InRange' = InRange /\ InRange \subseteq Movies
  <2>1. ToSet(found) \subseteq Movies
    BY <1>1, ElementsBound DEF TypeOK
  <2> QED
    BY <1>3, <2>1 DEF InRange
<1>21. \A x \in InRange' : x \in ToSet(candidates') \/ details'[x] # None
  BY <1>4, <1>5, <1>6, <1>8, <1>20
<1>22. \A x \in Movies : details'[x] # None => x \in ToSet(found')
  BY <1>3, <1>4, <1>5, <1>8
<1>23. ToSet(candidates') \subseteq ToSet(found')
  BY <1>3, <1>4, <1>5
<1>24. BeingLoaded'
  BY <1>5, <1>13, <1>16, <1>17, <1>18, <1>19, <1>21, <1>22, <1>23 DEF BeingLoaded
<1>25. TypeOK'
  <2>1. \A s \in Seq(Movies) : s \in Seq(Movies \cup {NoId})
    OBVIOUS
  <2>2. candidates' \in Seq(Movies \cup {NoId})
    BY <1>5, <2>1
  <2> QED
    BY <1>1, <1>3, <1>8, <1>12, <2>2 DEF TypeOK
<1>26. NothingYet' /\ Shortlisted' /\ Ranked' /\ AllLoaded'
  BY <1>1, <1>3 DEF NothingYet, Shortlisted, Ranked, AllLoaded, Searching
<1> QED
  BY <1>24, <1>25, <1>26 DEF IInv

\* What comes after the loop, and a failing tool, leaves what was loaded and chosen.
LEMMA StageKeeps ==
    ASSUME IInv, stage' \in {"enrich", "done", "failed"}, left' \in Nat,
           stage' # "failed" => stage \in {"load", "enrich"} /\ (candidates = <<>> \/ Full),
           UNCHANGED <<request, unresolved, groups, discovered, offered, candidates, found,
                       ratings, similar, details, movies>>
    PROVE  IInv'
<1>1. TypeOK'
  BY DEF IInv, TypeOK, Stages
<1>2. NothingYet'
  BY DEF IInv, NothingYet, Searching
<1>3. Shortlisted' /\ Ranked' /\ AllLoaded'
  BY DEF IInv, Shortlisted, Ranked, AllLoaded, Full
<1>4. BeingLoaded'
  <2>1. Loading' => Loading
    BY DEF Loading
  <2>2. /\ InRange' = InRange /\ ResultsOrder' = ResultsOrder
        /\ \A c, m : Precedes(c, m)' <=> Precedes(c, m)
        /\ \A m : Fits(m)' <=> Fits(m)
    BY DEF InRange, ResultsOrder, Precedes, RanksBefore, Position, Fits, ImdbRating
  <2> QED
    BY <2>1, <2>2 DEF IInv, BeingLoaded
<1> QED
  BY <1>1, <1>2, <1>3, <1>4 DEF IInv

\* An unknown name ends the request with nothing found.
LEMMA NothingResolved ==
    ASSUME RecommendAssumption, IInv, Resolved, unresolved
    PROVE  IInv'
<1>1. TypeOK /\ NothingYet /\ Shortlisted /\ stage = "resolve" /\ stage' = "done"
  BY DEF IInv, Resolved
<1>2. UNCHANGED <<request, unresolved, groups, discovered, offered, candidates, found,
                  ratings, similar, details, movies>>
  BY DEF Resolved, ChosenOnes
<1>3. /\ candidates = <<>> /\ found = <<>> /\ movies = <<>> /\ offered = {}
      /\ details = [m \in Movies |-> None]
  BY <1>1 DEF NothingYet, Searching
<1>4. left' \in Nat
  BY <1>1 DEF Resolved, TypeOK, Request, RecommendAssumption
<1>5. TypeOK'
  BY <1>1, <1>2, <1>4 DEF TypeOK, Stages
<1>6. NothingYet'
  BY <1>1, <1>2, <1>3 DEF NothingYet, Searching
<1>7. Shortlisted' /\ Ranked' /\ AllLoaded'
  BY <1>1, <1>2, <1>3 DEF Shortlisted, Ranked, AllLoaded
<1>8. BeingLoaded'
  <2>1. /\ candidates' \in Seq(Movies) /\ IsInjective(candidates')
        /\ ToSet(candidates') = {} /\ InRange' = {} /\ Ordered(candidates', ResultsOrder')
    BY <1>2, <1>3, NothingListed DEF InRange
  <2> QED
    BY <1>2, <1>3, <2>1, LoadingBegins
<1> QED
  BY <1>5, <1>6, <1>7, <1>8 DEF IInv

\* The lists of the tools hold movies and items without an identifier.
LEMMA ListsAre ==
    ASSUME RecommendAssumption
    PROVE  SimilarLists \subseteq Seq(Movies \cup {NoId})
<1> DEFINE T == Movies \cup {NoId}
<1>1. Answers \subseteq Seq(T) /\ <<>> \in Seq(T)
  BY DEF RecommendAssumption
<1> HIDE DEF T
<1>2. \A a, b \in Seq(T) : a \o b \in Seq(T)
  OBVIOUS
<1>3. \A a, b \in Answers : (IF Len(a) < CandidateLimit THEN a \o b ELSE a) \in Seq(T)
  BY <1>1, <1>2
<1>4. ASSUME NEW s \in SimilarLists PROVE s \in Seq(T)
  <2>1. CASE s = <<>>
    BY <1>1, <2>1
  <2>2. CASE \E a, b \in Answers : s = IF Len(a) < CandidateLimit THEN a \o b ELSE a
    BY <1>3, <2>2
  <2> QED
    BY <2>1, <2>2 DEF SimilarLists
<1> QED
  BY <1>4 DEF T

\* One more list of recommendations; the last one makes their intersection the candidates.
LEMMA FindSimilarKeeps ==
    ASSUME RecommendAssumption, IInv, FindSimilar
    PROVE  IInv'
<1> DEFINE T == Movies \cup {NoId}
<1>1. TypeOK /\ NothingYet /\ Searching /\ stage = "find" /\ ~unresolved /\ left \in Nat
  BY DEF IInv, TypeOK, NothingYet, Searching, FindSimilar
<1>2. PICK list \in SimilarLists :
        LET lists == Append(groups, list) IN
        IF left > 1
        THEN /\ groups' = lists /\ left' = left - 1
             /\ UNCHANGED <<request, stage, unresolved, discovered, offered, ChosenOnes>>
        ELSE Gather(IntersectCandidates(lists)) /\ groups' = <<>>
  BY Zenon DEF FindSimilar
<1> DEFINE lists == Append(groups, list)
<1>3. lists \in Seq(Seq(T)) /\ lists[1] \in Seq(T)
  <2>1. list \in Seq(T) /\ groups \in Seq(Seq(T))
    BY <1>1, ListsAre DEF TypeOK
  <2> HIDE DEF T
  <2>2. lists \in Seq(Seq(T)) /\ Len(lists) > 0
    BY <2>1
  <2> HIDE DEF lists
  <2> QED
    BY <2>2
<1> HIDE DEF lists
<1>4. CASE left > 1
  <2>1. /\ groups' = lists /\ left' = left - 1
        /\ UNCHANGED <<request, stage, unresolved, discovered, offered, ChosenOnes>>
    BY <1>2, <1>4, Zenon DEF lists
  <2>2. left' \in Nat /\ candidates \in Seq(T)
    BY <1>1, <1>4, <2>1 DEF TypeOK
  <2> QED
    BY <1>1, <1>3, <2>1, <2>2, SearchGoesOn DEF ChosenOnes, TypeOK
<1>5. CASE ~(left > 1)
  <2>1. Gather(IntersectCandidates(lists)) /\ groups' = <<>>
    BY <1>2, <1>5, Zenon DEF lists
  <2>2. IntersectCandidates(lists) \in Seq(T)
    BY <1>3, Filtered DEF IntersectCandidates
  <2>3. groups' \in Seq(Seq(T))
    BY <2>1
  <2>4. candidates' \in Seq(T) /\ stage' = "crosscheck" /\ left' \in Nat
    BY <2>1, <2>2 DEF Gather
  <2> QED
    BY <1>1, <2>1, <2>3, <2>4, SearchGoesOn DEF Gather, TypeOK
<1> QED
  BY <1>4, <1>5

\* One more required title; after the last one their matches are the candidates.
LEMMA FindTitleKeeps ==
    ASSUME RecommendAssumption, IInv, FindTitle
    PROVE  IInv'
<1> DEFINE T == Movies \cup {NoId}
<1>1. TypeOK /\ NothingYet /\ Searching /\ stage = "find" /\ ~unresolved /\ left \in Nat
  BY DEF IInv, TypeOK, NothingYet, Searching, FindTitle
<1>2. groups' = groups
  BY DEF FindTitle
<1>3. PICK match \in {<<>>} \cup {<<m>> : m \in Movies} :
        IF left > 1
        THEN /\ candidates' = candidates \o match /\ left' = left - 1
             /\ UNCHANGED <<request, stage, unresolved, discovered, offered, found,
                            ratings, similar, details, movies>>
        ELSE Gather(candidates \o match)
  BY Zenon DEF FindTitle
<1>4. candidates \o match \in Seq(T)
  <2>1. match \in Seq(T)
    <3>1. <<>> \in Seq(T) /\ \A m \in Movies : <<m>> \in Seq(T)
      OBVIOUS
    <3> QED
      BY <3>1
  <2>2. candidates \in Seq(T)
    BY <1>1 DEF TypeOK
  <2> HIDE DEF T
  <2> QED
    BY <2>1, <2>2, ConcatProperties
<1>5. CASE left > 1
  <2>1. /\ candidates' = candidates \o match /\ left' = left - 1
        /\ UNCHANGED <<request, stage, unresolved, discovered, offered, found,
                       ratings, similar, details, movies>>
    BY <1>3, <1>5, Zenon
  <2>2. left' \in Nat /\ candidates' \in Seq(T)
    BY <1>1, <1>4, <1>5, <2>1
  <2> QED
    BY <1>1, <1>2, <2>1, <2>2, SearchGoesOn DEF TypeOK
<1>6. CASE ~(left > 1)
  <2>1. Gather(candidates \o match)
    BY <1>3, <1>6, Zenon
  <2>2. candidates' \in Seq(T) /\ stage' = "crosscheck" /\ left' \in Nat
    BY <1>4, <2>1 DEF Gather
  <2> QED
    BY <1>1, <1>2, <2>1, <2>2, SearchGoesOn DEF Gather, TypeOK
<1> QED
  BY <1>5, <1>6

\* What a name to look up, the favourites' titles and the discovery do before the shortlist.
LEMMA SearchKeeps ==
    ASSUME RecommendAssumption, IInv,
           Start \/ ResolveName \/ Resolved \/ FindPreferred \/ Discover \/ CrossCheck
    PROVE  IInv'
<1> DEFINE T == Movies \cup {NoId}
<1>1. TypeOK /\ NothingYet /\ left \in Nat /\ request \in Requests
      /\ groups \in Seq(Seq(T)) /\ candidates \in Seq(T) /\ discovered \in BOOLEAN
      /\ unresolved \in BOOLEAN
  BY DEF IInv, TypeOK
<1>2. request.names \in Nat /\ request.similar_to \in Nat /\ request.titles \in Nat
  BY <1>1 DEF RecommendAssumption, Request
<1>3. CASE Start
  <2>1. /\ Searching /\ candidates' = <<>>
        /\ UNCHANGED <<request, unresolved, groups, discovered, offered, found, ratings, similar, details, movies>>
    <3>1. stage = "start" /\ candidates = <<>>
      BY <1>1, <1>3 DEF Start, NothingYet
    <3> QED
      BY <1>3, <3>1 DEF Start, Searching, ChosenOnes
  <2>2. CASE stage' = "resolve"
    <3>1. left' \in Nat
      BY <1>2, <1>3, <2>2 DEF Start
    <3> QED
      BY <1>1, <2>1, <2>2, <3>1, SearchGoesOn
  <2>3. CASE stage' = "failed"
    <3>1. left' \in Nat /\ UNCHANGED <<candidates, unresolved>>
      BY <1>1, <1>3, <2>3 DEF Start, ChosenOnes
    <3> QED
      BY <2>1, <2>3, <3>1, StageKeeps
  <2> QED
    BY <1>3, <2>2, <2>3 DEF Start
<1>4. CASE ResolveName
  <2>1. /\ stage = "resolve" /\ stage' = "resolve" /\ left' = left - 1 /\ left > 0
        /\ unresolved' \in BOOLEAN
        /\ UNCHANGED <<request, groups, discovered, offered, candidates, found, ratings,
                       similar, details, movies>>
    BY <1>1, <1>4 DEF ResolveName, ChosenOnes, TypeOK
  <2>2. Searching /\ candidates' = <<>> /\ left' \in Nat
    BY <1>1, <2>1 DEF NothingYet, Searching
  <2> QED
    BY <1>1, <2>1, <2>2, SearchGoesOn
<1>5. CASE Resolved
  <2>1. CASE unresolved
    BY <1>5, <2>1, NothingResolved
  <2>2. CASE ~unresolved
    <3>1. /\ stage = "resolve" /\ stage' = "find" /\ left' \in Nat
          /\ UNCHANGED <<request, unresolved, groups, discovered, offered, candidates, found,
                         ratings, similar, details, movies>>
      BY <1>2, <1>5, <2>2 DEF Resolved, ChosenOnes
    <3>2. Searching /\ unresolved' \in BOOLEAN /\ ~unresolved'
      BY <1>1, <2>2, <3>1 DEF Searching, TypeOK
    <3> QED
      BY <1>1, <3>1, <3>2, SearchGoesOn
  <2> QED
    BY <2>1, <2>2
<1>6. CASE FindPreferred
  <2>1. PICK list \in SimilarLists : Gather(list)
    BY <1>6, Zenon DEF FindPreferred
  <2>2. Searching /\ ~unresolved /\ groups' = groups
    BY <1>1, <1>6 DEF FindPreferred, NothingYet, Searching
  <2>3. list \in Seq(T)
    BY ListsAre
  <2>4. /\ candidates' \in Seq(T) /\ stage' = "crosscheck" /\ left' \in Nat
        /\ UNCHANGED <<request, unresolved, discovered, offered, found, ratings, similar, details, movies>>
    BY <2>1, <2>3 DEF Gather
  <2> QED
    BY <1>1, <2>2, <2>4, SearchGoesOn
<1>7. CASE Discover
  <2>1. PICK page \in Answers : offered' = Ids(page) /\ Shortlist(Discovered(page))
    BY <1>7, Zenon DEF Discover
  <2>2. stage \in {"find", "crosscheck"} /\ discovered' = TRUE /\ groups' = groups
    BY <1>7 DEF Discover
  <2>3. /\ Discovered(page) \in Seq(T)
        /\ Ids(Discovered(page)) = {m \in Ids(page) : RangeContains(request.year, Year[m])}
    BY <1>1, Discovering
  <2>4. Ids(page) \subseteq Movies
    <3>1. page \in Seq(T)
      BY DEF RecommendAssumption
    <3> QED
      BY <3>1, ElementsBound DEF Ids
  <2>5. Ids(Discovered(page)) \subseteq offered'
    BY <2>1, <2>3
  <2> QED
    BY <1>1, <2>1, <2>2, <2>3, <2>4, <2>5, ShortlistKeeps
<1>8. CASE CrossCheck
  <2>1. stage \in {"find", "crosscheck"} /\ groups' = groups
    BY <1>8 DEF CrossCheck
  <2>2. Ids(candidates) \subseteq Movies
    BY <1>1, ElementsBound DEF Ids
  <2>3. CASE request.crosscheck
    <3>1. PICK page \in Answers :
            /\ discovered' = TRUE
            /\ offered' = Ids(candidates) \cap Ids(page)
            /\ Shortlist(Filter(candidates, Ids(Discovered(page))))
      BY <1>8, <2>3, Zenon DEF CrossCheck
    <3> DEFINE list == Filter(candidates, Ids(Discovered(page)))
    <3>2. Ids(Discovered(page)) = {m \in Ids(page) : RangeContains(request.year, Year[m])}
      BY <1>1, Discovering
    <3>3. list \in Seq(T) /\ ToSet(list) = ToSet(candidates) \cap Ids(Discovered(page))
      BY <1>1, Filtered
    <3> HIDE DEF list
    <3>4. \A m \in offered' : RangeContains(request.year, Year[m]) => m \in Ids(list)
      BY <3>1, <3>2, <3>3 DEF Ids
    <3>5. offered' \subseteq Movies /\ Ids(list) \subseteq offered'
      BY <2>2, <3>1, <3>2, <3>3 DEF Ids
    <3> QED
      BY <1>1, <2>1, <3>1, <3>3, <3>4, <3>5, ShortlistKeeps DEF list
  <2>4. CASE ~request.crosscheck
    <3>1. offered' = Ids(candidates) /\ Shortlist(candidates) /\ discovered' = discovered
      BY <1>8, <2>4, Zenon DEF CrossCheck
    <3> QED
      BY <1>1, <2>1, <2>2, <2>4, <3>1, ShortlistKeeps
  <2> QED
    BY <2>3, <2>4
<1> QED
  BY <1>3, <1>4, <1>5, <1>6, <1>7, <1>8

\* Every action of a recommendation keeps the invariant.
LEMMA StepOk == RecommendAssumption /\ IInv /\ [Next]_vars => IInv'
<1> SUFFICES ASSUME RecommendAssumption, IInv, [Next]_vars PROVE IInv'
  OBVIOUS
<1> USE DEF ChosenOnes
<1>1. CASE Start \/ ResolveName \/ Resolved \/ FindPreferred \/ Discover \/ CrossCheck
  BY <1>1, SearchKeeps
<1>2. CASE FindSimilar
  BY <1>2, FindSimilarKeeps
<1>3. CASE FindTitle
  BY <1>3, FindTitleKeeps
<1>4. CASE RateCandidates
  BY <1>4, RateKeeps
<1>5. CASE AskFavorite
  BY <1>5, AskKeeps
<1>6. CASE LoadMovie
  BY <1>6, LoadKeeps
<1>7. CASE Loaded
  <2>1. left' \in Nat
    BY <1>7 DEF Loaded, IInv, TypeOK
  <2> QED
    BY <1>7, <2>1, StageKeeps DEF Loaded
<1>8. CASE EnrichMovie
  <2>1. /\ stage' = "enrich" /\ stage = "enrich" /\ left' \in Nat /\ (candidates = <<>> \/ Full)
        /\ UNCHANGED <<request, unresolved, groups, discovered, offered, candidates, found,
                       ratings, similar, details, movies>>
    BY <1>8 DEF EnrichMovie, IInv, TypeOK, AllLoaded
  <2> QED
    BY <2>1, StageKeeps
<1>9. CASE Respond
  <2>1. left' \in Nat /\ (candidates = <<>> \/ Full)
    BY <1>9 DEF Respond, IInv, TypeOK, AllLoaded
  <2> QED
    BY <1>9, <2>1, StageKeeps DEF Respond
<1>10. CASE ToolFails
  <2>1. left' \in Nat
    BY <1>10 DEF ToolFails, IInv, TypeOK
  <2> QED
    BY <1>10, <2>1, StageKeeps DEF ToolFails
<1>11. CASE UNCHANGED vars
  <2>1. TypeOK' /\ NothingYet' /\ Shortlisted' /\ AllLoaded'
    BY <1>11 DEF vars, IInv, TypeOK, NothingYet, Searching, Shortlisted, AllLoaded, Full
  <2>2. UNCHANGED <<request, stage, candidates, found, ratings, similar, details, movies>>
    BY <1>11 DEF vars
  <2>3. /\ InRange' = InRange /\ RankOrder' = RankOrder /\ ResultsOrder' = ResultsOrder
        /\ \A c, m : Precedes(c, m)' <=> Precedes(c, m)
        /\ \A m : Fits(m)' <=> Fits(m)
    BY <2>2 DEF InRange, RankOrder, ResultsOrder, Precedes, RanksBefore, Position, Fits, ImdbRating
  <2>4. Ranked' /\ BeingLoaded'
    BY <2>2, <2>3 DEF IInv, Ranked, BeingLoaded, Loading
  <2> QED
    BY <2>1, <2>4 DEF IInv
<1> QED
  BY <1>1, <1>2, <1>3, <1>4, <1>5, <1>6, <1>7, <1>8, <1>9, <1>10, <1>11 DEF Next

-----------------------------------------------------------------------------
\* Of two movies found at most one comes before the other.
LEMMA OneComesFirst ==
    ASSUME RecommendAssumption, TypeOK, IsInjective(found),
           NEW c \in ToSet(found), NEW m \in ToSet(found), Precedes(c, m), Precedes(m, c)
    PROVE  FALSE
<1>1. c \in Movies /\ m \in Movies
  BY ElementsBound DEF TypeOK
<1>2. Position(c) \in Nat /\ Position(m) \in Nat
  <2>1. DOMAIN found \subseteq Nat
    BY DEF TypeOK
  <2>2. (\E i \in DOMAIN found : found[i] = c) /\ (\E i \in DOMAIN found : found[i] = m)
    BY DEF ToSet
  <2>3. Position(c) \in DOMAIN found /\ Position(m) \in DOMAIN found
    BY <2>2, Zenon DEF Position
  <2> QED
    BY <2>1, <2>3
<1>3. RanksBefore(c, m) /\ RanksBefore(m, c)
  BY DEF Precedes
<1>4. ratings[c] \in Nat \cup {None} /\ ratings[m] \in Nat \cup {None}
  <2>1. Ratings \subseteq Nat /\ ratings \in [Movies -> Ratings \cup {None}]
    BY DEF RecommendAssumption, TypeOK
  <2> QED
    BY ONLY <1>1, <2>1
<1> QED
  BY <1>2, <1>3, <1>4 DEF RanksBefore

-----------------------------------------------------------------------------
\* The theorems.

\* Whatever is asked, whatever the tools answer and whichever of them fails,
\* recommend() keeps its variables consistent: candidates in range wait in
\* the order of the results, and a loaded movie is a result exactly when it fits.
THEOREM ChoiceStaysSound == Spec => []IInv
<1>1. RecommendAssumption /\ Init => IInv
  BY InitOk
<1>2. RecommendAssumption /\ IInv /\ [Next]_vars => IInv'
  BY StepOk
<1> QED
  BY <1>1, <1>2, RecommendAssumption, PTL DEF Spec

\* The lists of recommend() hold movies within the limits of the settings.
THEOREM RecommendTypesHold == Spec => []TypeOK
<1>1. IInv => TypeOK
  BY DEF IInv
<1> QED
  BY <1>1, ChoiceStaysSound, PTL

\* Every movie returned has the required genres, people, runtime, years and
\* ratings, was listed by discover_movies when a keyword, company or provider
\* is required, and none is returned when a required name is unknown
\* (_matches_required, _requires_discovery_crosscheck, unresolved_required).
THEOREM ResultsMeetRequired == Spec => []MeetsRequired
<1>1. IInv => MeetsRequired
  <2> SUFFICES ASSUME IInv, NEW m \in ToSet(movies)
               PROVE  /\ Fits(m)
                      /\ m \in ToSet(found) /\ m \in offered
                      /\ request.crosscheck => discovered
                      /\ ~unresolved
    BY DEF MeetsRequired
  <2>1. m \in Movies /\ movies # <<>>
    <3>1. ToSet(<<>>) = {}
      BY NothingListed
    <3> QED
      BY <3>1, ElementsBound DEF IInv, TypeOK
  <2>2. Fits(m)
    BY <2>1 DEF IInv, BeingLoaded, Loading
  <2>3. m \in ToSet(found)
    BY <2>1, <2>2 DEF IInv, BeingLoaded, Loading, Fits
  <2>4. found # <<>>
    BY <2>3, NothingListed
  <2>5. m \in offered /\ (request.crosscheck => discovered)
    BY <2>3, <2>4 DEF IInv, Shortlisted
  <2> QED
    BY <2>1, <2>2, <2>3, <2>5 DEF IInv, NothingYet
<1> QED
  BY <1>1, ChoiceStaysSound, PTL

\* The results are in the order meant: close to a favourite first, then by IMDb
\* rating if that was asked for, then as listed (the two sorts of recommend()).
THEOREM ResultsInOrder == Spec => []ResultOrder
<1>1. IInv => ResultOrder
  <2> SUFFICES ASSUME IInv, NEW i \in DOMAIN movies, NEW j \in DOMAIN movies, i < j
               PROVE  Precedes(movies[i], movies[j])
    BY DEF ResultOrder
  <2>1. movies \in Seq(Movies) /\ movies # <<>>
    BY DEF IInv, TypeOK
  <2>2. Ordered(movies, ResultsOrder)
    BY <2>1 DEF IInv, BeingLoaded, Loading
  <2>3. <<movies[i], movies[j]>> \in ResultsOrder
    BY <2>2 DEF Ordered
  <2>4. /\ <<movies[i], movies[j]>>[1] = movies[i]
        /\ <<movies[i], movies[j]>>[2] = movies[j]
    OBVIOUS
  <2> QED
    BY <2>3, <2>4, Zenon DEF ResultsOrder
<1> QED
  BY <1>1, ChoiceStaysSound, PTL

\* The limit on results never prefers a movie to one that comes before it and
\* would have been accepted (the loop that stops at max_recommendations).
THEOREM NothingBetterIsSkipped == Spec => []NothingBetterSkipped
<1>1. IInv => NothingBetterSkipped
  <2> SUFFICES ASSUME IInv, NEW m \in ToSet(movies), NEW c \in ToSet(found),
                      Precedes(c, m), RangeContains(request.imdb, ratings[c])
               PROVE  c \in ToSet(movies) \/ (details[c] # None /\ ~Fits(c))
    BY DEF NothingBetterSkipped
  <2>1. movies # <<>> /\ m \in Movies /\ c \in Movies
    <3>1. ToSet(<<>>) = {}
      BY NothingListed
    <3> QED
      BY <3>1, ElementsBound DEF IInv, TypeOK
  <2>2. BeingLoaded /\ Loading /\ TypeOK /\ IsInjective(found)
    BY <2>1 DEF IInv, Loading, Shortlisted
  <2>3. c \in InRange
    BY DEF InRange
  <2>4. m \in ToSet(found)
    BY <2>1, <2>2 DEF BeingLoaded, Fits
  <2>5. c \notin ToSet(candidates)
    <3> SUFFICES ASSUME c \in ToSet(candidates) PROVE FALSE
      OBVIOUS
    <3>1. Precedes(m, c)
      BY <2>2 DEF BeingLoaded
    <3> QED
      BY <2>2, <2>4, <3>1, OneComesFirst, RecommendAssumption
  <2>6. details[c] # None
    BY <2>2, <2>3, <2>5 DEF BeingLoaded
  <2> QED
    BY <2>1, <2>2, <2>6 DEF BeingLoaded
<1> QED
  BY <1>1, ChoiceStaysSound, PTL

\* With fewer results than the limit every movie offered that meets the
\* required years was found, and every one found was refused for a reason
\* (discover_movies' bounds, _matches_required).
THEOREM NothingFittingIsLost == Spec => []NoneMissed
<1>1. IInv => NoneMissed
  <2> SUFFICES ASSUME IInv, stage = "done", Len(movies) < MaxResults
               PROVE  /\ Len(found) < CandidateLimit =>
                            \A m \in offered : RangeContains(request.year, Year[m]) => m \in ToSet(found)
                      /\ \A m \in ToSet(found) :
                            \/ ~RangeContains(request.imdb, ratings[m])
                            \/ m \in ToSet(movies)
                            \/ details[m] # None /\ ~Fits(m)
    BY DEF NoneMissed
  <2>1. Len(found) < CandidateLimit =>
            \A m \in offered : RangeContains(request.year, Year[m]) => m \in ToSet(found)
    BY DEF IInv, Shortlisted
  <2>2. ToSet(candidates) = {}
    <3>1. Len(movies) \in Nat /\ MaxResults \in Nat
      BY RecommendAssumption DEF IInv, TypeOK, RecommendAssumption
    <3>2. ~Full
      BY <3>1 DEF Full
    <3> QED
      BY <3>2, NothingListed DEF IInv, AllLoaded
  <2>3. BeingLoaded /\ Loading
    BY DEF IInv, Loading
  <2>4. ASSUME NEW m \in ToSet(found), RangeContains(request.imdb, ratings[m])
        PROVE  m \in ToSet(movies) \/ (details[m] # None /\ ~Fits(m))
    <3>1. m \in Movies /\ m \in InRange
      BY <2>4, ElementsBound DEF IInv, TypeOK, InRange
    <3>2. details[m] # None
      BY <2>2, <2>3, <3>1 DEF BeingLoaded
    <3> QED
      BY <2>3, <3>1, <3>2 DEF BeingLoaded
  <2> QED
    BY <2>1, <2>4
<1> QED
  BY <1>1, ChoiceStaysSound, PTL
=============================================================================
