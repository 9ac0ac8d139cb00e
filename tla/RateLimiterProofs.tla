------------------------- MODULE RateLimiterProofs -------------------------
(***************************************************************************)
(* The limit on attempts for any number of threads and clients and any     *)
(* Window, MaxAttempts and MaxDelay.                                       *)
(***************************************************************************)
EXTENDS RateLimiter, SequenceTheorems, TLAPS

Hits == [clock : Nat, at : Nat]

\* The fields of what a history holds.
LEMMA HitFields ==
    ASSUME NEW l \in Seq(Hits), NEW j \in 1..Len(l)
    PROVE  l[j].at \in Nat /\ l[j].clock \in Nat
<1>1. l[j] \in Hits
  OBVIOUS
<1> QED
  BY <1>1 DEF Hits

\* An attempt whose successor in the list had expired is at least Age old.
LEMMA AgeBound ==
    ASSUME NEW a \in Nat, NEW b \in Nat, NEW c \in Nat, NEW n \in Nat, NEW t \in Nat,
           a <= b, b <= c + MaxDelay, c <= n - Window, n <= t
    PROVE  a <= t - Age
  BY LimitsAssumption DEF Age

\* Dropping the first k attempts leaves the others in place.
LEMMA KeptRest ==
    ASSUME NEW s \in Seq(Nat), NEW k \in 0..Len(s)
    PROVE  /\ Kept(s, k) \in Seq(Nat)
           /\ Len(Kept(s, k)) = Len(s) - k
           /\ \A j \in 1..(Len(s) - k) : Kept(s, k)[j] = s[k + j]
<1>1. k + 1 \in Int /\ Len(s) \in Int /\ \A i \in (k + 1)..Len(s) : s[i] \in Nat
  OBVIOUS
<1>2. /\ Kept(s, k) \in Seq(Nat)
      /\ Len(Kept(s, k)) = IF k + 1 <= Len(s) THEN Len(s) - (k + 1) + 1 ELSE 0
      /\ \A j \in 1..(Len(s) - (k + 1) + 1) : Kept(s, k)[j] = s[(k + 1) + j - 1]
  BY <1>1, SubSeqProperties DEF Kept
<1> HIDE DEF Kept
<1> QED
  BY <1>1, <1>2

\* The first k attempts of a list may go when the last of them has expired at the reading n.
LEMMA DropFaithful ==
    ASSUME NEW s \in Seq(Nat), NEW l \in Seq(Hits), NEW t \in Nat, NEW n \in Nat, n <= t,
           EndOf(s, l, t), Dated(l, t),
           NEW k \in 0..Len(s), k > 0 => Expired(s[k], n)
    PROVE  EndOf(Kept(s, k), l, t)
<1> DEFINE old == Len(l) - Len(s)
<1>1. /\ Len(Kept(s, k)) = Len(s) - k
      /\ \A j \in 1..(Len(s) - k) : Kept(s, k)[j] = s[k + j]
  BY KeptRest
<1>0. Len(l) \in Nat /\ Len(s) \in Nat /\ k \in Nat /\ k <= Len(s)
  OBVIOUS
<1>9. /\ Len(s) <= MaxAttempts /\ old >= 0
      /\ \A j \in 1..Len(s) : s[j] = l[old + j].clock
      /\ \A j \in 1..old : l[j].at <= t - Age
  BY DEF EndOf
<1>2. old \in Nat /\ old + k <= Len(l) /\ old + Len(s) = Len(l)
  BY <1>0, <1>9
<1> HIDE DEF old
<1>3. \A j \in 1..Len(l) : l[j].at \in Nat /\ l[j].clock \in Nat
  BY HitFields
<1>4. ASSUME NEW j \in 1..(old + k) PROVE l[j].at <= t - Age
  <2>1. CASE k = 0
    BY <2>1, <1>0, <1>2, <1>9
  <2>2. CASE k > 0
    <3>0. old + k \in 1..Len(l) /\ j \in 1..Len(l) /\ k \in 1..Len(s) /\ (j = old + k \/ j < old + k)
      BY <2>2, <1>0, <1>2
    <3>1. l[old + k].clock <= n - Window
      BY <2>2, <3>0, <1>9 DEF Expired
    <3>2. l[j].at <= l[old + k].at /\ l[old + k].at <= l[old + k].clock + MaxDelay
      BY <3>0, <1>3, SMTT(30) DEF Dated
    <3>3. l[j].at \in Nat /\ l[old + k].at \in Nat /\ l[old + k].clock \in Nat
      BY <3>0, <1>3
    <3> QED
      BY <3>1, <3>2, <3>3, AgeBound
  <2> QED
    BY <2>1, <2>2, <1>2
<1>5. \A j \in 1..(Len(s) - k) : Kept(s, k)[j] = l[old + k + j].clock
  <2> SUFFICES ASSUME NEW j \in 1..(Len(s) - k)
               PROVE  Kept(s, k)[j] = l[old + k + j].clock
    OBVIOUS
  <2>1. k + j \in 1..Len(s) /\ old + (k + j) = old + k + j
    BY <1>0, <1>2
  <2>2. Kept(s, k)[j] = s[k + j]
    BY <1>1
  <2>3. s[k + j] = l[old + (k + j)].clock
    BY <2>1, <1>9
  <2> QED
    BY <2>1, <2>2, <2>3
<1>6. Len(Kept(s, k)) <= MaxAttempts /\ Len(l) - Len(Kept(s, k)) = old + k /\ old + k >= 0
  <2>1. Len(Kept(s, k)) = Len(s) - k /\ Len(s) <= MaxAttempts /\ MaxAttempts \in Nat
    BY <1>1, <1>9, LimitsAssumption
  <2>2. old \in Nat /\ old + Len(s) = Len(l)
    BY <1>2
  <2>3. Len(Kept(s, k)) <= MaxAttempts
    BY <2>1, <1>0
  <2>4. Len(l) - Len(Kept(s, k)) = old + k
    BY <2>1, <2>2, <1>0, SMTT(30)
  <2>5. old + k >= 0
    BY <2>2, <1>0
  <2> QED
    BY <2>3, <2>4, <2>5
<1> QED
  BY <1>1, <1>4, <1>5, <1>6 DEF EndOf

\* Counting one more attempt keeps the list the end of the history and the history spaced.
LEMMA CountFaithful ==
    ASSUME NEW s \in Seq(Nat), NEW l \in Seq(Hits), NEW t \in Nat, NEW n \in Nat,
           n <= t, t <= n + MaxDelay, Len(s) < MaxAttempts,
           EndOf(s, l, t), Dated(l, t), Spaced(l)
    PROVE  LET hit == [clock |-> n, at |-> t]
           IN  /\ EndOf(Append(s, n), Append(l, hit), t)
               /\ Dated(Append(l, hit), t)
               /\ Spaced(Append(l, hit))
<1> DEFINE hit == [clock |-> n, at |-> t]
<1> DEFINE m == Append(l, hit)
<1> DEFINE old == Len(l) - Len(s)
<1>1. hit \in Hits /\ m \in Seq(Hits) /\ Len(m) = Len(l) + 1
  BY DEF Hits
<1>2. \A j \in 1..(Len(l) + 1) : m[j] = IF j = Len(l) + 1 THEN hit ELSE l[j]
  OBVIOUS
<1>3. \A j \in 1..Len(l) : l[j].at \in Nat /\ l[j].clock \in Nat
  BY HitFields
<1>0. Len(l) \in Nat /\ Len(s) \in Nat /\ MaxAttempts \in Nat \ {0}
  BY LimitsAssumption
<1>9. /\ Len(s) <= MaxAttempts /\ old >= 0
      /\ \A j \in 1..Len(s) : s[j] = l[old + j].clock
      /\ \A j \in 1..old : l[j].at <= t - Age
  BY DEF EndOf
<1>4. hit.clock = n /\ hit.at = t /\ old \in Nat /\ old + Len(s) = Len(l)
  BY <1>0, <1>9
<1> HIDE DEF m, hit, old
<1>5. EndOf(Append(s, n), m, t)
  <2>1. /\ Len(Append(s, n)) = Len(s) + 1
        /\ \A j \in 1..(Len(s) + 1) : Append(s, n)[j] = IF j = Len(s) + 1 THEN n ELSE s[j]
    OBVIOUS
  <2>2. Len(m) - Len(Append(s, n)) = old
    BY <2>1, <1>0, <1>1, <1>4
  <2>3. ASSUME NEW j \in 1..(Len(s) + 1) PROVE Append(s, n)[j] = m[old + j].clock
    <3>1. CASE j = Len(s) + 1
      <4>1. Append(s, n)[j] = n
        BY <3>1, <2>1, <1>0
      <4>2. old + j = Len(l) + 1 /\ old + j \in 1..(Len(l) + 1)
        BY <3>1, <1>0, <1>4
      <4>3. m[old + j] = hit
        BY <4>2, <1>2
      <4> QED
        BY <4>1, <4>3, <1>4
    <3>2. CASE j # Len(s) + 1
      <4>1. j \in 1..Len(s) /\ old + j \in 1..Len(l) /\ old + j # Len(l) + 1
        BY <3>2, <1>0, <1>4
      <4> QED
        <5>1. Append(s, n)[j] = s[j]
          BY <4>1, <2>1, <1>0
        <5>2. m[old + j] = l[old + j]
          BY <4>1, <1>0, <1>2
        <5>3. s[j] = l[old + j].clock
          BY <4>1, <1>9
        <5> QED
          BY <5>1, <5>2, <5>3
    <3> QED
      BY <3>1, <3>2
  <2>4. ASSUME NEW j \in 1..old PROVE m[j].at <= t - Age
    <3>1. j \in 1..Len(l) /\ j # Len(l) + 1
      BY <1>0, <1>4
    <3> QED
      BY <3>1, <1>0, <1>2, <1>9, SMTT(30)
  <2>5. Len(Append(s, n)) <= MaxAttempts /\ old >= 0
    BY <2>1, <1>0, <1>4
  <2> QED
    BY <2>1, <2>2, <2>3, <2>4, <2>5 DEF EndOf
<1>6. Dated(m, t)
  <2>1. \A j \in 1..Len(l) : m[j] = l[j]
    <3> SUFFICES ASSUME NEW j \in 1..Len(l) PROVE m[j] = l[j]
      OBVIOUS
    <3>1. j \in 1..(Len(l) + 1) /\ j # Len(l) + 1
      BY <1>0
    <3> QED
      BY <3>1, <1>2
  <2>2. m[Len(l) + 1].clock = n /\ m[Len(l) + 1].at = t
    BY <1>0, <1>2, <1>4
  <2>3. ASSUME NEW j \in 1..(Len(l) + 1)
        PROVE  m[j].at <= t /\ m[j].clock <= m[j].at /\ m[j].at <= m[j].clock + MaxDelay
    BY <2>1, <2>2, <1>0, SMTT(30) DEF Dated
  <2>4. ASSUME NEW j \in 1..(Len(l) + 1), NEW i \in 1..(Len(l) + 1), j < i
        PROVE  m[j].at <= m[i].at
    <3>1. j \in 1..Len(l) /\ m[j] = l[j]
      <4>1. j \in 1..Len(l)
        BY ONLY <2>4, <1>0
      <4> QED
        BY ONLY <2>1, <4>1
    <3>2. CASE i \in 1..Len(l)
      <4>1. l[j].at <= l[i].at
        BY <3>1, <3>2, <2>4 DEF Dated
      <4> QED
        BY <3>1, <3>2, <4>1, <2>1
    <3>3. CASE i = Len(l) + 1
      <4>1. l[j].at <= t
        BY <3>1 DEF Dated
      <4> QED
        BY <3>1, <3>3, <4>1, <2>2
    <3> QED
      BY <3>2, <3>3, <1>0
  <2> QED
    BY <2>3, <2>4, <1>1 DEF Dated
<1>7. Spaced(m)
  <2>0. Len(m) - MaxAttempts = Len(l) + 1 - MaxAttempts
    BY <1>0, <1>1
  <2> SUFFICES ASSUME NEW k \in 1..(Len(l) + 1 - MaxAttempts)
               PROVE  m[k + MaxAttempts].at - m[k].at >= Age
    BY <2>0 DEF Spaced
  <2>1. k \in 1..Len(l) /\ m[k] = l[k] /\ MaxAttempts \in Nat \ {0}
    BY <1>0, <1>2
  <2>2. CASE k + MaxAttempts = Len(l) + 1
    <3>1. k \in 1..old
      BY <2>1, <2>2, <1>0, <1>4
    <3>2. l[k].at <= t - Age /\ l[k].at \in Nat
      BY <3>1, <2>1, <1>3, <1>9
    <3>3. m[k + MaxAttempts].at = t
      BY <2>2, <1>0, <1>2, <1>4
    <3> QED
      BY <2>1, <3>2, <3>3, LimitsAssumption DEF Age
  <2>3. CASE k + MaxAttempts # Len(l) + 1
    <3>1. k \in 1..(Len(l) - MaxAttempts) /\ m[k + MaxAttempts] = l[k + MaxAttempts]
      BY <2>1, <2>3, <1>0, <1>2, SMTT(30)
    <3> QED
      BY <2>1, <3>1 DEF Spaced
  <2> QED
    BY <2>2, <2>3
<1> QED
  BY <1>5, <1>6, <1>7 DEF m, hit

\* Pruning the table at the reading n leaves every list the end of its history.
LEMMA PruneFaithful ==
    ASSUME Remembers, NEW n \in Nat, n <= now, NEW c \in Clients
    PROVE  /\ Pruned(n)[c] \in Seq(Nat)
           /\ EndOf(Pruned(n)[c], log[c], now)
<1>1. /\ attempts[c] \in Seq(Nat) /\ log[c] \in Seq(Hits) /\ now \in Nat
      /\ EndOf(attempts[c], log[c], now) /\ Dated(log[c], now)
  BY DEF Remembers, TypeOK, Hits
<1> DEFINE s == attempts[c]
<1>2. CASE Pruned(n)[c] = s
  BY <1>1, <1>2
<1>3. CASE s # <<>> /\ Expired(s[Len(s)], n) /\ Pruned(n)[c] = <<>>
  <2>1. Len(s) \in 0..Len(s) /\ Len(s) > 0 /\ Kept(s, Len(s)) = <<>>
    BY <1>1, <1>3 DEF Kept
  <2>2. EndOf(Kept(s, Len(s)), log[c], now)
    BY <1>1, <1>3, <2>1, DropFaithful
  <2>3. <<>> \in Seq(Nat)
    OBVIOUS
  <2> QED
    BY <1>3, <2>1, <2>2, <2>3
<1>4. \/ Pruned(n)[c] = s
      \/ s # <<>> /\ Expired(s[Len(s)], n) /\ Pruned(n)[c] = <<>>
  BY <1>1 DEF Pruned
<1> QED
  BY <1>2, <1>3, <1>4

\* What the locked block finds after pruning and the popleft loop.
LEMMA KeptFaithful ==
    ASSUME Remembers, NEW r \in running,
           NEW k \in 0..Len(Pruned(r.clock)[r.client]),
           Drops(Pruned(r.clock)[r.client], r.clock, k)
    PROVE  LET rest == Kept(Pruned(r.clock)[r.client], k)
           IN  rest \in Seq(Nat) /\ EndOf(rest, log[r.client], now)
<1>1. /\ r.client \in Clients /\ r.clock \in Nat /\ r.clock <= now /\ now \in Nat
      /\ log[r.client] \in Seq(Hits) /\ Dated(log[r.client], now)
  BY DEF Remembers, TypeOK, Hits
<1> DEFINE s == Pruned(r.clock)[r.client]
<1>2. s \in Seq(Nat) /\ EndOf(s, log[r.client], now)
  BY <1>1, PruneFaithful
<1> HIDE DEF s
<1>3. k \in 0..Len(s) /\ (k > 0 => Expired(s[k], r.clock))
  BY <1>2 DEF Drops, s
<1>4. Kept(s, k) \in Seq(Nat)
  BY <1>2, <1>3, KeptRest
<1>5. EndOf(Kept(s, k), log[r.client], now)
  BY <1>1, <1>2, <1>3, DropFaithful
<1> QED
  BY <1>4, <1>5 DEF s

\* Empty lists end empty histories.
LEMMA InitRemembers == ASSUME Init PROVE Remembers
<1>1. <<>> \in Seq(Nat) /\ <<>> \in Seq(Hits) /\ Len(<<>>) = 0
  OBVIOUS
<1>2. TypeOK
  BY <1>1 DEF Init, TypeOK, Hits
<1>3. RollingLimit
  <2>1. Spaced(<<>>)
    BY <1>1, LimitsAssumption DEF Spaced
  <2> QED
    BY <2>1 DEF Init, RollingLimit
<1>4. EndOf(<<>>, <<>>, 0) /\ Dated(<<>>, 0)
  BY <1>1, LimitsAssumption DEF EndOf, Dated
<1> QED
  BY <1>2, <1>3, <1>4 DEF Init, Remembers

\* Time makes what was dropped older.
LEMMA OlderEnd ==
    ASSUME NEW s \in Seq(Nat), NEW l \in Seq(Hits), NEW t \in Nat, EndOf(s, l, t)
    PROVE  EndOf(s, l, t + 1)
<1>1. \A j \in 1..Len(l) : l[j].at \in Nat
  BY HitFields
<1>2. Age \in Int
  BY LimitsAssumption DEF Age
<1>3. \A j \in 1..(Len(l) - Len(s)) : l[j].at <= t - Age /\ j \in 1..Len(l)
  BY DEF EndOf
<1>4. \A j \in 1..(Len(l) - Len(s)) : l[j].at <= (t + 1) - Age
  <2> SUFFICES ASSUME NEW j \in 1..(Len(l) - Len(s)) PROVE l[j].at <= (t + 1) - Age
    OBVIOUS
  <2>1. l[j].at \in Nat /\ l[j].at <= t - Age
    BY <1>1, <1>3
  <2> QED
    BY <1>2, <2>1
<1>5. Len(s) <= MaxAttempts /\ Len(l) - Len(s) >= 0
  BY DEF EndOf
<1>6. \A j \in 1..Len(s) : s[j] = l[Len(l) - Len(s) + j].clock
  BY DEF EndOf
<1> QED
  BY ONLY <1>4, <1>5, <1>6 DEF EndOf

\* Time passes no further than MaxDelay beyond a thread that has read the clock.
LEMMA TickRemembers == ASSUME Remembers, Tick PROVE Remembers'
<1>1. now \in Nat /\ now' = now + 1 /\ running' = running /\ attempts' = attempts /\ log' = log
  BY DEF Remembers, TypeOK, Tick
<1>2. TypeOK' /\ RollingLimit'
  BY <1>1 DEF Remembers, TypeOK, RollingLimit
<1>3. ASSUME NEW c \in Clients
      PROVE  EndOf(attempts[c], log[c], now + 1) /\ Dated(log[c], now + 1)
  <2>1. EndOf(attempts[c], log[c], now) /\ Dated(log[c], now) /\ log[c] \in Seq(Hits)
    BY DEF Remembers, TypeOK, Hits
  <2>2. \A j \in 1..Len(log[c]) : log[c][j].at \in Nat /\ log[c][j].clock \in Nat
    BY <2>1, HitFields
  <2>3. Age \in Int
    BY LimitsAssumption DEF Age
  <2>4. Dated(log[c], now + 1)
    BY <1>1, <2>1, <2>2 DEF Dated
  <2>5. attempts[c] \in Seq(Nat)
    BY DEF Remembers, TypeOK
  <2>6. EndOf(attempts[c], log[c], now + 1)
    BY <1>1, <2>1, <2>5, OlderEnd
  <2> QED
    BY <2>4, <2>6
<1>4. ASSUME NEW r \in running PROVE r.clock <= now + 1 /\ now + 1 <= r.clock + MaxDelay
  <2>1. r.clock \in Nat /\ r.clock <= now /\ now - r.clock < MaxDelay
    BY DEF Remembers, TypeOK, Tick
  <2> QED
    BY <1>1, <2>1, LimitsAssumption
<1> QED
  BY <1>1, <1>2, <1>3, <1>4 DEF Remembers

\* A reading starts with no delay.
LEMMA ReadRemembers ==
    ASSUME Remembers, NEW u \in Threads, NEW c \in Clients, ReadClock(u, c)
    PROVE  Remembers'
<1>1. /\ now \in Nat /\ now' = now /\ attempts' = attempts /\ log' = log
      /\ running' = running \cup {[thread |-> u, client |-> c, clock |-> now]}
  BY DEF Remembers, TypeOK, ReadClock
<1>2. [thread |-> u, client |-> c, clock |-> now] \in [thread : Threads, client : Clients, clock : Nat]
  BY <1>1
<1>3. TypeOK' /\ RollingLimit'
  BY <1>1, <1>2 DEF Remembers, TypeOK, RollingLimit
<1>4. \A r \in running' : r.clock <= now /\ now <= r.clock + MaxDelay
  BY <1>1, LimitsAssumption DEF Remembers
<1>5. \A d \in Clients : EndOf(attempts[d], log[d], now) /\ Dated(log[d], now)
  BY DEF Remembers
<1> QED
  BY <1>1, <1>3, <1>4, <1>5 DEF Remembers

\* The locked block that refuses.
LEMMA RefuseRemembers == ASSUME Remembers, NEW r \in running, Refuse(r) PROVE Remembers'
<1> DEFINE s == Pruned(r.clock)[r.client]
<1>1. PICK k \in 0..Len(s) :
        /\ Drops(s, r.clock, k)
        /\ attempts' = [Pruned(r.clock) EXCEPT ![r.client] = Kept(s, k)]
  BY DEF Refuse
<1>2. now' = now /\ log' = log /\ running' = running \ {r}
  BY DEF Refuse
<1>3. r.client \in Clients /\ r.clock \in Nat /\ r.clock <= now /\ now \in Nat
  BY DEF Remembers, TypeOK
<1>4. Kept(s, k) \in Seq(Nat) /\ EndOf(Kept(s, k), log[r.client], now)
  BY <1>1, KeptFaithful
<1>5. \A d \in Clients : Pruned(r.clock)[d] \in Seq(Nat) /\ EndOf(Pruned(r.clock)[d], log[d], now)
  BY <1>3, PruneFaithful
<1>6. \A d \in Clients : attempts'[d] = IF d = r.client THEN Kept(s, k) ELSE Pruned(r.clock)[d]
  BY <1>1 DEF Pruned
<1> HIDE DEF s
<1>7. attempts' \in [Clients -> Seq(Nat)]
  <2>1. Pruned(r.clock) = [d \in Clients |-> Pruned(r.clock)[d]]
    BY DEF Pruned
  <2> QED
    BY <1>1, <1>4, <1>5, <2>1
<1>8. \A d \in Clients : EndOf(attempts'[d], log[d], now)
  BY <1>4, <1>5, <1>6
<1>9. TypeOK' /\ RollingLimit'
  BY <1>2, <1>7 DEF Remembers, TypeOK, RollingLimit
<1>10. \A d \in Clients : Dated(log[d], now)
  BY DEF Remembers
<1>11. \A q \in running' : q.clock <= now /\ now <= q.clock + MaxDelay
  BY <1>2 DEF Remembers
<1> QED
  BY <1>2, <1>8, <1>9, <1>10, <1>11 DEF Remembers

\* The locked block that counts an attempt.
LEMMA AcceptRemembers == ASSUME Remembers, NEW r \in running, Accept(r) PROVE Remembers'
<1> DEFINE s == Pruned(r.clock)[r.client]
<1> DEFINE hit == [clock |-> r.clock, at |-> now]
<1>1. PICK k \in 0..Len(s) :
        /\ Drops(s, r.clock, k) /\ ~Full(Kept(s, k))
        /\ attempts' = [Pruned(r.clock) EXCEPT ![r.client] = Append(Kept(s, k), r.clock)]
  BY DEF Accept, Stamp
<1>2. now' = now /\ running' = running \ {r} /\ log' = [log EXCEPT ![r.client] = Append(@, hit)]
  BY DEF Accept
<1>3. /\ r.client \in Clients /\ r.clock \in Nat /\ now \in Nat
      /\ r.clock <= now /\ now <= r.clock + MaxDelay
      /\ log[r.client] \in Seq(Hits) /\ log \in [Clients -> Seq(Hits)]
      /\ Dated(log[r.client], now) /\ Spaced(log[r.client])
  BY DEF Remembers, TypeOK, Hits, RollingLimit
<1>4. /\ Kept(s, k) \in Seq(Nat) /\ EndOf(Kept(s, k), log[r.client], now)
      /\ Len(Kept(s, k)) < MaxAttempts
  <2>1. Kept(s, k) \in Seq(Nat) /\ EndOf(Kept(s, k), log[r.client], now)
    BY <1>1, KeptFaithful
  <2> QED
    BY <1>1, <2>1, LimitsAssumption DEF Full
<1>5. \A d \in Clients : Pruned(r.clock)[d] \in Seq(Nat) /\ EndOf(Pruned(r.clock)[d], log[d], now)
  BY <1>3, PruneFaithful
<1>6. \A d \in Clients :
        /\ attempts'[d] = IF d = r.client THEN Append(Kept(s, k), r.clock) ELSE Pruned(r.clock)[d]
        /\ log'[d] = IF d = r.client THEN Append(log[d], hit) ELSE log[d]
  BY <1>1, <1>2, <1>3 DEF Pruned
<1>7. /\ EndOf(Append(Kept(s, k), r.clock), Append(log[r.client], hit), now)
      /\ Dated(Append(log[r.client], hit), now) /\ Spaced(Append(log[r.client], hit))
  BY <1>3, <1>4, CountFaithful
<1>8. Append(Kept(s, k), r.clock) \in Seq(Nat) /\ Append(log[r.client], hit) \in Seq(Hits)
  <2>1. hit \in Hits
    BY <1>3 DEF Hits
  <2> QED
    BY <1>3, <1>4, <2>1
<1> HIDE DEF s, hit
<1>9. attempts' \in [Clients -> Seq(Nat)] /\ log' \in [Clients -> Seq(Hits)]
  <2>1. Pruned(r.clock) = [d \in Clients |-> Pruned(r.clock)[d]]
    BY DEF Pruned
  <2>2. attempts' \in [Clients -> Seq(Nat)]
    BY <1>1, <1>8, <1>5, <2>1
  <2>3. log' \in [Clients -> Seq(Hits)]
    BY <1>2, <1>3, <1>8
  <2> QED
    BY <2>2, <2>3
<1>10. \A d \in Clients : EndOf(attempts'[d], log'[d], now) /\ Dated(log'[d], now) /\ Spaced(log'[d])
  <2> SUFFICES ASSUME NEW d \in Clients
               PROVE  EndOf(attempts'[d], log'[d], now) /\ Dated(log'[d], now) /\ Spaced(log'[d])
    OBVIOUS
  <2>1. CASE d = r.client
    BY <2>1, <1>6, <1>7
  <2>2. CASE d # r.client
    BY <2>2, <1>5, <1>6 DEF Remembers, RollingLimit
  <2> QED
    BY <2>1, <2>2
<1>11. TypeOK'
  BY <1>2, <1>3, <1>9 DEF Remembers, TypeOK, Hits
<1>12. \A q \in running' : q.clock <= now /\ now <= q.clock + MaxDelay
  BY <1>2 DEF Remembers
<1> QED
  BY <1>2, <1>10, <1>11, <1>12 DEF Remembers, RollingLimit

\* No step breaks the invariant.
LEMMA Step == ASSUME Remembers, [Next]_vars PROVE Remembers'
<1>1. CASE UNCHANGED vars
  BY <1>1 DEF vars, Remembers, TypeOK, RollingLimit
<1>2. ASSUME NEW r \in running, Accept(r) \/ Refuse(r) PROVE Remembers'
  BY <1>2, AcceptRemembers, RefuseRemembers
<1>3. ASSUME NEW u \in Threads, NEW c \in Clients, ReadClock(u, c) PROVE Remembers'
  BY <1>3, ReadRemembers
<1> QED
  BY <1>1, <1>2, <1>3, TickRemembers DEF Next

\* The list of a client always is the recent end of its history, whatever threads interleave.
THEOREM ListRemembers == Spec => []Remembers
<1>1. Init => Remembers
  BY InitRemembers
<1>2. Remembers /\ [Next]_vars => Remembers'
  BY Step
<1> QED
  BY <1>1, <1>2, PTL DEF Spec

\* Therefore the limit holds in every span shorter than Window - MaxDelay.
THEOREM LimitHolds == Spec => []RollingLimit
<1>1. Remembers => RollingLimit
  BY DEF Remembers
<1> QED
  BY <1>1, ListRemembers, PTL

\* And nobody is refused for attempts older than Window + MaxDelay.
THEOREM RefusalsAreJustified == Spec => RefusalJustified
<1>1. ASSUME Remembers, NEW r \in running, Refuse(r)
      PROVE  LET mine == log[r.client]
             IN  /\ Len(mine) >= MaxAttempts
                 /\ mine[Len(mine) - MaxAttempts + 1].at > now - Window - MaxDelay
  <2> DEFINE s == Pruned(r.clock)[r.client]
  <2> DEFINE l == log[r.client]
  <2>1. PICK k \in 0..Len(s) : Drops(s, r.clock, k) /\ Full(Kept(s, k))
    BY <1>1 DEF Refuse
  <2>2. /\ r.client \in Clients /\ r.clock \in Nat /\ r.clock <= now /\ now \in Nat
        /\ now <= r.clock + MaxDelay /\ l \in Seq(Hits) /\ Dated(l, now)
    BY <1>1 DEF Remembers, TypeOK, Hits
  <2>3. s \in Seq(Nat)
    BY <1>1, <2>2, PruneFaithful
  <2>4. Kept(s, k) \in Seq(Nat) /\ EndOf(Kept(s, k), l, now)
    BY <1>1, <2>1, KeptFaithful
  <2> HIDE DEF s, l
  <2>5. Len(Kept(s, k)) = MaxAttempts
    BY <2>1, <2>4, LimitsAssumption DEF Full, EndOf
  <2>6. Len(l) - MaxAttempts >= 0 /\ Kept(s, k)[1] = l[Len(l) - MaxAttempts + 1].clock
    BY <2>4, <2>5, LimitsAssumption DEF EndOf
  <2>7. Kept(s, k)[1] > r.clock - Window
    <3>1. Len(Kept(s, k)) = Len(s) - k /\ Len(s) - k > 0
      BY <2>3, <2>5, KeptRest, LimitsAssumption
    <3>2. Kept(s, k)[1] = s[k + 1] /\ s[k + 1] \in Nat
      <4>1. Len(s) \in Nat /\ k \in Nat
        BY <2>3
      <4>2. 1 \in 1..(Len(s) - k)
        BY <4>1, <3>1
      <4>3. k + 1 \in 1..Len(s)
        BY <4>1, <3>1
      <4>4. Kept(s, k)[1] = s[k + 1]
        BY <2>3, <4>2, KeptRest
      <4>5. s[k + 1] \in Nat
        BY <2>3, <4>3
      <4> QED
        BY <4>4, <4>5
    <3>3. ~Expired(s[k + 1], r.clock)
      BY <2>1, <3>1, <2>3 DEF Drops
    <3> QED
      BY <2>2, <3>2, <3>3, LimitsAssumption DEF Expired
  <2>8. Len(l) - MaxAttempts + 1 \in 1..Len(l)
    BY <2>2, <2>6, LimitsAssumption
  <2>9. l[Len(l) - MaxAttempts + 1].at >= l[Len(l) - MaxAttempts + 1].clock
    BY <2>2, <2>8 DEF Dated
  <2>10. /\ l[Len(l) - MaxAttempts + 1].at \in Nat
         /\ l[Len(l) - MaxAttempts + 1].clock \in Nat
    BY <2>2, <2>8, HitFields
  <2>11. l[Len(l) - MaxAttempts + 1].at > now - Window - MaxDelay
    <3> DEFINE a == l[Len(l) - MaxAttempts + 1].at
    <3> DEFINE b == l[Len(l) - MaxAttempts + 1].clock
    <3>1. a \in Nat /\ b \in Nat /\ a >= b /\ b > r.clock - Window
      BY <2>6, <2>7, <2>9, <2>10
    <3> HIDE DEF a, b
    <3>2. a > now - Window - MaxDelay
      BY <2>2, <3>1, LimitsAssumption
    <3> QED
      BY <3>2 DEF a
  <2>12. Len(l) >= MaxAttempts
    BY <2>2, <2>6, LimitsAssumption
  <2> QED
    BY <2>11, <2>12 DEF l
<1>2. ASSUME Remembers, [Next]_vars, NEW r \in running \ running', UNCHANGED log PROVE Refuse(r)
  <2>1. ASSUME NEW q \in running, Accept(q) PROVE FALSE
    <3>1. log' # log
      <4>1. q.client \in Clients /\ log \in [Clients -> Seq(Hits)]
        BY <1>2 DEF Remembers, TypeOK, Hits
      <4>2. log'[q.client] = Append(log[q.client], [clock |-> q.clock, at |-> now])
        BY <2>1, <4>1 DEF Accept
      <4>3. Len(log'[q.client]) = Len(log[q.client]) + 1 /\ Len(log[q.client]) \in Nat
        BY <4>1, <4>2
      <4> QED
        BY <4>3
    <3> QED
      BY <1>2, <3>1
  <2>2. ASSUME NEW q \in running, Refuse(q) PROVE Refuse(r)
    BY <1>2, <2>2 DEF Refuse
  <2>3. ASSUME NEW u \in Threads, NEW c \in Clients, ReadClock(u, c) PROVE FALSE
    BY <1>2, <2>3 DEF ReadClock
  <2>4. ~Tick /\ ~UNCHANGED vars
    BY <1>2 DEF Tick, vars
  <2> QED
    BY <1>2, <2>1, <2>2, <2>3, <2>4 DEF Next
<1>3. Remembers /\ [Next]_vars =>
        [\A r \in running \ running' :
            UNCHANGED log =>
                LET mine == log[r.client]
                IN  /\ Len(mine) >= MaxAttempts
                    /\ mine[Len(mine) - MaxAttempts + 1].at > now - Window - MaxDelay]_vars
  BY <1>1, <1>2
<1> QED
  BY <1>3, ListRemembers, PTL DEF Spec, RefusalJustified

=============================================================================
