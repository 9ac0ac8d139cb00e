---------------------------- MODULE WebsiteProofs ----------------------------
(***************************************************************************)
(* What the tabs of Website show and remember, for any number of tabs,     *)
(* browsers, accounts, movies and requests, with and without faults.       *)
(***************************************************************************)
EXTENDS Website, AccountApiProofs

\* The visitor's list after an authentication: no movie is lost that the account does not hold.
LEMMA WhatRemains ==
    ASSUME NEW visitorIds \in Seq(Movies), NEW ids \in Seq(Movies)
    PROVE  /\ Remaining(visitorIds, ids) \in Seq(Movies)
           /\ ToSet(visitorIds) \ ToSet(ids) \subseteq ToSet(Remaining(visitorIds, ids))
<1> DEFINE N == Len(visitorIds)
           Lists == Seq(Movies)
           Step(l, n) == IF visitorIds[n] \in ToSet(ids) THEN l ELSE Append(l, visitorIds[n])
           Holding(n) == {l \in Seq(Movies) :
                             \A k \in 1..n : visitorIds[k] \notin ToSet(ids) => visitorIds[k] \in ToSet(l)}
           Obeys(g, n) == g[n] = IF n = 0 THEN <<>> ELSE Step(g[n - 1], n)
           Reach == {n \in 0..N : \E g \in [0..n -> Lists] : \A k \in 0..n : Obeys(g, k)}
           Whole(g) == g = [n \in 0..N |-> IF n = 0 THEN <<>> ELSE Step(g[n - 1], n)]
           kept == CHOOSE g : Whole(g)
<1>1. N \in Nat /\ 0..N \subseteq Nat /\ 0 \in 0..N /\ N \in 0..N /\ \A k \in 1..N : visitorIds[k] \in Movies
  OBVIOUS
<1>2. <<>> \in Lists /\ \A l \in Lists : \A n \in 1..N : Step(l, n) \in Lists
  BY <1>1
<1>3. ASSUME NEW n \in 1..N, NEW l \in Holding(n - 1) PROVE Step(l, n) \in Holding(n)
  <2>1. l \in Seq(Movies) /\ \A k \in 1..(n - 1) : visitorIds[k] \notin ToSet(ids) => visitorIds[k] \in ToSet(l)
    OBVIOUS
  <2>2. ToSet(Append(l, visitorIds[n])) = ToSet(l) \cup {visitorIds[n]}
    BY <1>1, <2>1, ElementsAppend
  <2>3. \A k \in 1..n : k = n \/ k \in 1..(n - 1)
    BY <1>1
  <2>4. ASSUME NEW k \in 1..n, visitorIds[k] \notin ToSet(ids) PROVE visitorIds[k] \in ToSet(Step(l, n))
    BY <2>1, <2>2, <2>3, <2>4
  <2>5. Step(l, n) \in Seq(Movies)
    BY <1>2, <2>1
  <2> QED
    BY <2>4, <2>5
<1>4. Remaining(visitorIds, ids) = kept[N]
  BY DEF Remaining
<1> HIDE DEF N, Step, Lists
<1>5. Reach = 0..N
  <2>1. Reach \subseteq 0..N
    OBVIOUS
  <2>2. 0 \in Reach
    <3> DEFINE g == [k \in 0..0 |-> <<>>]
    <3>1. g \in [0..0 -> Lists] /\ \A k \in 0..0 : Obeys(g, k)
      BY <1>2
    <3> QED
      BY <1>1, <3>1
  <2>3. ASSUME NEW n \in 1..N, n - 1 \in Reach PROVE n \in Reach
    <3>1. PICK g \in [0..(n - 1) -> Lists] : \A k \in 0..(n - 1) : Obeys(g, k)
      BY <2>3
    <3> DEFINE h == [k \in 0..n |-> IF k = n THEN Step(g[n - 1], n) ELSE g[k]]
    <3>2. h \in [0..n -> Lists]
      BY <1>1, <1>2, <3>1
    <3>3. \A k \in 0..n : Obeys(h, k)
      BY <1>1, <3>1
    <3> HIDE DEF h
    <3> QED
      BY <1>1, <3>2, <3>3
  <2> HIDE DEF Reach
  <2> QED
    BY <1>1, <2>1, <2>2, <2>3, StepByStep
<1>6. PICK g \in [0..N -> Lists] : \A k \in 0..N : Obeys(g, k)
  <2> HIDE DEF Obeys
  <2>1. N \in Reach
    BY <1>1, <1>5
  <2> QED
    BY <2>1
<1>7. Whole(g)
  BY <1>6
<1>8. Whole(kept)
  BY <1>7
<1> HIDE DEF kept, Reach
<1>9. \A n \in 0..N : kept[n] = IF n = 0 THEN <<>> ELSE Step(kept[n - 1], n)
  BY <1>8
<1> HIDE DEF Whole
<1> DEFINE P == {n \in 0..N : kept[n] \in Holding(n)}
<1>10. 0 \in P
  <2>1. <<>> \in Holding(0)
    OBVIOUS
  <2> HIDE DEF Holding
  <2> QED
    BY <1>1, <1>9, <2>1
<1>11. ASSUME NEW n \in 1..N, n - 1 \in P PROVE n \in P
  <2> HIDE DEF Holding
  <2> QED
    BY <1>1, <1>3, <1>9, <1>11
<1>12. P = 0..N
  <2>1. P \subseteq 0..N
    OBVIOUS
  <2> HIDE DEF P
  <2> QED
    BY <1>1, <1>10, <1>11, <2>1, StepByStep
<1>13. kept[N] \in Holding(N)
  <2> HIDE DEF Holding
  <2> QED
    BY <1>1, <1>12
<1>14. \A m \in ToSet(visitorIds) : \E k \in 1..N : m = visitorIds[k]
  BY DEF N, ToSet
<1> QED
  BY <1>4, <1>13, <1>14

-----------------------------------------------------------------------------
\* The requests a tab waits for.
Waits(t) == {tab[t].action, tab[t].refresh, tab[t].search} \ {NoSlot}

\* A request is waited for by one tab.
Apart == \A t, u \in Tabs : t # u => Waits(t) \cap Waits(u) = {}

Shows(t) ==
    /\ tab[t].owner = tab[t].user
    /\ tab[t].user = Nobody => tab[t].list = tab[t].guest
    /\ tab[t].user # Nobody =>
          /\ tab[t].asOf <= revision[tab[t].user]
          /\ tab[t].asOf = revision[tab[t].user] => tab[t].list = favorites[tab[t].user]

\* What each of its requests asks for: nothing the tab shows has changed since an action was sent.
Acts(t) ==
    tab[t].action # NoSlot =>
        LET q == request[tab[t].action]
        IN  /\ tab[t].refresh = NoSlot /\ tab[t].action # tab[t].search
            /\ q.kind \in {"login", "signup", "logout", "add", "remove"} /\ q.expected = tab[t].user
            /\ q.kind \in Entering <=> tab[t].user = Nobody
            /\ q.kind \in Entering => q.ids = tab[t].guest
            /\ tab[t].heard => q.kind \in {"login", "signup", "logout"}

Refreshes(t) ==
    tab[t].refresh # NoSlot =>
        request[tab[t].refresh].kind = "me" /\ tab[t].refresh # tab[t].search

Searches(t) ==
    tab[t].search # NoSlot =>
        request[tab[t].search].kind = "recommend" /\ request[tab[t].search].expected = tab[t].user

\* A reply that a tab will show is not older than what it shows.
InTime(t) ==
    \A s \in {tab[t].action, tab[t].refresh} \ {NoSlot} :
        LET q == request[s]
        IN  q.status = "ok" /\ q.kind # "logout" /\ q.user = tab[t].user /\ q.user # Nobody =>
                tab[t].asOf <= q.asOf

TabSound(t) == Shows(t) /\ Acts(t) /\ Refreshes(t) /\ Searches(t) /\ InTime(t)

WebSound ==
    /\ ApiSound
    /\ jar \in [Browsers -> issued \cup {NoToken}] /\ tab \in [Tabs -> Tab] /\ acted \in 0..MaxActions
    /\ Apart
    /\ \A t \in Tabs : TabSound(t)

\* What a step may never do to a tab.
Forward(t) == tab[t].user # Nobody /\ tab'[t].user = tab[t].user => tab'[t].asOf >= tab[t].asOf
GuestKept(t) ==
    \A m \in ToSet(tab[t].guest) \ ToSet(tab'[t].guest) :
        \/ tab[t].user = Nobody /\ tab'[t].user = Nobody /\ acted' # acted
        \/ tab'[t].user # Nobody /\ m \in ToSet(tab'[t].list)

StepIsSound == WebSound' /\ \A t \in Tabs : Forward(t) /\ GuestKept(t)

-----------------------------------------------------------------------------
\* A tab that nothing reaches stays sound: its requests are as they were.
LEMMA TabUntouched ==
    ASSUME WebSound, NEW u \in Tabs, tab'[u] = tab[u], \A r \in Waits(u) : request'[r] = request[r],
           favorites' = favorites, revision' = revision
    PROVE  TabSound(u)' /\ Forward(u) /\ GuestKept(u)
<1>1. TabSound(u) /\ tab[u] \in Tab
  BY DEF WebSound
<1>2. \A r \in {tab[u].action, tab[u].refresh, tab[u].search} \ {NoSlot} : request'[r] = request[r]
  BY DEF Waits
<1>3. Shows(u)'
  BY <1>1 DEF TabSound, Shows
<1>4. Acts(u)'
  BY <1>1, <1>2 DEF TabSound, Acts
<1>5. Refreshes(u)' /\ Searches(u)'
  BY <1>1, <1>2 DEF TabSound, Refreshes, Searches
<1>6. InTime(u)'
  BY <1>1, <1>2 DEF TabSound, InTime
<1>7. Forward(u) /\ GuestKept(u)
  <2>1. tab[u].asOf \in Nat
    BY <1>1 DEF Tab
  <2> QED
    BY <2>1 DEF Forward, GuestKept
<1> QED
  BY <1>3, <1>4, <1>5, <1>6, <1>7 DEF TabSound

\* When one tab becomes another soundly, and the requests of the others stay, all stays sound.
LEMMA OneTabMoves ==
    ASSUME WebSound, NEW t \in Tabs, NEW new \in Tab, Become(t, new), ApiSound',
           favorites' = favorites, revision' = revision, issued' = issued,
           jar' \in [Browsers -> issued \cup {NoToken}], acted' \in 0..MaxActions,
           \A u \in Tabs \ {t} : \A r \in Waits(u) :
               request'[r] = request[r] /\ r \notin {new.action, new.refresh, new.search},
           tab'[t] = new => TabSound(t)' /\ Forward(t) /\ GuestKept(t)
    PROVE  StepIsSound
<1>1. /\ tab' = [tab EXCEPT ![t] = new] /\ tab \in [Tabs -> Tab]
  BY DEF Become, WebSound
<1>2. tab' \in [Tabs -> Tab] /\ tab'[t] = new /\ \A u \in Tabs \ {t} : tab'[u] = tab[u]
  BY <1>1
<1>3. ASSUME NEW u \in Tabs PROVE TabSound(u)' /\ Forward(u) /\ GuestKept(u)
  <2>1. CASE u = t
    BY <1>2, <2>1
  <2>2. CASE u # t
    BY <1>2, <2>2, TabUntouched
  <2> QED
    BY <2>1, <2>2
<1>4. Apart'
  <2>1. Waits(t)' = {new.action, new.refresh, new.search} \ {NoSlot}
    BY <1>2 DEF Waits
  <2>2. \A u \in Tabs \ {t} : Waits(u)' = Waits(u)
    BY <1>2 DEF Waits
  <2>3. \A u \in Tabs \ {t} : Waits(u) \cap ({new.action, new.refresh, new.search} \ {NoSlot}) = {}
    OBVIOUS
  <2>4. Apart
    BY DEF WebSound
  <2> QED
    BY <2>1, <2>2, <2>3, <2>4 DEF Apart
<1> QED
  BY <1>2, <1>3, <1>4 DEF StepIsSound, WebSound

-----------------------------------------------------------------------------
\* What the server does to a request: it is what was sent, and its answer is as recent as can be.
Handled(s) ==
    /\ request[s].status = "working"
    /\ \A r \in Slots \ {s} : request'[r] = request[r]
    /\ request'[s].kind = request[s].kind /\ request'[s].expected = request[s].expected
    /\ request'[s].ids = request[s].ids
    /\ request'[s].status = "ok" /\ request'[s].kind # "logout" /\ request'[s].user # Nobody =>
          request'[s].asOf = revision'[request'[s].user]
    /\ issued \subseteq issued'
    /\ \A a \in Accounts : \/ revision'[a] = revision[a] /\ favorites'[a] = favorites[a]
                           \/ revision'[a] = revision[a] + 1

\* A stage that is not the last.
LEMMA StageHandled ==
    ASSUME ApiSound, NEW s \in Slots, NEW stage, At(s, stage), NEW x \in Request, Continue(s, x),
           x.kind = request[s].kind, x.expected = request[s].expected, x.ids = request[s].ids,
           x.todo = request[s].todo, x.status = request[s].status
    PROVE  /\ request[s].status = "working" /\ \A r \in Slots \ {s} : request'[r] = request[r]
           /\ request'[s].kind = request[s].kind /\ request'[s].expected = request[s].expected
           /\ request'[s].ids = request[s].ids
           /\ request'[s].user = x.user /\ request'[s].asOf = x.asOf
           /\ request'[s].status = "ok" => Follows(request[s].kind, stage, "end")
<1>1. /\ Tail(x.todo) \in Seq(StageNames) /\ request[s].status = "working"
      /\ Len(request[s].todo) = 1 => Follows(request[s].kind, stage, "end")
  BY AtStage
<1> QED
  BY <1>1, Continued

\* Every stage and every failure is such a handling.
LEMMA ServerHandles ==
    ASSUME ApiSound, NEW s \in Slots, Handle(s) \/ Break(s)
    PROVE  Handled(s)
<1> DEFINE q == request[s]
<1>1. /\ q \in Request /\ Sound(q) /\ revision \in [Accounts -> Nat] /\ registered \subseteq Accounts
      /\ favorites \in [Accounts -> Seq(Movies)]
  BY DEF ApiSound, ApiTypeOK
<1>2. CASE Recognize(s)
  <2>1. Holder(q) \in Accounts \cup {Nobody}
    BY <1>1 DEF Holder, Request, ApiSound, ApiTypeOK
  <2> DEFINE x == [q EXCEPT !.user = Holder(q)]
  <2>2. /\ x \in Request /\ x.kind = q.kind /\ x.expected = q.expected /\ x.ids = q.ids
        /\ x.todo = q.todo /\ x.status = q.status
    BY <1>1, <2>1 DEF Request
  <2> HIDE DEF x
  <2>3. At(s, "session") /\ Continue(s, x) /\ UNCHANGED <<revision, favorites, issued>>
    BY <1>2 DEF Recognize, x
  <2>4. ~Follows(q.kind, "session", "end")
    BY DEF Follows
  <2> QED
    BY <2>2, <2>3, <2>4, StageHandled DEF Handled
<1>3. CASE Verify(s)
  <2> DEFINE x == [q EXCEPT !.user = q.account]
  <2>2. /\ x \in Request /\ x.kind = q.kind /\ x.expected = q.expected /\ x.ids = q.ids
        /\ x.todo = q.todo /\ x.status = q.status
    BY <1>1 DEF Request
  <2> HIDE DEF x
  <2>3. At(s, "credentials") /\ Continue(s, x) /\ UNCHANGED <<revision, favorites, issued>>
    BY <1>3 DEF Verify, x
  <2>4. ~Follows(q.kind, "credentials", "end")
    BY DEF Follows
  <2> QED
    BY <2>2, <2>3, <2>4, StageHandled DEF Handled
<1>4. CASE Revoke(s)
  <2>1. At(s, "revoke") /\ Continue(s, q) /\ UNCHANGED <<revision, favorites, issued>>
    BY <1>4 DEF Revoke
  <2>2. Follows(q.kind, "revoke", "end") => q.kind = "logout"
    BY DEF Follows
  <2> QED
    BY <1>1, <2>1, <2>2, StageHandled DEF Handled
<1>5. CASE OpenSession(s)
  <2>1. PICK k \in Tokens : /\ At(s, "open") /\ Continue(s, [q EXCEPT !.cookie = k])
                            /\ issued' = issued \cup {k} /\ UNCHANGED <<revision, favorites>>
    BY <1>5 DEF OpenSession
  <2> DEFINE x == [q EXCEPT !.cookie = k]
  <2>2. /\ x \in Request /\ x.kind = q.kind /\ x.expected = q.expected /\ x.ids = q.ids
        /\ x.todo = q.todo /\ x.status = q.status
    BY <1>1 DEF Request
  <2> HIDE DEF x
  <2>3. At(s, "open") /\ Continue(s, x) /\ issued \subseteq issued' /\ UNCHANGED <<revision, favorites>>
    BY <2>1 DEF x
  <2>4. ~Follows(q.kind, "open", "end")
    BY DEF Follows
  <2> QED
    BY <2>2, <2>3, <2>4, StageHandled DEF Handled
<1>6. CASE Read(s)
  <2> DEFINE u == q.user
             x == IF u = Nobody THEN [q EXCEPT !.list = IF q.kind = "recommend" THEN q.ids ELSE <<>>]
                  ELSE [q EXCEPT !.list = favorites[u], !.asOf = revision[u]]
  <2>1. At(s, "read") /\ Continue(s, x) /\ UNCHANGED <<revision, favorites, issued>>
    BY <1>6 DEF Read
  <2>2. x \in Request
    <3>1. <<>> \in Seq(Movies) /\ u \in Accounts \cup {Nobody}
      BY <1>1 DEF Request
    <3> QED
      BY <1>1, <3>1, ZenonT(40) DEF Request
  <2>3. /\ x.kind = q.kind /\ x.expected = q.expected /\ x.ids = q.ids
        /\ x.todo = q.todo /\ x.status = q.status
    OBVIOUS
  <2>4. x.user = u /\ (u # Nobody => x.asOf = revision[u])
    BY <1>1 DEF Request
  <2> HIDE DEF x
  <2> QED
    BY <2>1, <2>2, <2>3, <2>4, StageHandled DEF Handled
<1>7. CASE Create(s) \/ Merge(s) \/ Write(s)
  <2>1. PICK stage \in {"create", "merge", "write"}, a \in Accounts, list \in Fitting, more \in SUBSET Accounts :
            At(s, stage) /\ Store(s, a, list, more)
    BY <1>7, CreateStores, MergeStores, WriteStores DEF Stores
  <2> DEFINE x == [q EXCEPT !.user = a, !.list = list, !.asOf = revision[a] + 1, !.wrote = list # favorites[a]]
  <2>2. /\ favorites' = [favorites EXCEPT ![a] = list] /\ revision' = [revision EXCEPT ![a] = @ + 1]
        /\ Continue(s, x) /\ issued' = issued
    BY <2>1 DEF Store
  <2>3. x \in Request
    <3>1. list \in Seq(Movies) /\ revision[a] + 1 \in Nat /\ (list # favorites[a]) \in BOOLEAN
      BY <1>1 DEF Fitting
    <3> QED
      BY <1>1, <3>1, ZenonT(40) DEF Request
  <2>4. /\ x.kind = q.kind /\ x.expected = q.expected /\ x.ids = q.ids
        /\ x.todo = q.todo /\ x.status = q.status
    OBVIOUS
  <2>5. x.user = a /\ x.asOf = revision[a] + 1
    BY <1>1, ZenonT(40) DEF Request
  <2> HIDE DEF x
  <2>6. /\ \A b \in Accounts : \/ revision'[b] = revision[b] /\ favorites'[b] = favorites[b]
                              \/ revision'[b] = revision[b] + 1
        /\ revision'[a] = revision[a] + 1
    BY <1>1, <2>2
  <2> QED
    BY <2>1, <2>2, <2>3, <2>4, <2>5, <2>6, StageHandled DEF Handled
<1>8. CASE Break(s) \/ RefuseSession(s) \/ RefuseCredentials(s) \/ RefuseAccount(s) \/ ListFull(s)
  <2>1. PICK status \in {"401", "409", "error"} : Answer(s, status) /\ q.status = "working"
    BY <1>8 DEF Break, RefuseSession, RefuseCredentials, RefuseAccount, ListFull, At
  <2>2. request' = [request EXCEPT ![s] = [@ EXCEPT !.status = status, !.todo = <<>>]]
        /\ UNCHANGED <<revision, favorites, issued>>
    BY <2>1 DEF Answer
  <2>3. request'[s] = [q EXCEPT !.status = status, !.todo = <<>>]
        /\ \A r \in Slots \ {s} : request'[r] = request[r]
    BY <2>2 DEF ApiSound, ApiTypeOK
  <2>4. /\ request'[s].kind = q.kind /\ request'[s].expected = q.expected /\ request'[s].ids = q.ids
        /\ request'[s].status # "ok"
    BY <1>1, <2>3 DEF Request
  <2> QED
    BY <2>1, <2>2, <2>3, <2>4 DEF Handled
<1> QED
  BY <1>2, <1>3, <1>4, <1>5, <1>6, <1>7, <1>8 DEF Handle

\* The tabs while the server works.
LEMMA TabWaits ==
    ASSUME WebSound, NEW s \in Slots, Handled(s), NEW u \in Tabs, tab'[u] = tab[u]
    PROVE  TabSound(u)' /\ Forward(u) /\ GuestKept(u)
<1>1. /\ TabSound(u) /\ tab[u] \in Tab /\ NoSlot \notin Slots /\ Nobody \notin Accounts
      /\ favorites \in [Accounts -> Seq(Movies)] /\ revision \in [Accounts -> Nat]
  BY WebsiteAssumption, ApiAssumption DEF WebSound, ApiSound, ApiTypeOK
<1>2. \A r \in Slots : /\ request'[r].kind = request[r].kind /\ request'[r].expected = request[r].expected
                       /\ request'[r].ids = request[r].ids
  BY DEF Handled
<1>3. {tab[u].action, tab[u].refresh, tab[u].search} \subseteq Slots \cup {NoSlot}
      /\ tab[u].user \in Accounts \cup {Nobody} /\ tab[u].asOf \in Nat
  BY <1>1 DEF Tab
<1>4. Shows(u)'
  <2>1. CASE tab[u].user = Nobody
    BY <1>1, <2>1 DEF TabSound, Shows
  <2>2. CASE tab[u].user \in Accounts
    <3> DEFINE a == tab[u].user
    <3>1. /\ revision[a] \in Nat /\ tab[u].asOf <= revision[a]
          /\ tab[u].asOf = revision[a] => tab[u].list = favorites[a]
      BY <1>1, <2>2 DEF TabSound, Shows
    <3>2. \/ revision'[a] = revision[a] /\ favorites'[a] = favorites[a]
          \/ revision'[a] = revision[a] + 1
      BY <2>2 DEF Handled
    <3>3. /\ tab[u].asOf <= revision'[a]
          /\ tab[u].asOf = revision'[a] => tab[u].list = favorites'[a]
      BY <1>3, <3>1, <3>2
    <3> QED
      BY <1>1, <2>2, <3>3 DEF TabSound, Shows
  <2> QED
    BY <1>3, <2>1, <2>2
<1>5. Acts(u)'
  BY <1>1, <1>2, <1>3 DEF TabSound, Acts
<1>6. Refreshes(u)' /\ Searches(u)'
  BY <1>1, <1>2, <1>3 DEF TabSound, Refreshes, Searches
<1>7. InTime(u)'
  <2> SUFFICES ASSUME NEW r \in {tab[u].action, tab[u].refresh} \ {NoSlot},
                      request'[r].status = "ok", request'[r].kind # "logout",
                      request'[r].user = tab[u].user, request'[r].user # Nobody
               PROVE  tab[u].asOf <= request'[r].asOf
    BY DEF InTime
  <2>1. CASE r = s
    <3>1. tab[u].user \in Accounts /\ request'[r].asOf = revision'[tab[u].user]
      BY <1>3, <2>1 DEF Handled
    <3>2. tab[u].asOf <= revision'[tab[u].user]
      BY <1>4, <3>1, <1>1 DEF Shows
    <3> QED
      BY <3>1, <3>2
  <2>2. CASE r # s
    <3>1. request'[r] = request[r]
      BY <1>3, <2>2 DEF Handled
    <3> QED
      BY <1>1, <3>1 DEF TabSound, InTime
  <2> QED
    BY <2>1, <2>2
<1>8. Forward(u) /\ GuestKept(u)
  BY <1>3 DEF Forward, GuestKept
<1> QED
  BY <1>4, <1>5, <1>6, <1>7, <1>8 DEF TabSound

\* A stage of the server, or its failure, keeps every tab sound.
LEMMA ServerStep ==
    ASSUME WebSound, NEW s \in Slots, Handle(s) \/ Break(s), UNCHANGED <<jar, tab, acted>>
    PROVE  StepIsSound
<1>1. ApiSound /\ Handled(s)
  BY ServerHandles DEF WebSound
<1>2. ApiSound'
  BY <1>1, ApiStepSound DEF ApiStep
<1>3. ASSUME NEW u \in Tabs PROVE TabSound(u)' /\ Forward(u) /\ GuestKept(u)
  BY <1>1, TabWaits
<1>4. Apart'
  BY DEF WebSound, Apart, Waits
<1>5. /\ jar' \in [Browsers -> issued' \cup {NoToken}] /\ tab' \in [Tabs -> Tab] /\ acted' \in 0..MaxActions
  <2>1. jar \in [Browsers -> issued \cup {NoToken}] /\ tab \in [Tabs -> Tab] /\ acted \in 0..MaxActions
    BY DEF WebSound
  <2>2. issued \subseteq issued' /\ jar' = jar /\ tab' = tab /\ acted' = acted
    BY <1>1 DEF Handled
  <2> QED
    BY <2>1, <2>2
<1> QED
  BY <1>2, <1>3, <1>4, <1>5 DEF StepIsSound, WebSound

\* Time runs out for a session.
LEMMA ExpiryStep ==
    ASSUME WebSound, NEW k \in Tokens, Expire(k), UNCHANGED <<jar, tab, acted>>
    PROVE  StepIsSound
<1>1. ApiSound' /\ UNCHANGED <<favorites, revision, issued, request>>
  BY ExpireStep DEF WebSound, Expire
<1>2. ASSUME NEW u \in Tabs PROVE TabSound(u)' /\ Forward(u) /\ GuestKept(u)
  BY <1>1, TabUntouched
<1> QED
  BY <1>1, <1>2 DEF StepIsSound, WebSound, Apart, Waits

-----------------------------------------------------------------------------
\* A tab that only stops waiting for some of its requests, or hears a reply.
LEMMA Released ==
    ASSUME WebSound, NEW t \in Tabs, NEW new \in Tab, Become(t, new), UNCHANGED apiVars, acted' = acted,
           jar' \in [Browsers -> issued \cup {NoToken}],
           new.user = tab[t].user, new.owner = tab[t].owner, new.list = tab[t].list,
           new.asOf = tab[t].asOf, new.guest = tab[t].guest,
           new.action \in {tab[t].action, NoSlot}, new.refresh \in {tab[t].refresh, NoSlot},
           new.search \in {tab[t].search, NoSlot},
           \/ new.heard = tab[t].heard
           \/ new.action # NoSlot => request[new.action].kind \in {"login", "signup", "logout"}
    PROVE  StepIsSound
<1>1. ApiSound' /\ favorites' = favorites /\ revision' = revision /\ issued' = issued /\ request' = request
  BY ApiStillStands DEF WebSound, apiVars
<1>2. TabSound(t) /\ tab[t] \in Tab /\ acted' \in 0..MaxActions
  BY DEF WebSound
<1>3. ASSUME tab'[t] = new PROVE TabSound(t)' /\ Forward(t) /\ GuestKept(t)
  <2>1. Shows(t)'
    BY <1>1, <1>2, <1>3 DEF TabSound, Shows
  <2>2. Acts(t)'
    BY <1>1, <1>2, <1>3 DEF TabSound, Acts
  <2>3. Refreshes(t)' /\ Searches(t)'
    BY <1>1, <1>2, <1>3 DEF TabSound, Refreshes, Searches
  <2>4. InTime(t)'
    BY <1>1, <1>2, <1>3 DEF TabSound, InTime
  <2>5. Forward(t) /\ GuestKept(t)
    <3>1. tab[t].asOf \in Nat
      BY <1>2 DEF Tab
    <3> QED
      BY <1>3, <3>1 DEF Forward, GuestKept
  <2> QED
    BY <2>1, <2>2, <2>3, <2>4, <2>5 DEF TabSound
<1>4. ASSUME NEW u \in Tabs \ {t}, NEW r \in Waits(u)
      PROVE  request'[r] = request[r] /\ r \notin {new.action, new.refresh, new.search}
  BY <1>1 DEF WebSound, Apart, Waits
<1> QED
  BY <1>1, <1>2, <1>3, <1>4, OneTabMoves

\* A tab that shows an account or a visitor afresh waits for nothing but perhaps its search.
LEMMA ShownAfresh ==
    ASSUME WebSound, NEW t \in Tabs, NEW new \in Tab, Become(t, new), UNCHANGED <<apiVars, jar, acted>>,
           new.owner = new.user, new.user = Nobody => new.list = new.guest,
           new.user # Nobody => /\ new.asOf <= revision[new.user]
                                /\ new.asOf = revision[new.user] => new.list = favorites[new.user],
           new.action = NoSlot, new.refresh = NoSlot,
           new.search # NoSlot => new.search = tab[t].search /\ new.user = tab[t].user,
           tab'[t] = new => Forward(t) /\ GuestKept(t)
    PROVE  StepIsSound
<1>1. ApiSound' /\ favorites' = favorites /\ revision' = revision /\ issued' = issued /\ request' = request
  BY ApiStillStands DEF WebSound, apiVars
<1>2. TabSound(t) /\ tab[t] \in Tab /\ acted' \in 0..MaxActions /\ jar' \in [Browsers -> issued \cup {NoToken}]
  BY DEF WebSound
<1>3. ASSUME tab'[t] = new PROVE TabSound(t)'
  <2>1. Shows(t)'
    BY <1>1, <1>3 DEF Shows
  <2>2. Acts(t)' /\ Refreshes(t)' /\ InTime(t)'
    BY <1>3 DEF Acts, Refreshes, InTime
  <2>3. Searches(t)'
    BY <1>1, <1>2, <1>3 DEF TabSound, Searches
  <2> QED
    BY <2>1, <2>2, <2>3 DEF TabSound
<1>4. ASSUME NEW u \in Tabs \ {t}, NEW r \in Waits(u)
      PROVE  request'[r] = request[r] /\ r \notin {new.action, new.refresh, new.search}
  BY <1>1 DEF WebSound, Apart, Waits
<1> QED
  BY <1>1, <1>2, <1>3, <1>4, OneTabMoves

-----------------------------------------------------------------------------
\* A request as it is sent.
LEMMA IncomingSays ==
    ASSUME NEW kind \in Kinds, NEW token, NEW expected, NEW account, NEW ids
    PROVE  LET q == Incoming(kind, token, expected, account, ids)
           IN  q.kind = kind /\ q.expected = expected /\ q.ids = ids /\ q.status = "working"
  BY DEF Incoming, Idle

\* A tab sends a request and goes on showing what it shows.
LEMMA Asks ==
    ASSUME WebSound, NEW t \in Tabs, NEW new \in Tab, Become(t, new), NEW s \in Slots,
           NEW kind \in Kinds, NEW expected \in Accounts \cup {Nobody}, NEW account \in Accounts \cup {Nobody},
           NEW ids \in Seq(Movies), kind \in Entering => account \in Accounts,
           Arrive(s, Incoming(kind, jar[tab[t].browser], expected, account, ids)),
           jar' = jar, acted' \in 0..MaxActions,
           \A u \in Tabs \ {t} : s \notin Waits(u),
           new.user = tab[t].user, new.owner = tab[t].owner, new.list = tab[t].list,
           new.asOf = tab[t].asOf, new.guest = tab[t].guest,
           new.action # NoSlot =>
               /\ new.action = s /\ new.refresh = NoSlot /\ new.search # s /\ ~new.heard
               /\ kind \in {"login", "signup", "logout", "add", "remove"} /\ expected = tab[t].user
               /\ kind \in Entering <=> tab[t].user = Nobody
               /\ kind \in Entering => ids = tab[t].guest,
           new.refresh # NoSlot =>
               /\ new.refresh # new.search
               /\ IF new.refresh = s THEN kind = "me" ELSE new.refresh = tab[t].refresh,
           new.search # NoSlot =>
               IF new.search = s THEN kind = "recommend" /\ expected = tab[t].user
               ELSE new.search = tab[t].search
    PROVE  StepIsSound
<1> DEFINE token == jar[tab[t].browser]
           q == Incoming(kind, token, expected, account, ids)
<1>1. TabSound(t) /\ tab[t] \in Tab /\ tab[t].asOf \in Nat /\ token \in issued \cup {NoToken}
  BY DEF WebSound, Tab
<1>2. ApiSound'
  BY <1>1, ArriveStep DEF WebSound, Sendable
<1>3. q.kind = kind /\ q.expected = expected /\ q.ids = ids /\ q.status = "working"
  BY IncomingSays
<1> HIDE DEF q
<1>4. /\ request' = [request EXCEPT ![s] = q] /\ request \in [Slots -> Request]
      /\ UNCHANGED <<registered, favorites, revision, session, issued>>
  BY DEF Arrive, q, WebSound, ApiSound, ApiTypeOK
<1>5. request'[s] = q /\ \A r \in Slots \ {s} : request'[r] = request[r]
  BY <1>4
<1>6. {new.action, new.refresh, new.search} \subseteq Slots \cup {NoSlot}
  BY DEF Tab
<1>7. ASSUME tab'[t] = new PROVE TabSound(t)' /\ Forward(t) /\ GuestKept(t)
  <2>1. Shows(t)'
    BY <1>1, <1>4, <1>7 DEF TabSound, Shows
  <2>2. Acts(t)'
    BY <1>3, <1>5, <1>7 DEF Acts
  <2>3. Refreshes(t)'
    BY <1>1, <1>3, <1>5, <1>6, <1>7 DEF TabSound, Refreshes
  <2>4. Searches(t)'
    BY <1>1, <1>3, <1>5, <1>6, <1>7 DEF TabSound, Searches
  <2>5. InTime(t)'
    BY <1>1, <1>3, <1>5, <1>6, <1>7 DEF TabSound, InTime
  <2>6. Forward(t) /\ GuestKept(t)
    BY <1>1, <1>7 DEF Forward, GuestKept
  <2> QED
    BY <2>1, <2>2, <2>3, <2>4, <2>5, <2>6 DEF TabSound
<1>8. ASSUME NEW u \in Tabs \ {t}, NEW r \in Waits(u)
      PROVE  request'[r] = request[r] /\ r \notin {new.action, new.refresh, new.search}
  <2>1. r \in Slots /\ r # s
    BY DEF Waits, WebSound, Tab
  <2>2. r \notin Waits(t)
    BY DEF WebSound, Apart
  <2> QED
    BY <1>5, <2>1, <2>2 DEF Waits
<1> QED
  BY <1>2, <1>4, <1>7, <1>8, OneTabMoves DEF WebSound

\* What Send means for the tab that sends.
LEMMA Sending ==
    ASSUME WebSound, NEW t \in Tabs, NEW s \in Slots, NEW kind, NEW expected, NEW account, NEW ids,
           Send(t, s, kind, expected, account, ids)
    PROVE  /\ Arrive(s, Incoming(kind, jar[tab[t].browser], expected, account, ids))
           /\ jar' = jar /\ acted' \in 0..MaxActions
           /\ \A u \in Tabs : s \notin Waits(u)
           /\ s \notin {tab[t].action, tab[t].refresh, tab[t].search, NoSlot}
<1>1. acted \in 0..MaxActions /\ MaxActions \in Nat /\ NoSlot \notin Slots
  BY WebsiteAssumption DEF WebSound
<1>2. acted < MaxActions /\ acted' = acted + 1
  BY DEF Send
<1>3. acted' \in 0..MaxActions
  BY <1>1, <1>2
<1> QED
  BY <1>1, <1>3 DEF Send, Watched, Waits

\* Where the fields of a tab range.
LEMMA TabFields ==
    ASSUME WebSound, NEW t \in Tabs
    PROVE  /\ tab[t] \in Tab /\ tab[t].user \in Accounts \cup {Nobody} /\ tab[t].list \in Seq(Movies)
           /\ tab[t].guest \in Seq(Movies) /\ tab[t].asOf \in Nat
           /\ {tab[t].action, tab[t].refresh, tab[t].search} \subseteq Slots \cup {NoSlot}
           /\ TabSound(t) /\ Nobody \notin Accounts /\ NoSlot \notin Slots
  BY WebsiteAssumption, ApiAssumption DEF WebSound, Tab

\* The tab asks for its account.
LEMMA RefreshStep ==
    ASSUME WebSound, NEW t \in Tabs, NEW s \in Slots, Refresh(t, s)
    PROVE  StepIsSound
<1> DEFINE new == [tab[t] EXCEPT !.refresh = s]
           ids == <<>>
<1>1. tab[t].action = NoSlot /\ Send(t, s, "me", Nobody, Nobody, ids) /\ Become(t, new)
  BY DEF Refresh, MayRefresh, Busy
<1>2. /\ new \in Tab /\ new.refresh = s /\ new.action = tab[t].action /\ new.search = tab[t].search
      /\ new.user = tab[t].user /\ new.owner = tab[t].owner /\ new.list = tab[t].list
      /\ new.asOf = tab[t].asOf /\ new.guest = tab[t].guest
  BY TabFields DEF Tab
<1>3. "me" \in Kinds /\ "me" \notin Entering /\ ids \in Seq(Movies) /\ Nobody \in Accounts \cup {Nobody}
  BY DEF Kinds, Entering
<1> HIDE DEF new, ids
<1>4. /\ Arrive(s, Incoming("me", jar[tab[t].browser], Nobody, Nobody, ids)) /\ jar' = jar /\ acted' \in 0..MaxActions
      /\ \A u \in Tabs \ {t} : s \notin Waits(u)
      /\ s \notin {tab[t].action, tab[t].refresh, tab[t].search, NoSlot}
  BY <1>1, Sending
<1> QED
  BY <1>1, <1>2, <1>3, <1>4, Asks

\* The tab when it sends an action.
LEMMA ActingFields ==
    ASSUME WebSound, NEW t \in Tabs, NEW s \in Slots
    PROVE  LET new == Acting(t, s)
           IN  /\ new \in Tab /\ new.action = s /\ new.refresh = NoSlot /\ ~new.heard
               /\ new.search = tab[t].search /\ new.user = tab[t].user /\ new.owner = tab[t].owner
               /\ new.list = tab[t].list /\ new.asOf = tab[t].asOf /\ new.guest = tab[t].guest
<1> DEFINE new == Acting(t, s)
<1>1. tab[t] \in Tab
  BY TabFields
<1>2. new = [tab[t] EXCEPT !.action = s, !.heard = FALSE, !.refresh = NoSlot]
  BY DEF Acting
<1> HIDE DEF new
<1>3. new \in Tab
  BY <1>1, <1>2, ZenonT(40) DEF Tab
<1>4. new.action = s /\ new.refresh = NoSlot /\ new.heard = FALSE
  BY <1>1, <1>2 DEF Tab
<1>5. new.search = tab[t].search /\ new.user = tab[t].user /\ new.owner = tab[t].owner
  BY <1>1, <1>2 DEF Tab
<1>6. new.list = tab[t].list /\ new.asOf = tab[t].asOf /\ new.guest = tab[t].guest
  BY <1>1, <1>2 DEF Tab
<1> QED
  BY <1>3, <1>4, <1>5, <1>6 DEF new

\* A visitor logs in or signs up.
LEMMA AuthenticateStep ==
    ASSUME WebSound, NEW t \in Tabs, NEW s \in Slots, NEW mode \in {"login", "signup"}, NEW a \in Accounts,
           Authenticate(t, s, mode, a)
    PROVE  StepIsSound
<1> DEFINE new == Acting(t, s)
           guest == tab[t].guest
<1>1. tab[t].user = Nobody /\ Send(t, s, mode, Nobody, a, guest) /\ Become(t, new)
  BY DEF Authenticate
<1>2. /\ mode \in Kinds /\ mode \in Entering /\ guest \in Seq(Movies)
      /\ Nobody \in Accounts \cup {Nobody} /\ a \in Accounts \cup {Nobody}
  BY TabFields DEF Kinds, Entering
<1>3. /\ Arrive(s, Incoming(mode, jar[tab[t].browser], Nobody, a, guest)) /\ jar' = jar /\ acted' \in 0..MaxActions
      /\ \A u \in Tabs \ {t} : s \notin Waits(u)
      /\ s \notin {tab[t].action, tab[t].refresh, tab[t].search, NoSlot}
  BY <1>1, Sending
<1>4. /\ new \in Tab /\ new.action = s /\ new.refresh = NoSlot /\ ~new.heard
      /\ new.search = tab[t].search /\ new.user = tab[t].user /\ new.owner = tab[t].owner
      /\ new.list = tab[t].list /\ new.asOf = tab[t].asOf /\ new.guest = guest
  BY ActingFields
<1>5. guest = tab[t].guest
  OBVIOUS
<1> HIDE DEF new, guest
<1> QED
  BY <1>1, <1>2, <1>3, <1>4, <1>5, Asks

\* A user logs out.
LEMMA LogoutStep ==
    ASSUME WebSound, NEW t \in Tabs, NEW s \in Slots, Logout(t, s)
    PROVE  StepIsSound
<1> DEFINE ids == <<>>
           new == Acting(t, s)
<1>1. tab[t].user # Nobody /\ Send(t, s, "logout", tab[t].user, Nobody, ids) /\ Become(t, new)
  BY DEF Logout
<1>2. /\ "logout" \in Kinds /\ "logout" \notin Entering /\ ids \in Seq(Movies)
      /\ Nobody \in Accounts \cup {Nobody} /\ tab[t].user \in Accounts \cup {Nobody}
  BY TabFields DEF Kinds, Entering
<1> HIDE DEF ids
<1>3. /\ Arrive(s, Incoming("logout", jar[tab[t].browser], tab[t].user, Nobody, ids)) /\ jar' = jar /\ acted' \in 0..MaxActions
      /\ \A u \in Tabs \ {t} : s \notin Waits(u)
      /\ s \notin {tab[t].action, tab[t].refresh, tab[t].search, NoSlot}
  BY <1>1, Sending
<1>4. /\ new \in Tab /\ new.action = s /\ new.refresh = NoSlot /\ ~new.heard
      /\ new.search = tab[t].search /\ new.user = tab[t].user /\ new.owner = tab[t].owner
      /\ new.list = tab[t].list /\ new.asOf = tab[t].asOf /\ new.guest = tab[t].guest
  BY ActingFields
<1> HIDE DEF new
<1> QED
  BY <1>1, <1>2, <1>3, <1>4, Asks

\* A user changes a favourite.
LEMMA ToggleStep ==
    ASSUME WebSound, NEW t \in Tabs, NEW s \in Slots, NEW m \in Movies, ToggleFavorite(t, s, m)
    PROVE  StepIsSound
<1> DEFINE kind == IF Listed(t, m) THEN "remove" ELSE "add"
           ids == <<m>>
           new == Acting(t, s)
<1>1. tab[t].user # Nobody /\ Send(t, s, kind, tab[t].user, Nobody, ids) /\ Become(t, new)
  BY DEF ToggleFavorite
<1>2. /\ kind \in {"add", "remove"} /\ kind \in Kinds /\ kind \notin Entering /\ ids \in Seq(Movies)
      /\ Nobody \in Accounts \cup {Nobody} /\ tab[t].user \in Accounts \cup {Nobody}
  BY TabFields DEF Kinds, Entering
<1> HIDE DEF kind, ids
<1>3. /\ Arrive(s, Incoming(kind, jar[tab[t].browser], tab[t].user, Nobody, ids)) /\ jar' = jar /\ acted' \in 0..MaxActions
      /\ \A u \in Tabs \ {t} : s \notin Waits(u)
      /\ s \notin {tab[t].action, tab[t].refresh, tab[t].search, NoSlot}
  BY <1>1, Sending
<1>4. /\ new \in Tab /\ new.action = s /\ new.refresh = NoSlot /\ ~new.heard
      /\ new.search = tab[t].search /\ new.user = tab[t].user /\ new.owner = tab[t].owner
      /\ new.list = tab[t].list /\ new.asOf = tab[t].asOf /\ new.guest = tab[t].guest
  BY ActingFields
<1> HIDE DEF new
<1> QED
  BY <1>1, <1>2, <1>3, <1>4, Asks

\* A search starts.
LEMMA SearchStep ==
    ASSUME WebSound, NEW t \in Tabs, NEW s \in Slots, Search(t, s)
    PROVE  StepIsSound
<1> DEFINE new == [tab[t] EXCEPT !.search = s]
           ids == IF tab[t].user = Nobody THEN tab[t].list ELSE <<>>
<1>1. tab[t].action = NoSlot /\ Send(t, s, "recommend", tab[t].user, Nobody, ids) /\ Become(t, new)
  BY DEF Search, Able, Busy
<1>2. /\ new \in Tab /\ new.search = s /\ new.action = tab[t].action /\ new.refresh = tab[t].refresh
      /\ new.user = tab[t].user /\ new.owner = tab[t].owner /\ new.list = tab[t].list
      /\ new.asOf = tab[t].asOf /\ new.guest = tab[t].guest
  BY TabFields DEF Tab
<1>3. /\ "recommend" \in Kinds /\ "recommend" \notin Entering /\ tab[t].user \in Accounts \cup {Nobody}
      /\ ids \in Seq(Movies)
  BY TabFields DEF Kinds, Entering
<1> HIDE DEF new, ids
<1>4. /\ Arrive(s, Incoming("recommend", jar[tab[t].browser], tab[t].user, Nobody, ids)) /\ jar' = jar /\ acted' \in 0..MaxActions
      /\ \A u \in Tabs \ {t} : s \notin Waits(u)
      /\ s \notin {tab[t].action, tab[t].refresh, tab[t].search, NoSlot}
  BY <1>1, Sending
<1> QED
  BY <1>1, <1>2, <1>3, <1>4, Asks

\* A visitor changes the list of the tab.
LEMMA GuestStep ==
    ASSUME WebSound, NEW t \in Tabs, NEW m \in Movies, ToggleGuest(t, m)
    PROVE  StepIsSound
<1> DEFINE ids == IF Listed(t, m) THEN Without(tab[t].list, m) ELSE Append(tab[t].list, m)
           new == [tab[t] EXCEPT !.list = ids, !.guest = ids]
<1>1. /\ tab[t].action = NoSlot /\ tab[t].user = Nobody /\ Become(t, new)
      /\ acted < MaxActions /\ acted' = acted + 1 /\ UNCHANGED <<apiVars, jar>>
  BY DEF ToggleGuest, MayToggle, Able, Busy
<1>2. ids \in Seq(Movies)
  BY TabFields, Shortened DEF Without
<1> HIDE DEF ids
<1>3. /\ new \in Tab /\ new.list = ids /\ new.guest = ids /\ new.action = tab[t].action
      /\ new.refresh = tab[t].refresh /\ new.search = tab[t].search
      /\ new.user = tab[t].user /\ new.owner = tab[t].owner /\ new.asOf = tab[t].asOf
  BY <1>2, TabFields DEF Tab
<1> HIDE DEF new
<1>4. ApiSound' /\ favorites' = favorites /\ revision' = revision /\ issued' = issued /\ request' = request
  BY <1>1, ApiStillStands DEF WebSound, apiVars
<1>5. /\ TabSound(t) /\ acted \in 0..MaxActions /\ MaxActions \in Nat
      /\ jar' \in [Browsers -> issued \cup {NoToken}]
  BY <1>1, WebsiteAssumption DEF WebSound
<1>6. acted' \in 0..MaxActions /\ acted' # acted
  BY <1>1, <1>5
<1>7. ASSUME tab'[t] = new PROVE TabSound(t)' /\ Forward(t) /\ GuestKept(t)
  <2>1. Shows(t)' /\ Acts(t)'
    BY <1>1, <1>3, <1>5, <1>7 DEF TabSound, Shows, Acts
  <2>2. Refreshes(t)' /\ Searches(t)'
    BY <1>3, <1>4, <1>5, <1>7 DEF TabSound, Refreshes, Searches
  <2>3. InTime(t)'
    BY <1>3, <1>4, <1>5, <1>7 DEF TabSound, InTime
  <2>4. Forward(t) /\ GuestKept(t)
    BY <1>1, <1>3, <1>6, <1>7 DEF Forward, GuestKept
  <2> QED
    BY <2>1, <2>2, <2>3, <2>4 DEF TabSound
<1>8. ASSUME NEW u \in Tabs \ {t}, NEW r \in Waits(u)
      PROVE  request'[r] = request[r] /\ r \notin {new.action, new.refresh, new.search}
  BY <1>3, <1>4 DEF WebSound, Apart, Waits
<1> QED
  BY <1>1, <1>3, <1>4, <1>5, <1>6, <1>7, <1>8, OneTabMoves

-----------------------------------------------------------------------------
\* A tab x that shows a user and waits for what the tab t waits for, but a search of another user.
Presents(x, t, user, list, asOf, guest) ==
    /\ x \in Tab /\ x.user = user /\ x.owner = user /\ x.guest = guest
    /\ x.list = (IF user = Nobody THEN guest ELSE list)
    /\ x.asOf = (IF user = Nobody THEN 0 ELSE asOf)
    /\ x.action = tab[t].action /\ x.refresh = tab[t].refresh
    /\ x.search # NoSlot => x.search = tab[t].search /\ user = tab[t].user

\* applyAccount presents what it is given.
LEMMA AccountShown ==
    ASSUME WebSound, NEW t \in Tabs, NEW user \in Accounts \cup {Nobody}, NEW list \in Seq(Movies),
           NEW asOf \in Nat, NEW guest \in Seq(Movies)
    PROVE  Presents(ShowAccount(t, user, list, asOf, guest), t, user, list, asOf, guest)
<1> DEFINE shown == IF user = Nobody THEN guest ELSE list
           since == IF user = Nobody THEN 0 ELSE asOf
           search == SearchAfter(t, user)
           x == ShowAccount(t, user, list, asOf, guest)
<1>1. tab[t] \in Tab /\ shown \in Seq(Movies) /\ since \in Nat
  BY TabFields
<1>2. search \in Slots \cup {NoSlot} /\ (search # NoSlot => search = tab[t].search /\ user = tab[t].user)
  BY TabFields DEF SearchAfter
<1>3. x = [tab[t] EXCEPT !.user = user, !.owner = user, !.guest = guest, !.ready = TRUE,
                         !.list = shown, !.asOf = since, !.search = search]
  BY DEF ShowAccount
<1> HIDE DEF shown, since, search, x
<1>4. x \in Tab
  <2> DEFINE y == [tab[t] EXCEPT !.user = user, !.owner = user, !.guest = guest, !.ready = TRUE]
  <2>1. y \in Tab
    BY <1>1, ZenonT(40) DEF Tab
  <2>2. x = [y EXCEPT !.list = shown, !.asOf = since, !.search = search]
    BY <1>3
  <2> HIDE DEF y
  <2> QED
    BY <1>1, <1>2, <2>1, <2>2, ZenonT(40) DEF Tab
<1>5. x.user = user /\ x.owner = user /\ x.guest = guest
  BY <1>1, <1>3 DEF Tab
<1>6. x.list = shown /\ x.asOf = since /\ x.search = search
  BY <1>1, <1>3 DEF Tab
<1>7. x.action = tab[t].action /\ x.refresh = tab[t].refresh
  BY <1>1, <1>3 DEF Tab
<1> QED
  BY <1>2, <1>4, <1>5, <1>6, <1>7 DEF Presents, x, shown, since

\* What a reply says of the account it is about.
LEMMA ReplySays ==
    ASSUME WebSound, NEW s \in Slots, request[s].status = "ok"
    PROVE  LET q == request[s]
           IN  /\ q.user \in Accounts \cup {Nobody} /\ q.list \in Seq(Movies) /\ q.asOf \in Nat
               /\ q.ids \in Seq(Movies) /\ q.cookie \in issued \cup {NoToken}
               /\ q.user # Nobody /\ q.kind # "logout" =>
                     /\ q.asOf <= revision[q.user]
                     /\ q.asOf = revision[q.user] => q.list = favorites[q.user]
               /\ q.kind \in Entering \cup {"add", "remove"} => q.user # Nobody
               /\ q.kind \in Checked => q.expected \in {Nobody, q.user}
<1>1. request[s] \in Request /\ Sound(request[s])
  BY DEF WebSound, ApiSound, ApiTypeOK
<1> QED
  BY <1>1 DEF Sound, Known, Current, Addressed, Request

\* The reply to a refresh is shown: no action came in between.
LEMMA ApplyRefreshStep ==
    ASSUME WebSound, NEW t \in Tabs, ApplyRefresh(t)
    PROVE  StepIsSound
<1> DEFINE s == tab[t].refresh
           q == request[s]
           x == ShowAccount(t, q.user, q.list, q.asOf, tab[t].guest)
           new == [x EXCEPT !.refresh = NoSlot]
<1>1. s # NoSlot /\ q.status = "ok" /\ Become(t, new) /\ UNCHANGED <<apiVars, jar, acted>>
  BY DEF ApplyRefresh, Ok, Done
<1>2. s \in Slots /\ q.kind = "me" /\ tab[t].action = NoSlot /\ tab[t].guest \in Seq(Movies) /\ tab[t].asOf \in Nat
  BY <1>1, TabFields DEF TabSound, Refreshes, Acts
<1>3. /\ q.user \in Accounts \cup {Nobody} /\ q.list \in Seq(Movies) /\ q.asOf \in Nat
      /\ q.user # Nobody => /\ q.asOf <= revision[q.user]
                            /\ q.asOf = revision[q.user] => q.list = favorites[q.user]
  BY <1>1, <1>2, ReplySays
<1>4. q.user = tab[t].user /\ q.user # Nobody => tab[t].asOf <= q.asOf
  BY <1>1, <1>2, TabFields DEF TabSound, InTime
<1> HIDE DEF q
<1>5. Presents(x, t, q.user, q.list, q.asOf, tab[t].guest)
  BY <1>2, <1>3, AccountShown
<1> HIDE DEF x
<1>6. /\ new \in Tab /\ new.user = x.user /\ new.owner = x.owner /\ new.guest = x.guest /\ new.list = x.list
      /\ new.asOf = x.asOf /\ new.action = x.action /\ new.refresh = NoSlot /\ new.search = x.search
  BY <1>5 DEF Presents, Tab
<1> HIDE DEF new
<1>7. tab'[t] = new => Forward(t) /\ GuestKept(t)
  BY <1>2, <1>3, <1>4, <1>5, <1>6 DEF Presents, Forward, GuestKept
<1> QED
  BY <1>1, <1>2, <1>3, <1>5, <1>6, <1>7, ShownAfresh DEF Presents

\* The reply to a change of favourites is shown: it is of the account shown.
LEMMA ApplyFavoritesStep ==
    ASSUME WebSound, NEW t \in Tabs, ApplyFavorites(t)
    PROVE  StepIsSound
<1> DEFINE s == tab[t].action
           q == request[s]
           new == [tab[t] EXCEPT !.list = q.list, !.owner = q.user, !.asOf = q.asOf, !.action = NoSlot]
<1>1. /\ s # NoSlot /\ q.status = "ok" /\ q.kind \in {"add", "remove"} /\ Become(t, new)
      /\ UNCHANGED <<apiVars, jar, acted>>
  BY DEF ApplyFavorites, Ok, Done
<1>2. /\ s \in Slots /\ q.expected = tab[t].user /\ tab[t].refresh = NoSlot /\ tab[t] \in Tab
      /\ tab[t].user # Nobody
  BY <1>1, TabFields DEF TabSound, Acts, Entering
<1>3. /\ q.user = tab[t].user /\ q.list \in Seq(Movies) /\ q.asOf \in Nat
      /\ q.asOf <= revision[q.user] /\ (q.asOf = revision[q.user] => q.list = favorites[q.user])
  BY <1>1, <1>2, ReplySays DEF Checked
<1>4. tab[t].asOf <= q.asOf /\ tab[t].asOf \in Nat
  BY <1>1, <1>2, <1>3, TabFields DEF TabSound, InTime
<1> HIDE DEF q
<1>5. new \in Tab
  BY <1>2, <1>3, TabFields, ZenonT(40) DEF Tab
<1>6. new.list = q.list /\ new.owner = q.user /\ new.asOf = q.asOf /\ new.action = NoSlot
  BY <1>2 DEF Tab
<1>7. /\ new.user = tab[t].user /\ new.guest = tab[t].guest /\ new.refresh = tab[t].refresh
      /\ new.search = tab[t].search
  BY <1>2 DEF Tab
<1> HIDE DEF new
<1>8. tab'[t] = new => Forward(t) /\ GuestKept(t)
  BY <1>3, <1>4, <1>6, <1>7 DEF Forward, GuestKept
<1> QED
  BY <1>1, <1>2, <1>3, <1>5, <1>6, <1>7, <1>8, ShownAfresh

\* The reply to a log-in, a sign-up or a log-out is shown.
LEMMA ApplyIdentityStep ==
    ASSUME WebSound, NEW t \in Tabs, ApplyIdentity(t)
    PROVE  StepIsSound
<1> DEFINE s == tab[t].action
           q == request[s]
           user == IF q.kind = "logout" THEN Nobody ELSE q.user
           guest == IF q.kind = "logout" THEN tab[t].guest ELSE Remaining(q.ids, q.list)
           x == ShowAccount(t, user, q.list, q.asOf, guest)
           new == [x EXCEPT !.action = NoSlot]
<1>1. /\ s # NoSlot /\ q.status = "ok" /\ tab[t].heard /\ Become(t, new) /\ UNCHANGED <<apiVars, jar, acted>>
  BY DEF ApplyIdentity, Ok, Done
<1>2. /\ s \in Slots /\ q.kind \in {"login", "signup", "logout"} /\ tab[t].refresh = NoSlot
      /\ q.kind \in Entering <=> tab[t].user = Nobody
      /\ q.kind \in Entering => q.ids = tab[t].guest
      /\ tab[t].guest \in Seq(Movies) /\ tab[t].asOf \in Nat
  BY <1>1, TabFields DEF TabSound, Acts
<1>3. /\ q.user \in Accounts \cup {Nobody} /\ q.list \in Seq(Movies) /\ q.asOf \in Nat /\ q.ids \in Seq(Movies)
      /\ q.kind \in Entering => q.user # Nobody
      /\ q.user # Nobody /\ q.kind # "logout" =>
            /\ q.asOf <= revision[q.user]
            /\ q.asOf = revision[q.user] => q.list = favorites[q.user]
  BY <1>1, <1>2, ReplySays
<1>4. /\ user \in Accounts \cup {Nobody} /\ guest \in Seq(Movies)
      /\ q.kind = "logout" => user = Nobody /\ guest = tab[t].guest
      /\ q.kind # "logout" => /\ user # Nobody /\ user = q.user /\ tab[t].user = Nobody
                              /\ ToSet(tab[t].guest) \ ToSet(guest) \subseteq ToSet(q.list)
  BY <1>2, <1>3, WhatRemains DEF Entering
<1> HIDE DEF user, guest, q
<1>5. Presents(x, t, user, q.list, q.asOf, guest)
  BY <1>3, <1>4, AccountShown
<1> HIDE DEF x
<1>6. /\ new \in Tab /\ new.user = x.user /\ new.owner = x.owner /\ new.guest = x.guest /\ new.list = x.list
      /\ new.asOf = x.asOf /\ new.action = NoSlot /\ new.refresh = x.refresh /\ new.search = x.search
  BY <1>5 DEF Presents, Tab
<1> HIDE DEF new
<1>7. tab'[t] = new => Forward(t) /\ GuestKept(t)
  BY <1>2, <1>4, <1>5, <1>6 DEF Presents, Forward, GuestKept
<1> QED
  BY <1>1, <1>2, <1>3, <1>4, <1>5, <1>6, <1>7, ShownAfresh DEF Presents

\* The body of a reply to a refresh cannot be read, or the page is loaded again: a visitor is shown.
LEMMA UnreadableStep ==
    ASSUME WebSound, NEW t \in Tabs, UnreadableRefresh(t)
    PROVE  StepIsSound
<1> DEFINE empty == <<>>
           x == ShowAccount(t, Nobody, empty, 0, tab[t].guest)
           new == [x EXCEPT !.refresh = NoSlot]
<1>1. tab[t].refresh # NoSlot /\ Become(t, new) /\ UNCHANGED <<apiVars, jar, acted>>
  BY DEF UnreadableRefresh, Ok, Done
<1>2. tab[t].action = NoSlot /\ tab[t].guest \in Seq(Movies) /\ empty \in Seq(Movies) /\ Nobody \in Accounts \cup {Nobody}
  BY <1>1, TabFields DEF TabSound, Acts
<1> HIDE DEF empty
<1>3. Presents(x, t, Nobody, empty, 0, tab[t].guest)
  BY <1>2, AccountShown
<1> HIDE DEF x
<1>4. /\ new \in Tab /\ new.user = x.user /\ new.owner = x.owner /\ new.guest = x.guest /\ new.list = x.list
      /\ new.asOf = x.asOf /\ new.action = x.action /\ new.refresh = NoSlot /\ new.search = x.search
  BY <1>3 DEF Presents, Tab
<1> HIDE DEF new
<1>5. tab'[t] = new => Forward(t) /\ GuestKept(t)
  BY <1>2, <1>3, <1>4 DEF Presents, Forward, GuestKept
<1> QED
  BY <1>1, <1>2, <1>3, <1>4, <1>5, ShownAfresh DEF Presents

\* A tab that is opened.
LEMMA NewTabFields ==
    ASSUME NEW browser \in Browsers, NEW guest \in Seq(Movies)
    PROVE  LET new == NewTab(browser, guest)
           IN  /\ new \in Tab /\ new.user = Nobody /\ new.owner = Nobody /\ new.list = guest /\ new.guest = guest
               /\ new.action = NoSlot /\ new.refresh = NoSlot /\ new.search = NoSlot
  BY DEF NewTab, Tab

\* The page is loaded again.
LEMMA ReloadStep ==
    ASSUME WebSound, NEW t \in Tabs, Reload(t)
    PROVE  StepIsSound
<1> DEFINE new == NewTab(tab[t].browser, tab[t].guest)
<1>1. Become(t, new) /\ UNCHANGED <<apiVars, jar, acted>>
  BY DEF Reload
<1>2. /\ new \in Tab /\ new.user = Nobody /\ new.owner = Nobody /\ new.list = tab[t].guest
      /\ new.guest = tab[t].guest /\ new.action = NoSlot /\ new.refresh = NoSlot /\ new.search = NoSlot
  BY TabFields, NewTabFields DEF Tab
<1> HIDE DEF new
<1>3. tab'[t] = new => Forward(t) /\ GuestKept(t)
  BY <1>2 DEF Forward, GuestKept
<1> QED
  BY <1>1, <1>2, <1>3, ShownAfresh

\* A tab stops waiting.
LEMMA ReleaseStep ==
    ASSUME WebSound, NEW t \in Tabs, RefreshFails(t) \/ ActionFails(t) \/ LoseAction(t) \/ LoseRefresh(t)
    PROVE  StepIsSound
<1>0. tab[t] \in Tab /\ UNCHANGED <<apiVars, jar, acted>> /\ jar \in [Browsers -> issued \cup {NoToken}]
  BY DEF WebSound, RefreshFails, ActionFails, LoseAction, LoseRefresh
<1>1. CASE ActionFails(t) \/ LoseAction(t)
  <2> DEFINE new == [tab[t] EXCEPT !.action = NoSlot]
  <2>1. Become(t, new)
    BY <1>1 DEF ActionFails, LoseAction
  <2>2. /\ new \in Tab /\ new.user = tab[t].user /\ new.owner = tab[t].owner /\ new.list = tab[t].list
        /\ new.asOf = tab[t].asOf /\ new.guest = tab[t].guest
        /\ new.action = NoSlot /\ new.refresh = tab[t].refresh /\ new.search = tab[t].search
    BY <1>0 DEF Tab
  <2> HIDE DEF new
  <2> QED
    BY <1>0, <2>1, <2>2, Released
<1>2. CASE RefreshFails(t) \/ LoseRefresh(t)
  <2> DEFINE new == [tab[t] EXCEPT !.refresh = NoSlot, !.ready = FALSE]
  <2>1. Become(t, new)
    BY <1>2 DEF RefreshFails, LoseRefresh
  <2>2. /\ new \in Tab /\ new.user = tab[t].user /\ new.owner = tab[t].owner /\ new.list = tab[t].list
        /\ new.asOf = tab[t].asOf /\ new.guest = tab[t].guest /\ new.heard = tab[t].heard
        /\ new.action = tab[t].action /\ new.refresh = NoSlot /\ new.search = tab[t].search
    BY <1>0 DEF Tab
  <2> HIDE DEF new
  <2> QED
    BY <1>0, <2>1, <2>2, Released
<1> QED
  BY <1>1, <1>2

\* The cookie of a reply reaches the jar.
LEMMA HearStep ==
    ASSUME WebSound, NEW t \in Tabs, Hear(t)
    PROVE  StepIsSound
<1> DEFINE s == tab[t].action
           new == [tab[t] EXCEPT !.heard = TRUE]
<1>1. /\ s # NoSlot /\ request[s].status = "ok" /\ request[s].kind \in {"login", "signup", "logout"}
      /\ jar' = [jar EXCEPT ![tab[t].browser] = request[s].cookie] /\ Become(t, new)
      /\ UNCHANGED <<apiVars, acted>>
  BY DEF Hear, Ok, Done
<1>2. s \in Slots /\ tab[t] \in Tab
  BY <1>1, TabFields
<1>3. request[s].cookie \in issued \cup {NoToken}
  BY <1>1, <1>2, ReplySays
<1>4. jar' \in [Browsers -> issued \cup {NoToken}]
  BY <1>1, <1>3 DEF WebSound
<1>5. /\ new \in Tab /\ new.user = tab[t].user /\ new.owner = tab[t].owner /\ new.list = tab[t].list
      /\ new.asOf = tab[t].asOf /\ new.guest = tab[t].guest
      /\ new.action = s /\ new.refresh = tab[t].refresh /\ new.search = tab[t].search
  BY <1>2 DEF Tab
<1> HIDE DEF new
<1> QED
  BY <1>1, <1>4, <1>5, Released

\* The account is checked again in the slot of the request that was refused.
LEMMA RecheckStep ==
    ASSUME WebSound, NEW t \in Tabs, Recheck(t)
    PROVE  StepIsSound
<1> DEFINE s == tab[t].action
           new == [tab[t] EXCEPT !.action = NoSlot, !.refresh = s]
           ids == <<>>
<1>1. /\ s # NoSlot /\ Become(t, new) /\ jar' = jar /\ acted' = acted
      /\ Arrive(s, Incoming("me", jar[tab[t].browser], Nobody, Nobody, ids))
  BY DEF Recheck, Done
<1>2. s \in Slots /\ tab[t] \in Tab /\ s # tab[t].search
  BY <1>1, TabFields DEF TabSound, Acts
<1>3. /\ new \in Tab /\ new.user = tab[t].user /\ new.owner = tab[t].owner /\ new.list = tab[t].list
      /\ new.asOf = tab[t].asOf /\ new.guest = tab[t].guest
      /\ new.action = NoSlot /\ new.refresh = s /\ new.search = tab[t].search
  BY <1>2 DEF Tab
<1>4. /\ "me" \in Kinds /\ "me" \notin Entering /\ ids \in Seq(Movies) /\ Nobody \in Accounts \cup {Nobody}
      /\ acted' \in 0..MaxActions
  BY <1>1 DEF Kinds, Entering, WebSound
<1>5. \A u \in Tabs \ {t} : s \notin Waits(u)
  BY <1>1 DEF WebSound, Apart, Waits
<1> HIDE DEF new, ids, s
<1> QED
  BY <1>1, <1>2, <1>3, <1>4, <1>5, Asks

\* A search is over; if it was refused, the account is checked again in its slot.
LEMMA SearchEndsStep ==
    ASSUME WebSound, NEW t \in Tabs, SearchEnds(t)
    PROVE  StepIsSound
<1> DEFINE s == tab[t].search
<1>1. s # NoSlot /\ s \in Slots /\ tab[t] \in Tab /\ jar' = jar /\ acted' = acted
  BY TabFields DEF SearchEnds, Done
<1>2. CASE request[s].status = "401" /\ ~Busy(t)
  <2> DEFINE new == [tab[t] EXCEPT !.search = NoSlot, !.refresh = s]
             ids == <<>>
  <2>1. /\ Become(t, new) /\ tab[t].action = NoSlot
        /\ Arrive(s, Incoming("me", jar[tab[t].browser], Nobody, Nobody, ids))
    BY <1>2 DEF SearchEnds, Busy
  <2>2. /\ new \in Tab /\ new.user = tab[t].user /\ new.owner = tab[t].owner /\ new.list = tab[t].list
        /\ new.asOf = tab[t].asOf /\ new.guest = tab[t].guest
        /\ new.action = tab[t].action /\ new.refresh = s /\ new.search = NoSlot
    BY <1>1 DEF Tab
  <2>3. /\ "me" \in Kinds /\ "me" \notin Entering /\ ids \in Seq(Movies) /\ Nobody \in Accounts \cup {Nobody}
        /\ acted' \in 0..MaxActions
    BY <1>1 DEF Kinds, Entering, WebSound
  <2>4. \A u \in Tabs \ {t} : s \notin Waits(u)
    BY <1>1 DEF WebSound, Apart, Waits
  <2> HIDE DEF new, ids, s
  <2> QED
    BY <1>1, <2>1, <2>2, <2>3, <2>4, Asks
<1>3. CASE ~(request[s].status = "401" /\ ~Busy(t))
  <2> DEFINE new == [tab[t] EXCEPT !.search = NoSlot]
  <2>1. Become(t, new) /\ UNCHANGED apiVars
    BY <1>3 DEF SearchEnds
  <2>2. /\ new \in Tab /\ new.user = tab[t].user /\ new.owner = tab[t].owner /\ new.list = tab[t].list
        /\ new.asOf = tab[t].asOf /\ new.guest = tab[t].guest /\ new.heard = tab[t].heard
        /\ new.action = tab[t].action /\ new.refresh = tab[t].refresh /\ new.search = NoSlot
    BY <1>1 DEF Tab
  <2>3. jar' \in [Browsers -> issued \cup {NoToken}]
    BY <1>1 DEF WebSound
  <2> HIDE DEF new
  <2> QED
    BY <1>1, <2>1, <2>2, <2>3, Released
<1> QED
  BY <1>2, <1>3

\* A step in which nothing happens.
LEMMA NothingMoves == ASSUME WebSound, UNCHANGED webVars PROVE StepIsSound
<1>1. UNCHANGED apiVars /\ UNCHANGED <<jar, tab, acted>>
  BY DEF webVars
<1>2. ApiSound' /\ favorites' = favorites /\ revision' = revision /\ issued' = issued /\ request' = request
  BY <1>1, ApiStillStands DEF WebSound, apiVars
<1>3. ASSUME NEW u \in Tabs PROVE TabSound(u)' /\ Forward(u) /\ GuestKept(u)
  BY <1>1, <1>2, TabUntouched
<1> QED
  BY <1>1, <1>2, <1>3 DEF StepIsSound, WebSound, Apart, Waits

\* Every step keeps the tabs sound.
LEMMA WebStep == ASSUME WebSound, [Next]_webVars PROVE StepIsSound
<1>1. CASE UNCHANGED webVars
  BY <1>1, NothingMoves
<1>2. CASE \E t \in Tabs : User(t)
  <2>1. PICK t \in Tabs : User(t)
    BY <1>2
  <2> QED
    BY <2>1, RefreshStep, AuthenticateStep, LogoutStep, ToggleStep, SearchStep, GuestStep DEF User
<1>3. CASE \E t \in Tabs : Script(t)
  <2>1. PICK t \in Tabs : Script(t)
    BY <1>3
  <2> QED
    BY <2>1, ApplyRefreshStep, ReleaseStep, HearStep, ApplyIdentityStep, ApplyFavoritesStep, RecheckStep,
       SearchEndsStep DEF Script
<1>4. CASE \E s \in Slots : Server(s)
  BY <1>4, ServerStep DEF Server
<1>5. CASE Misfortune
  <2>1. CASE \E t \in Tabs : LoseAction(t) \/ LoseRefresh(t) \/ UnreadableRefresh(t) \/ Reload(t)
    BY <2>1, ReleaseStep, UnreadableStep, ReloadStep
  <2>2. CASE \E s \in Slots : Break(s) /\ UNCHANGED <<jar, tab, acted>>
    BY <2>2, ServerStep
  <2>3. CASE \E k \in Tokens : Expire(k) /\ UNCHANGED <<jar, tab, acted>>
    BY <2>3, ExpiryStep
  <2> QED
    BY <1>5, <2>1, <2>2, <2>3 DEF Misfortune
<1> QED
  BY <1>1, <1>2, <1>3, <1>4, <1>5 DEF Next

\* Tabs start sound.
LEMMA WebStarts == Init => WebSound
<1> SUFFICES ASSUME Init PROVE WebSound
  OBVIOUS
<1>1. ApiSound
  BY ApiStarts DEF Init
<1>2. PICK f \in [Tabs -> Browsers] : tab = [t \in Tabs |-> NewTab(f[t], <<>>)]
  BY DEF Init
<1> DEFINE guest == <<>>
<1>3. guest \in Seq(Movies) /\ tab = [t \in Tabs |-> NewTab(f[t], guest)]
  BY <1>2
<1> HIDE DEF guest
<1>4. \A t \in Tabs : /\ tab[t] \in Tab /\ tab[t].user = Nobody /\ tab[t].owner = Nobody /\ tab[t].list = tab[t].guest
                      /\ tab[t].action = NoSlot /\ tab[t].refresh = NoSlot /\ tab[t].search = NoSlot
  BY <1>3, NewTabFields
<1>5. tab \in [Tabs -> Tab]
  BY <1>3, <1>4
<1>6. jar \in [Browsers -> issued \cup {NoToken}] /\ acted \in 0..MaxActions
  BY WebsiteAssumption DEF Init, ApiInit
<1>7. Apart
  BY <1>4 DEF Apart, Waits
<1>8. ASSUME NEW t \in Tabs PROVE TabSound(t)
  BY <1>4 DEF TabSound, Shows, Acts, Refreshes, Searches, InTime
<1> QED
  BY <1>1, <1>5, <1>6, <1>7, <1>8 DEF WebSound

-----------------------------------------------------------------------------
\* The invariant of the tabs and the server together, for faults or none.
THEOREM WebStaysSound == Spec => []WebSound
<1>1. WebSound /\ [Next]_webVars => WebSound'
  BY WebStep DEF StepIsSound
<1> QED
  BY <1>1, WebStarts, PTL DEF Spec

\* Tables, requests, jars and tabs keep their types: a jar holds only tokens the server gave out.
THEOREM WebTypesHold == Spec => []TypeOK
<1>1. WebSound => TypeOK
  BY DEF WebSound, ApiSound, TypeOK
<1> QED
  BY <1>1, WebStaysSound, PTL

\* useAccount.js: a tab shows the favourites of the account it names, or the visitor's own list.
THEOREM TabsShowTheirOwn == Spec => []ShownIsOwned
<1>1. WebSound => ShownIsOwned
  BY DEF WebSound, TabSound, Shows, ShownIsOwned
<1> QED
  BY <1>1, WebStaysSound, PTL

\* App.jsx and the recommendation route: a result a connected tab may show was computed for its account.
THEOREM SearchesAreForTheAccount == Spec => []SearchIsForAccount
<1>1. ASSUME WebSound PROVE SearchIsForAccount
  <2> SUFFICES ASSUME NEW t \in Tabs, tab[t].user # Nobody, Ok(tab[t].search)
               PROVE  request[tab[t].search].user = tab[t].user
    BY DEF SearchIsForAccount
  <2>1. /\ tab[t].search \in Slots /\ request[tab[t].search].status = "ok"
        /\ request[tab[t].search].kind = "recommend" /\ request[tab[t].search].expected = tab[t].user
    BY <1>1, TabFields DEF Ok, Done, TabSound, Searches
  <2> QED
    BY <1>1, <2>1, ReplySays DEF Checked
<1> QED
  BY <1>1, WebStaysSound, PTL

\* requestVersion: the list of a tab never goes back to an older state of the account.
THEOREM ListsNeverGoBack == Spec => ListsMoveForward
<1> DEFINE Ahead == \A t \in Tabs : tab[t].user # Nobody /\ tab'[t].user = tab[t].user => tab'[t].asOf >= tab[t].asOf
<1>1. WebSound /\ [Next]_webVars => [Ahead]_webVars
  BY WebStep DEF StepIsSound, Forward
<1>2. ListsMoveForward <=> [][Ahead]_webVars
  BY DEF ListsMoveForward
<1> HIDE DEF Ahead
<1> QED
  BY <1>1, <1>2, WebStaysSound, PTL DEF Spec

\* authenticate: what a visitor chose is lost by no failure, no lost reply and no refusal.
THEOREM VisitorsLoseNothing == Spec => VisitorFavoritesKept
<1> DEFINE NothingLost == \A t \in Tabs : \A m \in ToSet(tab[t].guest) \ ToSet(tab'[t].guest) :
                        \/ tab[t].user = Nobody /\ tab'[t].user = Nobody /\ acted' # acted
                        \/ tab'[t].user # Nobody /\ m \in ToSet(tab'[t].list)
<1>1. WebSound /\ [Next]_webVars => [NothingLost]_webVars
  BY WebStep DEF StepIsSound, GuestKept
<1>2. VisitorFavoritesKept <=> [][NothingLost]_webVars
  BY DEF VisitorFavoritesKept
<1> HIDE DEF NothingLost
<1> QED
  BY <1>1, <1>2, WebStaysSound, PTL DEF Spec
-----------------------------------------------------------------------------
\* A request of a tab is one that any client may send, with a token that was issued.
LEMMA TabCalls ==
    ASSUME WebSound, NEW t \in Tabs, NEW s \in Slots, NEW kind \in Kinds,
           NEW expected \in Accounts \cup {Nobody}, NEW account \in Named(kind),
           NEW ids \in Bodies(kind, Seq(Movies)),
           Arrive(s, Incoming(kind, jar[tab[t].browser], expected, account, ids))
    PROVE  Call(Seq(Movies))
<1>1. jar[tab[t].browser] \in issued \cup {NoToken}
  BY DEF WebSound, Tab
<1> QED
  BY <1>1 DEF Call

\* What a user does is a request of a client, or does not reach the server.
LEMMA UserIsClient == ASSUME WebSound, NEW t \in Tabs, User(t) PROVE [ApiNext]_apiVars
<1> DEFINE lists == Seq(Movies)
<1>1. /\ tab[t].user \in Accounts \cup {Nobody} /\ tab[t].guest \in lists /\ tab[t].list \in lists
      /\ <<>> \in lists /\ Nobody \in Accounts \cup {Nobody}
  BY TabFields
<1>2. {"me", "login", "signup", "logout", "add", "remove", "recommend"} \subseteq Kinds
  BY DEF Kinds
<1>3. /\ \A kind \in {"me", "logout"} : Named(kind) = {Nobody} /\ Bodies(kind, lists) = {<<>>}
      /\ \A kind \in {"login", "signup"} : Named(kind) = Accounts /\ Bodies(kind, lists) = lists
      /\ \A kind \in {"add", "remove"} : Named(kind) = {Nobody} /\ \A m \in Movies : <<m>> \in Bodies(kind, lists)
      /\ Named("recommend") = {Nobody} /\ Bodies("recommend", lists) = lists
  BY DEF Named, Bodies
<1> HIDE DEF lists
<1>4. CASE \E s \in Slots : Refresh(t, s)
  <2>1. PICK s \in Slots : Arrive(s, Incoming("me", jar[tab[t].browser], Nobody, Nobody, <<>>))
    BY <1>4 DEF Refresh, Send
  <2> QED
    BY <1>1, <1>2, <1>3, <2>1, TabCalls DEF ApiNext, lists
<1>5. CASE \E s \in Slots : Logout(t, s)
  <2>1. PICK s \in Slots : Arrive(s, Incoming("logout", jar[tab[t].browser], tab[t].user, Nobody, <<>>))
    BY <1>5 DEF Logout, Send
  <2> QED
    BY <1>1, <1>2, <1>3, <2>1, TabCalls DEF ApiNext, lists
<1>6. CASE \E s \in Slots : Search(t, s)
  <2> DEFINE ids == IF tab[t].user = Nobody THEN tab[t].list ELSE <<>>
  <2>1. PICK s \in Slots : Arrive(s, Incoming("recommend", jar[tab[t].browser], tab[t].user, Nobody, ids))
    BY <1>6 DEF Search, Send
  <2>2. ids \in lists
    BY <1>1
  <2> HIDE DEF ids
  <2> QED
    BY <1>1, <1>2, <1>3, <2>1, <2>2, TabCalls DEF ApiNext, lists
<1>7. CASE \E s \in Slots, a \in Accounts, mode \in {"login", "signup"} : Authenticate(t, s, mode, a)
  <2>1. PICK s \in Slots, a \in Accounts, mode \in {"login", "signup"} :
            Arrive(s, Incoming(mode, jar[tab[t].browser], Nobody, a, tab[t].guest))
    BY <1>7 DEF Authenticate, Send
  <2> QED
    BY <1>1, <1>2, <1>3, <2>1, TabCalls DEF ApiNext, lists
<1>8. CASE \E s \in Slots, m \in Movies : ToggleFavorite(t, s, m)
  <2>1. PICK s \in Slots, m \in Movies, kind \in {"add", "remove"} :
            Arrive(s, Incoming(kind, jar[tab[t].browser], tab[t].user, Nobody, <<m>>))
    BY <1>8 DEF ToggleFavorite, Send
  <2> QED
    BY <1>1, <1>2, <1>3, <2>1, TabCalls DEF ApiNext, lists
<1>9. CASE \E m \in Movies : ToggleGuest(t, m)
  BY <1>9 DEF ToggleGuest
<1> QED
  BY <1>4, <1>5, <1>6, <1>7, <1>8, <1>9 DEF User

\* What the code of a tab does with replies is no request, or asks for the account once more.
LEMMA ScriptIsClient == ASSUME WebSound, NEW t \in Tabs, Script(t) PROVE [ApiNext]_apiVars
<1>1. CASE Recheck(t) \/ SearchEnds(t)
  <2>1. /\ tab[t].action \in Slots \cup {NoSlot} /\ tab[t].search \in Slots \cup {NoSlot}
        /\ Nobody \in Accounts \cup {Nobody} /\ Nobody \in Named("me") /\ <<>> \in Bodies("me", Seq(Movies))
        /\ "me" \in Kinds
    BY TabFields DEF Named, Bodies, Kinds
  <2>2. CASE UNCHANGED apiVars
    BY <2>2
  <2>3. CASE \E s \in Slots : Arrive(s, Incoming("me", jar[tab[t].browser], Nobody, Nobody, <<>>))
    <3>1. Call(Seq(Movies))
      BY <2>1, <2>3, TabCalls
    <3> QED
      BY <3>1 DEF ApiNext
  <2>4. CASE Recheck(t)
    BY <2>1, <2>3, <2>4 DEF Recheck, Done
  <2>5. CASE SearchEnds(t)
    BY <2>1, <2>2, <2>3, <2>5 DEF SearchEnds, Done
  <2> QED
    BY <1>1, <2>4, <2>5
<1>2. CASE ApplyRefresh(t) \/ RefreshFails(t) \/ Hear(t) \/ ApplyIdentity(t) \/ ApplyFavorites(t) \/ ActionFails(t)
  BY <1>2 DEF ApplyRefresh, RefreshFails, Hear, ApplyIdentity, ApplyFavorites, ActionFails
<1> QED
  BY <1>1, <1>2 DEF Script

\* The website is one of the clients that AccountApiProofs lets the server have: whatever is proved of
\* ApiSpec holds behind the tabs.
THEOREM TabsAreClients == Spec => ApiSpec
<1>1. Init => ApiInit
  BY DEF Init
<1>2. ASSUME WebSound, [Next]_webVars PROVE [ApiNext]_apiVars
  <2>1. CASE UNCHANGED webVars
    BY <2>1 DEF webVars
  <2>2. CASE \E t \in Tabs : User(t) \/ Script(t)
    BY <1>2, <2>2, UserIsClient, ScriptIsClient
  <2>3. CASE \E s \in Slots : Server(s)
    BY <2>3 DEF Server, ApiNext, ApiStep
  <2>4. CASE Misfortune
    BY <2>4 DEF Misfortune, LoseAction, LoseRefresh, UnreadableRefresh, Reload, ApiNext, ApiStep
  <2> QED
    BY <1>2, <2>1, <2>2, <2>3, <2>4 DEF Next
<1>3. WebSound /\ [Next]_webVars => [ApiNext]_apiVars
  BY <1>2
<1> QED
  BY <1>1, <1>3, WebStaysSound, PTL DEF Spec, ApiSpec
=============================================================================
