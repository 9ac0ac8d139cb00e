-------------------------- MODULE AccountApiProofs -------------------------
(***************************************************************************)
(* What the server of AccountApi keeps true under any clients, for any     *)
(* number of requests, accounts, tokens and movies, and any limit of the   *)
(* favourites.                                                             *)
(***************************************************************************)
EXTENDS AccountApi, ListFacts

\* Lists without repetitions within the limit.
Fitting == {l \in Seq(Movies) : Len(l) <= MaxFavorites /\ IsInjective(l)}

\* Those that a list may become by new movies at its end.
Grown(list) == {l \in Fitting : Len(list) <= Len(l) /\ \A k \in 1..Len(list) : l[k] = list[k]}

\* One more movie, which the list does not have.
LEMMA OneMore ==
    ASSUME NEW list \in Fitting, NEW l \in Grown(list), NEW m \in Movies, m \notin ToSet(l), Len(l) < MaxFavorites
    PROVE  Append(l, m) \in Grown(list)
<1> DEFINE t == Append(l, m)
<1>1. /\ MaxFavorites \in Nat /\ list \in Seq(Movies) /\ l \in Seq(Movies) /\ IsInjective(l)
      /\ Len(list) <= Len(l) /\ \A k \in 1..Len(list) : l[k] = list[k]
  BY ApiAssumption DEF Fitting, Grown
<1>2. Len(list) \in Nat /\ Len(l) \in Nat /\ DOMAIN l = 1..Len(l)
  BY <1>1
<1>3. /\ t \in Seq(Movies) /\ Len(t) = Len(l) + 1 /\ DOMAIN t = 1..(Len(l) + 1)
      /\ t[Len(l) + 1] = m /\ \A k \in 1..Len(l) : t[k] = l[k]
  BY <1>1
<1> HIDE DEF t
<1>4. \A k \in 1..Len(l) : l[k] # m
  BY <1>2 DEF ToSet
<1>5. IsInjective(t)
  <2> SUFFICES ASSUME NEW a \in 1..(Len(l) + 1), NEW b \in 1..(Len(l) + 1), t[a] = t[b] PROVE a = b
    BY <1>3 DEF IsInjective
  <2>1. \A k \in 1..(Len(l) + 1) : k \in 1..Len(l) \/ k = Len(l) + 1
    BY <1>2
  <2>2. \A i, j \in 1..Len(l) : l[i] = l[j] => i = j
    BY <1>1, <1>2 DEF IsInjective
  <2> QED
    BY <1>3, <1>4, <2>1, <2>2
<1>6. Len(t) <= MaxFavorites /\ Len(list) <= Len(t) /\ \A k \in 1..Len(list) : t[k] = list[k]
  BY <1>1, <1>2, <1>3
<1> QED
  BY <1>3, <1>5, <1>6 DEF Grown, Fitting, t

\* Merging adds movies at the end of a list, within the limit, for every list of identifiers: after each
\* of them.
LEMMA MergedFits ==
    ASSUME NEW list \in Fitting, NEW ids \in Seq(Movies)
    PROVE  Merged(list, ids) \in Grown(list)
<1> DEFINE N == Len(ids)
           Lists == Grown(list)
           Step(l, m) == IF m \in ToSet(l) \/ Len(l) >= MaxFavorites THEN l ELSE Append(l, m)
           Obeys(g, n) == g[n] = IF n = 0 THEN list ELSE Step(g[n - 1], ids[n])
           Reach == {n \in 0..N : \E g \in [0..n -> Lists] : \A k \in 0..n : Obeys(g, k)}
           Whole(g) == g = [n \in 0..N |-> IF n = 0 THEN list ELSE Step(g[n - 1], ids[n])]
           merged == CHOOSE g : Whole(g)
<1>1. N \in Nat /\ 0..N \subseteq Nat /\ 0 \in 0..N /\ N \in 0..N /\ \A k \in 1..N : ids[k] \in Movies
  OBVIOUS
<1>2. list \in Lists /\ \A l \in Lists, m \in Movies : Step(l, m) \in Lists
  <2>1. list \in Seq(Movies) /\ Len(list) \in Nat
    BY DEF Fitting
  <2>2. list \in Lists
    BY <2>1 DEF Grown
  <2>3. \A l \in Lists : Len(l) \in Nat /\ MaxFavorites \in Nat
    BY ApiAssumption DEF Grown, Fitting
  <2> QED
    BY <2>2, <2>3, OneMore
<1> HIDE DEF N, Step, Lists
<1>3. Reach = 0..N
  <2>1. Reach \subseteq 0..N
    OBVIOUS
  <2>2. 0 \in Reach
    <3> DEFINE g == [k \in 0..0 |-> list]
    <3>1. g \in [0..0 -> Lists] /\ \A k \in 0..0 : Obeys(g, k)
      BY <1>2
    <3> QED
      BY <1>1, <3>1
  <2>3. ASSUME NEW n \in 1..N, n - 1 \in Reach PROVE n \in Reach
    <3>1. PICK g \in [0..(n - 1) -> Lists] : \A k \in 0..(n - 1) : Obeys(g, k)
      BY <2>3
    <3> DEFINE h == [k \in 0..n |-> IF k = n THEN Step(g[n - 1], ids[n]) ELSE g[k]]
    <3>2. h \in [0..n -> Lists]
      BY <1>1, <1>2, <3>1
    <3>3. \A k \in 0..n : Obeys(h, k)
      BY <1>1, <3>1
    <3> HIDE DEF h
    <3> QED
      BY <1>1, <3>2, <3>3
  <2> HIDE DEF Reach
  <2> QED
    BY <1>1, <2>1, <2>2, <2>3, StepByStep
<1>4. PICK g \in [0..N -> Lists] : \A k \in 0..N : Obeys(g, k)
  <2> HIDE DEF Reach
  <2>1. N \in Reach
    BY <1>1, <1>3
  <2> QED
    BY <2>1 DEF Reach
<1>5. Whole(g)
  BY <1>4
<1>6. Whole(merged)
  BY <1>5
<1>7. Merged(list, ids) = merged[N]
  BY DEF Merged, N, Step
<1> HIDE DEF merged, Reach
<1>8. \A n \in 0..N : merged[n] = IF n = 0 THEN list ELSE Step(merged[n - 1], ids[n])
  BY <1>6
<1> DEFINE P == {n \in 0..N : merged[n] \in Lists}
<1>9. P \subseteq 0..N /\ 0 \in P
  BY <1>1, <1>2, <1>8
<1>10. ASSUME NEW n \in 1..N, n - 1 \in P PROVE n \in P
  BY <1>1, <1>2, <1>8, <1>10
<1>11. P = 0..N
  <2> HIDE DEF P
  <2> QED
    BY <1>1, <1>9, <1>10, StepByStep
<1> QED
  BY <1>1, <1>7, <1>11 DEF Lists

-----------------------------------------------------------------------------
\* What may be left to do of each route.
Left(kind) ==
    CASE kind = "login"  -> {<<"credentials", "merge", "revoke", "open", "read">>,
                             <<"merge", "revoke", "open", "read">>,
                             <<"revoke", "open", "read">>, <<"open", "read">>, <<"read">>}
      [] kind = "signup" -> {<<"create", "revoke", "open", "read">>,
                             <<"revoke", "open", "read">>, <<"open", "read">>, <<"read">>}
      [] kind = "logout" -> {<<"session", "revoke">>, <<"revoke">>}
      [] kind \in {"add", "remove"} -> {<<"session", "write">>, <<"write">>}
      [] OTHER -> {<<"session", "read">>, <<"read">>}

Entering == {"login", "signup"}      \* the routes that open a session

Checked == {"add", "remove", "recommend"}   \* of the others, those whose X-MovieMatch-User matters later

\* While a request is worked on: the account it acts for is settled by the first stage, its cookie by
\* the last but one, and it can no longer be refused once it has written.
Underway(q) ==
    q.status = "working" =>
        /\ q.todo \in Left(q.kind)
        /\ q.kind \in Entering /\ Head(q.todo) \notin {"credentials", "create"} => q.user = q.account
        /\ q.kind \in Checked /\ Head(q.todo) # "session" => q.expected \in {Nobody, q.user}
        /\ Head(q.todo) = "write" => q.user # Nobody
        /\ q.cookie # NoToken => Head(q.todo) = "read"
        /\ q.wrote => Head(q.todo) \in {"revoke", "open", "read"}

\* Its tokens are no longer free, its account exists.
Known(q) ==
    /\ {q.token, q.cookie} \subseteq issued \cup {NoToken}
    /\ q.user \in registered \cup {Nobody}
    /\ q.kind \in Entering => q.account \in Accounts

\* Past "revoke" the token it came with is dead.
OldIsDead(q) ==
    /\ q.kind \in Entering \cup {"logout"} /\ q.token # NoToken
    /\ q.status = "ok" \/ (q.status = "working" /\ Head(q.todo) \in {"open", "read"})
    => session[q.token] = Nobody

OwnCookie(q) == q.cookie # NoToken => session[q.cookie] \in {q.user, Nobody}

Current(q) ==
    q.status = "ok" /\ q.user # Nobody /\ q.kind # "logout" =>
        /\ q.asOf <= revision[q.user] /\ Len(q.list) <= MaxFavorites /\ IsInjective(q.list)
        /\ q.asOf = revision[q.user] => q.list = favorites[q.user]

\* A favourite is changed, and a search made, for the account the sender shows.
Addressed(q) ==
    q.status = "ok" =>
        /\ q.kind \in Entering \cup {"add", "remove"} => q.user # Nobody
        /\ q.kind \in Checked => q.expected \in {Nobody, q.user}

Sound(q) ==
    /\ Underway(q) /\ Known(q) /\ OldIsDead(q) /\ OwnCookie(q) /\ Current(q) /\ Addressed(q)
    /\ q.status \in {"401", "409"} => ~q.wrote

ListsFit == \A a \in Accounts : favorites[a] \in Fitting
CookiesDiffer ==
    \A s, r \in Slots : s # r /\ request[s].cookie # NoToken => request[r].cookie # request[s].cookie

ApiSound ==
    /\ ApiTypeOK /\ ListsFit /\ CookiesDiffer
    /\ \A s \in Slots : Sound(request[s])

-----------------------------------------------------------------------------
\* The first stage of a list of stages and what is left after it.
LEMMA Stages ==
    ASSUME NEW a, NEW b, NEW c, NEW d, NEW e
    PROVE  /\ Head(<<a>>) = a /\ Len(<<a>>) = 1
           /\ Head(<<a, b>>) = a /\ Len(<<a, b>>) = 2 /\ Tail(<<a, b>>) = <<b>>
           /\ Head(<<a, b, c>>) = a /\ Len(<<a, b, c>>) = 3 /\ Tail(<<a, b, c>>) = <<b, c>>
           /\ Head(<<a, b, c, d>>) = a /\ Len(<<a, b, c, d>>) = 4 /\ Tail(<<a, b, c, d>>) = <<b, c, d>>
           /\ Head(<<a, b, c, d, e>>) = a /\ Len(<<a, b, c, d, e>>) = 5
           /\ Tail(<<a, b, c, d, e>>) = <<b, c, d, e>>
  OBVIOUS

\* The stage that follows each stage, and the routes it belongs to.
Follows(kind, stage, next) ==
    CASE stage = "credentials" -> kind = "login" /\ next = "merge"
      [] stage = "create"      -> kind = "signup" /\ next = "revoke"
      [] stage = "merge"       -> kind = "login" /\ next = "revoke"
      [] stage = "revoke"      -> IF kind = "logout" THEN next = "end" ELSE kind \in Entering /\ next = "open"
      [] stage = "open"        -> kind \in Entering /\ next = "read"
      [] stage = "session"     -> kind \notin Entering /\ next = IF kind = "logout" THEN "revoke"
                                    ELSE IF kind \in {"add", "remove"} THEN "write" ELSE "read"
      [] stage = "write"       -> kind \in {"add", "remove"} /\ next = "end"
      [] stage = "read"        -> kind \notin {"logout", "add", "remove"} /\ next = "end"

StageNames == {"credentials", "create", "merge", "revoke", "open", "session", "write", "read"}

\* What is left of a route is never empty, and each stage has its successor.
LEMMA Onward ==
    ASSUME NEW kind \in Kinds, NEW todo \in Left(kind)
    PROVE  /\ todo # <<>> /\ todo \in Seq(StageNames)
           /\ Len(todo) = 1 => Follows(kind, Head(todo), "end")
           /\ Len(todo) # 1 => Tail(todo) \in Left(kind) /\ Follows(kind, Head(todo), Head(Tail(todo)))
<1>1. CASE todo = <<"credentials", "merge", "revoke", "open", "read">>
  BY <1>1, Stages DEF Left, Follows, StageNames
<1>2. CASE todo = <<"merge", "revoke", "open", "read">>
  BY <1>2, Stages DEF Left, Follows, StageNames
<1>3. CASE todo = <<"create", "revoke", "open", "read">>
  BY <1>3, Stages DEF Left, Follows, StageNames
<1>4. CASE todo = <<"revoke", "open", "read">>
  BY <1>4, Stages DEF Left, Follows, StageNames, Entering
<1>5. CASE todo = <<"open", "read">>
  BY <1>5, Stages DEF Left, Follows, StageNames, Entering
<1>6. CASE todo = <<"read">>
  BY <1>6, Stages DEF Left, Follows, StageNames, Entering
<1>7. CASE todo = <<"session", "revoke">>
  BY <1>7, Stages DEF Left, Follows, StageNames, Entering
<1>8. CASE todo = <<"revoke">>
  <2>1. kind = "logout"
    BY <1>8, Stages DEF Left
  <2> QED
    BY <1>8, <2>1, Stages DEF Follows, StageNames
<1>9. CASE todo = <<"session", "write">>
  <2>1. kind \in {"add", "remove"}
    BY <1>9, Stages DEF Left
  <2> QED
    BY <1>9, <2>1, Stages DEF Left, Follows, StageNames, Entering
<1>10. CASE todo = <<"session", "read">>
  <2>1. kind \notin {"login", "signup", "logout", "add", "remove"}
    BY <1>10, Stages DEF Left
  <2> QED
    BY <1>10, <2>1, Stages DEF Left, Follows, StageNames, Entering
<1>11. CASE todo = <<"write">>
  BY <1>11, Stages DEF Left, Follows, StageNames, Entering
<1> QED
  BY <1>1, <1>2, <1>3, <1>4, <1>5, <1>6, <1>7, <1>8, <1>9, <1>10, <1>11 DEF Left

\* A request nobody works on now stays sound while the others go on: accounts and tokens only get
\* more, sessions only end, lists only get newer.
LEMMA Undisturbed ==
    ASSUME ApiSound, NEW r \in Slots, request'[r] = request[r],
           registered \subseteq registered', issued \subseteq issued',
           \A k \in issued : session'[k] \in {session[k], Nobody},
           \A a \in Accounts : \/ revision'[a] = revision[a] /\ favorites'[a] = favorites[a]
                               \/ revision'[a] = revision[a] + 1
    PROVE  Sound(request[r])'
<1> DEFINE q == request[r]
<1>1. q \in Request /\ Sound(q) /\ request'[r] = q
  BY DEF ApiSound, ApiTypeOK
<1>2. registered \subseteq Accounts /\ Nobody \notin Accounts /\ revision \in [Accounts -> Nat]
  BY ApiAssumption DEF ApiSound, ApiTypeOK
<1> HIDE DEF q
<1>3. Underway(q)' /\ Known(q)' /\ Addressed(q)'
  BY <1>1 DEF Sound, Underway, Known, Addressed, q
<1>4. OldIsDead(q)' /\ OwnCookie(q)'
  BY <1>1 DEF Sound, Known, OldIsDead, OwnCookie, q
<1>5. Current(q)'
  BY <1>1, <1>2 DEF Sound, Known, Current, Request, q
<1> QED
  BY <1>1, <1>3, <1>4, <1>5 DEF Sound, q

\* When one request moves on soundly, all stays sound.
LEMMA OneMoves ==
    ASSUME ApiSound, NEW s \in Slots,
           \A r \in Slots \ {s} : request'[r] = request[r],
           registered \subseteq registered', issued \subseteq issued',
           \A k \in issued : session'[k] \in {session[k], Nobody},
           \A a \in Accounts : \/ revision'[a] = revision[a] /\ favorites'[a] = favorites[a]
                               \/ revision'[a] = revision[a] + 1,
           ApiTypeOK', ListsFit', Sound(request[s])',
           request'[s].cookie \in {request[s].cookie, NoToken} \/ request'[s].cookie \notin issued
    PROVE  ApiSound'
<1>1. ASSUME NEW r \in Slots PROVE Sound(request[r])'
  <2>1. CASE r = s
    BY <2>1
  <2>2. CASE r # s
    BY <2>2, Undisturbed
  <2> QED
    BY <2>1, <2>2
<1>2. CookiesDiffer'
  <2>1. \A r \in Slots : request[r].cookie \in issued \cup {NoToken}
    BY DEF ApiSound, Sound, Known
  <2>2. CookiesDiffer
    BY DEF ApiSound
  <2> QED
    BY <2>1, <2>2 DEF CookiesDiffer
<1> QED
  BY <1>1, <1>2 DEF ApiSound

\* A request at a stage.
LEMMA AtStage ==
    ASSUME ApiSound, NEW s \in Slots, NEW stage, At(s, stage)
    PROVE  LET q == request[s]  rest == Tail(q.todo)
           IN  /\ q \in Request /\ Sound(q) /\ q.status = "working" /\ Head(q.todo) = stage
               /\ rest \in Seq(StageNames)
               /\ Len(q.todo) = 1 => Follows(q.kind, stage, "end")
               /\ Len(q.todo) # 1 => /\ rest \in Left(q.kind) /\ Head(rest) \in StageNames
                                     /\ Follows(q.kind, stage, Head(rest))
<1>1. request[s] \in Request /\ Sound(request[s]) /\ request[s].status = "working" /\ Head(request[s].todo) = stage
  BY DEF ApiSound, ApiTypeOK, At
<1>2. request[s].todo \in Left(request[s].kind) /\ request[s].kind \in Kinds
  BY <1>1 DEF Sound, Underway, Request
<1>3. /\ request[s].todo # <<>> /\ request[s].todo \in Seq(StageNames)
      /\ Len(request[s].todo) = 1 => Follows(request[s].kind, stage, "end")
      /\ Len(request[s].todo) # 1 => /\ Tail(request[s].todo) \in Left(request[s].kind)
                                     /\ Follows(request[s].kind, stage, Head(Tail(request[s].todo)))
  BY <1>1, <1>2, Onward
<1>4. Tail(request[s].todo) \in Seq(StageNames)
  BY <1>3
<1>5. Len(request[s].todo) # 1 => Head(Tail(request[s].todo)) \in StageNames
  <2>1. SUFFICES ASSUME Len(request[s].todo) # 1 PROVE Head(Tail(request[s].todo)) \in StageNames
    OBVIOUS
  <2>2. Tail(request[s].todo) # <<>>
    BY <1>2, <1>3, <2>1, Onward
  <2> QED
    BY <1>4, <2>2
<1> QED
  BY <1>1, <1>3, <1>4, <1>5

\* Advance keeps a request a request.
LEMMA AdvanceTypes ==
    ASSUME NEW x \in Request, Tail(x.todo) \in Seq(StageNames)
    PROVE  LET y == Advance(x)
           IN  /\ y \in Request
               /\ y.todo = Tail(x.todo) /\ y.status = IF Len(x.todo) = 1 THEN "ok" ELSE x.status
               /\ y.kind = x.kind /\ y.token = x.token /\ y.expected = x.expected /\ y.account = x.account
               /\ y.ids = x.ids /\ y.user = x.user /\ y.list = x.list /\ y.asOf = x.asOf
               /\ y.cookie = x.cookie /\ y.wrote = x.wrote
<1> DEFINE y == Advance(x)
           status == IF Len(x.todo) = 1 THEN "ok" ELSE x.status
<1>1. y = [x EXCEPT !.todo = Tail(x.todo), !.status = status]
  BY DEF Advance
<1>2. status \in {"working", "ok", "401", "409", "error", "idle"}
  BY DEF Request
<1> HIDE DEF y, status
<1>3. y \in Request
  BY <1>1, <1>2, ZenonT(40) DEF Request, StageNames
<1>4. y.todo = Tail(x.todo) /\ y.status = status
  BY <1>1 DEF Request
<1>5. y.kind = x.kind /\ y.token = x.token /\ y.expected = x.expected /\ y.account = x.account
  BY <1>1 DEF Request
<1>6. y.ids = x.ids /\ y.user = x.user /\ y.list = x.list /\ y.asOf = x.asOf
  BY <1>1 DEF Request
<1>7. y.cookie = x.cookie /\ y.wrote = x.wrote
  BY <1>1 DEF Request
<1> QED
  BY <1>3, <1>4, <1>5, <1>6, <1>7 DEF y, status

\* A request after a stage: x is what the stage made of it.
LEMMA Continued ==
    ASSUME ApiSound, NEW s \in Slots, NEW x \in Request, Tail(x.todo) \in Seq(StageNames), Continue(s, x)
    PROVE  LET y == request'[s]
           IN  /\ request' \in [Slots -> Request] /\ \A r \in Slots \ {s} : request'[r] = request[r]
               /\ y \in Request
               /\ y.todo = Tail(x.todo) /\ y.status = IF Len(x.todo) = 1 THEN "ok" ELSE x.status
               /\ y.kind = x.kind /\ y.token = x.token /\ y.expected = x.expected /\ y.account = x.account
               /\ y.ids = x.ids /\ y.user = x.user /\ y.list = x.list /\ y.asOf = x.asOf
               /\ y.cookie = x.cookie /\ y.wrote = x.wrote
<1>1. request \in [Slots -> Request]
  BY DEF ApiSound, ApiTypeOK
<1>2. request' = [request EXCEPT ![s] = Advance(x)] /\ Advance(x) \in Request
  BY AdvanceTypes DEF Continue
<1>3. /\ request' \in [Slots -> Request] /\ \A r \in Slots \ {s} : request'[r] = request[r]
      /\ request'[s] = Advance(x)
  BY <1>1, <1>2
<1> QED
  BY <1>3, AdvanceTypes

\* Whose session the cookie is, and whether the route may go on.
LEMMA RecognizeStep == ASSUME ApiSound, NEW s \in Slots, Recognize(s) PROVE ApiSound'
<1> DEFINE q == request[s]
           u == Holder(q)
           x == [q EXCEPT !.user = u]
           y == request'[s]
<1>1. /\ q \in Request /\ Sound(q) /\ q.status = "working" /\ Head(q.todo) = "session"
      /\ Tail(q.todo) \in Seq(StageNames) /\ Len(q.todo) # 1
      /\ Tail(q.todo) \in Left(q.kind) /\ Follows(q.kind, "session", Head(Tail(q.todo)))
  BY AtStage DEF Recognize, Follows
<1>2. /\ Continue(s, x) /\ ~Unauthorized(q)
      /\ UNCHANGED <<registered, favorites, revision, session, issued>>
  BY DEF Recognize
<1>3. u \in registered \cup {Nobody} /\ registered \subseteq Accounts
  BY <1>1 DEF Holder, Request, ApiSound, ApiTypeOK
<1>4. /\ x \in Request /\ x.todo = q.todo /\ x.status = q.status /\ x.kind = q.kind /\ x.token = q.token
      /\ x.expected = q.expected /\ x.account = q.account /\ x.user = u /\ x.cookie = q.cookie /\ x.wrote = q.wrote
  BY <1>1, <1>3 DEF Request
<1> HIDE DEF x
<1>5. /\ request' \in [Slots -> Request] /\ \A r \in Slots \ {s} : request'[r] = request[r]
      /\ y \in Request /\ y.user = u /\ y.status = "working" /\ y.todo = Tail(q.todo) /\ y.kind = q.kind
      /\ y.token = q.token /\ y.expected = q.expected /\ y.account = q.account /\ y.cookie = q.cookie
      /\ y.wrote = q.wrote
  BY <1>1, <1>2, <1>4, Continued
<1>6. Sound(request[s])'
  <2>1. Underway(request[s])'
    BY <1>1, <1>2, <1>5 DEF Sound, Underway, Follows, Entering, Checked, Unauthorized, WrongTab, NeedsAccount
  <2>2. Known(request[s])' /\ OwnCookie(request[s])'
    BY <1>1, <1>2, <1>3, <1>5 DEF Sound, Underway, Known, OwnCookie
  <2>3. OldIsDead(request[s])' /\ Current(request[s])' /\ Addressed(request[s])'
    BY <1>1, <1>2, <1>5 DEF OldIsDead, Current, Addressed, Follows, Entering
  <2> QED
    BY <1>5, <2>1, <2>2, <2>3 DEF Sound
<1>7. ApiTypeOK' /\ ListsFit'
  BY <1>2, <1>5 DEF ApiSound, ApiTypeOK, ListsFit
<1> QED
  BY <1>2, <1>5, <1>6, <1>7, OneMoves

\* A refusal or a failure ends a request where it stands; a refusal only before it has written.
LEMMA AnswerStep ==
    ASSUME ApiSound, NEW s \in Slots, NEW status \in {"401", "409", "error"}, Answer(s, status),
           status # "error" => ~request[s].wrote
    PROVE  ApiSound'
<1> DEFINE q == request[s]
           y == request'[s]
<1>1. q \in Request /\ Sound(q) /\ request \in [Slots -> Request]
  BY DEF ApiSound, ApiTypeOK
<1>2. /\ request' = [request EXCEPT ![s] = [@ EXCEPT !.status = status, !.todo = <<>>]]
      /\ UNCHANGED <<registered, favorites, revision, session, issued>>
  BY DEF Answer
<1>3. <<>> \in Seq(StageNames)
  OBVIOUS
<1>4. y = [q EXCEPT !.status = status, !.todo = <<>>]
  BY <1>1, <1>2
<1>5. /\ y \in Request /\ y.status = status /\ y.kind = q.kind /\ y.token = q.token /\ y.account = q.account
      /\ y.user = q.user /\ y.cookie = q.cookie /\ y.wrote = q.wrote
  <2>1. y \in Request
    BY <1>1, <1>3, <1>4, ZenonT(40) DEF Request, StageNames
  <2>2. y.kind = q.kind /\ y.token = q.token /\ y.account = q.account /\ y.user = q.user
    BY <1>4
  <2>3. y.cookie = q.cookie /\ y.wrote = q.wrote
    BY <1>4
  <2>4. y.status = status
    BY <1>1, <1>4, ZenonT(40) DEF Request
  <2> QED
    BY <2>1, <2>2, <2>3, <2>4
<1>6. request' \in [Slots -> Request] /\ \A r \in Slots \ {s} : request'[r] = request[r]
  BY <1>1, <1>2, <1>4, <1>5
<1>7. Sound(request[s])'
  <2>1. Underway(request[s])' /\ OldIsDead(request[s])' /\ Current(request[s])' /\ Addressed(request[s])'
    BY <1>5 DEF Underway, OldIsDead, Current, Addressed
  <2>2. Known(request[s])' /\ OwnCookie(request[s])'
    BY <1>1, <1>2, <1>5 DEF Sound, Known, OwnCookie
  <2> QED
    BY <1>5, <2>1, <2>2 DEF Sound
<1>8. ApiTypeOK' /\ ListsFit'
  BY <1>2, <1>6 DEF ApiSound, ApiTypeOK, ListsFit
<1> QED
  BY <1>2, <1>5, <1>6, <1>7, <1>8, OneMoves

\* The password is right: the request acts for the account it names.
LEMMA VerifyStep == ASSUME ApiSound, NEW s \in Slots, Verify(s) PROVE ApiSound'
<1> DEFINE q == request[s]
           x == [q EXCEPT !.user = q.account]
           y == request'[s]
<1>1. /\ q \in Request /\ Sound(q) /\ q.status = "working" /\ Head(q.todo) = "credentials"
      /\ Tail(q.todo) \in Seq(StageNames) /\ Len(q.todo) # 1
      /\ Tail(q.todo) \in Left(q.kind) /\ Follows(q.kind, "credentials", Head(Tail(q.todo)))
  <2>1. At(s, "credentials") /\ ~Follows(q.kind, "credentials", "end")
    BY DEF Verify, Follows
  <2> QED
    BY <2>1, AtStage
<1>2. /\ Continue(s, x) /\ q.account \in registered
      /\ UNCHANGED <<registered, favorites, revision, session, issued>>
  BY DEF Verify, HasAccount
<1>3. registered \subseteq Accounts
  BY DEF ApiSound, ApiTypeOK
<1>4. /\ x \in Request /\ x.todo = q.todo /\ x.status = q.status /\ x.kind = q.kind /\ x.token = q.token
      /\ x.expected = q.expected
      /\ x.account = q.account /\ x.user = q.account /\ x.cookie = q.cookie /\ x.wrote = q.wrote
  BY <1>1, <1>2, <1>3 DEF Request
<1> HIDE DEF x
<1>5. /\ request' \in [Slots -> Request] /\ \A r \in Slots \ {s} : request'[r] = request[r]
      /\ y \in Request /\ y.user = q.account /\ y.status = "working" /\ y.todo = Tail(q.todo)
      /\ y.kind = q.kind /\ y.token = q.token /\ y.expected = q.expected /\ y.account = q.account /\ y.cookie = q.cookie
      /\ y.wrote = q.wrote
  BY <1>1, <1>2, <1>4, Continued
<1>6. Sound(request[s])'
  <2>1. Underway(request[s])'
    BY <1>1, <1>5 DEF Sound, Underway, Follows, Checked
  <2>2. Known(request[s])' /\ OwnCookie(request[s])'
    BY <1>1, <1>2, <1>3, <1>5 DEF Sound, Underway, Known, OwnCookie
  <2>3. OldIsDead(request[s])' /\ Current(request[s])' /\ Addressed(request[s])'
    BY <1>1, <1>5 DEF OldIsDead, Current, Addressed, Follows
  <2> QED
    BY <1>5, <2>1, <2>2, <2>3 DEF Sound
<1>7. ApiTypeOK' /\ ListsFit'
  BY <1>2, <1>5 DEF ApiSound, ApiTypeOK, ListsFit
<1> QED
  BY <1>2, <1>5, <1>6, <1>7, OneMoves

\* A transaction that writes the favourites of the account the request acts for.
LEMMA StoreStep ==
    ASSUME ApiSound, NEW s \in Slots, NEW stage \in {"create", "merge", "write"}, At(s, stage),
           NEW a \in Accounts, NEW list \in Fitting, NEW more \in SUBSET {a}, a \in registered \cup more,
           IF stage = "write" THEN a = request[s].user ELSE a = request[s].account, Store(s, a, list, more)
    PROVE  ApiSound'
<1> DEFINE q == request[s]
           x == [q EXCEPT !.user = a, !.list = list, !.asOf = revision[a] + 1,
                          !.wrote = list # favorites[a]]
           y == request'[s]
<1>1. /\ q \in Request /\ Sound(q) /\ q.status = "working" /\ Head(q.todo) = stage
      /\ Tail(q.todo) \in Seq(StageNames)
      /\ Len(q.todo) = 1 => Follows(q.kind, stage, "end")
      /\ Len(q.todo) # 1 => /\ Tail(q.todo) \in Left(q.kind) /\ Head(Tail(q.todo)) \in StageNames
                            /\ Follows(q.kind, stage, Head(Tail(q.todo)))
  BY AtStage
<1>2. /\ favorites' = [favorites EXCEPT ![a] = list] /\ revision' = [revision EXCEPT ![a] = @ + 1]
      /\ Continue(s, x) /\ registered' = registered \cup more /\ session' = session /\ issued' = issued
  BY DEF Store
<1>3. /\ registered \subseteq Accounts /\ favorites \in [Accounts -> Seq(Movies)]
      /\ revision \in [Accounts -> Nat] /\ session \in [Tokens -> registered \cup {Nobody}]
      /\ list \in Seq(Movies) /\ Len(list) <= MaxFavorites /\ IsInjective(list) /\ Nobody \notin Accounts
  BY ApiAssumption DEF ApiSound, ApiTypeOK, Fitting
<1>4. /\ x \in Request /\ x.todo = q.todo /\ x.status = q.status /\ x.kind = q.kind /\ x.token = q.token
      /\ x.account = q.account /\ x.user = a /\ x.list = list /\ x.asOf = revision[a] + 1
      /\ x.cookie = q.cookie /\ x.expected = q.expected
  <2>1. revision[a] + 1 \in Nat /\ (list # favorites[a]) \in BOOLEAN
    BY <1>3
  <2>2. x \in Request
    BY <1>1, <1>3, <2>1, ZenonT(40) DEF Request
  <2>3. x.user = a /\ x.list = list /\ x.asOf = revision[a] + 1
    BY <1>1, ZenonT(40) DEF Request
  <2>4. x.todo = q.todo /\ x.status = q.status /\ x.kind = q.kind /\ x.token = q.token
    OBVIOUS
  <2>5. x.account = q.account /\ x.cookie = q.cookie /\ x.expected = q.expected
    OBVIOUS
  <2> QED
    BY <2>2, <2>3, <2>4, <2>5
<1> HIDE DEF x
<1>5. /\ request' \in [Slots -> Request] /\ \A r \in Slots \ {s} : request'[r] = request[r]
      /\ y \in Request /\ y.user = a /\ y.todo = Tail(q.todo) /\ y.list = list /\ y.asOf = revision[a] + 1
      /\ y.status = (IF Len(q.todo) = 1 THEN "ok" ELSE "working")
      /\ y.kind = q.kind /\ y.token = q.token /\ y.expected = q.expected /\ y.account = q.account /\ y.cookie = q.cookie
  BY <1>1, <1>2, <1>4, Continued
<1>6. /\ favorites' \in [Accounts -> Seq(Movies)] /\ favorites'[a] = list
      /\ revision' \in [Accounts -> Nat] /\ revision'[a] = revision[a] + 1 /\ revision[a] \in Nat
      /\ \A b \in Accounts \ {a} : favorites'[b] = favorites[b] /\ revision'[b] = revision[b]
      /\ a \in registered' /\ registered' \subseteq Accounts /\ registered \subseteq registered'
  BY <1>2, <1>3
<1>7. Sound(request[s])'
  <2>1. q.cookie = NoToken
    BY <1>1 DEF Sound, Underway
  <2>2. Underway(request[s])'
    <3>1. y.status = "working" => Len(q.todo) # 1
      BY <1>5
    <3>2. Len(q.todo) # 1 => stage # "write" /\ Head(Tail(q.todo)) \in {"merge", "revoke"}
                              /\ q.kind \in Entering
      BY <1>1 DEF Follows, Entering, StageNames
    <3>3. stage = "create" \/ stage = "merge" => Head(Tail(q.todo)) = "revoke" \/ Len(q.todo) = 1
      BY <1>1 DEF Follows
    <3>4. y.status = "working" => Head(y.todo) = "revoke" /\ y.todo \in Left(y.kind) /\ y.user = y.account
                                  /\ y.kind \in Entering
      BY <1>1, <1>5, <3>1, <3>2, <3>3
    <3> QED
      BY <1>5, <2>1, <3>4 DEF Underway, Entering, Checked
  <2>3. Known(request[s])' /\ OwnCookie(request[s])'
    BY <1>1, <1>2, <1>5, <1>6, <2>1 DEF Sound, Known, OwnCookie
  <2>4. OldIsDead(request[s])'
    BY <1>1, <1>5 DEF OldIsDead, Follows, Entering
  <2>5. Current(request[s])'
    BY <1>3, <1>5, <1>6 DEF Current
  <2>6. y.status \notin {"401", "409"}
    BY <1>5
  <2>7. Addressed(request[s])'
    <3>1. Len(q.todo) = 1 => stage = "write"
      BY <1>1 DEF Follows
    <3>2. stage = "write" => a = q.user /\ (q.kind \in Checked => q.expected \in {Nobody, a})
      BY <1>1 DEF Sound, Underway
    <3> QED
      BY <1>3, <1>5, <3>1, <3>2 DEF Addressed
  <2> QED
    BY <2>2, <2>3, <2>4, <2>5, <2>6, <2>7 DEF Sound
<1>8. ApiTypeOK'
  <2>1. \A b \in Accounts \ registered' : favorites'[b] = <<>>
    BY <1>6 DEF ApiSound, ApiTypeOK
  <2>2. session' \in [Tokens -> registered' \cup {Nobody}] /\ issued' \subseteq Tokens
    BY <1>2, <1>3, <1>6 DEF ApiSound, ApiTypeOK
  <2> QED
    BY <1>5, <1>6, <2>1, <2>2 DEF ApiTypeOK
<1>9. ListsFit'
  BY <1>6 DEF ApiSound, ListsFit
<1>10. \A b \in Accounts : \/ revision'[b] = revision[b] /\ favorites'[b] = favorites[b]
                           \/ revision'[b] = revision[b] + 1
  BY <1>6
<1> QED
  BY <1>2, <1>5, <1>6, <1>7, <1>8, <1>9, <1>10, OneMoves

\* What a transaction makes of a list: new movies at its end, or one less.
Becomes(old) == Grown(old) \cup {Without(old, m) : m \in ToSet(old)}

\* Creating an account, merging and changing a favourite are such transactions.
Stores(s) ==
    \E stage \in {"create", "merge", "write"}, a \in Accounts, list \in Fitting, more \in SUBSET Accounts :
        /\ At(s, stage) /\ more \subseteq {a} /\ a \in registered \cup more
        /\ IF stage = "write" THEN a = request[s].user ELSE a = request[s].account
        /\ list \in Becomes(favorites[a])
        /\ Store(s, a, list, more)

\* The account and the list of each of them.
LEMMA CreateStores == ASSUME ApiSound, NEW s \in Slots, Create(s) PROVE Stores(s)
<1> DEFINE a == request[s].account
           list == Merged(<<>>, request[s].ids)
<1>1. At(s, "create") /\ a \notin registered /\ Store(s, a, list, {a})
  BY DEF Create
<1>2. request[s] \in Request /\ Sound(request[s])
  BY DEF ApiSound, ApiTypeOK
<1>3. request[s].kind = "signup"
  <2>1. \/ Follows(request[s].kind, "create", "end")
        \/ Follows(request[s].kind, "create", Head(Tail(request[s].todo)))
    BY <1>1, AtStage
  <2> QED
    BY <2>1 DEF Follows
<1>4. a \in Accounts /\ request[s].ids \in Seq(Movies)
  BY <1>2, <1>3 DEF Sound, Known, Entering, Request
<1>5. <<>> \in Fitting
  <2>1. <<>> \in Seq(Movies) /\ Len(<<>>) = 0 /\ DOMAIN <<>> = {}
    OBVIOUS
  <2> QED
    BY <2>1, ApiAssumption DEF Fitting, IsInjective
<1>6. list \in Becomes(favorites[a]) /\ list \in Fitting
  <2>1. favorites[a] = <<>>
    BY <1>1, <1>4 DEF ApiSound, ApiTypeOK
  <2> QED
    BY <1>4, <1>5, <2>1, MergedFits DEF Becomes, Grown
<1> HIDE DEF a, list
<1>7. a = request[s].account
  BY DEF a
<1>8. {a} \in SUBSET Accounts /\ {a} \subseteq {a} /\ a \in registered \cup {a}
  BY <1>4
<1> QED
  BY <1>1, <1>4, <1>6, <1>7, <1>8 DEF Stores

\* Merging writes the account whose password was verified.
LEMMA MergeStores == ASSUME ApiSound, NEW s \in Slots, Merge(s) PROVE Stores(s)
<1> DEFINE a == request[s].account
           list == Merged(favorites[a], request[s].ids)
<1>1. At(s, "merge") /\ Store(s, a, list, {})
  BY DEF Merge
<1>2. /\ request[s] \in Request /\ Sound(request[s]) /\ Nobody \notin Accounts
      /\ favorites \in [Accounts -> Seq(Movies)]
  BY ApiAssumption DEF ApiSound, ApiTypeOK
<1>3. request[s].kind = "login"
  <2>1. \/ Follows(request[s].kind, "merge", "end")
        \/ Follows(request[s].kind, "merge", Head(Tail(request[s].todo)))
    BY <1>1, AtStage
  <2> QED
    BY <2>1 DEF Follows
<1>4. a \in Accounts /\ request[s].ids \in Seq(Movies)
  BY <1>2, <1>3 DEF Sound, Known, Entering, Request
<1>5. a = request[s].user
  BY <1>1, <1>2, <1>3 DEF At, Sound, Underway, Entering
<1>6. a \in registered
  BY <1>2, <1>4, <1>5 DEF Sound, Known
<1>7. favorites[a] \in Fitting
  BY <1>4 DEF ApiSound, ListsFit
<1>8. list \in Becomes(favorites[a]) /\ list \in Fitting
  BY <1>4, <1>7, MergedFits DEF Becomes, Grown
<1> HIDE DEF a, list
<1>9. a = request[s].account
  BY DEF a
<1>10. {} \in SUBSET Accounts /\ {} \subseteq {a} /\ a \in registered \cup {}
  BY <1>6
<1> QED
  BY <1>1, <1>4, <1>8, <1>9, <1>10 DEF Stores

\* A change of favourites writes the account of the session.
LEMMA WriteStores == ASSUME ApiSound, NEW s \in Slots, Write(s) PROVE Stores(s)
<1> DEFINE q == request[s]
           a == q.user
           list == IF q.kind = "add" THEN Merged(favorites[a], q.ids) ELSE Without(favorites[a], q.ids[1])
<1>1. At(s, "write") /\ Store(s, a, list, {})
  BY DEF Write
<1>2. q \in Request /\ Sound(q) /\ registered \subseteq Accounts /\ favorites \in [Accounts -> Seq(Movies)]
  BY DEF ApiSound, ApiTypeOK
<1>3. a \in registered /\ a \in Accounts /\ q.ids \in Seq(Movies)
  BY <1>1, <1>2 DEF At, Sound, Underway, Known, Request
<1>4. favorites[a] \in Fitting
  BY <1>3 DEF ApiSound, ListsFit
<1>5. Merged(favorites[a], q.ids) \in Grown(favorites[a])
  BY <1>3, <1>4, MergedFits
<1>6. /\ Without(favorites[a], q.ids[1]) \in Fitting
      /\ Without(favorites[a], q.ids[1]) \in Becomes(favorites[a])
  <2>1. /\ favorites[a] \in Seq(Movies) /\ Len(favorites[a]) <= MaxFavorites /\ MaxFavorites \in Nat
        /\ IsInjective(favorites[a])
    BY <1>4, ApiAssumption DEF Fitting
  <2>2. /\ Without(favorites[a], q.ids[1]) \in Seq(Movies)
        /\ Len(Without(favorites[a], q.ids[1])) <= Len(favorites[a])
        /\ IsInjective(Without(favorites[a], q.ids[1]))
    BY <2>1, Shortened, Leaving DEF Without
  <2>3. \A l, m \in Seq(Movies) : Len(l) \in Nat /\ (Len(l) <= Len(m) /\ Len(m) <= MaxFavorites => Len(l) <= MaxFavorites)
    BY <2>1
  <2>4. q.ids[1] \notin ToSet(favorites[a]) => Without(favorites[a], q.ids[1]) = favorites[a]
    BY DEF Without, RemoveFirst, ToSet
  <2>5. favorites[a] \in Grown(favorites[a])
    BY <1>4, <2>1 DEF Grown
  <2> QED
    BY <2>1, <2>2, <2>3, <2>4, <2>5 DEF Fitting, Becomes
<1>7. list \in Fitting /\ list \in Becomes(favorites[a])
  BY <1>5, <1>6 DEF Becomes, Grown
<1> HIDE DEF a, list
<1>8. {} \in SUBSET Accounts /\ {} \subseteq {a} /\ a \in registered \cup {}
  BY <1>3
<1>9. a = request[s].user
  BY DEF a
<1> QED
  BY <1>1, <1>3, <1>7, <1>8, <1>9 DEF Stores

\* The token the request came with opens nothing any more.
LEMMA RevokeStep == ASSUME ApiSound, NEW s \in Slots, Revoke(s) PROVE ApiSound'
<1> DEFINE q == request[s]
           y == request'[s]
<1>1. /\ q \in Request /\ Sound(q) /\ q.status = "working" /\ Head(q.todo) = "revoke"
      /\ Tail(q.todo) \in Seq(StageNames)
      /\ Len(q.todo) = 1 => Follows(q.kind, "revoke", "end")
      /\ Len(q.todo) # 1 => /\ Tail(q.todo) \in Left(q.kind) /\ Head(Tail(q.todo)) \in StageNames
                            /\ Follows(q.kind, "revoke", Head(Tail(q.todo)))
  BY AtStage DEF Revoke
<1>2. /\ Continue(s, q) /\ session' = Revoked(q)
      /\ UNCHANGED <<registered, favorites, revision, issued>>
  BY DEF Revoke
<1>3. /\ request' \in [Slots -> Request] /\ \A r \in Slots \ {s} : request'[r] = request[r]
      /\ y \in Request /\ y.user = q.user /\ y.todo = Tail(q.todo)
      /\ y.status = (IF Len(q.todo) = 1 THEN "ok" ELSE "working")
      /\ y.kind = q.kind /\ y.token = q.token /\ y.expected = q.expected /\ y.account = q.account /\ y.cookie = q.cookie
      /\ y.wrote = q.wrote
  BY <1>1, <1>2, Continued
<1>4. /\ session \in [Tokens -> registered \cup {Nobody}] /\ issued \subseteq Tokens
      /\ q.token \in Tokens \cup {NoToken} /\ NoToken \notin Tokens
  BY <1>1, ApiAssumption DEF ApiSound, ApiTypeOK, Request
<1>5. /\ session' \in [Tokens -> registered \cup {Nobody}]
      /\ \A k \in Tokens : session'[k] \in {session[k], Nobody}
      /\ q.token # NoToken => session'[q.token] = Nobody
  BY <1>2, <1>4 DEF Revoked
<1>6. Sound(request[s])'
  <2>1. q.cookie = NoToken
    BY <1>1 DEF Sound, Underway
  <2>2. Underway(request[s])'
    <3>1. Len(q.todo) # 1 => Head(Tail(q.todo)) = "open" /\ q.kind \in Entering
      BY <1>1 DEF Follows, StageNames
    <3>2. y.status = "working" => Head(y.todo) = "open" /\ y.todo \in Left(y.kind) /\ y.user = y.account
                                  /\ y.kind \in Entering
      BY <1>1, <1>3, <3>1 DEF Sound, Underway
    <3> QED
      BY <1>3, <2>1, <3>2 DEF Underway, Entering, Checked
  <2>3. Known(request[s])' /\ OwnCookie(request[s])'
    BY <1>1, <1>2, <1>3, <2>1 DEF Sound, Known, OwnCookie
  <2>4. OldIsDead(request[s])'
    BY <1>3, <1>5 DEF OldIsDead
  <2>5. Current(request[s])' /\ Addressed(request[s])'
    BY <1>1, <1>3 DEF Current, Addressed, Follows, Entering, Checked
  <2>6. y.status \notin {"401", "409"}
    BY <1>3
  <2> QED
    BY <2>2, <2>3, <2>4, <2>5, <2>6 DEF Sound
<1>7. ApiTypeOK' /\ ListsFit'
  BY <1>2, <1>3, <1>5 DEF ApiSound, ApiTypeOK, ListsFit
<1> QED
  BY <1>2, <1>3, <1>4, <1>5, <1>6, <1>7, OneMoves

\* A token that was never issued opens the account the request acts for.
LEMMA OpenStep == ASSUME ApiSound, NEW s \in Slots, OpenSession(s) PROVE ApiSound'
<1> DEFINE q == request[s]
           y == request'[s]
<1>1. PICK k \in Tokens :
        /\ k \notin issued /\ At(s, "open") /\ issued' = issued \cup {k}
        /\ session' = [session EXCEPT ![k] = q.user] /\ Continue(s, [q EXCEPT !.cookie = k])
        /\ UNCHANGED <<registered, favorites, revision>>
  BY DEF OpenSession, FreshToken
<1> DEFINE x == [q EXCEPT !.cookie = k]
<1>2. Continue(s, x)
  BY <1>1
<1>3. /\ q \in Request /\ Sound(q) /\ q.status = "working" /\ Head(q.todo) = "open"
      /\ Tail(q.todo) \in Seq(StageNames)
      /\ Len(q.todo) # 1 /\ Tail(q.todo) \in Left(q.kind) /\ q.kind \in Entering
      /\ Head(Tail(q.todo)) = "read"
  <2>1. ~Follows(q.kind, "open", "end")
    BY DEF Follows
  <2>2. Follows(q.kind, "open", Head(Tail(q.todo))) => q.kind \in Entering /\ Head(Tail(q.todo)) = "read"
    BY DEF Follows
  <2> QED
    BY <1>1, <2>1, <2>2, AtStage
<1>4. /\ x \in Request /\ x.todo = q.todo /\ x.status = q.status /\ x.kind = q.kind /\ x.token = q.token
      /\ x.expected = q.expected
      /\ x.account = q.account /\ x.user = q.user /\ x.cookie = k /\ x.wrote = q.wrote
  BY <1>3 DEF Request
<1> HIDE DEF x
<1>5. /\ request' \in [Slots -> Request] /\ \A r \in Slots \ {s} : request'[r] = request[r]
      /\ y \in Request /\ y.user = q.user /\ y.todo = Tail(q.todo) /\ y.status = "working"
      /\ y.kind = q.kind /\ y.token = q.token /\ y.expected = q.expected /\ y.account = q.account /\ y.cookie = k
      /\ y.wrote = q.wrote
  BY <1>2, <1>3, <1>4, Continued
<1>6. /\ session \in [Tokens -> registered \cup {Nobody}] /\ issued \subseteq Tokens
      /\ q.user \in registered \cup {Nobody} /\ q.token \in issued \cup {NoToken} /\ NoToken \notin Tokens
  BY <1>3, ApiAssumption DEF ApiSound, ApiTypeOK, Sound, Known
<1>7. /\ session' \in [Tokens -> registered \cup {Nobody}] /\ session'[k] = q.user
      /\ \A j \in issued : session'[j] = session[j]
      /\ issued' \subseteq Tokens /\ issued \subseteq issued' /\ k \in issued'
  BY <1>1, <1>6
<1>8. Sound(request[s])'
  <2>1. Underway(request[s])'
    BY <1>3, <1>5 DEF Sound, Underway, Entering, Checked
  <2>2. Known(request[s])'
    BY <1>1, <1>3, <1>5, <1>6, <1>7 DEF Sound, Known
  <2>3. OwnCookie(request[s])'
    BY <1>5, <1>7 DEF OwnCookie
  <2>4. OldIsDead(request[s])'
    <3>1. q.token # NoToken => session[q.token] = Nobody
      BY <1>3 DEF Sound, OldIsDead
    <3> QED
      BY <1>5, <1>6, <1>7, <3>1 DEF OldIsDead
  <2>5. Current(request[s])' /\ Addressed(request[s])'
    BY <1>5 DEF Current, Addressed
  <2> QED
    BY <1>5, <2>1, <2>2, <2>3, <2>4, <2>5 DEF Sound
<1>9. ApiTypeOK' /\ ListsFit'
  BY <1>1, <1>5, <1>7 DEF ApiSound, ApiTypeOK, ListsFit
<1> QED
  BY <1>1, <1>5, <1>7, <1>8, <1>9, OneMoves

\* The favourites of the account the request acts for, as they are now.
LEMMA ReadStep == ASSUME ApiSound, NEW s \in Slots, Read(s) PROVE ApiSound'
<1> DEFINE q == request[s]
           u == q.user
           x == IF u = Nobody THEN [q EXCEPT !.list = IF q.kind = "recommend" THEN q.ids ELSE <<>>]
                ELSE [q EXCEPT !.list = favorites[u], !.asOf = revision[u]]
           y == request'[s]
<1>1. /\ q \in Request /\ Sound(q) /\ q.status = "working" /\ Head(q.todo) = "read"
      /\ Tail(q.todo) \in Seq(StageNames) /\ Len(q.todo) = 1
  <2>1. At(s, "read")
    BY DEF Read
  <2>2. Len(q.todo) # 1 => Head(Tail(q.todo)) \in StageNames /\ Follows(q.kind, "read", Head(Tail(q.todo)))
    BY <2>1, AtStage
  <2>3. Len(q.todo) = 1
    BY <2>2 DEF Follows, StageNames
  <2> QED
    BY <2>1, <2>3, AtStage
<1>2. Continue(s, x) /\ UNCHANGED <<registered, favorites, revision, session, issued>>
  BY DEF Read
<1>3. /\ u \in registered \cup {Nobody} /\ registered \subseteq Accounts
      /\ favorites \in [Accounts -> Seq(Movies)] /\ revision \in [Accounts -> Nat] /\ ListsFit
  BY <1>1 DEF ApiSound, ApiTypeOK, Sound, Known
<1>4. /\ x \in Request /\ x.todo = q.todo /\ x.status = q.status /\ x.kind = q.kind /\ x.token = q.token
      /\ x.account = q.account /\ x.user = u /\ x.cookie = q.cookie /\ x.wrote = q.wrote
      /\ x.expected = q.expected
  <2>1. <<>> \in Seq(Movies)
    OBVIOUS
  <2>2. x \in Request
    BY <1>1, <1>3, <2>1, ZenonT(40) DEF Request
  <2>3. x.expected = q.expected /\ x.todo = q.todo /\ x.status = q.status /\ x.kind = q.kind /\ x.token = q.token
    OBVIOUS
  <2>4. x.account = q.account /\ x.user = u /\ x.cookie = q.cookie /\ x.wrote = q.wrote
    OBVIOUS
  <2> QED
    BY <2>2, <2>3, <2>4
<1>5. u # Nobody => x.list = favorites[u] /\ x.asOf = revision[u]
  BY <1>1 DEF Request
<1> HIDE DEF x
<1>6. /\ request' \in [Slots -> Request] /\ \A r \in Slots \ {s} : request'[r] = request[r]
      /\ y \in Request /\ y.user = u /\ y.status = "ok" /\ y.list = x.list /\ y.asOf = x.asOf
      /\ y.kind = q.kind /\ y.token = q.token /\ y.expected = q.expected /\ y.account = q.account /\ y.cookie = q.cookie
      /\ y.wrote = q.wrote
  BY <1>1, <1>2, <1>4, Continued
<1>7. Sound(request[s])'
  <2>1. Underway(request[s])'
    BY <1>6 DEF Underway
  <2>2. Known(request[s])' /\ OwnCookie(request[s])'
    BY <1>1, <1>2, <1>6 DEF Sound, Known, OwnCookie
  <2>3. OldIsDead(request[s])'
    BY <1>1, <1>2, <1>6 DEF Sound, OldIsDead
  <2>4. Current(request[s])'
    <3>1. \A a \in Accounts : Len(favorites[a]) <= MaxFavorites /\ IsInjective(favorites[a])
      BY <1>3 DEF ListsFit, Fitting
    <3> QED
      BY <1>2, <1>3, <1>5, <1>6, <3>1 DEF Current
  <2>5. Addressed(request[s])'
    <3>1. Follows(q.kind, "read", "end")
      BY <1>1, AtStage DEF Read
    <3>2. q.kind \in Entering => u \in Accounts /\ Nobody \notin Accounts
      BY <1>1, ApiAssumption DEF Sound, Underway, Known
    <3>3. q.kind \in Checked => q.expected \in {Nobody, u}
      BY <1>1 DEF Sound, Underway
    <3> QED
      BY <1>6, <3>1, <3>2, <3>3 DEF Addressed, Follows
  <2> QED
    BY <1>6, <2>1, <2>2, <2>3, <2>4, <2>5 DEF Sound
<1>8. ApiTypeOK' /\ ListsFit'
  BY <1>2, <1>6 DEF ApiSound, ApiTypeOK, ListsFit
<1> QED
  BY <1>2, <1>6, <1>7, <1>8, OneMoves

-----------------------------------------------------------------------------
\* An idle slot.
LEMMA IdleIsRequest == Idle \in Request /\ Idle.user = Nobody /\ Idle.cookie = NoToken /\ Idle.wrote = FALSE
<1>1. <<>> \in Seq(Movies) /\ <<>> \in Seq(StageNames)
  OBVIOUS
<1> QED
  BY <1>1 DEF Idle, Request, Kinds, StageNames

\* The server starts sound.
LEMMA ApiStarts == ASSUME ApiInit PROVE ApiSound
<1>1. /\ registered = Existing /\ favorites = [a \in Accounts |-> IF a \in Existing THEN Kept ELSE <<>>]
      /\ revision = [a \in Accounts |-> 0] /\ session \in [Tokens -> Existing \cup {Nobody}]
      /\ issued = Earlier /\ request = [s \in Slots |-> Idle]
  BY DEF ApiInit
<1>2. /\ Existing \subseteq Accounts /\ Earlier \subseteq Tokens /\ MaxFavorites \in Nat
      /\ Kept \in Seq(Movies) /\ Len(Kept) <= MaxFavorites /\ Nobody \notin Accounts
  BY ApiAssumption
<1>3. <<>> \in Seq(Movies) /\ Len(<<>>) = 0
  OBVIOUS
<1>4. Idle \in Request
  BY IdleIsRequest
<1>5. favorites \in [Accounts -> Seq(Movies)]
  BY <1>1, <1>2, <1>3
<1>6. ApiTypeOK
  BY <1>1, <1>2, <1>4, <1>5 DEF ApiTypeOK
<1>7. ListsFit
  <2>1. Kept \in Fitting
    BY <1>2, ApiAssumption DEF Fitting
  <2>2. <<>> \in Fitting
    <3>1. DOMAIN <<>> = {}
      OBVIOUS
    <3> QED
      BY <1>2, <1>3, <3>1 DEF Fitting, IsInjective
  <2> QED
    BY <1>1, <2>1, <2>2 DEF ListsFit
<1>8. CookiesDiffer
  BY <1>1 DEF CookiesDiffer, Idle
<1>9. ASSUME NEW s \in Slots PROVE Sound(request[s])
  <2>1. request[s] = Idle
    BY <1>1
  <2>2. Underway(Idle) /\ Known(Idle) /\ OldIsDead(Idle) /\ OwnCookie(Idle) /\ Current(Idle)
        /\ Addressed(Idle)
    BY DEF Idle, Underway, Known, OldIsDead, OwnCookie, Current, Addressed, Entering
  <2> QED
    BY <2>1, <2>2 DEF Sound, Idle
<1> QED
  BY <1>6, <1>7, <1>8, <1>9 DEF ApiSound

\* Requests a client may send.
Sendable(kind, token, expected, account, ids) ==
    /\ kind \in Kinds /\ token \in issued \cup {NoToken} /\ expected \in Accounts \cup {Nobody}
    /\ account \in Accounts \cup {Nobody} /\ (kind \in Entering => account \in Accounts)
    /\ ids \in Seq(Movies)

\* At first all of a route is left.
LEMMA PathLeft == ASSUME NEW kind \in Kinds PROVE Path(kind) \in Left(kind)
  BY DEF Path, Left, Kinds

\* The first stage of a route.
LEMMA FirstStage ==
    ASSUME NEW kind \in Kinds
    PROVE  /\ kind = "login" => Head(Path(kind)) = "credentials"
           /\ kind = "signup" => Head(Path(kind)) = "create"
           /\ kind \notin Entering => Head(Path(kind)) = "session"
<1>1. CASE kind = "login"
  <2>1. Path(kind) = <<"credentials", "merge", "revoke", "open", "read">>
    BY <1>1 DEF Path
  <2> QED
    BY <1>1, <2>1, Stages DEF Entering
<1>2. CASE kind = "signup"
  <2>1. Path(kind) = <<"create", "revoke", "open", "read">>
    BY <1>2 DEF Path
  <2> QED
    BY <1>2, <2>1, Stages DEF Entering
<1>3. CASE kind \notin Entering
  <2>1. Path(kind) \in {<<"session", "revoke">>, <<"session", "write">>, <<"session", "read">>}
    BY <1>3 DEF Path, Entering
  <2> QED
    BY <1>3, <2>1, Stages DEF Entering
<1> QED
  BY <1>1, <1>2, <1>3 DEF Entering

\* A request that reaches the server.
LEMMA ArriveStep ==
    ASSUME ApiSound, NEW s \in Slots, NEW kind, NEW token, NEW expected, NEW account, NEW ids,
           Sendable(kind, token, expected, account, ids),
           Arrive(s, Incoming(kind, token, expected, account, ids))
    PROVE  ApiSound'
<1> DEFINE q == Incoming(kind, token, expected, account, ids)
           y == request'[s]
<1>1. /\ kind \in Kinds /\ token \in issued \cup {NoToken} /\ expected \in Accounts \cup {Nobody}
      /\ account \in Accounts \cup {Nobody} /\ (kind \in Entering => account \in Accounts)
      /\ ids \in Seq(Movies) /\ issued \subseteq Tokens
  BY DEF Sendable, ApiSound, ApiTypeOK
<1>2. Path(kind) \in Left(kind) /\ Path(kind) \in Seq(StageNames) /\ Head(Path(kind)) \notin {"write", "open", "read"}
  BY <1>1, PathLeft, Onward, FirstStage DEF Entering
<1>3. Idle \in Request /\ Idle.user = Nobody /\ Idle.cookie = NoToken /\ Idle.wrote = FALSE
  BY IdleIsRequest
<1>4. q \in Request
  <2>1. token \in Tokens \cup {NoToken} /\ Path(kind) \in Seq(StageNames)
    BY <1>1, <1>2
  <2> DEFINE r == [Idle EXCEPT !.kind = kind, !.token = token, !.expected = expected, !.account = account]
  <2>2. r \in Request
    BY <1>1, <1>3, <2>1, ZenonT(40) DEF Request
  <2>3. q = [r EXCEPT !.ids = ids, !.todo = Path(kind), !.status = "working"]
    BY DEF Incoming
  <2> HIDE DEF q, r
  <2> QED
    BY <1>1, <2>1, <2>2, <2>3 DEF Request, StageNames
<1>5. /\ q.kind = kind /\ q.token = token /\ q.expected = expected /\ q.account = account /\ q.todo = Path(kind) /\ q.user = Nobody
      /\ q.cookie = NoToken /\ q.wrote = FALSE /\ q.status = "working"
  BY <1>3 DEF Incoming, Request
<1> HIDE DEF q
<1>6. /\ request' = [request EXCEPT ![s] = q] /\ request \in [Slots -> Request]
      /\ UNCHANGED <<registered, favorites, revision, session, issued>>
  BY DEF Arrive, q, ApiSound, ApiTypeOK
<1>7. /\ request' \in [Slots -> Request] /\ \A r \in Slots \ {s} : request'[r] = request[r]
      /\ y = q
  BY <1>4, <1>6
<1>8. Sound(request[s])'
  <2>1. Underway(request[s])'
    BY <1>1, <1>2, <1>5, <1>7, FirstStage DEF Underway, Entering, Checked
  <2>2. Known(request[s])' /\ OwnCookie(request[s])'
    BY <1>1, <1>5, <1>6, <1>7 DEF Known, OwnCookie
  <2>3. OldIsDead(request[s])' /\ Current(request[s])' /\ Addressed(request[s])'
    BY <1>2, <1>5, <1>7 DEF OldIsDead, Current, Addressed
  <2> QED
    BY <1>5, <1>7, <2>1, <2>2, <2>3 DEF Sound
<1>9. ApiTypeOK' /\ ListsFit'
  BY <1>6, <1>7 DEF ApiSound, ApiTypeOK, ListsFit
<1> QED
  BY <1>5, <1>6, <1>7, <1>8, <1>9, OneMoves

\* Time runs out for a session.
LEMMA ExpireStep == ASSUME ApiSound, NEW k \in Tokens, Expire(k) PROVE ApiSound'
<1>1. /\ session' = [session EXCEPT ![k] = Nobody]
      /\ UNCHANGED <<registered, favorites, revision, issued, request>>
  BY DEF Expire
<1>2. session \in [Tokens -> registered \cup {Nobody}] /\ issued \subseteq Tokens
  BY DEF ApiSound, ApiTypeOK
<1>3. /\ session' \in [Tokens -> registered \cup {Nobody}]
      /\ \A j \in Tokens : session'[j] \in {session[j], Nobody}
  BY <1>1, <1>2
<1>4. ApiTypeOK' /\ ListsFit' /\ CookiesDiffer'
  BY <1>1, <1>3 DEF ApiSound, ApiTypeOK, ListsFit, CookiesDiffer
<1>5. ASSUME NEW r \in Slots PROVE Sound(request[r])'
  BY <1>1, <1>2, <1>3, Undisturbed
<1> QED
  BY <1>4, <1>5 DEF ApiSound

\* A step in which the server does nothing.
LEMMA ApiStillStands == ASSUME ApiSound, UNCHANGED apiVars PROVE ApiSound'
<1>1. /\ registered' = registered /\ favorites' = favorites /\ revision' = revision
      /\ session' = session /\ issued' = issued /\ request' = request
  BY DEF apiVars
<1>2. ASSUME NEW r \in Slots PROVE Sound(request[r])'
  BY <1>1, Undisturbed
<1> QED
  BY <1>1, <1>2 DEF ApiSound, ApiTypeOK, ListsFit, CookiesDiffer

\* Whatever the server does, it stays sound.
LEMMA ApiStepSound == ASSUME ApiSound, ApiStep PROVE ApiSound'
<1>1. ASSUME NEW s \in Slots, Handle(s) PROVE ApiSound'
  <2>1. CASE Recognize(s)
    BY <2>1, RecognizeStep
  <2>2. CASE RefuseSession(s) \/ RefuseCredentials(s) \/ RefuseAccount(s) \/ ListFull(s)
    <3>1. PICK stage \in {"session", "credentials", "create", "write"}, status \in {"401", "409"} :
              At(s, stage) /\ Answer(s, status)
      BY <2>2 DEF RefuseSession, RefuseCredentials, RefuseAccount, ListFull
    <3>2. ~request[s].wrote
      BY <3>1 DEF At, ApiSound, Sound, Underway
    <3> QED
      BY <3>1, <3>2, AnswerStep
  <2>3. CASE Verify(s)
    BY <2>3, VerifyStep
  <2>4. CASE Create(s) \/ Merge(s) \/ Write(s)
    <3>1. Stores(s)
      BY <2>4, CreateStores, MergeStores, WriteStores
    <3>2. PICK stage \in {"create", "merge", "write"}, a \in Accounts, list \in Fitting, more \in SUBSET Accounts :
              /\ At(s, stage) /\ more \subseteq {a} /\ a \in registered \cup more
              /\ IF stage = "write" THEN a = request[s].user ELSE a = request[s].account
              /\ Store(s, a, list, more)
      BY <3>1 DEF Stores
    <3>3. more \in SUBSET {a}
      BY <3>2
    <3> QED
      BY <3>2, <3>3, StoreStep
  <2>7. CASE Revoke(s)
    BY <2>7, RevokeStep
  <2>8. CASE OpenSession(s)
    BY <2>8, OpenStep
  <2>9. CASE Read(s)
    BY <2>9, ReadStep
  <2> QED
    BY <1>1, <2>1, <2>2, <2>3, <2>4, <2>7, <2>8, <2>9 DEF Handle
<1>2. ASSUME NEW s \in Slots, Break(s) PROVE ApiSound'
  BY <1>2, AnswerStep DEF Break
<1> QED
  BY <1>1, <1>2, ExpireStep DEF ApiStep

\* Nor does it write the favourites of another account than the sender shows.
LEMMA NoneElseWritten ==
    ASSUME ApiSound, ApiStep, NEW a \in Accounts, favorites'[a] # favorites[a]
    PROVE  \E s \in Slots :
               LET q == request[s]
               IN  /\ q.status = "working" /\ request'[s] # q
                   /\ IF q.kind \in {"login", "signup"} THEN q.account = a
                      ELSE q.kind \in {"add", "remove"} /\ q.user = a /\ q.expected \in {Nobody, a}
<1>1. PICK s \in Slots : Create(s) \/ Merge(s) \/ Write(s)
  BY DEF ApiStep, Handle, Break, Answer, Expire, Recognize, RefuseSession, Verify, RefuseCredentials, RefuseAccount,
         ListFull, Revoke, OpenSession, Read
<1> DEFINE q == request[s]
<1>2. PICK stage \in {"create", "merge", "write"}, b \in Accounts, list \in Fitting, more \in SUBSET Accounts :
          /\ At(s, stage) /\ Store(s, b, list, more)
          /\ IF stage = "write" THEN b = q.user ELSE b = q.account
  BY <1>1, CreateStores, MergeStores, WriteStores DEF Stores
<1>3. /\ q \in Request /\ Sound(q) /\ q.status = "working" /\ Head(q.todo) = stage
      /\ \/ Follows(q.kind, stage, "end")
         \/ Follows(q.kind, stage, Head(Tail(q.todo)))
  BY <1>2, AtStage
<1>4. favorites' = [favorites EXCEPT ![b] = list] /\ favorites \in [Accounts -> Seq(Movies)]
  BY <1>2 DEF Store, ApiSound, ApiTypeOK
<1>5. a = b
  BY <1>4
<1>6. request'[s] # q
  <2> DEFINE x == [q EXCEPT !.user = b, !.list = list, !.asOf = revision[b] + 1,
                            !.wrote = list # favorites[b]]
  <2>1. Continue(s, x)
    BY <1>2 DEF Store
  <2>2. x.todo = q.todo /\ x = [x EXCEPT !.todo = q.todo]
    BY <1>3 DEF Request
  <2> HIDE DEF x
  <2>3. request'[s] = Advance(x)
    BY <2>1 DEF Continue, ApiSound, ApiTypeOK
  <2>4. request'[s].todo = Tail(q.todo)
    BY <2>2, <2>3 DEF Advance
  <2>5. q.todo \in Seq(StageNames) /\ q.todo # <<>>
    BY <1>2, <1>3 DEF At, Request, StageNames
  <2>6. Len(Tail(q.todo)) # Len(q.todo)
    BY <2>5
  <2> QED
    BY <2>4, <2>6
<1>7. CASE stage = "write"
  <2>1. q.kind \in {"add", "remove"}
    BY <1>3, <1>7 DEF Follows
  <2>2. q.user = a /\ q.expected \in {Nobody, a}
    BY <1>2, <1>3, <1>5, <1>7, <2>1 DEF Sound, Underway, Checked
  <2> QED
    BY <1>3, <1>6, <2>1, <2>2
<1>8. CASE stage # "write"
  <2>1. q.kind \in {"login", "signup"}
    <3>1. stage = "create" \/ stage = "merge"
      BY <1>2, <1>8
    <3> QED
      BY <1>3, <3>1 DEF Follows
  <2> QED
    BY <1>2, <1>3, <1>5, <1>6, <1>8, <2>1
<1> QED
  BY <1>7, <1>8

-----------------------------------------------------------------------------
\* A call of a client is a request one may send.
LEMMA CallArrives == ASSUME ApiSound, NEW lists \in SUBSET Seq(Movies), Call(lists) PROVE ApiSound' /\ UNCHANGED favorites
<1>1. PICK s \in Slots, kind \in Kinds, token \in issued \cup {NoToken}, expected \in Accounts \cup {Nobody} :
          \E account \in Named(kind), ids \in Bodies(kind, lists) :
              Arrive(s, Incoming(kind, token, expected, account, ids))
  BY DEF Call
<1>2. PICK account \in Named(kind), ids \in Bodies(kind, lists) : Arrive(s, Incoming(kind, token, expected, account, ids))
  BY <1>1
<1>3. account \in Accounts \cup {Nobody} /\ (kind \in Entering => account \in Accounts)
  BY DEF Named, Entering
<1>4. ids \in Seq(Movies)
  <2>1. <<>> \in Seq(Movies) /\ \A m \in Movies : <<m>> \in Seq(Movies)
    OBVIOUS
  <2> QED
    BY <2>1 DEF Bodies
<1>5. Sendable(kind, token, expected, account, ids)
  BY <1>3, <1>4 DEF Sendable
<1>6. ApiSound'
  BY <1>2, <1>5, ArriveStep
<1>7. UNCHANGED favorites
  BY <1>2 DEF Arrive
<1> QED
  BY <1>6, <1>7

\* The server stays sound under any clients.
THEOREM ServerStaysSound == ApiSpec => []ApiSound
<1>1. ApiInit => ApiSound
  BY ApiStarts
<1>2. ApiSound /\ [ApiNext]_apiVars => ApiSound'
  BY CallArrives, ApiStepSound, ApiStillStands DEF ApiNext
<1> QED
  BY <1>1, <1>2, PTL DEF ApiSpec

\* The tables and the requests keep their types: lists of favourites are of registered accounts only,
\* and a session opens a registered account or nothing (the foreign keys of the schema).
THEOREM ApiTypesHold == ApiSpec => []ApiTypeOK
<1>1. ApiSound => ApiTypeOK
  BY DEF ApiSound
<1> QED
  BY <1>1, ServerStaysSound, PTL

\* A request answered by a refusal has changed no favourites (log-in merges only after the password was
\* verified).
THEOREM RefusedChangesNothing == ApiSpec => []RefusalChangesNothing
<1>1. ApiSound => RefusalChangesNothing
  BY DEF ApiSound, Sound, RefusalChangesNothing
<1> QED
  BY <1>1, ServerStaysSound, PTL

\* The token that a completed log-in, sign-up or log-out came with is dead for good.
THEOREM OldTokensDie == ApiSpec => []OldTokenDies
<1>1. ApiSound => OldTokenDies
  BY DEF ApiSound, Sound, OldIsDead, Entering, OldTokenDies
<1> QED
  BY <1>1, ServerStaysSound, PTL

\* A token handed out opens the account of its reply or nothing, and is handed out once.
THEOREM TokensMatchReplies == ApiSpec => []TokenMatchesReply
<1>1. ApiSound => TokenMatchesReply
  BY DEF ApiSound, Sound, OwnCookie, CookiesDiffer, TokenMatchesReply
<1> QED
  BY <1>1, ServerStaysSound, PTL

\* A reply lists the favourites as they were at one moment of the account the handler found.
THEOREM RepliesAreCurrent == ApiSpec => []ReplyIsCurrent
<1>1. ApiSound => ReplyIsCurrent
  BY DEF ApiSound, Sound, Current, ReplyIsCurrent
<1> QED
  BY <1>1, ServerStaysSound, PTL

\* Favourites change only by a request for the account its sender shows, with a session of it or its
\* password.
THEOREM OnlyOwnWrites == ApiSpec => NoForeignWrite
<1> DEFINE Own(a) ==
               favorites'[a] # favorites[a] =>
                   \E s \in Slots :
                       LET q == request[s]
                       IN  /\ q.status = "working" /\ request'[s] # q
                           /\ IF q.kind \in {"login", "signup"} THEN q.account = a
                              ELSE q.kind \in {"add", "remove"} /\ q.user = a /\ q.expected \in {Nobody, a}
<1>1. ASSUME ApiSound, [ApiNext]_apiVars PROVE \A a \in Accounts : Own(a)
  <2>1. CASE Call(Seq(Movies))
    BY <1>1, <2>1, CallArrives
  <2>2. CASE ApiStep
    BY <1>1, <2>2, NoneElseWritten
  <2>3. CASE UNCHANGED apiVars
    BY <2>3 DEF apiVars
  <2> QED
    BY <1>1, <2>1, <2>2, <2>3 DEF ApiNext
<1>2. ApiSound /\ [ApiNext]_apiVars => [\A a \in Accounts : Own(a)]_apiVars
  BY <1>1
<1>3. []ApiSound /\ [][ApiNext]_apiVars => [][\A a \in Accounts : Own(a)]_apiVars
  BY <1>2, PTL
<1> QED
  BY <1>3, ServerStaysSound, PTL DEF ApiSpec, NoForeignWrite

-----------------------------------------------------------------------------
\* The instance brings its own name for Cardinality.
LEMMA SameCardinality == \A S : AbstractLists!Cardinality(S) = Cardinality(S)
  BY DEF Cardinality, AbstractLists!Cardinality

\* Who comes before whom in a list.
LEMMA Pairs ==
    ASSUME NEW l \in Seq(Movies), NEW x, NEW y
    PROVE  <<x, y>> \in EarlierIn(l) <=> \E i, j \in 1..Len(l) : i < j /\ l[i] = x /\ l[j] = y
  BY DEF EarlierIn, ToSet

\* A list without repetitions puts its movies in an order.
LEMMA ListOrders ==
    ASSUME NEW l \in Seq(Movies), IsInjective(l), NEW N \in SUBSET ToSet(l)
    PROVE  AbstractLists!Orders(EarlierIn(l) \cap (N \X N), N)
<1> DEFINE o == EarlierIn(l) \cap (N \X N)
<1>1. Len(l) \in Nat /\ DOMAIN l = 1..Len(l) /\ \A i, j \in 1..Len(l) : l[i] = l[j] => i = j
  BY DEF IsInjective
<1>2. ASSUME NEW m \in N, NEW n \in N
      PROVE  <<m, n>> \in o <=> \E i, j \in 1..Len(l) : i < j /\ l[i] = m /\ l[j] = n
  <2>1. <<m, n>> \in EarlierIn(l) <=> \E i, j \in 1..Len(l) : i < j /\ l[i] = m /\ l[j] = n
    BY Pairs
  <2>2. <<m, n>> \in o <=> <<m, n>> \in EarlierIn(l)
    OBVIOUS
  <2> QED
    BY <2>1, <2>2
<1> HIDE DEF o
<1>3. \A m \in N : \E i \in 1..Len(l) : l[i] = m
  BY <1>1 DEF ToSet
<1>4. \A m \in N : <<m, m>> \notin o
  BY <1>1, <1>2
<1>5. ASSUME NEW m \in N, NEW n \in N, m # n PROVE <<m, n>> \in o \/ <<n, m>> \in o
  <2>1. PICK i \in 1..Len(l), j \in 1..Len(l) : l[i] = m /\ l[j] = n
    BY <1>3
  <2>2. i < j \/ j < i
    BY <1>1, <1>5, <2>1
  <2> QED
    BY <1>2, <2>1, <2>2
<1>6. ASSUME NEW m \in N, NEW n \in N, NEW p \in N, <<m, n>> \in o, <<n, p>> \in o PROVE <<m, p>> \in o
  <2>1. PICK i \in 1..Len(l), j \in 1..Len(l) : i < j /\ l[i] = m /\ l[j] = n
    BY <1>2, <1>6
  <2>2. PICK k \in 1..Len(l), h \in 1..Len(l) : k < h /\ l[k] = n /\ l[h] = p
    BY <1>2, <1>6
  <2>3. j = k
    BY <1>1, <2>1, <2>2
  <2>4. i < h
    BY <1>1, <2>1, <2>2, <2>3
  <2> QED
    BY <1>2, <2>1, <2>2, <2>4
<1>7. o \subseteq N \X N
  BY DEF o
<1> QED
  BY <1>4, <1>5, <1>6, <1>7 DEF AbstractLists!Orders, o

\* The movies N join the end of the list, in the order o.
Appends(old, l, N, o) ==
    /\ N \subseteq Movies \ ToSet(old) /\ AbstractLists!Orders(o, N)
    /\ Cardinality(ToSet(old) \cup N) <= MaxFavorites
    /\ ToSet(l) = ToSet(old) \cup N
    /\ EarlierIn(l) = EarlierIn(old) \cup o \cup (ToSet(old) \X N)

\* What a list is grown by joins its end.
LEMMA GrownAppends ==
    ASSUME NEW old \in Fitting, NEW l \in Grown(old)
    PROVE  \E N \in SUBSET (Movies \ ToSet(old)) : \E o \in SUBSET (N \X N) : Appends(old, l, N, o)
<1> DEFINE N == ToSet(l) \ ToSet(old)
           o == EarlierIn(l) \cap (N \X N)
<1>1. /\ old \in Seq(Movies) /\ l \in Seq(Movies) /\ IsInjective(l) /\ Len(l) <= MaxFavorites /\ MaxFavorites \in Nat
      /\ Len(old) <= Len(l) /\ \A k \in 1..Len(old) : l[k] = old[k]
  BY ApiAssumption DEF Fitting, Grown
<1>2. /\ Len(old) \in Nat /\ Len(l) \in Nat /\ DOMAIN l = 1..Len(l) /\ DOMAIN old = 1..Len(old)
      /\ 1..Len(old) \subseteq 1..Len(l) /\ \A i, j \in 1..Len(l) : l[i] = l[j] => i = j
  BY <1>1 DEF IsInjective
<1>3. \A i \in 1..Len(l) : l[i] \in ToSet(old) <=> i \in 1..Len(old)
  BY <1>1, <1>2 DEF ToSet
<1>4. ToSet(old) \subseteq ToSet(l) /\ ToSet(l) \subseteq Movies
  BY <1>1, <1>2 DEF ToSet
<1>5. ToSet(l) = ToSet(old) \cup N
  BY <1>4
<1>6. Cardinality(ToSet(old) \cup N) <= MaxFavorites
  <2>1. Cardinality(ToSet(l)) <= Len(l) /\ Cardinality(ToSet(l)) \in Nat
    BY <1>1, ElementsBound, FS_CardinalityType
  <2>2. Cardinality(ToSet(l)) <= MaxFavorites
    BY <1>1, <1>2, <2>1
  <2> HIDE DEF N
  <2> QED
    BY <1>5, <2>2
<1>7. AbstractLists!Orders(o, N)
  <2>1. N \in SUBSET ToSet(l)
    OBVIOUS
  <2> HIDE DEF N
  <2> QED
    BY <1>1, <2>1, ListOrders
<1>8. ASSUME NEW x, NEW y
      PROVE  <<x, y>> \in EarlierIn(l) <=>
                 <<x, y>> \in EarlierIn(old) \/ <<x, y>> \in o \/ <<x, y>> \in ToSet(old) \X N
  <2>1. ASSUME <<x, y>> \in EarlierIn(l), <<x, y>> \notin o
        PROVE  <<x, y>> \in EarlierIn(old) \/ <<x, y>> \in ToSet(old) \X N
    <3>1. PICK i \in 1..Len(l), j \in 1..Len(l) : i < j /\ l[i] = x /\ l[j] = y
      BY <1>1, <2>1, Pairs
    <3>2. x \in ToSet(l) /\ y \in ToSet(l)
      BY <1>2, <3>1 DEF ToSet
    <3>3. CASE j \in 1..Len(old)
      <4>1. i \in 1..Len(old) /\ old[i] = x /\ old[j] = y
        BY <1>1, <1>2, <3>1, <3>3
      <4> QED
        BY <1>1, <3>1, <3>3, <4>1, Pairs
    <3>4. CASE j \notin 1..Len(old)
      <4>1. y \in N
        BY <1>3, <3>1, <3>2, <3>4
      <4>2. x \notin N
        BY <2>1, <4>1
      <4> QED
        BY <3>2, <4>1, <4>2
    <3> QED
      BY <3>3, <3>4
  <2>2. ASSUME <<x, y>> \in EarlierIn(old) PROVE <<x, y>> \in EarlierIn(l)
    <3>1. PICK i \in 1..Len(old), j \in 1..Len(old) : i < j /\ old[i] = x /\ old[j] = y
      BY <1>1, <2>2, Pairs
    <3>2. i \in 1..Len(l) /\ j \in 1..Len(l) /\ l[i] = x /\ l[j] = y
      BY <1>1, <1>2, <3>1
    <3> QED
      BY <1>1, <3>1, <3>2, Pairs
  <2>3. ASSUME <<x, y>> \in ToSet(old) \X N PROVE <<x, y>> \in EarlierIn(l)
    <3>1. PICK i \in 1..Len(old) : old[i] = x
      BY <1>2, <2>3 DEF ToSet
    <3>2. PICK j \in 1..Len(l) : l[j] = y
      BY <1>2, <2>3 DEF ToSet
    <3>3. j \notin 1..Len(old)
      BY <1>3, <2>3, <3>2
    <3>4. i < j /\ i \in 1..Len(l) /\ l[i] = x
      BY <1>1, <1>2, <3>1, <3>2, <3>3
    <3> QED
      BY <1>1, <3>2, <3>4, Pairs
  <2>4. ASSUME <<x, y>> \in o PROVE <<x, y>> \in EarlierIn(l)
    BY <2>4
  <2> QED
    BY <2>1, <2>2, <2>3, <2>4
<1>9. EarlierIn(l) = EarlierIn(old) \cup o \cup (ToSet(old) \X N)
  <2>1. EarlierIn(l) \subseteq ToSet(l) \X ToSet(l) /\ EarlierIn(old) \subseteq ToSet(old) \X ToSet(old)
    BY DEF EarlierIn
  <2>2. o \subseteq N \X N
    OBVIOUS
  <2> HIDE DEF o, N
  <2> QED
    BY <1>8, <2>1, <2>2
<1>10. N \subseteq Movies \ ToSet(old) /\ o \subseteq N \X N
  BY <1>4
<1>11. Appends(old, l, N, o)
  BY <1>5, <1>6, <1>7, <1>9, <1>10 DEF Appends
<1> HIDE DEF N, o
<1> QED
  BY <1>10, <1>11

\* A movie taken away leaves the others in their order.
LEMMA WithoutWithdraws ==
    ASSUME NEW old \in Fitting, NEW m \in ToSet(old)
    PROVE  /\ m \in Movies
           /\ ToSet(Without(old, m)) = ToSet(old) \ {m}
           /\ EarlierIn(Without(old, m)) = {p \in EarlierIn(old) : p[1] # m /\ p[2] # m}
<1>1. /\ old \in Seq(Movies) /\ Len(old) \in Nat /\ DOMAIN old = 1..Len(old)
      /\ \A i, j \in 1..Len(old) : old[i] = old[j] => i = j
  BY DEF Fitting, IsInjective
<1>2. PICK k \in 1..Len(old) : old[k] = m /\ Without(old, m) = RemoveAt(old, k)
  BY <1>1, FirstPlace DEF Without
<1> DEFINE l == Without(old, m)
           at(j) == IF j < k THEN j ELSE j + 1
<1>3. l \in Seq(Movies) /\ Len(l) = Len(old) - 1 /\ \A j \in 1..(Len(old) - 1) : l[j] = old[at(j)]
  <2>1. /\ RemoveAt(old, k) \in Seq(Movies) /\ Len(RemoveAt(old, k)) = Len(old) - 1
        /\ \A j \in 1..(Len(old) - 1) : RemoveAt(old, k)[j] = old[IF j < k THEN j ELSE j + 1]
    BY <1>1, OneTaken
  <2> QED
    BY <1>2, <2>1
<1> HIDE DEF l
<1>4. DOMAIN l = 1..(Len(old) - 1)
  BY <1>1, <1>3
<1>5. \A j \in 1..(Len(old) - 1) : at(j) \in 1..Len(old) /\ at(j) # k /\ old[at(j)] # m
  BY <1>1, <1>2
<1>6. \A i \in 1..Len(old) : i # k => \E j \in 1..(Len(old) - 1) : at(j) = i
  <2> SUFFICES ASSUME NEW i \in 1..Len(old), i # k PROVE \E j \in 1..(Len(old) - 1) : at(j) = i
    OBVIOUS
  <2>1. CASE i < k
    BY <1>1, <2>1
  <2>2. CASE i > k
    <3>1. i - 1 \in 1..(Len(old) - 1) /\ at(i - 1) = i
      BY <1>1, <2>2
    <3> QED
      BY <3>1
  <2> QED
    BY <1>1, <2>1, <2>2
<1>7. \A i, j \in 1..(Len(old) - 1) : i < j <=> at(i) < at(j)
  BY <1>1
<1> HIDE DEF at
<1>8. ToSet(l) = ToSet(old) \ {m}
  <2>1. ASSUME NEW x \in ToSet(l) PROVE x \in ToSet(old) /\ x # m
    <3>1. PICK j \in 1..(Len(old) - 1) : l[j] = x
      BY <1>4 DEF ToSet
    <3> QED
      BY <1>1, <1>3, <1>5, <3>1 DEF ToSet
  <2>2. ASSUME NEW x \in ToSet(old), x # m PROVE x \in ToSet(l)
    <3>1. PICK i \in 1..Len(old) : old[i] = x
      BY <1>1 DEF ToSet
    <3>2. PICK j \in 1..(Len(old) - 1) : at(j) = i
      BY <1>2, <1>6, <2>2, <3>1
    <3> QED
      BY <1>3, <1>4, <3>1, <3>2 DEF ToSet
  <2> QED
    BY <2>1, <2>2
<1>9. ASSUME NEW x, NEW y
      PROVE  <<x, y>> \in EarlierIn(l) <=> <<x, y>> \in EarlierIn(old) /\ x # m /\ y # m
  <2>0. l \in Seq(Movies) /\ 1..Len(l) = 1..(Len(old) - 1)
    BY <1>3
  <2>1. ASSUME <<x, y>> \in EarlierIn(l) PROVE <<x, y>> \in EarlierIn(old) /\ x # m /\ y # m
    <3>0. \E i, j \in 1..Len(l) : i < j /\ l[i] = x /\ l[j] = y
      BY ONLY <2>0, <2>1, Pairs
    <3>1. PICK i \in 1..(Len(old) - 1), j \in 1..(Len(old) - 1) : i < j /\ l[i] = x /\ l[j] = y
      BY ONLY <2>0, <3>0
    <3>2. at(i) \in 1..Len(old) /\ at(j) \in 1..Len(old) /\ at(i) < at(j) /\ old[at(i)] = x /\ old[at(j)] = y
      BY <1>3, <1>5, <1>7, <3>1
    <3>3. x # m /\ y # m
      BY <1>5, <3>1, <3>2
    <3> QED
      BY <1>1, <3>2, <3>3, Pairs
  <2>2. ASSUME <<x, y>> \in EarlierIn(old), x # m, y # m PROVE <<x, y>> \in EarlierIn(l)
    <3>1. PICK i \in 1..Len(old), j \in 1..Len(old) : i < j /\ old[i] = x /\ old[j] = y
      BY <1>1, <2>2, Pairs
    <3>2. PICK a \in 1..(Len(old) - 1), b \in 1..(Len(old) - 1) : at(a) = i /\ at(b) = j
      BY <1>2, <1>6, <2>2, <3>1
    <3>3. a < b /\ l[a] = x /\ l[b] = y
      BY <1>3, <1>7, <3>1, <3>2
    <3>4. \E c, d \in 1..Len(l) : c < d /\ l[c] = x /\ l[d] = y
      BY ONLY <2>0, <3>2, <3>3
    <3> QED
      BY ONLY <2>0, <3>4, Pairs
  <2> QED
    BY <2>1, <2>2
<1>10. EarlierIn(l) = {p \in EarlierIn(old) : p[1] # m /\ p[2] # m}
  <2>1. EarlierIn(l) \subseteq ToSet(l) \X ToSet(l) /\ EarlierIn(old) \subseteq ToSet(old) \X ToSet(old)
    BY DEF EarlierIn
  <2> QED
    BY <1>9, <2>1
<1> QED
  BY <1>1, <1>2, <1>8, <1>10 DEF l

\* The variables of FavoriteLists, as the tables hold them.
listMembers == [a \in Accounts |-> ToSet(favorites[a])]
listBefore == [a \in Accounts |-> EarlierIn(favorites[a])]

\* A transaction on one list is a step of it.
LEMMA WriteImplements ==
    ASSUME ApiSound, NEW a \in Accounts, NEW list \in Becomes(favorites[a]),
           favorites' = [favorites EXCEPT ![a] = list]
    PROVE  AbstractLists!Next
<1> DEFINE old == favorites[a]
<1>1. old \in Fitting /\ favorites \in [Accounts -> Seq(Movies)]
  BY DEF ApiSound, ApiTypeOK, ListsFit
<1>2. /\ listMembers' = [listMembers EXCEPT ![a] = ToSet(list)]
      /\ listBefore' = [listBefore EXCEPT ![a] = EarlierIn(list)]
      /\ listMembers[a] = ToSet(old) /\ listBefore[a] = EarlierIn(old)
  BY <1>1 DEF listMembers, listBefore
<1>3. CASE list \in Grown(old)
  <2>1. PICK N \in SUBSET (Movies \ ToSet(old)) : \E o \in SUBSET (N \X N) : Appends(old, list, N, o)
    BY <1>1, <1>3, GrownAppends
  <2>2. PICK o \in SUBSET (N \X N) : Appends(old, list, N, o)
    BY <2>1
  <2>3. /\ AbstractLists!Orders(o, N)
        /\ Cardinality(listMembers[a] \cup N) <= MaxFavorites
        /\ listMembers' = [listMembers EXCEPT ![a] = listMembers[a] \cup N]
        /\ listBefore' = [listBefore EXCEPT ![a] = listBefore[a] \cup o \cup (listMembers[a] \X N)]
    BY <1>2, <2>2 DEF Appends
  <2>4. N \in SUBSET (Movies \ listMembers[a])
    BY <1>2
  <2>5. \E N1 \in SUBSET (Movies \ listMembers[a]) : \E o1 \in SUBSET (N1 \X N1) :
            /\ AbstractLists!Orders(o1, N1)
            /\ AbstractLists!Cardinality(listMembers[a] \cup N1) <= MaxFavorites
            /\ listMembers' = [listMembers EXCEPT ![a] = listMembers[a] \cup N1]
            /\ listBefore' = [listBefore EXCEPT ![a] =
                                  listBefore[a] \cup o1 \cup (listMembers[a] \X N1)]
    <3> USE <2>4
    <3> WITNESS N \in SUBSET (Movies \ listMembers[a])
    <3> WITNESS o \in SUBSET (N \X N)
    <3> QED
      BY <2>3, SameCardinality
  <2>6. AbstractLists!Extend(a)
    BY ONLY <2>5 DEF AbstractLists!Extend, listMembers, listBefore
  <2> QED
    BY <2>6 DEF AbstractLists!Next
<1>4. CASE list \notin Grown(old)
  <2>1. PICK m \in ToSet(old) : list = Without(old, m)
    BY <1>4 DEF Becomes
  <2>2. /\ m \in Movies
        /\ listMembers' = [listMembers EXCEPT ![a] = listMembers[a] \ {m}]
        /\ listBefore' = [listBefore EXCEPT ![a] = {p \in listBefore[a] : p[1] # m /\ p[2] # m}]
    BY <1>1, <1>2, <2>1, WithoutWithdraws
  <2>3. AbstractLists!Withdraw(a, m)
    BY <2>2 DEF AbstractLists!Withdraw, listMembers, listBefore
  <2> QED
    BY <2>2, <2>3 DEF AbstractLists!Next
<1> QED
  BY <1>3, <1>4

\* Whatever else the server does leaves the lists alone.
LEMMA ApiStepImplements ==
    ASSUME ApiSound, [ApiNext]_apiVars
    PROVE  [AbstractLists!Next]_AbstractLists!listVars
<1>1. ASSUME UNCHANGED favorites PROVE UNCHANGED AbstractLists!listVars
  BY <1>1 DEF AbstractLists!listVars
<1>2. CASE UNCHANGED apiVars
  BY <1>1, <1>2 DEF apiVars
<1>3. CASE Call(Seq(Movies))
  BY <1>1, <1>3, CallArrives
<1>4. ASSUME NEW s \in Slots, Create(s) \/ Merge(s) \/ Write(s) PROVE AbstractLists!Next
  <2>1. PICK stage \in {"create", "merge", "write"}, a \in Accounts, list \in Fitting, more \in SUBSET Accounts :
            list \in Becomes(favorites[a]) /\ Store(s, a, list, more)
    BY <1>4, CreateStores, MergeStores, WriteStores DEF Stores
  <2>2. favorites' = [favorites EXCEPT ![a] = list]
    BY <2>1 DEF Store
  <2> QED
    BY <2>1, <2>2, WriteImplements
<1>5. CASE ApiStep
  <2>1. UNCHANGED favorites \/ \E s \in Slots : Create(s) \/ Merge(s) \/ Write(s)
    BY <1>5 DEF ApiStep, Handle, Break, Answer, Expire, Recognize, RefuseSession, Verify, RefuseCredentials,
                RefuseAccount, ListFull, Revoke, OpenSession, Read
  <2> QED
    BY <1>1, <1>4, <2>1
<1> QED
  BY <1>2, <1>3, <1>5 DEF ApiNext

\* The lists of favourites that exist when the server starts are ordered and within the limit.
LEMMA ListsStart == ASSUME ApiInit PROVE AbstractLists!Init
<1>1. ApiSound
  BY ApiStarts
<1>2. \A a \in Accounts : favorites[a] \in Fitting
  BY <1>1 DEF ApiSound, ListsFit
<1>3. ASSUME NEW l \in Fitting
      PROVE  /\ ToSet(l) \subseteq Movies /\ EarlierIn(l) \subseteq Movies \X Movies
             /\ AbstractLists!Orders(EarlierIn(l), ToSet(l))
             /\ AbstractLists!Cardinality(ToSet(l)) <= MaxFavorites
  <2>1. l \in Seq(Movies) /\ IsInjective(l) /\ Len(l) <= MaxFavorites /\ Len(l) \in Nat /\ MaxFavorites \in Nat
    BY ApiAssumption DEF Fitting
  <2>2. ToSet(l) \subseteq Movies /\ Cardinality(ToSet(l)) <= Len(l) /\ Cardinality(ToSet(l)) \in Nat
    BY <2>1, ElementsBound, FS_CardinalityType
  <2>3. EarlierIn(l) \subseteq ToSet(l) \X ToSet(l)
    BY DEF EarlierIn
  <2>4. AbstractLists!Orders(EarlierIn(l) \cap (ToSet(l) \X ToSet(l)), ToSet(l))
    BY <2>1, ListOrders
  <2>5. EarlierIn(l) \cap (ToSet(l) \X ToSet(l)) = EarlierIn(l)
    BY <2>3
  <2>6. Cardinality(ToSet(l)) <= MaxFavorites
    BY <2>1, <2>2
  <2> QED
    BY <2>2, <2>3, <2>4, <2>5, <2>6, SameCardinality
<1> QED
  BY <1>2, <1>3 DEF AbstractLists!Init

\* Under any clients each route's transactions are steps of the ordered lists of FavoriteLists, which
\* PostgresStoreProofs shows the store to implement statement by statement.
THEOREM ApiImplementsLists == ApiSpec => ImplementsLists
<1>1. ApiInit => AbstractLists!Init
  BY ListsStart
<1>2. ApiSound /\ [ApiNext]_apiVars => [AbstractLists!Next]_AbstractLists!listVars
  BY ApiStepImplements
<1> QED
  BY <1>1, <1>2, ServerStaysSound, PTL DEF ApiSpec, ImplementsLists, AbstractLists!Spec
=============================================================================
