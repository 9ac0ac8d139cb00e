----------------------------- MODULE AccountApi -----------------------------
(***************************************************************************)
(* backend/app/api/accounts.py, the session half of auth_service.py and    *)
(* the recommendation route: what the requests of browsers do to accounts, *)
(* sessions and favourites.  A handler is a path of stages, each of them   *)
(* one store transaction; PostgresStore shows that transactions on the     *)
(* same account take effect one after the other.  Requests interleave      *)
(* between stages, and any stage may be the last (database down, process   *)
(* killed).                                                                *)
(***************************************************************************)
EXTENDS Integers, Sequences, SequencesExt

CONSTANTS Slots,          \* bound: requests the server works on at the same time
          Accounts, Movies, Tokens,
          Nobody,         \* no account: a visitor
          NoToken,        \* no session cookie
          MaxFavorites,
          Existing,       \* accounts that exist at the start
          Kept,           \* their favourites
          Earlier         \* tokens issued before the start, which may still open a session

ASSUME ApiAssumption ==
    /\ Nobody \notin Accounts /\ NoToken \notin Tokens
    /\ Existing \subseteq Accounts /\ Earlier \subseteq Tokens
    /\ MaxFavorites \in Nat \ {0}
    /\ Kept \in Seq(Movies) /\ Len(Kept) <= MaxFavorites /\ IsInjective(Kept)

VARIABLES
    registered,   \* accounts in the table users
    favorites,    \* favorites[a]: the list of a, in order
    revision,     \* history: how many transactions have written favorites[a]
    session,      \* session[k]: the account of the token k, Nobody if it opens none
    issued,       \* history: tokens that were generated
    request       \* request[s]: what the server works on

apiVars == <<registered, favorites, revision, session, issued, request>>

Kinds == {"me", "login", "signup", "logout", "favorites", "add", "remove", "recommend"}

\* The stages of each route; those of log-in in the order of the code: "import only after
\* credentials have been verified", then the session.
MergeFirst(kind) ==
    CASE kind = "login"  -> <<"merge", "credentials", "revoke", "open", "read">>
      [] kind = "signup" -> <<"create", "revoke", "open", "read">>
      [] kind = "logout" -> <<"session", "revoke">>
      [] kind \in {"add", "remove"} -> <<"session", "write">>
      [] OTHER -> <<"session", "read">>
Path(kind) ==
    CASE kind = "login"  -> <<"credentials", "merge", "revoke", "open", "read">>
      [] kind = "signup" -> <<"create", "revoke", "open", "read">>
      [] kind = "logout" -> <<"session", "revoke">>
      [] kind \in {"add", "remove"} -> <<"session", "write">>
      [] OTHER -> <<"session", "read">>

\* A request as its handler sees it, with the reply it will get.
Request ==
    [kind : Kinds,
     token : Tokens \cup {NoToken},        \* the cookie it carries
     expected : Accounts \cup {Nobody},    \* X-MovieMatch-User, Nobody without the header
     account : Accounts \cup {Nobody},     \* whose name a log-in or sign-up gives
     ids : Seq(Movies),                    \* favorite_ids of the body, or the movie of the path
     todo : Seq({"credentials", "create", "merge", "revoke", "open", "session", "write", "read"}),
     user : Accounts \cup {Nobody},        \* the account the handler found
     list : Seq(Movies),                   \* favorite_ids of the reply
     asOf : Nat,                           \* history: revision of that list
     cookie : Tokens \cup {NoToken},       \* Set-Cookie of the reply
     wrote : BOOLEAN,                      \* history: it changed a list of favourites
     status : {"working", "ok", "401", "409", "error", "idle"}]

Idle == [kind |-> "me", token |-> NoToken, expected |-> Nobody, account |-> Nobody, ids |-> <<>>,
         todo |-> <<>>, user |-> Nobody, list |-> <<>>, asOf |-> 0, cookie |-> NoToken,
         wrote |-> FALSE, status |-> "idle"]

\* With the foreign keys of the schema: sessions and favourites belong to rows of users.
ApiTypeOK ==
    /\ registered \subseteq Accounts
    /\ favorites \in [Accounts -> Seq(Movies)]
    /\ revision \in [Accounts -> Nat]
    /\ \A a \in Accounts \ registered : favorites[a] = <<>>
    /\ session \in [Tokens -> registered \cup {Nobody}]
    /\ issued \subseteq Tokens
    /\ request \in [Slots -> Request]

ApiInit ==
    /\ registered = Existing
    /\ favorites = [a \in Accounts |-> IF a \in Existing THEN Kept ELSE <<>>]
    /\ revision = [a \in Accounts |-> 0]
    /\ session \in {f \in [Tokens -> Existing \cup {Nobody}] : \A k \in Tokens \ Earlier : f[k] = Nobody}
    /\ issued = Earlier
    /\ request = [s \in Slots |-> Idle]

Free(s) == request[s].status # "working"

\* The request of a client reaches the server.
Incoming(kind, token, expected, account, ids) ==
    [Idle EXCEPT !.kind = kind, !.token = token, !.expected = expected, !.account = account,
                 !.ids = ids, !.todo = Path(kind), !.status = "working"]

Arrive(s, q) ==
    /\ Free(s)
    /\ request' = [request EXCEPT ![s] = q]
    /\ UNCHANGED <<registered, favorites, revision, session, issued>>

-----------------------------------------------------------------------------
At(s, stage) ==
    /\ request[s].status = "working"
    /\ request[s].todo # <<>> /\ Head(request[s].todo) = stage

\* The request after a stage: the last one answers it.
Advance(q) ==
    [q EXCEPT !.todo = Tail(@), !.status = IF Len(q.todo) = 1 THEN "ok" ELSE @]
Continue(s, q) == request' = [request EXCEPT ![s] = Advance(q)]
Answer(s, status) ==
    /\ request' = [request EXCEPT ![s] = [@ EXCEPT !.status = status, !.todo = <<>>]]
    /\ UNCHANGED <<registered, favorites, revision, session, issued>>

\* Whose session the cookie is; an expired one has been deleted.
Holder(q) == IF q.token = NoToken THEN Nobody ELSE session[q.token]

\* The check of X-MovieMatch-User, in require_user and in the recommendation route.  It is made
\* without a session too: a tab whose cookie another tab has deleted is refused.
HeaderIgnored(q) == FALSE
WrongTab(q) == q.expected # Nobody /\ q.expected # Holder(q)

NeedsAccount(q) == q.kind \in {"logout", "favorites", "add", "remove"}
Unauthorized(q) == q.kind # "me" /\ (WrongTab(q) \/ (NeedsAccount(q) /\ Holder(q) = Nobody))

Recognize(s) ==
    /\ At(s, "session") /\ ~Unauthorized(request[s])
    /\ Continue(s, [request[s] EXCEPT !.user = Holder(request[s])])
    /\ UNCHANGED <<registered, favorites, revision, session, issued>>

RefuseSession(s) == At(s, "session") /\ Unauthorized(request[s]) /\ Answer(s, "401")

\* find_user and the verification of the password, which may be the wrong one.
Anybody(a) == TRUE
HasAccount(a) == a \in registered

Verify(s) ==
    /\ At(s, "credentials") /\ HasAccount(request[s].account)
    /\ Continue(s, [request[s] EXCEPT !.user = request[s].account])
    /\ UNCHANGED <<registered, favorites, revision, session, issued>>

RefuseCredentials(s) == At(s, "credentials") /\ Answer(s, "401")

\* The transactions of the store, as functions from list to list: what merging leaves after
\* each of the identifiers, and the list without one movie.
MergedWithoutLimit(list, ids) == list \o ids
MergedInFront(list, ids) == SelectSeq(ids, LAMBDA m : m \notin ToSet(list)) \o list
Merged(list, ids) ==
    LET merged[n \in 0..Len(ids)] ==
            IF n = 0 THEN list
            ELSE IF ids[n] \in ToSet(merged[n - 1]) \/ Len(merged[n - 1]) >= MaxFavorites THEN merged[n - 1]
            ELSE Append(merged[n - 1], ids[n])
    IN  merged[Len(ids)]
Without(list, movie) == RemoveFirst(list, movie)

Store(s, a, list, more) ==
    /\ favorites' = [favorites EXCEPT ![a] = list]
    /\ revision' = [revision EXCEPT ![a] = @ + 1]
    /\ Continue(s, [request[s] EXCEPT !.user = a, !.list = list, !.asOf = revision[a] + 1,
                                      !.wrote = list # favorites[a]])
    /\ registered' = registered \cup more
    /\ UNCHANGED <<session, issued>>

TooMany(ids) == Cardinality(ToSet(ids)) > MaxFavorites

Create(s) ==
    LET a == request[s].account
    IN  /\ At(s, "create") /\ a \notin registered /\ ~TooMany(request[s].ids)
        /\ Store(s, a, Merged(<<>>, request[s].ids), {a})

\* create_user refuses a name that is taken, and a list that is too long.
RefuseAccount(s) ==
    /\ At(s, "create")
    /\ request[s].account \in registered \/ TooMany(request[s].ids)
    /\ Answer(s, "409")

Merge(s) ==
    LET a == request[s].account
    IN  At(s, "merge") /\ Store(s, a, Merged(favorites[a], request[s].ids), {})

Fits(s) ==
    LET q == request[s]
    IN  q.kind = "remove" \/ ToSet(q.ids) \subseteq ToSet(favorites[q.user])
            \/ Len(favorites[q.user]) < MaxFavorites

Write(s) ==
    LET q == request[s]  old == favorites[q.user]
    IN  /\ At(s, "write") /\ Fits(s)
        /\ Store(s, q.user, IF q.kind = "add" THEN Merged(old, q.ids) ELSE Without(old, q.ids[1]), {})

ListFull(s) == At(s, "write") /\ ~Fits(s) /\ Answer(s, "409")

\* delete_session of the cookie the request came with.
KeepOldSession(q) == session
Revoked(q) == IF q.token = NoToken THEN session ELSE [session EXCEPT ![q.token] = Nobody]

Revoke(s) ==
    /\ At(s, "revoke")
    /\ session' = Revoked(request[s])
    /\ Continue(s, request[s])
    /\ UNCHANGED <<registered, favorites, revision, issued>>

\* new_session: secrets.token_urlsafe never repeats itself.
Guessed(k) == TRUE
FreshToken(k) == k \notin issued

OpenSession(s) ==
    \E k \in {x \in Tokens : FreshToken(x)} :
        /\ At(s, "open")
        /\ issued' = issued \cup {k}
        /\ session' = [session EXCEPT ![k] = request[s].user]
        /\ Continue(s, [request[s] EXCEPT !.cookie = k])
        /\ UNCHANGED <<registered, favorites, revision>>

\* account_response, the favourites routes, and the recommendation route after its analysis.
Read(s) ==
    LET u == request[s].user
    IN  /\ At(s, "read")
        /\ Continue(s, IF u = Nobody
                       THEN [request[s] EXCEPT !.list = IF request[s].kind = "recommend"
                                                        THEN request[s].ids ELSE <<>>]
                       ELSE [request[s] EXCEPT !.list = favorites[u], !.asOf = revision[u]])
        /\ UNCHANGED <<registered, favorites, revision, session, issued>>

\* A database error (503), an unexpected one (500), too many attempts (429), a killed process.
Break(s) == request[s].status = "working" /\ Answer(s, "error")

\* Time runs out for a session.
Expire(k) ==
    /\ session[k] # Nobody
    /\ session' = [session EXCEPT ![k] = Nobody]
    /\ UNCHANGED <<registered, favorites, revision, issued, request>>

Handle(s) ==
    \/ Recognize(s) \/ RefuseSession(s) \/ Verify(s) \/ RefuseCredentials(s)
    \/ Create(s) \/ RefuseAccount(s) \/ Merge(s) \/ Write(s) \/ ListFull(s)
    \/ Revoke(s) \/ OpenSession(s) \/ Read(s)

ApiStep ==
    \/ \E s \in Slots : Handle(s) \/ Break(s)
    \/ \E k \in Tokens : Expire(k)

-----------------------------------------------------------------------------
\* Any client (a script, a browser of another version, an old tab) sends any kind of request, with
\* any token that was ever issued, any X-MovieMatch-User, and one of the lists in its body.
Bodies(kind, lists) ==
    IF kind \in {"add", "remove"} THEN {<<m>> : m \in Movies}
    ELSE IF kind \in {"login", "signup", "recommend"} THEN lists ELSE {<<>>}
Named(kind) == IF kind \in {"login", "signup"} THEN Accounts ELSE {Nobody}

Call(lists) ==
    \E s \in Slots, kind \in Kinds, token \in issued \cup {NoToken}, expected \in Accounts \cup {Nobody} :
    \E account \in Named(kind), ids \in Bodies(kind, lists) :
        Arrive(s, Incoming(kind, token, expected, account, ids))

\* The server, whatever its clients do; ApiClients bounds them, Website replaces them by tabs.
ApiNext == Call(Seq(Movies)) \/ ApiStep
ApiSpec == ApiInit /\ [][ApiNext]_apiVars

-----------------------------------------------------------------------------
\* No request ever changes the favourites of another account than the one its sender shows
\* (X-MovieMatch-User), and, but for log-in and sign-up, only with a session of that account
\* found when the handling began, whatever sessions were opened or closed meanwhile.
NoForeignWrite ==
    [][\A a \in Accounts : favorites'[a] # favorites[a] =>
          \E s \in Slots :
              LET q == request[s]
              IN  /\ q.status = "working" /\ request'[s] # q
                  /\ IF q.kind \in {"login", "signup"} THEN q.account = a
                     ELSE q.kind \in {"add", "remove"} /\ q.user = a /\ q.expected \in {Nobody, a}]_apiVars

\* A request answered by a refusal has changed no favourites: in particular a log-in merges
\* the visitor's list only after the password was verified (comment in login).
RefusalChangesNothing ==
    \A s \in Slots : request[s].status \in {"401", "409"} => ~request[s].wrote

\* Once a log-in, a sign-up or a log-out has been answered, the token its request carried is
\* dead for good, and nobody can read or write with it.
OldTokenDies ==
    \A s \in Slots :
        LET q == request[s]
        IN  q.status = "ok" /\ q.kind \in {"login", "signup", "logout"} /\ q.token # NoToken =>
                session[q.token] = Nobody

\* A token opens the account it was created for or nothing: two tokens handed out never
\* become the same, and the reply that carries one never speaks of another account.
TokenMatchesReply ==
    \A s \in Slots :
        LET q == request[s]
        IN  q.cookie # NoToken =>
                /\ session[q.cookie] \in {q.user, Nobody}
                /\ \A r \in Slots \ {s} : request[r].cookie # q.cookie

\* A reply lists the favourites of the account the handler found, as they were at one moment,
\* no movie twice and never more than MaxFavorites.
ReplyIsCurrent ==
    \A s \in Slots :
        LET q == request[s]
        IN  q.status = "ok" /\ q.user # Nobody /\ q.kind # "logout" =>
                /\ q.asOf <= revision[q.user]
                /\ Len(q.list) <= MaxFavorites /\ IsInjective(q.list)
                /\ q.asOf = revision[q.user] => q.list = favorites[q.user]

\* Under any requests the accounts have the lists that the store promises (FavoriteLists, which
\* PostgresStore implements statement by statement): each transaction of a route is one of its steps.
EarlierIn(list) ==
    {p \in ToSet(list) \X ToSet(list) :
        \E i, j \in 1..Len(list) : i < j /\ list[i] = p[1] /\ list[j] = p[2]}

AbstractLists == INSTANCE FavoriteLists
                    WITH Ids <- Accounts,
                         members <- [a \in Accounts |-> ToSet(favorites[a])],
                         before <- [a \in Accounts |-> EarlierIn(favorites[a])],
                         gone <- {}

ImplementsLists == AbstractLists!Spec

=============================================================================
