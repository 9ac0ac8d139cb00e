------------------------------ MODULE Website ------------------------------
(***************************************************************************)
(* frontend/src/useAccount.js, with authenticateAccount.js and the search  *)
(* of App.jsx: the tabs of some browsers in front of AccountApi.  The tabs *)
(* of a browser share its session cookie and nothing else.  A step is what *)
(* the JavaScript of a tab does between two awaits; a reply reaches the    *)
(* cookie jar before it reaches the JavaScript, at any time after the      *)
(* server sent it, or never.                                               *)
(***************************************************************************)
EXTENDS AccountApi

CONSTANTS Tabs, Browsers, NoSlot,
          MaxActions,     \* bound: what users do in a behaviour
          Faults          \* whether replies are lost, servers fail, sessions expire, tabs reload

ASSUME WebsiteAssumption ==
    /\ NoSlot \notin Slots
    /\ MaxActions \in Nat /\ Faults \in BOOLEAN

VARIABLES jar,    \* jar[b]: the session cookie of the browser b
          tab,    \* tab[t]: the state of useAccount in the tab t, and of its search
          acted   \* actions of users so far

webVars == <<apiVars, jar, tab, acted>>

Tab ==
    [browser : Browsers,
     user : Accounts \cup {Nobody},     \* user and userRef: null is Nobody
     list : Seq(Movies),                \* favoriteIds, what the tab shows
     owner : Accounts \cup {Nobody},    \* history: whose list that is
     asOf : Nat,                        \* history: which revision of it
     guest : Seq(Movies),               \* guestIds, also in sessionStorage
     ready : BOOLEAN,
     action : Slots \cup {NoSlot},      \* busyRef: the request the tab waits for
     heard : BOOLEAN,                   \* its reply has reached the cookie jar
     refresh : Slots \cup {NoSlot},     \* the /auth/me whose version is requestVersion
     search : Slots \cup {NoSlot}]      \* loading: the search whose version is identityVersion

NewTab(browser, guest) ==
    [browser |-> browser,
     user |-> Nobody, list |-> guest, owner |-> Nobody, asOf |-> 0, guest |-> guest, ready |-> FALSE,
     action |-> NoSlot, heard |-> FALSE, refresh |-> NoSlot, search |-> NoSlot]

Init ==
    /\ ApiInit
    /\ jar \in {f \in [Browsers -> Earlier \cup {NoToken}] :
                    \A b, c \in Browsers : f[b] = f[c] => b = c \/ f[b] = NoToken}
    /\ tab \in {[t \in Tabs |-> NewTab(f[t], <<>>)] : f \in [Tabs -> Browsers]}
    /\ acted = 0

Busy(t) == tab[t].action # NoSlot
Watched(s) == \E t \in Tabs : s \in {tab[t].action, tab[t].refresh, tab[t].search}

Send(t, s, kind, expected, account, ids) ==
    /\ ~Watched(s)
    /\ Arrive(s, Incoming(kind, jar[tab[t].browser], expected, account, ids))
    /\ acted < MaxActions /\ acted' = acted + 1
    /\ UNCHANGED jar

Become(t, new) == tab' = [tab EXCEPT ![t] = new]

-----------------------------------------------------------------------------
\* What a user does.  refresh: when the tab opens, gets the focus, shows the favourites.
MayRefresh(t) == ~Busy(t)

Refresh(t, s) ==
    /\ MayRefresh(t)
    /\ Send(t, s, "me", Nobody, Nobody, <<>>)
    /\ Become(t, [tab[t] EXCEPT !.refresh = s])

\* A new action makes the pending refresh out of date.
StillRefreshing(t, s) == [tab[t] EXCEPT !.action = s, !.heard = FALSE]
Acting(t, s) == [tab[t] EXCEPT !.action = s, !.heard = FALSE, !.refresh = NoSlot]

Able(t) == ~Busy(t) /\ tab[t].ready

Authenticate(t, s, mode, a) ==
    /\ Able(t) /\ tab[t].user = Nobody
    /\ Send(t, s, mode, Nobody, a, tab[t].guest)
    /\ Become(t, Acting(t, s))

Logout(t, s) ==
    /\ Able(t) /\ tab[t].user # Nobody
    /\ Send(t, s, "logout", tab[t].user, Nobody, <<>>)
    /\ Become(t, Acting(t, s))

Listed(t, m) == m \in ToSet(tab[t].list)
MayToggle(t, m) == Able(t) /\ (Listed(t, m) \/ Len(tab[t].list) < MaxFavorites)

ToggleFavorite(t, s, m) ==
    /\ MayToggle(t, m) /\ tab[t].user # Nobody
    /\ Send(t, s, IF Listed(t, m) THEN "remove" ELSE "add", tab[t].user, Nobody, <<m>>)
    /\ Become(t, Acting(t, s))

ToggleGuest(t, m) ==
    LET ids == IF Listed(t, m) THEN Without(tab[t].list, m) ELSE Append(tab[t].list, m)
    IN  /\ MayToggle(t, m) /\ tab[t].user = Nobody
        /\ acted < MaxActions /\ acted' = acted + 1
        /\ Become(t, [tab[t] EXCEPT !.list = ids, !.guest = ids])
        /\ UNCHANGED <<apiVars, jar>>

\* submit in App.jsx
Search(t, s) ==
    /\ Able(t) /\ tab[t].search = NoSlot
    /\ Send(t, s, "recommend", tab[t].user, Nobody, IF tab[t].user = Nobody THEN tab[t].list ELSE <<>>)
    /\ Become(t, [tab[t] EXCEPT !.search = s])

-----------------------------------------------------------------------------
\* Replies.
Done(s) == s # NoSlot /\ request[s].status # "working"
Ok(s) == Done(s) /\ request[s].status = "ok"

\* applyAccount: another user is another identityVersion, and a new MovieApp, which drops the
\* search of the old one.
KeepSearch(t, user) == tab[t].search
SearchAfter(t, user) == IF user = tab[t].user THEN tab[t].search ELSE NoSlot

ShowAccount(t, user, list, asOf, guest) ==
    [tab[t] EXCEPT !.user = user, !.owner = user, !.guest = guest, !.ready = TRUE,
                   !.list = IF user = Nobody THEN guest ELSE list,
                   !.asOf = IF user = Nobody THEN 0 ELSE asOf,
                   !.search = SearchAfter(t, user)]

\* Only the latest refresh is applied, and none that an action has overtaken.
ApplyRefresh(t) ==
    LET q == request[tab[t].refresh]
    IN  /\ Ok(tab[t].refresh)
        /\ Become(t, [ShowAccount(t, q.user, q.list, q.asOf, tab[t].guest) EXCEPT !.refresh = NoSlot])
        /\ UNCHANGED <<apiVars, jar, acted>>

\* The tab offers another try.
RefreshFails(t) ==
    /\ Done(tab[t].refresh) /\ ~Ok(tab[t].refresh)
    /\ Become(t, [tab[t] EXCEPT !.refresh = NoSlot, !.ready = FALSE])
    /\ UNCHANGED <<apiVars, jar, acted>>

\* The browser takes the Set-Cookie of a reply before any code of the tab sees it.
Hear(t) ==
    /\ Ok(tab[t].action) /\ ~tab[t].heard
    /\ request[tab[t].action].kind \in {"login", "signup", "logout"}
    /\ jar' = [jar EXCEPT ![tab[t].browser] = request[tab[t].action].cookie]
    /\ Become(t, [tab[t] EXCEPT !.heard = TRUE])
    /\ UNCHANGED <<apiVars, acted>>

\* authenticateAccount: what the account does not hold stays with the visitor.
NothingRemains(visitorIds, ids) == <<>>
Remaining(visitorIds, ids) ==
    LET kept[n \in 0..Len(visitorIds)] ==
            IF n = 0 THEN <<>>
            ELSE IF visitorIds[n] \in ToSet(ids) THEN kept[n - 1]
            ELSE Append(kept[n - 1], visitorIds[n])
    IN  kept[Len(visitorIds)]

ApplyIdentity(t) ==
    LET q == request[tab[t].action]
        guest == IF q.kind = "logout" THEN tab[t].guest ELSE Remaining(q.ids, q.list)
    IN  /\ Ok(tab[t].action) /\ tab[t].heard
        /\ Become(t, [ShowAccount(t, IF q.kind = "logout" THEN Nobody ELSE q.user, q.list, q.asOf, guest)
                        EXCEPT !.action = NoSlot])
        /\ UNCHANGED <<apiVars, jar, acted>>

ApplyFavorites(t) ==
    LET q == request[tab[t].action]
    IN  /\ Ok(tab[t].action) /\ q.kind \in {"add", "remove"}
        /\ Become(t, [tab[t] EXCEPT !.list = q.list, !.owner = q.user, !.asOf = q.asOf, !.action = NoSlot])
        /\ UNCHANGED <<apiVars, jar, acted>>

\* 401 on a log-out or a favourite: the tab checks the account again (in the same slot).
Rechecks(s) == request[s].status = "401" /\ request[s].kind \in {"logout", "add", "remove"}

Recheck(t) ==
    LET s == tab[t].action
    IN  /\ Done(s) /\ Rechecks(s)
        /\ Arrive(s, Incoming("me", jar[tab[t].browser], Nobody, Nobody, <<>>))
        /\ Become(t, [tab[t] EXCEPT !.action = NoSlot, !.refresh = s])
        /\ UNCHANGED <<jar, acted>>

\* Any other error; the visitor's list stays as it is.
ErrorIgnored(s) == FALSE
Failed(s) == Done(s) /\ ~Ok(s) /\ ~Rechecks(s)

ActionFails(t) ==
    /\ Failed(tab[t].action)
    /\ Become(t, [tab[t] EXCEPT !.action = NoSlot])
    /\ UNCHANGED <<apiVars, jar, acted>>

\* A search is shown, or its error.  After a 401 the account is checked again unless busy; the
\* model lets the next search start without waiting for that check.  A search that was dropped
\* by a change of identity calls account.refresh() on a late 401 too; that call is one that
\* Refresh allows at any time, with the same guard.
SearchEnds(t) ==
    LET s == tab[t].search
    IN  /\ Done(s)
        /\ IF request[s].status = "401" /\ ~Busy(t)
           THEN /\ Arrive(s, Incoming("me", jar[tab[t].browser], Nobody, Nobody, <<>>))
                /\ Become(t, [tab[t] EXCEPT !.search = NoSlot, !.refresh = s])
           ELSE /\ Become(t, [tab[t] EXCEPT !.search = NoSlot])
                /\ UNCHANGED apiVars
        /\ UNCHANGED <<jar, acted>>

-----------------------------------------------------------------------------
\* The connection breaks: fetch raises, while the server may go on.  Or the body of a reply to
\* an authentication cannot be read after its cookie was taken.
LoseAction(t) ==
    /\ Busy(t)
    /\ Become(t, [tab[t] EXCEPT !.action = NoSlot])
    /\ UNCHANGED <<apiVars, jar, acted>>

LoseRefresh(t) ==
    /\ tab[t].refresh # NoSlot
    /\ Become(t, [tab[t] EXCEPT !.refresh = NoSlot, !.ready = FALSE])
    /\ UNCHANGED <<apiVars, jar, acted>>

\* api.js reads an unreadable body as {}: nobody is connected.
UnreadableRefresh(t) ==
    /\ Ok(tab[t].refresh)
    /\ Become(t, [ShowAccount(t, Nobody, <<>>, 0, tab[t].guest) EXCEPT !.refresh = NoSlot])
    /\ UNCHANGED <<apiVars, jar, acted>>

\* The page is loaded again: only sessionStorage survives, and no reply is waited for.
Reload(t) ==
    /\ Become(t, NewTab(tab[t].browser, tab[t].guest))
    /\ UNCHANGED <<apiVars, jar, acted>>

-----------------------------------------------------------------------------
User(t) ==
    \/ \E s \in Slots : Refresh(t, s) \/ Logout(t, s) \/ Search(t, s)
    \/ \E s \in Slots, a \in Accounts, mode \in {"login", "signup"} : Authenticate(t, s, mode, a)
    \/ \E s \in Slots, m \in Movies : ToggleFavorite(t, s, m)
    \/ \E m \in Movies : ToggleGuest(t, m)

Script(t) ==
    \/ ApplyRefresh(t) \/ RefreshFails(t) \/ Hear(t) \/ ApplyIdentity(t) \/ ApplyFavorites(t)
    \/ Recheck(t) \/ ActionFails(t) \/ SearchEnds(t)

Server(s) == Handle(s) /\ UNCHANGED <<jar, tab, acted>>

Misfortune ==
    \/ \E t \in Tabs : LoseAction(t) \/ LoseRefresh(t) \/ UnreadableRefresh(t) \/ Reload(t)
    \/ \E s \in Slots : Break(s) /\ UNCHANGED <<jar, tab, acted>>
    \/ \E k \in Tokens : Expire(k) /\ UNCHANGED <<jar, tab, acted>>

Next ==
    \/ \E t \in Tabs : User(t) \/ Script(t)
    \/ \E s \in Slots : Server(s)
    \/ Faults /\ Misfortune

Spec == Init /\ [][Next]_webVars

\* The server works on every request, and a tab runs the continuation of every reply.
FairSpec ==
    /\ Spec
    /\ \A s \in Slots : WF_webVars(Server(s))
    /\ \A t \in Tabs : WF_webVars(Script(t))

-----------------------------------------------------------------------------
TypeOK ==
    /\ ApiTypeOK
    /\ jar \in [Browsers -> issued \cup {NoToken}]
    /\ tab \in [Tabs -> Tab]
    /\ acted \in 0..MaxActions

\* The favourites a tab shows are those of the account it names, and a visitor sees the list
\* kept in the tab, through log-ins and log-outs in other tabs and replies in any order.
ShownIsOwned ==
    \A t \in Tabs :
        /\ tab[t].owner = tab[t].user
        /\ tab[t].user = Nobody => tab[t].list = tab[t].guest
        /\ tab[t].user # Nobody /\ tab[t].asOf = revision[tab[t].user] =>
              tab[t].list = favorites[tab[t].user]

\* While a tab shows one account, the list it shows never goes back to an older state
\* (requestVersion: replies that were overtaken are ignored).
ListsMoveForward ==
    [][\A t \in Tabs : tab[t].user # Nobody /\ tab'[t].user = tab[t].user =>
            tab'[t].asOf >= tab[t].asOf]_webVars

\* A visitor's favourite goes only by the visitor's own hand or into an account: failed, lost
\* and refused authentications keep it (comment in authenticate, docs/authentication.md).
VisitorFavoritesKept ==
    [][\A t \in Tabs : \A m \in ToSet(tab[t].guest) \ ToSet(tab'[t].guest) :
            \/ tab[t].user = Nobody /\ tab'[t].user = Nobody /\ acted' # acted
            \/ tab'[t].user # Nobody /\ m \in ToSet(tab'[t].list)]_webVars

\* A search result a connected tab may still show was computed for the account it shows
\* (identityVersion, the key of MovieApp, and X-MovieMatch-User in the route).
SearchIsForAccount ==
    \A t \in Tabs :
        tab[t].user # Nobody /\ Ok(tab[t].search) => request[tab[t].search].user = tab[t].user

\* What README.md says of visitors: the search uses the favourites of the tab.
VisitorSearchUsesTab ==
    \A t \in Tabs :
        tab[t].user = Nobody /\ Ok(tab[t].search) => request[tab[t].search].list = request[tab[t].search].ids

\* No tab stays disabled: every action of the user comes to an end.
BusyClears == \A t \in Tabs : Busy(t) ~> ~Busy(t)

=============================================================================
