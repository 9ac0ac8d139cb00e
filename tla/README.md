# Verification of MovieMatch

MovieMatch is a web application: a visitor describes the film he wants, Claude turns the
description into an intent, a recommendation service looks for candidates on TMDB through
an MCP process, and the page shows at most seven movies. A visitor keeps a list of at most
twenty favourites in his tab; with an account, the list lives in PostgreSQL and is shared by
all his tabs. This directory holds TLA+ modules that model the program, the TLC
configurations that check them on small instances, and proofs checked by TLAPS.

Paths below are relative to the repository's `src/`; `store` is
`backend/app/services/postgres_account_store.py`.

## 1. Inventory

| Component | State | Operations | Hard behaviours |
|---|---|---|---|
| PostgreSQL store (`store`, `db/schema.sql`) | tables `users`, `sessions`, `favorites`, identity column, row locks | `create_user`, `merge_favorites`, `add_favorite`, `remove_favorite`, `favorite_ids`, `find_user`, `create_session`, `session_user`, `delete_session` | tabs and backend processes interleave statement by statement; connections die; commits are not acknowledged |
| Accounts API (`api/accounts.py`, `services/auth_service.py`, `api/routes.py`) | none of its own: a handler is a path of store transactions; the cookie travels in the request and the reply | sign-up, log-in, log-out, me, list and toggle favourites, recommend | requests interleave between their transactions; a failure between two of them; sessions expire |
| Rate limiter (`auth_service.py`) | a deque of times per client, one lock | `limit_attempts` | clock read before the lock |
| MCP service (`services/mcp_service.py`) | queue, worker task, tmdb-mcp process, futures | `call_tool`, `_run`, `close` | cancelled callers, failing process, shutdown, respawned worker |
| Genre catalogue and analysis (`services/genre_catalog.py`, `services/claude_service.py`) | a cached catalogue under an asyncio lock, a schema built from it | `get`, `analyze`, the resolution of genres by the filter | the first caller fails or is cancelled while others wait; two first analyses build the schema |
| Account hook (`frontend/src/useAccount.js`, `authenticateAccount.js`, `api.js`) | per tab: user, favourites, `busyRef`, `identityVersion`, `requestVersion`; session storage; a cookie jar per browser | `refresh`, `authenticate`, `logout`, `toggleFavorite` | replies late, lost or unreadable; other tabs change the shared cookie; reloads |
| Views (`App.jsx`, `WelcomeSelection.jsx`, `AccountPanel.jsx`) | the search and its results; the cards of favourites, the error beside them, the welcome selection | `submit`, the effect that looks up missing cards, retries, hearts | an answer for an identity or a list the tab has left; an aborted lookup that fails later; an effect that does not run |
| Recommendation service (`services/movie_service.py`) | none: one computation, tool call after tool call | resolve names, find candidates, filter, rank, load, enrich | tools that fail, bounds, the order of filters and sorts |
| Application, configuration, schemas, password rules, deployment | constants | wiring | none of their own |

How they interact. A tab calls the accounts API with the cookie of its browser and, when it
shows an account, the identifier of that account in `X-MovieMatch-User`. A handler runs in
a thread of the pool and opens one transaction per store call. The recommendation route
asks Claude for the intent, whose genres come from the catalogue, reads the favourites of
the account, and calls tools through the single worker of the MCP service. The view of
favourites follows the list of the account hook. The application's lifespan closes the MCP service.

What makes each of them correct:

- **store**: the limit of twenty, unique names, whole transactions, a returned list that is
  the committed one, a list that changes only at its end or by one removal, no circle of waits;
- **accounts API**: a refused log-in or sign-up changes nothing, the old token is dead, a
  reply carries the cookie and list of one account, a request changes only the account it
  was meant for;
- **rate limiter**: ten attempts a minute, no unjustified refusal;
- **MCP service**: every caller is answered once, a failure stays with its call, no process
  is left after shutdown;
- **genre catalogue**: one catalogue for classification and filtering, one search at a time
  that fetches it, no search that waits for ever behind one that failed or was cancelled;
- **account hook**: a tab never shows or changes another account's list than the one it
  names, never goes back to an older list, never loses a visitor's favourites, and becomes
  usable again;
- **views**: a view that loads has a lookup that asks for all that is missing and ends with the
  cards or an error; an aborted lookup shows no error;
- **recommendation**: what is returned satisfies the intent, without duplicates, at most
  seven, those similar to a favourite first, and nothing that fits is lost below the limits.

`PROJECT.json` lists, under `hazards`, each place where one of these could go wrong in a way
a test would hardly reach, with the properties that cover it.

## 2. Modules

| Module | Models | Kind |
|---|---|---|
| `FavoriteLists` | what the store promises about favourites | abstract specification |
| `PostgresStore` | the four writing operations of the store, one action per SQL statement | detailed specification, implements `FavoriteLists` |
| `PostgresStoreProofs` | theorems about `PostgresStore` | proofs |
| `RateLimiter`, `RateLimiterProofs` | `limit_attempts` and time | specification, proofs |
| `McpService` | callers, worker, process, shutdown | specification |
| `SharedCatalogue` | what classification and filtering rely on: one catalogue that never changes | abstract specification |
| `GenreCatalog` | searches that share the catalogue and the schema, and other tool calls, over `McpService` | composition, implements `SharedCatalogue` |
| `GenreCatalogProofs` | theorems about `McpService` and `GenreCatalog` | proofs |
| `AccountApi` | the server: routes as paths of transactions, sessions, tokens; its clients send any request | specification, implements `FavoriteLists` |
| `AccountApiProofs` | theorems about `AccountApi` under any clients | proofs |
| `ApiClients` | the same with a bound on requests, for TLC | bounded instance |
| `Website`, `WebsiteProofs` | `AccountApi` with the tabs of one or more browsers as its clients | composition, implements `AccountApi`; proofs |
| `FavoriteCards`, `FavoriteCardsProofs` | the view of favourites and the welcome selection | specification, proofs |
| `Recommend`, `RecommendProofs` | one recommendation, one action per tool call | specification, proofs |
| `RangeBounds` | the ranges of an intent and the bounds sent to TMDB | operators |
| `ListFacts` | lemmas on lists | proofs |
| `MCPostgresStore`, `MCRateLimiter`, `MCGenreCatalog`, `MCApiClients`, `MCWebsite`, `MCRecommend` | small instances | TLC |

### PostgresStore

One action per statement: `Lock` is `_lock_user` (lines 56-64 of `store`), `Read` is
`_favorite_ids`, `RemoveRow` the DELETE, `InsertUser` the INSERT into `users` (its UNIQUE index
makes the second of two inserts of a name wait), `Insert`, `Skip` and `RefuseAdd` one turn of
the loop over movies, `Commit` the exit of the `with` block, `Abort` any exception in it.
`Visible(w)` is what READ COMMITTED shows a transaction: committed rows and its own writes.
The Python list kept beside the inserts (`ids`) is separate from the rows (`ins`, `del`,
`position`), since the caller is told the former and the database keeps the latter.
`Commit(w, "error")` is a commit whose acknowledgement was lost. `DropAccount` is the deletion
of an account by an operator that `docs/database.md` describes.

### RateLimiter

`ReadClock` takes the clock; `Accept` and `Refuse` are everything under the lock: the pruning of
the table, the `popleft` loop, then the `append` or the refusal. The history `log` keeps every
attempt that was counted. `MaxDelay` bounds how long a thread may stay between the two; `Tick`
cannot pass it.

### McpService, GenreCatalog, SharedCatalogue

The event loop runs one step of one task at a time, so an action is the code from one
`await` to the next. `stack.aclose()` may raise. In the `except` clause of a failed call that kills the
worker (`TeardownRaises`, worker "crashed"), drains the queue, and leaves the call in hand without an
answer; the history variable `abandoned` remembers these calls and is all that `NoCallStranded` and
`CallsEndUnlessAbandoned` except. The next `CallTool` finds no `Running` worker and gets a new one with
a queue of its own. In the final `aclose()` (`FinalCloseRaises`) nothing is drained, which strands
nobody, since Stop is the last item of the queue (`Sound`). `close()` awaits the worker, so it raises
what ended it (`CloseReturns`, closing "raised"). That tmdb-mcp is gone when `aclose()` has raised is
an assumption: the code forgets the process then, and the model with it. `Sound` is the inductive
invariant of `McpService`.

`GenreCatalog` puts the callers in front of that service. A search (`Analyze`) takes the schema
if it is built, or asks for the catalogue: `Get` takes the asyncio lock when it is free and no one
waits, or joins the line; `Acquire` is the head of the line going on; `Enter` calls the tool when
nothing is cached and `Return`s the cache otherwise. `Fetched` is the holder after the tool's
answer, its error or its cancellation: an unusable answer is not kept, and the lock is free
afterwards in each case. `ClaudeAnswers` is validated by the schema of that moment, which another
first analysis may have built anew meanwhile; `Resolve` asks for the catalogue once more, for
the filter. `Abandon` is a search cancelled where it waits for something else than the tool,
`CancelCall` one that waits for the tool, `OtherCall` any other tool call, `Shutdown` the lifespan.
What Claude picks of the genres it was offered is a choice. `SharedCatalogue` is the promise of
the class's docstring, "one validated MCP catalog shared by classification and filtering".

### AccountApi, ApiClients, Website

A request is a record with the token of its cookie, the account of `X-MovieMatch-User`, and
its list or movie. `todo` holds the transactions its handler has left, in order (`Path`); each is
atomic here, which `PostgresStore` justifies (one lock per transaction, and `ImplementsLists`). It
comes in by `Arrive`; a stage either `Continue`s, the last one with the status "ok", or is the
last one with the refusal of `Answer`. Favourites are sequences, so order counts. The lengths that
the request schemas allow are not enforced: clients of the model may send longer lists, which
`create_user` refuses (`TooMany`) and `merge_favorites` cuts (`Merged`). `Break` is any
failure between two transactions. `Expire` ends a session. `Call` is any client: it sends any
request with any issued token, any header and any list, and `ApiSpec` is the server under such
clients. `ApiClients` only counts the requests. `Website` sends what the tabs of the page send, which
`Call` includes (`TabsAreClients`), and its replies wait in the slot until the browser reads them or the connection is lost. A cookie
reaches the jar of the browser when the reply does (`Hear`, and `heard`), before the JavaScript
continues. In a tab, `action`, `refresh` and `search` name the requests whose replies it would still
apply: `action` stands for `busyRef`, `refresh` for the `/auth/me` that carries the current
`requestVersion`, `search` for the search of the current `identityVersion`; a version that moves on
is a slot that is forgotten. When the late reply to a log-out deletes the cookie another tab's log-in has
set (`Hear`), the tab that logged in still shows its account and searches without a cookie; that
`WrongTab` compares the header without a session too is what keeps `SearchIsForAccount` then. A search of an identity that the tab has left is forgotten as well; the
`account.refresh()` it would make on a late 401 (`App.jsx:192`) is one that `Refresh` allows at any time.

### FavoriteCards

Setting a state in React and running the effect of the render that follows are two steps: `changed`
says that a dependency of the effect of `App.jsx:127` changed since it last ran, and `Render` runs it:
it aborts the lookup before (`Abort`) and starts one for the cards that are missing. Lookups are
answered (`LookupAnswered`, `LookupFails`) or were aborted and come back later (`AbortedAnswered`).
Around it: `ShowFavorites`, `LeaveFavorites`, `Retry`, the heart of a card (`ToggleFavorite`, then
`ToggleSucceeds` and `KeepCard`, or `ToggleFails`), what the account hook does to the list meanwhile
(`Focus`, `RefreshReplies`, `RefreshFails`, `ActionFails`, `SwitchAccount`), and the welcome selection
(`SelectionAnswered`, `RetrySelection`, `Continue`). The history `dismissed` says that an error was
cleared by something that changed no dependency.

### Recommend, RangeBounds

`recommend` in the order of its code: `Start`, `ResolveName`, `Resolved`, one of the four sources of
candidates (`FindSimilar`, `FindTitle`, `FindPreferred`, `Discover`), `CrossCheck`, the limit on
candidates (`Shortlist`), `RateCandidates`, `AskFavorite`, `LoadMovie`, `EnrichMovie`, `Respond`. Each
action takes an arbitrary answer of the tool it calls; `ToolFails` is the failure of a call that
nothing catches, and the outage of OMDb that `_get_batch_imdb_ratings` raises. Names, titles
and favourites are counted and not named, since a tool may answer anything to each. Genres,
running time, TMDB rating, actors and directors are one arbitrary verdict per loaded movie
(`meets`); the release year and the IMDb rating are followed in detail, because their ranges are
applied in two places: the year by TMDB and at the end, the rating after the batch and at the
end. `found`, `offered` and `details` are history: the result is compared with them. Keywords, companies
and providers are not among what is loaded of a movie: only `discover_movies` applies them, and what
`MeetsRequired` says of them is that a result was on the page it answered. Required titles are not
looked at when `required.similar_to` is given (lines 282-289 of `movie_service.py`), so nothing is said of them
then.
A list that Python filters, sorts or rids of duplicates is an arrangement of the places of the list:
`Arrange(list, places, order)` takes the elements at `places`, first those that come first in `order`.
`Keep` leaves the order alone, `Deduplicate` keeps the first place of each movie, and `SortDescending`,
Python's stable sort with `reverse=True`, orders the places by key and then by place.

The properties do not repeat the pipeline. `ResultOrder` and `NothingBetterSkipped` compare the
result with one composite order on the candidates, where the code sorts twice and stops
early; `NoneMissed` compares it with what the sources listed before any filter.

## 3. Runs

| Run | Instance | What it shows |
|---|---|---|
| `store` | 2 threads, 2 accounts, 3 movies, limit 2, 3 calls | limit, unique names, returned list, justified refusals, refinement of `FavoriteLists`; every call returns with no timeout firing |
| `mcp` | 3 tasks, an unusable payload and two catalogues of which one holds a genre the other lacks | everyone but a call abandoned by `aclose()` is answered once, a dead worker is replaced, a failure stays with its call, no process is left; one search at a time fetches the catalogue, all are told the same, and every search ends |
| `mcp_stranded` (violation) | 3 calls | when `aclose()` raises, the caller of the call in hand waits for ever |
| `limiter_delayed` | window 3, 2 attempts, delay 1, 2 threads, 2 clients, 4 units of time | how far a delayed thread stretches the limit; no refusal is unjustified |
| `api_clients` | 2 requests, 2 accounts, 3 tokens, 2 movies, limit 2 | properties of the server for any client, and that it implements `FavoriteLists` |
| `tabs` | 2 tabs, each of either of 2 browsers, 5 actions | no tab shows another account's list or goes back to an older one; no search of another account |
| `faults` | 1 tab, 3 actions, lost and unreadable replies, failures, expiry, reloads | a visitor's favourites are never lost and every action ends |
| `visitor_search` (violation) | 2 tabs, 4 actions | a visitor's tab gets an account's recommendations |
| `cards` | 2 movies, 6 events | a view that loads has a lookup for all it misses and ends with cards or an error; an aborted lookup shows no error |
| `cards_loading` (violation) | 2 movies, 2 events | an error cleared by hand leaves a view that loads for ever |
| `recommend` | 4 movies, 5 possible answers, 74 intents, limits 3 and 2, 2 favourites asked | the result meets what is required and was listed by every source asked, in the order meant, and nothing is lost below the limits |
| `recommend_preferences` (violation) | the same | a preferred title that is unknown empties the result |

The four runs that expect a violation are the disagreements with the documentation listed under
`findings`. Type invariants and inductive invariants that TLAPS proves are not repeated in the runs.

Why the bounds are enough. A store conflict needs two transactions on one account; a third
call gives what a later transaction sees of the result of both. With a limit of 2 and lists
of up to three movies, repeated and in either order, every comparison with the limit is
reached on both sides. The limiter's arithmetic compares at most two times and the limit, so
a window of 3 with a delay of 1 has all orders of "younger", "exactly as old" and "older".
Three tasks are the least for one call in hand, one queued, one arriving, and for a search that
fetches the catalogue, one in line and one that joins the line when the first fails or is cancelled.
Two requests are the least for one interleaving; each handler has at most five stages; a limit of 2
with a list of two movies in the order m2, m1 tells a list that grows at its end from one that is
put in front or sorted. The limit is reached and exceeded in `faults` and in `store`, and a visitor
without favourites logs in there and in `tabs`. Two tabs are the least for a stale tab; `MaxActions`
lets one tab log in, the other act, and the first act again. Two movies are the least for a lookup
of one that lacks the other; six events let the user open the view, toggle, leave, come back and
retry while the hook refreshes. A recommendation is a single sequence of calls; with three
candidates kept of four movies and two results, both limits cut, ties occur in both sorts, and the
five answers hold an empty page, a duplicate, an item without an identifier and overlapping lists.
Two titles are the least for an intersection, and three favourites with two asked about the least
for the cut and a failure beside an answer. The intents combine every source with the check against
discovery, and every range of years and ratings with every sort.

The bounds are `MaxCalls` (store), `MaxTime` (limiter), `MaxRequests` and `Lists` (`ApiClients`),
`MaxActions` (`Website`), `MaxEvents` (`FavoriteCards`), `Slots` (requests the server works on at
once), `Answers` and `Requests` (`Recommend`); identifiers and tokens are finite sets that stand for
what uuid4 and `token_urlsafe` never repeat. What is proved holds for every value of them. Deadlock is not
checked because a behaviour stops when its bound is used up, and in `GenreCatalog` and `Recommend`
because every search, the service or the recommendation ends; that nobody waits for
ever is checked by the liveness properties (`EveryCallReturns`, `SearchesEnd`, `CloseCompletes`,
`BusyClears`, `CardsArrive`).

## 4. Fairness

- **PostgresStore**: weak fairness of each thread's own statements (`Work`): the pool gives it a
  thread, PostgreSQL answers. No fairness of `Abort`: `EveryCallReturns` does not lean on
  `lock_timeout`.
- **McpService**, **GenreCatalog**: weak fairness of each step of the event loop, of the end of the
  tool call in hand, which `wait_for` bounds, of each task that is ready (`Acquire`, `Fetched`,
  `Resolve`), and of the end of Claude's answer, which the client's timeout bounds. The end of the
  start of tmdb-mcp is assumed: the code sets no time limit there, and a start that hangs would break
  `CallsEndUnlessAbandoned`, `CloseCompletes` and `SearchesEnd`. Callers, cancellations and shutdown are
  not fair: nobody has to call. A caller that is stranded when `aclose()` raises keeps the lock of
  the catalogue, so `SearchesEnd` excepts the behaviours in which that happens for good.
- **Website**: weak fairness of the server's stages and of the tab's steps that the browser
  takes by itself. A lost connection is a step the browser reports, so the tab hears of
  it.
- **FavoriteCards**: React renders what changed, and every request is answered, by the backend or
  by nginx, whose `proxy_read_timeout` is 90 seconds. The user is not fair.

## 5. Proofs

TLAPS checks every theorem for all values of the constants, under the named assumptions of the
modules.

**PostgresStore.** None of the properties is inductive: that the limit holds depends on the
Python list agreeing with the rows, which depends on nobody else writing the account's rows,
which depends on the row lock. `Consistent` gathers the parts: `LockSound` (who is past
FOR UPDATE owns the row and the account exists), `CreateSound` (a sign-up is alone with its
identifier and, past its INSERT, with its name), `RowsSound` (positions lie below the identity
column), `ListSound` (the Python list lists what the transaction will commit, in
order), `RoomSound` (within the limit). From it: `LimitHolds`, `NamesStayUnique`, `InsertsNeverMeetAKey`,
`TheListIsReturned`. `RefusalsAreJustified` adds that an addition has inserted nothing before it has looked
at its movie (`AddSound`), so that the list it counts is the committed one. The refinement needs also that uncommitted rows come after all
committed ones (`OrderSound`): `StoreImplementsLists` maps `Commit` to `Extend` or `Withdraw`,
`DropAccount` to `Clear`, every other action to a stutter. `FavoriteLists` remembers the accounts that
are `gone`: their lists stay empty, since a transaction that commits has locked an account that exists.
It allows lists from before the start, so that the server, which starts with accounts, implements it too.

**RateLimiter.** `Remembers`: the deque is the end of the history of counted attempts, and what was
dropped is at least `Window - MaxDelay` old. `LimitHolds` and `RefusalsAreJustified` follow, for
any number of threads and clients: the docstring's rolling minute is a minute less the longest
time a thread spends between the clock and the lock.

**McpService** (in `GenreCatalogProofs`). `Sound` says who holds each pending call: the queue, the
worker, or nobody once answered; that a worker that is not alive runs no process and, until the
shutdown, leaves an empty queue, so that the next caller starts afresh; and that Stop is the last in its
queue (`StopIsLast`, kept by `QueueGrows` and `QueueShrinks`). From it `NobodyStranded`,
`ProcessEndsWithClose`, `PrivateFailures`, `FinalAnswers` and `QueuesAreKept`, all of them also when
`aclose()` raises: the only calls given up are the `abandoned` ones, and the run `mcp_stranded` shows
that there can be one.

**GenreCatalog.** `SearchesUseTheService` shows that every behaviour of the searches is one of
`McpService`, so that what is proved of it holds with these callers. `CatalogSound` is inductive: `OneCatalogue`
(the cache, the schema and every prompt are one catalogue, and what Claude used comes from it)
depends on `LineSound` (whoever holds the lock found no catalogue, the others stand in line once
each, and no search waits for the tool without the lock). From it `GenresAreKept` and
`OnlyOneFetches`, and `OneCatalogueForAll`: a search that gets to Claude is a `Tell` of
`SharedCatalogue`, one that ends a `Forget`, every other step a stutter.

**AccountApi.** The theorems are about `ApiSpec`, the server under any clients. `ApiSound` joins the
types, `ListsFit`, `CookiesDiffer` and, of each request, `Sound`: what is left of its path and what the
stages behind it have settled (`Underway`), its tokens are issued and its account registered (`Known`),
past "revoke" the token it came with is dead (`OldIsDead`), its cookie opens its account or nothing
(`OwnCookie`), its list is the one of its revision (`Current`), and it acts for the account of its header
(`Addressed`). A stage moves one request (`OneMoves`), the others being `Undisturbed` as long as issued
tokens only ever lose their account and a list only changes with its revision. `MergedFits` says what
merging leaves, along the function that defines it (`StepByStep` of `ListFacts`, a finite induction by
least elements): the old list, then new movies, none twice, within the limit (`Grown`). From it
`OldTokensDie`, `TokensMatchReplies`, `RepliesAreCurrent`, `OnlyOwnWrites`, `RefusedChangesNothing`.

`ApiImplementsLists` is the refinement: a transaction of a route replaces a list by one that it
`Becomes`, either `Grown` at its end (`GrownAppends`: an `Extend`) or without one movie
(`WithoutWithdraws`: a `Withdraw`); the rest leaves lists alone. With `StoreImplementsLists`, the stages
taken as atomic here and the transactions the store runs statement by statement have one
specification in common.

**Website.** `WebSound` adds to `ApiSound` that no two tabs wait for one request (`Apart`) and, of each
tab, `Shows` (the list of its account at its revision), `Acts`, `Refreshes`, `Searches` (what its requests
ask for, and that nothing it shows has changed since an action was sent) and `InTime` (a reply it
will still apply is not older than what it shows). `InTime` is why replies in any order are harmless: a
list that the tab takes from a favourite action is newer than all before, and the action forgot the
refresh asked earlier. Every step is one of a few kinds, for which lemmas show the invariant once: the
server moves, a tab sends (`Asks`), forgets a request (`Released`) or shows another account
(`ShownAfresh`); `OneTabMoves` leaves the other tabs out. `WhatRemains` says what
`authenticateAccount` keeps of the visitor's list. The theorems (`TabsShowTheirOwn`,
`SearchesAreForTheAccount`, `ListsNeverGoBack`, `VisitorsLoseNothing`) hold with and without faults,
for any number of tabs, browsers and requests. `TabsAreClients` shows that every behaviour of the
website is one of `ApiSpec`: the cookie of a browser is always a token that was issued, which is part of
`WebSound`. So what is proved of the server under any clients holds with these tabs.

**FavoriteCards.** `LoadingIsReal` is inductive together with the types. It speaks of a view whose
effect has nothing left to run (`~changed`): a step that sets `changed` owes nothing (`ToBeRendered`),
`Render` starts a lookup for all that is missing, and a step that clears the error without changing a
dependency is what `dismissed` excludes (`ClearedOnly`), which the run `cards_loading` shows to be needed.
`ErrorsStayCurrent`: an aborted lookup that fails later shows no error.

**Recommend** (and `RangeBounds`). Nothing in the pipeline is inductive alone: that the results are in
order depends on the order of the candidates that wait, hence on both sorts, hence on what the shortlist
is. `IInv` follows the stages: `NothingYet` (what is still empty, and that a request with an unknown name
finds nothing), `Shortlisted` (each movie once, none but those offered, with discovery asked when it has
to be, and every one offered in the required years unless the limit cut), `Ranked` (while the favourites are asked about, the candidates are exactly those in range, by
rating if asked for, then as found), `BeingLoaded` (each movie in range waits or is loaded; a loaded one
is a result exactly when it fits; the results come before all that wait, in the composite order) and
`AllLoaded`. It rests on lemmas on lists: `Arranged` (a finite set of places in a strict order can be
counted through, by the number of places before each), then what filtering (`Filtered`), removing
duplicates (`Deduplicated`) and stable sorting (`SortedByKey`) leave and in which order. The first sort
leaves the order of ratings and places (`RatedOrder`), the second keeps it inside each half
(`SimilarOrder`). From `IInv`: `ResultsMeetRequired`, `ResultsInOrder`, `NothingBetterIsSkipped`,
`NothingFittingIsLost`, for any number of movies, answers, intents and any limits.

`IntegerBoundsExact`: for every range and value the inclusive bounds sent to TMDB accept what the final
filter accepts, so that the discovery hides no year or running time; the proof goes bound by bound,
strict or not. `RatingBoundsHideNothing`: the bounds of the TMDB rating, sent without their strictness,
are only weaker. Ratings are integers (tenths).

Every safety property of the passing runs is proved. Only model-checked: the liveness properties
(`EveryCallReturns`, `CallsEndUnlessAbandoned`, `CloseCompletes`, `SearchesEnd`, `BusyClears`,
`CardsArrive`), since fairness and ENABLED are beyond the prover, and the counterexamples of the four
runs that expect a violation.

## 6. Not modelled, and why

- The CSRF checks of `protected_action`, password rules and hashing, the normalisation of
  user names, the limits on the length of messages and lists: tests on one string or one header
  each, with no state.
- `account_store.py`, the in-memory store: only tests use it, one thread at a time.
- Session storage that throws; the page that breaks after an unreadable reply to a toggle (the
  user reloads, which is modelled); messages, layout and the form of `AccountPanel.jsx`.
- Application wiring, configuration, deployment: no state of their own. The lifespan's
  `close()` is `Shutdown`; the exception handlers are `Break` in `AccountApi`.
- Claude and TMDB: remote services, whose answers are choices.
- `lookup_movies` and `random_movies`: a loop of the calls that `Recommend` models, without filter,
  and one call with a random choice. Their answers are in `FavoriteCards`. The contents of a card
  (providers, trailer, cast) are left out of `EnrichMovie`: no decision depends on them.
- The time a recommendation takes in all: no model counts seconds. `SearchesEnd` and
  `CallsEndUnlessAbandoned` show that each call ends.

## 7. Plan

Order: what can lose or mix data first, then what can hang, then what can be wrong.

1. Store, limiter, MCP service, API, clients, website: modelled, checked and proved.
2. Genre catalogue over the MCP service: modelled, checked, proved, with its abstract
   specification.
3. `FavoriteCards`: modelled, checked, proved.
4. `Recommend` and `RangeBounds`: modelled, checked, proved.
5. The server implements the abstract lists, the website the server under any clients: proved. Deleted
   accounts stay empty: in the abstract specification and proved of the store.
6. Left: a property for the outage of OMDb that `_get_batch_imdb_ratings` reports only when all of a
   batch failed; an abstract specification of sessions that `AccountApi` implements.
