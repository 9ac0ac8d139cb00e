--------------------------- MODULE GenreCatalog ----------------------------
(***************************************************************************)
(* Searches that share the catalogue of genres and the schema built from   *)
(* it (genre_catalog.py, claude_service.py), over the MCP service: each    *)
(* search is a task that asks for the catalogue at most twice and calls    *)
(* the tool at most once, under the call of McpService with its own name.  *)
(* A task may instead be any other single tool call.                       *)
(***************************************************************************)
EXTENDS McpService

CONSTANTS Payloads,    \* the sets of genre names the tool may answer; {} is an unusable answer
          NoGenres,    \* the None of _genres and of _intent_model
          NoTask

Catalogues == Payloads \ {{}}

ASSUME NoGenresAssumption == NoGenres \notin Payloads
ASSUME NoTaskAssumption == NoTask \notin Calls

VARIABLES genres,         \* GenreCatalog._genres
          holder,         \* the task in GenreCatalog._lock, or NoTask
          waiters,        \* the tasks that wait for it, in order (asyncio.Lock is fair)
          intentModel,    \* ClaudeService._intent_model: the catalogue it was built from
          stage,          \* where each task is
          offered,        \* offered[r]: the names Claude may use for r
          named           \* named[r]: those it used

cacheVars == <<genres, holder, waiters>>
taskVars == <<stage, offered, named>>
searchVars == <<vars, cacheVars, intentModel, taskVars>>

Getting == {"analysing", "resolving"}            \* inside GenreCatalog.get, for analyze or for the filter
Busy == Getting \cup {"asking", "intent"}
Over == {"found", "unresolved", "rejected", "failed", "cancelled"}

CatalogTypeOK ==
    /\ genres \in Catalogues \cup {NoGenres}
    /\ holder \in Calls \cup {NoTask}
    /\ waiters \in Seq(Calls)
    /\ intentModel \in Catalogues \cup {NoGenres}
    /\ stage \in [Calls -> Busy \cup Over \cup {"new", "tool"}]
    /\ offered \in [Calls -> Catalogues \cup {NoGenres}]
    /\ named \in [Calls -> SUBSET UNION Payloads]

CatalogInit ==
    /\ Init
    /\ genres = NoGenres /\ holder = NoTask /\ waiters = <<>>
    /\ intentModel = NoGenres
    /\ stage = [r \in Calls |-> "new"]
    /\ offered = [r \in Calls |-> NoGenres]
    /\ named = [r \in Calls |-> {}]

-----------------------------------------------------------------------------
Finish(r, outcome) ==
    /\ stage' = [stage EXCEPT ![r] = outcome]
    /\ offered' = [offered EXCEPT ![r] = NoGenres]
    /\ named' = [named EXCEPT ![r] = {}]

\* messages.parse with the prompt and the schema of a catalogue.
Parse(r, catalog) ==
    /\ stage' = [stage EXCEPT ![r] = "asking"]
    /\ offered' = [offered EXCEPT ![r] = catalog]
    /\ UNCHANGED named

\* What follows "await self._genres.get()": analyze builds its model anew, also when another
\* analysis did so meanwhile; the filter looks up each name.
Return(r, caller, catalog) ==
    IF caller = "analysing"
    THEN intentModel' = catalog /\ Parse(r, catalog)
    ELSE Finish(r, IF named[r] \subseteq catalog THEN "found" ELSE "unresolved") /\ UNCHANGED intentModel

\* get() once it has the lock: it keeps it only to await the tool.
AlwaysMissing == TRUE
Missing == genres = NoGenres

Enter(r, caller) ==
    IF Missing
    THEN /\ CallTool(r)
         /\ holder' = r
         /\ stage' = [stage EXCEPT ![r] = caller]
         /\ UNCHANGED <<genres, intentModel, offered, named>>
    ELSE Return(r, caller, genres) /\ UNCHANGED <<vars, genres, holder>>

\* "async with self._lock"
NeverLocked == TRUE
LockIsFree == holder = NoTask /\ waiters = <<>>

Get(r, caller) ==
    IF LockIsFree
    THEN Enter(r, caller) /\ UNCHANGED waiters
    ELSE /\ waiters' = Append(waiters, r)
         /\ stage' = [stage EXCEPT ![r] = caller]
         /\ UNCHANGED <<vars, genres, holder, intentModel, offered, named>>

Acquire(r) ==
    /\ holder = NoTask /\ waiters # <<>> /\ r = Head(waiters)
    /\ waiters' = Tail(waiters)
    /\ Enter(r, stage[r])

\* The task of the lock's holder goes on: with a payload, the tool's error or its cancellation.
AnyPayload(payload) == TRUE
Valid(payload) == payload # {}

KeepPayload(r, payload) ==
    IF Valid(payload)
    THEN genres' = payload /\ Return(r, stage[r], payload)
    ELSE Finish(r, "failed") /\ UNCHANGED <<genres, intentModel>>

Fetched(r) ==
    /\ holder = r /\ stage[r] \in Getting /\ future[r] # "pending"
    /\ holder' = NoTask
    /\ \/ future[r] = "result" /\ \E payload \in Payloads : KeepPayload(r, payload)
       \/ future[r] = "error" /\ Finish(r, "failed") /\ UNCHANGED <<genres, intentModel>>
       \/ future[r] = "cancelled" /\ Finish(r, "cancelled") /\ UNCHANGED <<genres, intentModel>>
    /\ UNCHANGED <<vars, waiters>>

-----------------------------------------------------------------------------
\* analyze up to its first await, and the same when the model is built already.
Analyze(r) ==
    /\ stage[r] = "new" /\ closing = "no"
    /\ IF intentModel = NoGenres
       THEN Get(r, "analysing")
       ELSE Parse(r, intentModel) /\ UNCHANGED <<vars, cacheVars, intentModel>>

\* Claude keeps to the schema it was sent; its answer is validated with the model of that moment.
ClaudeAnswers(r) ==
    /\ stage[r] = "asking"
    /\ \E names \in SUBSET offered[r] :
        IF names = {} THEN Finish(r, "found")
        ELSE IF names \subseteq intentModel
        THEN /\ stage' = [stage EXCEPT ![r] = "intent"]
             /\ named' = [named EXCEPT ![r] = names]
             /\ UNCHANGED offered
        ELSE Finish(r, "rejected")
    /\ UNCHANGED <<vars, cacheVars, intentModel>>

\* The timeout of the client, an error of the service or an unusable answer.
ClaudeFails(r) ==
    /\ stage[r] = "asking"
    /\ Finish(r, "failed")
    /\ UNCHANGED <<vars, cacheVars, intentModel>>

\* recommend resolves the genres, after the favourites of an account were read.
Resolve(r) == stage[r] = "intent" /\ Get(r, "resolving")

\* The task of a search is cancelled where it waits: for the lock, for its turn after the tool
\* has answered, for Claude or for the favourites.
WithoutWaiter(r) == RemoveFirst(waiters, r)
LockKept(r) == holder
LockAfter(r) == IF holder = r THEN NoTask ELSE holder

Abandon(r) ==
    /\ stage[r] \in Busy
    /\ holder = r => future[r] # "pending"
    /\ waiters' = WithoutWaiter(r)
    /\ holder' = LockAfter(r)
    /\ Finish(r, "cancelled")
    /\ UNCHANGED <<vars, genres, intentModel>>

-----------------------------------------------------------------------------
\* Any other tool call of the application, and the cancellation of a caller of the service.
OtherCall(r) ==
    /\ stage[r] = "new" /\ CallTool(r)
    /\ stage' = [stage EXCEPT ![r] = "tool"]
    /\ UNCHANGED <<cacheVars, intentModel, offered, named>>

CancelCall(r) == Cancel(r) /\ UNCHANGED <<cacheVars, intentModel, taskVars>>

\* The lifespan closes the service when no request runs, or those that ran were cancelled.
Shutdown ==
    /\ \A r \in Calls : stage[r] \in Busy => holder = r /\ future[r] = "cancelled"
    /\ Close
    /\ UNCHANGED <<cacheVars, intentModel, taskVars>>

Worker ==
    /\ Take \/ Open \/ Exchange \/ Tidy \/ Stopping \/ CloseReturns
    /\ UNCHANGED <<cacheVars, intentModel, taskVars>>

SearchStep(r) ==
    Analyze(r) \/ Acquire(r) \/ Fetched(r) \/ ClaudeAnswers(r) \/ ClaudeFails(r) \/ Resolve(r)

CatalogNext ==
    \/ \E r \in Calls : SearchStep(r) \/ Abandon(r) \/ OtherCall(r) \/ CancelCall(r)
    \/ Shutdown \/ Worker

CatalogSpec == CatalogInit /\ [][CatalogNext]_searchVars

\* The event loop runs every task that is ready; the client of Claude has a timeout.
SearchFairness(r) ==
    /\ WF_searchVars(Acquire(r)) /\ WF_searchVars(Fetched(r)) /\ WF_searchVars(Resolve(r))
    /\ WF_searchVars(ClaudeAnswers(r) \/ ClaudeFails(r))

FairCatalogSpec ==
    CatalogSpec /\ LoopFairness /\ WF_vars(Open) /\ \A r \in Calls : SearchFairness(r)

-----------------------------------------------------------------------------
\* A genre that Claude was offered is never lost: its answer is not rejected by a model built
\* meanwhile from another catalogue (claude_service.py:94), and the filter finds every name in
\* the catalogue it gets (movie_service.py:198), so that no genre empties the result.
NoGenreLost == \A r \in Calls : stage[r] \notin {"rejected", "unresolved"}

\* However many searches arrive together, wait, fail and are cancelled, one of them at a time asks
\* the tool, and none once a valid catalogue is kept.
Fetching == {r \in Calls : stage[r] \in Getting /\ future[r] = "pending"}
OneFetch ==
    /\ \A r, s \in Fetching : r = s
    /\ genres # NoGenres => Fetching = {}

\* The cache, the schema and the prompts implement one catalogue that never changes.
Shared == INSTANCE SharedCatalogue WITH Searches <- Calls, Nothing <- NoGenres,
                                        shared <- genres, told <- offered
ImplementsCatalogue == Shared!SharedSpec

\* No search waits for ever: not for the lock of one that failed or was cancelled, nor for the
\* tool, nor for Claude; unless a call abandoned by an aclose() that raised keeps the lock for good.
SearchesEnd ==
    \/ <>[](holder \in abandoned)
    \/ \A r \in Calls : stage[r] \in Busy ~> stage[r] \in Over

=============================================================================
