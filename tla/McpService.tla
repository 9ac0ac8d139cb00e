----------------------------- MODULE McpService -----------------------------
(***************************************************************************)
(* backend/app/services/mcp_service.py: callers put their tool calls in a  *)
(* queue, one asyncio task owns the tmdb-mcp process and serves them in    *)
(* turn, restarts the process after any failure, and stops on a None in    *)
(* the queue.  A step runs from one suspension ("await") to the next.      *)
(***************************************************************************)
EXTENDS Naturals, Sequences, SequencesExt

CONSTANTS Calls,            \* the tool calls of a behaviour
          Stop,             \* the None that close() puts in the queue
          NoCall

ASSUME StopAssumption == Stop \notin Calls
ASSUME NoCallAssumption == NoCall \notin Calls /\ NoCall # Stop

VARIABLES future,    \* future[c]: what the caller of c awaits
          queue,     \* the asyncio.Queue of the current worker
          worker,    \* where the worker task is
          hand,      \* the call the worker took and has not settled
          process,   \* whether "stack, client" hold a running tmdb-mcp
          closing,   \* "no", "waiting" inside close(), "done" or "raised" after it
          abandoned  \* history: the calls in hand when closing the process raised

vars == <<future, queue, worker, hand, process, closing, abandoned>>

Live == {"waiting", "opening", "calling", "teardown", "stopping"}

TypeOK ==
    /\ future \in [Calls -> {"unborn", "pending", "result", "error", "cancelled"}]
    /\ queue \in Seq(Calls \cup {Stop})
    /\ worker \in Live \cup {"none", "ended", "crashed"}
    /\ hand \in Calls \cup {NoCall}
    /\ process \in BOOLEAN
    /\ closing \in {"no", "waiting", "done", "raised"}
    /\ abandoned \subseteq Calls

Init ==
    /\ future = [c \in Calls |-> "unborn"]
    /\ queue = <<>>
    /\ worker = "none"
    /\ hand = NoCall
    /\ process = FALSE
    /\ closing = "no"
    /\ abandoned = {}

-----------------------------------------------------------------------------
\* "if not future.done()": a cancelled caller is left alone.
SettleAlways(c, outcome) == [future EXCEPT ![c] = outcome]
SettleEverybody(c, outcome) == [d \in Calls |-> IF future[d] = "pending" THEN outcome ELSE future[d]]
SettleResultsOnly(c, outcome) ==
    [future EXCEPT ![c] = IF @ = "pending" /\ outcome = "result" THEN outcome ELSE @]
Settle(c, outcome) == [future EXCEPT ![c] = IF @ = "pending" THEN outcome ELSE @]

\* "self._worker is not None and not self._worker.done()"
AlwaysStarted == TRUE
Started == worker # "none"
Running == worker \in Live

\* call_tool up to "await future": nothing in _ensure_worker and put suspends.
\* The application calls no tool after its shutdown (main.py, lifespan).
CallTool(c) ==
    /\ future[c] = "unborn" /\ closing = "no"
    /\ future' = [future EXCEPT ![c] = "pending"]
    /\ IF Running
       THEN queue' = Append(queue, c) /\ UNCHANGED worker
       ELSE queue' = <<c>> /\ worker' = "waiting"
    /\ UNCHANGED <<hand, process, closing, abandoned>>

\* The task that awaits the future is cancelled.
Cancel(c) ==
    /\ future[c] = "pending"
    /\ future' = [future EXCEPT ![c] = "cancelled"]
    /\ UNCHANGED <<queue, worker, hand, process, closing, abandoned>>

\* "if call is None: break"
StopUnseen(item) == TRUE
IsCall(item) == item # Stop

Take ==
    /\ worker = "waiting" /\ queue # <<>> /\ IsCall(Head(queue))
    /\ hand' = Head(queue)
    /\ queue' = Tail(queue)
    /\ worker' = IF process THEN "calling" ELSE "opening"
    /\ UNCHANGED <<future, process, closing, abandoned>>

\* _open_client, for which the code sets no time limit.
OpenSucceeds ==
    /\ worker = "opening"
    /\ process' = TRUE
    /\ worker' = "calling"
    /\ UNCHANGED <<future, queue, hand, closing, abandoned>>

\* The worker's hand is settled and it goes back to "await queue.get()".
Serve(outcome) ==
    /\ future' = Settle(hand, outcome)
    /\ hand' = NoCall
    /\ worker' = "waiting"

OpenFails ==
    /\ worker = "opening"
    /\ Serve("error")
    /\ UNCHANGED <<queue, process, closing, abandoned>>

Answer ==
    /\ worker = "calling"
    /\ Serve("result")
    /\ UNCHANGED <<queue, process, closing, abandoned>>

\* The timeout of wait_for, an exception of the client, or an unusable answer.
CallFails ==
    /\ worker = "calling"
    /\ worker' = "teardown"
    /\ UNCHANGED <<future, queue, hand, process, closing, abandoned>>

Teardown ==
    /\ worker = "teardown"
    /\ process' = FALSE
    /\ Serve("error")
    /\ UNCHANGED <<queue, closing, abandoned>>

\* The rest of "finally", which does not suspend: every queued call gets an error.
DrainNothing(f) == f
Drain(f) == [c \in Calls |-> IF c \in ToSet(queue) /\ f[c] = "pending" THEN "error" ELSE f[c]]

End(how) ==
    /\ future' = Drain(future)
    /\ queue' = <<>>
    /\ worker' = how

\* aclose() raises in the except clause: the exception leaves the loop before the future in
\* hand is settled; the stack is empty by then, so "finally" drains the queue at once.
TeardownRaises ==
    /\ worker = "teardown"
    /\ abandoned' = abandoned \cup {hand}
    /\ process' = FALSE
    /\ hand' = NoCall
    /\ End("crashed")
    /\ UNCHANGED closing

\* "if stack is not None" in "finally"
LeaveRunning == FALSE
MustClose == process

TakeStop ==
    /\ worker = "waiting" /\ queue # <<>> /\ Head(queue) = Stop
    /\ IF MustClose
       THEN queue' = Tail(queue) /\ worker' = "stopping" /\ UNCHANGED future
       ELSE End("ended")
    /\ UNCHANGED <<hand, process, closing, abandoned>>

FinalClose ==
    /\ worker = "stopping"
    /\ process' = FALSE
    /\ End("ended")
    /\ UNCHANGED <<hand, closing, abandoned>>

\* aclose() raises in "finally": the queue is not drained.  (The process is taken to be gone.)
FinalCloseRaises ==
    /\ worker = "stopping"
    /\ process' = FALSE
    /\ worker' = "crashed"
    /\ UNCHANGED <<future, queue, hand, closing, abandoned>>

\* close(), called once by the lifespan of the application.
Close ==
    /\ closing = "no"
    /\ closing' = IF Started THEN "waiting" ELSE "done"
    /\ queue' = IF Started THEN Append(queue, Stop) ELSE queue
    /\ UNCHANGED <<future, worker, hand, process, abandoned>>

\* "await worker" raises what ended the worker.
CloseReturns ==
    /\ closing = "waiting" /\ worker \in {"ended", "crashed"}
    /\ closing' = IF worker = "crashed" THEN "raised" ELSE "done"
    /\ UNCHANGED <<future, queue, worker, hand, process, abandoned>>

-----------------------------------------------------------------------------
Open == OpenSucceeds \/ OpenFails
Exchange == Answer \/ CallFails
Stopping == TakeStop \/ FinalClose \/ FinalCloseRaises
Tidy == Teardown \/ TeardownRaises

Next ==
    \/ \E c \in Calls : CallTool(c) \/ Cancel(c)
    \/ Take \/ Open \/ Exchange \/ Tidy \/ Stopping
    \/ Close \/ CloseReturns

Spec == Init /\ [][Next]_vars

\* The event loop runs the worker whenever it is ready; wait_for ends every exchange.
LoopFairness ==
    WF_vars(Take) /\ WF_vars(Exchange) /\ WF_vars(Tidy) /\ WF_vars(Stopping) /\ WF_vars(CloseReturns)

\* Starting tmdb-mcp is assumed to end in some way: unlike a call, it has no time limit.
FairSpec == Spec /\ LoopFairness /\ WF_vars(Open)

-----------------------------------------------------------------------------
\* A caller never waits for nobody: while its future is open, its call is in the hand of a
\* live worker or in the queue that worker will read or drain, through failures, restarts of
\* the process and of the worker, and shutdown.  Only the call in hand when aclose() raised is
\* given up; a later call gets a worker of its own, never the queue of the dead one.
Served(c) ==
    /\ worker \in Live
    /\ c \in ToSet(queue) \/ (c = hand /\ worker \in {"opening", "calling", "teardown"})
NoCallStranded == \A c \in Calls \ abandoned : future[c] = "pending" => Served(c)

\* A failure concerns the call in hand only; the queued calls of others survive the restart of
\* the process, and get an error only when the service is closed, or in the very step in which
\* aclose() raises and the worker dies.
Crash == worker = "teardown" /\ worker' = "crashed"
FailuresStayPrivate ==
    [][\A c \in Calls : future[c] = "pending" /\ future'[c] = "error" =>
            c = hand \/ closing # "no" \/ Crash]_vars

\* Who has given up, or has an answer, is never answered again: set_result on a finished
\* future would raise in the worker and end it.
AnswersAreFinal ==
    [][\A c \in Calls : future[c] \in {"result", "error", "cancelled"} => future'[c] = future[c]]_vars

\* When close() has returned to the lifespan, no tmdb-mcp process is left behind.
NoProcessAfterClose == closing = "done" => ~process

\* Even when closing the process raises, no queued call is dropped without an answer before
\* the application shuts down.
QueueNotForgotten ==
    [][\A c \in Calls : closing = "no" /\ c \in ToSet(queue) /\ future[c] = "pending" =>
            c \in ToSet(queue') \/ c = hand' \/ future'[c] # "pending"]_vars

\* Why no call is stranded: the worker has a call in hand exactly while it works on one, runs
\* tmdb-mcp only while it is alive and leaves its queue empty; Stop comes with close() and is
\* the last in the queue, so that nobody is queued behind it when the final aclose() raises.
Sound ==
    /\ hand # NoCall <=> worker \in {"opening", "calling", "teardown"}
    /\ worker \notin Live => ~process
    /\ Stop \in ToSet(queue) \/ worker = "stopping" => closing # "no"
    /\ closing = "no" /\ worker \notin Live => queue = <<>>
    /\ \A i \in 1..Len(queue) : queue[i] = Stop => i = Len(queue)
    /\ worker = "stopping" => queue = <<>>
    /\ closing \in {"done", "raised"} => worker \notin Live
    /\ NoCallStranded

\* Every caller gets an answer, whatever fails; or all do but the abandoned; and shutdown does
\* not hang: close() returns or raises.
EveryCallEnds == \A c \in Calls : future[c] = "pending" ~> future[c] # "pending"
CallsEndUnlessAbandoned ==
    \A c \in Calls : future[c] = "pending" ~> future[c] # "pending" \/ c \in abandoned
CloseCompletes == closing = "waiting" ~> closing # "waiting"

=============================================================================
