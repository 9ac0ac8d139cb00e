------------------------- MODULE GenreCatalogProofs ------------------------
(***************************************************************************)
(* Proofs about McpService and GenreCatalog, for any tool calls and any    *)
(* payloads: what the MCP service keeps whatever fails, that the searches  *)
(* use it as McpService says, and that they share one catalogue.           *)
(***************************************************************************)
EXTENDS GenreCatalog, ListFacts

-----------------------------------------------------------------------------
(* The MCP service *)

\* An empty list has no elements.
LEMMA NoElements == ToSet(<<>>) = {}
  BY DEF ToSet

\* The initial state has its types and is sound.
LEMMA InitSound == ASSUME Init PROVE TypeOK /\ Sound
<1>1. TypeOK
  <2>1. <<>> \in Seq(Calls \cup {Stop})
    OBVIOUS
  <2> QED
    BY <2>1 DEF Init, TypeOK, Live
<1>2. Sound
  BY NoElements DEF Init, Sound, NoCallStranded, Live
<1> QED
  BY <1>1, <1>2

\* What "finally" leaves.
LEMMA EndTypes ==
    ASSUME TypeOK, NEW how, End(how)
    PROVE  /\ future' \in [Calls -> {"unborn", "pending", "result", "error", "cancelled"}]
           /\ queue' = <<>> /\ worker' = how
  BY DEF TypeOK, End, Drain

\* The types hold whether or not closing raises.
LEMMA TypeStep == ASSUME TypeOK, Sound, [Next]_vars PROVE TypeOK'
<1> USE DEF TypeOK, Live
<1>1. ASSUME NEW c \in Calls, CallTool(c) \/ Cancel(c) PROVE TypeOK'
  <2>1. Append(queue, c) \in Seq(Calls \cup {Stop}) /\ <<c>> \in Seq(Calls \cup {Stop})
    OBVIOUS
  <2> QED
    BY <1>1, <2>1 DEF CallTool, Cancel
<1>2. CASE Take \/ TakeStop
  <2>1. Head(queue) \in Calls \cup {Stop} /\ Tail(queue) \in Seq(Calls \cup {Stop})
    BY <1>2, ElementsTail DEF IsCall, Take, TakeStop
  <2>2. CASE Take
    BY <2>1, <2>2 DEF IsCall, Take
  <2>3. CASE TakeStop /\ process
    BY <2>1, <2>3 DEF MustClose, TakeStop
  <2>4. CASE TakeStop /\ ~process
    <3>1. End("ended")
      BY <2>4 DEF MustClose, TakeStop
    <3>2. /\ future' \in [Calls -> {"unborn", "pending", "result", "error", "cancelled"}]
          /\ queue' = <<>> /\ worker' = "ended"
      BY <3>1, EndTypes
    <3> QED
      BY <2>4, <3>2 DEF TakeStop
  <2> QED
    BY <1>2, <2>2, <2>3, <2>4
<1>3. CASE OpenFails \/ Answer \/ Teardown
  <2>1. future' \in [Calls -> {"unborn", "pending", "result", "error", "cancelled"}]
    BY <1>3 DEF OpenFails, Answer, Teardown, Serve, Settle
  <2>2. process' \in BOOLEAN /\ abandoned' = abandoned
    BY <1>3 DEF OpenFails, Answer, Teardown
  <2>3. queue' = queue /\ closing' = closing /\ hand' = NoCall /\ worker' = "waiting"
    BY <1>3 DEF OpenFails, Answer, Teardown, Serve
  <2> QED
    BY <2>1, <2>2, <2>3
<1>4. CASE OpenSucceeds \/ CallFails \/ FinalCloseRaises
  BY <1>4 DEF OpenSucceeds, CallFails, FinalCloseRaises
<1>5. CASE TeardownRaises
  <2>1. hand \in Calls
    BY <1>5 DEF TeardownRaises, Sound
  <2>2. /\ future' \in [Calls -> {"unborn", "pending", "result", "error", "cancelled"}]
        /\ queue' = <<>> /\ worker' = "crashed"
    <3>1. End("crashed")
      BY <1>5 DEF TeardownRaises
    <3> QED
      BY <3>1, EndTypes
  <2>3. process' \in BOOLEAN /\ hand' = NoCall /\ closing' = closing /\ abandoned' = abandoned \cup {hand}
    BY <1>5 DEF TeardownRaises
  <2> QED
    BY ONLY TypeOK, <2>1, <2>2, <2>3
<1>6. CASE FinalClose
  <2>1. /\ future' \in [Calls -> {"unborn", "pending", "result", "error", "cancelled"}]
        /\ queue' = <<>> /\ worker' = "ended"
    <3>1. End("ended")
      BY <1>6 DEF FinalClose
    <3> QED
      BY <3>1, EndTypes
  <2>2. process' \in BOOLEAN /\ UNCHANGED <<hand, closing, abandoned>>
    BY <1>6 DEF FinalClose
  <2> QED
    BY ONLY TypeOK, <2>1, <2>2
<1>7. CASE Close \/ CloseReturns
  <2>1. Append(queue, Stop) \in Seq(Calls \cup {Stop})
    OBVIOUS
  <2> QED
    BY <1>7, <2>1 DEF Started, Close, CloseReturns
<1>8. CASE UNCHANGED vars
  BY <1>8 DEF vars
<1> QED
  BY ONLY [Next]_vars, <1>1, <1>2, <1>3, <1>4, <1>5, <1>6, <1>7, <1>8
  DEF Next, Open, Exchange, Tidy, Stopping

\* Stop stays the last in the queue when the queue gets a call before it, or loses its head.
StopIsLast(q) == \A i \in 1..Len(q) : q[i] = Stop => i = Len(q)

LEMMA QueueGrows ==
    ASSUME NEW q \in Seq(Calls \cup {Stop}), Stop \notin ToSet(q), NEW x \in Calls \cup {Stop}
    PROVE  StopIsLast(Append(q, x)) /\ ToSet(Append(q, x)) = ToSet(q) \cup {x}
<1>1. ToSet(Append(q, x)) = ToSet(q) \cup {x}
  BY ElementsAppend
<1>2. \A i \in 1..Len(q) : q[i] # Stop
  BY DEF ToSet
<1> QED
  BY <1>1, <1>2 DEF StopIsLast

LEMMA QueueShrinks ==
    ASSUME NEW q \in Seq(Calls \cup {Stop}), q # <<>>, StopIsLast(q)
    PROVE  /\ StopIsLast(Tail(q)) /\ ToSet(q) = ToSet(Tail(q)) \cup {Head(q)}
           /\ Head(q) \in Calls \cup {Stop} /\ (Head(q) = Stop => Tail(q) = <<>>)
<1>1. /\ Len(q) \in Nat /\ Len(q) > 0 /\ Head(q) = q[1] /\ Len(Tail(q)) = Len(q) - 1
      /\ \A i \in 1..(Len(q) - 1) : Tail(q)[i] = q[i + 1]
  OBVIOUS
<1>2. ToSet(q) = ToSet(Tail(q)) \cup {Head(q)} /\ Head(q) \in Calls \cup {Stop}
          /\ Tail(q) \in Seq(Calls \cup {Stop})
  BY ElementsTail
<1>3. \A i \in 1..Len(q) : q[i] = Stop => i = Len(q)
  BY DEF StopIsLast
<1>4. \A i \in 1..Len(Tail(q)) : Tail(q)[i] = Stop => i = Len(Tail(q))
  <2> TAKE i \in 1..Len(Tail(q))
  <2>1. i \in 1..(Len(q) - 1) /\ i + 1 \in 1..Len(q)
    BY <1>1
  <2> HAVE Tail(q)[i] = Stop
  <2>2. q[i + 1] = Stop
    BY <1>1, <2>1
  <2>3. i + 1 = Len(q)
    BY ONLY <1>3, <2>1, <2>2
  <2> QED
    BY ONLY <1>1, <2>1, <2>3
<1>5. ASSUME Head(q) = Stop PROVE Tail(q) = <<>>
  <2>1. 1 \in 1..Len(q) /\ q[1] = Stop
    BY <1>1, <1>5
  <2>2. Len(q) = 1
    BY ONLY <1>3, <2>1
  <2>3. Len(Tail(q)) = 0
    BY ONLY <1>1, <2>2
  <2>4. Tail(q) \in Seq(Calls \cup {Stop})
    BY <1>2
  <2> QED
    BY ONLY <2>3, <2>4, EmptySeq
<1> QED
  BY <1>2, <1>4, <1>5 DEF StopIsLast

\* No step breaks the bond between open futures and the worker.
LEMMA SoundStep == ASSUME TypeOK, Sound, [Next]_vars PROVE Sound'
<1> DEFINE Items == Calls \cup {Stop}
<1> USE StopAssumption, NoCallAssumption
<1>1. queue \in Seq(Items) /\ hand \in Calls \cup {NoCall} /\ StopIsLast(queue)
  BY DEF TypeOK, Sound, StopIsLast
<1>2. StopIsLast(queue') <=> \A i \in 1..Len(queue') : queue'[i] = Stop => i = Len(queue')
  BY DEF StopIsLast
<1>3. ASSUME NEW c \in Calls, CallTool(c) PROVE Sound'
  <2>1. Stop \notin ToSet(queue)
    BY <1>3 DEF CallTool, Sound
  <2>2. StopIsLast(Append(queue, c)) /\ ToSet(Append(queue, c)) = ToSet(queue) \cup {c}
    BY <1>1, <2>1, QueueGrows
  <2>3. StopIsLast(<<c>>) /\ ToSet(<<c>>) = {c}
    BY DEF StopIsLast, ToSet
  <2>4. CASE worker \in Live
    <3>1. queue' = Append(queue, c) /\ UNCHANGED <<worker, hand, process, closing, abandoned>>
      BY <1>3, <2>4 DEF CallTool, Running
    <3>2. closing = "no" /\ future' = [future EXCEPT ![c] = "pending"]
      BY <1>3 DEF CallTool
    <3>3. NoCallStranded'
      BY <2>2, <2>4, <3>1, <3>2 DEF TypeOK, Sound, NoCallStranded, Served
    <3> QED
      BY <1>2, <2>1, <2>2, <2>4, <3>1, <3>2, <3>3 DEF Sound, Live
  <2>5. CASE worker \notin Live
    <3>1. queue' = <<c>> /\ worker' = "waiting" /\ UNCHANGED <<hand, process, closing, abandoned>>
      BY <1>3, <2>5 DEF CallTool, Running
    <3>2. closing = "no" /\ future' = [future EXCEPT ![c] = "pending"]
      BY <1>3 DEF CallTool
    <3>3. NoCallStranded'
      BY <2>3, <2>5, <3>1, <3>2 DEF TypeOK, Sound, NoCallStranded, Served, Live
    <3> QED
      BY <1>2, <2>3, <2>5, <3>1, <3>2, <3>3 DEF Sound, Live
  <2> QED
    BY <2>4, <2>5
<1>4. ASSUME NEW c \in Calls, Cancel(c) PROVE Sound'
  BY <1>4 DEF Cancel, TypeOK, Sound, NoCallStranded, Served, Live
<1>5. CASE Take
  <2>1. /\ StopIsLast(Tail(queue)) /\ ToSet(queue) = ToSet(Tail(queue)) \cup {Head(queue)}
        /\ Head(queue) \in Calls
    BY <1>1, <1>5, QueueShrinks DEF IsCall, Take
  <2> QED
    BY <1>2, <1>5, <2>1 DEF Take, TypeOK, Sound, NoCallStranded, Served, Live
<1>6. CASE Open \/ Exchange \/ Teardown
  BY <1>6 DEF Open, OpenSucceeds, OpenFails, Exchange, Answer, CallFails, Teardown, Serve, Settle,
              TypeOK, Sound, NoCallStranded, Served, Live
<1>7. CASE TakeStop
  <2>1. Tail(queue) = <<>> /\ ToSet(queue) = {Stop}
    BY <1>1, <1>7, QueueShrinks, NoElements DEF TakeStop
  <2>2. closing # "no" /\ hand = NoCall /\ \A c \in Calls \ abandoned : future[c] # "pending"
    BY <1>7, <2>1 DEF TakeStop, TypeOK, Sound, NoCallStranded, Served
  <2>3. queue' = <<>> /\ UNCHANGED <<hand, process, closing, abandoned>>
    BY <1>7, <2>1 DEF TakeStop, MustClose, End
  <2>4. \A c \in Calls \ abandoned' : future'[c] # "pending"
    BY <1>7, <2>2, <2>3 DEF TakeStop, End, Drain
  <2>5. (worker' = "stopping") \/ (worker' = "ended" /\ ~process)
    BY <1>7 DEF TakeStop, MustClose, End
  <2>6. closing \notin {"done", "raised"}
    BY <1>7 DEF TakeStop, Sound, Live
  <2> QED
    BY <2>2, <2>3, <2>4, <2>5, <2>6, NoElements DEF Sound, NoCallStranded, Live
<1>8. CASE TeardownRaises \/ FinalClose \/ FinalCloseRaises
  <2>1. queue' = <<>> /\ worker' \in {"ended", "crashed"} /\ ~process' /\ closing' = closing /\ hand' = NoCall
    BY <1>8 DEF TeardownRaises, FinalClose, FinalCloseRaises, End, Sound, TypeOK
  <2>2. \A c \in Calls \ abandoned' : future'[c] # "pending"
    <3>1. CASE TeardownRaises
      BY <3>1 DEF TeardownRaises, End, Drain, Sound, NoCallStranded, Served
    <3>2. CASE FinalClose \/ FinalCloseRaises
      BY <3>2, NoElements DEF FinalClose, FinalCloseRaises, End, Drain, Sound, NoCallStranded, Served
    <3> QED
      BY <1>8, <3>1, <3>2
  <2> QED
    BY <2>1, <2>2, NoElements DEF Sound, NoCallStranded, Live
<1>9. CASE Close \/ CloseReturns
  <2>1. CASE Close /\ Started
    <3>1. Stop \notin ToSet(queue)
      BY <2>1 DEF Close, Sound
    <3>2. StopIsLast(Append(queue, Stop)) /\ ToSet(Append(queue, Stop)) = ToSet(queue) \cup {Stop}
      BY <1>1, <3>1, QueueGrows
    <3>3. /\ queue' = Append(queue, Stop) /\ closing' = "waiting" /\ closing = "no"
          /\ UNCHANGED <<future, worker, hand, process, abandoned>>
      BY <2>1 DEF Close
    <3> QED
      BY <1>2, <3>2, <3>3 DEF Sound, NoCallStranded, Served
  <2>2. CASE (Close /\ ~Started) \/ CloseReturns
    BY <2>2 DEF Close, CloseReturns, Started, Sound, NoCallStranded, Served, Live
  <2> QED
    BY <1>9, <2>1, <2>2
<1>10. CASE UNCHANGED vars
  BY <1>10 DEF vars, Sound, NoCallStranded, Served, Live
<1> QED
  BY ONLY [Next]_vars, <1>3, <1>4, <1>5, <1>6, <1>7, <1>8, <1>9, <1>10 DEF Next, Tidy, Stopping

\* The inductive invariant of the service.
LEMMA ServiceStaysSound == Spec => [](TypeOK /\ Sound)
<1>1. Init => TypeOK /\ Sound
  BY InitSound
<1>2. TypeOK /\ Sound /\ [Next]_vars => TypeOK' /\ Sound'
  BY TypeStep, SoundStep
<1> QED
  BY <1>1, <1>2, PTL DEF Spec

\* Every variable keeps its type, whatever fails.
THEOREM TypeCorrect == Spec => []TypeOK
  BY ServiceStaysSound, PTL

\* No caller but the one in hand when closing the process raised ever waits for nobody, even
\* when a dead worker has to be replaced.
THEOREM NobodyStranded == Spec => [](Sound /\ NoCallStranded)
<1>1. Sound => NoCallStranded
  BY DEF Sound
<1> QED
  BY <1>1, ServiceStaysSound, PTL

\* ... and when close() returns no tmdb-mcp process is left behind.
THEOREM ProcessEndsWithClose == Spec => []NoProcessAfterClose
<1>1. Sound => NoProcessAfterClose
  BY DEF Sound, NoProcessAfterClose
<1> QED
  BY <1>1, NobodyStranded, PTL

\* ... and the failure of a call is reported to its own caller only, until shutdown or until the
\* worker dies.
THEOREM PrivateFailures == Spec => FailuresStayPrivate
<1>1. ASSUME TypeOK, Sound, [Next]_vars, NEW c \in Calls, future[c] = "pending",
             future'[c] = "error"
      PROVE  c = hand \/ closing # "no" \/ Crash
  <2>1. ASSUME NEW d \in Calls, CallTool(d) \/ Cancel(d) PROVE FALSE
    BY <1>1, <2>1 DEF CallTool, Cancel, TypeOK
  <2>2. CASE Open \/ Exchange \/ Teardown
    BY <1>1, <2>2 DEF Open, OpenSucceeds, OpenFails, Exchange, Answer, CallFails, Teardown,
                      Serve, Settle, TypeOK
  <2>3. CASE Stopping
    <3>1. TakeStop => Stop \in ToSet(queue)
      BY <1>1, ElementsTail DEF TakeStop, TypeOK
    <3> QED
      BY <1>1, <2>3, <3>1 DEF Stopping, FinalClose, FinalCloseRaises, Sound
  <2>4. CASE Take \/ Close \/ CloseReturns \/ UNCHANGED vars
    BY <1>1, <2>4 DEF Take, Close, CloseReturns, vars
  <2>5. TeardownRaises => Crash
    BY DEF TeardownRaises, End, Crash
  <2> QED
    BY ONLY <1>1, <2>1, <2>2, <2>3, <2>4, <2>5 DEF Next, Tidy
<1>2. Sound /\ TypeOK /\ [Next]_vars =>
        [\A c \in Calls : future[c] = "pending" /\ future'[c] = "error" =>
                              c = hand \/ closing # "no" \/ Crash]_vars
  BY <1>1
<1> QED
  BY <1>2, ServiceStaysSound, PTL DEF Spec, FailuresStayPrivate

\* Whatever fails, nobody's answer is ever replaced, and who gave up is left alone.
THEOREM FinalAnswers == Spec => AnswersAreFinal
<1>1. ASSUME TypeOK, [Next]_vars, NEW c \in Calls,
             future[c] \in {"result", "error", "cancelled"}
      PROVE  future'[c] = future[c]
  <2>1. ASSUME NEW d \in Calls, CallTool(d) \/ Cancel(d) PROVE future'[c] = future[c]
    BY <1>1, <2>1 DEF CallTool, Cancel, TypeOK
  <2>2. CASE OpenFails \/ Answer \/ Teardown
    BY <1>1, <2>2 DEF OpenFails, Answer, Teardown, Serve, Settle, TypeOK
  <2>3. CASE End("ended") \/ End("crashed")
    BY <1>1, <2>3 DEF End, Drain
  <2>4. CASE UNCHANGED future
    BY <2>4
  <2>5. Next \/ UNCHANGED vars
    BY <1>1
  <2>6. Take \/ OpenSucceeds \/ CallFails \/ FinalCloseRaises \/ Close \/ CloseReturns
            \/ UNCHANGED vars => UNCHANGED future
    BY DEF Take, OpenSucceeds, CallFails, FinalCloseRaises, Close, CloseReturns, vars
  <2>7. TakeStop => UNCHANGED future \/ End("ended")
    BY DEF TakeStop
  <2>8. TeardownRaises \/ FinalClose => End("ended") \/ End("crashed")
    BY DEF TeardownRaises, FinalClose
  <2> QED
    BY ONLY <2>1, <2>2, <2>3, <2>4, <2>5, <2>6, <2>7, <2>8
    DEF Next, Open, Exchange, Tidy, Stopping
<1>2. TypeOK /\ [Next]_vars =>
        [\A c \in Calls : future[c] \in {"result", "error", "cancelled"} =>
                              future'[c] = future[c]]_vars
  BY <1>1
<1> QED
  BY <1>2, TypeCorrect, PTL DEF Spec, AnswersAreFinal

\* Even when closing the process raises, a queued call is answered or stays queued until the shutdown.
THEOREM QueuesAreKept == Spec => QueueNotForgotten
<1> DEFINE Kept(c) ==
               closing = "no" /\ c \in ToSet(queue) /\ future[c] = "pending" =>
                   c \in ToSet(queue') \/ c = hand' \/ future'[c] # "pending"
<1>1. ASSUME TypeOK, Sound, [Next]_vars, NEW c \in Calls PROVE Kept(c)
  <2> SUFFICES ASSUME closing = "no", c \in ToSet(queue), future[c] = "pending",
                      c \notin ToSet(queue'), c # hand'
               PROVE  future'[c] # "pending"
    OBVIOUS
  <2>1. queue \in Seq(Calls \cup {Stop})
    BY <1>1 DEF TypeOK
  <2>2. ASSUME NEW d \in Calls, CallTool(d) PROVE FALSE
    <3>1. ToSet(Append(queue, d)) = ToSet(queue) \cup {d}
      BY <2>1, ElementsAppend
    <3> QED
      BY <1>1, <2>2, <3>1, NoElements DEF CallTool, Running, Sound
  <2>3. ~Take
    BY <2>1, ElementsTail DEF Take
  <2>4. ~TakeStop /\ ~FinalClose /\ ~FinalCloseRaises
    <3>1. TakeStop => Stop \in ToSet(queue)
      BY <2>1, ElementsTail DEF TakeStop
    <3> QED
      BY <1>1, <3>1 DEF FinalClose, FinalCloseRaises, Sound
  <2>5. CASE TeardownRaises
    BY <2>5 DEF TeardownRaises, End, Drain
  <2>6. ~Close
    <3>1. ToSet(Append(queue, Stop)) = ToSet(queue) \cup {Stop}
      BY <2>1, ElementsAppend
    <3> QED
      BY <3>1 DEF Close
  <2>7. queue' # queue
    OBVIOUS
  <2>8. Open \/ Exchange \/ Teardown \/ CloseReturns \/ UNCHANGED vars => UNCHANGED queue
    BY DEF Open, OpenSucceeds, OpenFails, Exchange, Answer, CallFails, Teardown, CloseReturns, vars
  <2>9. \A d \in Calls : Cancel(d) => UNCHANGED queue
    BY DEF Cancel
  <2> QED
    BY ONLY <1>1, <2>2, <2>3, <2>4, <2>5, <2>6, <2>7, <2>8, <2>9 DEF Next, Tidy, Stopping
<1>2. TypeOK /\ Sound /\ [Next]_vars => [\A c \in Calls : Kept(c)]_vars
  BY <1>1
<1> HIDE DEF Kept
<1>3. Spec => [][\A c \in Calls : Kept(c)]_vars
  BY <1>2, ServiceStaysSound, PTL DEF Spec
<1> QED
  BY <1>3 DEF QueueNotForgotten, Kept

-----------------------------------------------------------------------------
(* The catalogue and the searches *)

\* The cache, the schema and what every search was told are one catalogue, whose names alone
\* Claude has used.
OneCatalogue ==
    /\ intentModel \in {NoGenres, genres}
    /\ \A r \in Calls : offered[r] \in {NoGenres, genres}
    /\ \A r \in Calls : stage[r] \in {"asking", "intent", "resolving"} =>
            offered[r] # NoGenres /\ intentModel # NoGenres
    /\ \A r \in Calls : stage[r] \in {"intent", "resolving"} => named[r] \subseteq genres
    /\ NoGenreLost

\* Who holds the lock fetches the first catalogue; the others in line wait, each once; and a call
\* is only open for the holder or for a task that is no search.
LineSound ==
    /\ holder # NoTask => genres = NoGenres /\ stage[holder] = "analysing" /\ holder \notin ToSet(waiters)
    /\ IsInjective(waiters)
    /\ \A r \in ToSet(waiters) : stage[r] \in Getting
    /\ \A r \in Calls : future[r] = "pending" => r = holder \/ stage[r] = "tool"

CatalogSound == OneCatalogue /\ LineSound

-----------------------------------------------------------------------------
\* Every step of the composition is a step of the MCP service, or leaves it alone.
LEMMA ServiceStep == ASSUME [CatalogNext]_searchVars PROVE [Next]_vars
<1>1. ASSUME NEW r \in Calls, NEW caller, Enter(r, caller) PROVE CallTool(r) \/ UNCHANGED vars
  BY <1>1 DEF Enter
<1>2. ASSUME NEW r \in Calls, NEW caller, Get(r, caller) PROVE CallTool(r) \/ UNCHANGED vars
  BY <1>1, <1>2 DEF Get
<1>3. ASSUME NEW r \in Calls, SearchStep(r) PROVE CallTool(r) \/ UNCHANGED vars
  <2>1. Acquire(r) => CallTool(r) \/ UNCHANGED vars
    BY <1>1 DEF Acquire
  <2>2. Analyze(r) \/ Resolve(r) => CallTool(r) \/ UNCHANGED vars
    BY <1>2 DEF Analyze, Resolve
  <2>3. Fetched(r) \/ ClaudeAnswers(r) \/ ClaudeFails(r) => UNCHANGED vars
    BY DEF Fetched, ClaudeAnswers, ClaudeFails
  <2> QED
    BY <1>3, <2>1, <2>2, <2>3 DEF SearchStep
<1>4. ASSUME NEW r \in Calls, Abandon(r) \/ OtherCall(r) \/ CancelCall(r) PROVE [Next]_vars
  BY <1>4 DEF Abandon, OtherCall, CancelCall, Next
<1>5. Shutdown \/ Worker \/ UNCHANGED searchVars => [Next]_vars
  BY DEF Shutdown, Worker, Next, searchVars
<1> QED
  BY <1>3, <1>4, <1>5 DEF CatalogNext, Next

\* What the searches leave to the service: no call is opened by the worker, by a caller that gives
\* up or by the shutdown.
LEMMA NoCallOpened ==
    ASSUME TypeOK, Worker \/ Shutdown \/ \E r \in Calls : CancelCall(r), NEW c \in Calls, future'[c] = "pending"
    PROVE  future[c] = "pending"
<1>1. CASE \E r \in Calls : CancelCall(r)
  BY <1>1 DEF CancelCall, Cancel, TypeOK
<1>2. CASE Shutdown
  BY <1>2 DEF Shutdown, Close
<1>3. CASE OpenFails \/ Answer \/ Teardown
  BY <1>3 DEF OpenFails, Answer, Teardown, Serve, Settle, TypeOK
<1>4. CASE End("ended") \/ End("crashed")
  BY <1>4 DEF End, Drain, TypeOK
<1>5. CASE UNCHANGED future
  BY <1>5
<1>6. Worker => OpenFails \/ Answer \/ Teardown \/ End("ended") \/ End("crashed") \/ UNCHANGED future
  BY DEF Worker, Take, Open, OpenSucceeds, Exchange, CallFails, Tidy, TeardownRaises, Stopping, TakeStop,
         FinalClose, FinalCloseRaises, CloseReturns
<1> QED
  BY <1>1, <1>2, <1>3, <1>4, <1>5, <1>6

-----------------------------------------------------------------------------
\* The initial state has its types and is sound.
LEMMA InitCatalogSound == ASSUME CatalogInit PROVE CatalogTypeOK /\ CatalogSound
<1>1. <<>> \in Seq(Calls)
  OBVIOUS
<1>2. CatalogTypeOK
  BY <1>1 DEF CatalogInit, CatalogTypeOK, Busy, Getting, Over
<1>3. OneCatalogue
  BY DEF CatalogInit, OneCatalogue, NoGenreLost
<1>4. LineSound
  BY NoElements DEF CatalogInit, Init, LineSound, IsInjective
<1> QED
  BY <1>2, <1>3, <1>4 DEF CatalogSound

\* A search that is over has no catalogue.
LEMMA FinishStep ==
    ASSUME CatalogTypeOK, OneCatalogue, NEW r \in Calls, NEW outcome \in Over \ {"rejected", "unresolved"},
           Finish(r, outcome), UNCHANGED <<genres, intentModel>>
    PROVE  OneCatalogue'
  BY DEF CatalogTypeOK, OneCatalogue, NoGenreLost, Finish, Over

\* What follows the catalogue keeps it one, when it is the one kept and the first or the same.
LEMMA ReturnStep ==
    ASSUME CatalogTypeOK, OneCatalogue, NEW r \in Calls, NEW caller \in Getting, NEW catalog \in Catalogues,
           genres' = catalog, genres \in {NoGenres, catalog},
           caller = "resolving" => genres # NoGenres /\ named[r] \subseteq genres,
           Return(r, caller, catalog)
    PROVE  /\ OneCatalogue'
           /\ stage'[r] \notin Getting
           /\ \A s \in Calls \ {r} : stage'[s] = stage[s]
<1> USE NoGenresAssumption
<1>1. NoGenres \notin Catalogues
  BY DEF Catalogues
<1>2. CASE caller = "analysing"
  <2>1. /\ intentModel' = catalog /\ named' = named
        /\ stage' = [stage EXCEPT ![r] = "asking"] /\ offered' = [offered EXCEPT ![r] = catalog]
    BY <1>2 DEF Return, Parse
  <2>2. ASSUME NEW s \in Calls, genres = NoGenres PROVE offered[s] = NoGenres
    BY <2>2 DEF OneCatalogue
  <2>3. \A s \in Calls : offered'[s] \in {NoGenres, genres'}
    BY <2>1, <2>2 DEF OneCatalogue, CatalogTypeOK
  <2>4. ASSUME NEW s \in Calls, stage'[s] \in {"asking", "intent", "resolving"}
        PROVE  offered'[s] # NoGenres /\ intentModel' # NoGenres
    BY <1>1, <2>1, <2>4 DEF OneCatalogue, CatalogTypeOK
  <2>5. ASSUME NEW s \in Calls, stage'[s] \in {"intent", "resolving"} PROVE named'[s] \subseteq genres'
    <3>1. s # r /\ stage[s] \in {"intent", "resolving"}
      BY <2>1, <2>5 DEF CatalogTypeOK
    <3>2. named[s] \subseteq genres /\ offered[s] # NoGenres
      BY <3>1 DEF OneCatalogue
    <3> QED
      BY <2>1, <2>2, <3>2
  <2>6. NoGenreLost'
    BY <2>1 DEF OneCatalogue, NoGenreLost, CatalogTypeOK
  <2>7. OneCatalogue'
    BY <2>1, <2>3, <2>4, <2>5, <2>6 DEF OneCatalogue
  <2> QED
    BY <2>1, <2>7 DEF CatalogTypeOK, Getting
<1>3. CASE caller = "resolving"
  <2>1. genres = catalog /\ Finish(r, "found") /\ UNCHANGED <<genres, intentModel>>
    BY <1>3 DEF Return
  <2>2. OneCatalogue'
    BY <2>1, FinishStep DEF Over
  <2> QED
    BY <2>1, <2>2 DEF Finish, CatalogTypeOK, Getting
<1> QED
  BY <1>2, <1>3 DEF Getting

\* Who enters the lock keeps the line sound, whoever waits then.
LEMMA EnterStep ==
    ASSUME TypeOK, CatalogTypeOK, CatalogSound, NEW r \in Calls, NEW caller \in Getting,
           stage[r] # "tool", caller = "resolving" => stage[r] \in {"intent", "resolving"},
           holder = NoTask, Enter(r, caller),
           IsInjective(waiters'), ToSet(waiters') \subseteq ToSet(waiters) \ {r}
    PROVE  CatalogSound'
<1> USE NoGenresAssumption, NoTaskAssumption
<1>1. caller = "resolving" => genres # NoGenres /\ named[r] \subseteq genres
  BY DEF CatalogSound, OneCatalogue
<1>2. ToSet(waiters) \subseteq Calls
  BY ElementsBound DEF CatalogTypeOK
<1>3. CASE genres = NoGenres
  <2>1. /\ holder' = r /\ stage' = [stage EXCEPT ![r] = "analysing"] /\ future' = [future EXCEPT ![r] = "pending"]
        /\ UNCHANGED <<genres, intentModel, offered, named>>
    BY <1>1, <1>3 DEF Enter, Missing, CallTool, Getting
  <2>2. OneCatalogue'
    BY <2>1 DEF CatalogSound, OneCatalogue, NoGenreLost, CatalogTypeOK
  <2>3. LineSound'
    BY <1>2, <1>3, <2>1 DEF CatalogSound, LineSound, CatalogTypeOK, TypeOK, Getting
  <2> QED
    BY <2>2, <2>3 DEF CatalogSound
<1>4. CASE genres # NoGenres
  <2>1. Return(r, caller, genres) /\ UNCHANGED <<future, genres, holder>>
    BY <1>4 DEF Enter, Missing, vars
  <2>2. genres \in Catalogues /\ CatalogTypeOK /\ OneCatalogue
    BY <1>4 DEF CatalogTypeOK, CatalogSound
  <2>3. OneCatalogue' /\ \A s \in Calls \ {r} : stage'[s] = stage[s]
    BY <1>1, <2>1, <2>2, ReturnStep
  <2>4. LineSound'
    BY <1>2, <2>1, <2>3 DEF CatalogSound, LineSound
  <2> QED
    BY <2>3, <2>4 DEF CatalogSound
<1> QED
  BY <1>3, <1>4

\* get() from a task that is not in line yet.
LEMMA GetStep ==
    ASSUME TypeOK, CatalogTypeOK, CatalogSound, NEW r \in Calls, NEW caller \in Getting,
           stage[r] \in {"new", "intent"}, caller = "resolving" => stage[r] = "intent",
           Get(r, caller)
    PROVE  CatalogSound'
<1>1. r \notin ToSet(waiters)
  BY DEF CatalogSound, LineSound, Getting
<1>2. CASE LockIsFree
  BY <1>1, <1>2, EnterStep DEF Get, LockIsFree, CatalogSound, LineSound
<1>3. CASE ~LockIsFree
  <2>1. /\ waiters' = Append(waiters, r) /\ stage' = [stage EXCEPT ![r] = caller]
        /\ UNCHANGED <<future, genres, holder, intentModel, offered, named>>
    BY <1>3 DEF Get, vars
  <2>2. waiters \in Seq(Calls) /\ ToSet(waiters') = ToSet(waiters) \cup {r} /\ ToSet(waiters) \subseteq Calls
    BY <2>1, ElementsAppend, ElementsBound DEF CatalogTypeOK
  <2>3. IsInjective(waiters')
    <3>1. Len(waiters) \in Nat /\ DOMAIN waiters = 1..Len(waiters) /\ DOMAIN waiters' = 1..(Len(waiters) + 1)
            /\ waiters'[Len(waiters) + 1] = r /\ \A k \in 1..Len(waiters) : waiters'[k] = waiters[k]
      BY <2>1, <2>2
    <3>2. \A k \in 1..Len(waiters) : waiters[k] # r
      BY <1>1, <3>1 DEF ToSet
    <3> QED
      BY <3>1, <3>2 DEF CatalogSound, LineSound, IsInjective
  <2>4. OneCatalogue'
    BY <2>1 DEF CatalogSound, OneCatalogue, NoGenreLost, CatalogTypeOK, Getting
  <2>5. LineSound'
    BY <2>1, <2>2, <2>3 DEF CatalogSound, LineSound, CatalogTypeOK, Getting
  <2> QED
    BY <2>4, <2>5 DEF CatalogSound
<1> QED
  BY <1>2, <1>3

\* The task that waited first.
LEMMA AcquireStep ==
    ASSUME TypeOK, CatalogTypeOK, CatalogSound, NEW r \in Calls, Acquire(r)
    PROVE  CatalogSound'
<1>1. /\ waiters \in Seq(Calls) /\ waiters # <<>> /\ r = Head(waiters) /\ waiters' = Tail(waiters)
      /\ holder = NoTask /\ Enter(r, stage[r])
  BY DEF Acquire, CatalogTypeOK
<1>2. Len(waiters) \in Nat /\ Len(waiters) > 0 /\ r = waiters[1] /\ DOMAIN waiters = 1..Len(waiters)
        /\ DOMAIN waiters' = 1..(Len(waiters) - 1)
        /\ \A k \in 1..(Len(waiters) - 1) : waiters'[k] = waiters[k + 1]
  BY <1>1
<1>3. ToSet(waiters) = ToSet(waiters') \cup {r}
  BY <1>1, ElementsTail
<1>4. IsInjective(waiters)
  BY DEF CatalogSound, LineSound
<1>5. IsInjective(waiters') /\ r \notin ToSet(waiters')
  <2>1. \A j, k \in 1..(Len(waiters) - 1) : waiters[j + 1] = waiters[k + 1] => j = k
    BY <1>2, <1>4 DEF IsInjective
  <2>2. \A k \in 1..(Len(waiters) - 1) : waiters[k + 1] # waiters[1]
    BY <1>2, <1>4 DEF IsInjective
  <2>3. IsInjective(waiters')
    BY <1>2, <2>1 DEF IsInjective
  <2>4. r \notin ToSet(waiters')
    BY <1>2, <2>2 DEF ToSet
  <2> QED
    BY <2>3, <2>4
<1>6. stage[r] \in Getting
  BY <1>3 DEF CatalogSound, LineSound
<1>7. stage[r] # "tool"
  BY <1>6 DEF Getting
<1> QED
  BY <1>1, <1>3, <1>5, <1>6, <1>7, EnterStep

\* The answer of the tool, or its error, or the holder's cancellation.
LEMMA FetchedStep ==
    ASSUME TypeOK, CatalogTypeOK, CatalogSound, NEW r \in Calls, Fetched(r)
    PROVE  CatalogSound'
<1> USE NoGenresAssumption, NoTaskAssumption
<1>1. /\ holder = r /\ genres = NoGenres /\ stage[r] = "analysing" /\ r \notin ToSet(waiters)
      /\ holder' = NoTask /\ future[r] # "pending" /\ UNCHANGED <<future, waiters>>
  BY DEF Fetched, CatalogSound, LineSound, vars
<1>2. CASE \E outcome \in {"failed", "cancelled"} : Finish(r, outcome) /\ UNCHANGED <<genres, intentModel>>
  <2>1. OneCatalogue'
    BY <1>2, FinishStep DEF CatalogSound, Over
  <2>2. LineSound'
    BY <1>1, <1>2 DEF CatalogSound, LineSound, Finish, CatalogTypeOK
  <2> QED
    BY <2>1, <2>2 DEF CatalogSound
<1>3. ASSUME NEW payload \in Payloads, Valid(payload), KeepPayload(r, payload) PROVE CatalogSound'
  <2>1. payload \in Catalogues /\ genres' = payload /\ Return(r, "analysing", payload)
    BY <1>1, <1>3 DEF Catalogues, Valid, KeepPayload
  <2>2. OneCatalogue' /\ \A s \in Calls \ {r} : stage'[s] = stage[s]
    BY <1>1, <2>1, ReturnStep DEF CatalogSound, Getting
  <2>3. ToSet(waiters) \subseteq Calls
    BY ElementsBound DEF CatalogTypeOK
  <2>4. LineSound'
    BY <1>1, <2>2, <2>3 DEF CatalogSound, LineSound
  <2> QED
    BY <2>2, <2>4 DEF CatalogSound
<1> QED
  BY <1>2, <1>3 DEF Fetched, KeepPayload

\* Claude answers or fails.
LEMMA ClaudeStep ==
    ASSUME TypeOK, CatalogTypeOK, CatalogSound, NEW r \in Calls, ClaudeAnswers(r) \/ ClaudeFails(r)
    PROVE  CatalogSound'
<1>1. stage[r] = "asking" /\ UNCHANGED <<future, genres, holder, waiters, intentModel>>
  BY DEF ClaudeAnswers, ClaudeFails, vars, cacheVars
<1>2. offered[r] = genres /\ intentModel = genres
  BY <1>1 DEF CatalogSound, OneCatalogue
<1>3. r \notin ToSet(waiters)
  BY <1>1 DEF CatalogSound, LineSound, Getting
<1>4. CASE \E outcome \in {"found", "failed"} : Finish(r, outcome)
  <2>1. OneCatalogue'
    BY <1>1, <1>4, FinishStep DEF CatalogSound, Over
  <2>2. LineSound'
    BY <1>1, <1>3, <1>4 DEF CatalogSound, LineSound, Finish, CatalogTypeOK
  <2> QED
    BY <2>1, <2>2 DEF CatalogSound
<1>5. ASSUME NEW names \in SUBSET genres, stage' = [stage EXCEPT ![r] = "intent"],
             named' = [named EXCEPT ![r] = names], UNCHANGED offered
      PROVE  CatalogSound'
  <2>1. OneCatalogue'
    BY <1>1, <1>5 DEF CatalogSound, OneCatalogue, NoGenreLost, CatalogTypeOK
  <2>2. LineSound'
    BY <1>1, <1>3, <1>5 DEF CatalogSound, LineSound, CatalogTypeOK
  <2> QED
    BY <2>1, <2>2 DEF CatalogSound
<1> QED
  BY <1>2, <1>4, <1>5 DEF ClaudeAnswers, ClaudeFails

\* A task is cancelled where it waits.
LEMMA AbandonStep ==
    ASSUME TypeOK, CatalogTypeOK, CatalogSound, NEW r \in Calls, Abandon(r)
    PROVE  CatalogSound'
<1> USE NoTaskAssumption
<1>1. /\ holder = r => future[r] # "pending"
      /\ waiters' = RemoveFirst(waiters, r) /\ holder' = (IF holder = r THEN NoTask ELSE holder)
      /\ Finish(r, "cancelled") /\ UNCHANGED <<future, genres, intentModel>>
  BY DEF Abandon, WithoutWaiter, LockAfter, vars
<1>2. IsInjective(waiters') /\ ToSet(waiters') \subseteq ToSet(waiters) \ {r}
  BY <1>1, Leaving DEF CatalogTypeOK, CatalogSound, LineSound
<1>3. ToSet(waiters) \subseteq Calls
  BY ElementsBound DEF CatalogTypeOK
<1>4. OneCatalogue'
  BY <1>1, FinishStep DEF CatalogSound, Over
<1>5. stage[r] # "tool" /\ stage' = [stage EXCEPT ![r] = "cancelled"]
  BY <1>1 DEF Abandon, Finish, Busy, Getting
<1>6. LineSound'
  BY <1>1, <1>2, <1>3, <1>5 DEF CatalogSound, LineSound, CatalogTypeOK
<1> QED
  BY <1>4, <1>6 DEF CatalogSound

\* The rest of the application and the service.
LEMMA OtherStep ==
    ASSUME TypeOK, CatalogTypeOK, CatalogSound
    PROVE  /\ Worker \/ Shutdown \/ (\E r \in Calls : CancelCall(r)) => CatalogSound'
           /\ \A r \in Calls : OtherCall(r) => CatalogSound'
<1>1. CASE Worker \/ Shutdown \/ \E r \in Calls : CancelCall(r)
  <2>1. UNCHANGED <<cacheVars, intentModel, taskVars>>
    BY <1>1 DEF Worker, Shutdown, CancelCall
  <2>2. \A c \in Calls : future'[c] = "pending" => future[c] = "pending"
    BY <1>1, NoCallOpened
  <2> QED
    BY <2>1, <2>2 DEF cacheVars, taskVars, CatalogSound, OneCatalogue, NoGenreLost, LineSound
<1>2. ASSUME NEW r \in Calls, OtherCall(r) PROVE CatalogSound'
  <2>1. /\ stage[r] = "new" /\ future' = [future EXCEPT ![r] = "pending"]
        /\ stage' = [stage EXCEPT ![r] = "tool"] /\ UNCHANGED <<cacheVars, intentModel, offered, named>>
    BY <1>2 DEF OtherCall, CallTool
  <2>2. OneCatalogue'
    BY <2>1 DEF cacheVars, CatalogSound, OneCatalogue, NoGenreLost, CatalogTypeOK
  <2>3. LineSound'
    BY <2>1 DEF cacheVars, CatalogSound, LineSound, CatalogTypeOK, TypeOK, Getting
  <2> QED
    BY <2>2, <2>3 DEF CatalogSound
<1> QED
  BY <1>1, <1>2

\* No step makes the searches unsound.
LEMMA CatalogSoundStep ==
    ASSUME TypeOK, CatalogTypeOK, CatalogSound, [CatalogNext]_searchVars
    PROVE  CatalogSound'
<1>1. ASSUME NEW r \in Calls, Analyze(r) PROVE CatalogSound'
  <2>1. CASE intentModel = NoGenres
    BY <1>1, <2>1, GetStep DEF Analyze, Getting
  <2>2. CASE intentModel # NoGenres
    <3>1. /\ stage[r] = "new" /\ Parse(r, intentModel) /\ intentModel = genres
          /\ UNCHANGED <<future, genres, holder, waiters, intentModel>>
      BY <1>1, <2>2 DEF Analyze, vars, cacheVars, CatalogSound, OneCatalogue
    <3>2. r \notin ToSet(waiters)
      BY <3>1 DEF CatalogSound, LineSound, Getting
    <3>3. OneCatalogue'
      BY <2>2, <3>1 DEF CatalogSound, OneCatalogue, NoGenreLost, CatalogTypeOK, Parse
    <3>4. LineSound'
      BY <3>1, <3>2 DEF CatalogSound, LineSound, CatalogTypeOK, Parse
    <3> QED
      BY <3>3, <3>4 DEF CatalogSound
  <2> QED
    BY <2>1, <2>2
<1>2. ASSUME NEW r \in Calls, Resolve(r) PROVE CatalogSound'
  BY <1>2, GetStep DEF Resolve, Getting
<1>3. ASSUME NEW r \in Calls, SearchStep(r) PROVE CatalogSound'
  BY <1>1, <1>2, <1>3, AcquireStep, FetchedStep, ClaudeStep DEF SearchStep
<1>4. ASSUME NEW r \in Calls, Abandon(r) \/ OtherCall(r) \/ CancelCall(r) PROVE CatalogSound'
  BY <1>4, AbandonStep, OtherStep
<1>5. CASE Shutdown \/ Worker
  BY <1>5, OtherStep
<1>6. CASE UNCHANGED searchVars
  BY <1>6 DEF searchVars, vars, cacheVars, taskVars, CatalogSound, OneCatalogue, NoGenreLost, LineSound
<1> QED
  BY ONLY [CatalogNext]_searchVars, <1>3, <1>4, <1>5, <1>6 DEF CatalogNext

-----------------------------------------------------------------------------
\* Finish and Return keep the types of what they set.
LEMMA FinishTypes ==
    ASSUME CatalogTypeOK, NEW r \in Calls, NEW outcome \in Over, Finish(r, outcome)
    PROVE  /\ stage' \in [Calls -> Busy \cup Over \cup {"new", "tool"}]
           /\ offered' \in [Calls -> Catalogues \cup {NoGenres}]
           /\ named' \in [Calls -> SUBSET UNION Payloads]
  BY DEF CatalogTypeOK, Finish

\* The types of a request that returns from a call.
LEMMA ReturnTypes ==
    ASSUME CatalogTypeOK, NEW r \in Calls, NEW caller, NEW catalog \in Catalogues, Return(r, caller, catalog)
    PROVE  /\ stage' \in [Calls -> Busy \cup Over \cup {"new", "tool"}]
           /\ offered' \in [Calls -> Catalogues \cup {NoGenres}]
           /\ named' \in [Calls -> SUBSET UNION Payloads]
           /\ intentModel' \in Catalogues \cup {NoGenres}
<1>1. CASE caller = "analysing"
  BY <1>1 DEF CatalogTypeOK, Return, Parse, Busy
<1>2. CASE caller # "analysing"
  <2>1. intentModel' = intentModel /\ \E outcome \in Over : Finish(r, outcome)
    BY <1>2 DEF Return, Over
  <2> QED
    BY <2>1, FinishTypes DEF CatalogTypeOK
<1> QED
  BY <1>1, <1>2

\* The types of a request that enters a call.
LEMMA EnterTypes ==
    ASSUME CatalogTypeOK, NEW r \in Calls, NEW caller \in Getting, Enter(r, caller), waiters' \in Seq(Calls)
    PROVE  CatalogTypeOK'
<1>1. CASE genres = NoGenres
  BY <1>1 DEF CatalogTypeOK, Enter, Missing, Busy
<1>2. CASE genres # NoGenres
  <2>1. genres \in Catalogues /\ Return(r, caller, genres) /\ UNCHANGED <<genres, holder>>
    BY <1>2 DEF CatalogTypeOK, Enter, Missing
  <2> QED
    BY <2>1, ReturnTypes DEF CatalogTypeOK
<1> QED
  BY <1>1, <1>2

\* The types of a request that asks for the catalogue.
LEMMA GetTypes ==
    ASSUME CatalogTypeOK, NEW r \in Calls, NEW caller \in Getting, Get(r, caller)
    PROVE  CatalogTypeOK'
<1>1. CASE LockIsFree
  BY <1>1, EnterTypes DEF Get, CatalogTypeOK
<1>2. CASE ~LockIsFree
  <2>1. Append(waiters, r) \in Seq(Calls)
    BY DEF CatalogTypeOK
  <2> QED
    BY <1>2, <2>1 DEF CatalogTypeOK, Get, Busy
<1> QED
  BY <1>1, <1>2

\* The types hold, whatever fails.
LEMMA CatalogTypeStep ==
    ASSUME CatalogTypeOK, CatalogSound, [CatalogNext]_searchVars
    PROVE  CatalogTypeOK'
<1>1. ASSUME NEW r \in Calls, Analyze(r) \/ Resolve(r) PROVE CatalogTypeOK'
  <2>1. CASE \E caller \in Getting : Get(r, caller)
    BY <2>1, GetTypes
  <2>2. CASE Parse(r, intentModel) /\ UNCHANGED <<vars, cacheVars, intentModel>>
    BY <2>2 DEF Parse, CatalogTypeOK, cacheVars, Busy
  <2> QED
    BY <1>1, <2>1, <2>2 DEF Analyze, Resolve, Getting
<1>2. ASSUME NEW r \in Calls, Acquire(r) PROVE CatalogTypeOK'
  <2>1. r \in ToSet(waiters) /\ waiters' \in Seq(Calls)
    BY <1>2, ElementsTail DEF Acquire, CatalogTypeOK
  <2>2. stage[r] \in Getting
    BY <2>1 DEF CatalogSound, LineSound
  <2> QED
    BY <1>2, <2>1, <2>2, EnterTypes DEF Acquire
<1>3. ASSUME NEW r \in Calls, Fetched(r) PROVE CatalogTypeOK'
  <2>1. holder' = NoTask /\ UNCHANGED waiters
    BY <1>3 DEF Fetched
  <2>2. CASE (\E outcome \in Over : Finish(r, outcome)) /\ UNCHANGED <<genres, intentModel>>
    BY <2>1, <2>2, FinishTypes DEF CatalogTypeOK
  <2>3. CASE \E payload \in Catalogues : genres' = payload /\ Return(r, stage[r], payload)
    BY <2>1, <2>3, ReturnTypes DEF CatalogTypeOK
  <2> QED
    BY <1>3, <2>2, <2>3 DEF Fetched, KeepPayload, Valid, Catalogues, Over
<1>4. ASSUME NEW r \in Calls, ClaudeAnswers(r) \/ ClaudeFails(r) PROVE CatalogTypeOK'
  <2>1. stage[r] = "asking" /\ UNCHANGED <<cacheVars, intentModel>>
    BY <1>4 DEF ClaudeAnswers, ClaudeFails
  <2>2. CASE \E outcome \in Over : Finish(r, outcome)
    BY <2>1, <2>2, FinishTypes DEF CatalogTypeOK, cacheVars
  <2>3. ASSUME NEW names \in SUBSET offered[r], stage' = [stage EXCEPT ![r] = "intent"],
               named' = [named EXCEPT ![r] = names], UNCHANGED offered
        PROVE  CatalogTypeOK'
    <3>1. offered[r] \in Payloads
      BY <2>1 DEF CatalogTypeOK, CatalogSound, OneCatalogue, Catalogues
    <3>2. names \in SUBSET UNION Payloads
      BY <3>1
    <3> QED
      BY <2>1, <2>3, <3>2 DEF CatalogTypeOK, cacheVars, Busy
  <2> QED
    BY <1>4, <2>2, <2>3 DEF ClaudeAnswers, ClaudeFails, Over
<1>5. ASSUME NEW r \in Calls, Abandon(r) PROVE CatalogTypeOK'
  <2>1. waiters' \in Seq(Calls)
    BY <1>5, Leaving DEF Abandon, WithoutWaiter, CatalogTypeOK, CatalogSound, LineSound
  <2> QED
    BY <1>5, <2>1, FinishTypes DEF Abandon, LockAfter, CatalogTypeOK, Over
<1>6. ASSUME NEW r \in Calls, OtherCall(r) \/ CancelCall(r) PROVE CatalogTypeOK'
  BY <1>6 DEF OtherCall, CancelCall, CatalogTypeOK, cacheVars, taskVars
<1>7. CASE Shutdown \/ Worker \/ UNCHANGED searchVars
  BY <1>7 DEF Shutdown, Worker, searchVars, CatalogTypeOK, cacheVars, taskVars
<1> QED
  BY ONLY [CatalogNext]_searchVars, <1>1, <1>2, <1>3, <1>4, <1>5, <1>6, <1>7 DEF CatalogNext, SearchStep

-----------------------------------------------------------------------------
\* The MCP service that the searches use is the one of McpService: all that is proved there holds
\* here.
THEOREM SearchesUseTheService == CatalogSpec => Spec
<1>1. CatalogInit => Init
  BY DEF CatalogInit
<1>2. [CatalogNext]_searchVars => [Next]_vars
  BY ServiceStep
<1> QED
  BY <1>1, <1>2, PTL DEF CatalogSpec, Spec

\* The inductive invariant: types, one catalogue, a sound line.
THEOREM CatalogStaysSound == CatalogSpec => [](TypeOK /\ CatalogTypeOK /\ CatalogSound)
<1>1. CatalogInit => CatalogTypeOK /\ CatalogSound
  BY InitCatalogSound
<1>2. TypeOK /\ CatalogTypeOK /\ CatalogSound /\ [CatalogNext]_searchVars => CatalogTypeOK' /\ CatalogSound'
  BY CatalogTypeStep, CatalogSoundStep
<1> QED
  BY <1>1, <1>2, SearchesUseTheService, TypeCorrect, PTL DEF CatalogSpec

\* No genre that Claude was offered is lost, for any searches and payloads.
THEOREM GenresAreKept == CatalogSpec => []NoGenreLost
<1>1. CatalogSound => NoGenreLost
  BY DEF CatalogSound, OneCatalogue
<1> QED
  BY <1>1, CatalogStaysSound, PTL

\* At most one search fetches, and none once the catalogue is kept.
THEOREM OnlyOneFetches == CatalogSpec => []OneFetch
<1>1. ASSUME CatalogSound PROVE OneFetch
  <2>1. ASSUME NEW r \in Fetching PROVE r = holder /\ r \in Calls
    BY <1>1, <2>1 DEF CatalogSound, LineSound, Fetching, Getting
  <2>2. Fetching # {} => holder # NoTask
    BY <2>1, NoTaskAssumption
  <2> QED
    BY <1>1, <2>1, <2>2 DEF OneFetch, CatalogSound, LineSound
<1> QED
  BY <1>1, CatalogStaysSound, PTL

\* A search that gets the catalogue is told the shared one; one that is over forgets it.
LEMMA ReturnShares ==
    ASSUME NEW r \in Calls, NEW caller, NEW catalog \in Catalogues, Return(r, caller, catalog),
           genres' = catalog, genres \in {NoGenres, catalog}, caller = "resolving" => genres = catalog,
           caller \in Getting
    PROVE  Shared!SharedNext
<1> USE NoGenresAssumption DEF Shared!SharedNext
<1>1. CASE caller = "analysing"
  <2>1. Shared!Agree
    BY DEF Shared!Agree, Catalogues
  <2>2. offered' = [offered EXCEPT ![r] = genres']
    BY <1>1 DEF Return, Parse
  <2> QED
    BY <2>1, <2>2 DEF Shared!Tell
<1>2. CASE caller = "resolving"
  BY <1>2 DEF Return, Finish, Shared!Forget
<1> QED
  BY <1>1, <1>2 DEF Getting

\* Every step is one of the shared catalogue, or does not concern it.
LEMMA SharedStep ==
    ASSUME CatalogTypeOK, CatalogSound, [CatalogNext]_searchVars
    PROVE  [Shared!SharedNext]_<<genres, offered>>
<1> DEFINE Goal == [Shared!SharedNext]_<<genres, offered>>
<1>1. ASSUME NEW r \in Calls, NEW outcome, Finish(r, outcome), UNCHANGED genres PROVE Goal
  BY <1>1 DEF Finish, Shared!SharedNext, Shared!Forget
<1>2. ASSUME NEW r \in Calls, NEW caller \in Getting, Enter(r, caller),
             caller = "resolving" => stage[r] \in {"intent", "resolving"}
      PROVE  Goal
  <2>1. CASE genres = NoGenres
    BY <1>2, <2>1 DEF Enter, Missing
  <2>2. CASE genres # NoGenres
    <3>1. genres \in Catalogues /\ genres' = genres /\ Return(r, caller, genres)
      BY <1>2, <2>2 DEF Enter, Missing, CatalogTypeOK
    <3> QED
      BY <3>1, ReturnShares
  <2> QED
    BY <2>1, <2>2
<1>3. ASSUME NEW r \in Calls, NEW caller \in Getting, Get(r, caller),
             caller = "resolving" => stage[r] = "intent"
      PROVE  Goal
  BY <1>2, <1>3 DEF Get
<1> HIDE DEF Goal
<1>4. ASSUME NEW r \in Calls, Analyze(r) PROVE Goal
  <2>1. CASE Parse(r, intentModel) /\ UNCHANGED cacheVars /\ intentModel # NoGenres
    <3>1. genres' = genres /\ intentModel = genres /\ offered' = [offered EXCEPT ![r] = genres']
            /\ genres # NoGenres
      BY <2>1 DEF Parse, cacheVars, CatalogSound, OneCatalogue
    <3> QED
      BY <3>1 DEF Goal, Shared!SharedNext, Shared!Tell, Shared!Agree
  <2> QED
    BY <1>3, <1>4, <2>1 DEF Analyze, Getting
<1>5. ASSUME NEW r \in Calls, Resolve(r) PROVE Goal
  BY <1>3, <1>5 DEF Resolve, Getting
<1>6. ASSUME NEW r \in Calls, Acquire(r) PROVE Goal
  <2>1. r \in ToSet(waiters) /\ Enter(r, stage[r])
    BY <1>6, ElementsTail DEF Acquire, CatalogTypeOK
  <2>2. stage[r] \in Getting
    BY <2>1 DEF CatalogSound, LineSound
  <2> QED
    BY <1>2, <2>1, <2>2
<1>7. ASSUME NEW r \in Calls, Fetched(r) PROVE Goal
  <2>1. genres = NoGenres /\ stage[r] = "analysing"
    BY <1>7, NoTaskAssumption DEF Fetched, CatalogSound, LineSound
  <2>2. ASSUME NEW payload \in Catalogues, genres' = payload, Return(r, "analysing", payload) PROVE Goal
    BY <2>1, <2>2, ReturnShares DEF Goal, Getting
  <2> QED
    BY <1>1, <1>7, <2>1, <2>2 DEF Fetched, KeepPayload, Valid, Catalogues
<1>8. ASSUME NEW r \in Calls, ClaudeAnswers(r) \/ ClaudeFails(r) \/ Abandon(r) PROVE Goal
  <2>1. UNCHANGED genres
    BY <1>8 DEF ClaudeAnswers, ClaudeFails, Abandon, cacheVars
  <2>2. CASE UNCHANGED offered
    BY <2>1, <2>2 DEF Goal
  <2> QED
    BY <1>1, <1>8, <2>1, <2>2 DEF ClaudeAnswers, ClaudeFails, Abandon
<1>9. ASSUME UNCHANGED <<genres, offered>> PROVE Goal
  BY <1>9 DEF Goal
<1>10. ASSUME NEW r \in Calls, OtherCall(r) \/ CancelCall(r) PROVE UNCHANGED <<genres, offered>>
  BY <1>10 DEF OtherCall, CancelCall, cacheVars, taskVars
<1>11. Shutdown \/ Worker \/ UNCHANGED searchVars => UNCHANGED <<genres, offered>>
  BY DEF Shutdown, Worker, searchVars, cacheVars, taskVars
<1>12. Goal
  BY ONLY [CatalogNext]_searchVars, <1>4, <1>5, <1>6, <1>7, <1>8, <1>9, <1>10, <1>11
  DEF CatalogNext, SearchStep
<1> QED
  BY <1>12 DEF Goal

\* The cache, the schema and the prompts implement the catalogue that never changes.
THEOREM OneCatalogueForAll == CatalogSpec => ImplementsCatalogue
<1>1. CatalogInit => Shared!SharedInit
  BY DEF CatalogInit, Shared!SharedInit
<1>2. CatalogTypeOK /\ CatalogSound /\ [CatalogNext]_searchVars => [Shared!SharedNext]_<<genres, offered>>
  BY SharedStep
<1>3. Shared!SharedSpec <=> Shared!SharedInit /\ [][Shared!SharedNext]_<<genres, offered>>
  BY DEF Shared!SharedSpec, Shared!sharedVars
<1> QED
  BY <1>1, <1>2, <1>3, CatalogStaysSound, PTL DEF CatalogSpec, ImplementsCatalogue

=============================================================================
