--------------------------- MODULE PredictServer ---------------------------
(***************************************************************************)
(* The /predict endpoint of the scheduler: one goroutine of HandlePredict  *)
(* (scheduler/internal/api/handlers.go) per request, over the worker pools *)
(* of WorkerPool, with the context that bounds each request, the verdicts  *)
(* of the health monitor that routing reads, and the counters and the last *)
(* result that the handlers share.                                         *)
(*                                                                         *)
(* The health monitor may record any verdict at any time (HealthMonitor    *)
(* says which it does record) and the routing policy may choose any engine *)
(* it saw healthy (Routing says which it does choose).                     *)
(***************************************************************************)
EXTENDS WorkerPool, LatencyBudget

CONSTANTS
  UnknownEngine,  \* a name in ?engine= that no pool has
  NoEngine,       \* engineName == ""
  AskedFor,       \* the names that clients send in ?engine=
  Flaky,          \* the engines whose health verdict changes
  BudgetParams    \* the values of ?latency_budget_ms=

ASSUME ServerAssumption ==
  /\ UnknownEngine \notin Engines
  /\ NoEngine \notin Engines \cup {UnknownEngine}
  /\ AskedFor \subseteq Engines \cup {UnknownEngine}
  /\ Flaky \subseteq Engines
  /\ Outcomes = {"response", "engineError", "contextError"}
  /\ BudgetParams \subseteq Int \cup {Absent}

VARIABLES
  pc,          \* pc[r]: where the handler of r is
  status,      \* status[r]: the variable of that name
  code,        \* code[r]: the HTTP status written, 0 before
  engine,      \* engine[r]: engineName
  todo,        \* todo[r]: the pools engineStates has still to look at
  seen,        \* seen[r]: those it found healthy
  got,         \* got[r]: the outcome read from the result channel
  ctx,         \* ctx[r]: the state of the request's context
  healthy,     \* healthy[e]: what the health monitor says of e
  requestsTotal,       \* the counter of that name, by engine and status
  admissionRejections, \* the counter of that name, by engine
  lastResult   \* the request whose result /last-result shows

handlerVars == <<pc, status, code, engine, todo, seen, got>>
sharedVars == <<healthy, requestsTotal, admissionRejections, lastResult>>
vars == <<poolVars, handlerVars, ctx, sharedVars>>

\* "exiting": the handler has returned and its deferred calls are to run.
HandlerStates ==
  {"new", "snapshot", "body", "submit", "waiting", "publish", "reply", "exiting",
   "done"}
Statuses ==
  {"unknown", "bad_request", "routing_failed", "engine_unhealthy", "rejected",
   "error", "success", "timeout"}
Codes == {0, 200, 400, 500, 503, 504}
EngineNames == Engines \cup {UnknownEngine}

\* "expired": the latency budget has run out; "canceled": the client has
\* gone, or the handler has returned.
ContextStates == {"none", "live", "expired", "canceled"}
CtxDone(r) == ctx[r] \in {"expired", "canceled"}

TypeOK ==
  /\ PoolTypeOK
  /\ pc \in [Requests -> HandlerStates]
  /\ status \in [Requests -> Statuses]
  /\ code \in [Requests -> Codes]
  /\ engine \in [Requests -> EngineNames \cup {NoEngine}]
  /\ todo \in [Requests -> SUBSET Engines]
  /\ seen \in [Requests -> SUBSET Engines]
  /\ got \in [Requests -> Outcomes \cup {NoOutcome}]
  /\ ctx \in [Requests -> ContextStates]
  /\ healthy \in [Engines -> BOOLEAN]
  /\ requestsTotal \in [EngineNames \X Statuses -> Nat]
  /\ admissionRejections \in [Engines -> Nat]
  /\ lastResult \in Requests \cup {NoRequest}

Init ==
  /\ PoolInit
  /\ pc = [r \in Requests |-> "new"]
  /\ status = [r \in Requests |-> "unknown"]
  /\ code = [r \in Requests |-> 0]
  /\ engine = [r \in Requests |-> NoEngine]
  /\ todo = [r \in Requests |-> {}]
  /\ seen = [r \in Requests |-> {}]
  /\ got = [r \in Requests |-> NoOutcome]
  /\ ctx = [r \in Requests |-> "none"]
  /\ healthy = [e \in Engines |-> TRUE]
  /\ requestsTotal = [x \in EngineNames \X Statuses |-> 0]
  /\ admissionRejections = [e \in Engines |-> 0]
  /\ lastResult = NoRequest

-----------------------------------------------------------------------------
(* Building blocks                                                         *)

Goto(r, label) == pc' = [pc EXCEPT ![r] = label]

\* The handler writes its answer and returns.
Answer(r, s, c) ==
  /\ Goto(r, "exiting")
  /\ status' = [status EXCEPT ![r] = s]
  /\ code' = [code EXCEPT ![r] = c]

\* The health monitor's map has no entry, hence FALSE, for an unknown name.
IsHealthy(n) == n \in Engines /\ healthy[n]

\* A slip: the policy does not filter out the unhealthy engines.
Choices_Unfiltered(snapshot) == Engines

\* What every policy promises: an engine that was reported healthy.
Choices(snapshot) == snapshot

-----------------------------------------------------------------------------
(* Slips that the properties must catch; no specification uses them.       *)

\* The handler submits its request again when the pool has rejected it, and
\* counts one rejection for each attempt.
Rejected_CountsTwice(r) ==
  /\ pc[r] = "submit"
  /\ SubmitFalse(engine[r])
  /\ admissionRejections' = [admissionRejections EXCEPT ![engine[r]] = @ + 2]
  /\ Answer(r, "rejected", 503)
  /\ UNCHANGED <<engine, todo, seen, got, ctx, healthy, requestsTotal, lastResult>>

\* Predict gets context.Background() and does not see the request's context.
EngineAnswers_Unbounded(w, o) ==
  /\ PredictReturns(w, o)
  /\ o # "contextError"
  /\ UNCHANGED <<handlerVars, ctx, sharedVars>>

\* The handler publishes before it has its answer.
TimesOut_Publishes(r) ==
  /\ pc[r] = "waiting"
  /\ CtxDone(r)
  /\ Answer(r, "timeout", 504)
  /\ lastResult' = IF resultCh[r] # <<>> THEN r ELSE lastResult
  /\ UNCHANGED <<poolVars, engine, todo, seen, got, ctx, healthy, requestsTotal,
                 admissionRejections>>

\* The handler tries again when its time is up.
TimesOut_Retries(r) ==
  /\ pc[r] = "waiting"
  /\ CtxDone(r)
  /\ Goto(r, "submit")
  /\ UNCHANGED <<poolVars, status, code, engine, todo, seen, got, ctx, sharedVars>>

\* No latency budget: the context ends only with the client.
Expire_Never(r) == FALSE /\ UNCHANGED vars

-----------------------------------------------------------------------------
(* HandlePredict                                                           *)

\* The latency budget does not parse: engineName is still "".
BadBudget(r) ==
  /\ pc[r] = "new"
  /\ \E ms \in BudgetParams : BadParam(ms)
  /\ Answer(r, "bad_request", 400)
  /\ UNCHANGED <<poolVars, engine, todo, seen, got, ctx, sharedVars>>

\* context.WithTimeout: with a budget that has wrapped to nothing or less, or
\* a limit that is not positive, the context has expired from the start.
StartContext(r) ==
  \E ms \in BudgetParams :
    /\ ~BadParam(ms)
    /\ ctx' = [ctx EXCEPT ![r] = IF Budget(ms) > 0 THEN "live" ELSE "expired"]

\* The context starts; ?engine= names an engine, whose health is looked up.
\* (An unknown name is answered here: the branch for it comes later.)
ArriveManual(r, n) ==
  /\ pc[r] = "new"
  /\ engine' = [engine EXCEPT ![r] = n]
  /\ StartContext(r)
  /\ \/ /\ IsHealthy(n)
        /\ Goto(r, "body")
        /\ UNCHANGED <<status, code>>
     \/ /\ ~IsHealthy(n)
        /\ Answer(r, "engine_unhealthy", 503)
  /\ UNCHANGED <<poolVars, todo, seen, got, sharedVars>>

\* The context starts; the engine is for the policy to choose.
ArriveAuto(r) ==
  /\ pc[r] = "new"
  /\ Goto(r, "snapshot")
  /\ StartContext(r)
  /\ todo' = [todo EXCEPT ![r] = Engines]
  /\ UNCHANGED <<poolVars, status, code, engine, seen, got, sharedVars>>

\* engineStates looks at the pools one after the other, in any order.
LookAt(r, e) ==
  /\ pc[r] = "snapshot"
  /\ e \in todo[r]
  /\ todo' = [todo EXCEPT ![r] = @ \ {e}]
  /\ seen' = [seen EXCEPT ![r] = IF IsHealthy(e) THEN @ \cup {e} ELSE @]
  /\ UNCHANGED <<poolVars, pc, status, code, engine, got, ctx, sharedVars>>

\* The policy chooses from the snapshot, or there is nothing to choose from.
SelectEngine(r) ==
  /\ pc[r] = "snapshot"
  /\ todo[r] = {}
  /\ \/ \E e \in Choices(seen[r]) :
          /\ engine' = [engine EXCEPT ![r] = e]
          /\ Goto(r, "body")
          /\ UNCHANGED <<status, code>>
     \/ /\ Choices(seen[r]) = {}
        /\ Answer(r, "routing_failed", 503)
        /\ UNCHANGED engine
  /\ seen' = [seen EXCEPT ![r] = {}]
  /\ UNCHANGED <<poolVars, todo, got, ctx, sharedVars>>

\* The body has been read; or it could not be read, or is empty.
ReadBody(r) ==
  /\ pc[r] = "body"
  /\ \/ Goto(r, "submit") /\ UNCHANGED <<status, code>>
     \/ Answer(r, "bad_request", 400)
  /\ UNCHANGED <<poolVars, engine, todo, seen, got, ctx, sharedVars>>

Submitted(r) ==
  /\ pc[r] = "submit"
  /\ SubmitTrue(engine[r], r)
  /\ Goto(r, "waiting")
  /\ UNCHANGED <<status, code, engine, todo, seen, got, ctx, sharedVars>>

Rejected(r) ==
  /\ pc[r] = "submit"
  /\ SubmitFalse(engine[r])
  /\ admissionRejections' = [admissionRejections EXCEPT ![engine[r]] = @ + 1]
  /\ Answer(r, "rejected", 503)
  /\ UNCHANGED <<engine, todo, seen, got, ctx, healthy, requestsTotal, lastResult>>

\* case result := <-resultCh
ReceiveResult(r) ==
  /\ pc[r] = "waiting"
  /\ resultCh[r] # <<>>
  /\ resultCh' = [resultCh EXCEPT ![r] = Tail(@)]
  /\ got' = [got EXCEPT ![r] = Head(resultCh[r])]
  /\ \/ /\ Head(resultCh[r]) = "response"
        /\ Goto(r, "publish")
        /\ status' = [status EXCEPT ![r] = "success"]
        /\ UNCHANGED code
     \/ /\ Head(resultCh[r]) # "response"
        /\ Answer(r, "error", 500)
  /\ UNCHANGED <<queue, closed, wst, holding, outcome, engine, todo, seen, ctx,
                 sharedVars>>

\* lastResult is replaced under its lock.
Publish(r) ==
  /\ pc[r] = "publish"
  /\ lastResult' = r
  /\ Goto(r, "reply")
  /\ UNCHANGED <<poolVars, status, code, engine, todo, seen, got, ctx, healthy,
                 requestsTotal, admissionRejections>>

\* The client gets its answer after the others may have seen it.
Reply(r) ==
  /\ pc[r] = "reply"
  /\ Answer(r, "success", 200)
  /\ UNCHANGED <<poolVars, engine, todo, seen, got, ctx, sharedVars>>

\* case <-ctx.Done(), which select may take also when a result is there.
TimesOut(r) ==
  /\ pc[r] = "waiting"
  /\ CtxDone(r)
  /\ Answer(r, "timeout", 504)
  /\ UNCHANGED <<poolVars, engine, todo, seen, got, ctx, sharedVars>>

\* The deferred calls: cancel(), then the count of the request.
Finish(r) ==
  /\ pc[r] = "exiting"
  /\ Goto(r, "done")
  /\ ctx' = [ctx EXCEPT ![r] = IF @ = "live" THEN "canceled" ELSE @]
  /\ requestsTotal' = IF engine[r] = NoEngine THEN requestsTotal
                      ELSE [requestsTotal EXCEPT ![<<engine[r], status[r]>>] = @ + 1]
  /\ UNCHANGED <<poolVars, status, code, engine, todo, seen, got, healthy,
                 admissionRejections, lastResult>>

-----------------------------------------------------------------------------
(* The rest of the world                                                   *)

\* The latency budget of r runs out.
Expire(r) ==
  /\ ctx[r] = "live"
  /\ ctx' = [ctx EXCEPT ![r] = "expired"]
  /\ UNCHANGED <<poolVars, handlerVars, sharedVars>>

\* The client of r goes away: net/http cancels the request's context.
Disconnect(r) ==
  /\ ctx[r] = "live"
  /\ ctx' = [ctx EXCEPT ![r] = "canceled"]
  /\ UNCHANGED <<poolVars, handlerVars, sharedVars>>

\* A health check changes the verdict on e.
RecordHealth(e) ==
  /\ healthy' = [healthy EXCEPT ![e] = ~@]
  /\ UNCHANGED <<poolVars, handlerVars, ctx, requestsTotal, admissionRejections,
                 lastResult>>

\* Predict of engineclient returns to a worker. The engine may answer or
\* fail at any time, also never; the error of the context comes only when
\* the context of the request is done.
EngineAnswers(w, o) ==
  /\ PredictReturns(w, o)
  /\ o = "contextError" => CtxDone(holding[w])
  /\ UNCHANGED <<handlerVars, ctx, sharedVars>>

\* The steps a worker takes by itself.
WorkerRuns(w) ==
  /\ Park(w) \/ Take(w) \/ Deliver(w)
  /\ UNCHANGED <<handlerVars, ctx, sharedVars>>

-----------------------------------------------------------------------------
\* The steps of the handler that nothing outside can hold up, which reading
\* the body is not.
HandlerStep(r) ==
  \/ \E e \in Engines : LookAt(r, e)
  \/ SelectEngine(r)
  \/ Submitted(r) \/ Rejected(r)
  \/ ReceiveResult(r) \/ Publish(r) \/ Reply(r) \/ TimesOut(r)
  \/ Finish(r)

Next ==
  \/ \E r \in Requests :
       \/ BadBudget(r) \/ ArriveAuto(r)
       \/ \E n \in AskedFor : ArriveManual(r, n)
       \/ ReadBody(r)
       \/ HandlerStep(r)
       \/ Expire(r) \/ Disconnect(r)
  \/ \E e \in Flaky : RecordHealth(e)
  \/ \E w \in Workers :
       WorkerRuns(w) \/ \E o \in Outcomes : EngineAnswers(w, o)

\* Goroutines that can run do run, the timer of a context fires, and gRPC
\* returns to the caller of a call whose context is done. No engine has to
\* answer, no client has to send its body and no health check has to happen.
Fairness ==
  /\ \A r \in Requests : WF_vars(HandlerStep(r)) /\ WF_vars(Expire(r))
  /\ \A w \in Workers : /\ WF_vars(WorkerRuns(w))
                        /\ WF_vars(EngineAnswers(w, "contextError"))

Spec == Init /\ [][Next]_vars /\ Fairness

-----------------------------------------------------------------------------
(* The pools under the handlers are those of PoolClients: a handler is a   *)
(* caller that waits, receives or gives up, and nobody calls Close.        *)

CallOf(r) ==
  CASE pc[r] = "waiting" -> "waiting"
    [] status[r] = "rejected" -> "rejected"
    [] status[r] \in {"error", "success"} -> "received"
    [] status[r] = "timeout" -> "gone"
    [] OTHER -> "new"

Pools == INSTANCE PoolClients WITH
  call <- [r \in Requests |-> CallOf(r)],
  target <- [r \in Requests |->
              IF CallOf(r) \in {"new", "rejected"} THEN NoEngine ELSE engine[r]],
  closer <- [e \in Engines |-> "idle"]

-----------------------------------------------------------------------------
(* Properties                                                              *)

\* The handlers use the pools as PoolClients says callers do: they submit a
\* request once, wait for it at most once and never come back for it. So all
\* that holds of PoolClients holds under the handlers (handlers.go:224-291).
UsesPoolsCorrectly == Pools!Init /\ [][Pools!Next]_(Pools!vars)

\* /last-result only ever shows a prediction that its own client has been
\* given or is just being given: the late result of a request that was
\* answered 504, or that failed, never gets there (handlers.go:237-291).
ShownWasAnswered ==
  lastResult # NoRequest =>
    /\ got[lastResult] = "response"
    /\ code[lastResult] = 200 \/ pc[lastResult] = "reply"

\* The requests rejected by e that their handlers have yet to count.
Leaving(e) ==
  {r \in Requests : pc[r] = "exiting" /\ status[r] = "rejected" /\ engine[r] = e}

\* The requests whose handlers have returned with status s after naming n.
Counted(n, s) == {r \in Requests : pc[r] = "done" /\ engine[r] = n /\ status[r] = s}

\* The counters say what happened: those of a rejection agree, and under each
\* engine and status are the handlers that have returned with them, each once.
CountsMatch ==
  /\ \A e \in Engines :
       admissionRejections[e] =
         requestsTotal[<<e, "rejected">>] + Cardinality(Leaving(e))
  /\ \A n \in EngineNames, s \in Statuses :
       requestsTotal[<<n, s>>] = Cardinality(Counted(n, s))

\* The requests whose handlers have returned and that are in no count.
Uncounted ==
  {r \in Requests :
     pc[r] = "done" /\ \A n \in EngineNames, s \in Statuses : r \notin Counted(n, s)}

\* The counters account for every request whose handler has returned, except
\* for exactly two kinds that they miss: those whose budget did not parse, and
\* so never had a context, and those that no engine was up for. A request
\* that was rejected, expired, failed, was abandoned by its client or named
\* an engine that is down or unknown is counted, once, whatever the others do
\* meanwhile (handlers.go:167-171, 172-177, 187-192, 228).
CountersAgree ==
  /\ CountsMatch
  /\ Uncounted =
       {r \in Requests :
          pc[r] = "done" /\ (ctx[r] = "none" \/ status[r] = "routing_failed")}

\* "RequestsTotal counts every /predict outcome" (metrics.go:15): when a
\* handler has returned, a counter has changed. Not what happens: the deferred
\* function counts nothing as long as engineName is empty.
EveryOutcomeCounted ==
  [][\A r \in Requests :
       pc[r] # "done" /\ pc'[r] = "done" => requestsTotal' # requestsTotal]_vars

\* "dead engines are detected automatically and excluded from routing"
\* (README.md), given the detection: a request that arrives when the monitor
\* has already, and for good, recorded an engine as unhealthy is not
\* submitted to that engine, by whichever way it was routed.
DeadEnginesExcluded ==
  \A r \in Requests, e \in Engines :
    []((pc[r] = "new" /\ []~healthy[e]) => []~(pc[r] = "waiting" /\ engine[r] = e))

\* Every handler that has its body returns, also when the engine hangs.
HandlersReturn == [](\A r \in Requests : pc[r] = "submit" => <>(pc[r] = "done"))

\* An engine that hangs does not wedge its pool: every request leaves the
\* queue and the worker, also when its handler has long returned.
SlotsAreFreed ==
  [](\A r \in Requests :
       Pools!InQueue(r) \/ Pools!Held(r) => <>~(Pools!InQueue(r) \/ Pools!Held(r)))

\* "504 if the latency budget expires" (README.md). Not what happens: when
\* the budget runs out, the worker's Predict call fails with the error of
\* the same context, and select may find that result first.
BudgetExpiryIs504 ==
  \A r \in Requests :
    ctx[r] = "expired" /\ got[r] = "contextError" /\ code[r] # 0 => code[r] = 504
=============================================================================
