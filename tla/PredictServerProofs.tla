------------------------ MODULE PredictServerProofs ------------------------
(***************************************************************************)
(* Theorems about PredictServer, for any number of engines, workers and    *)
(* requests, any queue size and any budgets. The theorems of               *)
(* PoolClientsProofs are brought over to the handlers at the end.          *)
(***************************************************************************)
EXTENDS PredictServer, SequenceTheorems, FiniteSetTheorems, TLAPS

-----------------------------------------------------------------------------
(* The parts of the inductive invariant that no run needs to state         *)

\* A worker holds a request exactly from the receive to the Result send, and
\* has an outcome exactly between the return of Predict and the send.
Phases ==
  \A w \in Workers :
    /\ holding[w] # NoRequest <=> wst[w] \in {"predicting", "sending"}
    /\ outcome[w] # NoOutcome <=> wst[w] = "sending"

\* From the body on, a handler has an engine that has a pool.
Named ==
  \A r \in Requests :
    pc[r] \in {"body", "submit", "waiting", "publish", "reply"} => engine[r] \in Engines

PoolInv == PoolTypeOK /\ Phases

\* The types of the handlers, their contexts and what they share.
HandlersTypeOK ==
  /\ pc \in [Requests -> HandlerStates]
  /\ status \in [Requests -> Statuses]
  /\ code \in [Requests -> Codes]
  /\ engine \in [Requests -> EngineNames \cup {NoEngine}]
  /\ todo \in [Requests -> SUBSET Engines]
  /\ seen \in [Requests -> SUBSET Engines]
  /\ got \in [Requests -> Outcomes \cup {NoOutcome}]
  /\ ctx \in [Requests -> ContextStates]

SharedTypeOK ==
  /\ healthy \in [Engines -> BOOLEAN]
  /\ requestsTotal \in [EngineNames \X Statuses -> Nat]
  /\ admissionRejections \in [Engines -> Nat]
  /\ lastResult \in Requests \cup {NoRequest}

HandlersInv == HandlersTypeOK /\ SharedTypeOK /\ Named

-----------------------------------------------------------------------------
(* The pools                                                               *)

LEMMA PoolConstants ==
  /\ Capacity \in Nat
  /\ \A w \in Workers : w[1] \in Engines
  /\ \A e \in Engines : WorkersOf(e) \subseteq Workers
<1>1. Capacity \in Nat
  BY PoolAssumption DEF PoolAssumption, Capacity
<1> QED
  BY <1>1 DEF Workers, WorkersOf

LEMMA Appended ==
  ASSUME NEW S, NEW s \in Seq(S), NEW x \in S
  PROVE  Append(s, x) \in Seq(S) /\ Len(Append(s, x)) = Len(s) + 1 /\ Len(s) \in Nat
  BY AppendProperties

LEMMA Received ==
  ASSUME NEW S, NEW s \in Seq(S), s # <<>>
  PROVE  /\ Tail(s) \in Seq(S) /\ Head(s) \in S
         /\ Len(s) \in Nat /\ Len(Tail(s)) = Len(s) - 1
  BY HeadTailProperties, EmptySeq

LEMMA PoolInvInit == PoolInit => PoolInv
  BY PoolConstants, PoolAssumption
  DEF PoolInit, PoolInv, PoolTypeOK, Phases, WorkerStates, ResultCap, PoolAssumption

LEMMA PoolInvSubmit ==
  ASSUME PoolInv, NEW e \in Engines, NEW r \in Requests, SubmitTrue(e, r)
  PROVE  PoolInv'
<1> USE PoolConstants, PoolAssumption
    DEF PoolInv, PoolTypeOK, Phases, WorkerStates, ResultCap, PoolAssumption
<1>1. CASE HandOff(e, r)
  BY <1>1 DEF HandOff, ParkedOn
<1>2. CASE Enqueue(e, r)
  <2>1. /\ Append(queue[e], r) \in Seq(Requests)
        /\ Len(Append(queue[e], r)) <= Capacity
    BY <1>2, Appended DEF Enqueue
  <2> QED
    BY <1>2, <2>1 DEF Enqueue
<1> QED
  BY <1>1, <1>2 DEF SubmitTrue

LEMMA PoolInvWorker ==
  ASSUME PoolInv, NEW w \in Workers, Park(w) \/ Take(w) \/ Deliver(w)
  PROVE  PoolInv'
<1> USE PoolConstants, PoolAssumption
    DEF PoolInv, PoolTypeOK, Phases, WorkerStates, ResultCap, PoolAssumption
<1>1. CASE Park(w)
  BY <1>1 DEF Park
<1>2. CASE Take(w)
  <2>1. /\ Tail(queue[w[1]]) \in Seq(Requests)
        /\ Head(queue[w[1]]) \in Requests
        /\ Len(Tail(queue[w[1]])) <= Capacity
    BY <1>2, Received DEF Take
  <2> QED
    BY <1>2, <2>1 DEF Take
<1>3. CASE Deliver(w)
  <2>1. holding[w] \in Requests /\ outcome[w] \in Outcomes
    BY <1>3 DEF Deliver
  <2>2. /\ Append(resultCh[holding[w]], outcome[w]) \in Seq(Outcomes)
        /\ Len(Append(resultCh[holding[w]], outcome[w])) <= 1
    BY <1>3, <2>1, Appended DEF Deliver
  <2> QED
    BY <1>3, <2>1, <2>2 DEF Deliver
<1> QED
  BY <1>1, <1>2, <1>3

LEMMA PoolInvAnswer ==
  ASSUME PoolInv, NEW w \in Workers, NEW o \in Outcomes, PredictReturns(w, o)
  PROVE  PoolInv'
  BY PoolConstants, PoolAssumption
  DEF PredictReturns, PoolInv, PoolTypeOK, Phases, WorkerStates, ResultCap,
      PoolAssumption

LEMMA PoolInvReceive ==
  ASSUME PoolInv, NEW r \in Requests, ReceiveResult(r)
  PROVE  PoolInv' /\ Head(resultCh[r]) \in Outcomes
<1> USE DEF PoolInv, PoolTypeOK, Phases, WorkerStates, ResultCap
<1>1. /\ Tail(resultCh[r]) \in Seq(Outcomes)
      /\ Head(resultCh[r]) \in Outcomes
      /\ Len(Tail(resultCh[r])) <= 1
  BY Received DEF ReceiveResult
<1> QED
  BY <1>1 DEF ReceiveResult

-----------------------------------------------------------------------------
(* The handlers                                                            *)

\* Where a handler writes its answer it stays with the engine it has.
LEMMA AnswerTypes ==
  ASSUME HandlersInv, NEW r \in Requests, NEW s \in Statuses, NEW c \in Codes,
         Answer(r, s, c)
  PROVE  /\ pc' \in [Requests -> HandlerStates]
         /\ status' \in [Requests -> Statuses]
         /\ code' \in [Requests -> Codes]
         /\ pc'[r] = "exiting"
         /\ \A q \in Requests \ {r} : pc'[q] = pc[q]
  BY DEF Answer, Goto, HandlersInv, HandlersTypeOK, HandlerStates

\* The label a handler goes to.
LEMMA GotoTypes ==
  ASSUME HandlersInv, NEW r \in Requests, NEW label \in HandlerStates, Goto(r, label)
  PROVE  /\ pc' \in [Requests -> HandlerStates]
         /\ pc'[r] = label
         /\ \A q \in Requests \ {r} : pc'[q] = pc[q]
  BY DEF Goto, HandlersInv, HandlersTypeOK

LEMMA StartTypes ==
  ASSUME HandlersInv, NEW r \in Requests, StartContext(r)
  PROVE  ctx' \in [Requests -> ContextStates]
  BY DEF StartContext, HandlersInv, HandlersTypeOK, ContextStates

\* Arriving and choosing an engine.
LEMMA ArrivalInv ==
  ASSUME HandlersInv, NEW r \in Requests,
         \/ BadBudget(r) \/ ArriveAuto(r) \/ SelectEngine(r)
         \/ \E n \in AskedFor : ArriveManual(r, n)
         \/ \E e \in Engines : LookAt(r, e)
  PROVE  HandlersInv' /\ UNCHANGED poolVars
<1> USE AnswerTypes, GotoTypes, StartTypes, ServerAssumption
    DEF HandlersInv, HandlersTypeOK, SharedTypeOK, Named, Statuses, Codes,
        HandlerStates, EngineNames, sharedVars
<1>1. CASE BadBudget(r)
  BY <1>1 DEF BadBudget
<1>2. CASE ArriveAuto(r)
  BY <1>2 DEF ArriveAuto
<1>3. ASSUME NEW n \in AskedFor, ArriveManual(r, n)
      PROVE  HandlersInv' /\ UNCHANGED poolVars
  <2>1. CASE IsHealthy(n) /\ Goto(r, "body") /\ UNCHANGED <<status, code>>
    BY <1>3, <2>1 DEF ArriveManual, IsHealthy
  <2>2. CASE Answer(r, "engine_unhealthy", 503)
    BY <1>3, <2>2 DEF ArriveManual
  <2> QED
    BY <1>3, <2>1, <2>2 DEF ArriveManual
<1>4. ASSUME NEW e \in Engines, LookAt(r, e)
      PROVE  HandlersInv' /\ UNCHANGED poolVars
  BY <1>4 DEF LookAt
<1>5. CASE SelectEngine(r)
  <2>1. ASSUME NEW e \in Choices(seen[r]), engine' = [engine EXCEPT ![r] = e],
               Goto(r, "body"), UNCHANGED <<status, code>>
        PROVE  HandlersInv' /\ UNCHANGED poolVars
    BY <1>5, <2>1 DEF SelectEngine, Choices
  <2>2. CASE Answer(r, "routing_failed", 503) /\ UNCHANGED engine
    BY <1>5, <2>2 DEF SelectEngine
  <2> QED
    BY <1>5, <2>1, <2>2 DEF SelectEngine
<1> QED
  BY <1>1, <1>2, <1>3, <1>4, <1>5

\* From the body to the answer.
LEMMA ServiceInv ==
  ASSUME PoolInv, HandlersInv, NEW r \in Requests,
         \/ ReadBody(r) \/ Submitted(r) \/ Rejected(r) \/ ReceiveResult(r)
         \/ Publish(r) \/ Reply(r) \/ TimesOut(r)
  PROVE  HandlersInv'
<1> USE AnswerTypes, GotoTypes, ServerAssumption
    DEF HandlersInv, HandlersTypeOK, SharedTypeOK, Named, Statuses, Codes,
        HandlerStates, sharedVars
<1>1. CASE ReadBody(r)
  BY <1>1 DEF ReadBody
<1>2. CASE Submitted(r)
  BY <1>2 DEF Submitted
<1>3. CASE Rejected(r)
  BY <1>3 DEF Rejected
<1>4. CASE ReceiveResult(r)
  <2>1. Head(resultCh[r]) \in Outcomes
    BY <1>4, PoolInvReceive
  <2>2. CASE Goto(r, "publish") /\ status' = [status EXCEPT ![r] = "success"]
             /\ UNCHANGED code
    BY <1>4, <2>1, <2>2 DEF ReceiveResult
  <2>3. CASE Answer(r, "error", 500)
    BY <1>4, <2>1, <2>3 DEF ReceiveResult
  <2> QED
    BY <1>4, <2>2, <2>3 DEF ReceiveResult
<1>5. CASE Publish(r)
  BY <1>5 DEF Publish
<1>6. CASE Reply(r)
  BY <1>6 DEF Reply
<1>7. CASE TimesOut(r)
  BY <1>7 DEF TimesOut
<1> QED
  BY <1>1, <1>2, <1>3, <1>4, <1>5, <1>6, <1>7

\* The deferred calls, and the world around the handlers.
LEMMA FinishInv ==
  ASSUME HandlersInv, NEW r \in Requests, Finish(r)
  PROVE  HandlersInv' /\ UNCHANGED poolVars
<1> USE GotoTypes, ServerAssumption
    DEF HandlersInv, HandlersTypeOK, SharedTypeOK, Named, HandlerStates, ContextStates
<1>1. CASE engine[r] = NoEngine
  BY <1>1 DEF Finish
<1>2. CASE engine[r] # NoEngine
  <2>1. <<engine[r], status[r]>> \in EngineNames \X Statuses
    BY <1>2
  <2> QED
    BY <1>2, <2>1 DEF Finish
<1> QED
  BY <1>1, <1>2

LEMMA WorldInv ==
  ASSUME HandlersInv,
         \/ \E r \in Requests : Expire(r) \/ Disconnect(r)
         \/ \E e \in Flaky : RecordHealth(e)
  PROVE  HandlersInv' /\ UNCHANGED poolVars
<1> USE ServerAssumption
    DEF HandlersInv, HandlersTypeOK, SharedTypeOK, Named, ContextStates, handlerVars,
        sharedVars
<1>1. ASSUME NEW r \in Requests, Expire(r) \/ Disconnect(r)
      PROVE  HandlersInv' /\ UNCHANGED poolVars
  BY <1>1 DEF Expire, Disconnect
<1>2. ASSUME NEW e \in Flaky, RecordHealth(e)
      PROVE  HandlersInv' /\ UNCHANGED poolVars
  BY <1>2 DEF RecordHealth
<1> QED
  BY <1>1, <1>2

-----------------------------------------------------------------------------
(* The types of the server                                                 *)

LEMMA ServerInit == Init => PoolInv /\ HandlersInv
<1> SUFFICES ASSUME Init PROVE PoolInv /\ HandlersInv
  OBVIOUS
<1>1. PoolInv
  BY PoolInvInit DEF Init
<1>2. HandlersTypeOK
  BY DEF Init, HandlersTypeOK, HandlerStates, Statuses, Codes, ContextStates
<1>3. SharedTypeOK
  BY DEF Init, SharedTypeOK
<1>4. Named
  BY DEF Init, Named
<1> QED
  BY <1>1, <1>2, <1>3, <1>4 DEF HandlersInv

LEMMA PoolInvSame == PoolInv /\ UNCHANGED poolVars => PoolInv'
  BY DEF PoolInv, PoolTypeOK, Phases, poolVars

LEMMA HandlersInvSame ==
  HandlersInv /\ UNCHANGED <<handlerVars, ctx, sharedVars>> => HandlersInv'
  BY DEF HandlersInv, HandlersTypeOK, SharedTypeOK, Named, handlerVars, sharedVars

LEMMA ServerStep == PoolInv /\ HandlersInv /\ [Next]_vars => PoolInv' /\ HandlersInv'
<1> SUFFICES ASSUME PoolInv, HandlersInv, [Next]_vars
             PROVE  PoolInv' /\ HandlersInv'
  OBVIOUS
<1>1. CASE UNCHANGED vars
  BY <1>1, PoolInvSame, HandlersInvSame DEF vars
<1>2. ASSUME NEW r \in Requests,
             \/ BadBudget(r) \/ ArriveAuto(r) \/ SelectEngine(r)
             \/ \E n \in AskedFor : ArriveManual(r, n)
             \/ \E e \in Engines : LookAt(r, e)
      PROVE  PoolInv' /\ HandlersInv'
  BY <1>2, ArrivalInv, PoolInvSame
<1>3. ASSUME NEW r \in Requests,
             \/ ReadBody(r) \/ Submitted(r) \/ Rejected(r) \/ ReceiveResult(r)
             \/ Publish(r) \/ Reply(r) \/ TimesOut(r)
      PROVE  PoolInv' /\ HandlersInv'
  <2>1. HandlersInv'
    BY <1>3, ServiceInv
  <2>2. CASE Submitted(r)
    <3>1. engine[r] \in Engines
      BY <2>2 DEF Submitted, HandlersInv, Named
    <3> QED
      BY <2>1, <2>2, <3>1, PoolInvSubmit DEF Submitted
  <2>3. CASE ReceiveResult(r)
    BY <2>1, <2>3, PoolInvReceive
  <2>4. CASE ReadBody(r) \/ Rejected(r) \/ Publish(r) \/ Reply(r) \/ TimesOut(r)
    BY <2>1, <2>4, PoolInvSame
    DEF ReadBody, Rejected, SubmitFalse, Publish, Reply, TimesOut
  <2> QED
    BY <1>3, <2>2, <2>3, <2>4
<1>4. ASSUME NEW r \in Requests, Finish(r) PROVE PoolInv' /\ HandlersInv'
  BY <1>4, FinishInv, PoolInvSame
<1>5. CASE \/ \E r \in Requests : Expire(r) \/ Disconnect(r)
           \/ \E e \in Flaky : RecordHealth(e)
  BY <1>5, WorldInv, PoolInvSame
<1>6. ASSUME NEW w \in Workers, WorkerRuns(w) PROVE PoolInv' /\ HandlersInv'
  BY <1>6, PoolInvWorker, HandlersInvSame DEF WorkerRuns
<1>7. ASSUME NEW w \in Workers, NEW o \in Outcomes, EngineAnswers(w, o)
      PROVE  PoolInv' /\ HandlersInv'
  BY <1>7, PoolInvAnswer, HandlersInvSame DEF EngineAnswers
<1> QED
  BY <1>1, <1>2, <1>3, <1>4, <1>5, <1>6, <1>7 DEF Next, HandlerStep

\* The types of pools, handlers, contexts and counters, for any engines,
\* workers, requests and budgets.
THEOREM ServerTypes == Spec => []TypeOK
<1>1. PoolInv /\ HandlersInv => TypeOK
  BY DEF PoolInv, HandlersInv, HandlersTypeOK, SharedTypeOK, TypeOK
<1> QED
  BY <1>1, ServerInit, ServerStep, PTL DEF Spec
-----------------------------------------------------------------------------
(* The last result                                                         *)

\* What is published was received, and its handler only has its answer to
\* write and to end.
Published ==
  /\ \A r \in Requests : pc[r] \in {"publish", "reply"} => got[r] = "response"
  /\ lastResult # NoRequest =>
       /\ lastResult \in Requests
       /\ got[lastResult] = "response"
       /\ \/ pc[lastResult] = "reply"
          \/ pc[lastResult] \in {"exiting", "done"} /\ code[lastResult] = 200

LEMMA PublishedStep == HandlersInv /\ Published /\ [Next]_vars => Published'
<1> SUFFICES ASSUME HandlersInv, Published, [Next]_vars PROVE Published'
  OBVIOUS
<1> USE DEF HandlersInv, HandlersTypeOK, SharedTypeOK, Published
<1>1. CASE UNCHANGED <<pc, code, got, lastResult>>
  BY <1>1
<1>2. ASSUME NEW r \in Requests, NEW label \in HandlerStates \ {"publish", "reply"},
             pc[r] \notin {"reply", "exiting", "done"}, Goto(r, label),
             \A q \in Requests \ {r} : code'[q] = code[q],
             UNCHANGED lastResult, \A q \in Requests \ {r} : got'[q] = got[q]
      PROVE  Published'
  BY <1>2 DEF Goto
<1>3. ASSUME NEW r \in Requests,
             \/ BadBudget(r) \/ ArriveAuto(r) \/ SelectEngine(r)
             \/ \E n \in AskedFor : ArriveManual(r, n)
             \/ ReadBody(r) \/ Submitted(r) \/ Rejected(r) \/ TimesOut(r)
      PROVE  Published'
  <2>1. /\ pc[r] \notin {"reply", "exiting", "done"}
        /\ UNCHANGED <<lastResult, got>>
        /\ \A q \in Requests \ {r} : code'[q] = code[q]
    BY <1>3
    DEF BadBudget, ArriveAuto, SelectEngine, ArriveManual, ReadBody, Submitted,
        Rejected, TimesOut, Answer, sharedVars
  <2>2. \E label \in {"snapshot", "body", "submit", "waiting", "exiting"} : Goto(r, label)
    BY <1>3
    DEF BadBudget, ArriveAuto, SelectEngine, ArriveManual, ReadBody, Submitted,
        Rejected, TimesOut, Answer
  <2> QED
    BY <1>2, <2>1, <2>2 DEF HandlerStates
<1>4. ASSUME NEW r \in Requests, ReceiveResult(r) PROVE Published'
  <2>1. CASE Head(resultCh[r]) = "response" /\ Goto(r, "publish") /\ UNCHANGED code
    BY <1>4, <2>1 DEF ReceiveResult, Goto, sharedVars
  <2>2. CASE Answer(r, "error", 500)
    BY <1>4, <2>2 DEF ReceiveResult, Answer, Goto, sharedVars
  <2> QED
    BY <1>4, <2>1, <2>2 DEF ReceiveResult
<1>5. ASSUME NEW r \in Requests, Publish(r) PROVE Published'
  BY <1>5 DEF Publish, Goto
<1>6. ASSUME NEW r \in Requests, Reply(r) PROVE Published'
  BY <1>6 DEF Reply, Answer, Goto, sharedVars
<1>7. ASSUME NEW r \in Requests, Finish(r) PROVE Published'
  BY <1>7 DEF Finish, Goto
<1>8. CASE \/ \E r \in Requests : Expire(r) \/ Disconnect(r)
           \/ \E r \in Requests, e \in Engines : LookAt(r, e)
           \/ \E e \in Flaky : RecordHealth(e)
           \/ \E w \in Workers : WorkerRuns(w) \/ \E o \in Outcomes : EngineAnswers(w, o)
           \/ UNCHANGED vars
  BY <1>1, <1>8
  DEF Expire, Disconnect, LookAt, RecordHealth, WorkerRuns, EngineAnswers, handlerVars,
      sharedVars, vars
<1> QED
  BY <1>3, <1>4, <1>5, <1>6, <1>7, <1>8 DEF Next, HandlerStep

\* /last-result shows only what its own client gets, for any requests and
\* engines and in whatever order results, ends of contexts and handlers come
\* (handlers.go:237-291).
THEOREM ShownIsAnswered == Spec => []ShownWasAnswered
<1>1. Init => Published
  BY DEF Init, Published
<1>2. Published => ShownWasAnswered
  BY DEF Published, ShownWasAnswered
<1> QED
  BY <1>1, <1>2, ServerInit, ServerStep, PublishedStep, PTL DEF Spec
-----------------------------------------------------------------------------
(* The counters                                                            *)

LEMMA SubsetsAreFinite ==
  ASSUME NEW T, T \subseteq Requests
  PROVE  IsFiniteSet(T) /\ Cardinality(T) \in Nat
  BY PoolAssumption, FS_Subset, FS_CardinalityType

LEMMA OneMore ==
  ASSUME NEW T, NEW U, T \subseteq Requests, NEW r, r \notin T, U = T \cup {r}
  PROVE  Cardinality(U) = Cardinality(T) + 1
  BY SubsetsAreFinite, FS_AddElement

LEMMA OneLess ==
  ASSUME NEW T, NEW U, T \subseteq Requests, NEW r, r \in T, U = T \ {r}
  PROVE  Cardinality(U) = Cardinality(T) - 1
  BY SubsetsAreFinite, FS_RemoveElement

LEMMA CountersSame ==
  ASSUME CountsMatch, UNCHANGED <<requestsTotal, admissionRejections>>,
         \A e \in Engines : Leaving(e)' = Leaving(e),
         \A n \in EngineNames, s \in Statuses : Counted(n, s)' = Counted(n, s)
  PROVE  CountsMatch'
  BY DEF CountsMatch

\* A handler that has not answered yet, and does not answer that its request
\* was rejected, is in none of the sets.
LEMMA NotCounted ==
  ASSUME CountsMatch, HandlersInv, NEW r \in Requests,
         pc[r] \notin {"exiting", "done"},
         pc'[r] # "done", pc'[r] = "exiting" => status'[r] # "rejected",
         \A q \in Requests \ {r} : /\ pc'[q] = pc[q] /\ status'[q] = status[q]
                                   /\ engine'[q] = engine[q],
         UNCHANGED <<requestsTotal, admissionRejections>>
  PROVE  CountsMatch'
<1>1. \A e \in Engines : Leaving(e)' = Leaving(e)
  BY DEF Leaving
<1>2. \A n \in EngineNames, s \in Statuses : Counted(n, s)' = Counted(n, s)
  BY DEF Counted
<1> QED
  BY <1>1, <1>2, CountersSame

LEMMA CountersRejected ==
  ASSUME CountsMatch, HandlersInv, NEW r \in Requests, Rejected(r)
  PROVE  CountsMatch'
<1> USE DEF HandlersInv, HandlersTypeOK, SharedTypeOK
<1>1. engine[r] \in Engines /\ pc[r] = "submit"
  BY DEF Rejected, Named
<1>2. /\ pc' = [pc EXCEPT ![r] = "exiting"]
      /\ status' = [status EXCEPT ![r] = "rejected"]
      /\ admissionRejections' = [admissionRejections EXCEPT ![engine[r]] = @ + 1]
      /\ UNCHANGED <<engine, requestsTotal>>
  BY DEF Rejected, Answer, Goto
<1>3. \A n \in EngineNames, s \in Statuses : Counted(n, s)' = Counted(n, s)
  BY <1>1, <1>2 DEF Counted
<1>4. /\ Leaving(engine[r])' = Leaving(engine[r]) \cup {r}
      /\ r \notin Leaving(engine[r])
      /\ \A e \in Engines : Leaving(e) \subseteq Requests
  BY <1>1, <1>2 DEF Leaving
<1>5. \A e \in Engines \ {engine[r]} : Leaving(e)' = Leaving(e)
  BY <1>1, <1>2 DEF Leaving
<1>6. ASSUME NEW e \in Engines
      PROVE  admissionRejections'[e] =
               requestsTotal'[<<e, "rejected">>] + Cardinality(Leaving(e)')
  <2>1. /\ admissionRejections[e] =
              requestsTotal[<<e, "rejected">>] + Cardinality(Leaving(e))
        /\ <<e, "rejected">> \in EngineNames \X Statuses
        /\ Leaving(e) \subseteq Requests
    BY <1>4 DEF CountsMatch, EngineNames, Statuses
  <2>2. requestsTotal[<<e, "rejected">>] \in Nat /\ Cardinality(Leaving(e)) \in Nat
    BY <2>1, SubsetsAreFinite
  <2>3. CASE e = engine[r]
    <3>1. Leaving(e)' = Leaving(e) \cup {r} /\ r \notin Leaving(e)
      BY <1>1, <1>2, <2>3 DEF Leaving
    <3>2. Cardinality(Leaving(e)') = Cardinality(Leaving(e)) + 1
      BY <2>1, <3>1, OneMore
    <3> QED
      BY <1>1, <1>2, <2>1, <2>2, <2>3, <3>2
  <2>4. CASE e # engine[r]
    BY <1>1, <1>2, <1>5, <2>1, <2>4
  <2> QED
    BY <2>3, <2>4
<1> QED
  BY <1>2, <1>3, <1>6 DEF CountsMatch

LEMMA CountersFinish ==
  ASSUME CountsMatch, HandlersInv, NEW r \in Requests, Finish(r)
  PROVE  CountsMatch'
<1> USE DEF HandlersInv, HandlersTypeOK, SharedTypeOK
<1>1. /\ pc[r] = "exiting" /\ pc' = [pc EXCEPT ![r] = "done"]
      /\ UNCHANGED <<status, engine, admissionRejections>>
  BY DEF Finish, Goto
<1>2. CASE engine[r] = NoEngine
  <2>1. \A e \in Engines : Leaving(e)' = Leaving(e)
    BY <1>1, <1>2, ServerAssumption DEF Leaving
  <2>2. \A n \in EngineNames, s \in Statuses : Counted(n, s)' = Counted(n, s)
    BY <1>1, <1>2, ServerAssumption DEF Counted, EngineNames
  <2>3. UNCHANGED requestsTotal
    BY <1>2 DEF Finish
  <2> QED
    BY <1>1, <2>1, <2>2, <2>3, CountersSame
<1>3. CASE engine[r] # NoEngine
  <2>1. /\ engine[r] \in EngineNames /\ status[r] \in Statuses
        /\ <<engine[r], status[r]>> \in EngineNames \X Statuses
        /\ requestsTotal' = [requestsTotal EXCEPT ![<<engine[r], status[r]>>] = @ + 1]
    BY <1>3 DEF Finish
  <2>2. ASSUME NEW n \in EngineNames, NEW s \in Statuses
        PROVE  requestsTotal'[<<n, s>>] = Cardinality(Counted(n, s)')
    <3>1. /\ requestsTotal[<<n, s>>] = Cardinality(Counted(n, s))
          /\ <<n, s>> \in EngineNames \X Statuses
          /\ Counted(n, s) \subseteq Requests
      BY DEF CountsMatch, Counted
    <3>2. CASE n = engine[r] /\ s = status[r]
      <4>1. Counted(n, s)' = Counted(n, s) \cup {r} /\ r \notin Counted(n, s)
        BY <1>1, <3>2 DEF Counted
      <4>2. Cardinality(Counted(n, s)') = Cardinality(Counted(n, s)) + 1
        BY <3>1, <4>1, OneMore
      <4> QED
        BY <2>1, <3>1, <3>2, <4>2
    <3>3. CASE ~(n = engine[r] /\ s = status[r])
      <4>1. Counted(n, s)' = Counted(n, s)
        BY <1>1, <3>3 DEF Counted
      <4>2. <<n, s>> # <<engine[r], status[r]>>
        BY <3>3
      <4> QED
        BY <2>1, <3>1, <4>1, <4>2
    <3> QED
      BY <3>2, <3>3
  <2>3. ASSUME NEW e \in Engines
        PROVE  admissionRejections'[e] =
                 requestsTotal'[<<e, "rejected">>] + Cardinality(Leaving(e)')
    <3>1. /\ admissionRejections'[e] =
                requestsTotal[<<e, "rejected">>] + Cardinality(Leaving(e))
          /\ <<e, "rejected">> \in EngineNames \X Statuses
          /\ Leaving(e) \subseteq Requests
      BY <1>1 DEF CountsMatch, Leaving, EngineNames, Statuses
    <3>2. requestsTotal[<<e, "rejected">>] \in Nat /\ Cardinality(Leaving(e)) \in Nat
      BY <3>1, SubsetsAreFinite
    <3>3. CASE e = engine[r] /\ status[r] = "rejected"
      <4>1. Leaving(e)' = Leaving(e) \ {r} /\ r \in Leaving(e)
        BY <1>1, <3>3 DEF Leaving
      <4>2. Cardinality(Leaving(e)') = Cardinality(Leaving(e)) - 1
        BY <3>1, <4>1, OneLess
      <4> QED
        BY <2>1, <3>1, <3>2, <3>3, <4>2
    <3>4. CASE ~(e = engine[r] /\ status[r] = "rejected")
      <4>1. Leaving(e)' = Leaving(e)
        BY <1>1, <3>4 DEF Leaving
      <4>2. <<e, "rejected">> # <<engine[r], status[r]>>
        BY <3>4
      <4> QED
        BY <2>1, <3>1, <4>1, <4>2
    <3> QED
      BY <3>3, <3>4
  <2> QED
    BY <2>2, <2>3 DEF CountsMatch
<1> QED
  BY <1>2, <1>3

LEMMA CountersStep ==
  PoolInv /\ HandlersInv /\ CountsMatch /\ [Next]_vars => CountsMatch'
<1> SUFFICES ASSUME PoolInv, HandlersInv, CountsMatch, [Next]_vars
             PROVE  CountsMatch'
  OBVIOUS
<1>1. CASE UNCHANGED <<pc, status, engine, requestsTotal, admissionRejections>>
  BY <1>1 DEF CountsMatch, Leaving, Counted
<1>2. ASSUME NEW r \in Requests,
             \/ BadBudget(r) \/ ArriveAuto(r) \/ SelectEngine(r)
             \/ \E n \in AskedFor : ArriveManual(r, n)
             \/ ReadBody(r) \/ Submitted(r) \/ ReceiveResult(r)
             \/ Publish(r) \/ Reply(r) \/ TimesOut(r)
      PROVE  CountsMatch'
  <2>1. pc[r] \notin {"exiting", "done"}
    BY <1>2
    DEF BadBudget, ArriveAuto, SelectEngine, ArriveManual, ReadBody, Submitted,
        ReceiveResult, Publish, Reply, TimesOut
  <2>2. \/ \E label \in {"snapshot", "body", "submit", "waiting", "publish", "reply"} :
             Goto(r, label) /\ \A q \in Requests \ {r} : status'[q] = status[q]
        \/ \E s \in Statuses \ {"rejected"}, c \in Codes : Answer(r, s, c)
    <3>1. CASE BadBudget(r) \/ ReadBody(r) \/ Reply(r) \/ TimesOut(r)
      BY <3>1 DEF BadBudget, ReadBody, Reply, TimesOut, Statuses, Codes
    <3>2. CASE ArriveAuto(r) \/ SelectEngine(r) \/ \E n \in AskedFor : ArriveManual(r, n)
      BY <3>2 DEF ArriveAuto, SelectEngine, ArriveManual, Statuses, Codes
    <3>3. CASE Submitted(r) \/ Publish(r)
      BY <3>3 DEF Submitted, Publish
    <3>4. CASE ReceiveResult(r)
      BY <3>4 DEF ReceiveResult, Statuses, Codes, HandlersInv, HandlersTypeOK
    <3> QED
      BY <1>2, <3>1, <3>2, <3>3, <3>4
  <2>3. /\ \A q \in Requests \ {r} : /\ pc'[q] = pc[q] /\ status'[q] = status[q]
        /\ pc'[r] # "done" /\ (pc'[r] = "exiting" => status'[r] # "rejected")
    BY <2>2 DEF Goto, Answer, HandlersInv, HandlersTypeOK
  <2>4. /\ \A q \in Requests \ {r} : engine'[q] = engine[q]
        /\ UNCHANGED <<requestsTotal, admissionRejections>>
    BY <1>2
    DEF BadBudget, ArriveAuto, SelectEngine, ArriveManual, ReadBody, Submitted,
        ReceiveResult, Publish, Reply, TimesOut, sharedVars, HandlersInv, HandlersTypeOK
  <2> QED
    BY <2>1, <2>3, <2>4, NotCounted
<1>3. CASE \/ \E r \in Requests : Expire(r) \/ Disconnect(r)
           \/ \E r \in Requests, e \in Engines : LookAt(r, e)
           \/ \E e \in Flaky : RecordHealth(e)
           \/ \E w \in Workers : WorkerRuns(w) \/ \E o \in Outcomes : EngineAnswers(w, o)
           \/ UNCHANGED vars
  BY <1>1, <1>3
  DEF Expire, Disconnect, LookAt, RecordHealth, WorkerRuns, EngineAnswers, handlerVars,
      sharedVars, vars
<1> QED
  BY <1>2, <1>3, CountersRejected, CountersFinish DEF Next, HandlerStep

LEMMA CountsInit == Init => CountsMatch
<1> SUFFICES ASSUME Init PROVE CountsMatch
  OBVIOUS
<1>1. /\ \A e \in Engines : Leaving(e) = {}
      /\ \A n \in EngineNames, s \in Statuses : Counted(n, s) = {}
  BY DEF Init, Leaving, Counted
<1>2. Cardinality({}) = 0
  BY FS_EmptySet
<1>3. /\ \A e \in Engines : admissionRejections[e] = 0
      /\ \A n \in EngineNames, s \in Statuses : requestsTotal[<<n, s>>] = 0
  BY DEF Init
<1>4. \A e \in Engines :
        admissionRejections[e] =
          requestsTotal[<<e, "rejected">>] + Cardinality(Leaving(e))
  <2> SUFFICES ASSUME NEW e \in Engines
               PROVE  admissionRejections[e] =
                        requestsTotal[<<e, "rejected">>] + Cardinality(Leaving(e))
    OBVIOUS
  <2>1. e \in EngineNames /\ "rejected" \in Statuses
    BY DEF EngineNames, Statuses
  <2>2. Cardinality(Leaving(e)) = 0
    BY <1>1, <1>2
  <2>3. requestsTotal[<<e, "rejected">>] = 0
    BY <1>3, <2>1
  <2> QED
    BY <1>3, <2>2, <2>3
<1>5. \A n \in EngineNames, s \in Statuses :
        requestsTotal[<<n, s>>] = Cardinality(Counted(n, s))
  BY <1>1, <1>2, <1>3
<1> QED
  BY <1>4, <1>5 DEF CountsMatch

\* Where a handler has an engine and a context, and what is left of that when
\* it has returned.
Accounted ==
  \A r \in Requests :
    /\ pc[r] = "new" => engine[r] = NoEngine /\ ctx[r] = "none"
    /\ pc[r] = "snapshot" => engine[r] = NoEngine /\ ctx[r] # "none"
    /\ pc[r] \in {"body", "submit", "waiting", "publish", "reply"}
         => engine[r] # NoEngine /\ ctx[r] # "none"
    /\ pc[r] \in {"exiting", "done"}
         => (engine[r] = NoEngine <=> ctx[r] = "none" \/ status[r] = "routing_failed")

LEMMA AccountedStep ==
  HandlersInv /\ Accounted /\ [Next]_vars => Accounted'
<1> SUFFICES ASSUME HandlersInv, Accounted, [Next]_vars
             PROVE  Accounted'
  OBVIOUS
<1> USE DEF Accounted, HandlersInv, HandlersTypeOK
<1>1. CASE UNCHANGED <<pc, status, engine, ctx>>
  BY <1>1
<1>2. ASSUME NEW r \in Requests, BadBudget(r) \/ ArriveAuto(r)
      PROVE  Accounted'
  BY <1>2 DEF BadBudget, ArriveAuto, StartContext, Answer, Goto
<1>3. ASSUME NEW r \in Requests, NEW n \in AskedFor, ArriveManual(r, n)
      PROVE  Accounted'
  BY <1>3, ServerAssumption
  DEF ServerAssumption, EngineNames, ArriveManual, StartContext, Answer, Goto
<1>4. ASSUME NEW r \in Requests, SelectEngine(r)
      PROVE  Accounted'
  BY <1>4, ServerAssumption DEF ServerAssumption, SelectEngine, Choices, Answer, Goto
<1>5. ASSUME NEW r \in Requests,
             \/ ReadBody(r) \/ Submitted(r) \/ Rejected(r) \/ ReceiveResult(r)
             \/ Publish(r) \/ Reply(r) \/ TimesOut(r)
      PROVE  Accounted'
  BY <1>5
  DEF ReadBody, Submitted, Rejected, ReceiveResult, Publish, Reply, TimesOut, Answer, Goto
<1>6. ASSUME NEW r \in Requests, Finish(r)
      PROVE  Accounted'
  BY <1>6 DEF Finish, Goto
<1>7. ASSUME NEW r \in Requests, Expire(r) \/ Disconnect(r)
      PROVE  Accounted'
  BY <1>7 DEF Expire, Disconnect, handlerVars
<1>8. CASE \/ \E r \in Requests, e \in Engines : LookAt(r, e)
           \/ \E e \in Flaky : RecordHealth(e)
           \/ \E w \in Workers : WorkerRuns(w) \/ \E o \in Outcomes : EngineAnswers(w, o)
           \/ UNCHANGED vars
  BY <1>1, <1>8
  DEF LookAt, RecordHealth, WorkerRuns, EngineAnswers, handlerVars, vars
<1> QED
  BY <1>2, <1>3, <1>4, <1>5, <1>6, <1>7, <1>8 DEF Next, HandlerStep

\* What is in no count had no engine when its handler returned.
LEMMA UncountedAre ==
  ASSUME HandlersInv, CountsMatch, Accounted
  PROVE  CountersAgree
<1>1. \A r \in Requests :
        /\ status[r] \in Statuses
        /\ engine[r] \in EngineNames \/ engine[r] = NoEngine
        /\ NoEngine \notin EngineNames
  BY ServerAssumption DEF ServerAssumption, HandlersInv, HandlersTypeOK, EngineNames
<1>2. Uncounted = {r \in Requests : pc[r] = "done" /\ engine[r] = NoEngine}
  BY <1>1 DEF Uncounted, Counted
<1>3. \A r \in Requests :
        pc[r] = "done" =>
          (engine[r] = NoEngine <=> ctx[r] = "none" \/ status[r] = "routing_failed")
  BY DEF Accounted
<1> QED
  BY <1>2, <1>3 DEF CountersAgree

\* The counters account for every request whose handler has returned, once,
\* except for those whose budget did not parse and those that could not be
\* routed, for any engines and requests (handlers.go:167-171, 187-192, 228).
THEOREM CountersDoAgree == Spec => []CountersAgree
<1>1. Init => Accounted
  BY DEF Init, Accounted
<1>2. HandlersInv /\ CountsMatch /\ Accounted => CountersAgree
  BY UncountedAre
<1> QED
  BY <1>1, <1>2, CountsInit, ServerInit, ServerStep, CountersStep, AccountedStep,
     PTL DEF Spec

-----------------------------------------------------------------------------
(* The pools are used as PoolClients says                                  *)

\* What status is while the handler has not answered. It keeps the cases of
\* CallOf apart.
StatusFollowsPlace ==
  \A r \in Requests :
    /\ pc[r] \in {"new", "snapshot", "body", "submit", "waiting"} => status[r] = "unknown"
    /\ pc[r] \in {"publish", "reply"} => status[r] = "success"

LEMMA StatusInit == Init => StatusFollowsPlace
  BY DEF Init, StatusFollowsPlace

LEMMA StatusStep ==
  HandlersInv /\ StatusFollowsPlace /\ [Next]_vars => StatusFollowsPlace'
<1> SUFFICES ASSUME HandlersInv, StatusFollowsPlace, [Next]_vars
             PROVE  StatusFollowsPlace'
  OBVIOUS
<1> USE DEF StatusFollowsPlace, HandlersInv, HandlersTypeOK
<1>1. CASE UNCHANGED <<pc, status>>
  BY <1>1
<1>2. ASSUME NEW r \in Requests,
             \/ BadBudget(r) \/ ArriveAuto(r) \/ SelectEngine(r)
             \/ \E n \in AskedFor : ArriveManual(r, n)
             \/ ReadBody(r) \/ Submitted(r) \/ Rejected(r)
      PROVE  StatusFollowsPlace'
  BY <1>2
  DEF BadBudget, ArriveAuto, SelectEngine, ArriveManual, ReadBody, Submitted, Rejected,
      Goto, Answer
<1>3. ASSUME NEW r \in Requests,
             ReceiveResult(r) \/ Publish(r) \/ Reply(r) \/ TimesOut(r) \/ Finish(r)
      PROVE  StatusFollowsPlace'
  BY <1>3 DEF ReceiveResult, Publish, Reply, TimesOut, Finish, Goto, Answer
<1>4. CASE \/ \E r \in Requests : Expire(r) \/ Disconnect(r)
           \/ \E r \in Requests, e \in Engines : LookAt(r, e)
           \/ \E e \in Flaky : RecordHealth(e)
           \/ \E w \in Workers : WorkerRuns(w) \/ \E o \in Outcomes : EngineAnswers(w, o)
           \/ UNCHANGED vars
  BY <1>1, <1>4
  DEF Expire, Disconnect, LookAt, RecordHealth, WorkerRuns, EngineAnswers, handlerVars, vars
<1> QED
  BY <1>2, <1>3, <1>4 DEF Next, HandlerStep

\* The call of a handler, by its place and its status.
LEMMA CallByPlace ==
  ASSUME StatusFollowsPlace, NEW r \in Requests
  PROVE  /\ pc[r] = "waiting" => CallOf(r) = "waiting"
         /\ pc[r] \in {"new", "snapshot", "body", "submit"} => CallOf(r) = "new"
         /\ pc[r] # "waiting" =>
              /\ status[r] = "rejected" => CallOf(r) = "rejected"
              /\ status[r] \in {"error", "success"} => CallOf(r) = "received"
              /\ status[r] = "timeout" => CallOf(r) = "gone"
              /\ status[r] \notin {"rejected", "error", "success", "timeout"}
                   => CallOf(r) = "new"
  BY DEF StatusFollowsPlace, CallOf

TargetOf(r) == IF CallOf(r) \in {"new", "rejected"} THEN NoEngine ELSE engine[r]

\* A step that moves neither a pool nor a call is a stutter of the pools.
LEMMA CallsSame ==
  ASSUME UNCHANGED poolVars,
         \A r \in Requests : CallOf(r)' = CallOf(r) /\ TargetOf(r)' = TargetOf(r)
  PROVE  UNCHANGED Pools!vars
  BY DEF Pools!vars, Pools!poolVars, poolVars, TargetOf

\* A step of the handler of r leaves the calls of the others alone.
LEMMA OthersSame ==
  ASSUME NEW r \in Requests,
         \A q \in Requests \ {r} : /\ pc'[q] = pc[q] /\ status'[q] = status[q]
                                   /\ engine'[q] = engine[q]
  PROVE  \A q \in Requests \ {r} : CallOf(q)' = CallOf(q) /\ TargetOf(q)' = TargetOf(q)
  BY DEF CallOf, TargetOf

\* From no call to a call: what the maps become when only r has moved.
LEMMA CallMoves ==
  ASSUME NEW r \in Requests, NEW c, NEW e,
         CallOf(r)' = c, TargetOf(r)' = e,
         \A q \in Requests \ {r} : CallOf(q)' = CallOf(q) /\ TargetOf(q)' = TargetOf(q)
  PROVE  /\ [q \in Requests |-> CallOf(q)]'
              = [[q \in Requests |-> CallOf(q)] EXCEPT ![r] = c]
         /\ [q \in Requests |-> TargetOf(q)]'
              = [[q \in Requests |-> TargetOf(q)] EXCEPT ![r] = e]
  OBVIOUS

LEMMA CallByPlaceNext ==
  ASSUME StatusFollowsPlace', NEW r \in Requests
  PROVE  /\ pc'[r] = "waiting" => CallOf(r)' = "waiting"
         /\ pc'[r] \in {"new", "snapshot", "body", "submit"} => CallOf(r)' = "new"
         /\ pc'[r] # "waiting" =>
              /\ status'[r] = "rejected" => CallOf(r)' = "rejected"
              /\ status'[r] \in {"error", "success"} => CallOf(r)' = "received"
              /\ status'[r] = "timeout" => CallOf(r)' = "gone"
              /\ status'[r] \notin {"rejected", "error", "success", "timeout"}
                   => CallOf(r)' = "new"
  BY DEF StatusFollowsPlace, CallOf

\* The instance has the steps of WorkerPool under names of its own.
LEMMA SamePools ==
  ASSUME NEW e \in Engines, NEW r \in Requests
  PROVE  /\ SubmitTrue(e, r) => Pools!SubmitTrue(e, r)
         /\ SubmitFalse(e) => Pools!SubmitFalse(e)
  BY DEF SubmitTrue, HandOff, Enqueue, SubmitFalse, ParkedOn, WorkersOf, NumWorkers,
         Capacity, poolVars, Pools!SubmitTrue, Pools!HandOff, Pools!Enqueue,
         Pools!SubmitFalse, Pools!ParkedOn, Pools!WorkersOf, Pools!NumWorkers,
         Pools!Capacity, Pools!poolVars

LEMMA WorkersStepInPools ==
  ASSUME NEW w \in Workers,
         UNCHANGED <<pc, status, engine>>,
         \/ Park(w) \/ Take(w) \/ Deliver(w)
         \/ \E o \in Outcomes : PredictReturns(w, o)
  PROVE  Pools!Next
<1>1. \A r \in Requests : CallOf(r)' = CallOf(r) /\ TargetOf(r)' = TargetOf(r)
  BY DEF CallOf, TargetOf
<1>2. \/ Pools!Park(w) \/ Pools!Take(w) \/ Pools!Deliver(w)
      \/ \E o \in Outcomes : Pools!PredictReturns(w, o)
  BY DEF Park, Take, Deliver, PredictReturns, ResultCap, Pools!Park, Pools!Take,
         Pools!Deliver, Pools!PredictReturns, Pools!ResultCap
<1>3. w \in Pools!Workers
  BY DEF Workers, NumWorkers, Pools!Workers, Pools!NumWorkers
<1>4. /\ [r \in Requests |-> CallOf(r)]' = [r \in Requests |-> CallOf(r)]
      /\ [r \in Requests |-> TargetOf(r)]' = [r \in Requests |-> TargetOf(r)]
  BY <1>1
<1>5. Pools!WorkerStep(w)
  BY <1>2, <1>4 DEF Pools!WorkerStep, TargetOf
<1> QED
  BY <1>3, <1>5 DEF Pools!Next

LEMMA SubmittedInPools ==
  ASSUME HandlersInv, StatusFollowsPlace, StatusFollowsPlace', NEW r \in Requests,
         Submitted(r)
  PROVE  Pools!Next
<1> USE DEF HandlersInv, HandlersTypeOK
<1>1. /\ pc[r] = "submit" /\ pc'[r] = "waiting" /\ engine' = engine
      /\ engine[r] \in Engines /\ SubmitTrue(engine[r], r)
      /\ \A q \in Requests \ {r} : /\ pc'[q] = pc[q] /\ status'[q] = status[q]
                                   /\ engine'[q] = engine[q]
  BY DEF Submitted, Goto, Named
<1>2. CallOf(r) = "new" /\ CallOf(r)' = "waiting"
  BY <1>1, CallByPlace, CallByPlaceNext
<1>3. TargetOf(r)' = engine[r]
  BY <1>1, <1>2 DEF TargetOf
<1>4. /\ [q \in Requests |-> CallOf(q)]'
           = [[q \in Requests |-> CallOf(q)] EXCEPT ![r] = "waiting"]
      /\ [q \in Requests |-> TargetOf(q)]'
           = [[q \in Requests |-> TargetOf(q)] EXCEPT ![r] = engine[r]]
  BY <1>1, <1>2, <1>3, OthersSame, CallMoves
<1>5. Pools!SubmitAccepted(engine[r], r)
  BY <1>1, <1>2, <1>4, SamePools DEF Pools!SubmitAccepted, TargetOf
<1> QED
  BY <1>1, <1>5 DEF Pools!Next

LEMMA RejectedInPools ==
  ASSUME HandlersInv, StatusFollowsPlace, StatusFollowsPlace', NEW r \in Requests,
         Rejected(r)
  PROVE  Pools!Next /\ Pools!SubmitRejected(engine[r], r)
<1> USE DEF HandlersInv, HandlersTypeOK
<1>1. /\ pc[r] = "submit" /\ pc'[r] = "exiting" /\ status'[r] = "rejected"
      /\ engine' = engine /\ engine[r] \in Engines /\ SubmitFalse(engine[r])
      /\ \A q \in Requests \ {r} : /\ pc'[q] = pc[q] /\ status'[q] = status[q]
                                   /\ engine'[q] = engine[q]
  BY DEF Rejected, Answer, Goto, Named
<1>2. CallOf(r) = "new" /\ CallOf(r)' = "rejected"
  BY <1>1, CallByPlace, CallByPlaceNext
<1>3. TargetOf(r)' = NoEngine /\ TargetOf(r) = NoEngine
  BY <1>2 DEF TargetOf
<1>4. /\ [q \in Requests |-> CallOf(q)]'
           = [[q \in Requests |-> CallOf(q)] EXCEPT ![r] = "rejected"]
      /\ [q \in Requests |-> TargetOf(q)]'
           = [[q \in Requests |-> TargetOf(q)] EXCEPT ![r] = NoEngine]
  BY <1>1, <1>2, <1>3, OthersSame, CallMoves
<1>5. [q \in Requests |-> TargetOf(q)]' = [q \in Requests |-> TargetOf(q)]
  BY <1>3, <1>4
<1>6. Pools!SubmitRejected(engine[r], r)
  BY <1>1, <1>2, <1>4, <1>5, SamePools DEF Pools!SubmitRejected, TargetOf
<1> QED
  BY <1>1, <1>6 DEF Pools!Next

\* Receiving a result and giving up leave the target as it was.
LEMMA WaitingEnds ==
  ASSUME HandlersInv, StatusFollowsPlace, StatusFollowsPlace', NEW r \in Requests,
         ReceiveResult(r) \/ TimesOut(r)
  PROVE  Pools!Next
<1> USE DEF HandlersInv, HandlersTypeOK
<1>1. /\ pc[r] = "waiting" /\ pc'[r] # "waiting" /\ engine' = engine
      /\ \A q \in Requests \ {r} : /\ pc'[q] = pc[q] /\ status'[q] = status[q]
                                   /\ engine'[q] = engine[q]
  BY DEF ReceiveResult, TimesOut, Answer, Goto
<1>2. /\ ReceiveResult(r) => status'[r] \in {"success", "error"}
      /\ TimesOut(r) => status'[r] = "timeout"
  BY DEF ReceiveResult, TimesOut, Answer, Goto
<1>3. /\ CallOf(r) = "waiting"
      /\ ReceiveResult(r) => CallOf(r)' = "received"
      /\ TimesOut(r) => CallOf(r)' = "gone"
  BY <1>1, <1>2, CallByPlace, CallByPlaceNext
<1>4. TargetOf(r)' = engine[r] /\ TargetOf(r) = engine[r]
  BY <1>1, <1>3 DEF TargetOf
<1>5. /\ [q \in Requests |-> CallOf(q)]'
           = [[q \in Requests |-> CallOf(q)] EXCEPT ![r] = CallOf(r)']
      /\ [q \in Requests |-> TargetOf(q)]' = [q \in Requests |-> TargetOf(q)]
  BY <1>1, <1>4, OthersSame
<1>6. CASE ReceiveResult(r)
  <2>1. Pools!Receive(r)
    BY <1>3, <1>5, <1>6 DEF ReceiveResult, Pools!Receive, TargetOf
  <2> QED
    BY <2>1 DEF Pools!Next
<1>7. CASE TimesOut(r)
  <2>1. Pools!Abandon(r)
    BY <1>3, <1>5, <1>7 DEF TimesOut, Pools!Abandon, TargetOf, poolVars, Pools!poolVars
  <2> QED
    BY <2>1 DEF Pools!Next
<1> QED
  BY <1>6, <1>7

\* All other steps of a handler are none of the pools.
LEMMA QuietSteps ==
  ASSUME HandlersInv, StatusFollowsPlace, StatusFollowsPlace', NEW r \in Requests,
         \/ BadBudget(r) \/ ArriveAuto(r) \/ SelectEngine(r)
         \/ \E n \in AskedFor : ArriveManual(r, n)
         \/ ReadBody(r) \/ Publish(r) \/ Reply(r) \/ Finish(r)
  PROVE  UNCHANGED Pools!vars
<1> USE DEF HandlersInv, HandlersTypeOK
<1>1. UNCHANGED poolVars
  BY DEF BadBudget, ArriveAuto, SelectEngine, ArriveManual, ReadBody, Publish, Reply, Finish
<1>2. \A q \in Requests \ {r} : /\ pc'[q] = pc[q] /\ status'[q] = status[q]
                                /\ engine'[q] = engine[q]
  BY DEF BadBudget, ArriveAuto, SelectEngine, ArriveManual, ReadBody, Publish, Reply, Finish,
         Answer, Goto
<1>3. CallOf(r)' = CallOf(r) /\ TargetOf(r)' = TargetOf(r)
  <2>1. CASE \/ BadBudget(r) \/ ArriveAuto(r) \/ SelectEngine(r) \/ ReadBody(r)
             \/ \E n \in AskedFor : ArriveManual(r, n)
    <3>1. /\ pc[r] \in {"new", "snapshot", "body"}
          /\ \/ pc'[r] \in {"snapshot", "body", "submit"}
             \/ /\ pc'[r] = "exiting"
                /\ status'[r] \in {"bad_request", "engine_unhealthy", "routing_failed"}
      BY <2>1 DEF BadBudget, ArriveAuto, SelectEngine, ArriveManual, ReadBody, Answer, Goto
    <3>2. CallOf(r) = "new" /\ CallOf(r)' = "new"
      BY <3>1, CallByPlace, CallByPlaceNext
    <3> QED
      BY <3>2 DEF TargetOf
  <2>2. CASE Publish(r) \/ Reply(r)
    <3>1. /\ pc[r] \in {"publish", "reply"} /\ pc'[r] \in {"reply", "exiting"}
          /\ status[r] = "success" /\ status'[r] = "success" /\ engine' = engine
      BY <2>2 DEF Publish, Reply, Answer, Goto, StatusFollowsPlace
    <3>2. CallOf(r) = "received" /\ CallOf(r)' = "received"
      BY <3>1, CallByPlace, CallByPlaceNext
    <3> QED
      BY <3>1, <3>2 DEF TargetOf
  <2>3. CASE Finish(r)
    <3>1. /\ pc[r] = "exiting" /\ pc'[r] = "done" /\ status'[r] = status[r]
          /\ engine' = engine
      BY <2>3 DEF Finish, Goto
    <3> QED
      BY <3>1 DEF CallOf, TargetOf
  <2> QED
    BY <2>1, <2>2, <2>3
<1> QED
  BY <1>1, <1>2, <1>3, OthersSame, CallsSame

LEMMA PoolsStep ==
  ASSUME HandlersInv, StatusFollowsPlace, StatusFollowsPlace', [Next]_vars
  PROVE  [Pools!Next]_(Pools!vars)
<1>1. CASE \/ \E r \in Requests : Expire(r) \/ Disconnect(r)
           \/ \E r \in Requests, e \in Engines : LookAt(r, e)
           \/ \E e \in Flaky : RecordHealth(e)
           \/ UNCHANGED vars
  <2>1. UNCHANGED <<poolVars, pc, status, engine>>
    BY <1>1 DEF Expire, Disconnect, LookAt, RecordHealth, handlerVars, vars
  <2> QED
    BY <2>1, CallsSame DEF CallOf, TargetOf
<1>2. ASSUME NEW w \in Workers,
             WorkerRuns(w) \/ \E o \in Outcomes : EngineAnswers(w, o)
      PROVE  Pools!Next
  <2>1. UNCHANGED <<pc, status, engine>>
    BY <1>2 DEF WorkerRuns, EngineAnswers, handlerVars
  <2> QED
    BY <1>2, <2>1, WorkersStepInPools DEF WorkerRuns, EngineAnswers
<1> QED
  BY <1>1, <1>2, SubmittedInPools, RejectedInPools, WaitingEnds, QuietSteps
  DEF Next, HandlerStep

\* Under the handlers the pools behave as PoolClients says, for any engines,
\* workers, requests and queue sizes, so that what is proved of PoolClients
\* holds of the server (handlers.go:224-291).
THEOREM PoolsAreUsedCorrectly == Spec => UsesPoolsCorrectly
<1>1. Init => Pools!Init
  <2> SUFFICES ASSUME Init PROVE Pools!Init
    OBVIOUS
  <2>1. \A r \in Requests : CallOf(r) = "new"
    BY StatusInit, CallByPlace DEF Init
  <2>2. Pools!PoolInit
    BY DEF Init, PoolInit, Workers, NumWorkers, Pools!PoolInit, Pools!Workers,
           Pools!NumWorkers
  <2> QED
    BY <2>1, <2>2 DEF Pools!Init
<1> QED
  BY <1>1, StatusInit, StatusStep, ServerInit, ServerStep, PoolsStep, PTL
  DEF Spec, UsesPoolsCorrectly

-----------------------------------------------------------------------------
(* What PoolClients promises holds under the handlers                      *)

\* PoolClients with its theorems; Pools without.
Proved == INSTANCE PoolClientsProofs WITH
  call <- [r \in Requests |-> CallOf(r)],
  target <- [r \in Requests |-> TargetOf(r)],
  closer <- [e \in Engines |-> "idle"]

LEMMA SameConstants ==
  /\ Proved!PoolAssumption /\ Proved!ClientAssumption
  /\ Proved!Workers = Pools!Workers
  /\ Proved!NumWorkers = Pools!NumWorkers
  /\ Proved!Capacity = Pools!Capacity
  /\ Proved!ResultCap = Pools!ResultCap
  /\ \A e : Proved!WorkersOf(e) = Pools!WorkersOf(e)
  BY PoolAssumption, ServerAssumption
  DEF PoolAssumption, ServerAssumption, IsFiniteSet, Proved!IsFiniteSet,
      Proved!PoolAssumption, Proved!ClientAssumption, Proved!Workers,
      Proved!NumWorkers, Proved!Capacity, Proved!ResultCap, Proved!WorkersOf,
      Pools!Workers, Pools!NumWorkers, Pools!Capacity, Pools!ResultCap,
      Pools!WorkersOf

LEMMA SameInit == Pools!Init => Proved!Init
  BY SameConstants
  DEF Pools!Init, Pools!PoolInit, Proved!Init, Proved!PoolInit, TargetOf

LEMMA SameUnchanged == UNCHANGED Pools!vars => UNCHANGED Proved!vars
  BY DEF Pools!vars, Pools!poolVars, Proved!vars, Proved!poolVars, TargetOf

LEMMA SameSubmit ==
  ASSUME NEW e \in Engines, NEW r \in Requests
  PROVE  /\ Pools!SubmitAccepted(e, r) => Proved!SubmitAccepted(e, r)
         /\ Pools!SubmitRejected(e, r) => Proved!SubmitRejected(e, r)
         /\ Pools!SubmitAfterClose(e, r) => Proved!SubmitAfterClose(e, r)
<1> USE SameConstants
    DEF Pools!poolVars, Pools!ParkedOn, Proved!poolVars, Proved!ParkedOn, TargetOf
<1>1. Pools!SubmitAccepted(e, r) => Proved!SubmitAccepted(e, r)
  BY DEF Pools!SubmitAccepted, Pools!SubmitTrue, Pools!HandOff, Pools!Enqueue,
         Proved!SubmitAccepted, Proved!SubmitTrue, Proved!HandOff, Proved!Enqueue
<1>2. Pools!SubmitRejected(e, r) => Proved!SubmitRejected(e, r)
  BY DEF Pools!SubmitRejected, Pools!SubmitFalse, Proved!SubmitRejected,
         Proved!SubmitFalse
<1>3. Pools!SubmitAfterClose(e, r) => Proved!SubmitAfterClose(e, r)
  BY DEF Pools!SubmitAfterClose, Pools!SubmitPanics, Proved!SubmitAfterClose,
         Proved!SubmitPanics
<1> QED
  BY <1>1, <1>2, <1>3

LEMMA SameCaller ==
  ASSUME NEW r \in Requests
  PROVE  /\ Pools!Receive(r) => Proved!Receive(r)
         /\ Pools!Abandon(r) => Proved!Abandon(r)
  BY DEF Pools!Receive, Pools!Abandon, Pools!poolVars, Proved!Receive, Proved!Abandon,
         Proved!poolVars, TargetOf

LEMMA SameCloser ==
  ASSUME NEW e \in Engines
  PROVE  /\ Pools!CloseBegin(e) => Proved!CloseBegin(e)
         /\ Pools!CloseReturn(e) => Proved!CloseReturn(e)
  BY SameConstants
  DEF Pools!CloseBegin, Pools!CloseQueue, Pools!CloseReturn, Pools!AllExited,
      Pools!ParkedOn, Pools!poolVars, Proved!CloseBegin, Proved!CloseQueue,
      Proved!CloseReturn, Proved!AllExited, Proved!ParkedOn, Proved!poolVars, TargetOf

LEMMA SameWorker ==
  ASSUME NEW w \in Pools!Workers
  PROVE  Pools!WorkerStep(w) => Proved!WorkerStep(w)
  BY SameConstants
  DEF Pools!WorkerStep, Pools!Park, Pools!Take, Pools!Exit, Pools!PredictReturns,
      Pools!Deliver, Proved!WorkerStep, Proved!Park, Proved!Take, Proved!Exit,
      Proved!PredictReturns, Proved!Deliver, TargetOf

LEMMA SameNext == [Pools!Next]_(Pools!vars) => [Proved!Next]_(Proved!vars)
<1>1. Pools!Terminated => UNCHANGED Pools!vars
  BY DEF Pools!Terminated
<1> QED
  BY <1>1, SameConstants, SameUnchanged, SameSubmit, SameCaller, SameCloser, SameWorker
  DEF Pools!Next, Proved!Next

LEMMA SamePromises ==
  /\ Proved!ExactlyOnce => Pools!ExactlyOnce
  /\ Proved!StaysOnTarget => Pools!StaysOnTarget
  /\ Proved!NoLostWakeup => Pools!NoLostWakeup
  /\ Proved!SendNeverBlocks => Pools!SendNeverBlocks
  /\ Proved!BoundedLoad => Pools!BoundedLoad
<1> USE SameConstants
    DEF Pools!Accepted, Pools!InQueue, Pools!Held, Pools!Delivered, Proved!Accepted,
        Proved!InQueue, Proved!Held, Proved!Delivered, TargetOf
<1>1. Proved!ExactlyOnce => Pools!ExactlyOnce
  BY DEF Pools!ExactlyOnce, Pools!OnePlace, Pools!QueuedOnce, Pools!HeldOnce,
         Proved!ExactlyOnce, Proved!OnePlace, Proved!QueuedOnce, Proved!HeldOnce
<1>2. /\ Proved!StaysOnTarget => Pools!StaysOnTarget
      /\ Proved!NoLostWakeup => Pools!NoLostWakeup
      /\ Proved!SendNeverBlocks => Pools!SendNeverBlocks
  BY DEF Pools!StaysOnTarget, Pools!NoLostWakeup, Pools!SendNeverBlocks,
         Proved!StaysOnTarget, Proved!NoLostWakeup, Proved!SendNeverBlocks
<1>3. Proved!BoundedLoad => Pools!BoundedLoad
  BY DEF Pools!BoundedLoad, Pools!Outstanding, Pools!Cardinality, Pools!IsFiniteSet,
         Proved!BoundedLoad, Proved!Outstanding, Proved!Cardinality, Proved!IsFiniteSet
<1> QED
  BY <1>1, <1>2, <1>3

\* What a rejection shows: a request the engine still owes an answer for, or
\* a worker between two receives.
LoadOf(e) == Pools!Outstanding(e) # {} \/ \E w \in WorkersOf(e) : wst[w] = "ready"

LEMMA SameLoad ==
  ASSUME NEW e \in Engines,
         \/ Proved!Outstanding(e) # {}
         \/ \E w \in Proved!WorkersOf(e) : wst[w] = "ready"
  PROVE  LoadOf(e)
<1>1. Proved!Outstanding(e) = Pools!Outstanding(e)
  BY DEF Pools!Outstanding, Pools!Accepted, Pools!Delivered, Proved!Outstanding,
         Proved!Accepted, Proved!Delivered, TargetOf
<1>2. Proved!WorkersOf(e) = WorkersOf(e)
  BY DEF Proved!WorkersOf, Proved!NumWorkers, WorkersOf, NumWorkers
<1> QED
  BY <1>1, <1>2 DEF LoadOf

\* The invariant of PoolClients holds of the pools under the handlers.
LEMMA PoolsHold == Spec => []Proved!IInv
<1>1. Pools!Init => Proved!IInv
  BY SameInit, SameConstants, Proved!IInvInit
<1>2. Proved!IInv /\ [Pools!Next]_(Pools!vars) => Proved!IInv'
  BY SameNext, SameConstants, Proved!IInvStep
<1> QED
  BY <1>1, <1>2, PoolsAreUsedCorrectly, PTL DEF UsesPoolsCorrectly

\* Under the handlers too, for any engines, workers, requests, budgets and
\* verdicts, no request is lost or served twice when its handler gives up,
\* each stays with the engine that was chosen for it, no worker sleeps while
\* a request waits or is stuck on a handler that has gone, and no engine is
\* owed more results than its queue and workers hold (handlers.go:224-291
\* over pool.go:63-81).
THEOREM ServerKeepsPoolPromises ==
  Spec => [](/\ Pools!ExactlyOnce
             /\ Pools!StaysOnTarget
             /\ Pools!NoLostWakeup
             /\ Pools!SendNeverBlocks
             /\ Pools!BoundedLoad)
<1>1. Proved!IInv => /\ Pools!ExactlyOnce
                     /\ Pools!StaysOnTarget
                     /\ Pools!NoLostWakeup
                     /\ Pools!SendNeverBlocks
                     /\ Pools!BoundedLoad
  BY SamePromises, SameConstants, Proved!RoomToDeliver, Proved!OwesWhatItHolds
  DEF Proved!IInv, Proved!Placement
<1> QED
  BY <1>1, PoolsHold, PTL

\* A client that is turned away with 503 "rejected" was turned away by an
\* engine with work: the handler's only call of Submit fails for no other
\* reason (handlers.go:226-235 over pool.go:74-81).
THEOREM RejectionMeansLoad ==
  Spec => [][\A r \in Requests : Rejected(r) => LoadOf(engine[r])]_vars
<1>1. ASSUME HandlersInv, StatusFollowsPlace, StatusFollowsPlace', Proved!IInv,
             NEW r \in Requests, Rejected(r)
      PROVE  LoadOf(engine[r])
  <2>1. engine[r] \in Engines
    BY <1>1 DEF Rejected, HandlersInv, Named
  <2>2. Proved!SubmitRejected(engine[r], r)
    BY <1>1, <2>1, RejectedInPools, SameSubmit
  <2>3. \/ Proved!Outstanding(engine[r]) # {}
        \/ \E w \in Proved!WorkersOf(engine[r]) : wst[w] = "ready"
    BY <1>1, <2>1, <2>2, SameConstants, Proved!RejectionShowsWork
  <2> QED
    BY <2>1, <2>3, SameLoad
<1>2. HandlersInv /\ StatusFollowsPlace /\ StatusFollowsPlace' /\ Proved!IInv
        /\ [Next]_vars =>
          [\A r \in Requests : Rejected(r) => LoadOf(engine[r])]_vars
  BY <1>1
<1> QED
  BY <1>2, PoolsHold, StatusInit, StatusStep, ServerInit, ServerStep, PTL DEF Spec

\* Nor is a request served twice under the handlers: once its result is in the
\* channel or read, whether or not its handler has answered 504 meanwhile, it is
\* in no queue and at no worker again.
THEOREM ServerServesOnce ==
  Spec => \A r \in Requests :
            [](Pools!Delivered(r) => []~(Pools!InQueue(r) \/ Pools!Held(r)))
<1> SUFFICES ASSUME NEW r \in Requests
             PROVE  Spec => [](Pools!Delivered(r)
                               => []~(Pools!InQueue(r) \/ Pools!Held(r)))
  OBVIOUS
<1>1. /\ Pools!Delivered(r) => Proved!Delivered(r)
      /\ Pools!InQueue(r) => Proved!InQueue(r)
      /\ Pools!Held(r) => Proved!Held(r)
  BY SameConstants
  DEF Pools!Delivered, Pools!InQueue, Pools!Held, Proved!Delivered, Proved!InQueue,
      Proved!Held
<1>2. Proved!IInv /\ Proved!Delivered(r) /\ [Pools!Next]_(Pools!vars)
        => Proved!Delivered(r)'
  BY SameNext, SameConstants, Proved!DeliveredStep
<1>3. Proved!IInv /\ Proved!Delivered(r) => ~Proved!InQueue(r) /\ ~Proved!Held(r)
  BY DEF Proved!IInv, Proved!Placement, Proved!ExactlyOnce, Proved!OnePlace
<1> QED
  BY <1>1, <1>2, <1>3, PoolsHold, PoolsAreUsedCorrectly, PTL DEF UsesPoolsCorrectly

-----------------------------------------------------------------------------
(* Dead engines are left alone                                             *)

\* A request that has not been routed has seen no engine.
Unrouted == \A r \in Requests : pc[r] = "new" => seen[r] = {}

\* Request r is not on its way to e and will not get there by the snapshot
\* it has so far.
Away(r, e) ==
  /\ e \notin seen[r]
  /\ pc[r] \in {"body", "submit", "waiting"} => engine[r] # e

LEMMA UnroutedStep == HandlersInv /\ Unrouted /\ [Next]_vars => Unrouted'
<1> SUFFICES ASSUME HandlersInv, Unrouted, [Next]_vars
             PROVE  Unrouted'
  OBVIOUS
<1> USE DEF Unrouted, HandlersInv, HandlersTypeOK, Goto, Answer
<1>1. CASE UNCHANGED vars
  BY <1>1 DEF vars, handlerVars
<1>2. ASSUME NEW r \in Requests,
             \/ BadBudget(r) \/ ArriveAuto(r) \/ SelectEngine(r)
             \/ \E n \in AskedFor : ArriveManual(r, n)
             \/ \E e \in Engines : LookAt(r, e)
      PROVE  Unrouted'
  BY <1>2 DEF BadBudget, ArriveAuto, SelectEngine, ArriveManual, LookAt
<1>3. ASSUME NEW r \in Requests,
             \/ ReadBody(r) \/ Submitted(r) \/ Rejected(r) \/ ReceiveResult(r)
             \/ Publish(r) \/ Reply(r) \/ TimesOut(r) \/ Finish(r)
      PROVE  Unrouted'
  BY <1>3 DEF ReadBody, Submitted, Rejected, ReceiveResult, Publish, Reply, TimesOut, Finish
<1>4. CASE \/ \E r \in Requests : Expire(r) \/ Disconnect(r)
           \/ \E e \in Flaky : RecordHealth(e)
           \/ \E w \in Workers : WorkerRuns(w) \/ \E o \in Outcomes : EngineAnswers(w, o)
  BY <1>4 DEF Expire, Disconnect, RecordHealth, WorkerRuns, EngineAnswers, handlerVars
<1> QED
  BY <1>1, <1>2, <1>3, <1>4 DEF Next, HandlerStep

LEMMA AwayStep ==
  ASSUME NEW r \in Requests, NEW e \in Engines,
         HandlersInv, Away(r, e), ~healthy[e], [Next]_vars
  PROVE  Away(r, e)'
<1> USE DEF Away, HandlersInv, HandlersTypeOK, Goto, Answer
<1>1. CASE UNCHANGED vars
  BY <1>1 DEF vars, handlerVars
<1>2. ASSUME NEW q \in Requests, BadBudget(q) \/ ArriveAuto(q) PROVE Away(r, e)'
  BY <1>2 DEF BadBudget, ArriveAuto
<1>3. ASSUME NEW q \in Requests, NEW n \in AskedFor, ArriveManual(q, n)
      PROVE  Away(r, e)'
  BY <1>3 DEF ArriveManual, IsHealthy
<1>4. ASSUME NEW q \in Requests, NEW f \in Engines, LookAt(q, f) PROVE Away(r, e)'
  BY <1>4 DEF LookAt, IsHealthy
<1>5. ASSUME NEW q \in Requests, SelectEngine(q) PROVE Away(r, e)'
  BY <1>5 DEF SelectEngine, Choices
<1>6. ASSUME NEW q \in Requests,
             \/ ReadBody(q) \/ Submitted(q) \/ Rejected(q) \/ ReceiveResult(q)
             \/ Publish(q) \/ Reply(q) \/ TimesOut(q) \/ Finish(q)
      PROVE  Away(r, e)'
  BY <1>6 DEF ReadBody, Submitted, Rejected, ReceiveResult, Publish, Reply, TimesOut, Finish
<1>7. CASE \/ \E q \in Requests : Expire(q) \/ Disconnect(q)
           \/ \E f \in Flaky : RecordHealth(f)
           \/ \E w \in Workers : WorkerRuns(w) \/ \E o \in Outcomes : EngineAnswers(w, o)
  BY <1>7 DEF Expire, Disconnect, RecordHealth, WorkerRuns, EngineAnswers, handlerVars
<1> QED
  BY <1>1, <1>2, <1>3, <1>4, <1>5, <1>6, <1>7 DEF Next, HandlerStep

\* An engine that is recorded as dead when a request arrives, and stays so,
\* does not get the request: not by name, and not by the policy, whose
\* snapshot never has it (handlers.go, HandlePredict and engineStates).
THEOREM DeadAreExcluded == Spec => DeadEnginesExcluded
<1> SUFFICES ASSUME NEW r \in Requests, NEW e \in Engines
             PROVE  Spec => []((pc[r] = "new" /\ []~healthy[e])
                                 => []~(pc[r] = "waiting" /\ engine[r] = e))
  BY DEF DeadEnginesExcluded
<1>1. Init => Unrouted
  BY DEF Init, Unrouted
<1>2. Unrouted /\ pc[r] = "new" => Away(r, e)
  BY DEF Unrouted, Away
<1>3. HandlersInv /\ Away(r, e) /\ ~healthy[e] /\ [Next]_vars => Away(r, e)'
  BY AwayStep
<1>4. Away(r, e) => ~(pc[r] = "waiting" /\ engine[r] = e)
  BY DEF Away
<1> QED
  BY <1>1, <1>2, <1>3, <1>4, UnroutedStep, ServerInit, ServerStep, PTL DEF Spec
=============================================================================
