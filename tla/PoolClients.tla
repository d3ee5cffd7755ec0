---------------------------- MODULE PoolClients ----------------------------
(***************************************************************************)
(* The worker pools of WorkerPool with everything that calls them: one     *)
(* caller per request, which submits it to a pool and then waits for the   *)
(* result or gives up, and one closer per pool.                            *)
(*                                                                         *)
(* The contract of a caller is the comment on workerpool.Request: it owns  *)
(* the Result channel and reads one value from it. HandlePredict honours   *)
(* it with a channel of capacity one, from which it reads at most once.    *)
(***************************************************************************)
EXTENDS WorkerPool

CONSTANT NoEngine   \* the target of a request that was not accepted

ASSUME ClientAssumption == NoEngine \notin Engines

VARIABLES
  call,     \* call[r]: where the caller of r is
  target,   \* target[r]: the engine whose pool accepted r
  closer    \* closer[e]: where the caller of Close on e's pool is

vars == <<poolVars, call, target, closer>>

\* "gone": the caller stopped waiting, its context being done.
CallStates == {"new", "waiting", "rejected", "panicked", "received", "gone"}
CloserStates == {"idle", "draining", "returned"}

Init ==
  /\ PoolInit
  /\ call = [r \in Requests |-> "new"]
  /\ target = [r \in Requests |-> NoEngine]
  /\ closer = [e \in Engines |-> "idle"]

-----------------------------------------------------------------------------
(* The callers                                                             *)

SubmitAccepted(e, r) ==
  /\ call[r] = "new"
  /\ SubmitTrue(e, r)
  /\ call' = [call EXCEPT ![r] = "waiting"]
  /\ target' = [target EXCEPT ![r] = e]
  /\ UNCHANGED closer

SubmitRejected(e, r) ==
  /\ call[r] = "new"
  /\ SubmitFalse(e)
  /\ call' = [call EXCEPT ![r] = "rejected"]
  /\ UNCHANGED <<target, closer>>

\* Submit on a closed pool unwinds the caller.
SubmitAfterClose(e, r) ==
  /\ call[r] = "new"
  /\ SubmitPanics(e)
  /\ call' = [call EXCEPT ![r] = "panicked"]
  /\ UNCHANGED <<target, closer>>

\* case result := <-resultCh
Receive(r) ==
  /\ call[r] = "waiting"
  /\ resultCh[r] # <<>>
  /\ resultCh' = [resultCh EXCEPT ![r] = Tail(@)]
  /\ call' = [call EXCEPT ![r] = "received"]
  /\ UNCHANGED <<queue, closed, wst, holding, outcome, target, closer>>

\* case <-ctx.Done(): the request stays wherever it is in the pool.
Abandon(r) ==
  /\ call[r] = "waiting"
  /\ call' = [call EXCEPT ![r] = "gone"]
  /\ UNCHANGED <<poolVars, target, closer>>

-----------------------------------------------------------------------------
(* The closers                                                             *)

CloseBegin(e) ==
  /\ closer[e] = "idle"
  /\ CloseQueue(e)
  /\ closer' = [closer EXCEPT ![e] = "draining"]
  /\ UNCHANGED <<call, target>>

CloseReturn(e) ==
  /\ closer[e] = "draining"
  /\ AllExited(e)
  /\ closer' = [closer EXCEPT ![e] = "returned"]
  /\ UNCHANGED <<poolVars, call, target>>

-----------------------------------------------------------------------------
\* The workers, whose steps leave the callers alone.
WorkerStep(w) ==
  /\ \/ Park(w)
     \/ Take(w)
     \/ Exit(w)
     \/ \E o \in Outcomes : PredictReturns(w, o)
     \/ Deliver(w)
  /\ UNCHANGED <<call, target, closer>>

\* Every caller and every closer has come to its end. There is nothing left
\* to do, so that any other state without a successor is a deadlock.
Terminated ==
  /\ \A r \in Requests : call[r] \notin {"new", "waiting"}
  /\ \A e \in Engines : closer[e] = "returned"
  /\ UNCHANGED vars

Next ==
  \/ \E e \in Engines, r \in Requests :
       SubmitAccepted(e, r) \/ SubmitRejected(e, r) \/ SubmitAfterClose(e, r)
  \/ \E r \in Requests : Receive(r) \/ Abandon(r)
  \/ \E e \in Engines : CloseBegin(e) \/ CloseReturn(e)
  \/ \E w \in Workers : WorkerStep(w)
  \/ Terminated

\* The Go scheduler runs every goroutine that can run, and Predict returns:
\* its context has a deadline and the gRPC client honours it. Nothing makes
\* a caller come, give up or close a pool.
Fairness ==
  /\ \A w \in Workers : WF_vars(WorkerStep(w))
  /\ \A r \in Requests : WF_vars(Receive(r))
  /\ \A e \in Engines : WF_vars(CloseReturn(e))

Spec == Init /\ [][Next]_vars /\ Fairness

-----------------------------------------------------------------------------
(* Where a request is                                                      *)

Accepted(r) == call[r] \in {"waiting", "received", "gone"}
InQueue(r) == \E e \in Engines : \E i \in 1..Len(queue[e]) : queue[e][i] = r
Held(r) == \E w \in Workers : holding[w] = r
Delivered(r) == resultCh[r] # <<>> \/ call[r] = "received"

\* Accepted by e and not delivered yet.
Outstanding(e) ==
  {r \in Requests : target[r] = e /\ Accepted(r) /\ ~Delivered(r)}

-----------------------------------------------------------------------------
(* Properties                                                              *)

TypeOK ==
  /\ PoolTypeOK
  /\ call \in [Requests -> CallStates]
  /\ target \in [Requests -> Engines \cup {NoEngine}]
  /\ closer \in [Engines -> CloserStates]

OnePlace ==
  \A r \in Requests :
    /\ Accepted(r) <=> InQueue(r) \/ Held(r) \/ Delivered(r)
    /\ ~(InQueue(r) /\ Held(r))
    /\ ~(InQueue(r) /\ Delivered(r))
    /\ ~(Held(r) /\ Delivered(r))
    /\ ~(call[r] = "received" /\ resultCh[r] # <<>>)

QueuedOnce ==
  \A e, f \in Engines : \A i \in 1..Len(queue[e]), j \in 1..Len(queue[f]) :
    queue[e][i] = queue[f][j] => e = f /\ i = j

HeldOnce ==
  \A v, w \in Workers :
    holding[v] = holding[w] /\ holding[v] # NoRequest => v = w

\* No request is lost and none is served twice: an accepted request is in a
\* queue, at a worker or delivered, in exactly one of the three and there
\* once, and one that was not accepted is nowhere. It stays so when the
\* caller gives up and when the pool is closed under it (pool.go:63-94).
ExactlyOnce == OnePlace /\ QueuedOnce /\ HeldOnce

\* A request is only ever queued for, and served by, the engine that
\* accepted it.
StaysOnTarget ==
  /\ \A e \in Engines : \A i \in 1..Len(queue[e]) : target[queue[e][i]] = e
  /\ \A w \in Workers : holding[w] # NoRequest => target[holding[w]] = w[1]

\* A worker is never stuck on a caller: when it comes to the Result send the
\* channel has room, whether or not the caller still listens (pool.go:67
\* with the capacity of handlers.go:225).
SendNeverBlocks ==
  \A w \in Workers :
    wst[w] = "sending" => Len(resultCh[holding[w]]) < ResultCap

\* No lost wakeup: no request waits in the channel while a worker of the
\* pool is blocked waiting for one, and none is blocked on a closed channel.
NoLostWakeup ==
  \A w \in Workers :
    wst[w] = "parked" => queue[w[1]] = <<>> /\ ~closed[w[1]]

\* "Close ... waits for all in-flight and already queued requests to finish"
\* (pool.go:89-90): when Close has returned, every request the pool ever
\* accepted has its result.
CloseDrains ==
  \A e \in Engines : closer[e] = "returned" =>
    \A r \in Requests : target[r] = e /\ Accepted(r) => Delivered(r)

\* "Bounding both queue size and concurrency is the mechanism admission
\* control is built on" (pool.go:4-5): whatever the callers do, a pool owes
\* results for at most the requests its queue and its workers can hold.
BoundedLoad ==
  \A e \in Engines : Cardinality(Outstanding(e)) <= Capacity + NumWorkers

\* A pool that has a worker blocked in the receive rejects nobody, whatever
\* its queue size: a rejection means that requests are outstanding or that a
\* worker is still on its way back to the channel. With an unbuffered channel
\* the second case is real, also in a pool that has just been started, and it
\* takes New's lower clamp that there is a worker at all.
RejectedMeansBusy ==
  [][\A e \in Engines, r \in Requests : SubmitRejected(e, r) =>
       Outstanding(e) # {} \/ \E w \in WorkersOf(e) : wst[w] = "ready"]_vars

\* Every accepted request gets its result, also when nobody waits for it any
\* more and also when the pool is closed.
AcceptedIsServed == \A r \in Requests : Accepted(r) ~> Delivered(r)

\* Close returns, however many callers it finds in the pool.
CloseReturns == \A e \in Engines : closer[e] = "draining" ~> closer[e] = "returned"

-----------------------------------------------------------------------------
(* The pools implement AdmissionControl. Requests held by a worker are in  *)
(* service until Deliver; a caller that panicked was refused.              *)

Contract == INSTANCE AdmissionControl WITH
  line <- queue,
  busy <- [e \in Engines |-> {holding[w] : w \in WorkersOf(e)} \ {NoRequest}],
  done <- {r \in Requests : Delivered(r)},
  refused <- {r \in Requests : call[r] \in {"rejected", "panicked"}},
  open <- [e \in Engines |-> ~closed[e]],
  empty <- [e \in Engines |-> closer[e] = "returned"]

\* Every behaviour of the pools, their callers and their closers is one of a
\* queueing system with bounded room, NumWorkers servers, first-come
\* first-served starts and no refusal while there is room (pool.go:63-94).
ImplementsContract == Contract!Spec
=============================================================================
