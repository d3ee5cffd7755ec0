----------------------------- MODULE WorkerPool -----------------------------
(***************************************************************************)
(* The bounded worker pool of scheduler/internal/workerpool/pool.go, one   *)
(* per inference engine: a buffered Go channel of requests and a fixed set *)
(* of goroutines that range over it, call Predict and send the result on   *)
(* the caller's own result channel.                                        *)
(*                                                                         *)
(* The module holds the pool's state and one action per step of its code.  *)
(* It has no callers: PoolClients closes it with callers and a closer,     *)
(* PredictServer closes it with the HTTP handlers.                         *)
(***************************************************************************)
EXTENDS Integers, Sequences, FiniteSets

CONSTANTS
  Engines,      \* engine names; each has a pool of its own
  Requests,     \* identities of workerpool.Request values
  QueueSize,    \* the -queue-size flag, as given
  Concurrency,  \* the -concurrency flag, as given
  Outcomes,     \* what Predict may return; the pool never looks at it
  NoRequest,    \* what an idle worker holds
  NoOutcome     \* what it has to send

ASSUME PoolAssumption ==
  /\ QueueSize \in Int
  /\ Concurrency \in Int
  /\ NoRequest \notin Requests
  /\ NoOutcome \notin Outcomes
  /\ IsFiniteSet(Engines)
  /\ IsFiniteSet(Requests)

\* New clamps its arguments: a negative queue size is an unbuffered channel
\* and there is at least one worker.
Capacity == IF QueueSize < 0 THEN 0 ELSE QueueSize
NumWorkers_Unclamped == Concurrency   \* slip: no lower clamp
NumWorkers == IF Concurrency < 1 THEN 1 ELSE Concurrency

\* The goroutines started by New, each of which serves one engine's queue.
Workers == Engines \X (1..NumWorkers)
WorkersOf(e) == {e} \X (1..NumWorkers)

\* Buffer of the Result channel a caller makes: make(chan Result, 1).
ResultCap_Unbuffered == 0   \* slip: make(chan Result)
ResultCap == 1

VARIABLES
  queue,     \* queue[e]: the requests buffered in the channel of e's pool
  closed,    \* closed[e]: close(p.queue) has been called
  wst,       \* wst[w]: where goroutine w is in worker()
  holding,   \* holding[w]: the request w took from the channel
  outcome,   \* outcome[w]: what Predict returned to w, until it is sent
  resultCh   \* resultCh[r]: the contents of the Result channel of r

poolVars == <<queue, closed, wst, holding, outcome, resultCh>>

\* "ready": at the head of the range loop; "parked": blocked in the channel
\* receive; "predicting": inside Predict; "sending": at the Result send;
\* "exited": after wg.Done.
WorkerStates == {"ready", "parked", "predicting", "sending", "exited"}

\* Channels hold no more than their buffers.
PoolTypeOK ==
  /\ queue \in [Engines -> Seq(Requests)]
  /\ closed \in [Engines -> BOOLEAN]
  /\ wst \in [Workers -> WorkerStates]
  /\ holding \in [Workers -> Requests \cup {NoRequest}]
  /\ outcome \in [Workers -> Outcomes \cup {NoOutcome}]
  /\ resultCh \in [Requests -> Seq(Outcomes)]
  /\ \A e \in Engines : Len(queue[e]) <= Capacity
  /\ \A r \in Requests : Len(resultCh[r]) <= ResultCap

PoolInit ==
  /\ queue = [e \in Engines |-> <<>>]
  /\ closed = [e \in Engines |-> FALSE]
  /\ wst = [w \in Workers |-> "ready"]
  /\ holding = [w \in Workers |-> NoRequest]
  /\ outcome = [w \in Workers |-> NoOutcome]
  /\ resultCh = [r \in Requests |-> <<>>]

-----------------------------------------------------------------------------
(* Slips that the properties must catch, each the wrong form of the action *)
(* or operator it is named after. No specification uses them.              *)

\* The request is not removed from the channel when it is received.
Take_KeepsHead(w) ==
  /\ wst[w] = "ready"
  /\ queue[w[1]] # <<>>
  /\ wst' = [wst EXCEPT ![w] = "predicting"]
  /\ holding' = [holding EXCEPT ![w] = Head(queue[w[1]])]
  /\ UNCHANGED <<queue, closed, outcome, resultCh>>

\* A worker leaves its loop when it sees the pool closed, requests or not.
Exit_Undrained(w) ==
  /\ wst[w] = "ready"
  /\ closed[w[1]]
  /\ wst' = [wst EXCEPT ![w] = "exited"]
  /\ UNCHANGED <<queue, closed, holding, outcome, resultCh>>

\* The buffer is compared with <= and takes one request too many.
Enqueue_Overfull(e, r) ==
  /\ ~closed[e]
  /\ \A w \in WorkersOf(e) : wst[w] # "parked"
  /\ Len(queue[e]) <= Capacity
  /\ queue' = [queue EXCEPT ![e] = Append(@, r)]
  /\ UNCHANGED <<closed, wst, holding, outcome, resultCh>>

\* The request goes to a worker of another pool.
HandOff_AnyPool(e, r) ==
  /\ ~closed[e]
  /\ \E w \in Workers :
       /\ wst[w] = "parked"
       /\ wst' = [wst EXCEPT ![w] = "predicting"]
       /\ holding' = [holding EXCEPT ![w] = r]
  /\ UNCHANGED <<queue, closed, outcome, resultCh>>

\* The request overtakes those that wait in the channel.
HandOff_Overtaking(e, r) ==
  /\ ~closed[e]
  /\ \E w \in WorkersOf(e) :
       /\ wst[w] \in {"ready", "parked"}
       /\ wst' = [wst EXCEPT ![w] = "predicting"]
       /\ holding' = [holding EXCEPT ![w] = r]
  /\ UNCHANGED <<queue, closed, outcome, resultCh>>

\* A request is buffered although a worker is blocked waiting for one.
Enqueue_NoWakeup(e, r) ==
  /\ ~closed[e]
  /\ Len(queue[e]) < Capacity
  /\ queue' = [queue EXCEPT ![e] = Append(@, r)]
  /\ UNCHANGED <<closed, wst, holding, outcome, resultCh>>

\* Closing the channel does not wake the workers blocked in it.
CloseQueue_NoWakeup(e) ==
  /\ ~closed[e]
  /\ closed' = [closed EXCEPT ![e] = TRUE]
  /\ UNCHANGED <<queue, wst, holding, outcome, resultCh>>

-----------------------------------------------------------------------------
(* worker(): for req := range p.queue                                      *)

\* The channel is empty and open: the goroutine blocks in the receive.
Park(w) ==
  /\ wst[w] = "ready"
  /\ queue[w[1]] = <<>>
  /\ ~closed[w[1]]
  /\ wst' = [wst EXCEPT ![w] = "parked"]
  /\ UNCHANGED <<queue, closed, holding, outcome, resultCh>>

\* A buffered request is received, from an open or from a closed channel,
\* and Predict is called with it.
Take(w) ==
  /\ wst[w] = "ready"
  /\ queue[w[1]] # <<>>
  /\ queue' = [queue EXCEPT ![w[1]] = Tail(@)]
  /\ wst' = [wst EXCEPT ![w] = "predicting"]
  /\ holding' = [holding EXCEPT ![w] = Head(queue[w[1]])]
  /\ UNCHANGED <<closed, outcome, resultCh>>

\* The channel is closed and drained: the range loop ends, wg.Done runs.
Exit(w) ==
  /\ wst[w] = "ready"
  /\ queue[w[1]] = <<>>
  /\ closed[w[1]]
  /\ wst' = [wst EXCEPT ![w] = "exited"]
  /\ UNCHANGED <<queue, closed, holding, outcome, resultCh>>

\* Predict returns o to worker w.
PredictReturns(w, o) ==
  /\ wst[w] = "predicting"
  /\ outcome' = [outcome EXCEPT ![w] = o]
  /\ wst' = [wst EXCEPT ![w] = "sending"]
  /\ UNCHANGED <<queue, closed, holding, resultCh>>

\* req.Result <- Result{...}: blocks while the caller's channel is full.
Deliver(w) ==
  /\ wst[w] = "sending"
  /\ Len(resultCh[holding[w]]) < ResultCap
  /\ resultCh' = [resultCh EXCEPT ![holding[w]] = Append(@, outcome[w])]
  /\ wst' = [wst EXCEPT ![w] = "ready"]
  /\ holding' = [holding EXCEPT ![w] = NoRequest]
  /\ outcome' = [outcome EXCEPT ![w] = NoOutcome]
  /\ UNCHANGED <<queue, closed>>

-----------------------------------------------------------------------------
(* Submit: a non-blocking send on the channel                              *)

ParkedOn(e) == {w \in WorkersOf(e) : wst[w] = "parked"}

\* A receiver is parked: the runtime hands it the request directly, without
\* passing through the buffer. This is the only way in when Capacity is 0.
HandOff(e, r) ==
  /\ ~closed[e]
  /\ \E w \in ParkedOn(e) :
       /\ wst' = [wst EXCEPT ![w] = "predicting"]
       /\ holding' = [holding EXCEPT ![w] = r]
  /\ UNCHANGED <<queue, closed, outcome, resultCh>>

\* No receiver is parked and the buffer has room.
Enqueue(e, r) ==
  /\ ~closed[e]
  /\ ParkedOn(e) = {}
  /\ Len(queue[e]) < Capacity
  /\ queue' = [queue EXCEPT ![e] = Append(@, r)]
  /\ UNCHANGED <<closed, wst, holding, outcome, resultCh>>

\* Submit returns true.
SubmitTrue(e, r) == HandOff(e, r) \/ Enqueue(e, r)

\* Submit takes the default branch and returns false, at once.
SubmitFalse(e) ==
  /\ ~closed[e]
  /\ ParkedOn(e) = {}
  /\ Len(queue[e]) >= Capacity
  /\ UNCHANGED poolVars

\* A send on a closed channel panics, also inside a select with a default.
SubmitPanics(e) ==
  /\ closed[e]
  /\ UNCHANGED poolVars

-----------------------------------------------------------------------------
(* Close                                                                   *)

\* close(p.queue): every goroutine parked in the receive is woken.
CloseQueue(e) ==
  /\ ~closed[e]
  /\ closed' = [closed EXCEPT ![e] = TRUE]
  /\ wst' = [w \in Workers |-> IF w \in ParkedOn(e) THEN "ready" ELSE wst[w]]
  /\ UNCHANGED <<queue, holding, outcome, resultCh>>

\* wg.Wait returns once every worker has called wg.Done.
AllExited(e) == \A w \in WorkersOf(e) : wst[w] = "exited"

\* QueueDepth: the waiting requests, without those a worker holds.
QueueDepth(e) == Len(queue[e])
=============================================================================
