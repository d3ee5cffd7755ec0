------------------------- MODULE PoolClientsProofs -------------------------
(***************************************************************************)
(* Theorems about PoolClients, for every number of engines, requests and   *)
(* workers and every queue size.                                           *)
(***************************************************************************)
EXTENDS PoolClients, SequenceTheorems, FiniteSetTheorems, TLAPS

-----------------------------------------------------------------------------
(* The parts of the inductive invariant that no run needs to state         *)

\* A worker holds a request exactly from the receive to the Result send, and
\* has an outcome exactly between the return of Predict and the send.
Phases ==
  \A w \in Workers :
    /\ holding[w] # NoRequest <=> wst[w] \in {"predicting", "sending"}
    /\ outcome[w] # NoOutcome <=> wst[w] = "sending"

\* What a closed channel means to the closer and to the workers.
Closing ==
  /\ \A e \in Engines : closer[e] = "idle" <=> ~closed[e]
  /\ \A w \in Workers :
       wst[w] = "exited" => closed[w[1]] /\ queue[w[1]] = <<>>
  /\ \A e \in Engines : closer[e] = "returned" => AllExited(e)

\* The accepted requests are those with a target.
Targets == \A r \in Requests : Accepted(r) <=> target[r] \in Engines

-----------------------------------------------------------------------------
(* Constants and sequences                                                 *)

LEMMA ConstantTypes ==
  /\ Capacity \in Nat
  /\ NumWorkers \in Nat \ {0}
  /\ \A w \in Workers : w[1] \in Engines /\ w \in WorkersOf(w[1])
  /\ \A e \in Engines : WorkersOf(e) \subseteq Workers
  /\ \A e \in Engines : \A w \in WorkersOf(e) : w[1] = e
  /\ \A e \in Engines : <<e, 1>> \in WorkersOf(e)
<1>1. Capacity \in Nat
  BY PoolAssumption DEF PoolAssumption, Capacity
<1>2. NumWorkers \in Nat \ {0}
  BY PoolAssumption DEF PoolAssumption, NumWorkers
<1>3. 1 \in 1..NumWorkers
  BY <1>2
<1> QED
  BY <1>1, <1>2, <1>3 DEF Workers, WorkersOf

\* What Append and Tail do to the entries of a sequence.
LEMMA AppendEntries ==
  ASSUME NEW S, NEW s \in Seq(S), NEW x \in S
  PROVE  /\ Append(s, x) \in Seq(S)
         /\ Len(Append(s, x)) = Len(s) + 1
         /\ \A i \in 1..Len(s) : Append(s, x)[i] = s[i]
         /\ Append(s, x)[Len(s) + 1] = x
         /\ \A i \in 1..(Len(s) + 1) : i \in 1..Len(s) \/ i = Len(s) + 1
  BY AppendProperties

LEMMA TailEntries ==
  ASSUME NEW S, NEW s \in Seq(S), s # <<>>
  PROVE  /\ Tail(s) \in Seq(S)
         /\ Head(s) \in S
         /\ Head(s) = s[1]
         /\ Len(s) \in Nat \ {0}
         /\ Len(Tail(s)) = Len(s) - 1
         /\ \A i \in 1..(Len(s) - 1) : Tail(s)[i] = s[i + 1]
  BY HeadTailProperties, EmptySeq

LEMMA TailOfOne ==
  ASSUME NEW S, NEW s \in Seq(S), s # <<>>, Len(s) <= 1
  PROVE  Tail(s) = <<>>
<1>1. Len(s) \in Nat \ {0} /\ Len(Tail(s)) = Len(s) - 1 /\ Tail(s) \in Seq(S)
  BY TailEntries
<1>2. Len(Tail(s)) = 0
  BY <1>1
<1> QED
  BY <1>1, <1>2, EmptySeq

\* Channels without duplicates, seen as a function q from engines to
\* sequences: what is in them, and how a receive changes it.
Distinct(E, q) ==
  \A f, g \in E : \A i \in 1..Len(q[f]), j \in 1..Len(q[g]) :
    q[f][i] = q[g][j] => f = g /\ i = j

Contains(E, q, x) == \E f \in E : \E i \in 1..Len(q[f]) : q[f][i] = x

NothingNew(E, p, q) ==
  \A f \in E : \A i \in 1..Len(p[f]) : \E j \in 1..Len(q[f]) : p[f][i] = q[f][j]

LEMMA ReceiveFromChannel ==
  ASSUME NEW E, NEW S, NEW q \in [E -> Seq(S)], NEW e \in E, q[e] # <<>>,
         Distinct(E, q),
         NEW p \in [E -> Seq(S)],
         p[e] = Tail(q[e]),
         \A f \in E : f # e => p[f] = q[f]
  PROVE  /\ Distinct(E, p)
         /\ Head(q[e]) \in S
         /\ ~Contains(E, p, Head(q[e]))
         /\ \A x : Contains(E, p, x) => Contains(E, q, x)
         /\ \A x : Contains(E, q, x) => Contains(E, p, x) \/ x = Head(q[e])
         /\ NothingNew(E, p, q)
<1>1. /\ Head(q[e]) \in S
      /\ Head(q[e]) = q[e][1]
      /\ Len(q[e]) \in Nat \ {0}
      /\ Len(p[e]) = Len(q[e]) - 1
      /\ \A i \in 1..(Len(q[e]) - 1) : p[e][i] = q[e][i + 1]
  BY TailEntries
<1>2. \A f \in E : f # e => p[f] = q[f]
  OBVIOUS
<1>3. 1 \in 1..Len(q[e])
  BY <1>1
<1>4. \A i \in 1..Len(p[e]) : i + 1 \in 1..Len(q[e]) /\ p[e][i] = q[e][i + 1] /\ i + 1 # 1
  BY <1>1
<1>5. \A j \in 1..Len(q[e]) : j # 1 => \E i \in 1..Len(p[e]) : p[e][i] = q[e][j]
  <2> SUFFICES ASSUME NEW j \in 1..Len(q[e]), j # 1
               PROVE  \E i \in 1..Len(p[e]) : p[e][i] = q[e][j]
    OBVIOUS
  <2>1. /\ j - 1 \in 1..Len(p[e])
        /\ j - 1 \in 1..(Len(q[e]) - 1)
        /\ (j - 1) + 1 = j
    BY <1>1
  <2>2. p[e][j - 1] = q[e][j]
    BY <1>1, <2>1
  <2> QED
    BY <2>1, <2>2
<1>6. ASSUME NEW f \in E, NEW i \in 1..Len(p[f])
      PROVE  \E j \in 1..Len(q[f]) : p[f][i] = q[f][j]
  <2>1. CASE f = e
    BY <1>4, <2>1
  <2>2. CASE f # e
    BY <1>2, <2>2
  <2> QED
    BY <2>1, <2>2
<1>7. Distinct(E, p)
  <2> SUFFICES ASSUME NEW f \in E, NEW g \in E,
                      NEW i \in 1..Len(p[f]), NEW j \in 1..Len(p[g]),
                      p[f][i] = p[g][j]
               PROVE  f = g /\ i = j
    BY DEF Distinct
  <2>1. CASE f = e /\ g = e
    <3>1. /\ i + 1 \in 1..Len(q[e]) /\ j + 1 \in 1..Len(q[e])
          /\ q[e][i + 1] = q[e][j + 1]
      BY <1>4, <2>1
    <3>2. i + 1 = j + 1
      BY <3>1 DEF Distinct
    <3>3. i \in Int /\ j \in Int
      OBVIOUS
    <3> QED
      BY <2>1, <3>2, <3>3
  <2>2. CASE f # e /\ g # e
    <3>1. i \in 1..Len(q[f]) /\ j \in 1..Len(q[g]) /\ q[f][i] = q[g][j]
      BY <1>2, <2>2
    <3> QED
      BY <3>1 DEF Distinct
  <2>3. CASE f = e /\ g # e
    <3>1. /\ i + 1 \in 1..Len(q[e]) /\ j \in 1..Len(q[g])
          /\ q[e][i + 1] = q[g][j]
      BY <1>2, <1>4, <2>3
    <3> QED
      BY <2>3, <3>1 DEF Distinct
  <2>4. CASE f # e /\ g = e
    <3>1. /\ i \in 1..Len(q[f]) /\ j + 1 \in 1..Len(q[e])
          /\ q[f][i] = q[e][j + 1]
      BY <1>2, <1>4, <2>4
    <3> QED
      BY <2>4, <3>1 DEF Distinct
  <2> QED
    BY <2>1, <2>2, <2>3, <2>4
<1>8. ~Contains(E, p, Head(q[e]))
  <2> SUFFICES ASSUME NEW f \in E, NEW i \in 1..Len(p[f]), p[f][i] = Head(q[e])
               PROVE  FALSE
    BY DEF Contains
  <2>1. CASE f = e
    <3>1. /\ i + 1 \in 1..Len(q[e]) /\ i + 1 # 1
          /\ q[e][i + 1] = q[e][1]
      BY <1>1, <1>4, <2>1
    <3> QED
      BY <1>3, <3>1 DEF Distinct
  <2>2. CASE f # e
    <3>1. i \in 1..Len(q[f]) /\ q[f][i] = q[e][1]
      BY <1>1, <1>2, <2>2
    <3> QED
      BY <1>3, <2>2, <3>1 DEF Distinct
  <2> QED
    BY <2>1, <2>2
<1>9. ASSUME NEW x, Contains(E, p, x)
      PROVE  Contains(E, q, x)
  BY <1>6, <1>9 DEF Contains
<1>10. ASSUME NEW x, Contains(E, q, x), x # Head(q[e])
       PROVE  Contains(E, p, x)
  <2>1. PICK f \in E : \E i \in 1..Len(q[f]) : q[f][i] = x
    BY <1>10 DEF Contains
  <2>2. PICK j \in 1..Len(q[f]) : q[f][j] = x
    BY <2>1
  <2>3. CASE f = e
    BY <1>1, <1>5, <1>10, <2>2, <2>3 DEF Contains
  <2>4. CASE f # e
    BY <1>2, <2>2, <2>4 DEF Contains
  <2> QED
    BY <2>3, <2>4
<1>11. NothingNew(E, p, q)
  BY <1>6 DEF NothingNew
<1> QED
  BY <1>1, <1>7, <1>8, <1>9, <1>10, <1>11

-----------------------------------------------------------------------------
(* Types and phases                                                        *)

LEMMA TypingInit == Init => TypeOK /\ Phases
  BY ConstantTypes, PoolAssumption
  DEF Init, PoolInit, TypeOK, PoolTypeOK, Phases, WorkerStates, CallStates,
      CloserStates, ResultCap, PoolAssumption

LEMMA TypingStep == TypeOK /\ Phases /\ [Next]_vars => TypeOK' /\ Phases'
<1> SUFFICES ASSUME TypeOK, Phases, [Next]_vars
             PROVE  TypeOK' /\ Phases'
  OBVIOUS
<1> USE ConstantTypes, PoolAssumption, AppendEntries, TailEntries
    DEF TypeOK, PoolTypeOK, WorkerStates, CallStates, CloserStates, ResultCap,
        PoolAssumption, poolVars
<1>1. ASSUME NEW e \in Engines, NEW r \in Requests,
             SubmitAccepted(e, r) \/ SubmitRejected(e, r) \/ SubmitAfterClose(e, r)
      PROVE  TypeOK' /\ Phases'
  <2>1. CASE SubmitAccepted(e, r) /\ HandOff(e, r)
    BY <2>1 DEF SubmitAccepted, HandOff, ParkedOn, Phases
  <2>2. CASE SubmitAccepted(e, r) /\ Enqueue(e, r)
    BY <2>2 DEF SubmitAccepted, Enqueue, Phases
  <2>3. CASE SubmitRejected(e, r)
    BY <2>3 DEF SubmitRejected, SubmitFalse, Phases
  <2>4. CASE SubmitAfterClose(e, r)
    BY <2>4 DEF SubmitAfterClose, SubmitPanics, Phases
  <2> QED
    BY <1>1, <2>1, <2>2, <2>3, <2>4 DEF SubmitAccepted, SubmitTrue
<1>2. ASSUME NEW r \in Requests, Receive(r) \/ Abandon(r)
      PROVE  TypeOK' /\ Phases'
  <2>1. CASE Receive(r)
    <3>1. /\ Tail(resultCh[r]) \in Seq(Outcomes)
          /\ Len(Tail(resultCh[r])) <= 1
      BY <2>1 DEF Receive
    <3> QED
      BY <2>1, <3>1 DEF Receive, Phases
  <2>2. CASE Abandon(r)
    BY <2>2 DEF Abandon, Phases
  <2> QED
    BY <1>2, <2>1, <2>2
<1>3. ASSUME NEW e \in Engines, CloseBegin(e) \/ CloseReturn(e)
      PROVE  TypeOK' /\ Phases'
  <2>1. CASE CloseBegin(e)
    BY <2>1 DEF CloseBegin, CloseQueue, ParkedOn, Phases
  <2>2. CASE CloseReturn(e)
    BY <2>2 DEF CloseReturn, Phases
  <2> QED
    BY <1>3, <2>1, <2>2
<1>4. ASSUME NEW w \in Workers, WorkerStep(w)
      PROVE  TypeOK' /\ Phases'
  <2>1. CASE Park(w)
    BY <1>4, <2>1 DEF WorkerStep, Park, Phases
  <2>2. CASE Take(w)
    BY <1>4, <2>2 DEF WorkerStep, Take, Phases
  <2>3. CASE Exit(w)
    BY <1>4, <2>3 DEF WorkerStep, Exit, Phases
  <2>4. ASSUME NEW o \in Outcomes, PredictReturns(w, o)
        PROVE  TypeOK' /\ Phases'
    BY <1>4, <2>4 DEF WorkerStep, PredictReturns, Phases
  <2>5. CASE Deliver(w)
    <3>1. holding[w] \in Requests /\ outcome[w] \in Outcomes
      BY <2>5 DEF Deliver, Phases
    <3> QED
      BY <1>4, <2>5, <3>1 DEF WorkerStep, Deliver, Phases
  <2> QED
    BY <1>4, <2>1, <2>2, <2>3, <2>4, <2>5 DEF WorkerStep
<1>5. CASE Terminated \/ UNCHANGED vars
  BY <1>5 DEF Terminated, vars, Phases
<1> QED
  BY <1>1, <1>2, <1>3, <1>4, <1>5 DEF Next

\* The state of the pools, of their callers and of their closers is always
\* well typed, and the channels never hold more than their buffers.
THEOREM TypeCorrect == Spec => []TypeOK
<1>1. Init => TypeOK /\ Phases
  BY TypingInit
<1>2. TypeOK /\ Phases /\ [Next]_vars => TypeOK' /\ Phases'
  BY TypingStep
<1> QED
  BY <1>1, <1>2, PTL DEF Spec

-----------------------------------------------------------------------------
(* The wakeups and the closer                                              *)

LEMMA ClosingInit == Init => Closing /\ NoLostWakeup
  BY ConstantTypes DEF Init, PoolInit, Closing, NoLostWakeup

LEMMA ClosingStep ==
  ASSUME TypeOK, Phases, Closing, NoLostWakeup, [Next]_vars
  PROVE  Closing' /\ NoLostWakeup'
<1> USE ConstantTypes DEF TypeOK, PoolTypeOK, poolVars
<1>1. ASSUME NEW e \in Engines, NEW r \in Requests,
             SubmitAccepted(e, r) \/ SubmitRejected(e, r) \/ SubmitAfterClose(e, r)
      PROVE  Closing' /\ NoLostWakeup'
  <2>1. CASE SubmitAccepted(e, r) /\ HandOff(e, r)
    BY <2>1 DEF SubmitAccepted, HandOff, ParkedOn, AllExited, Closing, NoLostWakeup
  <2>2. CASE SubmitAccepted(e, r) /\ Enqueue(e, r)
    BY <2>2 DEF SubmitAccepted, Enqueue, ParkedOn, AllExited, Closing, NoLostWakeup
  <2>3. CASE SubmitRejected(e, r) \/ SubmitAfterClose(e, r)
    BY <2>3 DEF SubmitRejected, SubmitFalse, SubmitAfterClose, SubmitPanics,
                AllExited, Closing, NoLostWakeup
  <2> QED
    BY <1>1, <2>1, <2>2, <2>3 DEF SubmitAccepted, SubmitTrue
<1>2. ASSUME NEW r \in Requests, Receive(r) \/ Abandon(r)
      PROVE  Closing' /\ NoLostWakeup'
  BY <1>2 DEF Receive, Abandon, AllExited, Closing, NoLostWakeup
<1>3. ASSUME NEW e \in Engines, CloseBegin(e)
      PROVE  Closing' /\ NoLostWakeup'
  BY <1>3 DEF CloseBegin, CloseQueue, ParkedOn, AllExited, Closing, NoLostWakeup
<1>4. ASSUME NEW e \in Engines, CloseReturn(e)
      PROVE  Closing' /\ NoLostWakeup'
  BY <1>4 DEF CloseReturn, AllExited, Closing, NoLostWakeup
<1>5. ASSUME NEW w \in Workers, WorkerStep(w)
      PROVE  Closing' /\ NoLostWakeup'
  <2>1. CASE Park(w)
    BY <1>5, <2>1 DEF WorkerStep, Park, AllExited, Closing, NoLostWakeup
  <2>2. CASE Take(w)
    BY <1>5, <2>2 DEF WorkerStep, Take, AllExited, Closing, NoLostWakeup
  <2>3. CASE Exit(w)
    BY <1>5, <2>3 DEF WorkerStep, Exit, AllExited, Closing, NoLostWakeup
  <2>4. ASSUME NEW o \in Outcomes, PredictReturns(w, o)
        PROVE  Closing' /\ NoLostWakeup'
    BY <1>5, <2>4 DEF WorkerStep, PredictReturns, AllExited, Closing, NoLostWakeup
  <2>5. CASE Deliver(w)
    BY <1>5, <2>5 DEF WorkerStep, Deliver, AllExited, Closing, NoLostWakeup
  <2> QED
    BY <1>5, <2>1, <2>2, <2>3, <2>4, <2>5 DEF WorkerStep
<1>6. CASE Terminated \/ UNCHANGED vars
  BY <1>6 DEF Terminated, vars, AllExited, Closing, NoLostWakeup
<1> QED
  BY <1>1, <1>2, <1>3, <1>4, <1>5, <1>6 DEF Next

-----------------------------------------------------------------------------
(* Every request is in one place                                           *)

Placement == Targets /\ ExactlyOnce /\ StaysOnTarget

LEMMA PlacementInit == Init => Placement
<1> SUFFICES ASSUME Init
             PROVE  Placement
  OBVIOUS
<1> USE ConstantTypes, PoolAssumption, ClientAssumption
    DEF Init, PoolInit, PoolAssumption, ClientAssumption
<1>1. Targets
  BY DEF Targets, Accepted
<1>2. \A r \in Requests : ~Accepted(r) /\ ~InQueue(r) /\ ~Held(r) /\ ~Delivered(r)
  BY DEF Accepted, InQueue, Held, Delivered
<1>3. OnePlace
  BY <1>2 DEF OnePlace
<1>4. QueuedOnce /\ HeldOnce /\ StaysOnTarget
  BY DEF QueuedOnce, HeldOnce, StaysOnTarget
<1> QED
  BY <1>1, <1>3, <1>4 DEF Placement, ExactlyOnce

\* A request that joins a queue.
LEMMA EnqueuePlaces ==
  ASSUME TypeOK, Phases, Placement,
         NEW e \in Engines, NEW r \in Requests,
         SubmitAccepted(e, r), Enqueue(e, r)
  PROVE  Placement'
<1> USE ConstantTypes DEF TypeOK, PoolTypeOK
<1>1. /\ call[r] = "new"
      /\ call' = [call EXCEPT ![r] = "waiting"]
      /\ target' = [target EXCEPT ![r] = e]
      /\ queue' = [queue EXCEPT ![e] = Append(@, r)]
      /\ UNCHANGED <<holding, resultCh>>
  BY DEF SubmitAccepted, Enqueue
<1>2. /\ Len(queue[e]) + 1 \in 1..Len(queue'[e])
      /\ queue'[e][Len(queue[e]) + 1] = r
      /\ \A f \in Engines : \A i \in 1..Len(queue[f]) :
           i \in 1..Len(queue'[f]) /\ queue'[f][i] = queue[f][i]
      /\ \A f \in Engines : \A i \in 1..Len(queue'[f]) :
           \/ i \in 1..Len(queue[f])
           \/ f = e /\ i = Len(queue[e]) + 1 /\ queue'[f][i] = r
  <2>1. /\ Len(queue'[e]) = Len(queue[e]) + 1
        /\ queue'[e][Len(queue[e]) + 1] = r
        /\ \A i \in 1..Len(queue[e]) : queue'[e][i] = queue[e][i]
        /\ Len(queue[e]) \in Nat
    BY <1>1, AppendEntries, LenProperties
  <2>2. \A f \in Engines \ {e} : queue'[f] = queue[f]
    BY <1>1
  <2>3. ASSUME NEW f \in Engines, NEW i \in 1..Len(queue[f])
        PROVE  i \in 1..Len(queue'[f]) /\ queue'[f][i] = queue[f][i]
    <3>1. CASE f = e
      BY <2>1, <2>3, <3>1
    <3>2. CASE f # e
      BY <2>2, <2>3, <3>2
    <3> QED
      BY <3>1, <3>2
  <2>4. ASSUME NEW f \in Engines, NEW i \in 1..Len(queue'[f])
        PROVE  \/ i \in 1..Len(queue[f])
               \/ f = e /\ i = Len(queue[e]) + 1 /\ queue'[f][i] = r
    <3>1. CASE f = e
      BY <2>1, <2>4, <3>1
    <3>2. CASE f # e
      BY <2>2, <2>4, <3>2
    <3> QED
      BY <3>1, <3>2
  <2>5. Len(queue[e]) + 1 \in 1..Len(queue'[e])
    BY <2>1
  <2> QED
    BY <2>1, <2>3, <2>4, <2>5
<1>3. ~InQueue(r) /\ ~Held(r) /\ ~Delivered(r) /\ target[r] \notin Engines
  BY <1>1 DEF Placement, Targets, ExactlyOnce, OnePlace, Accepted
<1>4. \A x \in Requests : InQueue(x)' <=> InQueue(x) \/ x = r
  <2>1. InQueue(r)'
    BY <1>2 DEF InQueue
  <2>2. ASSUME NEW x \in Requests, InQueue(x)
        PROVE  InQueue(x)'
    <3>1. PICK f \in Engines : \E i \in 1..Len(queue[f]) : queue[f][i] = x
      BY <2>2 DEF InQueue
    <3>2. PICK i \in 1..Len(queue[f]) : queue[f][i] = x
      BY <3>1
    <3>3. i \in 1..Len(queue'[f]) /\ queue'[f][i] = x
      BY <1>2, <3>2
    <3> QED
      BY <3>3 DEF InQueue
  <2>3. ASSUME NEW x \in Requests, InQueue(x)', x # r
        PROVE  InQueue(x)
    <3>1. PICK f \in Engines : \E i \in 1..Len(queue'[f]) : queue'[f][i] = x
      BY <2>3 DEF InQueue
    <3>2. PICK i \in 1..Len(queue'[f]) : queue'[f][i] = x
      BY <3>1
    <3>3. i \in 1..Len(queue[f]) /\ queue[f][i] = x
      BY <1>2, <2>3, <3>2
    <3> QED
      BY <3>3 DEF InQueue
  <2> QED
    BY <2>1, <2>2, <2>3
<1>5. \A x \in Requests : (Held(x)' <=> Held(x)) /\ (Delivered(x)' <=> Delivered(x))
  BY <1>1 DEF Held, Delivered
<1>6. \A x \in Requests : Accepted(x)' <=> Accepted(x) \/ x = r
  BY <1>1 DEF Accepted
<1>7. Targets'
  BY <1>1, <1>6 DEF Placement, Targets
<1>8. OnePlace'
  BY <1>1, <1>3, <1>4, <1>5, <1>6 DEF Placement, ExactlyOnce, OnePlace
<1>9. QueuedOnce'
  <2>1. \A f \in Engines : \A i \in 1..Len(queue[f]) : queue[f][i] # r
    BY <1>3 DEF InQueue
  <2>2. SUFFICES ASSUME NEW f \in Engines, NEW g \in Engines,
                        NEW i \in 1..Len(queue'[f]), NEW j \in 1..Len(queue'[g]),
                        queue'[f][i] = queue'[g][j]
                 PROVE  f = g /\ i = j
    BY DEF QueuedOnce
  <2>3. CASE i \in 1..Len(queue[f]) /\ j \in 1..Len(queue[g])
    <3>1. queue[f][i] = queue[g][j]
      BY <1>2, <2>2, <2>3
    <3> QED
      BY <2>3, <3>1 DEF Placement, ExactlyOnce, QueuedOnce
  <2>4. CASE i \notin 1..Len(queue[f]) /\ j \notin 1..Len(queue[g])
    BY <1>2, <2>4
  <2>5. CASE i \in 1..Len(queue[f]) /\ j \notin 1..Len(queue[g])
    <3>1. queue'[f][i] = queue[f][i] /\ queue'[g][j] = r
      BY <1>2, <2>5
    <3> QED
      BY <2>1, <2>2, <2>5, <3>1
  <2>6. CASE i \notin 1..Len(queue[f]) /\ j \in 1..Len(queue[g])
    <3>1. queue'[f][i] = r /\ queue'[g][j] = queue[g][j]
      BY <1>2, <2>6
    <3> QED
      BY <2>1, <2>2, <2>6, <3>1
  <2> QED
    BY <2>3, <2>4, <2>5, <2>6
<1>10. HeldOnce'
  BY <1>1 DEF Placement, ExactlyOnce, HeldOnce
<1>11. StaysOnTarget'
  <2>1. \A f \in Engines : \A i \in 1..Len(queue[f]) : queue[f][i] # r
    BY <1>3 DEF InQueue
  <2>2. \A w \in Workers : holding[w] # r
    BY <1>3 DEF Held
  <2> QED
    BY <1>1, <1>2, <2>1, <2>2 DEF Placement, StaysOnTarget
<1> QED
  BY <1>7, <1>8, <1>9, <1>10, <1>11 DEF Placement, ExactlyOnce

\* A request that is handed to a parked worker.
LEMMA HandOffPlaces ==
  ASSUME TypeOK, Phases, Placement,
         NEW e \in Engines, NEW r \in Requests,
         SubmitAccepted(e, r), HandOff(e, r)
  PROVE  Placement'
<1> USE ConstantTypes DEF TypeOK, PoolTypeOK
<1>1. PICK w \in WorkersOf(e) :
        /\ wst[w] = "parked"
        /\ holding' = [holding EXCEPT ![w] = r]
  BY DEF HandOff, ParkedOn
<1>2. /\ call[r] = "new"
      /\ call' = [call EXCEPT ![r] = "waiting"]
      /\ target' = [target EXCEPT ![r] = e]
      /\ UNCHANGED <<queue, resultCh>>
  BY DEF SubmitAccepted, HandOff
<1>3. ~InQueue(r) /\ ~Held(r) /\ ~Delivered(r) /\ target[r] \notin Engines
  BY <1>2 DEF Placement, Targets, ExactlyOnce, OnePlace, Accepted
<1>4. w \in Workers /\ w[1] = e /\ holding[w] = NoRequest
  BY <1>1 DEF Phases
<1>5. \A x \in Requests : Held(x)' <=> Held(x) \/ x = r
  BY <1>1, <1>4, PoolAssumption DEF Held, PoolAssumption
<1>6. \A x \in Requests : (InQueue(x)' <=> InQueue(x)) /\ (Delivered(x)' <=> Delivered(x))
  BY <1>2 DEF InQueue, Delivered
<1>7. \A x \in Requests : Accepted(x)' <=> Accepted(x) \/ x = r
  BY <1>2 DEF Accepted
<1>8. Targets'
  BY <1>2, <1>7 DEF Placement, Targets
<1>9. OnePlace'
  BY <1>2, <1>3, <1>5, <1>6, <1>7 DEF Placement, ExactlyOnce, OnePlace
<1>10. QueuedOnce'
  BY <1>2 DEF Placement, ExactlyOnce, QueuedOnce
<1>11. \A v \in Workers : holding[v] # r
  BY <1>3 DEF Held
<1>12. HeldOnce'
  BY <1>1, <1>4, <1>11 DEF Placement, ExactlyOnce, HeldOnce
<1>13. StaysOnTarget'
  <2>1. \A f \in Engines : \A i \in 1..Len(queue[f]) : queue[f][i] # r
    BY <1>3 DEF InQueue
  <2> QED
    BY <1>1, <1>2, <1>4, <1>11, <2>1 DEF Placement, StaysOnTarget
<1> QED
  BY <1>8, <1>9, <1>10, <1>12, <1>13 DEF Placement, ExactlyOnce

\* A request that a worker receives from the channel.
LEMMA TakePlaces ==
  ASSUME TypeOK, Phases, Placement,
         NEW w \in Workers, WorkerStep(w), Take(w)
  PROVE  Placement'
<1>e. PICK e \in Engines : e = w[1]
  BY ConstantTypes
<1>q. queue \in [Engines -> Seq(Requests)] /\ queue[e] # <<>>
  BY <1>e DEF TypeOK, PoolTypeOK, Take
<1>d. Distinct(Engines, queue)
  BY DEF Placement, ExactlyOnce, QueuedOnce, Distinct
<1>r. PICK r \in Requests : r = Head(queue[e])
  BY <1>q, TailEntries
<1>1. /\ queue' = [queue EXCEPT ![e] = Tail(@)]
      /\ holding' = [holding EXCEPT ![w] = r]
      /\ holding[w] = NoRequest
      /\ holding \in [Workers -> Requests \cup {NoRequest}]
      /\ UNCHANGED <<resultCh, call, target>>
  BY <1>e, <1>r DEF Take, WorkerStep, Phases, TypeOK, PoolTypeOK
<1>2. /\ Distinct(Engines, queue')
      /\ NothingNew(Engines, queue', queue)
      /\ Contains(Engines, queue, r)
      /\ ~Contains(Engines, queue', r)
      /\ \A x : Contains(Engines, queue', x) => Contains(Engines, queue, x)
      /\ \A x : Contains(Engines, queue, x) => Contains(Engines, queue', x) \/ x = r
  <2>1. /\ queue' \in [Engines -> Seq(Requests)]
        /\ queue'[e] = Tail(queue[e])
        /\ \A f \in Engines : f # e => queue'[f] = queue[f]
    BY <1>q, <1>1, TailEntries
  <2>2. Distinct(Engines, queue') /\ NothingNew(Engines, queue', queue)
    BY <1>q, <1>d, <2>1, ReceiveFromChannel
  <2>3. Contains(Engines, queue, r) /\ ~Contains(Engines, queue', r)
    <3>1. Contains(Engines, queue, Head(queue[e]))
      <4>1. 1 \in 1..Len(queue[e]) /\ queue[e][1] = Head(queue[e])
        BY <1>q, TailEntries
      <4> QED
        BY <4>1 DEF Contains
    <3>2. ~Contains(Engines, queue', Head(queue[e]))
      BY <1>q, <1>d, <2>1, ReceiveFromChannel
    <3> QED
      BY <1>r, <3>1, <3>2
  <2>4. \A x : Contains(Engines, queue', x) => Contains(Engines, queue, x)
    BY <1>q, <1>d, <2>1, ReceiveFromChannel
  <2>5. \A x : Contains(Engines, queue, x) => Contains(Engines, queue', x) \/ x = r
    BY <1>q, <1>d, <1>r, <2>1, ReceiveFromChannel
  <2> QED
    BY <2>2, <2>3, <2>4, <2>5
<1>3. InQueue(r) /\ ~Held(r) /\ ~Delivered(r)
  <2>1. InQueue(r)
    BY <1>2 DEF InQueue, Contains
  <2> QED
    BY <2>1 DEF Placement, ExactlyOnce, OnePlace
<1>4. \A x \in Requests : InQueue(x)' <=> InQueue(x) /\ x # r
  BY <1>2 DEF InQueue, Contains
<1>5. \A x \in Requests : Held(x)' <=> Held(x) \/ x = r
  BY <1>1, PoolAssumption DEF Held, PoolAssumption
<1>6. \A x \in Requests : (Delivered(x)' <=> Delivered(x)) /\ (Accepted(x)' <=> Accepted(x))
  BY <1>1 DEF Delivered, Accepted
<1>7. Targets'
  BY <1>1, <1>6 DEF Placement, Targets
<1>8. OnePlace'
  BY <1>1, <1>3, <1>4, <1>5, <1>6 DEF Placement, ExactlyOnce, OnePlace
<1>9. QueuedOnce'
  BY <1>2 DEF QueuedOnce, Distinct
<1>10. HeldOnce'
  BY <1>1, <1>3 DEF Placement, ExactlyOnce, HeldOnce, Held
<1>11. StaysOnTarget'
  <2>1. \A f \in Engines : \A i \in 1..Len(queue'[f]) : target[queue'[f][i]] = f
    BY <1>2 DEF Placement, StaysOnTarget, NothingNew
  <2>2. target[r] = w[1]
    <3>1. 1 \in 1..Len(queue[e]) /\ queue[e][1] = r
      BY <1>q, <1>r, TailEntries
    <3> QED
      BY <1>e, <3>1 DEF Placement, StaysOnTarget
  <2> QED
    BY <1>1, <2>1, <2>2 DEF Placement, StaysOnTarget
<1> QED
  BY <1>7, <1>8, <1>9, <1>10, <1>11 DEF Placement, ExactlyOnce

\* A result that goes from a worker to the channel of its caller.
LEMMA DeliverPlaces ==
  ASSUME TypeOK, Phases, Placement,
         NEW w \in Workers, WorkerStep(w), Deliver(w)
  PROVE  Placement'
<1> USE ConstantTypes DEF TypeOK, PoolTypeOK
<1>r. PICK r \in Requests : r = holding[w]
  BY DEF Deliver, Phases
<1>1. /\ holding' = [holding EXCEPT ![w] = NoRequest]
      /\ resultCh' = [resultCh EXCEPT ![r] = Append(@, outcome[w])]
      /\ holding[w] = r /\ r # NoRequest
      /\ outcome[w] \in Outcomes
      /\ UNCHANGED <<queue, call, target>>
  BY <1>r, PoolAssumption DEF Deliver, WorkerStep, Phases, PoolAssumption
<1>2. resultCh'[r] # <<>>
  BY <1>1, AppendEntries, LenProperties
<1>3. \A x \in Requests : x # r => resultCh'[x] = resultCh[x]
  BY <1>1
<1>4. Held(r) /\ ~InQueue(r) /\ ~Delivered(r) /\ call[r] # "received"
  <2>1. Held(r)
    BY <1>1 DEF Held
  <2> QED
    BY <1>1, <2>1 DEF Placement, ExactlyOnce, OnePlace, Delivered
<1>5. \A x \in Requests : Held(x)' <=> Held(x) /\ x # r
  BY <1>1, PoolAssumption DEF Placement, ExactlyOnce, HeldOnce, Held, PoolAssumption
<1>6. \A x \in Requests : Delivered(x)' <=> Delivered(x) \/ x = r
  BY <1>1, <1>2, <1>3 DEF Delivered
<1>7. \A x \in Requests : (InQueue(x)' <=> InQueue(x)) /\ (Accepted(x)' <=> Accepted(x))
  BY <1>1 DEF InQueue, Accepted
<1>8. Targets'
  BY <1>1, <1>7 DEF Placement, Targets
<1>9. OnePlace'
  BY <1>1, <1>3, <1>4, <1>5, <1>6, <1>7 DEF Placement, ExactlyOnce, OnePlace
<1>10. QueuedOnce'
  BY <1>1 DEF Placement, ExactlyOnce, QueuedOnce
<1>11. HeldOnce'
  BY <1>1 DEF Placement, ExactlyOnce, HeldOnce
<1>12. StaysOnTarget'
  BY <1>1 DEF Placement, StaysOnTarget
<1> QED
  BY <1>8, <1>9, <1>10, <1>11, <1>12 DEF Placement, ExactlyOnce

\* A result that its caller reads, leaving the channel empty.
LEMMA ReceivePlaces ==
  ASSUME TypeOK, Phases, Placement, NEW r \in Requests, Receive(r)
  PROVE  Placement'
<1>1. /\ call[r] = "waiting"
      /\ resultCh[r] # <<>>
      /\ resultCh' = [resultCh EXCEPT ![r] = Tail(@)]
      /\ call' = [call EXCEPT ![r] = "received"]
      /\ UNCHANGED <<queue, holding, target>>
  BY DEF Receive
<1>2. resultCh'[r] = <<>>
  <2>1. /\ resultCh \in [Requests -> Seq(Outcomes)]
        /\ Len(resultCh[r]) <= 1
    BY DEF TypeOK, PoolTypeOK, ResultCap
  <2>2. resultCh'[r] = Tail(resultCh[r])
    BY <1>1, <2>1
  <2> QED
    BY <1>1, <2>1, <2>2, TailOfOne
<1>3. \A x \in Requests : x # r => resultCh'[x] = resultCh[x]
  BY <1>1 DEF TypeOK, PoolTypeOK
<1>4. \A x \in Requests : Delivered(x)' <=> Delivered(x)
  BY <1>1, <1>3 DEF Delivered, TypeOK
<1>5. \A x \in Requests : /\ InQueue(x)' <=> InQueue(x)
                          /\ Held(x)' <=> Held(x)
                          /\ Accepted(x)' <=> Accepted(x)
  BY <1>1 DEF InQueue, Held, Accepted, TypeOK
<1>6. Targets'
  BY <1>1, <1>5 DEF Placement, Targets
<1>7. OnePlace'
  BY <1>1, <1>2, <1>3, <1>4, <1>5 DEF Placement, ExactlyOnce, OnePlace, TypeOK
<1>8. QueuedOnce' /\ HeldOnce'
  BY <1>1 DEF Placement, ExactlyOnce, QueuedOnce, HeldOnce
<1>9. StaysOnTarget'
  BY <1>1 DEF Placement, StaysOnTarget
<1> QED
  BY <1>6, <1>7, <1>8, <1>9 DEF Placement, ExactlyOnce

\* A step that moves no request and settles no accepted one.
LEMMA StillPlaces ==
  ASSUME TypeOK, Placement,
         UNCHANGED <<queue, holding, resultCh, target>>,
         \A r \in Requests : /\ Accepted(r)' <=> Accepted(r)
                             /\ call'[r] = "received" <=> call[r] = "received"
  PROVE  Placement'
<1>1. \A r \in Requests : /\ InQueue(r)' <=> InQueue(r)
                          /\ Held(r)' <=> Held(r)
                          /\ Delivered(r)' <=> Delivered(r)
  BY DEF InQueue, Held, Delivered
<1>2. Targets'
  BY DEF Placement, Targets
<1>3. OnePlace'
  BY <1>1 DEF Placement, ExactlyOnce, OnePlace
<1>4. QueuedOnce' /\ HeldOnce' /\ StaysOnTarget'
  BY DEF Placement, ExactlyOnce, QueuedOnce, HeldOnce, StaysOnTarget
<1> QED
  BY <1>2, <1>3, <1>4 DEF Placement, ExactlyOnce

LEMMA PlacementStep ==
  ASSUME TypeOK, Phases, Placement, [Next]_vars
  PROVE  Placement'
<1> USE DEF TypeOK, poolVars
<1>1. ASSUME NEW e \in Engines, NEW r \in Requests, SubmitAccepted(e, r)
      PROVE  Placement'
  BY <1>1, EnqueuePlaces, HandOffPlaces DEF SubmitAccepted, SubmitTrue
<1>2. ASSUME NEW e \in Engines, NEW r \in Requests,
             SubmitRejected(e, r) \/ SubmitAfterClose(e, r)
      PROVE  Placement'
  <2>1. /\ UNCHANGED <<queue, holding, resultCh, target>>
        /\ call[r] = "new"
        /\ \/ call' = [call EXCEPT ![r] = "rejected"]
           \/ call' = [call EXCEPT ![r] = "panicked"]
    BY <1>2 DEF SubmitRejected, SubmitFalse, SubmitAfterClose, SubmitPanics
  <2> QED
    BY <2>1, StillPlaces DEF Accepted
<1>3. ASSUME NEW r \in Requests, Abandon(r)
      PROVE  Placement'
  BY <1>3, StillPlaces DEF Abandon, Accepted
<1>4. ASSUME NEW e \in Engines, CloseBegin(e) \/ CloseReturn(e)
      PROVE  Placement'
  BY <1>4, StillPlaces DEF CloseBegin, CloseQueue, CloseReturn, Accepted
<1>5. ASSUME NEW w \in Workers, WorkerStep(w)
      PROVE  Placement'
  <2>1. CASE Park(w) \/ Exit(w) \/ \E o \in Outcomes : PredictReturns(w, o)
    <3>1. UNCHANGED <<queue, holding, resultCh, target, call>>
      BY <1>5, <2>1 DEF WorkerStep, Park, Exit, PredictReturns
    <3> QED
      BY <3>1, StillPlaces DEF Accepted
  <2>2. CASE Take(w)
    BY <1>5, <2>2, TakePlaces
  <2>3. CASE Deliver(w)
    BY <1>5, <2>3, DeliverPlaces
  <2> QED
    BY <1>5, <2>1, <2>2, <2>3 DEF WorkerStep
<1>6. CASE Terminated \/ UNCHANGED vars
  BY <1>6, StillPlaces DEF Terminated, vars, Accepted
<1>7. ASSUME NEW r \in Requests, Receive(r)
      PROVE  Placement'
  BY <1>7, ReceivePlaces
<1> QED
  BY <1>1, <1>2, <1>3, <1>4, <1>5, <1>6, <1>7 DEF Next

-----------------------------------------------------------------------------
(* The inductive invariant and what it implies                             *)

IInv == TypeOK /\ Phases /\ Closing /\ NoLostWakeup /\ Placement

LEMMA IInvInit == Init => IInv
  BY TypingInit, ClosingInit, PlacementInit DEF IInv

LEMMA IInvStep == IInv /\ [Next]_vars => IInv'
  BY TypingStep, ClosingStep, PlacementStep DEF IInv

LEMMA Inductive == Spec => []IInv
  BY IInvInit, IInvStep, PTL DEF Spec

\* No request is lost, duplicated or served twice, whatever callers give up
\* and whenever a pool is closed.
THEOREM ExactlyOnceCorrect == Spec => []ExactlyOnce
<1>1. IInv => ExactlyOnce
  BY DEF IInv, Placement
<1> QED
  BY <1>1, Inductive, PTL

\* Requests stay with the engine that accepted them.
THEOREM StaysOnTargetCorrect == Spec => []StaysOnTarget
<1>1. IInv => StaysOnTarget
  BY DEF IInv, Placement
<1> QED
  BY <1>1, Inductive, PTL

\* No worker sleeps while a request waits in its channel.
THEOREM NoLostWakeupCorrect == Spec => []NoLostWakeup
<1>1. IInv => NoLostWakeup
  BY DEF IInv
<1> QED
  BY <1>1, Inductive, PTL

\* A worker that is to deliver a request finds its channel empty.
LEMMA RoomToDeliver == IInv => SendNeverBlocks
<1> SUFFICES ASSUME IInv, NEW w \in Workers, wst[w] = "sending"
             PROVE  Len(resultCh[holding[w]]) < ResultCap
  BY DEF SendNeverBlocks
<1>1. holding[w] \in Requests
  BY DEF IInv, TypeOK, PoolTypeOK, Phases
<1>2. Held(holding[w])
  BY DEF Held
<1>3. resultCh[holding[w]] = <<>>
  BY <1>1, <1>2 DEF IInv, Placement, ExactlyOnce, OnePlace, Delivered
<1> QED
  BY <1>3, EmptySeq DEF ResultCap

\* A Result channel of capacity one never makes a worker wait, because the
\* request a worker holds is at no other worker and not delivered yet.
THEOREM SendNeverBlocksCorrect == Spec => []SendNeverBlocks
  BY RoomToDeliver, Inductive, PTL

\* When Close has returned, every request the pool accepted is delivered:
\* its workers have exited, so that they hold nothing and, there being at
\* least one of them, have left nothing in the channel.
THEOREM CloseDrainsCorrect == Spec => []CloseDrains
<1>1. IInv => CloseDrains
  <2> SUFFICES ASSUME IInv, NEW e \in Engines, closer[e] = "returned",
                      NEW r \in Requests, target[r] = e, Accepted(r)
               PROVE  Delivered(r)
    BY DEF CloseDrains
  <2>1. AllExited(e)
    BY DEF IInv, Closing
  <2>2. queue[e] = <<>>
    <3>1. <<e, 1>> \in WorkersOf(e) /\ <<e, 1>> \in Workers
      BY ConstantTypes
    <3>2. wst[<<e, 1>>] = "exited"
      BY <2>1, <3>1 DEF AllExited
    <3> QED
      BY <3>1, <3>2 DEF IInv, Closing
  <2>3. ~InQueue(r)
    <3> SUFFICES ASSUME NEW f \in Engines, NEW i \in 1..Len(queue[f]), queue[f][i] = r
                 PROVE  FALSE
      BY DEF InQueue
    <3>1. f = e
      BY DEF IInv, Placement, StaysOnTarget
    <3>2. 1..Len(queue[e]) = {}
      BY <2>2, EmptySeq
    <3> QED
      BY <3>1, <3>2
  <2>4. ~Held(r)
    <3> SUFFICES ASSUME NEW w \in Workers, holding[w] = r
                 PROVE  FALSE
      BY DEF Held
    <3>1. holding[w] # NoRequest
      BY PoolAssumption DEF PoolAssumption
    <3>2. w[1] = e
      BY <3>1 DEF IInv, Placement, StaysOnTarget
    <3>3. wst[w] = "exited"
      BY <2>1, <3>2, ConstantTypes DEF AllExited
    <3> QED
      BY <3>1, <3>3 DEF IInv, Phases
  <2> QED
    BY <2>3, <2>4 DEF IInv, Placement, ExactlyOnce, OnePlace
<1> QED
  BY <1>1, Inductive, PTL

-----------------------------------------------------------------------------
(* The load of a pool                                                      *)

\* A list of n entries names at most n things.
LEMMA ListCardinality ==
  ASSUME NEW n \in Nat, NEW f
  PROVE  /\ IsFiniteSet({f[i] : i \in 1..n})
         /\ Cardinality({f[i] : i \in 1..n}) <= n
<1> DEFINE T == {f[i] : i \in 1..n}
           g == [i \in 1..n |-> f[i]]
<1>1. g \in Surjection(1..n, T)
  BY DEF Surjection
<1>2. IsFiniteSet(1..n) /\ Cardinality(1..n) = n
  BY FS_Interval
<1> QED
  BY <1>1, <1>2, FS_Surjection

\* What a pool owes is in its channel or at its workers.
LEMMA OwesWhatItHolds == IInv => BoundedLoad
<1> SUFFICES ASSUME IInv, NEW e \in Engines
             PROVE  Cardinality(Outstanding(e)) <= Capacity + NumWorkers
  BY DEF BoundedLoad
<1>h. PICK h : h = [i \in 1..NumWorkers |-> holding[<<e, i>>]]
  OBVIOUS
<1> DEFINE Waiting == {queue[e][i] : i \in 1..Len(queue[e])}
           Serving == {h[i] : i \in 1..NumWorkers}
<1>1. Len(queue[e]) \in Nat /\ Len(queue[e]) <= Capacity
  BY LenProperties DEF IInv, TypeOK, PoolTypeOK
<1>2. IsFiniteSet(Waiting) /\ Cardinality(Waiting) <= Len(queue[e])
  BY <1>1, ListCardinality
<1>3. IsFiniteSet(Serving) /\ Cardinality(Serving) <= NumWorkers
  <2>1. NumWorkers \in Nat
    BY ConstantTypes
  <2> QED
    BY <2>1, ListCardinality
<1>4. Outstanding(e) \subseteq Waiting \cup Serving
  <2> SUFFICES ASSUME NEW r \in Requests, target[r] = e, Accepted(r), ~Delivered(r)
               PROVE  r \in Waiting \cup Serving
    BY DEF Outstanding
  <2>1. InQueue(r) \/ Held(r)
    BY DEF IInv, Placement, ExactlyOnce, OnePlace
  <2>2. CASE InQueue(r)
    <3>1. PICK f \in Engines : \E i \in 1..Len(queue[f]) : queue[f][i] = r
      BY <2>2 DEF InQueue
    <3>2. f = e
      BY <3>1 DEF IInv, Placement, StaysOnTarget
    <3> QED
      BY <3>1, <3>2
  <2>3. CASE Held(r)
    <3>1. PICK w \in Workers : holding[w] = r
      BY <2>3 DEF Held
    <3>2. w[1] = e
      BY <3>1, PoolAssumption DEF IInv, Placement, StaysOnTarget, PoolAssumption
    <3>3. PICK i \in 1..NumWorkers : w = <<e, i>>
      BY <3>1, <3>2 DEF Workers
    <3>4. h[i] = r
      BY <1>h, <3>1, <3>3
    <3> QED
      BY <3>4
  <2> QED
    BY <2>1, <2>2, <2>3
<1>5. /\ IsFiniteSet(Waiting \cup Serving)
      /\ Cardinality(Waiting \cup Serving) <= Cardinality(Waiting) + Cardinality(Serving)
  <2> HIDE DEF Waiting, Serving
  <2>1. /\ IsFiniteSet(Waiting \cup Serving)
        /\ Cardinality(Waiting \cup Serving) =
             Cardinality(Waiting) + Cardinality(Serving) - Cardinality(Waiting \cap Serving)
    BY <1>2, <1>3, FS_Union
  <2>2. IsFiniteSet(Waiting \cap Serving)
    BY <1>2, FS_Intersection
  <2>3. /\ Cardinality(Waiting \cap Serving) \in Nat
        /\ Cardinality(Waiting) \in Nat
        /\ Cardinality(Serving) \in Nat
    BY <1>2, <1>3, <2>2, FS_CardinalityType
  <2> QED
    BY <2>1, <2>3
<1>6. Cardinality(Outstanding(e)) <= Cardinality(Waiting \cup Serving)
  BY <1>4, <1>5, FS_Subset
<1>7. /\ Cardinality(Waiting) \in Nat
      /\ Cardinality(Serving) \in Nat
      /\ Cardinality(Waiting \cup Serving) \in Nat
      /\ Cardinality(Outstanding(e)) \in Nat
  BY <1>2, <1>3, <1>4, <1>5, FS_Subset, FS_CardinalityType
<1> HIDE DEF Waiting, Serving
<1> QED
  BY <1>1, <1>2, <1>3, <1>5, <1>6, <1>7, ConstantTypes

\* What a pool owes fits in its queue and its workers.
THEOREM BoundedLoadCorrect == Spec => []BoundedLoad
  BY OwesWhatItHolds, Inductive, PTL

-----------------------------------------------------------------------------
(* Results stay delivered                                                  *)

LEMMA DeliveredStep ==
  ASSUME IInv, NEW r \in Requests, Delivered(r), [Next]_vars
  PROVE  Delivered(r)'
<1> USE AppendEntries DEF IInv, TypeOK, PoolTypeOK, Delivered
<1>1. CASE UNCHANGED <<resultCh, call>>
  BY <1>1
<1>2. ASSUME NEW e \in Engines, NEW q \in Requests,
             SubmitAccepted(e, q) \/ SubmitRejected(e, q) \/ SubmitAfterClose(e, q)
      PROVE  Delivered(r)'
  <2>1. resultCh' = resultCh /\ call[q] = "new"
        /\ \A x \in Requests \ {q} : call'[x] = call[x]
    BY <1>2
    DEF SubmitAccepted, SubmitTrue, HandOff, Enqueue, SubmitRejected, SubmitFalse,
        SubmitAfterClose, SubmitPanics, poolVars
  <2> QED
    BY <2>1
<1>3. ASSUME NEW q \in Requests, Receive(q) \/ Abandon(q) PROVE Delivered(r)'
  <2>1. CASE Receive(q)
    BY <2>1 DEF Receive
  <2>2. CASE Abandon(q)
    BY <2>2 DEF Abandon, poolVars
  <2> QED
    BY <1>3, <2>1, <2>2
<1>4. ASSUME NEW e \in Engines, CloseBegin(e) \/ CloseReturn(e) PROVE Delivered(r)'
  BY <1>1, <1>4 DEF CloseBegin, CloseQueue, CloseReturn, poolVars
<1>5. ASSUME NEW w \in Workers, WorkerStep(w) PROVE Delivered(r)'
  <2>1. CASE Deliver(w)
    <3>1. holding[w] \in Requests /\ outcome[w] \in Outcomes
      BY <2>1 DEF Deliver, Phases
    <3>2. resultCh'[holding[w]] # <<>>
      BY <2>1, <3>1, EmptySeq DEF Deliver
    <3>3. call' = call /\ \A x \in Requests \ {holding[w]} : resultCh'[x] = resultCh[x]
      BY <1>5, <2>1 DEF WorkerStep, Deliver
    <3> QED
      BY <3>2, <3>3
  <2>2. CASE Park(w) \/ Take(w) \/ Exit(w) \/ \E o \in Outcomes : PredictReturns(w, o)
    BY <1>1, <1>5, <2>2 DEF WorkerStep, Park, Take, Exit, PredictReturns
  <2> QED
    BY <1>5, <2>1, <2>2 DEF WorkerStep
<1>6. CASE Terminated \/ UNCHANGED vars
  BY <1>1, <1>6 DEF Terminated, vars, poolVars
<1> QED
  BY <1>2, <1>3, <1>4, <1>5, <1>6 DEF Next

\* Served once for all: a request that has its result, taken or not, is never
\* queued or given to a worker again, also when its caller has gone and when
\* the pool closes (pool.go:63-69).
THEOREM ServedOnlyOnce ==
  Spec => \A r \in Requests :
            [](Delivered(r) => [](Delivered(r) /\ ~InQueue(r) /\ ~Held(r)))
<1> SUFFICES ASSUME NEW r \in Requests
             PROVE  Spec => [](Delivered(r)
                               => [](Delivered(r) /\ ~InQueue(r) /\ ~Held(r)))
  OBVIOUS
<1>1. IInv /\ Delivered(r) /\ [Next]_vars => Delivered(r)'
  BY DeliveredStep
<1>2. IInv /\ Delivered(r) => ~InQueue(r) /\ ~Held(r)
  BY DEF IInv, Placement, ExactlyOnce, OnePlace
<1> QED
  BY <1>1, <1>2, Inductive, PTL DEF Spec

-----------------------------------------------------------------------------
(* Rejections                                                              *)

\* A pool that rejects has work: its workers are not parked, since the send
\* would have found them, nor gone, since the pool is open; one that is not
\* on its way back to the channel holds a request that the pool owes.
LEMMA RejectionShowsWork ==
  ASSUME IInv, NEW e \in Engines, NEW r \in Requests, SubmitRejected(e, r)
  PROVE  Outstanding(e) # {} \/ \E w \in WorkersOf(e) : wst[w] = "ready"
<1> DEFINE w == <<e, 1>>
<1>1. w \in WorkersOf(e) /\ w \in Workers /\ w[1] = e
  BY ConstantTypes
<1> HIDE DEF w
<1> SUFFICES ASSUME wst[w] # "ready"
             PROVE  Outstanding(e) # {}
  BY <1>1
<1>2. wst[w] # "parked"
  BY <1>1 DEF SubmitRejected, SubmitFalse, ParkedOn
<1>3. wst[w] # "exited"
  BY <1>1 DEF SubmitRejected, SubmitFalse, IInv, Closing
<1>4. wst[w] \in {"predicting", "sending"}
  BY <1>1, <1>2, <1>3 DEF IInv, TypeOK, PoolTypeOK, WorkerStates
<1>5. holding[w] # NoRequest /\ holding[w] \in Requests
  BY <1>1, <1>4 DEF IInv, Phases, TypeOK, PoolTypeOK
<1>6. target[holding[w]] = e
  BY <1>1, <1>5 DEF IInv, Placement, StaysOnTarget
<1>7. Accepted(holding[w]) /\ ~Delivered(holding[w])
  <2>1. Held(holding[w])
    BY <1>1 DEF Held
  <2> QED
    BY <1>5, <2>1 DEF IInv, Placement, ExactlyOnce, OnePlace
<1> QED
  BY <1>5, <1>6, <1>7 DEF Outstanding

\* A rejection is no accident of timing: it takes requests the pool still
\* owes, or a worker between two receives.
THEOREM RejectedMeansBusyCorrect == Spec => RejectedMeansBusy
<1>1. IInv /\ [Next]_vars =>
        [\A e \in Engines, r \in Requests : SubmitRejected(e, r) =>
           Outstanding(e) # {} \/ \E w \in WorkersOf(e) : wst[w] = "ready"]_vars
  BY RejectionShowsWork
<1> QED
  BY <1>1, Inductive, PTL DEF Spec, RejectedMeansBusy

-----------------------------------------------------------------------------
(* The pools implement the safety part of their contract                   *)

\* What the contract sees of the pools.
BusyAt(e) == {holding[w] : w \in WorkersOf(e)} \ {NoRequest}
Busy == [e \in Engines |-> {holding[w] : w \in WorkersOf(e)} \ {NoRequest}]
Done == {r \in Requests : Delivered(r)}
Refused == {r \in Requests : call[r] \in {"rejected", "panicked"}}
Open == [e \in Engines |-> ~closed[e]]
Empty == [e \in Engines |-> closer[e] = "returned"]

\* The contract counts as the pools do.
LEMMA SameCardinality ==
  ASSUME NEW S
  PROVE  Contract!Cardinality(S) = Cardinality(S)
  BY DEF Cardinality, Contract!Cardinality

\* A worker that holds nothing is a free server.
LEMMA FreeServer ==
  ASSUME NEW e \in Engines, NEW w \in WorkersOf(e), holding[w] = NoRequest
  PROVE  Cardinality(BusyAt(e)) < NumWorkers
<1>h. PICK h : h = [i \in 1..NumWorkers |-> holding[<<e, i>>]]
  OBVIOUS
<1> DEFINE T == {h[i] : i \in 1..NumWorkers}
<1>1. NumWorkers \in Nat \ {0}
  BY ConstantTypes
<1>2. IsFiniteSet(T) /\ Cardinality(T) <= NumWorkers
  BY <1>1, ListCardinality
<1>3. NoRequest \in T
  <2>1. PICK i \in 1..NumWorkers : w = <<e, i>>
    BY DEF WorkersOf
  <2> QED
    BY <1>h, <2>1
<1>4. BusyAt(e) = T \ {NoRequest}
  <2>1. \A v \in WorkersOf(e) : \E i \in 1..NumWorkers : h[i] = holding[v]
    BY <1>h DEF WorkersOf
  <2>2. \A i \in 1..NumWorkers : \E v \in WorkersOf(e) : h[i] = holding[v]
    BY <1>h DEF WorkersOf
  <2> QED
    BY <2>1, <2>2 DEF BusyAt
<1> HIDE DEF T
<1>5. Cardinality(T \ {NoRequest}) = Cardinality(T) - 1 /\ Cardinality(T) \in Nat
  BY <1>2, <1>3, FS_RemoveElement, FS_CardinalityType
<1> QED
  BY <1>1, <1>2, <1>4, <1>5

\* What a worker holds is nothing to the other pools.
LEMMA OtherPools ==
  ASSUME TypeOK, NEW e \in Engines, NEW w \in WorkersOf(e), NEW x,
         holding' = [holding EXCEPT ![w] = x], NEW f \in Engines \ {e}
  PROVE  BusyAt(f)' = BusyAt(f)
<1>1. \A v \in WorkersOf(f) : v \in Workers /\ v # w
  BY ConstantTypes
<1>2. \A v \in WorkersOf(f) : holding'[v] = holding[v]
  BY <1>1 DEF TypeOK, PoolTypeOK
<1> QED
  BY <1>2 DEF BusyAt

\* A free worker takes a request.
LEMMA BusyGrows ==
  ASSUME TypeOK, NEW e \in Engines, NEW w \in WorkersOf(e), NEW r \in Requests,
         holding[w] = NoRequest, holding' = [holding EXCEPT ![w] = r]
  PROVE  Busy' = [Busy EXCEPT ![e] = @ \cup {r}]
<1> USE ConstantTypes, PoolAssumption
<1>1. BusyAt(e)' = BusyAt(e) \cup {r}
  BY DEF TypeOK, PoolTypeOK, BusyAt
<1>2. \A f \in Engines \ {e} : BusyAt(f)' = BusyAt(f)
  BY OtherPools
<1> QED
  BY <1>1, <1>2 DEF Busy, BusyAt

\* A worker is done with its request, which no other worker has.
LEMMA BusyShrinks ==
  ASSUME TypeOK, HeldOnce, NEW e \in Engines, NEW w \in WorkersOf(e),
         holding[w] # NoRequest, holding' = [holding EXCEPT ![w] = NoRequest]
  PROVE  Busy' = [Busy EXCEPT ![e] = @ \ {holding[w]}]
<1> USE ConstantTypes, PoolAssumption
<1>1. BusyAt(e)' = BusyAt(e) \ {holding[w]}
  BY DEF TypeOK, PoolTypeOK, BusyAt, HeldOnce
<1>2. \A f \in Engines \ {e} : BusyAt(f)' = BusyAt(f)
  BY OtherPools
<1> QED
  BY <1>1, <1>2 DEF Busy, BusyAt

LEMMA NewIsFresh ==
  ASSUME IInv, NEW r \in Requests, call[r] = "new"
  PROVE  Contract!Fresh(r)
<1>1. ~InQueue(r) /\ ~Held(r) /\ ~Delivered(r)
  BY DEF IInv, Placement, ExactlyOnce, OnePlace, Accepted
<1>2. \A e \in Engines : r \notin BusyAt(e)
  BY <1>1, ConstantTypes DEF BusyAt, Held
<1>3. \A e \in Engines : \A i \in 1..Len(queue[e]) : queue[e][i] # r
  BY <1>1 DEF InQueue
<1>4. r \notin Done /\ r \notin Refused
  BY <1>1 DEF Done, Refused
<1> QED
  BY <1>2, <1>3, <1>4 DEF Contract!Fresh, BusyAt, Done, Refused

\* One lemma for each step of the contract, in the terms above.
LEMMA AsAdmit ==
  ASSUME NEW e \in Engines, NEW r \in Requests, Contract!Fresh(r), ~closed[e],
         Len(queue[e]) < Capacity, queue' = [queue EXCEPT ![e] = Append(@, r)],
         UNCHANGED <<Busy, Done, Refused, Open, Empty>>
  PROVE  Contract!Next
<1>1. Contract!Admit(e, r)
  BY DEF Contract!Admit, Busy, Done, Refused, Open, Empty
<1> QED
  BY <1>1 DEF Contract!Next

LEMMA AsAdmitAndStart ==
  ASSUME NEW e \in Engines, NEW r \in Requests, Contract!Fresh(r), ~closed[e],
         queue[e] = <<>>, Cardinality(Busy[e]) < NumWorkers,
         Busy' = [Busy EXCEPT ![e] = @ \cup {r}],
         UNCHANGED <<queue, Done, Refused, Open, Empty>>
  PROVE  Contract!Next
<1>1. Contract!Cardinality(Busy[e]) < NumWorkers
  BY SameCardinality
<1>2. Contract!AdmitAndStart(e, r)
  BY <1>1 DEF Contract!AdmitAndStart, Busy, Done, Refused, Open, Empty
<1> QED
  BY <1>2 DEF Contract!Next

LEMMA AsRefuse ==
  ASSUME NEW e \in Engines, NEW r \in Requests, Contract!Fresh(r),
         ~closed[e] => Len(queue[e]) >= Capacity,
         Refused' = Refused \cup {r},
         UNCHANGED <<queue, Busy, Done, Open, Empty>>
  PROVE  Contract!Next
<1>1. Contract!Refuse(e, r)
  BY DEF Contract!Refuse, Busy, Done, Refused, Open, Empty
<1> QED
  BY <1>1 DEF Contract!Next

LEMMA AsStart ==
  ASSUME NEW e \in Engines, queue[e] # <<>>, Cardinality(Busy[e]) < NumWorkers,
         queue' = [queue EXCEPT ![e] = Tail(@)],
         Busy' = [Busy EXCEPT ![e] = @ \cup {Head(queue[e])}],
         UNCHANGED <<Done, Refused, Open, Empty>>
  PROVE  Contract!Next
<1>1. Contract!Cardinality(Busy[e]) < NumWorkers
  BY SameCardinality
<1>2. Contract!Start(e)
  BY <1>1 DEF Contract!Start, Busy, Done, Refused, Open, Empty
<1> QED
  BY <1>2 DEF Contract!Next

LEMMA AsServe ==
  ASSUME NEW e \in Engines, NEW r \in Requests, r \in Busy[e],
         Busy' = [Busy EXCEPT ![e] = @ \ {r}], Done' = Done \cup {r},
         UNCHANGED <<queue, Refused, Open, Empty>>
  PROVE  Contract!Next
<1>1. Contract!Serve(e, r)
  BY DEF Contract!Serve, Busy, Done, Refused, Open, Empty
<1> QED
  BY <1>1 DEF Contract!Next

LEMMA AsShut ==
  ASSUME NEW e \in Engines, ~closed[e], Open' = [Open EXCEPT ![e] = FALSE],
         UNCHANGED <<queue, Busy, Done, Refused, Empty>>
  PROVE  Contract!Next
<1>1. Contract!Shut(e)
  BY DEF Contract!Shut, Busy, Done, Refused, Open, Empty
<1> QED
  BY <1>1 DEF Contract!Next

LEMMA AsDrained ==
  ASSUME NEW e \in Engines, closed[e], closer[e] # "returned",
         queue[e] = <<>>, Busy[e] = {},
         Empty' = [Empty EXCEPT ![e] = TRUE],
         UNCHANGED <<queue, Busy, Done, Refused, Open>>
  PROVE  Contract!Next
<1>1. Contract!Drained(e)
  BY DEF Contract!Drained, Busy, Done, Refused, Open, Empty
<1> QED
  BY <1>1 DEF Contract!Next

LEMMA AsNothing ==
  ASSUME UNCHANGED <<queue, Busy, Done, Refused, Open, Empty>>
  PROVE  UNCHANGED Contract!avars
  BY DEF Contract!avars, Busy, Done, Refused, Open, Empty

\* What the requests see of the contract changes with these two only.
LEMMA SameDone ==
  ASSUME \A r \in Requests : Delivered(r)' = Delivered(r)
  PROVE  Done' = Done
  BY DEF Done

LEMMA SameRefused ==
  ASSUME \A r \in Requests :
           (call'[r] \in {"rejected", "panicked"})
             <=> (call[r] \in {"rejected", "panicked"})
  PROVE  Refused' = Refused
  BY DEF Refused

LEMMA SubmitMeets ==
  ASSUME IInv, NEW e \in Engines, NEW r \in Requests,
         SubmitAccepted(e, r) \/ SubmitRejected(e, r) \/ SubmitAfterClose(e, r)
  PROVE  Contract!Next
<1>1. call \in [Requests -> CallStates] /\ call[r] = "new"
  BY DEF IInv, TypeOK, SubmitAccepted, SubmitRejected, SubmitAfterClose
<1>2. Contract!Fresh(r)
  BY <1>1, NewIsFresh
<1>3. Open' = Open /\ Empty' = Empty
  BY DEF SubmitAccepted, SubmitRejected, SubmitAfterClose, SubmitTrue, HandOff,
         Enqueue, SubmitFalse, SubmitPanics, poolVars, Open, Empty
<1>4. CASE SubmitAccepted(e, r)
  <2>1. resultCh' = resultCh /\ call' = [call EXCEPT ![r] = "waiting"] /\ ~closed[e]
    BY <1>4 DEF SubmitAccepted, SubmitTrue, HandOff, Enqueue
  <2>2. Done' = Done
    BY <1>1, <2>1, SameDone DEF Delivered
  <2>3. Refused' = Refused
    BY <1>1, <2>1, SameRefused
  <2>4. CASE Enqueue(e, r)
    <3>1. /\ Len(queue[e]) < Capacity
          /\ queue' = [queue EXCEPT ![e] = Append(@, r)]
          /\ Busy' = Busy
      BY <2>4 DEF Enqueue, Busy
    <3> QED
      BY <1>2, <1>3, <2>1, <2>2, <2>3, <3>1, AsAdmit
  <2>5. CASE HandOff(e, r)
    <3>1. PICK w \in ParkedOn(e) : holding' = [holding EXCEPT ![w] = r]
      BY <2>5 DEF HandOff
    <3>2. w \in WorkersOf(e) /\ w \in Workers /\ wst[w] = "parked" /\ w[1] = e
      BY ConstantTypes DEF ParkedOn
    <3>3. holding[w] = NoRequest /\ queue[e] = <<>>
      BY <3>2 DEF IInv, Phases, NoLostWakeup
    <3>4. Cardinality(Busy[e]) < NumWorkers
      BY <3>2, <3>3, FreeServer DEF Busy, BusyAt
    <3>5. Busy' = [Busy EXCEPT ![e] = @ \cup {r}]
      BY <3>1, <3>2, <3>3, BusyGrows DEF IInv
    <3>6. queue' = queue
      BY <2>5 DEF HandOff
    <3> QED
      BY <1>2, <1>3, <2>1, <2>2, <2>3, <3>3, <3>4, <3>5, <3>6, AsAdmitAndStart
  <2> QED
    BY <1>4, <2>4, <2>5 DEF SubmitAccepted, SubmitTrue
<1>5. CASE SubmitRejected(e, r) \/ SubmitAfterClose(e, r)
  <2>1. /\ queue' = queue /\ holding' = holding /\ resultCh' = resultCh
        /\ ~closed[e] => Len(queue[e]) >= Capacity
        /\ \E x \in {"rejected", "panicked"} : call' = [call EXCEPT ![r] = x]
    BY <1>5 DEF SubmitRejected, SubmitAfterClose, SubmitFalse, SubmitPanics, poolVars
  <2>2. Refused' = Refused \cup {r}
    BY <1>1, <2>1 DEF Refused
  <2>3. Done' = Done
    BY <1>1, <2>1, SameDone DEF Delivered
  <2>4. Busy' = Busy
    BY <2>1 DEF Busy
  <2> QED
    BY <1>2, <1>3, <2>1, <2>2, <2>3, <2>4, AsRefuse
<1> QED
  BY <1>4, <1>5

LEMMA CallerMeets ==
  ASSUME IInv, NEW r \in Requests, Receive(r) \/ Abandon(r)
  PROVE  UNCHANGED Contract!avars
<1>1. call \in [Requests -> CallStates] /\ call[r] = "waiting"
  BY DEF IInv, TypeOK, Receive, Abandon
<1>2. resultCh \in [Requests -> Seq(Outcomes)]
  BY DEF IInv, TypeOK, PoolTypeOK
<1>3. Done' = Done
  BY <1>1, <1>2, SameDone DEF Receive, Abandon, Delivered, poolVars
<1>4. Refused' = Refused
  BY <1>1, SameRefused DEF Receive, Abandon
<1>5. queue' = queue /\ Busy' = Busy /\ Open' = Open /\ Empty' = Empty
  BY DEF Receive, Abandon, poolVars, Busy, Open, Empty
<1> QED
  BY <1>3, <1>4, <1>5, AsNothing

LEMMA CloserMeets ==
  ASSUME IInv, NEW e \in Engines, CloseBegin(e) \/ CloseReturn(e)
  PROVE  Contract!Next
<1>1. Done' = Done /\ Refused' = Refused /\ Busy' = Busy /\ queue' = queue
  BY DEF CloseBegin, CloseQueue, CloseReturn, poolVars, Done, Delivered, Refused, Busy
<1>2. closed \in [Engines -> BOOLEAN] /\ closer \in [Engines -> CloserStates]
  BY DEF IInv, TypeOK, PoolTypeOK
<1>3. CASE CloseBegin(e)
  <2>1. /\ ~closed[e] /\ closer[e] = "idle"
        /\ closed' = [closed EXCEPT ![e] = TRUE]
        /\ closer' = [closer EXCEPT ![e] = "draining"]
    BY <1>3 DEF CloseBegin, CloseQueue
  <2>2. Open' = [Open EXCEPT ![e] = FALSE]
    BY <1>2, <2>1 DEF Open
  <2>3. Empty' = Empty
    BY <1>2, <2>1 DEF Empty
  <2> QED
    BY <1>1, <2>1, <2>2, <2>3, AsShut
<1>4. CASE CloseReturn(e)
  <2>1. /\ closer[e] = "draining" /\ AllExited(e)
        /\ closed' = closed
        /\ closer' = [closer EXCEPT ![e] = "returned"]
    BY <1>4 DEF CloseReturn, poolVars
  <2>2. Empty' = [Empty EXCEPT ![e] = TRUE]
    BY <1>2, <2>1 DEF Empty
  <2>3. Open' = Open
    BY <2>1 DEF Open
  <2>4. \A w \in WorkersOf(e) : w \in Workers /\ wst[w] = "exited" /\ w[1] = e
    BY <2>1, ConstantTypes DEF AllExited
  <2>5. closed[e] /\ queue[e] = <<>>
    <3>1. <<e, 1>> \in WorkersOf(e)
      BY ConstantTypes
    <3> QED
      BY <2>4, <3>1 DEF IInv, Closing
  <2>6. Busy[e] = {}
    <3>1. \A w \in WorkersOf(e) : holding[w] = NoRequest
      BY <2>4 DEF IInv, Phases
    <3> QED
      BY <3>1 DEF Busy
  <2> QED
    BY <1>1, <2>1, <2>2, <2>3, <2>5, <2>6, AsDrained
<1> QED
  BY <1>3, <1>4

LEMMA WorkerMeets ==
  ASSUME IInv, NEW w \in Workers, WorkerStep(w)
  PROVE  Contract!Next \/ UNCHANGED Contract!avars
<1> DEFINE e == w[1]
<1>1. e \in Engines /\ w \in WorkersOf(e)
  BY ConstantTypes
<1>2. Open' = Open /\ Empty' = Empty /\ Refused' = Refused
  BY DEF WorkerStep, Park, Take, Exit, PredictReturns, Deliver, Open, Empty, Refused
<1> HIDE DEF e
<1>3. CASE Park(w) \/ Exit(w) \/ \E o \in Outcomes : PredictReturns(w, o)
  <2>1. queue' = queue /\ Busy' = Busy /\ Done' = Done
    BY <1>3 DEF WorkerStep, Park, Exit, PredictReturns, Busy, Done, Delivered
  <2> QED
    BY <1>2, <2>1, AsNothing
<1>4. CASE Take(w)
  <2>1. /\ wst[w] = "ready" /\ queue[e] # <<>>
        /\ queue' = [queue EXCEPT ![e] = Tail(@)]
        /\ holding' = [holding EXCEPT ![w] = Head(queue[e])]
    BY <1>4 DEF Take, e
  <2>2. Done' = Done
    BY <1>4 DEF WorkerStep, Take, Done, Delivered
  <2>3. Head(queue[e]) \in Requests
    BY <1>1, <2>1, TailEntries DEF IInv, TypeOK, PoolTypeOK
  <2>4. holding[w] = NoRequest
    BY <2>1 DEF IInv, Phases
  <2>5. Cardinality(Busy[e]) < NumWorkers
    BY <1>1, <2>4, FreeServer DEF Busy, BusyAt
  <2>6. Busy' = [Busy EXCEPT ![e] = @ \cup {Head(queue[e])}]
    BY <1>1, <2>1, <2>3, <2>4, BusyGrows DEF IInv
  <2> QED
    BY <1>1, <1>2, <2>1, <2>2, <2>5, <2>6, AsStart
<1>5. CASE Deliver(w)
  <2> DEFINE r == holding[w]
  <2>1. /\ wst[w] = "sending"
        /\ resultCh' = [resultCh EXCEPT ![r] = Append(@, outcome[w])]
        /\ holding' = [holding EXCEPT ![w] = NoRequest]
        /\ queue' = queue /\ call' = call
    BY <1>5 DEF WorkerStep, Deliver
  <2>2. r \in Requests /\ r # NoRequest /\ outcome[w] \in Outcomes
    BY <2>1 DEF IInv, TypeOK, PoolTypeOK, Phases
  <2>3. r \in Busy[e]
    BY <1>1, <2>2 DEF Busy
  <2>4. Busy' = [Busy EXCEPT ![e] = @ \ {r}]
    BY <1>1, <2>1, <2>2, BusyShrinks DEF IInv, Placement, ExactlyOnce
  <2>5. resultCh \in [Requests -> Seq(Outcomes)]
    BY DEF IInv, TypeOK, PoolTypeOK
  <2> HIDE DEF r
  <2>6. resultCh'[r] # <<>>
    <3>1. resultCh'[r] = Append(resultCh[r], outcome[w]) /\ resultCh[r] \in Seq(Outcomes)
      BY <2>1, <2>2, <2>5
    <3>2. Len(resultCh'[r]) = Len(resultCh[r]) + 1 /\ Len(resultCh[r]) \in Nat
      BY <2>2, <3>1, AppendEntries, LenProperties
    <3>3. Len(resultCh'[r]) # 0
      BY <3>2
    <3> QED
      BY <3>3, EmptySeq
  <2>7. \A q \in Requests \ {r} : resultCh'[q] = resultCh[q]
    BY <2>1, <2>5
  <2>8. Done' = Done \cup {r}
    BY <2>1, <2>2, <2>6, <2>7 DEF Done, Delivered
  <2> QED
    BY <1>1, <1>2, <2>1, <2>2, <2>3, <2>4, <2>8, AsServe
<1> QED
  BY <1>3, <1>4, <1>5 DEF WorkerStep

LEMMA IdleMeets ==
  ASSUME UNCHANGED vars
  PROVE  UNCHANGED Contract!avars
<1>1. queue' = queue /\ Busy' = Busy /\ Done' = Done /\ Refused' = Refused
      /\ Open' = Open /\ Empty' = Empty
  BY DEF vars, poolVars, Busy, Done, Delivered, Refused, Open, Empty
<1> QED
  BY <1>1, AsNothing

\* Every behaviour of the pools is one of the queueing system: the safety
\* part of ImplementsContract (pool.go:63-94). A worker that receives is a
\* free server because one that holds a request is not at the receive, a
\* hand-off finds nobody in line because a worker is parked, and Close
\* returns to an empty system because its workers have exited.
THEOREM PoolsMeetContract == Spec => Contract!Safety
<1>1. Init => Contract!Init
  <2> SUFFICES ASSUME Init PROVE Contract!Init
    OBVIOUS
  <2>1. queue = [e \in Engines |-> <<>>]
    BY DEF Init, PoolInit
  <2>2. Busy = [e \in Engines |-> {}]
    <3>1. \A e \in Engines : \A w \in WorkersOf(e) : holding[w] = NoRequest
      BY ConstantTypes DEF Init, PoolInit
    <3> QED
      BY <3>1 DEF Busy
  <2>3. Done = {} /\ Refused = {}
    BY DEF Init, PoolInit, Done, Refused, Delivered
  <2>4. Open = [e \in Engines |-> TRUE] /\ Empty = [e \in Engines |-> FALSE]
    BY DEF Init, PoolInit, Open, Empty
  <2> QED
    BY <2>1, <2>2, <2>3, <2>4 DEF Contract!Init, Busy, Done, Refused, Open, Empty
<1>2. IInv /\ [Next]_vars => [Contract!Next]_(Contract!avars)
  <2> SUFFICES ASSUME IInv, [Next]_vars
               PROVE  Contract!Next \/ UNCHANGED Contract!avars
    OBVIOUS
  <2>1. CASE \E e \in Engines, r \in Requests :
               SubmitAccepted(e, r) \/ SubmitRejected(e, r) \/ SubmitAfterClose(e, r)
    BY <2>1, SubmitMeets
  <2>2. CASE \E r \in Requests : Receive(r) \/ Abandon(r)
    BY <2>2, CallerMeets
  <2>3. CASE \E e \in Engines : CloseBegin(e) \/ CloseReturn(e)
    BY <2>3, CloserMeets
  <2>4. CASE \E w \in Workers : WorkerStep(w)
    BY <2>4, WorkerMeets
  <2>5. CASE Terminated \/ UNCHANGED vars
    BY <2>5, IdleMeets DEF Terminated
  <2> QED
    BY <2>1, <2>2, <2>3, <2>4, <2>5 DEF Next
<1> QED
  BY <1>1, <1>2, Inductive, PTL DEF Spec, Contract!Safety
=============================================================================
