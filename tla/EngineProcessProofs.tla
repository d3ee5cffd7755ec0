------------------------ MODULE EngineProcessProofs ------------------------
(***************************************************************************)
(* Theorems about HealthMonitor, for any set of engines, and about         *)
(* EngineProcess, for any number of workers and calls: the types, that     *)
(* verdicts were true when they are recorded, and that no call is answered *)
(* with another call's detections.                                         *)
(***************************************************************************)
EXTENDS EngineProcess, TLAPS

-----------------------------------------------------------------------------
(* The monitor                                                             *)

\* What met says of a check under way, and what the verdict rests on.
CheckIsHonest ==
  \A e \in Engines :
    /\ pc[e] \in {"asked", "record"} => engine[e] \in met[e]
    /\ pc[e] = "record" /\ verdict[e] => "serving" \in met[e]
    /\ pc[e] = "record" /\ ~verdict[e] => met[e] # {"serving"}

HInv == TypeOK /\ CheckIsHonest

LEMMA HealthInit == Init => HInv
  BY DEF Init, HInv, TypeOK, Conditions, CheckIsHonest

LEMMA HealthNext == HInv /\ [Next]_vars => HInv'
<1> SUFFICES ASSUME HInv, [Next]_vars PROVE HInv'
  OBVIOUS
<1> USE DEF HInv, TypeOK, Conditions, CheckIsHonest
<1>1. ASSUME NEW e \in Engines, Ask(e) PROVE HInv'
  BY <1>1 DEF Ask
<1>2. ASSUME NEW e \in Engines, Answer(e) PROVE HInv'
  BY <1>2 DEF Answer
<1>3. ASSUME NEW e \in Engines, TimeOut(e) PROVE HInv'
  BY <1>3 DEF TimeOut
<1>4. ASSUME NEW e \in Engines, Record(e) PROVE HInv'
  BY <1>4 DEF Record
<1>5. ASSUME NEW e \in Engines, Tick(e) PROVE HInv'
  BY <1>5 DEF Tick
<1>6. ASSUME NEW e \in Engines, EngineChanges(e) PROVE HInv'
  <2>1. PICK c \in Conditions \ {engine[e]} :
          /\ engine' = [engine EXCEPT ![e] = c]
          /\ met' = [met EXCEPT ![e] = @ \cup {c}]
    BY <1>6 DEF EngineChanges
  <2>2. UNCHANGED <<pc, verdict, statuses>>
    BY <1>6 DEF EngineChanges
  <2>3. TypeOK'
    BY <2>1, <2>2
  <2>4. ASSUME NEW d \in Engines,
               pc[d] \in {"asked", "record"}
        PROVE  /\ engine'[d] \in met'[d]
               /\ pc[d] = "record" /\ verdict[d] => "serving" \in met'[d]
               /\ pc[d] = "record" /\ ~verdict[d] => met'[d] # {"serving"}
    <3>1. CASE d = e
      <4>1. /\ engine'[d] = c
            /\ met'[d] = met[d] \cup {c}
        BY <2>1, <3>1
      <4>2. engine[d] \in met[d] /\ engine[d] # c
        BY <2>1, <2>4, <3>1
      <4> QED
        BY <4>1, <4>2, <2>4
    <3>2. CASE d # e
      <4>1. engine'[d] = engine[d] /\ met'[d] = met[d]
        BY <2>1, <3>2
      <4> QED
        BY <4>1, <2>4
    <3> QED
      BY <3>1, <3>2
  <2> QED
    BY <2>2, <2>3, <2>4
<1>7. CASE UNCHANGED vars
  BY <1>7 DEF vars
<1> QED
  BY <1>1, <1>2, <1>3, <1>4, <1>5, <1>6, <1>7 DEF Next, PollLoop

LEMMA HealthInvariance == Spec => []HInv
  BY HealthInit, HealthNext, PTL DEF Spec

\* The variables have their types, for any engines.
THEOREM HealthTypes == Spec => []TypeOK
<1>1. HInv => TypeOK
  BY DEF HInv
<1> QED
  BY <1>1, HealthInvariance, PTL

LEMMA VerdictStep ==
  HInv =>
    [\A e \in Engines : Record(e) =>
       IF statuses'[e] THEN "serving" \in met[e] ELSE met[e] # {"serving"}]_vars
  BY DEF HInv, TypeOK, CheckIsHonest, Record

\* Every verdict that is recorded was so at some moment of its check, for any
\* engines and however they change meanwhile (monitor.go:90-99).
THEOREM VerdictsWereTrue == Spec => VerdictWasTrue
<1>1. HInv =>
        [\A e \in Engines : Record(e) =>
           IF statuses'[e] THEN "serving" \in met[e] ELSE met[e] # {"serving"}]_vars
  BY VerdictStep
<1> QED
  BY <1>1, HealthInvariance, PTL DEF VerdictWasTrue

-----------------------------------------------------------------------------
(* The process                                                             *)

\* The phases between lock_guard and the end of its scope.
Locked == {"copy", "enqueue", "read"}

\* The mutex does what it is for: its holder is the one thread inside.
Exclusion == \A c \in Calls : thread[c] \in Locked <=> holder = c

\* What the thread inside left on the device is still there, unless the device
\* is broken, and then it is not read.
OwnData ==
  \A c \in Calls :
    /\ thread[c] = "enqueue" => deviceIn = c \/ gpu = "broken"
    /\ thread[c] = "read" => deviceOut = c \/ gpu = "broken"

IInv == ProcessTypeOK /\ Exclusion /\ OwnData /\ OwnDetections

-----------------------------------------------------------------------------
\* The actions of the monitor keep its types.
LEMMA MonitorTypes ==
  ASSUME TypeOK,
         NEW e \in Engines,
         Monitor(e) \/ EngineChanges(e)
  PROVE  TypeOK'
<1>1. CASE Ask(e)
  BY <1>1 DEF Ask, TypeOK, Conditions
<1>2. CASE HealthCheck(e)
  BY <1>2 DEF HealthCheck, Answer, TypeOK, Conditions
<1>3. CASE TimeOut(e)
  BY <1>3 DEF TimeOut, TypeOK, Conditions
<1>4. CASE Record(e)
  BY <1>4 DEF Record, TypeOK, Conditions
<1>5. CASE Tick(e)
  BY <1>5 DEF Tick, TypeOK, Conditions
<1>6. CASE EngineChanges(e)
  BY <1>6 DEF EngineChanges, TypeOK, Conditions
<1> QED
  BY <1>1, <1>2, <1>3, <1>4, <1>5, <1>6 DEF Monitor

\* A fresh process satisfies what concerns its threads.
LEMMA FreshIsFine ==
  ASSUME FreshThreads(thread, holder, deviceIn, deviceOut, outputs)
  PROVE  /\ thread \in [Calls -> Phases]
         /\ holder \in Calls \cup {NoCall}
         /\ deviceIn \in Calls \cup {NoCall}
         /\ deviceOut \in Calls \cup {NoCall}
         /\ outputs \in [Calls -> Calls \cup {NoCall, Blank}]
         /\ Exclusion /\ OwnData /\ OwnDetections
  BY EngineProcessAssumption
  DEF FreshThreads, Phases, Exclusion, Locked, OwnData, OwnDetections

\* The end of a call takes nothing from the others.
LEMMA EndIsFine ==
  ASSUME IInv, NEW c \in Calls, EndCall(c)
  PROVE  /\ caller' \in [Workers -> Calls \cup {NoCall}]
         /\ thread' \in [Calls -> Phases]
         /\ deviceIn' \in Calls \cup {NoCall}
         /\ deviceOut' \in Calls \cup {NoCall}
         /\ outputs' \in [Calls -> Calls \cup {NoCall, Blank}]
         /\ \A d \in Calls \ {c} :
              /\ thread'[d] = thread[d]
              /\ outputs'[d] = outputs[d]
              /\ deviceIn = d => deviceIn' = d
              /\ deviceOut = d => deviceOut' = d
         /\ thread'[c] = "none"
  BY DEF IInv, ProcessTypeOK, EndCall, Leftover, Phases

LEMMA InitFine == EngineInit => IInv
<1> SUFFICES ASSUME EngineInit PROVE IInv
  OBVIOUS
<1>1. TypeOK
  BY DEF EngineInit, Init, TypeOK, Conditions
<1>2. /\ caller \in [Workers -> Calls \cup {NoCall}]
      /\ gpu \in {"ok", "hung", "broken"}
  BY DEF EngineInit
<1> QED
  BY <1>1, <1>2, FreshIsFine DEF EngineInit, IInv, ProcessTypeOK

-----------------------------------------------------------------------------
LEMMA WorkerFine ==
  ASSUME IInv, UNCHANGED vars, NEW w \in Workers, Send(w) \/ GiveUp(w)
  PROVE  IInv'
<1>1. TypeOK'
  BY DEF IInv, ProcessTypeOK, TypeOK, vars
<1>2. CASE Send(w)
  BY <1>1, <1>2 DEF Send, IInv, ProcessTypeOK, Phases, Exclusion, Locked, OwnData,
                    OwnDetections
<1>3. CASE GiveUp(w)
  BY <1>1, <1>3 DEF GiveUp, IInv, ProcessTypeOK, Exclusion, Locked, OwnData,
                    OwnDetections
<1> QED
  BY <1>2, <1>3

LEMMA ThreadFine ==
  ASSUME IInv, UNCHANGED vars, NEW c \in Calls, ThreadStep(c)
  PROVE  IInv'
<1>1. TypeOK'
  BY DEF IInv, ProcessTypeOK, TypeOK, vars
<1> USE EngineProcessAssumption
<1>2. CASE Decode(c)
  BY <1>1, <1>2 DEF Decode, Advance, IInv, ProcessTypeOK, Phases, Exclusion, Locked,
                    OwnData, OwnDetections
<1>3. CASE DecodeFails(c) \/ Reply(c)
  <2>1. /\ EndCall(c) /\ thread[c] \notin Locked
        /\ UNCHANGED <<holder, gpu>>
    BY <1>3 DEF DecodeFails, Reply, Locked
  <2> QED
    BY <1>1, <2>1, EndIsFine
    DEF IInv, ProcessTypeOK, Exclusion, Locked, OwnData, OwnDetections
<1>4. CASE Lock(c)
  BY <1>1, <1>4 DEF Lock, Advance, IInv, ProcessTypeOK, Phases, Exclusion, Locked,
                    OwnData, OwnDetections
<1>5. CASE CopyIn(c)
  BY <1>1, <1>5 DEF CopyIn, Advance, IInv, ProcessTypeOK, Phases, Exclusion, Locked,
                    OwnData, OwnDetections
<1>6. CASE Enqueue(c)
  BY <1>1, <1>6 DEF Enqueue, Advance, IInv, ProcessTypeOK, Phases, Exclusion, Locked,
                    OwnData, OwnDetections
<1>7. CASE Throw(c)
  <2>1. /\ EndCall(c) /\ holder = c /\ holder' = NoCall
        /\ UNCHANGED gpu
    BY <1>7 DEF Throw, IInv, Exclusion, Locked
  <2> QED
    BY <1>1, <2>1, EndIsFine
    DEF IInv, ProcessTypeOK, Exclusion, Locked, OwnData, OwnDetections
<1>8. CASE Read(c)
  BY <1>1, <1>8 DEF Read, Advance, IInv, ProcessTypeOK, Phases, Exclusion, Locked,
                    OwnData, OwnDetections
<1> QED
  BY <1>2, <1>3, <1>4, <1>5, <1>6, <1>7, <1>8 DEF ThreadStep

LEMMA GpuFine ==
  ASSUME IInv, UNCHANGED vars, GpuChanges
  PROVE  IInv'
<1>1. TypeOK'
  BY DEF IInv, ProcessTypeOK, TypeOK, vars
<1> QED
  BY <1>1 DEF GpuChanges, IInv, ProcessTypeOK, Exclusion, OwnData, OwnDetections

LEMMA MonitorFine ==
  ASSUME IInv, NEW e \in Engines, Monitor(e), UNCHANGED processVars
  PROVE  IInv'
<1>1. TypeOK'
  BY MonitorTypes DEF IInv, ProcessTypeOK
<1> QED
  BY <1>1 DEF processVars, IInv, ProcessTypeOK, Exclusion, OwnData, OwnDetections

LEMMA ProcessFine ==
  ASSUME IInv, NEW e \in Engines, ProcessChanges(e)
  PROVE  IInv'
<1>1. TypeOK'
  BY MonitorTypes DEF IInv, ProcessTypeOK, ProcessChanges
<1>2. CASE e = Host /\ engine'[e] = "refusing"
  <2>1. /\ caller' = [w \in Workers |-> NoCall]
        /\ FreshThreads(thread', holder', deviceIn', deviceOut', outputs')
        /\ gpu' = IF gpu = "broken" THEN "ok" ELSE gpu
    BY <1>2 DEF ProcessChanges
  <2>2. /\ thread' \in [Calls -> Phases]
        /\ holder' \in Calls \cup {NoCall}
        /\ deviceIn' \in Calls \cup {NoCall}
        /\ deviceOut' \in Calls \cup {NoCall}
        /\ outputs' \in [Calls -> Calls \cup {NoCall, Blank}]
        /\ Exclusion' /\ OwnData' /\ OwnDetections'
    BY <2>1, EngineProcessAssumption
    DEF FreshThreads, Phases, Exclusion, Locked, OwnData, OwnDetections
  <2> QED
    BY <1>1, <2>1, <2>2 DEF IInv, ProcessTypeOK
<1>3. CASE ~(e = Host /\ engine'[e] = "refusing")
  <2>1. UNCHANGED processVars
    BY <1>3 DEF ProcessChanges
  <2> QED
    BY <1>1, <2>1 DEF processVars, IInv, ProcessTypeOK, Exclusion, OwnData, OwnDetections
<1> QED
  BY <1>2, <1>3

LEMMA NextFine == IInv /\ [EngineNext]_engineVars => IInv'
<1> SUFFICES ASSUME IInv, [EngineNext]_engineVars PROVE IInv'
  OBVIOUS
<1>1. CASE \E w \in Workers : (Send(w) \/ GiveUp(w)) /\ UNCHANGED vars
  BY <1>1, WorkerFine
<1>2. CASE \E c \in Calls : ThreadStep(c) /\ UNCHANGED vars
  BY <1>2, ThreadFine
<1>3. CASE GpuChanges /\ UNCHANGED vars
  BY <1>3, GpuFine
<1>4. CASE \E e \in Engines : Monitor(e) /\ UNCHANGED processVars
  BY <1>4, MonitorFine
<1>5. CASE \E e \in Engines : ProcessChanges(e)
  BY <1>5, ProcessFine
<1>6. CASE UNCHANGED engineVars
  BY <1>6 DEF engineVars, vars, processVars, IInv, ProcessTypeOK, TypeOK, Exclusion,
              OwnData, OwnDetections
<1> QED
  BY <1>1, <1>2, <1>3, <1>4, <1>5, <1>6 DEF EngineNext

LEMMA Invariance == EngineSpec => []IInv
  BY InitFine, NextFine, PTL DEF EngineSpec

-----------------------------------------------------------------------------
\* The variables have their types, for any workers and calls.
THEOREM ProcessTypes == EngineSpec => []ProcessTypeOK
<1>1. IInv => ProcessTypeOK
  BY DEF IInv
<1> QED
  BY <1>1, Invariance, PTL

\* What a Predict call is answered with was computed from its own image or is
\* empty, however many calls there are, left behind, thrown out or cut short by a
\* device fault or a restart (InferenceServiceImpl.cpp:41-44).
THEOREM NobodyElsesDetections == EngineSpec => []OwnDetections
<1>1. IInv => OwnDetections
  BY DEF IInv
<1> QED
  BY <1>1, Invariance, PTL

\* No two threads are between the lock_guard and the end of its scope.
THEOREM OneThreadInside ==
  EngineSpec => [](\A c, d \in Calls :
                     thread[c] \in Locked /\ thread[d] \in Locked => c = d)
<1>1. IInv => \A c, d \in Calls :
                thread[c] \in Locked /\ thread[d] \in Locked => c = d
  BY DEF IInv, Exclusion
<1> QED
  BY <1>1, Invariance, PTL

\* Each step of the process with its monitor is one of HealthMonitor or leaves
\* its variables alone: the safety part of ImplementsHealthMonitor, whatever the
\* threads, the device and the mutex do (InferenceServiceImpl.cpp:75-82).
LEMMA HealthIsIndependent == EngineSpec => Init /\ [][Next]_vars
<1>1. EngineInit => Init
  BY DEF EngineInit
<1>2. [EngineNext]_engineVars => [Next]_vars
  BY DEF EngineNext, engineVars, Next, PollLoop, Monitor, HealthCheck, ProcessChanges
<1> QED
  BY <1>1, <1>2, PTL DEF EngineSpec

\* So the verdicts on a process that calls, faults and restarts are as true as
\* those of HealthMonitor, for any number of calls (monitor.go:90-99).
THEOREM ProcessVerdictsWereTrue == EngineSpec => VerdictWasTrue
<1>1. HInv =>
        [\A e \in Engines : Record(e) =>
           IF statuses'[e] THEN "serving" \in met[e] ELSE met[e] # {"serving"}]_vars
  BY VerdictStep
<1> QED
  BY <1>1, HealthInit, HealthNext, HealthIsIndependent, PTL DEF VerdictWasTrue
=============================================================================
