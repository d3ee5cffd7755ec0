--------------------------- MODULE EngineProcess ---------------------------
(***************************************************************************)
(* The process of one inference engine, inference_engine/src: the gRPC     *)
(* threads of InferenceServiceImpl that share one TensorrtEngine under a   *)
(* mutex, the scheduler's workers that call it and leave when their        *)
(* context ends, and the health monitor that watches it from outside.      *)
(***************************************************************************)
EXTENDS HealthMonitor

CONSTANTS
  Host,       \* the engine this process serves
  Workers,    \* the scheduler's workers for it
  Calls,      \* bound: Predict calls in the process at one time
  NoCall,     \* no call, or no data of any
  Blank       \* an output tensor of zeros

ASSUME EngineProcessAssumption ==
  /\ Host \in Engines
  /\ NoCall \notin Calls
  /\ Blank \notin Calls \cup {NoCall}

VARIABLES
  caller,     \* caller[w]: the call w waits for
  thread,     \* thread[c]: where the thread of call c is
  holder,     \* the call whose thread holds engineMutex_
  deviceIn,   \* whose image the input buffer on the device holds
  deviceOut,  \* what the output buffer on the device was computed from
  outputs,    \* outputs[c]: what the output tensor of c was computed from
  gpu         \* "ok", "hung" (work never ends), "broken" (every CUDA call fails)

processVars == <<caller, thread, holder, deviceIn, deviceOut, outputs, gpu>>
engineVars == <<vars, processVars>>

Phases == {"none", "decode", "lock", "copy", "enqueue", "read", "reply"}

ProcessTypeOK ==
  /\ TypeOK
  /\ caller \in [Workers -> Calls \cup {NoCall}]
  /\ thread \in [Calls -> Phases]
  /\ holder \in Calls \cup {NoCall}
  /\ deviceIn \in Calls \cup {NoCall}
  /\ deviceOut \in Calls \cup {NoCall}
  /\ outputs \in [Calls -> Calls \cup {NoCall, Blank}]
  /\ gpu \in {"ok", "hung", "broken"}

Serving == engine[Host] = "serving"

\* A fresh process: no threads, a free mutex, buffers nobody has written.
FreshThreads(threads, owner, in, out, tensors) ==
  /\ threads = [c \in Calls |-> "none"]
  /\ owner = NoCall
  /\ in = NoCall
  /\ out = NoCall
  /\ tensors = [c \in Calls |-> NoCall]

EngineInit ==
  /\ Init
  /\ caller = [w \in Workers |-> NoCall]
  /\ FreshThreads(thread, holder, deviceIn, deviceOut, outputs)
  /\ gpu = "ok"

\* c is over: its thread is gone and its caller, if still there, goes on. What
\* it leaves on the device belongs to no call any more.
Leftover(c, buffer) == IF buffer = c THEN NoCall ELSE buffer

EndCall(c) ==
  /\ thread' = [thread EXCEPT ![c] = "none"]
  /\ outputs' = [outputs EXCEPT ![c] = NoCall]
  /\ caller' = [w \in Workers |-> Leftover(c, caller[w])]
  /\ deviceIn' = Leftover(c, deviceIn)
  /\ deviceOut' = Leftover(c, deviceOut)

\* The thread of c goes on from one phase to the next, in a process that runs.
Advance(c, from, to) ==
  /\ Serving
  /\ thread[c] = from
  /\ thread' = [thread EXCEPT ![c] = to]

-----------------------------------------------------------------------------
(* Slips that the properties must catch; no specification uses them.       *)

\* No lock_guard.
Lock_Unguarded(c) ==
  /\ Advance(c, "lock", "copy")
  /\ holder' = c
  /\ UNCHANGED <<caller, deviceIn, deviceOut, outputs, gpu>>

\* lock() and unlock() by hand: an exception leaves the mutex locked.
Throw_KeepsLock(c) ==
  /\ Serving
  /\ thread[c] \in {"copy", "enqueue"}
  /\ EndCall(c)
  /\ UNCHANGED <<holder, gpu>>

\* HealthCheck takes the mutex too.
HealthCheck_Locked(e) ==
  /\ e = Host /\ Serving => holder = NoCall
  /\ Answer(e)

-----------------------------------------------------------------------------
(* The scheduler's workers *)

\* stub.Predict of an idle worker; the server starts a thread for the call.
Send(w) ==
  /\ Serving
  /\ caller[w] = NoCall
  /\ \E c \in Calls :
       /\ thread[c] = "none"
       /\ thread' = [thread EXCEPT ![c] = "decode"]
       /\ caller' = [caller EXCEPT ![w] = c]
  /\ UNCHANGED <<holder, deviceIn, deviceOut, outputs, gpu>>

\* The worker's context ends and Predict returns to it. The handler on the
\* other side ignores its ServerContext and goes on.
GiveUp(w) ==
  /\ caller[w] # NoCall
  /\ caller' = [caller EXCEPT ![w] = NoCall]
  /\ UNCHANGED <<thread, holder, deviceIn, deviceOut, outputs, gpu>>

-----------------------------------------------------------------------------
(* The threads of Predict *)

\* imdecode and preprocessLetterbox work on the thread's own data.
Decode(c) ==
  /\ Advance(c, "decode", "lock")
  /\ UNCHANGED <<caller, holder, deviceIn, deviceOut, outputs, gpu>>

\* INVALID_ARGUMENT, or an exception of OpenCV that gRPC turns into a status.
DecodeFails(c) ==
  /\ Serving
  /\ thread[c] = "decode"
  /\ EndCall(c)
  /\ UNCHANGED <<holder, gpu>>

\* std::lock_guard lock(engineMutex_): in no order in particular.
Lock(c) ==
  /\ Advance(c, "lock", "copy")
  /\ holder = NoCall
  /\ holder' = c
  /\ UNCHANGED <<caller, deviceIn, deviceOut, outputs, gpu>>

\* infer: cudaMemcpyAsync to the device. Its return value is not looked at.
CopyIn(c) ==
  /\ Advance(c, "copy", "enqueue")
  /\ deviceIn' = IF gpu = "broken" THEN deviceIn ELSE c
  /\ UNCHANGED <<caller, holder, deviceOut, outputs, gpu>>

\* enqueueV3 accepts the work, which runs after the copy on the same stream.
Enqueue(c) ==
  /\ Advance(c, "enqueue", "read")
  /\ deviceOut' = IF gpu = "broken" THEN deviceOut ELSE deviceIn
  /\ UNCHANGED <<caller, holder, deviceIn, outputs, gpu>>

\* The size does not match, or enqueueV3 returns false: infer throws, the
\* lock_guard releases the mutex and gRPC answers with an error.
Throw(c) ==
  /\ Serving
  /\ thread[c] \in {"copy", "enqueue"}
  /\ EndCall(c)
  /\ holder' = NoCall
  /\ UNCHANGED gpu

\* cudaMemcpyAsync from the device and cudaStreamSynchronize, which waits for
\* the stream; the mutex is released. When they fail nobody notices, and the
\* vector keeps the zeros it was made with.
Read(c) ==
  /\ Advance(c, "read", "reply")
  /\ gpu # "hung"
  /\ outputs' = [outputs EXCEPT ![c] = IF gpu = "broken" THEN Blank ELSE deviceOut]
  /\ holder' = NoCall
  /\ UNCHANGED <<caller, deviceIn, deviceOut, gpu>>

\* postprocess and the answer; INTERNAL if the engine has no outputs.
Reply(c) ==
  /\ Serving
  /\ thread[c] = "reply"
  /\ EndCall(c)
  /\ UNCHANGED <<holder, gpu>>

ThreadStep(c) ==
  \/ Decode(c) \/ DecodeFails(c) \/ Lock(c) \/ CopyIn(c) \/ Enqueue(c)
  \/ Throw(c) \/ Read(c) \/ Reply(c)

-----------------------------------------------------------------------------
(* HealthCheck, the device and the process *)

\* The handler sets serving to true: no mutex, no look at the engine.
HealthCheck(e) == Answer(e)

Monitor(e) == Ask(e) \/ HealthCheck(e) \/ TimeOut(e) \/ Record(e) \/ Tick(e)

\* The device stalls and recovers; after a fault the CUDA context is lost.
GpuChanges ==
  /\ \/ gpu = "ok" /\ gpu' \in {"hung", "broken"}
     \/ gpu = "hung" /\ gpu' = "ok"
  /\ UNCHANGED <<caller, thread, holder, deviceIn, deviceOut, outputs>>

\* The process stops, goes on or ends. Its end ends all calls; the next one
\* loads the engine anew, into a new CUDA context, and serves when that is done.
ProcessChanges(e) ==
  /\ EngineChanges(e)
  /\ e = Host /\ engine[e] = "refusing" /\ engine'[e] = "serving" => gpu # "hung"
  /\ IF e = Host /\ engine'[e] = "refusing"
     THEN /\ caller' = [w \in Workers |-> NoCall]
          /\ FreshThreads(thread', holder', deviceIn', deviceOut', outputs')
          /\ gpu' = IF gpu = "broken" THEN "ok" ELSE gpu
     ELSE UNCHANGED processVars

EngineNext ==
  \/ /\ \/ \E w \in Workers : Send(w) \/ GiveUp(w)
        \/ \E c \in Calls : ThreadStep(c)
        \/ GpuChanges
     /\ UNCHANGED vars
  \/ \E e \in Engines : Monitor(e) /\ UNCHANGED processVars
  \/ \E e \in Engines : ProcessChanges(e)

\* Threads run and the monitor polls. Nothing is fair about the mutex, the
\* device or the process, and nobody has to call or to give up.
EngineFairness ==
  /\ \A c \in Calls : WF_engineVars(ThreadStep(c) /\ UNCHANGED vars)
  /\ \A e \in Engines : WF_engineVars(Monitor(e) /\ UNCHANGED processVars)

EngineSpec == EngineInit /\ [][EngineNext]_engineVars /\ EngineFairness

-----------------------------------------------------------------------------
(* Properties                                                              *)

\* "corrupt each other's inference" (InferenceServiceImpl.hpp:38-43): what a
\* call is answered with was computed from its own image, also when calls
\* whose workers have left are still in line, when others threw half-way and
\* when the device failed; at worst it is no detections at all.
OwnDetections ==
  \A c \in Calls : thread[c] = "reply" => outputs[c] \in {c, Blank}

\* Whatever becomes of a call, of its caller and of the device, its thread
\* lets go of the mutex unless the device hangs (InferenceServiceImpl.cpp:42).
MutexIsReleased ==
  \A c \in Calls : (holder = c) ~> (holder # c \/ gpu = "hung" \/ ~Serving)

\* The process is an engine as HealthMonitor knows them: no number of calls at
\* the mutex and no hung or broken device keeps HealthCheck from its answer
\* (InferenceServiceImpl.cpp:75-82). So RecoveryIsDetected says here that an
\* engine that can serve nobody is kept in routing.
ImplementsHealthMonitor == Spec
=============================================================================
