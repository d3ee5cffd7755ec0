--------------------------- MODULE HealthMonitor ---------------------------
(***************************************************************************)
(* The background health monitor of                                        *)
(* scheduler/internal/healthcheck/monitor.go: one goroutine per engine     *)
(* that asks the engine, waits for the answer or its timeout, and records  *)
(* the verdict in the map that Healthy reads.                              *)
(***************************************************************************)
EXTENDS FiniteSets

CONSTANT Engines   \* the configured engines

VARIABLES
  engine,     \* engine[e]: how e is doing
  pc,         \* pc[e]: where the goroutine for e is
  verdict,    \* verdict[e]: the local variable healthy of check
  statuses,   \* statuses[e]: the recorded verdict
  met         \* history: met[e], how e has been since the check began

vars == <<engine, pc, verdict, statuses, met>>

\* "serving": it answers that it serves; "refusing": it answers that it does
\* not, or the call fails; "silent": no answer comes in time.
Conditions == {"serving", "refusing", "silent"}

TypeOK ==
  /\ engine \in [Engines -> Conditions]
  /\ pc \in [Engines -> {"check", "asked", "record", "ticking"}]
  /\ verdict \in [Engines -> BOOLEAN]
  /\ statuses \in [Engines -> BOOLEAN]
  /\ met \in [Engines -> SUBSET Conditions]

-----------------------------------------------------------------------------
(* Slips that the properties must catch; no specification uses them.       *)

\* New forgets to fill the map.
Init_NoStatuses ==
  /\ engine \in [Engines -> Conditions]
  /\ pc = [e \in Engines |-> "check"]
  /\ verdict = [e \in Engines |-> FALSE]
  /\ statuses = [e \in {} |-> TRUE]
  /\ met = [e \in Engines |-> {}]

\* The call has no timeout.
TimeOut_Never(e) == FALSE /\ UNCHANGED vars

\* The verdict of the check before is recorded (a shadowed variable).
TimeOut_KeepsVerdict(e) ==
  /\ pc[e] = "asked"
  /\ engine[e] = "silent"
  /\ pc' = [pc EXCEPT ![e] = "record"]
  /\ UNCHANGED <<engine, verdict, statuses, met>>

\* Only what changes to unhealthy is recorded.
Record_OnlyBad(e) ==
  /\ pc[e] = "record"
  /\ statuses' = [statuses EXCEPT ![e] = @ /\ verdict[e]]
  /\ pc' = [pc EXCEPT ![e] = "ticking"]
  /\ UNCHANGED <<engine, verdict, met>>

-----------------------------------------------------------------------------
\* Engines are taken to be healthy until checked; pollLoop checks at once.
Init ==
  /\ engine \in [Engines -> Conditions]
  /\ pc = [e \in Engines |-> "check"]
  /\ verdict = [e \in Engines |-> FALSE]
  /\ statuses = [e \in Engines |-> TRUE]
  /\ met = [e \in Engines |-> {}]

-----------------------------------------------------------------------------
\* check: the context with its timeout starts and the call is made.
Ask(e) ==
  /\ pc[e] = "check"
  /\ pc' = [pc EXCEPT ![e] = "asked"]
  /\ met' = [met EXCEPT ![e] = {engine[e]}]
  /\ UNCHANGED <<engine, verdict, statuses>>

\* The call returns: healthy := err == nil && serving
Answer(e) ==
  /\ pc[e] = "asked"
  /\ engine[e] # "silent"
  /\ verdict' = [verdict EXCEPT ![e] = (engine[e] = "serving")]
  /\ pc' = [pc EXCEPT ![e] = "record"]
  /\ UNCHANGED <<engine, statuses, met>>

\* The timeout of the check's context ends the call with an error.
TimeOut(e) ==
  /\ pc[e] = "asked"
  /\ engine[e] = "silent"
  /\ verdict' = [verdict EXCEPT ![e] = FALSE]
  /\ pc' = [pc EXCEPT ![e] = "record"]
  /\ UNCHANGED <<engine, statuses, met>>

\* The map is written under the lock; by now the engine may have changed.
Record(e) ==
  /\ pc[e] = "record"
  /\ statuses' = [statuses EXCEPT ![e] = verdict[e]]
  /\ pc' = [pc EXCEPT ![e] = "ticking"]
  /\ UNCHANGED <<engine, verdict, met>>

\* case <-ticker.C. The context of Run is never canceled.
Tick(e) ==
  /\ pc[e] = "ticking"
  /\ pc' = [pc EXCEPT ![e] = "check"]
  /\ UNCHANGED <<engine, verdict, statuses, met>>

\* The engine crashes, hangs, restarts ...
EngineChanges(e) ==
  /\ \E c \in Conditions \ {engine[e]} :
       /\ engine' = [engine EXCEPT ![e] = c]
       /\ met' = [met EXCEPT ![e] = @ \cup {c}]
  /\ UNCHANGED <<pc, verdict, statuses>>

PollLoop(e) == Ask(e) \/ Answer(e) \/ TimeOut(e) \/ Record(e) \/ Tick(e)

Next == \E e \in Engines : PollLoop(e) \/ EngineChanges(e)

\* Each goroutine runs by itself: tickers tick, timeouts fire and an engine
\* that is not silent answers. Nothing makes an engine change.
Fairness == \A e \in Engines : WF_vars(PollLoop(e))

Spec == Init /\ [][Next]_vars /\ Fairness

-----------------------------------------------------------------------------
(* Properties                                                              *)

\* What is recorded was so at some moment of the check it comes from, if not
\* any more: no verdict is made up and none is older than its check
\* (monitor.go:90-99).
VerdictWasTrue ==
  [][\A e \in Engines : Record(e) =>
       IF statuses'[e] THEN "serving" \in met[e] ELSE met[e] # {"serving"}]_vars

\* "dead engines are detected automatically" (README.md): one that stays
\* dead or silent is before long recorded as unhealthy and stays so, whatever
\* the other engines do.
DeadIsDetected ==
  \A e \in Engines : []([](engine[e] # "serving") => <>[]~statuses[e])

\* An engine that serves again gets its traffic back.
RecoveryIsDetected ==
  \A e \in Engines : []([](engine[e] = "serving") => <>[]statuses[e])
=============================================================================
