-------------------------- MODULE DashboardProofs --------------------------
(***************************************************************************)
(* Theorems about Dashboard, for any number of calls under way and any     *)
(* number of results.                                                      *)
(***************************************************************************)
EXTENDS Dashboard, TLAPS

-----------------------------------------------------------------------------
(* Types                                                                   *)

LEMMA FeedTypesStep == TypeOK /\ FeedNext => TypeOK'
<1> SUFFICES ASSUME TypeOK, FeedNext PROVE TypeOK'
  OBVIOUS
<1> USE DEF TypeOK, FeedTypeOK, CameraTypeOK, Result, NoResult, serverVars, pollVars,
            feedVars, cameraVars, toggleVars
<1>1. CASE Publish
  BY <1>1 DEF Publish
<1>2. CASE Restart
  BY <1>2 DEF Restart
<1>3. ASSUME NEW p \in Polls,
             Tick(p) \/ HandleStatus(p) \/ PollHeard(p) \/ PollFails(p)
      PROVE  TypeOK'
  <2>1. CASE Tick(p)
    BY <2>1 DEF Tick
  <2>2. CASE HandleStatus(p)
    BY <2>2 DEF HandleStatus
  <2>3. CASE PollHeard(p)
    <3>1. fetch' \in [Fetches -> {"idle", "asked", "answered", "drawing"}]
          /\ lastSeenResultAt' \in Nat
      BY <2>3 DEF PollHeard, StartFetch
    <3> QED
      BY <2>3, <3>1 DEF PollHeard
  <2>4. CASE PollFails(p)
    BY <2>4 DEF PollFails
  <2> QED
    BY <1>3, <2>1, <2>2, <2>3, <2>4
<1>4. ASSUME NEW f \in Fetches, FetchStep(f) \/ FetchFails(f)
      PROVE  TypeOK'
  <2>1. CASE HandleLastResult(f)
    BY <2>1 DEF HandleLastResult
  <2>2. CASE FetchHeard(f)
    <3>1. CASE fetched[f] = 0 /\ EndFetch(f) /\ UNCHANGED <<feedMeta, mishap>>
      BY <2>2, <3>1 DEF FetchHeard, EndFetch
    <3>2. CASE /\ fetch' = [fetch EXCEPT ![f] = "drawing"] /\ feedMeta' = fetched[f]
               /\ mishap' = (mishap \/ fetched[f] < feedMeta) /\ UNCHANGED fetched
      <4>1. mishap' \in BOOLEAN
        BY ONLY <3>2, Zenon
      <4> QED
        BY <2>2, <3>2, <4>1 DEF FetchHeard
    <3> QED
      BY <2>2, <3>1, <3>2 DEF FetchHeard
  <2>3. CASE ImageLoaded(f)
    <3>1. mishap' = (mishap \/ fetched[f] < feedCanvas)
      BY <2>3 DEF ImageLoaded
    <3>2. mishap' \in BOOLEAN
      BY ONLY <3>1, Zenon
    <3> QED
      BY <2>3, <3>2 DEF ImageLoaded, EndFetch
  <2>4. CASE FetchFails(f)
    BY <2>4 DEF FetchFails, EndFetch
  <2> QED
    BY <1>4, <2>1, <2>2, <2>3, <2>4 DEF FetchStep
<1> QED
  BY <1>1, <1>2, <1>3, <1>4 DEF FeedNext

\* Again and Begin are what a loop does between two awaits.
LEMMA BeginType ==
  ASSUME TypeOK, NEW l \in Loops, Begin(l)
  PROVE  /\ loop' \in [Loops -> {"ended", "waiting", "encoding", "sending", "pausing"}]
         /\ loop'[l] # "ended"
  BY DEF Begin, TypeOK, CameraTypeOK

LEMMA LoopStepType ==
  ASSUME TypeOK, NEW l \in Loops, LoopStep(l)
  PROVE  /\ loop' \in [Loops -> {"ended", "waiting", "encoding", "sending", "pausing"}]
         /\ cameraRunning => loop'[l] # "ended"
<1>1. CASE Again(l)
  BY <1>1, BeginType DEF Again, TypeOK, CameraTypeOK
<1>2. CASE \E s \in {"sending", "pausing"} : loop' = [loop EXCEPT ![l] = s]
  BY <1>2 DEF TypeOK, CameraTypeOK
<1> QED
  BY <1>1, <1>2 DEF LoopStep, WaitEnds, Encoded, Answered, PauseEnds

LEMMA CameraTypesStep == TypeOK /\ CameraNext => TypeOK'
<1> SUFFICES ASSUME TypeOK, CameraNext PROVE TypeOK'
  OBVIOUS
<1> USE DEF serverVars, pollVars, feedVars, toggleVars
<1>1. FeedTypeOK'
  BY DEF CameraNext, StopCamera, ToggleCamera, Granted, ToggleFails, StreamEnds, Plays,
         LoopStep, TypeOK, FeedTypeOK
<1>2. CASE StopCamera
  BY <1>1, <1>2 DEF StopCamera, TypeOK, CameraTypeOK, NoStream
<1>3. ASSUME NEW t \in Toggles,
             ToggleCamera(t) \/ Granted(t) \/ ToggleFails(t) \/ StreamEnds(t)
      PROVE  TypeOK'
  BY <1>1, <1>3
  DEF ToggleCamera, Granted, ToggleFails, StreamEnds, TypeOK, CameraTypeOK
<1>4. ASSUME NEW t \in Toggles, NEW l \in Loops, Plays(t, l) PROVE TypeOK'
  BY <1>1, <1>4, BeginType DEF Plays, TypeOK, CameraTypeOK
<1>5. ASSUME NEW l \in Loops, LoopStep(l) PROVE TypeOK'
  BY <1>1, <1>5, LoopStepType DEF LoopStep, TypeOK, CameraTypeOK
<1> QED
  BY <1>2, <1>3, <1>4, <1>5 DEF CameraNext

LEMMA TypesStart == Init => TypeOK
<1>1. Init => FeedTypeOK
  <2>1. NoResult \in Result
    BY DEF Result, NoResult
  <2>2. Init => mishap \in BOOLEAN
    BY DEF Init
  <2> QED
    BY <2>1, <2>2 DEF Init, FeedTypeOK
<1>2. Init => CameraTypeOK
  BY DEF Init, CameraTypeOK, NoStream
<1> QED
  BY <1>1, <1>2 DEF TypeOK

LEMMA TypesStep == TypeOK /\ [Next]_vars => TypeOK'
<1>1. TypeOK /\ UNCHANGED vars => TypeOK'
  BY DEF vars, serverVars, pollVars, feedVars, cameraVars, toggleVars, TypeOK,
         FeedTypeOK, CameraTypeOK
<1> QED
  BY <1>1, FeedTypesStep, CameraTypesStep DEF Next

\* The types of all variables, for any calls that are under way.
THEOREM DashboardTypes == Spec => []TypeOK
  BY TypesStart, TypesStep, PTL DEF Spec

-----------------------------------------------------------------------------
(* The camera and its loops                                                *)

LEMMA RunningStep == TypeOK /\ RunningHasLoop /\ [Next]_vars => RunningHasLoop'
<1> SUFFICES ASSUME TypeOK, RunningHasLoop, [Next]_vars, cameraRunning'
             PROVE  \E l \in Loops : loop'[l] # "ended"
  BY DEF RunningHasLoop
<1>1. CASE UNCHANGED <<cameraRunning, loop>>
  BY <1>1 DEF RunningHasLoop
<1>2. ASSUME NEW t \in Toggles, NEW l \in Loops, Plays(t, l)
      PROVE  \E k \in Loops : loop'[k] # "ended"
  BY <1>2, BeginType DEF Plays
<1>3. ASSUME NEW l \in Loops, LoopStep(l)
      PROVE  \E k \in Loops : loop'[k] # "ended"
  BY <1>3, LoopStepType DEF LoopStep, toggleVars
<1>4. CASE FeedNext
  BY <1>1, <1>4
  DEF FeedNext, Publish, Restart, Tick, HandleStatus, PollHeard, PollFails, FetchStep,
      HandleLastResult, FetchHeard, ImageLoaded, FetchFails, cameraVars, toggleVars
<1>5. CASE StopCamera
  BY <1>5 DEF StopCamera
<1>6. ASSUME NEW t \in Toggles,
             ToggleCamera(t) \/ Granted(t) \/ ToggleFails(t) \/ StreamEnds(t)
      PROVE  UNCHANGED <<cameraRunning, loop>>
  BY <1>6 DEF ToggleCamera, Granted, ToggleFails, StreamEnds
<1>7. CASE UNCHANGED vars
  BY <1>1, <1>7 DEF vars, cameraVars, toggleVars
<1> QED
  BY <1>1, <1>2, <1>3, <1>4, <1>5, <1>6, <1>7 DEF Next, CameraNext

\* While the camera is on, some call of cameraLoop is at work, for any number
\* of clicks and of loops (index.html:562-616).
THEOREM CameraIsServed == Spec => []RunningHasLoop
<1>1. Init => RunningHasLoop
  BY DEF Init, RunningHasLoop
<1> QED
  BY <1>1, DashboardTypes, RunningStep, PTL DEF Spec

-----------------------------------------------------------------------------
(* The feed                                                                *)

\* The page is never ahead of the scheduler, whose last result is the newest
\* or, after a restart, none.
InOrder ==
  /\ lastResult \in {NoResult, clock}
  /\ clock.id = 0 <=> clock.at = 0
  /\ lastSeenResultAt <= clock.at
  /\ \A p \in Polls : pollAt[p] <= clock.at
  /\ \A f \in Fetches : fetched[f] <= clock.id
  /\ feedMeta <= clock.id /\ feedCanvas <= clock.id

Showing == feedMeta = clock.id /\ feedCanvas = clock.id

\* The data and the image of the newest result are shown, or a fetch brings
\* what is missing.
OnItsWay ==
  \/ \E f \in Fetches : fetch[f] = "asked"
  \/ \E f \in Fetches : fetch[f] = "answered" /\ fetched[f] = clock.id
  \/ /\ feedMeta = clock.id
     /\ \/ feedCanvas = clock.id
        \/ \E f \in Fetches : fetch[f] = "drawing" /\ fetched[f] = clock.id

\* The page has taken the newest result for seen.
Noticed == lastResult # NoResult /\ lastSeenResultAt = lastResult.at

NewestIsNotLost == Noticed /\ ~mishap => OnItsWay

LEMMA InOrderStep == TypeOK /\ InOrder /\ [Next]_vars => InOrder'
<1> SUFFICES ASSUME TypeOK, InOrder, [Next]_vars PROVE InOrder'
  OBVIOUS
<1> USE DEF TypeOK, FeedTypeOK, InOrder, Result, NoResult, serverVars, pollVars, feedVars
<1>1. CASE Publish
  <2>1. PICK at \in {clock.at, clock.at + 1} \ {0} :
          clock' = [id |-> clock.id + 1, at |-> at]
    BY <1>1 DEF Publish
  <2>2. clock'.id > clock.id /\ clock'.at >= clock.at /\ clock'.id # 0 /\ clock'.at # 0
    BY <2>1
  <2>3. /\ lastResult' = clock'
        /\ UNCHANGED <<lastSeenResultAt, pollAt, fetched, feedMeta, feedCanvas>>
    BY <1>1 DEF Publish
  <2> QED
    BY <2>1, <2>2, <2>3
<1>2. CASE Restart
  BY <1>2 DEF Restart
<1>3. ASSUME NEW p \in Polls, Tick(p) \/ HandleStatus(p) \/ PollHeard(p) \/ PollFails(p)
      PROVE  InOrder'
  <2>1. lastResult.at <= clock.at
    OBVIOUS
  <2> QED
    BY <1>3, <2>1 DEF Tick, HandleStatus, PollHeard, PollFails
<1>4. ASSUME NEW f \in Fetches, FetchStep(f) \/ FetchFails(f)
      PROVE  InOrder'
  <2>1. lastResult.id <= clock.id
    OBVIOUS
  <2> QED
    BY <1>4, <2>1
    DEF FetchStep, HandleLastResult, FetchHeard, ImageLoaded, FetchFails, EndFetch
<1>5. CASE CameraNext
  BY <1>5
  DEF CameraNext, StopCamera, ToggleCamera, Granted, ToggleFails, StreamEnds, Plays,
      LoopStep
<1>6. CASE UNCHANGED vars
  BY <1>6 DEF vars
<1> QED
  BY <1>1, <1>2, <1>3, <1>4, <1>5, <1>6 DEF Next, FeedNext

\* Only a newer result, a failure or an answer out of order undoes it.
LEMMA FetchKeepsShowing ==
  ASSUME TypeOK, InOrder, NEW f \in Fetches, FetchStep(f) \/ FetchFails(f), ~mishap'
  PROVE  /\ ~mishap
         /\ feedMeta = clock.id => feedMeta' = clock.id
         /\ feedCanvas = clock.id => feedCanvas' = clock.id
<1> USE DEF TypeOK, FeedTypeOK, InOrder
<1>1. CASE HandleLastResult(f)
  BY <1>1 DEF HandleLastResult
<1>2. CASE FetchHeard(f)
  <2>1. CASE UNCHANGED <<feedMeta, mishap>>
    BY <1>2, <2>1 DEF FetchHeard
  <2>2. CASE feedMeta' = fetched[f] /\ mishap' = (mishap \/ fetched[f] < feedMeta)
    <3>1. ~mishap /\ ~(fetched[f] < feedMeta)
      BY ONLY <2>2, ~mishap', Zenon
    <3>2. feedCanvas' = feedCanvas
      BY <1>2 DEF FetchHeard
    <3> QED
      BY <2>2, <3>1, <3>2
  <2> QED
    BY <1>2, <2>1, <2>2 DEF FetchHeard
<1>3. CASE ImageLoaded(f)
  <2>1. /\ feedCanvas' = fetched[f] /\ feedMeta' = feedMeta
        /\ mishap' = (mishap \/ fetched[f] < feedCanvas)
    BY <1>3 DEF ImageLoaded
  <2>2. ~mishap /\ ~(fetched[f] < feedCanvas)
    BY ONLY <2>1, ~mishap', Zenon
  <2> QED
    BY <2>1, <2>2
<1>4. CASE FetchFails(f)
  BY <1>4 DEF FetchFails
<1> QED
  BY <1>1, <1>2, <1>3, <1>4 DEF FetchStep

LEMMA FetchKeepsComing ==
  ASSUME TypeOK, InOrder, OnItsWay, lastResult # NoResult,
         NEW f \in Fetches, FetchStep(f) \/ FetchFails(f), ~mishap'
  PROVE  OnItsWay'
<1> USE DEF TypeOK, FeedTypeOK, InOrder, Result, NoResult
<1>1. clock.id # 0 /\ clock' = clock /\ lastResult = clock
  BY DEF FetchStep, HandleLastResult, FetchHeard, ImageLoaded, FetchFails, serverVars
<1>2. CASE HandleLastResult(f)
  <2>1. fetch'[f] = "answered" /\ fetched'[f] = clock'.id
    BY <1>1, <1>2 DEF HandleLastResult
  <2> QED
    BY <2>1 DEF OnItsWay
<1>3. CASE FetchHeard(f)
  <2>1. CASE fetched[f] = clock.id
    <3>1. feedMeta' = clock'.id /\ fetch'[f] = "drawing" /\ fetched'[f] = clock'.id
      BY <1>1, <1>3, <2>1 DEF FetchHeard
    <3> QED
      BY <3>1 DEF OnItsWay
  <2>2. CASE fetched[f] # clock.id
    <3>1. /\ fetch[f] = "answered"
          /\ \A g \in Fetches \ {f} : fetch'[g] = fetch[g] /\ fetched'[g] = fetched[g]
      BY <1>3 DEF FetchHeard, EndFetch
    <3>2. feedCanvas' = feedCanvas /\ (feedMeta = clock.id => feedMeta' = clock.id)
      BY <1>3, FetchKeepsShowing DEF FetchHeard, FetchStep
    <3> QED
      BY <1>1, <2>2, <3>1, <3>2 DEF OnItsWay
  <2> QED
    BY <2>1, <2>2
<1>4. CASE ImageLoaded(f)
  <2>1. /\ fetch[f] = "drawing" /\ feedMeta' = feedMeta /\ feedCanvas' = fetched[f]
        /\ \A g \in Fetches \ {f} : fetch'[g] = fetch[g] /\ fetched'[g] = fetched[g]
    BY <1>4 DEF ImageLoaded, EndFetch
  <2>2. feedCanvas = clock.id => feedCanvas' = clock.id
    BY <1>4, FetchKeepsShowing DEF FetchStep
  <2> QED
    BY <1>1, <2>1, <2>2 DEF OnItsWay
<1>5. CASE FetchFails(f)
  BY <1>5 DEF FetchFails
<1> QED
  BY <1>2, <1>3, <1>4, <1>5 DEF FetchStep

LEMMA NewestStep ==
  TypeOK /\ InOrder /\ NewestIsNotLost /\ [Next]_vars => NewestIsNotLost'
<1> SUFFICES ASSUME TypeOK, InOrder, NewestIsNotLost, [Next]_vars, Noticed', ~mishap'
             PROVE  OnItsWay'
  BY DEF NewestIsNotLost
<1> USE DEF TypeOK, FeedTypeOK, InOrder, Result, NoResult
<1>1. CASE UNCHANGED <<serverVars, lastSeenResultAt, feedVars>>
  BY <1>1 DEF NewestIsNotLost, Noticed, OnItsWay, serverVars, feedVars
<1>2. CASE Publish
  <2>1. PICK at \in {clock.at, clock.at + 1} \ {0} :
          /\ clock' = [id |-> clock.id + 1, at |-> at]
          /\ mishap' = (at = clock.at)
    BY <1>2 DEF Publish
  <2>2. at = clock.at + 1
    BY <2>1
  <2>3. lastResult'.at = at /\ lastSeenResultAt' = lastSeenResultAt
    BY <1>2, <2>1 DEF Publish, pollVars
  <2> QED
    BY <2>2, <2>3 DEF Noticed
<1>3. CASE Restart
  BY <1>3 DEF Restart, Noticed
<1>4. ASSUME NEW p \in Polls, PollHeard(p) PROVE OnItsWay'
  <2>1. CASE lastSeenResultAt' = pollAt[p] /\ StartFetch
    BY <2>1 DEF StartFetch, OnItsWay
  <2>2. CASE UNCHANGED <<lastSeenResultAt, fetch>>
    BY <1>1, <1>4, <2>2 DEF PollHeard, feedVars
  <2> QED
    BY <1>4, <2>1, <2>2 DEF PollHeard
<1>5. ASSUME NEW p \in Polls, Tick(p) \/ HandleStatus(p) \/ PollFails(p)
      PROVE  OnItsWay'
  BY <1>1, <1>5 DEF Tick, HandleStatus, PollFails
<1>6. ASSUME NEW f \in Fetches, FetchStep(f) \/ FetchFails(f) PROVE OnItsWay'
  <2>1. UNCHANGED <<lastResult, lastSeenResultAt>>
    BY <1>6
    DEF FetchStep, HandleLastResult, FetchHeard, ImageLoaded, FetchFails, serverVars,
        pollVars
  <2>2. Noticed /\ ~mishap
    BY <1>6, <2>1, FetchKeepsShowing DEF Noticed
  <2> QED
    BY <1>6, <2>2, FetchKeepsComing DEF NewestIsNotLost, Noticed
<1>7. CASE CameraNext
  BY <1>1, <1>7
  DEF CameraNext, StopCamera, ToggleCamera, Granted, ToggleFails, StreamEnds, Plays,
      LoopStep, pollVars
<1>8. CASE UNCHANGED vars
  BY <1>1, <1>8 DEF vars, pollVars
<1> QED
  BY <1>2, <1>3, <1>4, <1>5, <1>6, <1>7, <1>8 DEF Next, FeedNext

LEMMA FeedStart == Init => InOrder /\ NewestIsNotLost
  BY DEF Init, InOrder, NewestIsNotLost, Noticed, NoResult

\* The safety half of FeedSettles: a result that pollStatus has taken for seen
\* before it has it (index.html:461-464) is shown, data and image, or a fetch
\* under way brings it, unless one has failed or come out of order since or two
\* results share a millisecond. Overlapping polls and fetches, answers of polls
\* out of order and restarts cannot lose it.
THEOREM NewestStaysOnItsWay == Spec => []NewestIsNotLost
  BY FeedStart, TypesStart, TypesStep, InOrderStep, NewestStep, PTL DEF Spec

\* A feed that shows the newest result keeps it as long as there is no newer
\* one, nothing fails and no answer comes out of order, whatever older answers
\* are under way.
THEOREM ShownStaysShown ==
  Spec => [][Showing /\ clock' = clock /\ ~mishap' => Showing']_vars
<1>1. ASSUME TypeOK, InOrder, Next, Showing, clock' = clock, ~mishap' PROVE Showing'
  <2>1. CASE UNCHANGED <<feedMeta, feedCanvas>>
    BY <1>1, <2>1 DEF Showing
  <2>2. ASSUME NEW f \in Fetches, FetchStep(f) \/ FetchFails(f) PROVE Showing'
    BY <1>1, <2>2, FetchKeepsShowing DEF Showing
  <2>3. CASE ~\E f \in Fetches : FetchStep(f) \/ FetchFails(f)
    <3>1. UNCHANGED <<feedMeta, feedCanvas>>
      BY <1>1, <2>3
      DEF Next, FeedNext, CameraNext, Publish, Restart, Tick, HandleStatus, PollHeard,
          PollFails, StopCamera, ToggleCamera, Granted, ToggleFails, StreamEnds, Plays,
          LoopStep, feedVars
    <3> QED
      BY <2>1, <3>1
  <2> QED
    BY <2>2, <2>3
<1>2. TypeOK /\ InOrder /\ [Next]_vars =>
        [Showing /\ clock' = clock /\ ~mishap' => Showing']_vars
  BY <1>1
<1> QED
  BY <1>2, FeedStart, TypesStart, TypesStep, InOrderStep, PTL DEF Spec
=============================================================================
