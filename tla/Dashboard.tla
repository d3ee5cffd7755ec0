----------------------------- MODULE Dashboard -----------------------------
(***************************************************************************)
(* The dashboard, scheduler/web/static/index.html, with the two handlers   *)
(* it asks: /status every second and, when that names a new result,        *)
(* /last-result for the live feed; and the camera with its loop.           *)
(*                                                                         *)
(* The page has one thread: what stands between two awaits is one step,    *)
(* and any number of calls wait at their awaits. Feed and camera share no  *)
(* state. A result may come from anywhere, the camera included.            *)
(***************************************************************************)
EXTENDS Integers

CONSTANTS
  Polls,      \* bound: calls of pollStatus that wait at a time
  Fetches,    \* bound: calls of fetchLastResult
  Toggles,    \* bound: calls of toggleCamera, and streams not stopped
  Loops,      \* bound: calls of cameraLoop
  MaxResults  \* bound: successful predictions

ASSUME DashboardAssumption ==
  /\ MaxResults \in Nat
  /\ "none" \notin Toggles

VARIABLES
  lastResult,        \* of the scheduler: a number and its TimestampMs
  clock,             \* the greatest number and time given so far
  poll,              \* poll[p]: where a call of pollStatus is
  pollAt,            \* pollAt[p]: the last_result_at in its answer
  lastSeenResultAt,  \* the variable of that name
  fetch,             \* fetch[f]: where a call of fetchLastResult is
  fetched,           \* fetched[f]: the result in its answer
  feedMeta,          \* the result whose data stand under the live feed
  feedCanvas,        \* the result whose image and boxes are in it
  mishap,            \* history: the newest result was not noticed or a fetch went wrong
  toggle,            \* toggle[t]: where a call of toggleCamera is
  cameraStream,      \* the variable of that name: the call that has set it
  live,              \* the streams whose tracks run
  cameraRunning,     \* the variable of that name
  loop               \* loop[l]: where a call of cameraLoop is

serverVars == <<lastResult, clock>>
pollVars == <<poll, pollAt, lastSeenResultAt>>
feedVars == <<fetch, fetched, feedMeta, feedCanvas, mishap>>
toggleVars == <<toggle, cameraStream, live, cameraRunning>>
cameraVars == <<toggleVars, loop>>
vars == <<serverVars, pollVars, feedVars, cameraVars>>

NoResult == [id |-> 0, at |-> 0]
Result == [id : Nat, at : Nat]
NoStream == "none"

FeedTypeOK ==
  /\ lastResult \in Result /\ clock \in Result
  /\ poll \in [Polls -> {"idle", "asked", "answered"}]
  /\ pollAt \in [Polls -> Nat] /\ lastSeenResultAt \in Nat
  /\ fetch \in [Fetches -> {"idle", "asked", "answered", "drawing"}]
  /\ fetched \in [Fetches -> Nat]
  /\ feedMeta \in Nat /\ feedCanvas \in Nat /\ mishap \in BOOLEAN

CameraTypeOK ==
  /\ toggle \in [Toggles -> {"idle", "asking", "playing"}]
  /\ cameraStream \in Toggles \cup {NoStream}
  /\ live \subseteq Toggles
  /\ cameraRunning \in BOOLEAN
  /\ loop \in [Loops -> {"ended", "waiting", "encoding", "sending", "pausing"}]

TypeOK == FeedTypeOK /\ CameraTypeOK

Init ==
  /\ lastResult = NoResult /\ clock = NoResult
  /\ poll = [p \in Polls |-> "idle"] /\ pollAt = [p \in Polls |-> 0]
  /\ lastSeenResultAt = 0
  /\ fetch = [f \in Fetches |-> "idle"] /\ fetched = [f \in Fetches |-> 0]
  /\ feedMeta = 0 /\ feedCanvas = 0 /\ mishap = FALSE
  /\ toggle = [t \in Toggles |-> "idle"]
  /\ cameraStream = NoStream /\ live = {} /\ cameraRunning = FALSE
  /\ loop = [l \in Loops |-> "ended"]

-----------------------------------------------------------------------------
(* The scheduler                                                           *)

\* A prediction succeeds, in the same millisecond as the last one or later.
Publish ==
  /\ clock.id < MaxResults
  /\ \E at \in {clock.at, clock.at + 1} \ {0} :
       /\ clock' = [id |-> clock.id + 1, at |-> at]
       /\ mishap' = (at = clock.at)
  /\ lastResult' = clock'
  /\ UNCHANGED <<pollVars, fetch, fetched, feedMeta, feedCanvas, cameraVars>>

\* A new process takes over; it has no result.
Restart ==
  /\ lastResult # NoResult
  /\ lastResult' = NoResult
  /\ UNCHANGED <<clock, pollVars, feedVars, cameraVars>>

HandleStatus(p) ==
  /\ poll[p] = "asked"
  /\ poll' = [poll EXCEPT ![p] = "answered"]
  /\ pollAt' = [pollAt EXCEPT ![p] = lastResult.at]
  /\ UNCHANGED <<serverVars, lastSeenResultAt, feedVars, cameraVars>>

\* The result, or 404.
HandleLastResult(f) ==
  /\ fetch[f] = "asked"
  /\ fetch' = [fetch EXCEPT ![f] = "answered"]
  /\ fetched' = [fetched EXCEPT ![f] = lastResult.id]
  /\ UNCHANGED <<serverVars, pollVars, feedMeta, feedCanvas, mishap, cameraVars>>

-----------------------------------------------------------------------------
(* pollStatus                                                              *)

\* setInterval calls again whether or not the last call has ended.
Tick(p) ==
  /\ poll[p] = "idle"
  /\ poll' = [poll EXCEPT ![p] = "asked"]
  /\ UNCHANGED <<serverVars, pollAt, lastSeenResultAt, feedVars, cameraVars>>

\* A slip: one fetch at a time, and the result is taken for seen all the same.
StartFetch_OneAtATime ==
  IF \A f \in Fetches : fetch[f] = "idle"
  THEN \E f \in Fetches : fetch' = [fetch EXCEPT ![f] = "asked"]
  ELSE UNCHANGED fetch

\* fetchLastResult is called and not awaited.
StartFetch ==
  \E f \in Fetches : fetch[f] = "idle" /\ fetch' = [fetch EXCEPT ![f] = "asked"]

\* The answer is there. Answers may be taken in another order than given.
PollHeard(p) ==
  /\ poll[p] = "answered"
  /\ poll' = [poll EXCEPT ![p] = "idle"]
  /\ pollAt' = [pollAt EXCEPT ![p] = 0]
  /\ IF pollAt[p] > 0 /\ pollAt[p] # lastSeenResultAt
     THEN lastSeenResultAt' = pollAt[p] /\ StartFetch
     ELSE UNCHANGED <<lastSeenResultAt, fetch>>
  /\ UNCHANGED <<serverVars, fetched, feedMeta, feedCanvas, mishap, cameraVars>>

PollFails(p) ==
  /\ poll[p] # "idle"
  /\ poll' = [poll EXCEPT ![p] = "idle"]
  /\ pollAt' = [pollAt EXCEPT ![p] = 0]
  /\ UNCHANGED <<serverVars, lastSeenResultAt, feedVars, cameraVars>>

-----------------------------------------------------------------------------
(* fetchLastResult                                                         *)

EndFetch(f) ==
  fetch' = [fetch EXCEPT ![f] = "idle"] /\ fetched' = [fetched EXCEPT ![f] = 0]

FetchHeard(f) ==
  /\ fetch[f] = "answered"
  /\ \/ fetched[f] = 0 /\ EndFetch(f) /\ UNCHANGED <<feedMeta, mishap>>
     \/ /\ fetched[f] # 0
        /\ fetch' = [fetch EXCEPT ![f] = "drawing"]
        /\ feedMeta' = fetched[f]
        /\ mishap' = (mishap \/ fetched[f] < feedMeta)
        /\ UNCHANGED fetched
  /\ UNCHANGED <<serverVars, pollVars, feedCanvas, cameraVars>>

\* img.onload
ImageLoaded(f) ==
  /\ fetch[f] = "drawing"
  /\ feedCanvas' = fetched[f]
  /\ mishap' = (mishap \/ fetched[f] < feedCanvas)
  /\ EndFetch(f)
  /\ UNCHANGED <<serverVars, pollVars, feedMeta, cameraVars>>

\* The request fails, or the image cannot be shown; nothing is tried again.
FetchFails(f) ==
  /\ fetch[f] # "idle"
  /\ mishap' = TRUE
  /\ EndFetch(f)
  /\ UNCHANGED <<serverVars, pollVars, feedMeta, feedCanvas, cameraVars>>

-----------------------------------------------------------------------------
(* toggleCamera and stopCamera                                             *)

\* A click while it runs stops it; another one asks for the camera, also
\* while an earlier call still waits for it.
StopCamera ==
  /\ cameraRunning
  /\ cameraRunning' = FALSE
  /\ live' = live \ {cameraStream}
  /\ cameraStream' = NoStream
  /\ UNCHANGED <<serverVars, pollVars, feedVars, toggle, loop>>

ToggleCamera(t) ==
  /\ ~cameraRunning
  /\ toggle[t] = "idle" /\ t \notin live
  /\ toggle' = [toggle EXCEPT ![t] = "asking"]
  /\ UNCHANGED <<serverVars, pollVars, feedVars, cameraStream, live, cameraRunning,
                 loop>>

\* getUserMedia returns a stream.
Granted(t) ==
  /\ toggle[t] = "asking"
  /\ toggle' = [toggle EXCEPT ![t] = "playing"]
  /\ cameraStream' = t
  /\ live' = live \cup {t}
  /\ UNCHANGED <<serverVars, pollVars, feedVars, cameraRunning, loop>>

\* getUserMedia throws; or play does, and the stream stays.
ToggleFails(t) ==
  /\ toggle[t] # "idle"
  /\ toggle' = [toggle EXCEPT ![t] = "idle"]
  /\ UNCHANGED <<serverVars, pollVars, feedVars, cameraStream, live, cameraRunning,
                 loop>>

\* The browser ends a stream: the camera is gone, or nobody refers to it.
StreamEnds(t) ==
  /\ t \in live
  /\ live' = live \ {t}
  /\ UNCHANGED <<serverVars, pollVars, feedVars, toggle, cameraStream,
                 cameraRunning, loop>>

\* What the loop does before its first await: the video may have no size yet.
Begin(l) ==
  \E s \in {"waiting", "encoding"} : loop' = [loop EXCEPT ![l] = s]

\* play returns; cameraLoop is called.
Plays(t, l) ==
  /\ toggle[t] = "playing" /\ loop[l] = "ended"
  /\ toggle' = [toggle EXCEPT ![t] = "idle"]
  /\ cameraRunning' = TRUE
  /\ Begin(l)
  /\ UNCHANGED <<serverVars, pollVars, feedVars, cameraStream, live>>

-----------------------------------------------------------------------------
(* cameraLoop                                                              *)

\* Slips: the next frame is sent without a look at cameraRunning; a failed
\* request ends the loop.
Again_Untested(l) == Begin(l)
PauseEnds_Breaks(l) ==
  /\ loop[l] = "pausing"
  /\ loop' = [loop EXCEPT ![l] = "ended"]

\* From the end of an iteration, or from continue, to the next await.
Again(l) ==
  \/ cameraRunning /\ Begin(l)
  \/ ~cameraRunning /\ loop' = [loop EXCEPT ![l] = "ended"]

WaitEnds(l) == loop[l] = "waiting" /\ Again(l)

\* toBlob gives a frame, or null.
Encoded(l) ==
  /\ loop[l] = "encoding"
  /\ Again(l) \/ loop' = [loop EXCEPT ![l] = "sending"]

\* /predict has answered 200, or has not.
Answered(l) ==
  /\ loop[l] = "sending"
  /\ Again(l) \/ loop' = [loop EXCEPT ![l] = "pausing"]

PauseEnds(l) == loop[l] = "pausing" /\ Again(l)

LoopStep(l) ==
  /\ WaitEnds(l) \/ Encoded(l) \/ Answered(l) \/ PauseEnds(l)
  /\ UNCHANGED <<serverVars, pollVars, feedVars, toggleVars>>

-----------------------------------------------------------------------------
FetchStep(f) == HandleLastResult(f) \/ FetchHeard(f) \/ ImageLoaded(f)

FeedNext ==
  \/ Publish \/ Restart
  \/ \E p \in Polls : Tick(p) \/ HandleStatus(p) \/ PollHeard(p) \/ PollFails(p)
  \/ \E f \in Fetches : FetchStep(f) \/ FetchFails(f)

CameraNext ==
  \/ StopCamera
  \/ \E t \in Toggles : ToggleCamera(t) \/ Granted(t) \/ ToggleFails(t)
                        \/ StreamEnds(t)
  \/ \E t \in Toggles, l \in Loops : Plays(t, l)
  \/ \E l \in Loops : LoopStep(l)

Next == FeedNext \/ CameraNext

\* A fetch that does not fail is answered, since the handler only waits for a
\* lock; timers fire, and /predict answers within its latency budget.
Fairness ==
  /\ \A f \in Fetches : WF_vars(FetchStep(f))
  /\ \A l \in Loops : WF_vars(LoopStep(l))

Spec == Init /\ [][Next]_vars /\ Fairness

-----------------------------------------------------------------------------
(* Properties                                                              *)

\* The "Most Recent Prediction (Any Source)" (index.html:258) is what the feed
\* shows in the end, data and image: if polls keep coming through and, of the
\* newest result, no other had the same millisecond, and since it came no
\* fetch failed and none was overtaken by a later one. Each of these leaves
\* the feed behind until the next result, since the page takes a result for
\* seen before it has it (index.html:461-464). What came before, answers
\* of polls out of order and restarts do not matter.
FeedSettles ==
  (<>[]~mishap /\ []<><<\E p \in Polls : PollHeard(p)>>_vars)
    => <>[](lastResult # NoResult =>
              feedMeta = lastResult.id /\ feedCanvas = lastResult.id)

\* When the camera is on, some call of cameraLoop is at work, whatever failed
\* and however it was stopped and started (index.html:562-616). There may be
\* several: one that has waited through a stop and a start goes on.
RunningHasLoop == cameraRunning => \E l \in Loops : loop[l] # "ended"

\* Once the camera is off for good, every call of cameraLoop ends, also when
\* there were several (index.html:583).
LoopsEnd == <>[]~cameraRunning => <>[](\A l \in Loops : loop[l] = "ended")
=============================================================================
