# EdgeSched in TLA+

EdgeSched serves object detection on one Jetson board. A Go process, the
*scheduler*, takes images over HTTP, chooses one of several C++ *inference
engines* and calls it over gRPC. Beside them are a dashboard in the browser, and a
load generator and a status scraper that a script runs together for a benchmark. This
directory holds TLA+ modules of all of these, the TLC configurations that check them
on small instances, and theorems that TLAPS checks for every instance.
All paths below are relative to the repository.

## The system

| Component | State | Operations | Talks to |
|---|---|---|---|
| Worker pool, one per engine (`scheduler/internal/workerpool/pool.go`) | the channel `queue`, `-concurrency` goroutines, a wait group | `Submit` (never blocks), `QueueDepth`, `Close`; each worker receives, calls `Predict`, sends on the request's own `Result` channel | handlers (channels), engine client |
| Predict handler, one goroutine per request (`internal/api/handlers.go`) | `status`, `engineName`, the context with the latency budget; shared: counters, `lastResult` under a mutex | parse budget, route or check the override, read body, submit, `select` on result and context | policy, both monitors, pool, metrics |
| Routing policies (`internal/routing/policy.go`) | one atomic counter | `SelectEngine` on a snapshot of depths and verdicts | handlers |
| Health monitor (`internal/healthcheck/monitor.go`) | `statuses` under a lock, a goroutine per engine | ask, wait at most the timeout, record; `Healthy` | engine client; read by handlers |
| System monitor (`internal/sysmonitor/monitor.go`) | one atomic pointer to `State`, two goroutines | merge a tegrastats line; set the power mode; `Current` | child processes; read by handlers, metrics |
| Metrics (`internal/metrics/metrics.go`) | counters | `Inc`; `Collect` reads queues and state | handlers, Prometheus |
| Engine client (`internal/engineclient/client.go`) | a connection | `Predict`, `HealthCheck`, which end with their context | engines |
| Inference engine (`inference_engine/src`) | the TensorRT context under `engineMutex_` | `Predict` decodes, locks, infers, unlocks, postprocesses; `HealthCheck` always says it serves | - |
| Scheduler process (`cmd/scheduler/main.go`) | flags; nothing is kept from one process to the next | parse `-engines`, build the policy, serve until killed | all of the above |
| Dashboard (`scheduler/web/static/index.html`) | `lastSeenResultAt`, the feed; `cameraStream`, `cameraRunning`; one thread, many calls at their awaits | `pollStatus`, `fetchLastResult`; `toggleCamera`, `stopCamera`, `cameraLoop` | scheduler |
| Load generator (`cmd/loadgen/main.go`) | channels of paths and results, four kinds of goroutines | warm up, produce, send, collect, report | scheduler |
| Status scraper (`cmd/statscraper/main.go`) | columns of the first poll, ticker, signal context | poll `/status`, write a row | scheduler |
| Benchmark script (`benchmarks/run_session.sh`) | its place, a background process | gate, record, scrape and load, wait | the two programs, scheduler |

What makes each correct, and what is hard about it:

- **Worker pool.** Accepted requests are served once, first come first served,
  whatever their callers do; load is bounded; no worker ever blocks on a caller;
  `Close` drains. Hard: callers that leave, hand-over to a parked goroutine
  against buffering, an unbuffered channel, closing.
- **Predict handler.** Every handler returns; the counters count what they claim to; a late result
  reaches nobody. Hard: the result races the deadline, and what routing read is
  stale when it is used.
- **Routing.** Dead engines get nothing; hot boards use the cheap tier; someone is
  served while someone is up; ties rotate. Hard: a snapshot that mixes moments, a
  counter shared by all handlers and all ties.
- **Health monitor.** A lasting condition is recorded, and a verdict was true during
  its check. Hard: silent engines, changes during a check.
- **Inference engine.** A call gets its own detections; the mutex comes free. Hard:
  calls whose clients are gone, exceptions under the mutex, device errors that
  nobody looks at, a process that ends in the middle of everything.
- **Load generator.** Every request is in the report, and there is a report. Hard:
  four kinds of goroutines over two unbuffered channels, closed by different ones.
- **Latency budget.** A request gets the time it asked for, up to the limit. Hard:
  milliseconds become 64-bit nanoseconds before they are clamped.
- **Scraper and script.** A column holds one engine's depths; both end. Hard: a
  scheduler that comes back with other engines, a `select` whose ticker is always
  ready, commands that fail while another runs in the background.
- **Dashboard.** The feed ends up with the newest result; while the camera is on a loop
  serves it, and once it is off all loops end. Hard: calls that overlap at every
  await, answers out of order, fetches that fail after the result was taken for seen.
- **System monitor.** Current readings are shown. Hard: two goroutines that load,
  change and store without a lock; child processes that end.

## Modules

| Module | Models | Builds on |
|---|---|---|
| `AdmissionControl` | the promise of a pool: a queueing system with servers and a waiting room | - |
| `WorkerPool` | `pool.go`: state and one action per step of the code; an open module, without callers | - |
| `PoolClients` | pools with callers (submit, wait, give up) and closers | EXTENDS `WorkerPool`; implements `AdmissionControl` |
| `PoolClientsProofs` | theorems about `PoolClients` | EXTENDS it |
| `PredictServer` | `HandlePredict`, its context, counters and last result over the pools | EXTENDS `WorkerPool`, `LatencyBudget`; implements the safety part of `PoolClients` |
| `PredictServerProofs` | theorems about `PredictServer` | EXTENDS it, instantiates `PoolClientsProofs` |
| `LatencyBudget` | `parseLatencyBudget`, `buildPredictURL`: milliseconds to nanoseconds with wrapping | - |
| `Routing` | both policies, the tie breaker, `engineStates` | - |
| `RoutingProofs` | theorems about `Routing` | EXTENDS it |
| `TieFairness` | `Routing` with a memory of earlier ties | EXTENDS `Routing` |
| `HealthMonitor` | `pollLoop`, `check` | - |
| `EngineProcess` | `Predict`, `infer`, `HealthCheck` and the process around them | EXTENDS `HealthMonitor` and implements it |
| `EngineProcessProofs` | theorems about `HealthMonitor` and `EngineProcess` | EXTENDS them |
| `LoadGen` | `cmd/loadgen/main.go` | - |
| `LoadGenProofs` | theorems about `LoadGen` | EXTENDS it |
| `SchedulerProcess` | a scheduler that starts from a command line and stops | - |
| `StatScraper` | `cmd/statscraper/main.go` against that scheduler | EXTENDS `SchedulerProcess` |
| `BenchmarkSession` | `run_session.sh` | composes `LoadGen`, `StatScraper`, `LatencyBudget`; implements the safety part of `LoadGen` |
| `BenchmarkSessionProofs` | theorems about latency budgets and sessions | EXTENDS `BenchmarkSession`, `LoadGenProofs` |
| `Dashboard` | live feed and camera of `index.html`, with `HandleStatus` and `HandleLastResult` | - |
| `DashboardProofs` | theorems about `Dashboard` | EXTENDS it |
| `SysMonitor` | `runTegrastats`, `runNvpmodel`, `Run` | - |
| `SysMonitorProofs` | theorems about `SysMonitor` | EXTENDS it |
| `MC*` | small sets for TLC | the module of that name |

Some definitions carry a suffix (`Take_KeepsHead`) and stand before the definition
they are named after. Each is that definition with a plausible mistake, kept to
show that a property notices it; no specification uses them.

### How the state corresponds to the code

*Pools.* `queue[e]` is the buffer of `p.queue`. A goroutine in `for req := range
p.queue` is `ready` at the head of the loop, `parked` when blocked in the receive,
`predicting` inside `Predict`, `sending` at the result send, `exited` after
`wg.Done`. The split of ready and parked is what decides whether a non-blocking send
finds a receiver: Go hands the value to a parked receiver (`HandOff`), else buffers it
(`Enqueue`), else takes `default` (`SubmitFalse`). With `-queue-size 0` only the
first is possible. `resultCh[r]` is the caller's channel of capacity one.

*Handlers.* `pc[r]` names the place in `HandlePredict`; `status`, `engine` and `got`
are its variables, `code` what was written to the client. `Finish` is the deferred
calls. The handler goes by `Pools`, an instance of `PoolClients` on the handler's
state, which is how the pool's results carry over: a handler is a caller that
receives at most once or gives up.

*Routing.* Engines are numbered in the order of their names, which is all that
sorting uses. `snap[h]` grows by one engine per step, as the range over the map of
pools does. `counter` has `CounterWidth` bits; it is assumed to have at least as many
values as there are engines, as 64 bits do.

*Monitors.* A load of the state pointer and a store are steps of their own in
`SysMonitor`; `tprev` and `nprev` are the copies in between. In `HealthMonitor` the
answer and its recording are separate steps.

*Engine.* `thread[c]` is the place of a gRPC thread in `Predict` and `infer`. An image
and all that is computed from it are identified by the call: `deviceIn` and
`deviceOut` say whose data the two device buffers hold, `outputs[c]` whose the thread
has read back. The stream executes in order, so that each of copy, inference and copy
back is one step. When a call ends, what it left on the device belongs to nobody:
otherwise a later call under the same name could pass it off as its own. `Blank` is
the vector of zeros that remains when the copy back fails: no candidate reaches the
threshold. `engine[Host]` of `HealthMonitor` says whether the process serves, is gone
("refusing") or is stopped ("silent").

*Load generator.* Both channels are unbuffered: a send and its receive are one step,
`TakePath` and `Collect`. `open` tells whether `resultsCh` is; `producer = "closed"`
that `pathsCh` has been closed.

*Budgets.* Integers have `2 * Half` values, a millisecond is `Scale` nanoseconds; `Wrap`
is two's complement. `StartContext` of `PredictServer` starts the context with what
`Budget` gives; a budget that has wrapped to nothing or less has expired at once.

*Session.* `engines` is the set of engines of the running scheduler, empty while there
is none. `engineCols` are the names of the columns in order; the depth of engine `n` in
`row` is written `n`, since only whose it is matters. `script` is the place in
`run_session.sh`, whose failing commands end it (`set -e`) but not the scraper.
`granted[w]` is what the scheduler makes of the budget in the request of worker `w`.

*Dashboard.* JavaScript has one thread: all that happens between two awaits is one step,
and `poll`, `fetch`, `toggle`, `loop` say at which await each call is. Results are
numbered; `at` is their millisecond, by which the page tells one from another.
`feedMeta` and `feedCanvas` are the results that the text and the image of the feed come
from. `live` are the camera streams nobody has stopped. `mishap` is a history variable:
it remembers that the newest result had the millisecond of the one before, or that since
it came a fetch failed or was overtaken.

## What TLC checks

| Run | Instance | Shows |
|---|---|---|
| `pool_buffered` | 1 engine, 2 workers, queue of 1, 4 requests | 4 is one more than the pool holds, so that rejection, waiting and service coincide; with giving up and `Close` at any time. `ExactlyOnce`, `SendNeverBlocks`, `NoLostWakeup`, `CloseDrains`, `BoundedLoad`, `AcceptedIsServed`, `CloseReturns`, `ImplementsContract` |
| `pool_unbuffered` | 2 engines, `-queue-size -1`, `-concurrency 0`, 3 requests | the clamps of `New`, direct hand-over, no crossing between pools: `StaysOnTarget`, `RejectedMeansBusy`, `ImplementsContract` |
| `server` | 2 engines, one flapping, 1 worker and a queue of 1 each, 2 requests that name an engine, an unknown one or none | a request is served, waits and expires in the queue, is rejected, abandoned, or refused before it has an engine; engines may hang. `ShownWasAnswered`, `CountersAgree`, `UsesPoolsCorrectly`, `DeadEnginesExcluded`, `HandlersReturn`, `SlotsAreFreed` |
| `routing_rotate` | 3 engines, 2 handlers, counter of 2 bits | ties of all sizes across wrap-arounds (4 is, like 2^64, 1 modulo 3): `TiesRotate` |
| `routing_steady` | 3 engines, 1 handler, thermal-aware, depths 0 and 1 | one handler is enough: the handlers share only the counter, which these properties do not depend on. `ServedWhileOneIsUp`, `HotGoesToCheapTier`, `ShorterQueueWins` |
| `sysmonitor` | 2 temperatures, 2 modes | two values are enough to be wrong about. `NothingUndoneLater`, `LoneWriterSettles` |
| `engine` | 1 engine, 1 worker, 2 calls in the process | a live call beside one whose worker has left is what the mutex is for; a third call adds no new kind of contention. With device faults, crashes and checks at any moment: `OwnDetections`, `MutexIsReleased`, `ImplementsHealthMonitor`, `VerdictWasTrue`, `DeadIsDetected`, `RecoveryIsDetected` |
| `session` | 2 images, 2 workers, one warm-up, at most 3 requests, both modes, engines {1, 2}, {2, 3} and command lines that are refused; 8-bit integers with 10 nanoseconds to the millisecond | 3 requests wrap around the 2 images; an engine goes, one stays and one comes; of the two budgets one is clamped and one wraps. `NoSendOnClosed`, `EveryImageCounted`, `RowsUnderTheirNames`, `BudgetHonoured`, `SessionEnds`. It may stop: deadlock is not checked, `SessionEnds` says how it ends |
| `dashboard` | feed: 2 polls, 2 fetches, 3 results; camera: 3 clicks, 2 loops | two answers are what can come in the wrong order, and a third result shows whether the feed recovers; a third click stops what two have started. The halves share no variable and are explored apart: `FeedSettles`, `RunningHasLoop`, `LoopsEnd` |

The runs of the server use the same 8-bit budgets: absent, clamped, wrapped, and refused.
Type invariants are checked in `routing_rotate` and `sysmonitor` and proved for every
module that has one.

One remark on `ShorterQueueWins`: "an engine whose queue is always longer than
another's is not chosen" is *false* of this code, because the snapshot is read pool by
pool while the queues change. What holds is the form with a level between the queues.

One remark on `engine`: `RecoveryIsDetected` is good and bad news there. However many
calls wait at the mutex, the engine is not taken for dead; and neither is one whose
device hangs or is broken, which can serve nobody. A broken device even answers at
once and with success, since the results of the CUDA calls are not looked at.
`OwnDetections` shows that such answers are empty and never another call's.

One remark on `sysmonitor`: each goroutine loads the whole state, changes its part and
stores the whole, so that either may undo what the other has stored in between
(monitor.go:155-176, 202-218). A temperature may go back to an older one, and `Valid`,
"false until the first successful tegrastats parse" (monitor.go:27), may be false again
after it. `NothingUndoneLater` says how far that goes: a goroutine can only bring back the
one copy it holds. `LoneWriterSettles` says where it ends.

Remarks on `dashboard`. `FeedSettles` has to name three reasons for which the feed may
stay behind: `pollStatus` takes a result for seen before it has fetched it, so that a
fetch that fails is not tried again (index.html:461-464); a fetch may be overtaken by
a later one; and a second result in one millisecond looks like the first. Restarts and
late polls do no lasting harm. Overlapping clicks are possible at every await of
`toggleCamera`: two loops may then run, a stream that nobody refers to may stay on, and
the camera may count as running after its stream has been stopped. `RunningHasLoop` and
`LoopsEnd` hold in spite of that.

Remarks on `session`. A script run with `--duration 0` waits for a scraper that has no end
of its own, until Ctrl+C; `SessionEnds` speaks of sessions with a duration.
`BudgetHonoured` is about budgets whose nanoseconds fit. Longer ones wrap
(handlers.go:133) and give a shorter budget or one already expired; the theorem
`NeverAboveTheLimit` says that none of them gets more than the limit. The default
budget is not clamped.

Three runs look for a violation and find it, where the code does not do what a text
says:

- `server_metrics`: metrics.go:15 promises that `RequestsTotal` "counts every /predict
  outcome". The deferred function counts nothing while `engineName` is empty
  (handlers.go:168), which it still is when no engine is healthy, and when the budget
  does not parse. `CountersAgree` says that these two are all that is missed.
- `server_budget`: README.md:103 promises 504 when the budget expires. The worker's
  call fails with the same context, and `select` may take that result: 500.
- `routing_ties`: policy.go:70-72 and README.md:52 promise fair round robin among
  ties. The counter advances on every pick, so that one engine can win every tie.

Other divergences met while reading, without a run: `RoutingDecisions` is never incremented; the 400
for an unknown engine (handlers.go:209) is unreachable, since an unknown name is
unhealthy and answered 503; `Valid` may be false again after the first line, as said
above; `-concurrency 0` makes the load generator
report nothing, without an error; a chart of the dashboard keeps one value more than it
has labels (index.html:338).

### Fairness

Weak fairness, with one exception, on what the runtime provides: a goroutine that can run
is run eventually; timers and tickers fire; a gRPC call returns once its context is done.
In `PoolClients` `Predict` returns, since every context there has a deadline; in
`PredictServer` this is spelled out and only the return with a finished context is
fair. No engine has to answer, no client has to come, send its body or stay, nobody
has to close a pool, no health verdict has to change. In `SysMonitor` tegrastats
prints lines until it ends, good or bad ones. In `EngineProcess` each thread runs when
it can, which is no promise of the mutex to any thread: `std::mutex` is not fair, so
that a thread may wait for ever while others come and go, and no property says
otherwise. In `LoadGen` a request ends with the timeout of its HTTP client. In `BenchmarkSession` both
programs and the script run and time passes; a poll ends with the client's timeout. The
exception: Go's `select` picks at random among the cases that are ready, so that the
scraper's `ctx.Done` is picked in the end although its ticker goes on being ready, which is
strong fairness of `Stopped`. The scheduler may stay down or come and go for ever. In
`Dashboard` a fetch ends and a loop gets its answer, which the latency budget sees to;
polls owe nothing, and nobody has to click. `AdmissionControl` promises fair
service; `ImplementsContract` shows that it follows.

## What is proved

`PoolClientsProofs` proves, for any finite sets of engines and requests and any
integers given as `-queue-size` and `-concurrency` (`PoolAssumption`,
`ClientAssumption`), that the safety part of `PoolClients!Spec` implies always
`TypeOK`, `ExactlyOnce`, `StaysOnTarget`, `NoLostWakeup`, `SendNeverBlocks`,
`CloseDrains` and `BoundedLoad`, that it implies `RejectedMeansBusy`, that a request with
its result is never queued or served again (`ServedOnlyOnce`), and that it
implements the safety part of `AdmissionControl` (`PoolsMeetContract`).

One inductive invariant serves all of them,
`IInv == TypeOK /\ Phases /\ Closing /\ NoLostWakeup /\ Placement`. None of the
properties is inductive by itself. That a send does not block rests on the request
being at one worker and nowhere else, with an empty channel; that needs every place a
request can be (`Placement`: queued once, held once, delivered or none), and which
program counters of a worker go with holding something (`Phases`). That a drained
pool owes nothing rests on workers leaving only when the closed queue is empty
(`Closing`). `NoLostWakeup` is needed for `Enqueue` and `CloseQueue`. The proof takes
the actions one by one and each conjunct that the action disturbs under it. `BoundedLoad` follows
from the invariant by counting: outstanding requests are among the entries of the queue
and of the workers. `PoolsMeetContract` has one lemma for each step of the contract and
one for each kind of step of the pools. What the contract asks for comes from the
invariant: a worker at the receive holds nothing, hence is a free server (`FreeServer`); a
hand-off finds nobody in line, since a worker is parked; no other worker has the request
that one delivers; a closed pool whose workers have exited is empty.

`EngineProcessProofs` proves `ProcessTypeOK`, `OwnDetections` and mutual exclusion for
any workers and calls (`EngineProcessAssumption`: the special values are no calls).
`OwnDetections` speaks of a thread that is about to answer; it is inductive with
`Exclusion` (a thread is between lock and unlock if and only if it is the holder) and
`OwnData` (the holder's data is on the device, unless the device is broken, in which
case it is not read). That a broken device becomes whole only with the process is
what makes the last part stable. The safety part of
`ImplementsHealthMonitor` is the lemma `HealthIsIndependent`. It holds by the way
`EngineNext` is composed and is there to carry results over.

About the health monitor, with or without that process, the module proves the types and
`VerdictWasTrue` for any engines. The invariant `CheckIsHonest` says that during a check
the present condition is among those met, and that the verdict, once there, is borne
out by them. `ProcessVerdictsWereTrue` takes it over to the engine process through
`HealthIsIndependent`.

`RoutingProofs` proves the types and the four properties of the routing runs for any
engines, handlers, tiers, counts and depths (`RoutingAssumption`; `CheapWhileHot` is about
the thermal-aware policy, which is the one that promises it).

- `PicksRotate` needs to know what the counter has to do with the picks that went
  before. That is `Rotation`: the k-th last of the remembered picks is the one that the
  counter gave when it stood k lower, where counting down may cross zero once. With it, the
  last n picks among n tied engines belong to n counter values in a row, or, when the
  counter wrapped around in between, the last 2n contain such a row. Values in a row
  have all remainders (`AllRemainders`), and each engine is the one with some number of
  names before it (`Ranks`), so that a row serves all. The row has to fit between two
  wrap-arounds, which is where a counter with fewer values than engines would fail. TLC
  checked `Rotation` on the instance of `routing_rotate` before it was proved.
- `UpMeansServed`, `CheapWhileHot` and `ShorterWins` follow one request: what its snapshot
  may hold of the two engines concerned as long as the condition lasts (`NotRefused`,
  `KeptCheap`, `Outqueued`), and what the policy then makes of it. The steps of other
  handlers do not matter, since they share only the counter, and no value of it makes the
  policy pick outside the shortest queues of its candidates (`ChosenIsShortest`).

`SysMonitorProofs` proves the types, with the fact that `errCh` gets one result, once
(`OneEnd`), so that of its two places (monitor.go:53) one is used and the goroutine that
ends does not hang on it. `UndoingEnds` proves `NothingUndoneLater`. `Frozen` and
`FirstLineKept` are inductive: each says of the shown state and of the copy that the
other goroutine holds that neither undoes what it is about. That a run gets to such a
state is liveness, and is part of `LoneWriterSettles`.

`PredictServerProofs` proves the types, `ShownWasAnswered`, `CountersAgree`,
`UsesPoolsCorrectly` and `DeadEnginesExcluded` for any engines, requests, queue sizes,
workers, budgets and names that clients ask for. The types need to know how the handlers
use the pools: `PoolInv` (a worker holds a request exactly from the receive to the send)
and `HandlersInv` (from the body on, a handler has an engine that has a pool).
`ShownWasAnswered` follows from `Published`: a handler that is about to publish or to reply
has got a response, and the handler whose result is shown is about to reply or has
ended with 200. `UsesPoolsCorrectly` takes the steps of the server to steps of
`PoolClients` or to stutters; its invariant `StatusFollowsPlace` (the status is "unknown"
until a handler has its answer, "success" while it publishes and replies) keeps apart what
a handler looks like to the pool. The invariant
of `PoolClients` thereby holds of the pools under the handlers, and with it all that
follows from it. `ServerKeepsPoolPromises` says so of `ExactlyOnce`, `StaysOnTarget`,
`NoLostWakeup`, `SendNeverBlocks` and `BoundedLoad`; `RejectionMeansLoad` says that a
handler answers 503 for a full queue only when its engine owes an answer or has a
worker between two receives; `ServerServesOnce` that a request with its result is never
queued or served again, also when its handler has long answered 504. (`Pools` is the instance that TLC checks, `Proved` the same
instance with the theorems; the lemmas `Same...` unfold one into the other.)
`DeadEnginesExcluded` follows an engine that stays unhealthy from
the arrival of the request on: it never enters the snapshot and is never the handler's
(`Away`), whatever other handlers do. Of `CountersAgree` the part `CountsMatch` is inductive: its proof counts the
sets of requests that have left and that have been counted, whose cardinalities change
by one when a handler is rejected or returns (`OneMore`, `OneLess`). `Accounted` tells
which handlers have an engine name and which a status by which they are counted, hence
who is in no count (`UncountedAre`): exactly the two kinds that `server_metrics` is about.

`LoadGenProofs` proves the types, where the modulus keeps the place in the list of images
within the list, and `NoSendOnClosed`, for any images, workers and requests, since the
results are open until all workers are gone and none comes back. `AllImagesCounted` proves
`EveryImageCounted` with the invariant `CInv`: of the images that were taken, those without
a result are being sent by a worker (`AllKept`); after q rounds and r images each
of the first r has been taken q + 1 times and every other q times (`InTurns`);
one pass takes the list once and workers leave after it (`OnePass`); the report is written
when the results are closed (`Reported`). The totals are sums over the images. Folds are
defined by recursion on sets, and what the proof needs of them (`SumGrows`, `SumOfSame`,
`SumOfZeros`) is derived from a smallest set without the property, which well-founded
sets of numbers have. TLC checked `CInv` on the instance of `session` first.

`BenchmarkSessionProofs` proves of the latency budgets, for any width and scale of the
integers, that a product that fits does not change by wrapping (`WrapFits`), hence what a
budget becomes (`BudgetAsAsked`), and that nothing from a URL is granted more than the
limit (`NeverAboveTheLimit`). Of sessions it proves the types of load
generator, script, scraper and budgets; `RowsUnderTheirNames`, however often the scheduler
changes; and `BudgetHonoured`, with the invariant `Granted`: a busy worker has been
granted what `Budget` makes of the session's flag, to which `BudgetAsAsked` applies.
`NoSendOnClosed` and `EveryImageCounted` carry over by the lemma `SessionRunsLoadGen`,
which holds by the way a session is composed.

`DashboardProofs` proves the types and `RunningHasLoop`, for any number of calls: a loop
ends only when it has seen `cameraRunning` false, and nothing turns it on without
starting one. Of `FeedSettles` it proves what is not fairness. `NewestStaysOnItsWay`: when
the page has taken the newest result for seen, it shows it or a fetch under way brings what
is missing, unless there was one of the three mishaps. This rests on `InOrder`: nothing
on the page is newer than what the scheduler has published, so that an older answer that
replaces a newer one is noticed as overtaken. `ShownStaysShown`: a feed
that shows the newest result keeps it. TLC checked both and `InOrder` on the instance of
`dashboard` first.

Only model-checked: liveness, which is out of the prover's reach here. These are
`AcceptedIsServed`, `CloseReturns`, `HandlersReturn`, `SlotsAreFreed`, `SessionEnds`,
`FeedSettles`, `LoopsEnd`, `MutexIsReleased`, `DeadIsDetected`, `RecoveryIsDetected`,
`LoneWriterSettles`, and the fairness that
`ImplementsContract` and `ImplementsHealthMonitor` promise. Every invariant and every
action property that a passing run checks is proved.

## Abstractions

- Images, detections and timings are left out; an outcome of `Predict` is a
  response, an error of the engine or the error of the context.
- Time is left out: any budget may expire at any moment, any tick may come.
- In `PredictServer` the monitor may record any verdict at any time and the policy may
  choose any engine it saw healthy; `HealthMonitor` and `Routing` say which they do.
- In `Routing` queue depths, verdicts and the temperature change freely; the
  temperature is below or at least the threshold, or not valid.
- The HTTP server, gRPC, Prometheus and the GPU are external: modelled by what the code
  can see of them. To the scheduler's modules other than `EngineProcess` an engine is
  external too.
- In `EngineProcess` at most `Calls` calls are in the process at a time; a call is made
  only while the process serves. In `LoadGen` a sustained run makes at most `MaxSent`
  requests. Latencies, percentiles and file formats are left out.
- In `BenchmarkSession` `CommandLines` and `BudgetFlags` are the ones tried; addresses of
  engines are left out. In `Dashboard` `MaxResults` bounds the predictions, and the other
  constants the calls that are under way at a time; streams that nobody stopped count
  against `Toggles`.
- `/health` and `/metrics` only read; they have no actions. `/status` and `/last-result`
  only read, and are modelled where somebody acts on the answer.

## Not modelled

- Image pre- and postprocessing in the engine: sequential floating-point computations on
  pixels, tensors and boxes, without a counterpart in TLC.
- Generated protocol code.
- The histogram of latencies and `Collect` of the metrics, which only read; the creation of
  a gRPC connection; an address that the scheduler cannot listen on.
- The form that sends one image, the selectors and the charts of the dashboard: layout,
  and one call at a time.
- The latency statistics and the files of the load generator; the columns of the scraper
  other than the depths; `run_all.sh`, which starts and stops processes.

## Plan

Done, in this order: the pools, their contract and the proofs; the handlers over them;
routing and the two monitors; the engine process; the load generator; the latency budget;
the dashboard; the session with scraper, script and scheduler process; the proofs about
the last four and about the handlers; then about routing, the counts of the load
generator and the system monitor, and the theorems about the pools brought over to the
handlers.

What is left for proof are the safety halves of more liveness properties: of `LoopsEnd`
and `SessionEnds`, what a loop or a session that is about to end cannot go back to; of
`LoneWriterSettles`, that the power mode stays when the other goroutine stores no more.
