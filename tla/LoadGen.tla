------------------------------ MODULE LoadGen ------------------------------
(***************************************************************************)
(* The load generator, scheduler/cmd/loadgen/main.go: a producer of image  *)
(* paths, -concurrency workers that send one request each at a time, a     *)
(* goroutine that closes the results when the workers are gone, and main,  *)
(* which collects the results and reports.                                 *)
(***************************************************************************)
EXTENDS Integers, FiniteSets, FiniteSetsExt

CONSTANTS
  NumImages,  \* the images found; main ends at once when there are none
  Workers,    \* the goroutines; none if -concurrency is not positive
  Warmup,     \* -warmup
  Durations,  \* which modes to consider: {FALSE} one pass, {TRUE} -duration > 0
  MaxSent     \* bound: requests before the deadline, more than NumImages

ASSUME LoadGenAssumption ==
  /\ NumImages \in Nat \ {0}
  /\ IsFiniteSet(Workers)
  /\ Warmup \in Int
  /\ Durations \subseteq BOOLEAN
  /\ MaxSent \in Nat

VARIABLES
  sustained,  \* whether a duration was given
  main,       \* where main is
  warmed,     \* warm-up requests sent
  producer,   \* where the producer is
  next,       \* idx, the place of the image it offers next
  expired,    \* the deadline has passed
  worker,     \* worker[w]: where w is
  doing,      \* doing[w]: the image w has taken
  fine,       \* fine[w]: whether its result has no Err
  open,       \* resultsCh has not been closed
  results,    \* results[i]: how many results of image i have come, by outcome
  summary     \* what is reported

vars == <<sustained, main, warmed, producer, next, expired, worker, doing,
          fine, open, results, summary>>

Images == 0..(NumImages - 1)
Outcomes == BOOLEAN
NoSummary == [total |-> 0, succeeded |-> 0, failed |-> 0]

\* (The summary is what EveryImageCounted says of it.)
LoadTypeOK ==
  /\ sustained \in Durations
  /\ main \in {"warming", "collecting", "reported"}
  /\ warmed \in Nat
  /\ producer \in {"top", "offering", "closed"}
  /\ next \in Nat
  /\ expired \in BOOLEAN
  /\ worker \in [Workers -> {"receiving", "busy", "handing", "exited"}]
  /\ doing \in [Workers -> Images]
  /\ fine \in [Workers -> BOOLEAN]
  /\ open \in BOOLEAN
  /\ results \in [Images -> [Outcomes -> Nat]]

LoadInit ==
  /\ sustained \in Durations
  /\ main = "warming" /\ warmed = 0
  /\ producer = "top" /\ next = 0 /\ expired = FALSE
  /\ worker = [w \in Workers |-> "receiving"]
  /\ doing = [w \in Workers |-> 0]
  /\ fine = [w \in Workers |-> FALSE]
  /\ open = TRUE
  /\ results = [i \in Images |-> [o \in Outcomes |-> 0]]
  /\ summary = NoSummary

\* The goroutines exist between the warm-up and the end of main.
Up == main = "collecting"

-----------------------------------------------------------------------------
(* Slips that the properties must catch; no specification uses them.       *)

\* An early return leaves the channel of paths open.
CloseAtEnd_NoDefer == producer' = producer

\* The results are closed when the paths are.
AllGone_Paths == producer = "closed"

\* The last image is left out.
MoreToSend_OffByOne == IF sustained THEN ~expired ELSE next < NumImages - 1

-----------------------------------------------------------------------------
(* main, before                                                            *)

\* A whole sendOne, its result discarded.
WarmUp ==
  /\ main = "warming" /\ warmed < Warmup
  /\ warmed' = warmed + 1
  /\ UNCHANGED <<sustained, main, producer, next, expired, worker, doing, fine,
                 open, results, summary>>

Start ==
  /\ main = "warming" /\ warmed >= Warmup
  /\ main' = "collecting"
  /\ UNCHANGED <<sustained, warmed, producer, next, expired, worker, doing, fine,
                 open, results, summary>>

-----------------------------------------------------------------------------
(* The producer                                                            *)

Deadline ==
  /\ Up /\ sustained /\ ~expired
  /\ expired' = TRUE
  /\ UNCHANGED <<sustained, main, warmed, producer, next, worker, doing, fine,
                 open, results, summary>>

MoreToSend == IF sustained THEN ~expired ELSE next < NumImages

\* paths[idx%len(paths)]
Image(n) == n % NumImages

\* The test of the loop; from here on a passing deadline changes nothing.
Offer ==
  /\ Up /\ producer = "top" /\ MoreToSend
  /\ next < MaxSent
  /\ producer' = "offering"
  /\ UNCHANGED <<sustained, main, warmed, next, expired, worker, doing, fine,
                 open, results, summary>>

\* defer close(pathsCh)
CloseAtEnd == producer' = "closed"

ProducerEnds ==
  /\ Up /\ producer = "top" /\ ~MoreToSend
  /\ CloseAtEnd
  /\ UNCHANGED <<sustained, main, warmed, next, expired, worker, doing, fine,
                 open, results, summary>>

-----------------------------------------------------------------------------
(* The workers                                                             *)

\* pathsCh has no buffer: the send and the receive are one step.
TakePath(w) ==
  /\ Up /\ producer = "offering" /\ worker[w] = "receiving"
  /\ worker' = [worker EXCEPT ![w] = "busy"]
  /\ doing' = [doing EXCEPT ![w] = Image(next)]
  /\ next' = next + 1
  /\ producer' = "top"
  /\ UNCHANGED <<sustained, main, warmed, expired, fine, open, results, summary>>

\* sendOne: the file cannot be read, the scheduler refuses, fails, answers
\* nonsense or not within the client's timeout; or it answers.
SendOne(w) ==
  /\ Up /\ worker[w] = "busy"
  /\ worker' = [worker EXCEPT ![w] = "handing"]
  /\ \E o \in Outcomes : fine' = [fine EXCEPT ![w] = o]
  /\ UNCHANGED <<sustained, main, warmed, producer, next, expired, doing, open,
                 results, summary>>

\* range ends on the closed, empty channel; the wait group counts down.
Leave(w) ==
  /\ Up /\ producer = "closed" /\ worker[w] = "receiving"
  /\ worker' = [worker EXCEPT ![w] = "exited"]
  /\ UNCHANGED <<sustained, main, warmed, producer, next, expired, doing, fine,
                 open, results, summary>>

\* wg.Wait() has returned.
AllGone == \A w \in Workers : worker[w] = "exited"

CloseResults ==
  /\ Up /\ open /\ AllGone
  /\ open' = FALSE
  /\ UNCHANGED <<sustained, main, warmed, producer, next, expired, worker, doing,
                 fine, results, summary>>

-----------------------------------------------------------------------------
(* main, after                                                             *)

\* resultsCh has no buffer either. Every result is kept, whatever its outcome.
Collect(w) ==
  /\ Up /\ open /\ worker[w] = "handing"
  /\ results' = [results EXCEPT ![doing[w]][fine[w]] = @ + 1]
  /\ worker' = [worker EXCEPT ![w] = "receiving"]
  /\ UNCHANGED <<sustained, main, warmed, producer, next, expired, doing, fine,
                 open, summary>>

With(o) == MapThenSumSet(LAMBDA i : results[i][o], Images)

\* The range over resultsCh ends; the summary is made and the program exits.
Report ==
  /\ Up /\ ~open
  /\ main' = "reported"
  /\ summary' = [total |-> With(TRUE) + With(FALSE),
                 succeeded |-> With(TRUE), failed |-> With(FALSE)]
  /\ UNCHANGED <<sustained, warmed, producer, next, expired, worker, doing, fine,
                 open, results>>

-----------------------------------------------------------------------------
MainStep == WarmUp \/ Start \/ Report
ProducerStep == Offer \/ ProducerEnds
WorkerStep(w) == TakePath(w) \/ SendOne(w) \/ Leave(w) \/ Collect(w)

LoadNext ==
  \/ MainStep \/ ProducerStep \/ Deadline \/ CloseResults
  \/ \E w \in Workers : WorkerStep(w)

\* Goroutines run, a request ends with its client's timeout at the latest,
\* and time passes.
LoadFairness ==
  /\ WF_vars(MainStep) /\ WF_vars(ProducerStep) /\ WF_vars(CloseResults)
  /\ WF_vars(Deadline)
  /\ \A w \in Workers : WF_vars(WorkerStep(w))

LoadSpec == LoadInit /\ [][LoadNext]_vars /\ LoadFairness

-----------------------------------------------------------------------------
(* Properties                                                              *)

\* No worker sends on the closed channel of results, a panic that would lose
\* the whole benchmark (main.go:220, 241-242).
NoSendOnClosed ==
  \A w \in Workers : worker[w] \in {"busy", "handing"} => open

\* "sends every image in a directory" (docs/scheduler.md): what is reported
\* covers all that was sent, failures included;
\* one pass over the directory has one result of each image, and a sustained
\* run has taken the images in turn (main.go:224-269).
EveryImageCounted ==
  main = "reported" /\ Workers # {} =>
    /\ summary.total = next
    /\ \A i, j \in Images :
         LET n(k) == results[k][TRUE] + results[k][FALSE]
         IN  IF sustained THEN n(i) - n(j) \in -1..1 ELSE n(i) = 1
=============================================================================
