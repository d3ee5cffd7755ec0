---------------------------- MODULE StatScraper ----------------------------
(***************************************************************************)
(* The status scraper, scheduler/cmd/statscraper/main.go: a ticker, a      *)
(* signal, a duration, and polls of the scheduler's /status that become    *)
(* rows of a CSV file whose columns are those of the first poll.           *)
(*                                                                         *)
(* The queue depth of engine n is written n: only whose it is matters.     *)
(***************************************************************************)
EXTENDS SchedulerProcess

CONSTANT NoColumns   \* the header has not been written

VARIABLES
  scraper,    \* where the scraper is
  timed,      \* whether -duration was given
  elapsed,    \* the duration is over
  signaled,   \* ctx is done
  engineCols, \* the variable of that name
  row         \* the queue columns of the last row written

scraperVars == <<scraper, timed, elapsed, signaled, engineCols, row>>

\* (The columns are what RowsUnderTheirNames says of them.)
ScraperTypeOK ==
  /\ scraper \in {"off", "select", "asked", "ended"}
  /\ {timed, elapsed, signaled} \subseteq BOOLEAN

ScraperInit ==
  /\ scraper = "off" /\ elapsed = FALSE /\ signaled = FALSE
  /\ engineCols = NoColumns /\ row = <<>>

Place(p, q) == scraper = p /\ scraper' = q
Missing == 0

\* HandleStatus and the scraper sort by name.
ByName(names) == SetToSortSeq(names, <)

\* main: the file is there and the ticker runs.
StartScraper ==
  /\ Place("off", "select")
  /\ UNCHANGED <<timed, elapsed, signaled, engineCols, row>>

Elapse ==
  /\ scraper \notin {"off", "ended"} /\ timed /\ ~elapsed
  /\ elapsed' = TRUE
  /\ UNCHANGED <<scraper, timed, signaled, engineCols, row>>

Signal ==
  /\ scraper \notin {"off", "ended"} /\ ~signaled
  /\ signaled' = TRUE
  /\ UNCHANGED <<scraper, timed, elapsed, engineCols, row>>

\* case <-ctx.Done()
Stopped ==
  /\ signaled
  /\ Place("select", "ended")
  /\ UNCHANGED <<timed, elapsed, signaled, engineCols, row>>

\* case <-ticker.C, which select may take also when ctx is done.
Ticks ==
  /\ Place("select", IF timed /\ elapsed THEN "ended" ELSE "asked")
  /\ UNCHANGED <<timed, elapsed, signaled, engineCols, row>>

\* The client's timeout, no connection, or no JSON: on to the next tick.
PollFails ==
  /\ Place("asked", "select")
  /\ UNCHANGED <<timed, elapsed, signaled, engineCols, row>>

\* A slip: the depths in the order of the answer.
Depths_InOrder(cols, answer) == ByName(answer)

\* queueByName, read by the names of the columns.
Depths(cols, answer) ==
  [i \in DOMAIN cols |-> IF cols[i] \in answer THEN cols[i] ELSE Missing]

\* HandleStatus of the scheduler has read its pools. The first answer gives
\* the header, each gives a row.
WritesRow ==
  /\ engines # {}
  /\ Place("asked", "select")
  /\ engineCols' = IF engineCols = NoColumns THEN ByName(engines) ELSE engineCols
  /\ row' = Depths(engineCols', engines)
  /\ UNCHANGED <<timed, elapsed, signaled>>

ScraperStep == Stopped \/ Ticks \/ PollFails \/ WritesRow

-----------------------------------------------------------------------------
(* Properties                                                              *)

\* What stands under queue_n is the depth of engine n, or 0 when there is no
\* such engine, also when the scheduler has been started again with other
\* engines since the header was written (statscraper/main.go:58, 112-128).
RowsUnderTheirNames ==
  row # <<>> => /\ DOMAIN row = DOMAIN engineCols
                /\ \A i \in DOMAIN row : row[i] \in {engineCols[i], Missing}
=============================================================================
