-------------------------- MODULE BenchmarkSession --------------------------
(***************************************************************************)
(* One benchmark session, benchmarks/run_session.sh: a gate that waits for *)
(* the board to cool, the status scraper in the background, the load       *)
(* generator, and a wait for the scraper; with a scheduler that may stop   *)
(* and start again, with other engines too, at any moment.                 *)
(***************************************************************************)
EXTENDS LoadGen, StatScraper, LatencyBudget

CONSTANT BudgetFlags   \* the values of -latency-budget-ms of the load generator

ASSUME SessionAssumption == BudgetFlags \subseteq Int

VARIABLES
  script,    \* where run_session.sh is
  budgetMs,  \* the load generator's flag of that name
  granted    \* granted[w]: the budget its scheduler gives to the request of w

schedulerVars == <<engines>>
sessionVars == <<vars, schedulerVars, scraperVars, script, budgetMs, granted>>

ScriptStates == {"gate", "recording", "loading", "waiting", "complete", "failed"}
SessionTypeOK ==
  /\ LoadTypeOK /\ ScraperTypeOK
  /\ script \in ScriptStates
  /\ budgetMs \in BudgetFlags
  /\ granted \in [Workers -> Int]

\* Both programs are given the same -duration.
SessionInit ==
  /\ LoadInit /\ SchedulerInit /\ ScraperInit
  /\ timed = sustained
  /\ script = "gate"
  /\ budgetMs \in BudgetFlags
  /\ granted = [w \in Workers |-> 0]

-----------------------------------------------------------------------------
(* The script. A command that fails ends it (set -e), but not the scraper. *)

Proceed(from, to) == script = from /\ script' = to

\* Cool enough, or waited long enough; /status has to answer.
GateEnds ==
  /\ Proceed("gate", IF engines = {} THEN "failed" ELSE "recording")
  /\ UNCHANGED <<vars, schedulerVars, scraperVars, budgetMs, granted>>

\* /status is asked again for the temperature to record.
Records ==
  /\ \/ engines = {} /\ Proceed("recording", "failed") /\ UNCHANGED scraperVars
     \/ engines # {} /\ Proceed("recording", "loading") /\ StartScraper
  /\ UNCHANGED <<vars, schedulerVars, budgetMs, granted>>

\* The load generator has reported; or ended before its first request.
LoadEnds ==
  /\ \/ main = "reported" /\ Proceed("loading", "waiting")
     \/ main = "warming" /\ warmed = 0 /\ Proceed("loading", "failed")
  /\ UNCHANGED <<vars, schedulerVars, scraperVars, budgetMs, granted>>

Waited ==
  /\ scraper = "ended" /\ Proceed("waiting", "complete")
  /\ UNCHANGED <<vars, schedulerVars, scraperVars, budgetMs, granted>>

ScriptStep == GateEnds \/ Records \/ LoadEnds \/ Waited

\* Ctrl+C reaches all three: the script and the load generator die of it.
Interrupt ==
  /\ script \notin {"complete", "failed"}
  /\ script' = "failed"
  /\ \/ Signal
     \/ scraper \in {"off", "ended"} /\ UNCHANGED scraperVars
  /\ UNCHANGED <<vars, schedulerVars, budgetMs, granted>>

-----------------------------------------------------------------------------
(* The load generator and its scheduler                                    *)

\* A worker sends its request, whose budget the scheduler works out; it is
\* over when the handler returns. A request with no time, or with no
\* scheduler, fails.
Requests(w) ==
  /\ TakePath(w)
  /\ granted' = [granted EXCEPT ![w] = Budget(UrlParam(budgetMs))]

LoadWorks(w) ==
  \/ Requests(w)
  \/ /\ SendOne(w) /\ (fine'[w] => engines # {} /\ granted[w] > 0)
     /\ granted' = [granted EXCEPT ![w] = 0]
  \/ (Leave(w) \/ Collect(w)) /\ UNCHANGED granted

LoadStep ==
  /\ script = "loading"
  /\ \/ (MainStep \/ ProducerStep \/ CloseResults) /\ UNCHANGED granted
     \/ \E w \in Workers : LoadWorks(w)
  /\ UNCHANGED <<schedulerVars, scraperVars, script, budgetMs>>

TimePasses ==
  /\ \/ script = "loading" /\ Deadline /\ UNCHANGED scraperVars
     \/ Elapse /\ UNCHANGED vars
  /\ UNCHANGED <<schedulerVars, script, budgetMs, granted>>

ScraperRuns(Step) == Step /\ UNCHANGED <<vars, schedulerVars, script, budgetMs, granted>>

SchedulerChanges ==
  /\ SchedulerStops \/ \E c \in CommandLines : SchedulerStarts(c)
  /\ UNCHANGED <<vars, scraperVars, script, budgetMs, granted>>

SessionNext ==
  \/ ScriptStep \/ Interrupt \/ LoadStep \/ TimePasses
  \/ ScraperRuns(ScraperStep) \/ SchedulerChanges

\* All of it runs, time passes, and a poll ends with the client's timeout.
\* select picks at random among the cases that are ready: the end of ctx is
\* picked in the end although the ticker goes on, which is strong fairness.
\* The scheduler owes nothing.
SessionFairness ==
  /\ WF_sessionVars(ScriptStep) /\ WF_sessionVars(TimePasses)
  /\ WF_sessionVars(LoadStep)
  /\ WF_sessionVars(ScraperRuns(ScraperStep))
  /\ SF_sessionVars(ScraperRuns(Stopped))

SessionSpec == SessionInit /\ [][SessionNext]_sessionVars /\ SessionFairness

-----------------------------------------------------------------------------
(* Properties                                                              *)

AskedOrLimit == IF budgetMs <= MaxBudgetFlag THEN budgetMs ELSE MaxBudgetFlag

\* A request that asks for a budget is given it, up to the limit: "clamped to
\* -max-latency-budget-ms" (README.md:103). So it is as long as the nanoseconds
\* of both fit into 64 bits; a longer one wraps around (handlers.go:133-136,
\* loadgen/main.go:92-94).
BudgetHonoured ==
  Fits(MaxBudgetFlag * Scale) =>
    \A w \in Workers :
      worker[w] = "busy" /\ budgetMs > 0 /\ Fits(budgetMs * Scale)
        => granted[w] = AskedOrLimit * Scale

\* Whatever the scheduler does meanwhile, and although the deadline may pass
\* while the producer is blocked, the load generator reports unless the
\* session fails; a session with a duration ends and leaves no scraper
\* behind, also when it fails (without one, the scraper is for Ctrl+C to
\* stop); and a scraper that is told to stop does (run_session.sh:97-112).
SessionEnds ==
  /\ <>(script = "failed" \/ main = "reported")
  /\ sustained => <>[](script \in {"complete", "failed"} /\ scraper \in {"off", "ended"})
  /\ signaled ~> scraper = "ended"
=============================================================================
