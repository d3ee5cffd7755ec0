----------------------- MODULE BenchmarkSessionProofs -----------------------
(***************************************************************************)
(* Theorems about BenchmarkSession, for any images, workers, budgets and   *)
(* command lines. A session runs its load generator as LoadGen says, so    *)
(* that what is proved of LoadGen holds in it; its budgets go through the  *)
(* arithmetic of LatencyBudget, whose theorems stand here as well.         *)
(***************************************************************************)
EXTENDS BenchmarkSession, LoadGenProofs

\* The parts of SessionNext that LoadGen does not know.
OtherSteps == ScriptStep \/ Interrupt \/ ScraperRuns(ScraperStep) \/ SchedulerChanges

LEMMA StepOfLoadGen == [SessionNext]_sessionVars => [LoadNext]_vars
<1> SUFFICES ASSUME [SessionNext]_sessionVars PROVE [LoadNext]_vars
  OBVIOUS
<1>1. CASE OtherSteps
  BY <1>1 DEF OtherSteps, ScriptStep, GateEnds, Records, LoadEnds, Waited, Interrupt,
              ScraperRuns, SchedulerChanges
<1>2. CASE TimePasses
  BY <1>2 DEF TimePasses, LoadNext
<1>3. CASE LoadStep
  <2>1. CASE MainStep \/ ProducerStep \/ CloseResults
    BY <2>1 DEF LoadNext
  <2>2. ASSUME NEW w \in Workers, LoadWorks(w) PROVE LoadNext
    BY <2>2 DEF LoadWorks, Requests, LoadNext, WorkerStep
  <2> QED
    BY <1>3, <2>1, <2>2 DEF LoadStep
<1>4. CASE UNCHANGED sessionVars
  BY <1>4 DEF sessionVars
<1> QED
  BY <1>1, <1>2, <1>3, <1>4 DEF SessionNext, OtherSteps

\* The load generator of a session behaves as LoadGen says, whatever happens
\* around it (run_session.sh:106-109).
LEMMA SessionRunsLoadGen == SessionSpec => LoadInit /\ [][LoadNext]_vars
<1>1. SessionInit => LoadInit
  BY DEF SessionInit
<1> QED
  BY <1>1, StepOfLoadGen, PTL DEF SessionSpec

\* No worker of a session sends its result on a closed channel.
THEOREM SessionNoPanic == SessionSpec => []NoSendOnClosed
<1>1. LInv => NoSendOnClosed
  BY DEF LInv, AllGone, NoSendOnClosed
<1> QED
  BY <1>1, LInvStart, LInvStep, SessionRunsLoadGen, PTL

\* A session that completes has counted every image, also when its scheduler
\* stopped on the way and the requests of these images failed.
THEOREM SessionCountsImages == SessionSpec => []EveryImageCounted
  BY CountingStart, CountingStep, ReportIsComplete, SessionRunsLoadGen, PTL

-----------------------------------------------------------------------------
(* The rows of the scraper                                                 *)

\* What stands under the name of an engine is its depth or 0, for any engines
\* that the scheduler may have had (statscraper/main.go:112-128).
THEOREM RowsStayUnderTheirNames == SessionSpec => []RowsUnderTheirNames
<1>1. SessionInit => RowsUnderTheirNames
  BY DEF SessionInit, ScraperInit, RowsUnderTheirNames
<1>2. RowsUnderTheirNames /\ [SessionNext]_sessionVars => RowsUnderTheirNames'
  <2> SUFFICES ASSUME RowsUnderTheirNames, [SessionNext]_sessionVars
               PROVE  RowsUnderTheirNames'
    OBVIOUS
  <2>1. CASE UNCHANGED <<engineCols, row>>
    BY <2>1 DEF RowsUnderTheirNames
  <2>2. CASE WritesRow
    BY <2>2 DEF WritesRow, Depths, RowsUnderTheirNames
  <2>3. UNCHANGED <<engineCols, row>> \/ WritesRow
    <3>1. CASE UNCHANGED scraperVars
      BY <3>1 DEF scraperVars
    <3>2. CASE StartScraper \/ Signal \/ Elapse
      BY <3>2 DEF StartScraper, Signal, Elapse
    <3>3. CASE ScraperStep
      BY <3>3 DEF ScraperStep, Stopped, Ticks, PollFails
    <3>4. UNCHANGED scraperVars \/ StartScraper \/ Signal \/ Elapse \/ ScraperStep
      BY DEF SessionNext, sessionVars, ScriptStep, GateEnds, Records, LoadEnds, Waited,
             Interrupt, LoadStep, TimePasses, ScraperRuns, SchedulerChanges
    <3> QED
      BY <3>1, <3>2, <3>3, <3>4
  <2> QED
    BY <2>1, <2>2, <2>3
<1> QED
  BY <1>1, <1>2, PTL DEF SessionSpec

-----------------------------------------------------------------------------
(* What becomes of a budget, for all budgets and all limits                *)

\* A product that fits is not changed by the width of the integers.
LEMMA WrapFits == ASSUME NEW n \in Int, Fits(n) PROVE Wrap(n) = n
<1>1. 0 <= n + Half /\ n + Half < 2 * Half
  BY BudgetAssumption DEF Fits
<1>2. ASSUME NEW a \in Int, NEW b \in Int, 0 <= a, a < b PROVE a % b = a
  BY <1>2
<1>3. (n + Half) % (2 * Half) = n + Half
  BY <1>1, <1>2, BudgetAssumption
<1> QED
  BY <1>3, BudgetAssumption DEF Wrap

\* Whatever product there is, the result is an integer of the width.
LEMMA WrapType == ASSUME NEW n \in Int PROVE Wrap(n) \in Int /\ Fits(Wrap(n))
<1>1. ASSUME NEW a \in Int, NEW b \in Int, 0 < b PROVE a % b \in 0..(b - 1)
  BY <1>1
<1>2. (n + Half) % (2 * Half) \in 0..(2 * Half - 1)
  BY <1>1, BudgetAssumption
<1> QED
  BY <1>2, BudgetAssumption DEF Wrap, Fits

\* A budget that fits, under a limit that fits, is honoured or clamped to the
\* limit, and is then as long as it should be (handlers.go:129-137).
THEOREM BudgetAsAsked ==
  ASSUME NEW ms \in Int, ~BadParam(ms), Fits(ms * Scale), Fits(MaxBudgetFlag * Scale)
  PROVE  /\ ms <= MaxBudgetFlag => Budget(ms) = ms * Scale
         /\ ms > MaxBudgetFlag => Budget(ms) = MaxBudgetFlag * Scale
<1>1. ms \in Int /\ Scale \in Int /\ MaxBudgetFlag \in Int /\ Scale > 0 /\ ms # Absent
  BY BudgetAssumption
<1>2. Wrap(ms * Scale) = ms * Scale
  BY <1>1, WrapFits
<1>3. MaxBudget = MaxBudgetFlag * Scale
  BY <1>1, WrapFits DEF MaxBudget
<1>4. ms <= MaxBudgetFlag <=> ms * Scale <= MaxBudgetFlag * Scale
  BY <1>1
<1> QED
  BY <1>1, <1>2, <1>3, <1>4 DEF Budget

\* However large the number in the URL, no request waits longer than the
\* limit, unless it leaves the budget to the scheduler (handlers.go:134-136).
THEOREM NeverAboveTheLimit ==
  ASSUME NEW ms \in Int PROVE Budget(ms) <= MaxBudget
<1>1. ms * Scale \in Int /\ MaxBudgetFlag * Scale \in Int /\ ms # Absent
  BY BudgetAssumption
<1>2. Wrap(ms * Scale) \in Int /\ MaxBudget \in Int
  BY <1>1, WrapType DEF MaxBudget
<1> QED
  BY <1>1, <1>2 DEF Budget

-----------------------------------------------------------------------------
(* The budgets of a session                                                *)

\* The request of a busy worker has the budget that its URL asks for.
Granted ==
  /\ budgetMs \in BudgetFlags
  /\ worker \in [Workers -> {"receiving", "busy", "handing", "exited"}]
  /\ granted \in [Workers -> Int]
  /\ \A w \in Workers :
       worker[w] = "busy" => granted[w] = Budget(UrlParam(budgetMs))

LEMMA BudgetType ==
  ASSUME NEW ms \in Int \cup {Absent} PROVE Budget(ms) \in Int
<1>1. DefaultBudget \in Int /\ Scale \in Int /\ MaxBudgetFlag \in Int
  BY BudgetAssumption
<1>2. MaxBudget \in Int
  BY <1>1, WrapType DEF MaxBudget
<1>3. CASE ms = Absent
  BY <1>1, <1>3 DEF Budget
<1>4. CASE ms # Absent
  <2>1. Wrap(ms * Scale) \in Int
    BY <1>1, <1>4, WrapType
  <2> QED
    BY <1>2, <1>4, <2>1 DEF Budget
<1> QED
  BY <1>3, <1>4

LEMMA GrantedInit == SessionInit => Granted
  BY DEF SessionInit, LoadInit, Granted

LEMMA GrantedStep == Granted /\ [SessionNext]_sessionVars => Granted'
<1> SUFFICES ASSUME Granted, [SessionNext]_sessionVars PROVE Granted'
  OBVIOUS
<1>1. budgetMs' = budgetMs
  BY DEF SessionNext, sessionVars, ScriptStep, GateEnds, Records, LoadEnds, Waited,
         Interrupt, LoadStep, TimePasses, ScraperRuns, SchedulerChanges
<1>2. CASE UNCHANGED <<worker, granted>>
  BY <1>1, <1>2 DEF Granted
<1>3. CASE LoadStep
  <2>1. CASE (MainStep \/ ProducerStep \/ CloseResults) /\ UNCHANGED granted
    <3>1. UNCHANGED <<worker, granted>>
      BY <2>1 DEF MainStep, WarmUp, Start, Report, ProducerStep, Offer, ProducerEnds,
                  CloseResults
    <3> QED
      BY <1>2, <3>1
  <2>2. ASSUME NEW w \in Workers, LoadWorks(w) PROVE Granted'
    <3>1. CASE Requests(w)
      <4>1. budgetMs \in Int /\ UrlParam(budgetMs) \in Int \cup {Absent}
        BY SessionAssumption DEF Granted, UrlParam
      <4>2. Budget(UrlParam(budgetMs)) \in Int
        BY <4>1, BudgetType
      <4> QED
        BY <1>1, <3>1, <4>2 DEF Requests, TakePath, Granted
    <3>2. CASE SendOne(w) /\ granted' = [granted EXCEPT ![w] = 0]
      BY <1>1, <3>2 DEF SendOne, Granted
    <3>3. CASE (Leave(w) \/ Collect(w)) /\ UNCHANGED granted
      BY <1>1, <3>3 DEF Leave, Collect, Granted
    <3> QED
      BY <2>2, <3>1, <3>2, <3>3 DEF LoadWorks
  <2> QED
    BY <1>3, <2>1, <2>2 DEF LoadStep
<1>4. LoadStep \/ UNCHANGED <<worker, granted>>
  BY DEF SessionNext, sessionVars, ScriptStep, GateEnds, Records, LoadEnds, Waited, vars,
         Interrupt, TimePasses, Deadline, ScraperRuns, SchedulerChanges
<1> QED
  BY <1>2, <1>3, <1>4

\* The budget that the command line of the load generator asks for is the one
\* its requests are given, or the limit, for all budgets and limits that fit.
THEOREM BudgetsAreHonoured == SessionSpec => []BudgetHonoured
<1>1. Granted => BudgetHonoured
  <2> SUFFICES ASSUME Granted, NEW w \in Workers, worker[w] = "busy", budgetMs > 0,
                      Fits(budgetMs * Scale), Fits(MaxBudgetFlag * Scale)
               PROVE  granted[w] = AskedOrLimit * Scale
    BY DEF BudgetHonoured
  <2>1. /\ budgetMs \in Int /\ budgetMs # Absent
        /\ MaxBudgetFlag \in Int /\ Half \in Nat /\ Scale \in Nat \ {0}
    BY SessionAssumption, BudgetAssumption DEF Granted
  <2>2. budgetMs <= budgetMs * Scale
    <3>1. \A k \in Nat, n \in Nat \ {0} : k <= k * n
      OBVIOUS
    <3> QED
      BY <2>1, <3>1
  <2>3. Fits(budgetMs)
    BY <2>1, <2>2 DEF Fits
  <2>4. ~BadParam(budgetMs)
    BY <2>1, <2>3 DEF BadParam
  <2>5. granted[w] = Budget(budgetMs)
    BY DEF Granted, UrlParam
  <2> QED
    BY <2>1, <2>4, <2>5, BudgetAsAsked DEF AskedOrLimit
<1> QED
  BY <1>1, GrantedInit, GrantedStep, PTL DEF SessionSpec

-----------------------------------------------------------------------------
(* Types                                                                   *)

LEMMA ScraperTypesStep ==
  ASSUME SessionTypeOK, [SessionNext]_sessionVars
  PROVE  ScraperTypeOK'
<1> USE DEF SessionTypeOK, ScraperTypeOK
<1>1. CASE UNCHANGED scraperVars
  BY <1>1 DEF scraperVars
<1>2. CASE Records \/ Interrupt
  BY <1>1, <1>2 DEF Records, Interrupt, StartScraper, Signal, Place
<1>3. CASE TimePasses
  BY <1>1, <1>3 DEF TimePasses, Elapse
<1>4. CASE ScraperRuns(ScraperStep)
  BY <1>4 DEF ScraperRuns, ScraperStep, Stopped, Ticks, PollFails, WritesRow, Place
<1>5. CASE GateEnds \/ LoadEnds \/ Waited \/ LoadStep \/ SchedulerChanges
           \/ UNCHANGED sessionVars
  BY <1>1, <1>5 DEF GateEnds, LoadEnds, Waited, LoadStep, SchedulerChanges, sessionVars
<1> QED
  BY <1>2, <1>3, <1>4, <1>5 DEF SessionNext, ScriptStep

\* The types of a session, the budgets that are granted included, for any
\* images, workers, budgets and command lines.
THEOREM SessionTypes == SessionSpec => []SessionTypeOK
<1>1. SessionInit => SessionTypeOK
  <2> SUFFICES ASSUME SessionInit PROVE SessionTypeOK
    OBVIOUS
  <2>1. LoadTypeOK
    BY LoadTypesStart DEF SessionInit
  <2>2. timed \in BOOLEAN
    BY <2>1, LoadGenAssumption DEF LoadTypeOK, SessionInit
  <2>3. elapsed \in BOOLEAN /\ signaled \in BOOLEAN
    BY DEF SessionInit, ScraperInit
  <2>4. ScraperTypeOK
    BY <2>2, <2>3 DEF SessionInit, ScraperInit, ScraperTypeOK
  <2> QED
    BY <2>1, <2>4 DEF SessionInit, SessionTypeOK, ScriptStates
<1>2. SessionTypeOK /\ Granted /\ Granted' /\ [SessionNext]_sessionVars => SessionTypeOK'
  <2> SUFFICES ASSUME SessionTypeOK, Granted', [SessionNext]_sessionVars
               PROVE  SessionTypeOK'
    OBVIOUS
  <2>1. LoadTypeOK'
    BY StepOfLoadGen, LoadTypesStep DEF SessionTypeOK
  <2>2. ScraperTypeOK'
    BY ScraperTypesStep
  <2>3. script' \in ScriptStates
    BY DEF SessionTypeOK, ScriptStates, SessionNext, ScriptStep, GateEnds, Records,
           LoadEnds, Waited, Proceed, Interrupt, LoadStep, TimePasses, ScraperRuns,
           SchedulerChanges, sessionVars
  <2> QED
    BY <2>1, <2>2, <2>3 DEF SessionTypeOK, Granted
<1> QED
  BY <1>1, <1>2, GrantedInit, GrantedStep, PTL DEF SessionSpec
=============================================================================
