\* Two engines, the health of one of which changes, queues of one, and two
\* requests that may name that engine or one that nobody has. A request can
\* wait and expire in the queue while the worker is busy, and be rejected while
\* the other is in the queue.
CONSTANTS
  e1 = e1
  e2 = e2
  r1 = r1
  r2 = r2
  NoRequest = NoRequest
  NoOutcome = NoOutcome
  NoEngine = NoEngine
  UnknownEngine = UnknownEngine
  Outcomes <- AllOutcomes
  Concurrency = 1
  Engines <- TwoEngines
  Requests <- TwoRequests
  QueueSize = 1
  AskedFor <- KnownAndUnknown
  Flaky <- OneEngine
  Half = 128
  Scale = 10
  DefaultBudget = 100
  MaxBudgetFlag = 8
  Absent = Absent
  BudgetParams <- SomeBudgets
SPECIFICATION Spec
INVARIANTS
  ShownWasAnswered
  CountersAgree
PROPERTIES
  UsesPoolsCorrectly
  DeadEnginesExcluded
  HandlersReturn
  SlotsAreFreed
