\* The claim of metrics.go that every outcome of /predict is counted, with a
\* budget that parses.
CONSTANTS
  e1 = e1
  e2 = e2
  r1 = r1
  r2 = r2
  NoRequest = NoRequest
  NoOutcome = NoOutcome
  NoEngine = NoEngine
  UnknownEngine = UnknownEngine
  Outcomes <- AllOutcomes
  Concurrency = 1
  Engines <- OneEngine
  Requests <- TwoRequests
  QueueSize = 1
  AskedFor <- Nobody
  Flaky <- OneEngine
  Half = 128
  Scale = 10
  DefaultBudget = 100
  MaxBudgetFlag = 8
  Absent = Absent
  BudgetParams = {12}
SPECIFICATION Spec
PROPERTIES
  EveryOutcomeCounted
