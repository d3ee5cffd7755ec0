\* Two images, two workers and three requests, which go round the images; a
\* scheduler that changes its engines. Budgets: one that is
\* clamped and one whose nanoseconds wrap around.
SPECIFICATION SessionSpec
CONSTANTS
  NumImages = 2
  Workers = {w1, w2}
  Warmup = 1
  Durations = {TRUE, FALSE}
  MaxSent = 3
  CommandLines <- SomeCommandLines
  NoColumns = NoColumns
  Half = 128
  Scale = 10
  DefaultBudget = 100
  MaxBudgetFlag = 8
  Absent = Absent
  BudgetFlags = {12, 13}
INVARIANTS NoSendOnClosed EveryImageCounted RowsUnderTheirNames BudgetHonoured
PROPERTY SessionEnds
CHECK_DEADLOCK FALSE
