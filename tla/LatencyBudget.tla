--------------------------- MODULE LatencyBudget ---------------------------
(***************************************************************************)
(* From a latency budget in milliseconds to the deadline of a request:     *)
(* what the load generator puts into the URL (cmd/loadgen/main.go) and     *)
(* what parseLatencyBudget makes of it (internal/api/handlers.go). An int  *)
(* and a time.Duration, in nanoseconds, are both of 64 bits.               *)
(***************************************************************************)
EXTENDS Integers

CONSTANTS
  Half,           \* 2^63: integers are in -Half..Half-1
  Scale,          \* time.Millisecond, 10^6
  DefaultBudget,  \* defaultLatencyBudget, in nanoseconds
  MaxBudgetFlag,  \* -max-latency-budget-ms
  Absent          \* the URL has no latency_budget_ms

ASSUME BudgetAssumption ==
  /\ Half \in Nat \ {0}
  /\ Scale \in Nat \ {0}
  /\ DefaultBudget \in Nat
  /\ MaxBudgetFlag \in -Half..(Half - 1)
  /\ Absent \notin Int

Fits(n) == -Half <= n /\ n < Half

\* A product in two's complement.
Wrap(n) == ((n + Half) % (2 * Half)) - Half

\* time.Duration(*maxLatencyBudgetMs) * time.Millisecond
MaxBudget == Wrap(MaxBudgetFlag * Scale)

\* The parameter does not parse, or is not positive. (One that is no number
\* at all is as good as 0.)
BadParam(ms) == ms # Absent /\ (~Fits(ms) \/ ms <= 0)

\* A slip: milliseconds are compared with nanoseconds.
Budget_Units(ms) ==
  IF ms = Absent THEN DefaultBudget
  ELSE IF ms > MaxBudget THEN MaxBudget ELSE Wrap(ms * Scale)

\* The product is clamped after it has wrapped; the default is not clamped.
Budget(ms) ==
  IF ms = Absent THEN DefaultBudget
  ELSE LET budget == Wrap(ms * Scale)
       IN  IF budget > MaxBudget THEN MaxBudget ELSE budget

\* buildPredictURL: what is not positive is left to the scheduler.
UrlParam(budgetMs) == IF budgetMs > 0 THEN budgetMs ELSE Absent
=============================================================================
