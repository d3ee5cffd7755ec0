------------------------- MODULE MCBenchmarkSession -------------------------
(* BenchmarkSession for TLC.                                               *)
EXTENDS BenchmarkSession

\* Engines 1 and 2 as in run_all.sh; 2 and 3, given in another order, with an
\* empty part and under the other policy; and two that are refused.
SomeCommandLines == {
  [engines |-> <<1, 2>>, policyName |-> "least-queue", cheapTier |-> <<>>],
  [engines |-> <<3, Blank, 2>>, policyName |-> "thermal-aware", cheapTier |-> <<3>>],
  [engines |-> <<1, NoPair>>, policyName |-> "least-queue", cheapTier |-> <<>>],
  [engines |-> <<1>>, policyName |-> "thermal-aware", cheapTier |-> <<>>] }
=============================================================================
