-------------------------- MODULE MCPredictServer --------------------------
(* PredictServer with small sets for TLC.                                  *)
EXTENDS PredictServer

CONSTANTS e1, e2, r1, r2

OneEngine == {e1}
TwoEngines == {e1, e2}
TwoRequests == {r1, r2}
Nobody == {}
KnownAndUnknown == {e1, UnknownEngine}
AllOutcomes == {"response", "engineError", "contextError"}
\* None, one that is rejected, one that is clamped, one that wraps around.
SomeBudgets == {Absent, 0, 12, 13}
=============================================================================
