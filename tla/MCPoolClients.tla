--------------------------- MODULE MCPoolClients ---------------------------
(* PoolClients with small sets for TLC.                                    *)
EXTENDS PoolClients, TLC

CONSTANTS e1, e2, r1, r2, r3, r4

OneEngine == {e1}
TwoEngines == {e1, e2}
ThreeRequests == {r1, r2, r3}
FourRequests == {r1, r2, r3, r4}
OneOutcome == {"response"}

\* A cfg has no negative numbers.
NegativeQueueSize == -1
=============================================================================
