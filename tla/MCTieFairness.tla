--------------------------- MODULE MCTieFairness ---------------------------
(* TieFairness for TLC, under the least-queue policy.                      *)
EXTENDS TieFairness

NoTiers == <<>>
=============================================================================
