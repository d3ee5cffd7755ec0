----------------------------- MODULE MCRouting -----------------------------
(* Routing for TLC. Engine 9 is a name in -cheap-tier that no engine has.  *)
EXTENDS Routing, TLC

TiersWithStranger == <<2, 9, 1>>
NoTiers == <<>>
HandlerSymmetry == Permutations(Handlers)
=============================================================================
