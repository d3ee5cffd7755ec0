-------------------------- MODULE MCEngineProcess --------------------------
(* EngineProcess for TLC.                                                  *)
EXTENDS EngineProcess
=============================================================================
