---------------------------- MODULE MCSysMonitor ----------------------------
(* SysMonitor for TLC.                                                     *)
EXTENDS SysMonitor
=============================================================================
