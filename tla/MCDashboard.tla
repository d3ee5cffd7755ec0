---------------------------- MODULE MCDashboard ----------------------------
(***************************************************************************)
(* Dashboard for TLC. Feed and camera share no variable and no property    *)
(* relates them, so that a behaviour of the one half without the other     *)
(* shows all there is.                                                     *)
(***************************************************************************)
EXTENDS Dashboard

VARIABLE half   \* which of the two is looked at

MCInit == Init /\ half \in {"feed", "camera"}

MCNext ==
  /\ half' = half
  /\ (half = "feed" /\ FeedNext) \/ (half = "camera" /\ CameraNext)

MCSpec == MCInit /\ [][MCNext]_<<vars, half>> /\ Fairness
=============================================================================
