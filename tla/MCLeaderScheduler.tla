------------------------- MODULE MCLeaderScheduler -------------------------
(* Instances of LeaderScheduler for TLC: scheduler instances and monitors   *)
(* are model values given in the .cfg files.                                *)
EXTENDS LeaderScheduler
=============================================================================
