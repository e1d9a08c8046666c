---------------------------- MODULE MCScheduler ------------------------------
(* Instances of Scheduler for TLC.                                         *)
EXTENDS Scheduler, TLC
CONSTANTS a, b
TwoTargets == (a :> 1) @@ (b :> 2)
=============================================================================
