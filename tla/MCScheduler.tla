----------------------------- MODULE MCScheduler -----------------------------
(* Instances of Scheduler for TLC: the constants are given in the .cfg files. *)
EXTENDS Scheduler

=============================================================================
