----------------------------- MODULE MCScheduler -----------------------------
(* Instance of Scheduler for TLC: every task but /init is interchangeable. *)
EXTENDS Scheduler, TLC

TaskSymmetry == Permutations(Tasks \ {InitTask})
=============================================================================
