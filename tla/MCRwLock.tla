------------------------------ MODULE MCRwLock ------------------------------
(* Instance of RwLock for TLC: interchangeable threads. *)
EXTENDS RwLock, TLC

ThreadSymmetry == Permutations(Threads)
=============================================================================
