------------------------------ MODULE MCProcess ------------------------------
(* Instance of Process for TLC: every task and object but those of /init is  *)
(* interchangeable.                                                          *)
EXTENDS Process, TLC

ProcessSymmetry == Permutations(Tasks \ {InitTask}) \cup Permutations(Objs \ {InitObj})
=============================================================================
