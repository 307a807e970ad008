------------------------------ MODULE MCResource ------------------------------
(* Instance of Resource for TLC: all processes but the first, and inodes of a *)
(* kind, are interchangeable.                                                 *)
EXTENDS Resource, TLC

ResourceSymmetry ==
  Permutations(Procs \ {First}) \cup Permutations(Inodes \ Files)
=============================================================================
