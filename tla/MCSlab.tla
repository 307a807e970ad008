------------------------------- MODULE MCSlab -------------------------------
(* Instance of Slab for TLC: interchangeable slab addresses. *)
EXTENDS Slab, TLC

SlabSymmetry == Permutations(Slabs)
=============================================================================
