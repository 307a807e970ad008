------------------------------ MODULE MCTmpfs ------------------------------
(* Instance of Tmpfs for TLC: blocks of two entries, and of two bytes. *)
EXTENDS Tmpfs, TLC

TwoEach == 2
=============================================================================
