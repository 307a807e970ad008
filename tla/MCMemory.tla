------------------------------ MODULE MCMemory ------------------------------
(* Instance of Memory for TLC: a program has one read-only segment. Mappings: *)
(* read-only memory that leaves a gap and lies in two page tables, and memory *)
(* that fills gaps.                                                           *)
EXTENDS Memory

Text == <<[address |-> 0, pages |-> 1, write |-> FALSE]>>

Mappings ==
  {[pages |-> 2, write |-> FALSE, at |-> 2], [pages |-> 1, write |-> TRUE, at |-> None]}
=============================================================================
