--------------------------- MODULE MCGreenThreads ---------------------------
(* Instance of GreenThreads for TLC: the descriptors 3 and 6 are in one slot *)
(* of a table of three.                                                      *)
EXTENDS GreenThreads, TLC

Some == {{"in"}, {"out"}, {"in", "out"}}
=============================================================================
