------------------------------ MODULE MCSocket ------------------------------
(* Instance of Socket for TLC: a server shares its processor with one of two *)
(* clients.                                                                  *)
EXTENDS Socket, TLC

CONSTANTS s1, s2, c1, c2

Placement == (s1 :> 0) @@ (s2 :> 1) @@ (c1 :> 0) @@ (c2 :> 1)
=============================================================================
