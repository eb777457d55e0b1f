------------------------------ MODULE MCClient ------------------------------
(* Instances of Client for TLC.                                             *)
EXTENDS Client, TLC

CONSTANTS c1, c2, c3, c4, p1

Sym == Permutations(Calls)
=============================================================================
