----------------------------- MODULE MCDesktop ------------------------------
(* Instances of Desktop for TLC.                                            *)
EXTENDS Desktop, TLC

CONSTANTS c1, c2, c3, c4, c5

Sym == Permutations(Calls)
=============================================================================
