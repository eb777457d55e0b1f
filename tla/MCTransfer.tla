----------------------------- MODULE MCTransfer -----------------------------
(* Instances of Transfer for TLC: chunks of 2 bytes, numbers of 2 bits.     *)
EXTENDS Transfer

\* Files of 0 to 3 chunks: the count fits the word.
FitSizes == 0..6

\* A file of 5 chunks: the count does not.
BigSizes == {9}
=============================================================================
