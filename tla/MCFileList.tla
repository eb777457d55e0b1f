----------------------------- MODULE MCFileList ------------------------------
(* Instances of FileList for TLC.                                           *)
EXTENDS FileList

CONSTANTS a, b, c
=============================================================================
