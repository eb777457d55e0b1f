---------------------------- MODULE FileDelivery ----------------------------
(* What a file transfer promises to the receiver: the file under its final  *)
(* name changes at most once, in one step, from what was there before to    *)
(* the whole file sent, and Decrypt reports success exactly when it did.    *)

VARIABLES
    dest,       \* the file under its final name: "old" content or "whole" file
    verdict     \* what Decrypt returned: "none" yet, "ok" or "error"

dVars == <<dest, verdict>>

DInit == dest = "old" /\ verdict = "none"

Deliver == verdict = "none" /\ dest' = "whole" /\ verdict' = "ok"
Refuse  == verdict = "none" /\ verdict' = "error" /\ UNCHANGED dest

DSpec == DInit /\ [][Deliver \/ Refuse]_dVars
=============================================================================
