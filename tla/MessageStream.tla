---------------------------- MODULE MessageStream ----------------------------
(* What the framing of src/pkg/util/util.go promises: what is read is what  *)
(* was written, item by item and in order, each item whole. The promise     *)
(* ends when the two sides fall out of step (a reader of another kind than  *)
(* the writer, or writers that interleave).                                 *)
EXTENDS Naturals, Sequences

CONSTANTS
    Items,      \* what can be written
    Seen(_)     \* what a reader gets for an item

VARIABLES
    sent,       \* items whose writing has begun
    got,        \* items read
    inStep      \* the sides are in step

vars == <<sent, got, inStep>>

Init == sent = <<>> /\ got = <<>> /\ inStep = TRUE

Send == /\ \E item \in Items : sent' = Append(sent, item)
        /\ inStep' /\ UNCHANGED got

Receive == /\ Len(got) < Len(sent)
           /\ got' = Append(got, Seen(sent[Len(got) + 1]))
           /\ inStep' /\ UNCHANGED sent

Next == inStep /\ (Send \/ Receive \/ ~inStep')

\* Once out of step, nothing is promised and there is no way back.
Spec == Init /\ [][Next \/ (~inStep /\ ~inStep')]_vars
=============================================================================
