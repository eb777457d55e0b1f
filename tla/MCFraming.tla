------------------------------ MODULE MCFraming -------------------------------
(* Instances of Framing for TLC: a byte is 0 or 1, a size at most 15.       *)
EXTENDS Framing

CONSTANTS w1, w2

Text(n) == [i \in 1..n |-> i % Base]

Item(kind, code, cmd, name, n) ==
    [kind |-> kind, code |-> code, cmd |-> cmd, name |-> name, data |-> Text(n)]

\* No payload, one of two pieces, one whose size wraps when 2 is added, and
\* one too long.
SomeItems ==
    {Item("message", 1, 0, <<>>, n) : n \in {0, 3, 14, 16}}
    \cup {Item("frame", code, 0, <<>>, 3) : code \in {0, 1}}
    \cup {Item("file", 0, 0, <<1>>, n) : n \in {0, 3}}
=============================================================================
