------------------------------ MODULE MCFailover ------------------------------
(***************************************************************************)
(* Small instances of Failover, with two adapters or three.                *)
(***************************************************************************)
EXTENDS Failover

CONSTANTS a1, a2, a3, f1

Two   == {a1, a2}
Three == {a1, a2, a3}

OneForcer == {f1}
NoForcer  == {}

M(l, s) == [latency |-> l, score |-> s]

\* Two adapters whose scores vary from check to check, up to the very ten percent at
\* which a switch is not yet worth while, and a third one between them.
VaryingMetrics == [a \in Adapters |-> CASE a = a3 -> {M(100, 105)}
                                        [] OTHER  -> {M(100, 100), M(100, 110)}]
\* The latency of the better adapter jumps, its score stays the better one: from the
\* third check on it can be a threshold violation.
JumpMetrics == [a \in Adapters |-> CASE a = a1 -> {M(100, 100)}
                                     [] OTHER  -> {M(100, 200), M(1000, 150)}]
=============================================================================
