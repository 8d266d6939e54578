----------------------------- MODULE MCDataUsage -----------------------------
(***************************************************************************)
(* Two senders and a hard limit of five megabytes, where the counter has   *)
(* room for four.                                                          *)
(***************************************************************************)
EXTENDS DataUsage

Limited == [enabled |-> TRUE, warn |-> 2, hard |-> 5, period |-> 1, start |-> 0]
MCPolicies == {Limited}
=============================================================================
