------------------------------ MODULE MCHeartbeat ------------------------------
(***************************************************************************)
(* A small instance of Heartbeat: two handlers, two nodes for a map of one *)
(* and a limiter that lets one heartbeat through in its window.            *)
(***************************************************************************)
EXTENDS Heartbeat
CONSTANTS n1, n2, h1, h2
=============================================================================
