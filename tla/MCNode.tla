-------------------------------- MODULE MCNode --------------------------------
(* A small node: one test of the monitor, the heartbeat broadcast, two         *)
(* requests and one WebSocket client whose channel holds a single event.       *)
EXTENDS Node

CONSTANTS c1, ping, broadcast

SameId(r) == "id"
=============================================================================
