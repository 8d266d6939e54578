---------------------------- MODULE MCUpdateWindows ----------------------------
(***************************************************************************)
(* A small instance of UpdateWindows that starts two hours before the best *)
(* hours end, with searches of three hours, and requests of a neighbour    *)
(* and of another node, in adjacent slots.                                 *)
(***************************************************************************)
EXTENDS UpdateWindows, TLC

CONSTANTS ether, wifi, p1, p2, h1, h2, q1

Request(p, s, d) == [peer |-> p, adapter |-> ether, start |-> s, duration |-> d, fallbacks |-> {wifi}]
MCRequests == {Request(p1, 4, 1), Request(p2, 5, 1)}
TwoHandlers == {h1, h2}
HandlerSymmetry == Permutations(TwoHandlers)
=============================================================================
