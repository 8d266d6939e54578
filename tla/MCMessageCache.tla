---------------------------- MODULE MCMessageCache ----------------------------
(***************************************************************************)
(* A small instance of MessageCache: two devices, the first of which gets  *)
(* one message more than its limit, and a total that is less than what the *)
(* limits of the devices add up to, so that either limit is met first.     *)
(* Two clients use the same id, for messages of different devices.         *)
(***************************************************************************)
EXTENDS MessageCache, TLC

CONSTANTS c1, c2, d1, d2

TwoCallers == {c1, c2}
CallerSymmetry == Permutations(TwoCallers)

Message(i, d, r, e) ==
  [id |-> i, device |-> d, rank |-> r, expires |-> e, delivered |-> FALSE]

MCMessages == {Message("m1", d1, 1, 1), Message("m2", d1, 2, 2), Message("m3", d1, 2, 2),
               Message("m2", d2, 2, 2)}
=============================================================================
