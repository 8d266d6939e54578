--------------------------- MODULE MCUpdatePackages ---------------------------
(***************************************************************************)
(* A small instance of UpdatePackages: three keys and room for two; two    *)
(* packages share a key, one of them critical; three fail the verification *)
(* each in its own way.                                                    *)
(***************************************************************************)
EXTENDS UpdatePackages, TLC

CONSTANTS a1, n1, n2, c1, c2, i1, p1, p2, p3, p4, bad1, bad2, bad3

Signature(n, v) == [signer |-> n, valid |-> v]
Package(a, v, critical, intact, source, publisher, signatures) ==
  [adapter |-> a, version |-> v, critical |-> critical, intact |-> intact, source |-> source,
   publisher |-> publisher, signatures |-> signatures]

TwoSigned == <<Signature(n1, TRUE), Signature(n2, TRUE)>>

MCPkg ==
  (p1   :> Package(a1, 2, FALSE, TRUE, "peer", "none", TwoSigned)) @@
  (p2   :> Package(a1, 2, TRUE, TRUE, "official", "good", <<>>)) @@
  (p3   :> Package(a1, 3, FALSE, TRUE, "official", "none", TwoSigned)) @@
  (p4   :> Package(a1, 4, TRUE, TRUE, "peer", "none", TwoSigned)) @@
  (bad1 :> Package(a1, 2, TRUE, FALSE, "peer", "none", TwoSigned)) @@
  (bad2 :> Package(a1, 2, FALSE, TRUE, "official", "bad", TwoSigned)) @@
  (bad3 :> Package(a1, 2, TRUE, TRUE, "peer", "none", <<Signature(n1, TRUE), Signature(n2, FALSE)>>))
MCPackages  == {p1, p2, p3, p4, bad1, bad2, bad3}
MCRegistered == {<<a1, 2>>}
TwoCallers  == {c1, c2}
Symmetry    == Permutations(TwoCallers)
=============================================================================
