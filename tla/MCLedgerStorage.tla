--------------------------- MODULE MCLedgerStorage ---------------------------
(***************************************************************************)
(* A small instance of LedgerStorage: one block per height, and a second   *)
(* block for one height so that store_block overwrites.                    *)
(***************************************************************************)
EXTENDS LedgerStorage, Merkle

CONSTANT n1

MCNodes == {n1}
MCScore == [n \in MCNodes |-> 1]

Block(x, h) == [hash |-> x, height |-> h, prev |-> "none", time |-> h,
                creator |-> n1, sealed |-> TRUE, sigs |-> <<n1>>]

MCBlocks == {Block("a0", 0), Block("a1", 1), Block("a2", 2), Block("a3", 3),
             Block("b1", 1)}
-----------------------------------------------------------------------------
MerkleEntries == {<<"x">>, <<"y">>}
MerkleLists   == UNION {[1..n -> MerkleEntries] : n \in 0..7}
Root(entries) == Calculate_merkle_root(entries)

\* The root built from the entries upwards is that of the tree seen from the top,
\* for lists of all lengths up to one less than a full tree (merkle.rs,
\* calculate_merkle_root).
ASSUME RootIsTree ==
  \A l \in MerkleLists \ {<<>>} : Root(l) = Tree(Filled(l))

\* Two lists share a root only if both fill up to the same list, and never if they
\* are equally long: among lists of its length an inclusion that verifies is an
\* inclusion in the very list the root was made of (merkle.rs,
\* verify_entry_inclusion).
ASSUME RootFixesEntries ==
  \A x, y \in MerkleLists \ {<<>>} :
    /\ Root(x) = Root(y) <=> Filled(x) = Filled(y)
    /\ \A e \in MerkleEntries :
         Len(x) = Len(y) /\ Verify_entry_inclusion(x, e, Root(y)) =>
           \E i \in DOMAIN y : y[i] = e
=============================================================================
