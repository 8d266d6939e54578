-------------------------------- MODULE Merkle --------------------------------
(***************************************************************************)
(* The Merkle root of a block's entries (myriadmesh-ledger/src/merkle.rs). *)
(*                                                                         *)
(* No two byte strings share a hash, so that a string itself stands for    *)
(* its hash: an entry is a sequence, and the pair of two hashes is the     *)
(* string that is hashed to combine them.                                  *)
(***************************************************************************)
EXTENDS Integers, Sequences

\* One level up: neighbours are combined, and an odd last one with itself.
Combine(hashes) ==
  [i \in 1..((Len(hashes) + 1) \div 2) |->
     <<hashes[2*i - 1], IF 2*i <= Len(hashes) THEN hashes[2*i] ELSE hashes[2*i - 1]>>]

RECURSIVE BuildUp(_)
BuildUp(hashes) == IF Len(hashes) = 1 THEN hashes[1] ELSE BuildUp(Combine(hashes))

EmptyHash == <<>>
Calculate_merkle_root(entries) == IF entries = <<>> THEN EmptyHash ELSE BuildUp(entries)

Verify_entry_inclusion(entries, entry, root) ==
  /\ \E i \in DOMAIN entries : entries[i] = entry
  /\ Calculate_merkle_root(entries) = root

-----------------------------------------------------------------------------
(* Reference: the tree from the top down, over a list that is filled up to  *)
(* a power of two.  A left half is full before a right half begins, and an  *)
(* empty right half repeats the left one.                                   *)
Height(n) == CHOOSE h \in 0..n : 2^h >= n /\ \A k \in 0..(h - 1) : 2^k < n

RECURSIVE Fill(_, _)
Fill(entries, h) ==
  IF h = 0 THEN entries
  ELSE LET half == 2^(h - 1) IN
       IF Len(entries) <= half THEN Fill(entries, h - 1) \o Fill(entries, h - 1)
       ELSE SubSeq(entries, 1, half) \o Fill(SubSeq(entries, half + 1, Len(entries)), h - 1)
Filled(entries) == Fill(entries, Height(Len(entries)))

RECURSIVE Tree(_)
Tree(full) ==
  IF Len(full) = 1 THEN full[1]
  ELSE LET half == Len(full) \div 2 IN
       <<Tree(SubSeq(full, 1, half)), Tree(SubSeq(full, half + 1, Len(full)))>>
=============================================================================
