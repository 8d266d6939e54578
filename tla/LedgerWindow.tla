----------------------------- MODULE LedgerWindow -----------------------------
(***************************************************************************)
(* What the ledger promises: a window of linked blocks, without a gap,     *)
(* that moves forward one block at a time and keeps at most Size blocks.   *)
(* A restart finds the window again, with the block that was being added   *)
(* or without it, or it finds an empty ledger.                             *)
(***************************************************************************)
EXTENDS Naturals

CONSTANTS
  Hash,             \* block hashes
  IsGenesis(_),     \* may this block start a chain?
  LinksTo(_, _),    \* does the first block follow the second?
  Size,             \* the number of blocks kept
  RecoversFromDisk  \* does a restart find the window again?

VARIABLE window     \* height -> hash

Heights == DOMAIN window

Init == window = <<>>

Start(x) ==
  /\ window = <<>>
  /\ IsGenesis(x)
  /\ window' = [h \in {0} |-> x]

Extend(x) ==
  \E top \in Heights :
    /\ \A h \in Heights : h <= top
    /\ LinksTo(x, window[top])
    /\ window' = [h \in {k \in Heights \cup {top + 1} : k + Size > top + 1} |->
                    IF h = top + 1 THEN x ELSE window[h]]

Lose == ~RecoversFromDisk /\ window' = <<>>

Next == (\E x \in Hash : Start(x) \/ Extend(x)) \/ Lose

Spec == Init /\ [][Next]_window
=============================================================================
