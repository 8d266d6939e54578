---------------------------- MODULE LedgerBlocks ----------------------------
(***************************************************************************)
(* Blocks of the ledger and the checks a block passes before it is kept    *)
(* (crates/myriadmesh-ledger: block.rs, consensus.rs).                     *)
(*                                                                         *)
(* A block is a record.  Its "hash" stands for the Blake2b hash of its     *)
(* header, "prev" for header.previous_hash, "sealed" tells whether version *)
(* and Merkle root check out, "sigs" is the list of validators whose       *)
(* signatures are attached: a list, because add_validator_signature never  *)
(* looks for a signature of the same node.                                 *)
(***************************************************************************)
EXTENDS Naturals, Sequences, FiniteSets, FiniteSetsExt

CONSTANTS
  Nodes,        \* node identifiers
  Blocks,       \* the blocks that can reach this node
  MaxHeight,    \* the largest height (u64)
  Known,        \* nodes with an entry in ConsensusManager.reputations
  Score,        \* node -> NodeReputation.score(), in some unit
  MinReputation \* ConsensusManager.min_reputation, in that unit

Heights == 0 .. MaxHeight
Hashes  == {b.hash : b \in Blocks}

HeaderFields == {"height", "prev", "time", "creator"}

ASSUME BlocksAssumption ==
  /\ MaxHeight \in Nat
  /\ IsFiniteSet(Nodes)
  /\ Known \subseteq Nodes
  /\ Score \in [Known -> Nat]
  /\ MinReputation \in Nat
  /\ \A b \in Blocks :
       /\ b.height \in Heights
       /\ b.time \in Nat
       /\ b.creator \in Nodes
       /\ b.sealed \in BOOLEAN
       /\ b.sigs \in Seq(Nodes)

\* The hash covers the header and nothing else: two blocks with one hash can
\* differ in their validator signatures only.
ASSUME HashAssumption ==
  \A b, c \in Blocks : b.hash = c.hash =>
       \A f \in HeaderFields : b[f] = c[f]

-----------------------------------------------------------------------------
\* Block::validate_structure
Validate_structure(b) == b.sealed

\* Block::validate_chain_link
Validate_chain_link(b, previous) ==
  /\ b.height = previous.height + 1
  /\ b.prev = previous.hash
  /\ b.time > previous.time

\* (total_known_nodes * 2).div_ceil(3)
RequiredSignatures(n) == (2 * n + 2) \div 3

\* Block::has_consensus counts attached signatures, not distinct signers.
Has_consensus(b, n) == Len(b.sigs) >= RequiredSignatures(n)

\* ConsensusManager::can_create_blocks / validate_block_creator
Can_create_blocks(n) == n \in Known /\ Score[n] >= MinReputation

\* ConsensusManager::validate_consensus
Validate_consensus(b) ==
  \/ Known = {}
  \/ Has_consensus(b, Cardinality(Known))

\* ConsensusManager::calculate_chain_reputation of the blocks b[i], i \in I
Chain_reputation(b, I) ==
  MapThenSumSet(LAMBDA i : IF b[i].creator \in Known THEN Score[b[i].creator] ELSE 0, I)
=============================================================================
