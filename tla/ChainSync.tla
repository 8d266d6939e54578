------------------------------ MODULE ChainSync ------------------------------
(***************************************************************************)
(* ChainSync (crates/myriadmesh-ledger/src/sync.rs) on top of the storage. *)
(* A process_pending_blocks call takes the whole queue and works through   *)
(* it by height, each block in several steps: the checks and the file      *)
(* write, the index update, the pruning, the statistics.  The process can  *)
(* stop between any two of them and is then started again.                 *)
(*                                                                         *)
(* ChainSync hands its storage and its consensus manager out by shared     *)
(* reference only, so nobody overwrites a block behind its back and the    *)
(* reputations it was created with (Known, Score) never change.            *)
(*                                                                         *)
(* The queue is a set of blocks numbered in order of arrival.              *)
(***************************************************************************)
EXTENDS LedgerStorage

CONSTANTS
  Chains,         \* the alternative chains peers offer: sequences of blocks
  MaxDiscovered,  \* bound on stats.blocks_discovered
  MaxRestarts     \* bound on the restarts of the process

ASSUME SyncAssumption ==
  /\ Chains \subseteq Seq(Blocks)
  /\ MaxDiscovered \in Nat
  /\ MaxRestarts \in Nat

SyncStates == {"Idle", "Discovering", "Downloading", "Validating", "Synced", "Error"}

VARIABLES
  state,          \* ChainSync.state
  stats,          \* ChainSync.stats
  pending_blocks, \* blocks waiting for process_pending_blocks
  sorted_blocks,  \* blocks the running call has not finished
  current,        \* the block being stored, or NoBlock
  processed,      \* counter of the running call
  calling,        \* is a process_pending_blocks call running?
  rollback,       \* what the last detect_and_resolve_forks call returned
  restarts        \* how often the process was restarted (bound)

syncVars == <<state, stats, pending_blocks, sorted_blocks, current, processed,
              calling, rollback, restarts>>
vars == <<storageVars, syncVars>>

InitialStats == [blocks_discovered |-> 0, blocks_downloaded |-> 0,
                 blocks_validated |-> 0, validation_errors |-> 0, state |-> "Idle"]

\* ChainSync::new
Init ==
  /\ StorageInit
  /\ state = "Idle"
  /\ stats = InitialStats
  /\ pending_blocks = {}
  /\ sorted_blocks = {}
  /\ current = NoBlock
  /\ processed = 0
  /\ calling = FALSE
  /\ rollback = 0
  /\ restarts = 0

-----------------------------------------------------------------------------
Arrival == [at : Nat, block : Blocks]

\* push_back each block of the sequence bs whose height is at least "from"
Discovered(bs, from) ==
  LET kept == {i \in DOMAIN bs : bs[i].height >= from}
      At(i) == stats.blocks_discovered + Cardinality({j \in kept : j <= i})
  IN
  /\ stats.blocks_discovered + Cardinality(kept) <= MaxDiscovered
  /\ pending_blocks' = pending_blocks \cup {[at |-> At(i), block |-> bs[i]] : i \in kept}
  /\ stats' = [stats EXCEPT !.blocks_discovered = @ + Cardinality(kept)]

\* add_pending_block
Add_pending_block(b) ==
  /\ ~calling
  /\ Discovered(<<b>>, 0)
  /\ UNCHANGED <<storageVars, state, sorted_blocks, current, processed, calling,
                 rollback, restarts>>

\* request_blocks with a valid range; an invalid one changes nothing.
Request_blocks ==
  /\ ~calling
  /\ state' = "Downloading"
  /\ UNCHANGED <<storageVars, stats, pending_blocks, sorted_blocks, current,
                 processed, calling, rollback, restarts>>

\* reset: the statistics are not reset.
Reset ==
  /\ ~calling
  /\ state' = "Idle"
  /\ pending_blocks' = {}
  /\ UNCHANGED <<storageVars, stats, sorted_blocks, current, processed, calling,
                 rollback, restarts>>

-----------------------------------------------------------------------------
\* process_pending_blocks: entered with a non-empty queue, which is drained.
Process_pending_blocks ==
  /\ ~calling
  /\ pending_blocks # {}
  /\ calling' = TRUE
  /\ state' = "Validating"
  /\ processed' = 0
  /\ sorted_blocks' = pending_blocks
  /\ pending_blocks' = {}
  /\ UNCHANGED <<storageVars, stats, current, rollback, restarts>>

\* sort_by_key is stable: of the lowest blocks the first to arrive comes next.
IsNext_Mut(e) ==
  /\ e \in sorted_blocks
  /\ \A d \in sorted_blocks \ {e} : e.block.height < d.block.height
IsNext(e) ==
  /\ e \in sorted_blocks
  /\ \A d \in sorted_blocks :
       \/ e.block.height < d.block.height
       \/ e.block.height = d.block.height /\ e.at <= d.at

\* The checks of validate_and_store_block, in its order: a block whose height
\* is held already passes before the link, the creator and the signatures are
\* looked at.
AlreadyHeld_Mut(b) == Validate_structure(b) /\ Has_block_with_hash(b.hash)
AlreadyHeld(b) == Validate_structure(b) /\ Has_block(b.height)

Linked(b) ==
  b.height > 0 =>
    /\ Loadable(b.height - 1)
    /\ Validate_chain_link(b, Load_block(b.height - 1))

Acceptable_Mut(b) ==
  /\ Validate_structure(b)
  /\ Linked(b)
  /\ Validate_consensus(b)
Acceptable(b) ==
  /\ Validate_structure(b)
  /\ Linked(b)
  /\ Can_create_blocks(b.creator)
  /\ Validate_consensus(b)

Accepted == stats' = [stats EXCEPT !.blocks_validated = @ + 1]
Rejected_Mut == UNCHANGED stats
Rejected == stats' = [stats EXCEPT !.validation_errors = @ + 1]

ConsiderBlock(e) ==
  LET b == e.block IN
  /\ calling
  /\ current = NoBlock
  /\ IsNext(e)
  /\ sorted_blocks' = sorted_blocks \ {e}
  /\ \/ /\ AlreadyHeld(b)
        /\ Accepted
        /\ processed' = processed + 1
        /\ UNCHANGED <<storageVars, current>>
     \/ /\ ~AlreadyHeld(b)
        /\ ~Acceptable(b)
        /\ Rejected
        /\ UNCHANGED <<storageVars, current, processed>>
     \/ /\ ~AlreadyHeld(b)
        /\ Acceptable(b)
        /\ WriteFails(b)
        /\ Rejected
        /\ UNCHANGED <<current, processed>>
     \/ /\ ~AlreadyHeld(b)
        /\ Acceptable(b)
        /\ WriteBlock(b)
        /\ current' = b
        /\ UNCHANGED <<stats, processed>>
  /\ UNCHANGED <<state, pending_blocks, calling, rollback, restarts>>

\* store_block goes on: index, pruning
ContinueStore == StoreStep /\ UNCHANGED syncVars

\* store_block returned Ok
FinishBlock ==
  /\ current # NoBlock
  /\ StorageIdle
  /\ stats' = [stats EXCEPT !.blocks_downloaded = @ + 1, !.blocks_validated = @ + 1]
  /\ processed' = processed + 1
  /\ current' = NoBlock
  /\ UNCHANGED <<storageVars, state, pending_blocks, sorted_blocks, calling,
                 rollback, restarts>>

FinishProcessing_Mut ==
  /\ calling
  /\ sorted_blocks = {}
  /\ current = NoBlock
  /\ state' = "Synced"
  /\ calling' = FALSE
  /\ processed' = 0
  /\ UNCHANGED <<storageVars, stats, pending_blocks, sorted_blocks, current,
                 rollback, restarts>>
FinishProcessing ==
  /\ calling
  /\ sorted_blocks = {}
  /\ current = NoBlock
  /\ state' = IF processed > 0 THEN "Synced" ELSE "Error"
  /\ calling' = FALSE
  /\ processed' = 0
  /\ UNCHANGED <<storageVars, stats, pending_blocks, sorted_blocks, current,
                 rollback, restarts>>

ProcessStep ==
  \/ \E e \in sorted_blocks : ConsiderBlock(e)
  \/ ContinueStore
  \/ FinishBlock
  \/ FinishProcessing

-----------------------------------------------------------------------------
\* detect_and_resolve_forks.  The first block of the alternative chain that
\* differs from the stored block of its height marks the fork; 0 stands for
\* "no fork", so a differing genesis block ends the search with no fork found.
Differs(b) == Loadable(b.height) /\ Load_block(b.height).hash # b.hash

ForkHeight(chain) ==
  IF \E i \in DOMAIN chain : Differs(chain[i])
    THEN chain[CHOOSE i \in DOMAIN chain :
                 Differs(chain[i]) /\ \A j \in 1 .. i - 1 : ~Differs(chain[j])].height
    ELSE 0

\* resolve_fork chooses the longer chain, on equal length the one with the
\* strictly higher reputation, and the local one in doubt.
AlternativeWins(chain, fork) ==
  LET local == {h \in fork .. chain_height : Loadable(h)}
      alt   == {i \in DOMAIN chain : chain[i].height >= fork}
  IN \/ Cardinality(alt) > Cardinality(local)
     \/ /\ Cardinality(alt) = Cardinality(local)
        /\ Chain_reputation(chain, alt) > Chain_reputation(files, local)

\* The winning alternative is queued; nothing is removed from the local chain.
Detect_and_resolve_forks(chain) ==
  LET fork == ForkHeight(chain) IN
  /\ ~calling
  /\ IF fork # 0 /\ AlternativeWins(chain, fork)
       THEN /\ rollback' = chain_height - fork + 1
            /\ Discovered(chain, fork)
       ELSE /\ rollback' = 0
            /\ UNCHANGED <<pending_blocks, stats>>
  /\ UNCHANGED <<storageVars, state, sorted_blocks, current, processed, calling,
                 restarts>>

\* The process stops and starts again, reopening the storage.
RestartSync ==
  /\ restarts < MaxRestarts
  /\ restarts' = restarts + 1
  /\ Restart
  /\ state' = "Idle"
  /\ stats' = InitialStats
  /\ pending_blocks' = {}
  /\ sorted_blocks' = {}
  /\ current' = NoBlock
  /\ processed' = 0
  /\ calling' = FALSE
  /\ rollback' = 0

Next ==
  \/ \E b \in Blocks : Add_pending_block(b)
  \/ Request_blocks
  \/ Reset
  \/ Process_pending_blocks
  \/ ProcessStep
  \/ \E chain \in Chains : Detect_and_resolve_forks(chain)
  \/ RestartSync

Spec == Init /\ [][Next]_vars

\* A running call goes on: its loop does not wait for anything.
FairSpec == Spec /\ WF_vars(ProcessStep)

-----------------------------------------------------------------------------
SyncTypeOK ==
  /\ StorageTypeOK
  /\ state \in SyncStates
  /\ stats \in [blocks_discovered : 0 .. MaxDiscovered, blocks_downloaded : Nat,
                blocks_validated : Nat, validation_errors : Nat, state : SyncStates]
  /\ pending_blocks \subseteq Arrival
  /\ sorted_blocks \subseteq Arrival
  /\ current \in Blocks \cup {NoBlock}
  /\ processed \in Nat
  /\ calling \in BOOLEAN
  /\ rollback \in 0 .. MaxHeight
  /\ restarts \in 0 .. MaxRestarts

\* Every block the index claims can be loaded and is the block the index
\* recorded, whatever writes failed, wherever the process stopped and whatever
\* files pruning failed to remove (validate_and_store_block, which never lets
\* store_block overwrite a held height, with store_block and prune).
IndexedReadable ==
  /\ \A h \in Readable : files[h].height = h
  /\ \A h \in DOMAIN index : Loadable(h) /\ Load_block(h).hash = index[h]

\* The hash lookup and the index describe the same set of blocks: no hash leads
\* to a pruned block or to another block of that height.
LookupExact ==
  /\ \A h \in DOMAIN index :
       index[h] \in DOMAIN hash_lookup /\ hash_lookup[index[h]] = h
  /\ \A x \in DOMAIN hash_lookup :
       hash_lookup[x] \in DOMAIN index /\ index[hash_lookup[x]] = x

\* The heights the retention policy promises to keep.
WindowFrom == IF PruningEnabled THEN KeepFrom(chain_height) ELSE 0
Window == {h \in DOMAIN index : h >= WindowFrom}

\* No gap: every height from the start of the retention window up to the chain
\* height is held, and the chain height is the highest height held.
WindowComplete ==
  /\ DOMAIN index = {} => chain_height = 0
  /\ DOMAIN index # {} =>
       /\ WindowFrom .. chain_height \subseteq DOMAIN index
       /\ \A h \in DOMAIN index : h <= chain_height

\* Each block of the window follows the one below it by height, hash and time,
\* although blocks arrive in any order, on any fork, and below the window too.
WindowLinked ==
  \A h \in Window : h > WindowFrom =>
    Validate_chain_link(Load_block(h), Load_block(h - 1))

\* Every block that is held passed the structure, reputation and signature
\* checks when it was accepted, also if it comes back from disk.
PassesChecks(b) ==
  Validate_structure(b) /\ Can_create_blocks(b.creator) /\ Validate_consensus(b)
HeldBlocksValid == \A h \in DOMAIN index : PassesChecks(Load_block(h))

\* What becomes of a fork that wins: nothing.  While the process runs, a held block is
\* dropped by pruning or stays as it is, although a reorganization was reported
\* (sync.rs, detect_and_resolve_forks and already_held; the comments say otherwise).
HeldNeverReplaced ==
  [][~RestartSync =>
       \A h \in DOMAIN index \cap DOMAIN index' : index'[h] = index[h]]_vars

\* Every discovered block is accounted for: it is pending, or in the running
\* call, or was validated, or was counted as an error; reset alone drops blocks.
Outstanding ==
  Cardinality(pending_blocks) + Cardinality(sorted_blocks)
    + (IF current = NoBlock THEN 0 ELSE 1)
    + stats.blocks_validated + stats.validation_errors
NoBlockLost ==
  [][~RestartSync /\ ~Reset =>
       Outstanding' - Outstanding = stats'.blocks_discovered - stats.blocks_discovered]_vars

\* A node reports itself synchronized only if it holds a chain.
SyncedHoldsChain == state = "Synced" => DOMAIN index # {}

\* Every process_pending_blocks call ends, with the whole queue dealt with:
\* invalid blocks and failing writes do not stall the loop.
ProcessingEnds == calling ~> ~calling

-----------------------------------------------------------------------------
(* The inductive invariant behind the properties above.                    *)

\* A running prune deletes below the window only.
PruneBelowWindow ==
  \A h \in to_delete : PruningEnabled /\ h < KeepFrom(chain_height)

\* The block being stored is on disk, is not indexed yet, and follows a held
\* block unless it is a genesis block.
StoreInProgress ==
  storing # NoBlock =>
    /\ to_delete = {}
    /\ ~Has_block(storing.height)
    /\ storing.height \in DOMAIN files /\ files[storing.height] = storing
    /\ storing.height > 0 =>
         /\ Has_block(storing.height - 1)
         /\ Validate_chain_link(storing, Load_block(storing.height - 1))

\* What a restart with rebuild_index finds on disk and the index does not hold:
\* the block being stored, and files below the window.
LeftoversBelowWindow ==
  RebuildOnStart =>
    \A h \in Readable \ DOMAIN index :
      \/ storing # NoBlock /\ h = storing.height
      \/ DOMAIN index # {} /\ h < WindowFrom

ReadableValid == \A h \in Readable : PassesChecks(files[h])

\* LedgerInv is inductive: what is on disk is described as precisely as what is
\* in memory, because a restart turns the one into the other.
LedgerInv ==
  /\ StorageTypeOK
  /\ IndexedReadable
  /\ LookupExact
  /\ WindowComplete
  /\ WindowLinked
  /\ PruneBelowWindow
  /\ StoreInProgress
  /\ LeftoversBelowWindow
  /\ ReadableValid

-----------------------------------------------------------------------------
\* The abstract ledger: its window is the part of the index that pruning keeps.
HeaderOf(x) == CHOOSE b \in Blocks : b.hash = x

Ledger == INSTANCE LedgerWindow WITH
  Hash <- Hashes,
  IsGenesis <- LAMBDA x : HeaderOf(x).height = 0,
  LinksTo <- LAMBDA x, y : Validate_chain_link(HeaderOf(x), HeaderOf(y)),
  Size <- IF PruningEnabled THEN KeepBlocks ELSE MaxHeight + 1,
  RecoversFromDisk <- RebuildOnStart,
  window <- Restrict(index, Window)

\* ChainSync implements the abstract ledger: the retention window only ever
\* moves forward by one linked block, also across restarts that stop a store
\* half-way (validate_and_store_block, store_block, prune, rebuild_index).
ImplementsLedger == Ledger!Spec
=============================================================================
