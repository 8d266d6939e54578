--------------------------- MODULE LedgerStorage ---------------------------
(***************************************************************************)
(* LedgerStorage (crates/myriadmesh-ledger/src/storage.rs): one file per   *)
(* height on disk, and in memory the index, the hash lookup and the chain  *)
(* height.  store_block writes the file first, updates memory next and     *)
(* then deletes what pruning selects, one block after the other; the       *)
(* process can stop between any two of these steps.  Memory is lost on a   *)
(* restart, files are not.                                                 *)
(***************************************************************************)
EXTENDS LedgerBlocks, Functions

CONSTANTS
  PruningEnabled,  \* StorageConfig.pruning_enabled
  KeepBlocks,      \* StorageConfig.keep_blocks
  RebuildOnStart,  \* whether the owner calls rebuild_index after new
  Torn,            \* content of a file whose write did not finish
  NoBlock          \* no store_block call is under way

ASSUME StorageAssumption ==
  /\ PruningEnabled \in BOOLEAN
  /\ KeepBlocks \in Nat \ {0}
  /\ RebuildOnStart \in BOOLEAN
  /\ Torn \notin Blocks
  /\ NoBlock \notin Blocks

VARIABLES
  files,         \* height -> content of blocks/block_<height>.bin
  index,         \* height -> hash recorded in the block's metadata
  hash_lookup,   \* hash -> height
  chain_height,
  storing,       \* the block store_block has written but not yet indexed
  to_delete      \* heights_to_delete that prune has not reached yet

memory == <<index, hash_lookup, chain_height, storing, to_delete>>
storageVars == <<files, memory>>

Put(f, k, v) == [x \in DOMAIN f \cup {k} |-> IF x = k THEN v ELSE f[x]]
Without(f, k) == Restrict(f, DOMAIN f \ {k})

Readable == {h \in DOMAIN files : files[h] # Torn}

\* has_block, has_block_with_hash
Has_block(h) == h \in DOMAIN index
Has_block_with_hash(x) == x \in DOMAIN hash_lookup

\* load_block(h) succeeds, and what it returns
Loadable(h) == Has_block(h) /\ h \in Readable
Load_block(h) == files[h]

StorageIdle == storing = NoBlock /\ to_delete = {}

-----------------------------------------------------------------------------
\* new creates directories and starts with empty maps: it reads no block.
StorageInit ==
  /\ files = <<>>
  /\ index = <<>>
  /\ hash_lookup = <<>>
  /\ chain_height = 0
  /\ storing = NoBlock
  /\ to_delete = {}

\* store_block: fs::write puts the whole block in its file
WriteBlock(b) ==
  /\ StorageIdle
  /\ files' = Put(files, b.height, b)
  /\ storing' = b
  /\ UNCHANGED <<index, hash_lookup, chain_height, to_delete>>

\* store_block: fs::write fails and the call returns its error.  The file was
\* not opened (nothing changes) or it was truncated and partly written.
WriteFails(b) ==
  /\ StorageIdle
  /\ files' \in {files, Put(files, b.height, Torn)}
  /\ UNCHANGED memory

\* chain_height.saturating_sub(keep_blocks - 1)
KeepFrom_Mut(top)  == IF top >= KeepBlocks THEN top - KeepBlocks + 2 ELSE 0
KeepFrom(top) == IF top >= KeepBlocks THEN top - KeepBlocks + 1 ELSE 0

\* The test before prune, prune's own test and its filter
HeightsToDelete(heights, top) ==
  IF PruningEnabled /\ Cardinality(heights) > KeepBlocks
    THEN {h \in heights : h < KeepFrom(top)}
    ELSE {}

\* store_block: the index, the lookup and the chain height are updated, and
\* prune collects what it is going to delete.
IndexBlock_Mut2 ==  \* the chain height follows the last block stored
  LET h == storing.height IN
  /\ storing # NoBlock
  /\ index' = Put(index, h, storing.hash)
  /\ hash_lookup' = Put(hash_lookup, storing.hash, h)
  /\ chain_height' = h
  /\ to_delete' = HeightsToDelete(DOMAIN index', chain_height')
  /\ storing' = NoBlock
  /\ UNCHANGED files
IndexBlock ==
  LET h == storing.height IN
  /\ storing # NoBlock
  /\ index' = Put(index, h, storing.hash)
  /\ hash_lookup' = Put(hash_lookup, storing.hash, h)
  /\ chain_height' = IF h > chain_height THEN h ELSE chain_height
  /\ to_delete' = HeightsToDelete(DOMAIN index', chain_height')
  /\ storing' = NoBlock
  /\ UNCHANGED files

\* prune: one round of the deletion loop.  An error of remove_file is dropped.
PruneBlock_Mut(h) ==   \* the index entry survives its file
  /\ h \in to_delete
  /\ UNCHANGED index
  /\ files' \in {files, Without(files, h)}
  /\ hash_lookup' = hash_lookup
  /\ to_delete' = to_delete \ {h}
  /\ UNCHANGED <<chain_height, storing>>
PruneBlock_Mut3(h) ==  \* the height is visited again
  /\ h \in to_delete
  /\ index' = Without(index, h)
  /\ files' \in {files, Without(files, h)}
  /\ hash_lookup' = Without(hash_lookup, index[h])
  /\ UNCHANGED <<to_delete, chain_height, storing>>
PruneBlock(h) ==
  /\ h \in to_delete
  /\ index' = Without(index, h)
  /\ files' \in {files, Without(files, h)}
  /\ hash_lookup' = Without(hash_lookup, index[h])
  /\ to_delete' = to_delete \ {h}
  /\ UNCHANGED <<chain_height, storing>>

\* rebuild_index once it has read the files of the heights in S: memory holds
\* those files' blocks and nothing else.
MemoryFrom(S) ==
  /\ index' = [h \in S |-> files[h].hash]
  /\ hash_lookup' = [x \in {files[h].hash : h \in S} |->
                       CHOOSE h \in S : files[h].hash = x]
  /\ chain_height' = IF S = {} THEN 0 ELSE CHOOSE h \in S : \A k \in S : k <= h

\* rebuild_index: files that do not parse are skipped.
Rebuild_index ==
  /\ StorageIdle
  /\ MemoryFrom(Readable)
  /\ UNCHANGED <<files, storing, to_delete>>

\* rebuild_index returns early with an I/O error after some of the files.
RebuildFails ==
  /\ StorageIdle
  /\ \E S \in SUBSET Readable : MemoryFrom(S)
  /\ UNCHANGED <<files, storing, to_delete>>

\* The process stops, at any point, and the storage is opened again.
Restart ==
  /\ MemoryFrom(IF RebuildOnStart THEN Readable ELSE {})
  /\ storing' = NoBlock
  /\ to_delete' = {}
  /\ UNCHANGED files

StoreStep == IndexBlock \/ \E h \in to_delete : PruneBlock(h)

StorageNext ==
  \/ \E b \in Blocks : WriteBlock(b) \/ WriteFails(b)
  \/ StoreStep
  \/ Rebuild_index
  \/ RebuildFails
  \/ Restart

StorageSpec == StorageInit /\ [][StorageNext]_storageVars

-----------------------------------------------------------------------------
StorageTypeOK ==
  /\ DOMAIN files \subseteq Heights
  /\ \A h \in DOMAIN files : files[h] \in Blocks \cup {Torn}
  /\ DOMAIN index \subseteq Heights
  /\ \A h \in DOMAIN index : index[h] \in Hashes
  /\ DOMAIN hash_lookup \subseteq Hashes
  /\ \A x \in DOMAIN hash_lookup : hash_lookup[x] \in Heights
  /\ chain_height \in Heights
  /\ storing \in Blocks \cup {NoBlock}
  /\ to_delete \subseteq DOMAIN index

\* A file holds a block of the height in its name, and between calls an
\* indexed height has a file that is torn or holds the block the index
\* recorded: the index never describes another block than the one a reader
\* gets (store_block and rebuild_index against load_block).
IndexAgreesWithDisk ==
  /\ \A h \in Readable : files[h].height = h
  /\ StorageIdle =>
       \A h \in DOMAIN index :
         h \in DOMAIN files /\ (files[h] = Torn \/ files[h].hash = index[h])

\* load_block_by_hash finds every block load_block finds: overwriting, pruning
\* and rebuilding never lose the lookup entry of a block that is still indexed.
LookupFindsIndexed ==
  \A h \in DOMAIN index :
    Has_block_with_hash(index[h]) /\ hash_lookup[index[h]] = h

\* chain_height is the highest indexed height, so get_latest_block finds a
\* block whenever there is one: pruning never deletes the tip and a rebuild
\* does not remember a height from before.
TipIndexed ==
  DOMAIN index # {} =>
    /\ Has_block(chain_height)
    /\ \A h \in DOMAIN index : h <= chain_height

\* Index, lookup, chain height and files describe one and the same chain.
IndexConsistent == IndexAgreesWithDisk /\ LookupFindsIndexed /\ TipIndexed

\* A store_block call that returns Ok under pruning leaves at most keep_blocks
\* blocks in the index, also after a rebuild brought back more than that.
StoreReturns == ~StorageIdle /\ StoreStep /\ StorageIdle'
RetentionBounded ==
  [][StoreReturns /\ PruningEnabled =>
       Cardinality(DOMAIN index') <= KeepBlocks]_storageVars

\* A running store never drops one of the keep_blocks most recent heights.
RecentRetained ==
  [][StoreStep =>
       \A h \in DOMAIN index : h + KeepBlocks > chain_height' => h \in DOMAIN index']_storageVars

\* Pruning deletes what it must and nothing that it must not.
Retention == RetentionBounded /\ RecentRetained

=============================================================================
