-------------------------- MODULE ChainSync_proofs --------------------------
(***************************************************************************)
(* Proofs about LedgerStorage, and about ChainSync on top of it, for any   *)
(* set of blocks, any reputations, any retention, with and without         *)
(* rebuild_index on start, and any number of failing writes, failing       *)
(* removals and restarts.                                                  *)
(*                                                                         *)
(* The first part is about the storage alone, whose caller may store any   *)
(* block at any time; the second about the storage as ChainSync uses it.   *)
(***************************************************************************)
EXTENDS ChainSync, FiniteSetTheorems, NaturalsInduction, WellFoundedInduction, TLAPS

\* A non-empty set of naturals has a least element.
LEMMA NatMin ==
  ASSUME NEW S \in SUBSET Nat, S # {}
  PROVE  \E m \in S : \A k \in S : m <= k
<1>1. PICK m \in S : \A k \in S : ~(<<k, m>> \in OpToRel(<, Nat))
  BY NatLessThanWellFounded, WFMin
<1>2. \A k \in S : ~(k < m)
  BY <1>1 DEF OpToRel
<1>. QED BY <1>2

\* A non-empty set of heights has a greatest element: what chain_height is
\* after rebuild_index is well defined.
LEMMA MaxOfHeights ==
  ASSUME NEW S \in SUBSET Heights, S # {}
  PROVE  \E m \in S : \A k \in S : k <= m
<1>. DEFINE Co == {MaxHeight - h : h \in S}
<1>0. MaxHeight \in Nat
  BY BlocksAssumption
<1>1. Co \in SUBSET Nat /\ Co # {}
  <2>1. \A h \in S : MaxHeight - h \in Nat
    BY <1>0 DEF Heights
  <2>2. PICK h \in S : TRUE
    OBVIOUS
  <2>3. MaxHeight - h \in Co
    OBVIOUS
  <2>. QED BY <2>1, <2>3
<1>2. PICK c \in Co : \A k \in Co : c <= k
  BY <1>1, NatMin
<1>3. PICK m \in S : c = MaxHeight - m
  BY <1>2
<1>4. ASSUME NEW k \in S PROVE k <= m
  <2>1. MaxHeight - k \in Co
    OBVIOUS
  <2>2. MaxHeight - m <= MaxHeight - k
    BY <1>2, <1>3, <2>1
  <2>. QED BY <1>0, <2>2 DEF Heights
<1>. QED BY <1>4

LEMMA ConstantTypes ==
  /\ MaxHeight \in Nat
  /\ KeepBlocks \in Nat /\ KeepBlocks >= 1
  /\ \A b \in Blocks : b.height \in Heights /\ b.hash \in Hashes
  /\ Torn \notin Blocks
  /\ NoBlock \notin Blocks
BY BlocksAssumption, StorageAssumption DEF Hashes

-----------------------------------------------------------------------------
(* Type correctness                                                        *)

LEMMA WriteBlockType ==
  ASSUME StorageTypeOK, NEW b \in Blocks, WriteBlock(b)
  PROVE  StorageTypeOK'
BY ConstantTypes DEF StorageTypeOK, WriteBlock, StorageIdle, Put

LEMMA WriteFailsType ==
  ASSUME StorageTypeOK, NEW b \in Blocks, WriteFails(b)
  PROVE  StorageTypeOK'
BY ConstantTypes DEF StorageTypeOK, WriteFails, memory, Put

LEMMA IndexBlockType ==
  ASSUME StorageTypeOK, IndexBlock
  PROVE  StorageTypeOK'
BY ConstantTypes DEF StorageTypeOK, IndexBlock, HeightsToDelete, Put

LEMMA PruneBlockType ==
  ASSUME StorageTypeOK, NEW h \in to_delete, PruneBlock(h)
  PROVE  StorageTypeOK'
BY ConstantTypes DEF StorageTypeOK, PruneBlock, Without, Restrict

LEMMA MemoryFromType ==
  ASSUME StorageTypeOK, NEW S \in SUBSET Readable, MemoryFrom(S)
  PROVE  /\ index' \in [S -> Hashes]
         /\ DOMAIN hash_lookup' \subseteq Hashes
         /\ \A x \in DOMAIN hash_lookup' : hash_lookup'[x] \in Heights
         /\ chain_height' \in Heights
         /\ S # {} => chain_height' \in S /\ \A h \in S : h <= chain_height'
<1>1. S \in SUBSET Heights /\ \A h \in S : files[h] \in Blocks
  BY DEF StorageTypeOK, Readable
<1>2. 0 \in Heights
  BY ConstantTypes DEF Heights
<1>3. S # {} => chain_height' \in S /\ \A h \in S : h <= chain_height'
  BY <1>1, MaxOfHeights DEF MemoryFrom
<1>4. chain_height' \in Heights
  BY <1>1, <1>2, <1>3 DEF MemoryFrom
<1>5. index' \in [S -> Hashes]
  BY <1>1 DEF MemoryFrom, Hashes
<1>6. DOMAIN hash_lookup' \subseteq Hashes
  BY <1>1 DEF MemoryFrom, Hashes
<1>7. \A x \in DOMAIN hash_lookup' : hash_lookup'[x] \in S
  BY DEF MemoryFrom
<1>. QED BY <1>1, <1>3, <1>4, <1>5, <1>6, <1>7

LEMMA RebuildType ==
  ASSUME StorageTypeOK, Rebuild_index \/ RebuildFails
  PROVE  StorageTypeOK'
<1>1. PICK S \in SUBSET Readable : MemoryFrom(S)
  BY DEF Rebuild_index, RebuildFails
<1>2. UNCHANGED <<files, storing, to_delete>> /\ to_delete = {}
  BY DEF Rebuild_index, RebuildFails, StorageIdle
<1>3. S \subseteq Heights
  BY DEF StorageTypeOK, Readable
<1>. QED BY <1>1, <1>2, <1>3, MemoryFromType DEF StorageTypeOK

LEMMA RestartType ==
  ASSUME StorageTypeOK, Restart
  PROVE  StorageTypeOK'
<1>1. PICK S \in SUBSET Readable : MemoryFrom(S)
  BY DEF Restart
<1>2. S \subseteq Heights
  BY DEF StorageTypeOK, Readable
<1>. QED BY <1>1, <1>2, MemoryFromType DEF StorageTypeOK, Restart

\* Whatever sequence of stores, failing writes, interrupted prunings, rebuilds
\* and restarts the storage goes through, its maps stay well typed; above all,
\* the deletion queue of prune only names heights that are still indexed, so
\* the metadata prune takes out of the index is always there.
THEOREM StorageTypeCorrect == StorageSpec => []StorageTypeOK
<1>1. StorageInit => StorageTypeOK
  BY ConstantTypes DEF StorageInit, StorageTypeOK, Heights
<1>2. StorageTypeOK /\ [StorageNext]_storageVars => StorageTypeOK'
  <2> SUFFICES ASSUME StorageTypeOK, [StorageNext]_storageVars
               PROVE  StorageTypeOK'
    OBVIOUS
  <2>1. CASE \E b \in Blocks : WriteBlock(b) \/ WriteFails(b)
    BY <2>1, WriteBlockType, WriteFailsType
  <2>2. CASE StoreStep
    BY <2>2, IndexBlockType, PruneBlockType DEF StoreStep
  <2>3. CASE Rebuild_index \/ RebuildFails
    BY <2>3, RebuildType
  <2>4. CASE Restart
    BY <2>4, RestartType
  <2>5. CASE UNCHANGED storageVars
    BY <2>5 DEF storageVars, memory, StorageTypeOK
  <2>. QED BY <2>1, <2>2, <2>3, <2>4, <2>5 DEF StorageNext
<1>. QED BY <1>1, <1>2, PTL DEF StorageSpec

-----------------------------------------------------------------------------
(* The storage by itself                                                   *)

\* Files hold what their names say, and an index entry describes a block of its
\* height: the one in its file, except while another one is stored over it.
EntriesOK ==
  /\ \A h \in Readable : files[h].height = h
  /\ storing # NoBlock => storing.height \in DOMAIN files /\ files[storing.height] = storing
  /\ \A h \in DOMAIN index :
       /\ \E b \in Blocks : b.height = h /\ b.hash = index[h]
       /\ h \in DOMAIN files
       /\ files[h] = Torn \/ files[h].hash = index[h] \/ (storing # NoBlock /\ storing.height = h)

\* What prune has still to delete is below the window, and nothing else is.
PruneOK ==
  /\ storing # NoBlock => to_delete = {}
  /\ DOMAIN index = {} => chain_height = 0
  /\ \A h \in to_delete : PruningEnabled /\ h < KeepFrom(chain_height)
  /\ to_delete # {} => \A h \in DOMAIN index \ to_delete : h >= KeepFrom(chain_height)

\* The inductive invariant of the storage.
StorageIInv == StorageTypeOK /\ EntriesOK /\ LookupFindsIndexed /\ TipIndexed /\ PruneOK

\* A height belongs to a hash: the hash covers the header.
LEMMA SameHashSameHeight ==
  ASSUME NEW b \in Blocks, NEW c \in Blocks, b.hash = c.hash
  PROVE  b.height = c.height
<1>1. b["height"] = c["height"]
  BY HashAssumption DEF HeaderFields
<1>. QED BY <1>1

\* The lowest height prune keeps is never above the chain height.
LEMMA KeepFromHeight ==
  ASSUME NEW t \in Heights
  PROVE  KeepFrom(t) \in Nat /\ KeepFrom(t) <= t /\ t < KeepFrom(t) + KeepBlocks
BY ConstantTypes DEF KeepFrom, Heights

LEMMA StorageIInvInit == StorageInit => StorageIInv
  BY ConstantTypes DEF StorageInit, StorageIInv, StorageTypeOK, Heights, EntriesOK, Readable,
     LookupFindsIndexed, TipIndexed, PruneOK

\* A file is written, whole or torn.
LEMMA WriteIInv ==
  ASSUME StorageIInv, NEW b \in Blocks, WriteBlock(b) \/ WriteFails(b)
  PROVE  StorageIInv'
<1>1. StorageTypeOK'
  BY WriteBlockType, WriteFailsType DEF StorageIInv
<1>2. /\ \A h \in DOMAIN files : h \in DOMAIN files' /\ (h # b.height => files'[h] = files[h])
      /\ \A h \in DOMAIN files' : h # b.height => h \in DOMAIN files
      /\ storing = NoBlock
      /\ UNCHANGED <<index, hash_lookup, chain_height, to_delete>>
      /\ \/ storing' = b /\ b.height \in DOMAIN files' /\ files'[b.height] = b
         \/ storing' = NoBlock /\ (files' = files \/ files'[b.height] = Torn)
  BY DEF WriteBlock, WriteFails, memory, Put, StorageIdle
<1>0. to_delete = {}
  BY DEF WriteBlock, WriteFails, StorageIdle
<1>3. EntriesOK'
  <2>1. b # NoBlock
    BY ConstantTypes
  <2>2. \A h \in DOMAIN files' : files'[h] # Torn => files'[h].height = h
    BY <1>2 DEF StorageIInv, EntriesOK, Readable
  <2>3. storing' # NoBlock => storing'.height \in DOMAIN files' /\ files'[storing'.height] = storing'
    BY <1>2
  <2>4. ASSUME NEW h \in DOMAIN index
        PROVE  /\ \E c \in Blocks : c.height = h /\ c.hash = index[h]
               /\ h \in DOMAIN files'
               /\ \/ files'[h] = Torn \/ files'[h].hash = index[h]
                  \/ storing' # NoBlock /\ storing'.height = h
    BY <1>2, <2>1 DEF StorageIInv, EntriesOK
  <2>. QED BY <1>2, <2>2, <2>3, <2>4 DEF EntriesOK, Readable
<1>4. LookupFindsIndexed' /\ TipIndexed' /\ PruneOK'
  BY <1>0, <1>2 DEF StorageIInv, LookupFindsIndexed, Has_block_with_hash, TipIndexed, Has_block, PruneOK
<1>. QED BY <1>1, <1>3, <1>4 DEF StorageIInv

LEMMA IndexIInv == ASSUME StorageIInv, IndexBlock PROVE StorageIInv'
<1>. DEFINE s == storing.height
<1>1. StorageTypeOK' /\ storing \in Blocks /\ s \in Heights /\ storing # NoBlock
  BY IndexBlockType, ConstantTypes DEF StorageIInv, StorageTypeOK, IndexBlock
<1>2. /\ DOMAIN index' = DOMAIN index \cup {s} /\ index'[s] = storing.hash
      /\ \A h \in DOMAIN index : h # s => index'[h] = index[h]
      /\ storing' = NoBlock /\ files' = files
  BY DEF IndexBlock, Put
<1>3. EntriesOK'
  <2>1. s \in DOMAIN files /\ files[s] = storing
    BY <1>1 DEF StorageIInv, EntriesOK
  <2>2. \A h \in DOMAIN index : h # s =>
          h \in DOMAIN files /\ (files[h] = Torn \/ files[h].hash = index[h])
    BY DEF StorageIInv, EntriesOK
  <2>3. \A h \in DOMAIN index : \E b \in Blocks : b.height = h /\ b.hash = index[h]
    BY DEF StorageIInv, EntriesOK
  <2>4. \A h \in Readable : files[h].height = h
    BY DEF StorageIInv, EntriesOK
  <2>. QED BY <1>1, <1>2, <2>1, <2>2, <2>3, <2>4 DEF EntriesOK, Readable
<1>4. LookupFindsIndexed'
  <2>1. DOMAIN hash_lookup' = DOMAIN hash_lookup \cup {storing.hash}
        /\ hash_lookup'[storing.hash] = s
        /\ \A x \in DOMAIN hash_lookup : x # storing.hash => hash_lookup'[x] = hash_lookup[x]
    BY DEF IndexBlock, Put
  <2>2. \A h \in DOMAIN index : index[h] = storing.hash => h = s
    <3> SUFFICES ASSUME NEW h \in DOMAIN index, index[h] = storing.hash PROVE h = s
      OBVIOUS
    <3>1. PICK b \in Blocks : b.height = h /\ b.hash = index[h]
      BY DEF StorageIInv, EntriesOK
    <3>. QED BY <1>1, <3>1, SameHashSameHeight
  <2>. QED BY <1>2, <2>1, <2>2 DEF StorageIInv, LookupFindsIndexed, Has_block_with_hash
<1>5. /\ chain_height' = IF s > chain_height THEN s ELSE chain_height
      /\ chain_height \in Heights /\ chain_height' \in Heights
  BY <1>1 DEF IndexBlock, StorageIInv, StorageTypeOK
<1>6. TipIndexed'
  <2>1. CASE DOMAIN index = {}
    <3>1. chain_height = 0
      BY <2>1 DEF StorageIInv, PruneOK
    <3>. QED BY <1>1, <1>2, <1>5, <2>1, <3>1 DEF TipIndexed, Has_block, Heights
  <2>2. CASE DOMAIN index # {}
    <3>1. chain_height \in DOMAIN index /\ \A h \in DOMAIN index : h <= chain_height
      BY <2>2 DEF StorageIInv, TipIndexed, Has_block
    <3>2. \A h \in DOMAIN index : h \in Heights
      BY DEF StorageIInv, StorageTypeOK
    <3>3. chain_height' \in DOMAIN index'
      BY <1>2, <1>5, <3>1
    <3>4. \A h \in DOMAIN index' : h <= chain_height'
      BY <1>1, <1>2, <1>5, <3>1, <3>2, ConstantTypes DEF Heights
    <3>. QED BY <3>3, <3>4 DEF TipIndexed, Has_block
  <2>. QED BY <2>1, <2>2
<1>7. PruneOK'
  <2>1. DOMAIN index' # {}
    BY <1>2
  <2>2. to_delete' = HeightsToDelete(DOMAIN index', chain_height')
    BY DEF IndexBlock
  <2>3. DOMAIN index' \subseteq Heights /\ KeepFrom(chain_height') \in Nat
    BY <1>1, <1>5, KeepFromHeight DEF StorageTypeOK
  <2>. QED BY <1>2, <2>1, <2>2, <2>3 DEF PruneOK, HeightsToDelete, Heights
<1>. QED BY <1>1, <1>3, <1>4, <1>6, <1>7 DEF StorageIInv

LEMMA PruneIInv == ASSUME StorageIInv, NEW h \in to_delete, PruneBlock(h) PROVE StorageIInv'
<1>1. StorageTypeOK' /\ h \in DOMAIN index /\ DOMAIN index \subseteq Heights
      /\ chain_height \in Heights /\ h \in Heights
  BY PruneBlockType DEF StorageIInv, StorageTypeOK
<1>2. /\ DOMAIN index' = DOMAIN index \ {h}
      /\ \A k \in DOMAIN index : k # h => index'[k] = index[k]
      /\ \A k \in DOMAIN files : k # h => k \in DOMAIN files' /\ files'[k] = files[k]
      /\ DOMAIN files' \subseteq DOMAIN files
      /\ \A k \in DOMAIN files' : files'[k] = files[k]
      /\ DOMAIN hash_lookup' = DOMAIN hash_lookup \ {index[h]}
      /\ \A x \in DOMAIN hash_lookup' : hash_lookup'[x] = hash_lookup[x]
      /\ to_delete' = to_delete \ {h} /\ UNCHANGED <<chain_height, storing>>
  BY DEF PruneBlock, Without, Restrict
<1>3. storing = NoBlock
  BY DEF StorageIInv, PruneOK
<1>4. EntriesOK'
  BY <1>1, <1>2, <1>3 DEF StorageIInv, EntriesOK, Readable
<1>5. LookupFindsIndexed'
  <2> SUFFICES ASSUME NEW k \in DOMAIN index, k # h
               PROVE  index[k] \in DOMAIN hash_lookup' /\ hash_lookup'[index[k]] = k
    BY <1>2 DEF LookupFindsIndexed, Has_block_with_hash
  <2>1. index[k] \in DOMAIN hash_lookup /\ hash_lookup[index[k]] = k /\ hash_lookup[index[h]] = h
    BY <1>1 DEF StorageIInv, LookupFindsIndexed, Has_block_with_hash
  <2>2. index[k] # index[h]
    BY <2>1
  <2>. QED BY <1>2, <2>1, <2>2
<1>6. h < KeepFrom(chain_height) /\ h < chain_height /\ PruningEnabled
  BY <1>1, KeepFromHeight DEF StorageIInv, PruneOK, Heights
<1>7. TipIndexed' /\ DOMAIN index' # {}
  <2>1. chain_height \in DOMAIN index /\ \A k \in DOMAIN index : k <= chain_height
    BY <1>1 DEF StorageIInv, TipIndexed, Has_block
  <2>2. chain_height # h
    BY <1>1, <1>6 DEF Heights
  <2>. QED BY <1>2, <2>1, <2>2 DEF TipIndexed, Has_block
<1>8. PruneOK'
  BY <1>2, <1>3, <1>7 DEF StorageIInv, PruneOK
<1>. QED BY <1>1, <1>4, <1>5, <1>7, <1>8 DEF StorageIInv

\* Memory is made anew from the files of some heights.
LEMMA MemoryIInv ==
  ASSUME StorageIInv, NEW S \in SUBSET Readable, MemoryFrom(S),
         storing' = NoBlock, to_delete' = {}, files' = files
  PROVE  StorageIInv'
<1>1. /\ index' \in [S -> Hashes] /\ \A h \in S : index'[h] = files[h].hash
      /\ DOMAIN hash_lookup' \subseteq Hashes
      /\ \A x \in DOMAIN hash_lookup' : hash_lookup'[x] \in Heights
      /\ chain_height' \in Heights
      /\ S # {} => chain_height' \in S /\ \A h \in S : h <= chain_height'
  BY MemoryFromType DEF StorageIInv, MemoryFrom
<1>2. \A h \in S : files[h] \in Blocks /\ files[h].height = h /\ h \in DOMAIN files
  BY DEF StorageIInv, StorageTypeOK, EntriesOK, Readable
<1>3. StorageTypeOK'
  <2>1. S \subseteq Heights
    BY DEF StorageIInv, StorageTypeOK, Readable
  <2>. QED BY <1>1, <2>1 DEF StorageIInv, StorageTypeOK
<1>4. EntriesOK'
  BY <1>1, <1>2 DEF StorageIInv, EntriesOK, Readable
<1>5. LookupFindsIndexed'
  <2> SUFFICES ASSUME NEW h \in S
               PROVE  index'[h] \in DOMAIN hash_lookup' /\ hash_lookup'[index'[h]] = h
    BY <1>1 DEF LookupFindsIndexed, Has_block_with_hash
  <2>1. files[h].hash \in DOMAIN hash_lookup'
        /\ hash_lookup'[files[h].hash] = CHOOSE k \in S : files[k].hash = files[h].hash
    BY DEF MemoryFrom
  <2>2. \A k \in S : files[k].hash = files[h].hash => k = h
    BY <1>2, SameHashSameHeight
  <2>. QED BY <1>1, <2>1, <2>2
<1>6. TipIndexed' /\ PruneOK'
  BY <1>1 DEF TipIndexed, Has_block, PruneOK, MemoryFrom
<1>. QED BY <1>3, <1>4, <1>5, <1>6 DEF StorageIInv

LEMMA StorageIInvStep == StorageIInv /\ [StorageNext]_storageVars => StorageIInv'
<1>. SUFFICES ASSUME StorageIInv, [StorageNext]_storageVars PROVE StorageIInv'
  OBVIOUS
<1>1. CASE \E b \in Blocks : WriteBlock(b) \/ WriteFails(b)
  BY <1>1, WriteIInv
<1>2. CASE StoreStep
  BY <1>2, IndexIInv, PruneIInv DEF StoreStep
<1>3. CASE Rebuild_index \/ RebuildFails \/ Restart
  <2>1. PICK S \in SUBSET Readable : MemoryFrom(S)
    BY <1>3 DEF Rebuild_index, RebuildFails, Restart
  <2>2. storing' = NoBlock /\ to_delete' = {} /\ files' = files
    BY <1>3 DEF Rebuild_index, RebuildFails, Restart, StorageIdle
  <2>. QED BY <2>1, <2>2, MemoryIInv
<1>4. CASE UNCHANGED storageVars
  BY <1>4 DEF storageVars, memory, StorageIInv, StorageTypeOK, EntriesOK, Readable,
     LookupFindsIndexed, Has_block_with_hash, TipIndexed, Has_block, PruneOK
<1>. QED BY <1>1, <1>2, <1>3, <1>4 DEF StorageNext

LEMMA StorageInvariant == StorageSpec => []StorageIInv
<1>1. StorageInit => StorageIInv
  BY StorageIInvInit
<1>2. StorageIInv /\ [StorageNext]_storageVars => StorageIInv'
  BY StorageIInvStep
<1>. QED BY <1>1, <1>2, PTL DEF StorageSpec

\* Index, lookup, chain height and files describe one chain between any two calls,
\* whatever is stored over whatever, fails, is pruned half-way or read back from
\* disk half-way (store_block, prune, rebuild_index).
THEOREM IndexAlwaysConsistent == StorageSpec => []IndexConsistent
<1>1. StorageIInv => IndexConsistent
  BY DEF StorageIInv, EntriesOK, IndexConsistent, IndexAgreesWithDisk, StorageIdle
<1>. QED BY <1>1, StorageInvariant, PTL

\* What is left of the index lies in the window, and the window is not larger
\* than what is to be kept.
LEMMA WindowSize ==
  ASSUME NEW I \in SUBSET Heights, NEW t \in Heights,
         \A h \in I : h <= t /\ h >= KeepFrom(t)
  PROVE  Cardinality(I) <= KeepBlocks
<1>1. KeepFrom(t) \in Nat /\ t \in Nat /\ KeepBlocks \in Nat /\ t < KeepFrom(t) + KeepBlocks
      /\ KeepFrom(t) <= t
  BY KeepFromHeight, ConstantTypes DEF Heights
<1>. DEFINE from == KeepFrom(t)
            window == from..t
<1>2. I \subseteq window
  BY <1>1 DEF Heights
<1>. HIDE DEF from
<1>3. IsFiniteSet(from..t) /\ Cardinality(from..t) = t - from + 1
  BY <1>1, FS_Interval DEF from
<1>4. Cardinality(I) <= Cardinality(window) /\ Cardinality(I) \in Nat
  BY <1>2, <1>3, FS_Subset, FS_CardinalityType
<1>. QED BY <1>1, <1>3, <1>4 DEF from

LEMMA RetentionStep ==
  ASSUME StorageIInv, StoreStep
  PROVE  /\ StoreReturns /\ PruningEnabled => Cardinality(DOMAIN index') <= KeepBlocks
         /\ \A h \in DOMAIN index : h + KeepBlocks > chain_height' => h \in DOMAIN index'
<1>1. StorageIInv'
  BY IndexIInv, PruneIInv DEF StoreStep
<1>2. DOMAIN index' \subseteq Heights /\ DOMAIN index \subseteq Heights /\ chain_height' \in Heights
  BY <1>1 DEF StorageIInv, StorageTypeOK
<1>3. CASE IndexBlock
  <2>1. DOMAIN index \subseteq DOMAIN index'
    BY <1>3 DEF IndexBlock, Put
  <2>2. ASSUME to_delete' = {}, PruningEnabled PROVE Cardinality(DOMAIN index') <= KeepBlocks
    <3>1. CASE Cardinality(DOMAIN index') > KeepBlocks
      <4>1. {h \in DOMAIN index' : h < KeepFrom(chain_height')} = {}
        BY <1>3, <2>2, <3>1 DEF IndexBlock, HeightsToDelete
      <4>2. \A h \in DOMAIN index' : h <= chain_height' /\ h >= KeepFrom(chain_height')
        BY <1>1, <1>2, <4>1, KeepFromHeight DEF StorageIInv, TipIndexed, Heights
      <4>. QED BY <1>2, <4>2, WindowSize
    <3>2. CASE ~(Cardinality(DOMAIN index') > KeepBlocks)
      <4>1. Cardinality(DOMAIN index') \in Nat
        <5>1. IsFiniteSet(Heights)
          BY ConstantTypes, FS_Interval DEF Heights
        <5>. QED BY <1>2, <5>1, FS_Subset, FS_CardinalityType
      <4>. QED BY <3>2, <4>1, ConstantTypes
    <3>. QED BY <3>1, <3>2
  <2>. QED BY <2>1, <2>2 DEF StoreReturns, StorageIdle
<1>4. ASSUME NEW h \in to_delete, PruneBlock(h)
      PROVE  /\ StoreReturns /\ PruningEnabled => Cardinality(DOMAIN index') <= KeepBlocks
             /\ \A k \in DOMAIN index : k + KeepBlocks > chain_height' => k \in DOMAIN index'
  <2>1. DOMAIN index' = DOMAIN index \ {h} /\ to_delete' = to_delete \ {h}
        /\ chain_height' = chain_height
    BY <1>4 DEF PruneBlock, Without, Restrict
  <2>2. h < KeepFrom(chain_height) /\ h \in Heights
    BY <1>2 DEF StorageIInv, PruneOK, StorageTypeOK
  <2>3. ~(h + KeepBlocks > chain_height)
    BY <1>2, <2>1, <2>2, ConstantTypes DEF KeepFrom, Heights
  <2>4. ASSUME to_delete' = {} PROVE Cardinality(DOMAIN index') <= KeepBlocks
    <3>1. \A k \in DOMAIN index' : k >= KeepFrom(chain_height)
      BY <2>1, <2>4 DEF StorageIInv, PruneOK
    <3>2. \A k \in DOMAIN index' : k <= chain_height'
      BY <1>1 DEF StorageIInv, TipIndexed
    <3>. QED BY <1>2, <2>1, <3>1, <3>2, WindowSize
  <2>. QED BY <2>1, <2>3, <2>4 DEF StoreReturns, StorageIdle
<1>. QED BY <1>3, <1>4 DEF StoreStep

\* A store that returns leaves keep_blocks blocks at most, and no store drops one
\* of the keep_blocks most recent ones, also after a rebuild brought back more
\* than that (store_block, prune).
THEOREM RetentionHolds == StorageSpec => Retention
<1>1. StorageIInv /\ [StorageNext]_storageVars =>
        /\ [StoreReturns /\ PruningEnabled => Cardinality(DOMAIN index') <= KeepBlocks]_storageVars
        /\ [StoreStep => \A h \in DOMAIN index :
              h + KeepBlocks > chain_height' => h \in DOMAIN index']_storageVars
  BY RetentionStep DEF StoreReturns
<1>. QED BY <1>1, StorageInvariant, PTL DEF StorageSpec, Retention, RetentionBounded, RecentRetained

-----------------------------------------------------------------------------
(* ChainSync on top of the storage                                         *)

\* Where the retention window starts: never above the chain height, and never
\* moving back when the chain height grows.
LEMMA KeepFromBounds ==
  ASSUME NEW t \in Heights, NEW u \in Heights, t <= u
  PROVE  /\ KeepFrom(t) \in Nat
         /\ KeepFrom(t) <= t
         /\ KeepFrom(t) <= KeepFrom(u)
BY ConstantTypes DEF KeepFrom, Heights

LEMMA WindowFromBounds ==
  ASSUME StorageTypeOK
  PROVE  WindowFrom \in Nat /\ WindowFrom <= chain_height
BY KeepFromBounds DEF WindowFrom, StorageTypeOK, Heights

LEMMA LinkedHeights ==
  ASSUME NEW b \in Blocks, NEW c \in Blocks, Validate_chain_link(b, c)
  PROVE  b.height = c.height + 1
BY DEF Validate_chain_link

-----------------------------------------------------------------------------
(* One lemma per storage step.                                             *)

\* The write of an accepted block leaves everything that is indexed alone.
LEMMA WriteBlockInv ==
  ASSUME LedgerInv, NEW b \in Blocks, WriteBlock(b),
         ~Has_block(b.height), Linked(b), PassesChecks(b)
  PROVE  LedgerInv'
<1>. USE ConstantTypes
<1>1. StorageTypeOK'
  BY WriteBlockType DEF LedgerInv
<1>2. /\ \A h \in DOMAIN files : h # b.height => h \in DOMAIN files' /\ files'[h] = files[h]
      /\ DOMAIN files' = DOMAIN files \cup {b.height}
      /\ files'[b.height] = b
      /\ UNCHANGED <<index, hash_lookup, chain_height, to_delete>>
      /\ storing' = b /\ to_delete = {}
  BY DEF WriteBlock, Put, StorageIdle
<1>3. \A h \in DOMAIN index : h # b.height /\ h \in Readable
  BY DEF LedgerInv, IndexedReadable, Loadable, Has_block
<1>4. \A h \in Heights : h # b.height => (h \in Readable' <=> h \in Readable)
  BY <1>2 DEF Readable
<1>5. b.height \in Readable'
  BY <1>2 DEF Readable
<1>6. IndexedReadable'
  BY <1>1, <1>2, <1>3, <1>4 DEF LedgerInv, IndexedReadable, Loadable, Load_block,
     Has_block, Readable, StorageTypeOK
<1>7. LookupExact' /\ WindowComplete' /\ PruneBelowWindow'
  BY <1>2 DEF LedgerInv, LookupExact, WindowComplete, WindowFrom, PruneBelowWindow
<1>8. WindowLinked'
  <2>1. WindowFrom' = WindowFrom /\ Window' = Window
    BY <1>2 DEF WindowFrom, Window
  <2>2. ASSUME NEW h \in Window, h > WindowFrom
        PROVE  h \in DOMAIN index /\ h - 1 \in DOMAIN index
    BY <2>2, WindowFromBounds DEF LedgerInv, WindowComplete, Window, StorageTypeOK, Heights
  <2>3. ASSUME NEW h \in Window, h > WindowFrom
        PROVE  files'[h] = files[h] /\ files'[h - 1] = files[h - 1]
    BY <1>2, <1>3, <2>2, <2>3 DEF Readable
  <2>. QED BY <2>1, <2>3 DEF LedgerInv, WindowLinked, Load_block
<1>9. StoreInProgress'
  <2>1. ~Has_block(b.height)'
    BY <1>2 DEF Has_block
  <2>2. ASSUME b.height > 0
        PROVE  /\ Has_block(b.height - 1)'
               /\ Validate_chain_link(b, Load_block(b.height - 1)')
    <3>1. Has_block(b.height - 1) /\ Validate_chain_link(b, Load_block(b.height - 1))
      BY <2>2 DEF Linked, Loadable
    <3>2. files'[b.height - 1] = files[b.height - 1]
      BY <1>2, <1>3, <3>1 DEF Has_block, Readable
    <3>. QED BY <1>2, <3>1, <3>2 DEF Has_block, Load_block
  <2>. QED BY <1>2, <2>1, <2>2 DEF StoreInProgress
<1>10. LeftoversBelowWindow'
  <2> SUFFICES ASSUME RebuildOnStart, NEW h \in Readable' \ DOMAIN index', h # b.height
               PROVE  DOMAIN index' # {} /\ h < WindowFrom'
    BY <1>2 DEF LeftoversBelowWindow
  <2>1. h \in Readable \ DOMAIN index
    BY <1>1, <1>2, <1>4 DEF Readable, StorageTypeOK
  <2>2. storing = NoBlock
    BY DEF WriteBlock, StorageIdle
  <2>. QED BY <1>2, <2>1, <2>2 DEF LedgerInv, LeftoversBelowWindow, WindowFrom
<1>11. ReadableValid'
  BY <1>1, <1>2, <1>4 DEF LedgerInv, ReadableValid, Readable, StorageTypeOK
<1>. QED BY <1>1, <1>6, <1>7, <1>8, <1>9, <1>10, <1>11 DEF LedgerInv

\* A failed write can only tear a file that no indexed block lives in.
LEMMA WriteFailsInv ==
  ASSUME LedgerInv, NEW b \in Blocks, WriteFails(b), ~Has_block(b.height)
  PROVE  LedgerInv'
<1>. USE ConstantTypes
<1>1. StorageTypeOK'
  BY WriteFailsType DEF LedgerInv
<1>2. /\ \A h \in DOMAIN files : h # b.height => h \in DOMAIN files' /\ files'[h] = files[h]
      /\ UNCHANGED <<index, hash_lookup, chain_height, storing, to_delete>>
      /\ storing = NoBlock
  BY DEF WriteFails, Put, StorageIdle, memory
<1>3. \A h \in DOMAIN index : h # b.height /\ h \in Readable
  BY DEF LedgerInv, IndexedReadable, Loadable, Has_block
<1>4. \A h \in Readable' : h \in Readable /\ files'[h] = files[h]
  BY DEF WriteFails, Put, Readable
<1>5. \A h \in DOMAIN index : h \in Readable' /\ files'[h] = files[h]
  BY <1>2, <1>3 DEF Readable
<1>6. IndexedReadable'
  BY <1>2, <1>4, <1>5 DEF LedgerInv, IndexedReadable, Loadable, Load_block, Has_block
<1>7. LookupExact' /\ WindowComplete' /\ PruneBelowWindow' /\ StoreInProgress'
  BY <1>2 DEF LedgerInv, LookupExact, WindowComplete, WindowFrom, PruneBelowWindow,
     StoreInProgress
<1>8. WindowLinked'
  <2>1. WindowFrom' = WindowFrom /\ Window' = Window
    BY <1>2 DEF WindowFrom, Window
  <2>2. ASSUME NEW h \in Window, h > WindowFrom
        PROVE  h \in DOMAIN index /\ h - 1 \in DOMAIN index
    BY <2>2, WindowFromBounds DEF LedgerInv, WindowComplete, Window, StorageTypeOK, Heights
  <2>. QED BY <1>5, <2>1, <2>2 DEF LedgerInv, WindowLinked, Load_block
<1>9. LeftoversBelowWindow'
  BY <1>2, <1>4 DEF LedgerInv, LeftoversBelowWindow, WindowFrom
<1>10. ReadableValid'
  BY <1>4 DEF LedgerInv, ReadableValid
<1>. QED BY <1>1, <1>6, <1>7, <1>8, <1>9, <1>10 DEF LedgerInv

\* Indexing the written block moves the window forward by one block, or, if the
\* block lies below the window, does not touch the window at all.
LEMMA IndexBlockInv ==
  ASSUME LedgerInv, IndexBlock
  PROVE  LedgerInv'
<1>. USE ConstantTypes
<1>. DEFINE b == storing
            h == storing.height
<1>1. StorageTypeOK'
  BY IndexBlockType DEF LedgerInv
<1>2. /\ b \in Blocks /\ h \in Heights
      /\ h \notin DOMAIN index /\ to_delete = {}
      /\ h \in Readable /\ files[h] = b
      /\ h > 0 => h - 1 \in DOMAIN index /\ Validate_chain_link(b, files[h - 1])
  BY DEF IndexBlock, LedgerInv, StorageTypeOK, StoreInProgress, Has_block, Readable, Load_block
<1>3. /\ DOMAIN index' = DOMAIN index \cup {h}
      /\ index'[h] = b.hash
      /\ \A k \in DOMAIN index : k # h /\ index'[k] = index[k]
      /\ files' = files /\ Readable' = Readable
      /\ storing' = NoBlock
  BY <1>2 DEF IndexBlock, Put, Readable
<1>4. /\ DOMAIN hash_lookup' = DOMAIN hash_lookup \cup {b.hash}
      /\ hash_lookup'[b.hash] = h
      /\ \A x \in DOMAIN hash_lookup : x # b.hash => hash_lookup'[x] = hash_lookup[x]
  BY DEF IndexBlock, Put
<1>5. /\ \A k \in DOMAIN index : k \in Readable /\ files[k].hash = index[k]
      /\ \A k \in Readable : files[k] \in Blocks /\ files[k].height = k /\ k \in Heights
  BY DEF LedgerInv, IndexedReadable, Loadable, Load_block, Has_block, StorageTypeOK, Readable
<1>6. IndexedReadable'
  BY <1>2, <1>3, <1>5 DEF IndexedReadable, Loadable, Load_block, Has_block
<1>7. b.hash \notin DOMAIN hash_lookup
  <2> SUFFICES ASSUME b.hash \in DOMAIN hash_lookup PROVE FALSE
    OBVIOUS
  <2>1. PICK k \in DOMAIN index : index[k] = b.hash
    BY DEF LedgerInv, LookupExact
  <2>2. k = h
    BY <1>2, <1>5, <2>1, SameHashSameHeight
  <2>. QED BY <1>2, <2>2
<1>8. LookupExact'
  <2>1. \A k \in DOMAIN index : index[k] # b.hash
    BY <1>7 DEF LedgerInv, LookupExact
  <2>. QED BY <1>3, <1>4, <1>7, <2>1 DEF LedgerInv, LookupExact
<1>9. /\ chain_height \in Heights /\ chain_height' \in Heights
      /\ chain_height' = IF h > chain_height THEN h ELSE chain_height
      /\ chain_height <= chain_height'
  BY <1>1, <1>2 DEF IndexBlock, LedgerInv, StorageTypeOK, Heights
<1>10. /\ WindowFrom \in Nat /\ WindowFrom <= chain_height
       /\ WindowFrom' \in Nat /\ WindowFrom' <= chain_height'
       /\ WindowFrom <= WindowFrom'
  BY <1>9, KeepFromBounds DEF WindowFrom, Heights
\* Either the first block, or the next block, or a block below the window.
<1>11. \/ DOMAIN index = {} /\ h = 0 /\ chain_height = 0
       \/ DOMAIN index # {} /\ h = chain_height + 1
       \/ DOMAIN index # {} /\ h < WindowFrom
  <2>1. CASE DOMAIN index = {}
    BY <1>2, <2>1 DEF LedgerInv, WindowComplete, Heights
  <2>2. CASE DOMAIN index # {}
    <3>1. h <= chain_height + 1
      BY <1>2, <1>9, <2>2 DEF LedgerInv, WindowComplete, Heights
    <3>2. h \notin WindowFrom .. chain_height
      BY <1>2, <2>2 DEF LedgerInv, WindowComplete
    <3>. QED BY <1>2, <1>9, <1>10, <2>2, <3>1, <3>2 DEF Heights
  <2>. QED BY <2>1, <2>2
<1>12. WindowComplete'
  <2>1. \A k \in DOMAIN index' : k <= chain_height'
    <3>1. \A k \in DOMAIN index : k <= chain_height /\ k \in Heights
      BY DEF LedgerInv, WindowComplete, StorageTypeOK
    <3>. QED BY <1>2, <1>3, <1>9, <3>1 DEF Heights
  <2>2. WindowFrom' .. chain_height' \subseteq DOMAIN index'
    <3> SUFFICES ASSUME NEW k \in WindowFrom' .. chain_height', k # h
                 PROVE  k \in DOMAIN index
      BY <1>3
    <3>1. k \in WindowFrom .. chain_height
      BY <1>2, <1>9, <1>10, <1>11 DEF Heights
    <3>2. DOMAIN index # {}
      BY <1>2, <1>9, <1>10, <1>11, <3>1 DEF Heights
    <3>. QED BY <3>1, <3>2 DEF LedgerInv, WindowComplete
  <2>. QED BY <1>3, <2>1, <2>2 DEF WindowComplete
<1>13. WindowLinked'
  <2> SUFFICES ASSUME NEW k \in Window', k > WindowFrom'
               PROVE  Validate_chain_link(files[k], files[k - 1])
    BY <1>3 DEF WindowLinked, Load_block
  <2>1. CASE k = h
    BY <1>2, <1>10, <2>1 DEF Heights
  <2>2. CASE k # h
    <3>1. k \in DOMAIN index /\ k \in Heights
      BY <1>3, <2>2 DEF Window, LedgerInv, StorageTypeOK
    <3>2. k \in Window /\ k > WindowFrom
      BY <1>10, <3>1 DEF Window, Heights
    <3>. QED BY <3>2 DEF LedgerInv, WindowLinked, Load_block
  <2>. QED BY <2>1, <2>2
<1>14. PruneBelowWindow'
  BY DEF IndexBlock, HeightsToDelete, PruneBelowWindow
<1>15. StoreInProgress'
  BY <1>3 DEF StoreInProgress
<1>16. LeftoversBelowWindow'
  <2> SUFFICES ASSUME RebuildOnStart, NEW k \in Readable, k \notin DOMAIN index'
               PROVE  k < WindowFrom'
    BY <1>3 DEF LeftoversBelowWindow
  <2>1. k \notin DOMAIN index /\ k # h /\ k \in Heights
    BY <1>3, <1>5
  <2>2. k < WindowFrom
    BY <2>1 DEF LedgerInv, LeftoversBelowWindow
  <2>. QED BY <1>10, <2>1, <2>2 DEF Heights
<1>17. ReadableValid'
  BY <1>3 DEF LedgerInv, ReadableValid
<1>. QED BY <1>1, <1>6, <1>8, <1>12, <1>13, <1>14, <1>15, <1>16, <1>17 DEF LedgerInv

\* Pruning takes blocks out below the window, with or without their files.
LEMMA PruneBlockInv ==
  ASSUME LedgerInv, NEW h \in to_delete, PruneBlock(h)
  PROVE  LedgerInv'
<1>. USE ConstantTypes
<1>1. StorageTypeOK'
  BY PruneBlockType DEF LedgerInv
<1>2. /\ h \in DOMAIN index /\ h \in Heights
      /\ PruningEnabled /\ h < WindowFrom
      /\ storing = NoBlock
  BY DEF LedgerInv, StorageTypeOK, PruneBelowWindow, WindowFrom, StoreInProgress
<1>3. /\ DOMAIN index' = DOMAIN index \ {h}
      /\ \A k \in DOMAIN index' : index'[k] = index[k]
      /\ DOMAIN hash_lookup' = DOMAIN hash_lookup \ {index[h]}
      /\ \A x \in DOMAIN hash_lookup' : hash_lookup'[x] = hash_lookup[x]
      /\ to_delete' = to_delete \ {h}
      /\ UNCHANGED <<chain_height, storing>>
  BY DEF PruneBlock, Without, Restrict
<1>4. /\ \A k \in Readable : k # h => k \in Readable' /\ files'[k] = files[k]
      /\ \A k \in Readable' : k \in Readable /\ files'[k] = files[k]
  BY DEF PruneBlock, Without, Restrict, Readable
<1>5. WindowFrom' = WindowFrom /\ WindowFrom \in Nat /\ WindowFrom <= chain_height
  BY <1>3, WindowFromBounds DEF WindowFrom, LedgerInv
<1>6. IndexedReadable'
  BY <1>3, <1>4 DEF LedgerInv, IndexedReadable, Loadable, Load_block, Has_block
<1>7. LookupExact'
  BY <1>2, <1>3 DEF LedgerInv, LookupExact
<1>8. chain_height \in DOMAIN index'
  <2>1. chain_height \in DOMAIN index /\ chain_height \in Heights
    BY <1>2, <1>5 DEF LedgerInv, WindowComplete, StorageTypeOK, Heights
  <2>. QED BY <1>2, <1>3, <1>5, <2>1 DEF Heights
<1>9. WindowComplete'
  <2>1. WindowFrom .. chain_height \subseteq DOMAIN index'
    BY <1>2, <1>3, <1>5 DEF LedgerInv, WindowComplete, Heights
  <2>. QED BY <1>2, <1>3, <1>5, <1>8, <2>1 DEF LedgerInv, WindowComplete
<1>10. WindowLinked'
  <2> SUFFICES ASSUME NEW k \in Window', k > WindowFrom
               PROVE  Validate_chain_link(files'[k], files'[k - 1])
    BY <1>5 DEF WindowLinked, Load_block
  <2>1. k \in Window /\ k \in Heights
    BY <1>3, <1>5 DEF Window, LedgerInv, StorageTypeOK
  <2>2. k - 1 \in DOMAIN index /\ k - 1 # h /\ k # h
    <3>1. chain_height \in Heights /\ k <= chain_height
      BY <2>1 DEF LedgerInv, StorageTypeOK, WindowComplete, Window
    <3>2. k - 1 \in WindowFrom .. chain_height
      BY <1>5, <2>1, <3>1 DEF Heights
    <3>. QED BY <1>2, <1>5, <2>1, <3>2 DEF LedgerInv, WindowComplete, Heights
  <2>3. files'[k] = files[k] /\ files'[k - 1] = files[k - 1]
    BY <1>4, <2>1, <2>2 DEF Window, LedgerInv, IndexedReadable, Loadable, Has_block
  <2>. QED BY <2>1, <2>3 DEF LedgerInv, WindowLinked, Load_block
<1>11. PruneBelowWindow' /\ StoreInProgress'
  BY <1>2, <1>3 DEF LedgerInv, PruneBelowWindow, StoreInProgress
<1>12. LeftoversBelowWindow'
  BY <1>2, <1>3, <1>4, <1>5, <1>8 DEF LedgerInv, LeftoversBelowWindow
<1>13. ReadableValid'
  BY <1>4 DEF LedgerInv, ReadableValid
<1>. QED BY <1>1, <1>6, <1>7, <1>9, <1>10, <1>11, <1>12, <1>13 DEF LedgerInv

\* A restart without rebuild_index starts over with an empty index.
LEMMA RestartEmptyInv ==
  ASSUME LedgerInv, Restart, ~RebuildOnStart
  PROVE  LedgerInv'
<1>. USE ConstantTypes
<1>1. StorageTypeOK'
  BY RestartType DEF LedgerInv
<1>2. /\ DOMAIN index' = {} /\ DOMAIN hash_lookup' = {} /\ chain_height' = 0
      /\ to_delete' = {} /\ storing' = NoBlock
      /\ files' = files /\ Readable' = Readable
  BY DEF Restart, MemoryFrom, Readable
<1>. QED BY <1>1, <1>2 DEF LedgerInv, IndexedReadable, LookupExact, WindowComplete,
         WindowLinked, Window, PruneBelowWindow, StoreInProgress,
         LeftoversBelowWindow, ReadableValid

\* A restart with rebuild_index finds the window again, and the block that was
\* being stored on top of it.
LEMMA RestartRebuildInv ==
  ASSUME LedgerInv, Restart, RebuildOnStart
  PROVE  LedgerInv'
<1>. USE ConstantTypes
<1>1. StorageTypeOK'
  BY RestartType DEF LedgerInv
<1>2. /\ DOMAIN index' = Readable
      /\ \A k \in Readable : index'[k] = files[k].hash
      /\ to_delete' = {} /\ storing' = NoBlock
      /\ files' = files /\ Readable' = Readable
      /\ DOMAIN hash_lookup' = {files[k].hash : k \in Readable}
      /\ \A x \in DOMAIN hash_lookup' :
           hash_lookup'[x] \in Readable /\ files[hash_lookup'[x]].hash = x
      /\ MemoryFrom(Readable)
  BY DEF Restart, MemoryFrom, Readable
<1>3. /\ \A k \in DOMAIN index : k \in Readable
      /\ \A k \in Readable : files[k] \in Blocks /\ files[k].height = k /\ k \in Heights
  BY DEF LedgerInv, IndexedReadable, Loadable, Has_block, StorageTypeOK, Readable
<1>4. IndexedReadable'
  BY <1>2, <1>3 DEF IndexedReadable, Loadable, Load_block, Has_block
<1>5. LookupExact'
  BY <1>2, <1>3, SameHashSameHeight DEF LookupExact
<1>6. /\ chain_height' \in Heights
      /\ Readable = {} => chain_height' = 0
      /\ Readable # {} => chain_height' \in Readable /\ \A k \in Readable : k <= chain_height'
  <2>1. StorageTypeOK /\ Readable \in SUBSET Readable
    BY DEF LedgerInv
  <2>2. /\ chain_height' \in Heights
        /\ Readable # {} => chain_height' \in Readable /\ \A k \in Readable : k <= chain_height'
    BY <1>2, <2>1, MemoryFromType
  <2>. QED BY <1>2, <2>2 DEF MemoryFrom
\* The new chain height is the old one, or that of the block being stored.
<1>7. CASE Readable = {}
  <2>1. WindowFrom' = 0
    BY <1>6, <1>7 DEF WindowFrom, KeepFrom
  <2>. QED BY <1>1, <1>2, <1>4, <1>5, <1>6, <1>7 DEF LedgerInv, WindowComplete, WindowLinked,
           Window, PruneBelowWindow, StoreInProgress, LeftoversBelowWindow, ReadableValid
<1>8. CASE Readable # {} /\ DOMAIN index = {}
  <2>1. Readable = {0}
    <3>1. ASSUME NEW k \in Readable PROVE storing # NoBlock /\ k = storing.height
      BY <1>8 DEF LedgerInv, LeftoversBelowWindow
    <3>2. ASSUME NEW k \in Readable PROVE k = 0
      BY <1>3, <1>8, <3>1 DEF LedgerInv, StoreInProgress, Has_block, Heights
    <3>. QED BY <1>8, <3>2
  <2>2. chain_height' = 0 /\ WindowFrom' = 0
    BY <1>6, <2>1 DEF WindowFrom, KeepFrom
  <2>. QED BY <1>1, <1>2, <1>4, <1>5, <2>1, <2>2 DEF LedgerInv, WindowComplete, WindowLinked,
           Window, PruneBelowWindow, StoreInProgress, LeftoversBelowWindow, ReadableValid
<1>9. CASE Readable # {} /\ DOMAIN index # {}
  <2>1. /\ chain_height \in DOMAIN index /\ chain_height \in Heights
        /\ WindowFrom \in Nat /\ WindowFrom <= chain_height
    BY <1>9, WindowFromBounds DEF LedgerInv, WindowComplete, StorageTypeOK, Heights
  <2>2. chain_height <= chain_height'
    BY <1>3, <1>6, <1>9, <2>1
  <2>3. /\ WindowFrom' \in Nat /\ WindowFrom' <= chain_height'
        /\ WindowFrom <= WindowFrom'
    BY <1>6, <2>1, <2>2, KeepFromBounds DEF WindowFrom, Heights
  <2>4. \A k \in Readable : \/ k \in DOMAIN index /\ k <= chain_height
                            \/ storing # NoBlock /\ k = storing.height
                            \/ k < WindowFrom
    BY <1>9 DEF LedgerInv, LeftoversBelowWindow, WindowComplete
  <2>5. storing # NoBlock =>
          /\ storing.height \in Readable /\ files[storing.height] = storing
          /\ storing.height > 0 =>
               /\ storing.height - 1 \in DOMAIN index
               /\ storing.height <= chain_height + 1
               /\ Validate_chain_link(files[storing.height], files[storing.height - 1])
    <3>1. storing # NoBlock => storing \in Blocks /\ storing.height \in Heights
      BY DEF LedgerInv, StorageTypeOK
    <3>2. storing # NoBlock /\ storing.height > 0 =>
            storing.height - 1 \in DOMAIN index /\ storing.height - 1 <= chain_height
      BY <1>9 DEF LedgerInv, StoreInProgress, Has_block, WindowComplete
    <3>. QED BY <2>1, <3>1, <3>2 DEF LedgerInv, StoreInProgress, Load_block, Readable, Heights
  <2>6. chain_height' = chain_height \/ (storing # NoBlock /\ chain_height' = storing.height /\ chain_height' = chain_height + 1)
    <3>1. chain_height' \in Readable
      BY <1>6, <1>9
    <3>. QED BY <2>1, <2>2, <2>3, <2>4, <2>5, <3>1, <1>6 DEF Heights
  <2>7. WindowFrom' .. chain_height' \subseteq Readable
    <3> SUFFICES ASSUME NEW k \in WindowFrom' .. chain_height' PROVE k \in Readable
      OBVIOUS
    <3>1. CASE k <= chain_height
      BY <1>3, <1>9, <2>1, <2>3, <3>1 DEF LedgerInv, WindowComplete
    <3>2. CASE ~(k <= chain_height)
      BY <1>6, <1>9, <2>1, <2>3, <2>6, <3>2 DEF Heights
    <3>. QED BY <3>1, <3>2
  <2>8. WindowComplete'
    BY <1>2, <1>6, <1>9, <2>7 DEF WindowComplete
  <2>9. WindowLinked'
    <3> SUFFICES ASSUME NEW k \in Readable, k > WindowFrom'
                 PROVE  Validate_chain_link(files[k], files[k - 1])
      BY <1>2 DEF WindowLinked, Window, Load_block
    <3>1. k \in Heights /\ k > WindowFrom
      BY <1>3, <2>1, <2>3 DEF Heights
    <3>2. CASE k \in DOMAIN index
      BY <3>1, <3>2, <2>1 DEF LedgerInv, WindowLinked, Window, Load_block, Heights
    <3>3. CASE storing # NoBlock /\ k = storing.height
      BY <2>1, <2>5, <3>1, <3>3 DEF Heights
    <3>. QED BY <2>1, <2>4, <3>1, <3>2, <3>3 DEF Heights
  <2>. QED BY <1>1, <1>2, <1>4, <1>5, <2>8, <2>9 DEF LedgerInv, PruneBelowWindow,
           StoreInProgress, LeftoversBelowWindow, ReadableValid
<1>. QED BY <1>7, <1>8, <1>9

-----------------------------------------------------------------------------
(* The invariant, and the properties it implies.                           *)

LEMMA StorageUnchangedInv ==
  ASSUME LedgerInv, UNCHANGED storageVars
  PROVE  LedgerInv'
BY DEF LedgerInv, storageVars, memory, StorageTypeOK, IndexedReadable, LookupExact,
   WindowComplete, WindowLinked, Window, WindowFrom, PruneBelowWindow, StoreInProgress,
   LeftoversBelowWindow, ReadableValid, Readable, Loadable, Load_block, Has_block

LEMMA ConsiderBlockInv ==
  ASSUME LedgerInv, NEW e \in sorted_blocks, e.block \in Blocks, ConsiderBlock(e)
  PROVE  LedgerInv'
<1>1. CASE UNCHANGED storageVars
  BY <1>1, StorageUnchangedInv
<1>2. CASE ~AlreadyHeld(e.block) /\ Acceptable(e.block) /\ WriteFails(e.block)
  BY <1>2, WriteFailsInv DEF AlreadyHeld, Acceptable
<1>3. CASE ~AlreadyHeld(e.block) /\ Acceptable(e.block) /\ WriteBlock(e.block)
  BY <1>3, WriteBlockInv DEF AlreadyHeld, Acceptable, PassesChecks
<1>. QED BY <1>1, <1>2, <1>3 DEF ConsiderBlock

\* What an arriving sequence of blocks adds to the queue.
LEMMA DiscoveredType ==
  ASSUME SyncTypeOK, NEW bs \in Seq(Blocks), NEW from \in Nat, Discovered(bs, from)
  PROVE  /\ pending_blocks' \subseteq Arrival
         /\ stats' \in [blocks_discovered : 0 .. MaxDiscovered, blocks_downloaded : Nat,
                        blocks_validated : Nat, validation_errors : Nat, state : SyncStates]
<1>. DEFINE kept == {i \in DOMAIN bs : bs[i].height >= from}
            At(i) == stats.blocks_discovered + Cardinality({j \in kept : j <= i})
<1>1. IsFiniteSet(DOMAIN bs) /\ \A i \in DOMAIN bs : bs[i] \in Blocks
  BY FS_Interval
<1>2. IsFiniteSet(kept) /\ Cardinality(kept) \in Nat
  BY <1>1, FS_Subset, FS_CardinalityType
<1>3. ASSUME NEW i \in kept PROVE Cardinality({j \in kept : j <= i}) \in Nat
  <2>1. {j \in kept : j <= i} \in SUBSET kept
    OBVIOUS
  <2>. HIDE DEF kept
  <2>. QED BY <1>2, <2>1, FS_Subset, FS_CardinalityType
<1>4. stats.blocks_discovered \in Nat
  BY SyncAssumption DEF SyncTypeOK
<1>5. \A i \in kept : At(i) \in Nat /\ bs[i] \in Blocks
  BY <1>1, <1>3, <1>4
<1>6. /\ stats.blocks_discovered + Cardinality(kept) <= MaxDiscovered
      /\ pending_blocks' = pending_blocks \cup {[at |-> At(i), block |-> bs[i]] : i \in kept}
      /\ stats' = [stats EXCEPT !.blocks_discovered = @ + Cardinality(kept)]
  BY DEF Discovered
<1>7. pending_blocks' \subseteq Arrival
  <2>. HIDE DEF kept, At
  <2>. QED BY <1>5, <1>6 DEF Arrival, SyncTypeOK
<1>8. stats' \in [blocks_discovered : 0 .. MaxDiscovered, blocks_downloaded : Nat,
                  blocks_validated : Nat, validation_errors : Nat, state : SyncStates]
  <2>. DEFINE n == Cardinality(kept)
  <2>1. n \in Nat /\ stats.blocks_discovered + n \in 0 .. MaxDiscovered
    BY <1>2, <1>4, <1>6, SyncAssumption
  <2>2. stats' = [stats EXCEPT !.blocks_discovered = stats.blocks_discovered + n]
    BY <1>6
  <2>. HIDE DEF n, kept
  <2>. QED BY <2>1, <2>2 DEF SyncTypeOK
<1>. QED BY <1>7, <1>8

\* detect_and_resolve_forks finds a fork at a stored height or finds none.
LEMMA ForkHeightBound ==
  ASSUME LedgerInv, NEW chain \in Seq(Blocks)
  PROVE  ForkHeight(chain) \in Nat /\ ForkHeight(chain) <= chain_height
<1>1. chain_height \in Nat
  BY ConstantTypes DEF LedgerInv, StorageTypeOK, Heights
<1>2. CASE ~\E i \in DOMAIN chain : Differs(chain[i])
  BY <1>1, <1>2 DEF ForkHeight
<1>3. CASE \E i \in DOMAIN chain : Differs(chain[i])
  <2>. DEFINE I == {i \in DOMAIN chain : Differs(chain[i])}
              First(i) == i \in DOMAIN chain /\ Differs(chain[i])
                            /\ \A j \in 1 .. i - 1 : ~Differs(chain[j])
  <2>1. I \in SUBSET Nat /\ I # {}
    BY <1>3
  <2>2. PICK m \in I : \A k \in I : m <= k
    BY <2>1, NatMin
  <2>3. First(m)
    <3>1. \A j \in 1 .. m - 1 : j \in DOMAIN chain /\ ~(m <= j)
      BY <2>2
    <3>. QED BY <2>2, <3>1
  <2>4. PICK i \in DOMAIN chain : First(i) /\ ForkHeight(chain) = chain[i].height
    BY <1>3, <2>3 DEF ForkHeight
  <2>5. chain[i] \in Blocks /\ chain[i].height \in DOMAIN index
    BY <2>4 DEF Differs, Loadable, Has_block
  <2>. QED BY <1>1, <2>4, <2>5, ConstantTypes DEF LedgerInv, WindowComplete, Heights
<1>. QED BY <1>2, <1>3

\* The statistics a started process begins with are well typed.
StatsType == [blocks_discovered : 0 .. MaxDiscovered, blocks_downloaded : Nat,
              blocks_validated : Nat, validation_errors : Nat, state : SyncStates]

LEMMA InitialStatsType == InitialStats \in StatsType
<1>1. 0 \in 0 .. MaxDiscovered
  BY SyncAssumption
<1>2. "Idle" \in SyncStates
  BY DEF SyncStates
<1>. QED BY <1>1, <1>2 DEF InitialStats, StatsType

\* Type correctness needs LedgerInv: detect_and_resolve_forks computes
\* local_height - fork_height + 1, which is a height only because the fork is
\* found at an indexed, hence not higher, block.
LEMMA SyncStep ==
  ASSUME SyncTypeOK, LedgerInv, [Next]_vars
  PROVE  SyncTypeOK' /\ LedgerInv'
<1>. USE ConstantTypes
<1>. USE DEF SyncStates
<1>1. ASSUME NEW b \in Blocks, Add_pending_block(b)
      PROVE  SyncTypeOK' /\ LedgerInv'
  <2>1. LedgerInv'
    BY <1>1, StorageUnchangedInv DEF Add_pending_block
  <2>2. <<b>> \in Seq(Blocks) /\ 0 \in Nat /\ Discovered(<<b>>, 0)
    BY <1>1 DEF Add_pending_block
  <2>. QED BY <1>1, <2>1, <2>2, DiscoveredType DEF Add_pending_block, SyncTypeOK, LedgerInv
<1>2. CASE Request_blocks
  <2>1. LedgerInv'
    BY <1>2, StorageUnchangedInv DEF Request_blocks
  <2>. QED BY <1>2, <2>1 DEF Request_blocks, SyncTypeOK, LedgerInv
<1>3. CASE Reset
  <2>1. LedgerInv'
    BY <1>3, StorageUnchangedInv DEF Reset
  <2>. QED BY <1>3, <2>1 DEF Reset, SyncTypeOK, LedgerInv
<1>4. CASE Process_pending_blocks
  <2>1. LedgerInv'
    BY <1>4, StorageUnchangedInv DEF Process_pending_blocks
  <2>. QED BY <1>4, <2>1 DEF Process_pending_blocks, SyncTypeOK, LedgerInv
<1>5. ASSUME NEW e \in sorted_blocks, ConsiderBlock(e)
      PROVE  SyncTypeOK' /\ LedgerInv'
  <2>1. e.block \in Blocks
    BY DEF SyncTypeOK, Arrival
  <2>2. LedgerInv'
    BY <1>5, <2>1, ConsiderBlockInv
  <2>3. stats' = stats \/ Accepted \/ Rejected
    BY <1>5 DEF ConsiderBlock
  <2>4. stats' \in [blocks_discovered : 0 .. MaxDiscovered, blocks_downloaded : Nat,
                    blocks_validated : Nat, validation_errors : Nat, state : SyncStates]
    BY <2>3 DEF Accepted, Rejected, SyncTypeOK
  <2>5. current' \in Blocks \cup {NoBlock} /\ processed' \in Nat /\ sorted_blocks' \subseteq Arrival
    BY <1>5, <2>1 DEF ConsiderBlock, SyncTypeOK
  <2>6. UNCHANGED <<state, pending_blocks, calling, rollback, restarts>>
    BY <1>5 DEF ConsiderBlock
  <2>. QED BY <2>2, <2>4, <2>5, <2>6 DEF SyncTypeOK, LedgerInv
<1>6. CASE ContinueStore
  <2>1. LedgerInv'
    BY <1>6, IndexBlockInv, PruneBlockInv DEF ContinueStore, StoreStep
  <2>. QED BY <1>6, <2>1 DEF ContinueStore, syncVars, SyncTypeOK, LedgerInv
<1>7. CASE FinishBlock
  <2>1. LedgerInv'
    BY <1>7, StorageUnchangedInv DEF FinishBlock
  <2>2. stats' \in StatsType
    <3>1. stats \in StatsType
      BY DEF SyncTypeOK, StatsType
    <3>2. stats.blocks_downloaded + 1 \in Nat /\ stats.blocks_validated + 1 \in Nat
      BY <3>1 DEF StatsType
    <3>3. stats' = [stats EXCEPT !.blocks_downloaded = stats.blocks_downloaded + 1,
                                 !.blocks_validated = stats.blocks_validated + 1]
      BY <1>7 DEF FinishBlock
    <3>4. [stats EXCEPT !.blocks_downloaded = stats.blocks_downloaded + 1] \in StatsType
      BY <3>1, <3>2 DEF StatsType
    <3>. QED BY <3>2, <3>3, <3>4 DEF StatsType
  <2>3. processed' \in Nat /\ current' = NoBlock
    BY <1>7 DEF FinishBlock, SyncTypeOK
  <2>4. UNCHANGED <<state, pending_blocks, sorted_blocks, calling, rollback, restarts>>
    BY <1>7 DEF FinishBlock
  <2>. QED BY <2>1, <2>2, <2>3, <2>4 DEF SyncTypeOK, LedgerInv, StatsType
<1>8. CASE FinishProcessing
  <2>1. LedgerInv'
    BY <1>8, StorageUnchangedInv DEF FinishProcessing
  <2>. QED BY <1>8, <2>1 DEF FinishProcessing, SyncTypeOK, LedgerInv
<1>9. ASSUME NEW chain \in Chains, Detect_and_resolve_forks(chain)
      PROVE  SyncTypeOK' /\ LedgerInv'
  <2>1. LedgerInv'
    BY <1>9, StorageUnchangedInv DEF Detect_and_resolve_forks
  <2>2. chain \in Seq(Blocks)
    BY SyncAssumption
  <2>3. ForkHeight(chain) \in Nat /\ ForkHeight(chain) <= chain_height /\ chain_height \in Heights
    BY <2>2, ForkHeightBound DEF LedgerInv, StorageTypeOK
  <2>4. rollback' \in 0 .. MaxHeight
    BY <1>9, <2>3 DEF Detect_and_resolve_forks, Heights
  <2>5. /\ pending_blocks' \subseteq Arrival
        /\ stats' \in [blocks_discovered : 0 .. MaxDiscovered, blocks_downloaded : Nat,
                       blocks_validated : Nat, validation_errors : Nat, state : SyncStates]
    <3>1. CASE Discovered(chain, ForkHeight(chain))
      BY <2>2, <2>3, <3>1, DiscoveredType
    <3>2. CASE UNCHANGED <<pending_blocks, stats>>
      BY <3>2 DEF SyncTypeOK
    <3>. QED BY <1>9, <3>1, <3>2 DEF Detect_and_resolve_forks
  <2>6. UNCHANGED <<state, sorted_blocks, current, processed, calling, restarts>>
    BY <1>9 DEF Detect_and_resolve_forks
  <2>. QED BY <2>1, <2>4, <2>5, <2>6 DEF SyncTypeOK, LedgerInv
<1>10. CASE RestartSync
  <2>1. LedgerInv'
    BY <1>10, RestartEmptyInv, RestartRebuildInv DEF RestartSync
  <2>2. 0 \in 0 .. MaxHeight /\ 0 \in 0 .. MaxDiscovered
    BY SyncAssumption
  <2>3. restarts' \in 0 .. MaxRestarts
    BY <1>10, SyncAssumption DEF RestartSync, SyncTypeOK
  <2>4. InitialStats \in StatsType
    BY <2>2, InitialStatsType
  <2>5. /\ stats' \in StatsType /\ state' = "Idle" /\ calling' = FALSE
        /\ pending_blocks' = {} /\ sorted_blocks' = {}
        /\ current' = NoBlock /\ processed' = 0 /\ rollback' = 0
    BY <1>10, <2>4 DEF RestartSync
  <2>6. SyncTypeOK'
    <3>1. StorageTypeOK'
      BY <2>1 DEF LedgerInv
    <3>2. state' \in SyncStates
      BY <2>5 DEF SyncStates
    <3>. QED BY <2>2, <2>3, <2>5, <3>1, <3>2 DEF SyncTypeOK, StatsType
  <2>. QED BY <2>1, <2>6
<1>11. CASE UNCHANGED vars
  <2>1. LedgerInv'
    BY <1>11, StorageUnchangedInv DEF vars
  <2>. QED BY <1>11, <2>1 DEF vars, syncVars, SyncTypeOK, LedgerInv
<1>. QED BY <1>1, <1>2, <1>3, <1>4, <1>5, <1>6, <1>7, <1>8, <1>9, <1>10, <1>11
        DEF Next, ProcessStep

\* Every reachable state satisfies LedgerInv, for any blocks that arrive in any
\* order, with writes and removals failing and the process stopping anywhere.
THEOREM LedgerInvariant == Spec => [](SyncTypeOK /\ LedgerInv)
<1>1. Init => SyncTypeOK /\ LedgerInv
  <2> SUFFICES ASSUME Init PROVE SyncTypeOK /\ LedgerInv
    OBVIOUS
  <2>1. StorageTypeOK
    BY ConstantTypes DEF Init, StorageInit, StorageTypeOK, Heights
  <2>2. DOMAIN files = {} /\ DOMAIN index = {} /\ DOMAIN hash_lookup = {} /\ chain_height = 0
    BY DEF Init, StorageInit
  <2>3. LedgerInv
    BY <2>1, <2>2 DEF Init, StorageInit, LedgerInv, IndexedReadable, LookupExact,
       WindowComplete, WindowLinked, Window, PruneBelowWindow, StoreInProgress,
       LeftoversBelowWindow, ReadableValid, Readable
  <2>4. 0 \in 0 .. MaxHeight /\ 0 \in 0 .. MaxRestarts
    BY ConstantTypes, SyncAssumption
  <2>5. stats \in StatsType
    BY InitialStatsType DEF Init
  <2>6. SyncTypeOK
    BY <2>1, <2>4, <2>5 DEF Init, SyncTypeOK, StatsType, SyncStates
  <2>. QED BY <2>3, <2>6
<1>2. SyncTypeOK /\ LedgerInv /\ [Next]_vars => (SyncTypeOK /\ LedgerInv)'
  BY SyncStep
<1>. QED BY <1>1, <1>2, PTL DEF Spec

\* Every value stays in its type: the rollback count detect_and_resolve_forks
\* computes by subtraction never leaves the range of heights.
THEOREM SyncTypeCorrect == Spec => []SyncTypeOK
BY LedgerInvariant, PTL

\* An indexed block can always be loaded and is the recorded one.
THEOREM IndexedAlwaysReadable == Spec => []IndexedReadable
<1>1. LedgerInv => IndexedReadable
  BY DEF LedgerInv
<1>. QED BY <1>1, LedgerInvariant, PTL

\* The hash lookup and the index always agree.
THEOREM LookupAlwaysExact == Spec => []LookupExact
<1>1. LedgerInv => LookupExact
  BY DEF LedgerInv
<1>. QED BY <1>1, LedgerInvariant, PTL

\* The retention window never has a gap, and its blocks are always linked.
THEOREM WindowAlwaysLinked == Spec => [](WindowComplete /\ WindowLinked)
<1>1. LedgerInv => WindowComplete /\ WindowLinked
  BY DEF LedgerInv
<1>. QED BY <1>1, LedgerInvariant, PTL

\* A held block always passed every check, also if it came back from disk.
THEOREM HeldBlocksAlwaysValid == Spec => []HeldBlocksValid
<1>1. LedgerInv => HeldBlocksValid
  BY DEF LedgerInv, ReadableValid, HeldBlocksValid, IndexedReadable, Loadable, Load_block
<1>. QED BY <1>1, LedgerInvariant, PTL

\* A running node never replaces a block it holds, not even by one of a chain that won
\* against it: store_block indexes heights that are not held only, and pruning drops
\* whole entries.
THEOREM HeldBlocksStay == Spec => HeldNeverReplaced
<1>1. LedgerInv /\ [Next]_vars =>
        [~RestartSync => \A h \in DOMAIN index \cap DOMAIN index' : index'[h] = index[h]]_vars
  <2> SUFFICES ASSUME LedgerInv, Next, ~RestartSync,
                      NEW h \in DOMAIN index \cap DOMAIN index'
               PROVE  index'[h] = index[h]
    BY DEF vars, storageVars, memory
  <2>1. CASE UNCHANGED index
    BY <2>1
  <2>2. CASE IndexBlock
    <3>1. ~Has_block(storing.height)
      BY <2>2 DEF IndexBlock, LedgerInv, StoreInProgress
    <3>2. index' = Put(index, storing.height, storing.hash)
      BY <2>2 DEF IndexBlock
    <3>. QED BY <3>1, <3>2 DEF Put, Has_block
  <2>3. ASSUME NEW k \in to_delete, PruneBlock(k)
        PROVE  index'[h] = index[h]
    BY <2>3 DEF PruneBlock, Without, Restrict
  <2>4. UNCHANGED index \/ IndexBlock \/ \E k \in to_delete : PruneBlock(k)
    BY DEF Next, Add_pending_block, Request_blocks, Reset, Process_pending_blocks, ProcessStep,
       ConsiderBlock, WriteFails, WriteBlock, ContinueStore, StoreStep, FinishBlock,
       FinishProcessing, Detect_and_resolve_forks, storageVars, memory
  <2>. QED BY <2>1, <2>2, <2>3, <2>4
<1>. QED BY <1>1, LedgerInvariant, PTL DEF Spec, HeldNeverReplaced
-----------------------------------------------------------------------------
(* The synchronized state, and the accounting of blocks.                   *)

\* A call that has counted a block, and a state that says Synced, go with a
\* non-empty index; between calls nothing is left over of the last one.
CallInv ==
  /\ ~calling => sorted_blocks = {} /\ current = NoBlock
  /\ state = "Synced" \/ processed > 0 => DOMAIN index # {}
  /\ current # NoBlock => storing = current \/ DOMAIN index # {}

\* Arrival numbers do not exceed the number of blocks discovered so far.
QueueInv ==
  /\ IsFiniteSet(pending_blocks) /\ IsFiniteSet(sorted_blocks)
  /\ \A e \in pending_blocks : e.at <= stats.blocks_discovered

SyncInv == SyncTypeOK /\ LedgerInv /\ CallInv /\ QueueInv

\* Storing adds to the index, and pruning leaves its tip: an index that is not
\* empty stays so.
LEMMA IndexStaysNonEmpty ==
  ASSUME LedgerInv, StoreStep, DOMAIN index # {} \/ IndexBlock
  PROVE  DOMAIN index' # {}
<1>1. CASE IndexBlock
  BY <1>1 DEF IndexBlock, Put
<1>2. ASSUME NEW h \in to_delete, PruneBlock(h), DOMAIN index # {}
      PROVE  DOMAIN index' # {}
  <2>1. chain_height \in Heights /\ h \in Heights /\ h < KeepFrom(chain_height)
        /\ PruningEnabled /\ DOMAIN index \subseteq Heights
    BY DEF LedgerInv, StorageTypeOK, PruneBelowWindow
  <2>2. h # chain_height /\ chain_height \in WindowFrom .. chain_height
    BY <2>1, KeepFromBounds DEF WindowFrom, Heights
  <2>3. chain_height \in DOMAIN index
    BY <1>2, <2>2 DEF LedgerInv, WindowComplete
  <2>. QED BY <1>2, <2>2, <2>3 DEF PruneBlock, Without, Restrict
<1>. QED BY <1>1, <1>2 DEF StoreStep

\* Each kept block of an arriving sequence gets a number of its own, above all
\* the numbers given before: the queue grows by as many blocks as are counted.
LEMMA DiscoveredCount ==
  ASSUME SyncTypeOK, QueueInv, NEW bs \in Seq(Blocks), NEW from \in Nat,
         Discovered(bs, from)
  PROVE  /\ IsFiniteSet(pending_blocks')
         /\ \A e \in pending_blocks' : e.at <= stats'.blocks_discovered
         /\ Cardinality(pending_blocks') \in Nat /\ Cardinality(pending_blocks) \in Nat
         /\ Cardinality(pending_blocks') - Cardinality(pending_blocks)
              = stats'.blocks_discovered - stats.blocks_discovered
         /\ stats' = [stats EXCEPT !.blocks_discovered = stats'.blocks_discovered]
<1>. DEFINE kept == {i \in DOMAIN bs : bs[i].height >= from}
            upto(i) == {j \in kept : j <= i}
            At(i) == stats.blocks_discovered + Cardinality(upto(i))
            Entry(i) == [at |-> At(i), block |-> bs[i]]
            added == {Entry(i) : i \in kept}
            f == [i \in kept |-> Entry(i)]
<1>1. /\ pending_blocks' = pending_blocks \cup added
      /\ stats' = [stats EXCEPT !.blocks_discovered = @ + Cardinality(kept)]
  BY DEF Discovered
<1>2. stats.blocks_discovered \in Nat /\ DOMAIN stats = DOMAIN InitialStats
  BY SyncAssumption DEF SyncTypeOK, InitialStats
<1>3. IsFiniteSet(kept) /\ Cardinality(kept) \in Nat /\ kept \subseteq Nat
  <2>1. IsFiniteSet(DOMAIN bs) /\ DOMAIN bs \subseteq Nat
    BY FS_Interval
  <2>2. kept \in SUBSET DOMAIN bs
    OBVIOUS
  <2>. HIDE DEF kept
  <2>. QED BY <2>1, <2>2, FS_Subset, FS_CardinalityType
<1>. HIDE DEF kept
<1>4. ASSUME NEW i \in kept
      PROVE  /\ IsFiniteSet(upto(i)) /\ Cardinality(upto(i)) \in Nat
             /\ Cardinality(upto(i)) >= 1 /\ Cardinality(upto(i)) <= Cardinality(kept)
  <2>1. upto(i) \in SUBSET kept /\ i \in upto(i)
    BY <1>3
  <2>2. IsFiniteSet(upto(i)) /\ Cardinality(upto(i)) <= Cardinality(kept)
    BY <1>3, <2>1, FS_Subset
  <2>3. Cardinality(upto(i)) \in Nat /\ Cardinality(upto(i)) # 0
    BY <2>1, <2>2, FS_CardinalityType, FS_EmptySet
  <2>. QED BY <2>2, <2>3
<1>5. ASSUME NEW i \in kept, NEW j \in kept, i < j
      PROVE  Cardinality(upto(i)) # Cardinality(upto(j))
  <2>0. i \in Nat /\ j \in Nat
    BY <1>3
  <2>1. \A k \in kept : k \in Nat /\ (k <= i => k <= j)
    BY <1>3, <1>5, <2>0
  <2>2. j <= j /\ ~(j <= i)
    BY <1>5, <2>0
  <2>3. upto(i) \in SUBSET upto(j) /\ j \in upto(j) /\ j \notin upto(i)
    BY <2>1, <2>2
  <2>4. IsFiniteSet(upto(j)) /\ upto(i) # upto(j)
    BY <1>4, <2>3
  <2>. HIDE DEF upto
  <2>. QED BY <2>3, <2>4, FS_Subset
<1>6. \A i \in kept : At(i) \in Nat /\ At(i) > stats.blocks_discovered
                      /\ At(i) <= stats.blocks_discovered + Cardinality(kept)
  <2>. HIDE DEF upto
  <2>. QED BY <1>2, <1>3, <1>4
<1>7. ASSUME NEW i \in kept, NEW j \in kept, Entry(i) = Entry(j) PROVE i = j
  <2>1. At(i) = At(j)
    <3>. HIDE DEF At
    <3>. QED BY <1>7
  <2>2. Cardinality(upto(i)) = Cardinality(upto(j))
    <3>. HIDE DEF upto
    <3>. QED BY <1>2, <1>4, <2>1
  <2>3. ~(i < j) /\ ~(j < i)
    BY <1>5, <2>2
  <2>. QED BY <1>3, <2>3
<1>. HIDE DEF At
<1>8. IsFiniteSet(added) /\ Cardinality(added) = Cardinality(kept)
  <2>1. f \in [kept -> added] /\ \A a \in added : \E i \in kept : f[i] = a
    OBVIOUS
  <2>2. \A i, j \in kept : f[i] = f[j] => i = j
    <3>. HIDE DEF Entry
    <3>. QED BY <1>7
  <2>. HIDE DEF f, added
  <2>3. f \in Bijection(kept, added)
    BY <2>1, <2>2 DEF Bijection, Injection, Surjection, IsInjective
  <2>. QED BY <1>3, <2>3, FS_Bijection DEF ExistsBijection
<1>9. \A e \in added : e.at > stats.blocks_discovered
                       /\ e.at <= stats.blocks_discovered + Cardinality(kept) /\ e.at \in Nat
  BY <1>6
<1>10. pending_blocks \cap added = {} /\ \A e \in pending_blocks : e.at \in Nat
  BY <1>2, <1>9 DEF QueueInv, SyncTypeOK, Arrival
<1>. HIDE DEF added
<1>11. /\ IsFiniteSet(pending_blocks')
       /\ Cardinality(pending_blocks') = Cardinality(pending_blocks) + Cardinality(added)
       /\ Cardinality(pending_blocks) \in Nat
  <2>1. IsFiniteSet(pending_blocks) /\ Cardinality(pending_blocks) \in Nat
    BY FS_CardinalityType DEF QueueInv
  <2>2. IsFiniteSet(pending_blocks \cup added)
        /\ Cardinality(pending_blocks \cup added)
             = Cardinality(pending_blocks) + Cardinality(added) - Cardinality(pending_blocks \cap added)
    BY <1>8, <2>1, FS_Union
  <2>3. Cardinality(pending_blocks \cap added) = 0
    BY <1>10, FS_EmptySet
  <2>. QED BY <1>1, <1>3, <1>8, <2>1, <2>2, <2>3
<1>12. stats'.blocks_discovered = stats.blocks_discovered + Cardinality(kept)
  BY <1>1, <1>2 DEF InitialStats
<1>. QED BY <1>1, <1>2, <1>3, <1>8, <1>9, <1>10, <1>11, <1>12 DEF QueueInv

\* The difference that one step makes to the blocks accounted for.
Counted == Outstanding' - Outstanding = stats'.blocks_discovered - stats.blocks_discovered

\* What Outstanding adds up are numbers.
LEMMA OutstandingTerms ==
  ASSUME SyncTypeOK, QueueInv
  PROVE  /\ Cardinality(pending_blocks) \in Nat /\ Cardinality(sorted_blocks) \in Nat
         /\ stats.blocks_validated \in Nat /\ stats.validation_errors \in Nat
         /\ stats.blocks_downloaded \in Nat /\ stats.blocks_discovered \in Nat
BY FS_CardinalityType, SyncAssumption DEF SyncTypeOK, QueueInv

\* One block leaves the running call for one of the counters, or is stored.
LEMMA ConsiderCounted ==
  ASSUME SyncInv, NEW e \in sorted_blocks, ConsiderBlock(e)
  PROVE  CallInv' /\ QueueInv' /\ Counted
<1>1. /\ calling /\ current = NoBlock /\ sorted_blocks' = sorted_blocks \ {e}
      /\ UNCHANGED <<state, pending_blocks, calling, rollback, restarts>>
      /\ index' = index
      /\ \/ Accepted /\ Has_block(e.block.height) /\ processed' = processed + 1
            /\ current' = current
         \/ Rejected /\ UNCHANGED <<current, processed>>
         \/ current' = e.block /\ storing' = e.block /\ UNCHANGED <<stats, processed>>
  BY DEF ConsiderBlock, AlreadyHeld, WriteFails, WriteBlock, storageVars, memory
<1>2. e.block # NoBlock
  BY ConstantTypes DEF SyncInv, SyncTypeOK, Arrival
<1>3. IsFiniteSet(sorted_blocks') /\ Cardinality(sorted_blocks') = Cardinality(sorted_blocks) - 1
  BY <1>1, FS_RemoveElement DEF SyncInv, QueueInv
<1>4. stats'.blocks_discovered = stats.blocks_discovered
  BY <1>1 DEF Accepted, Rejected, SyncInv, SyncTypeOK
<1>5. CallInv'
  BY <1>1, <1>2 DEF SyncInv, CallInv, Has_block
<1>6. QueueInv'
  BY <1>1, <1>3, <1>4 DEF SyncInv, QueueInv
<1>7. stats'.blocks_validated + stats'.validation_errors + (IF current' = NoBlock THEN 0 ELSE 1)
        = stats.blocks_validated + stats.validation_errors + 1
  <2>1. CASE Accepted /\ current' = current
    BY <1>1, <2>1, OutstandingTerms DEF Accepted, SyncInv, SyncTypeOK
  <2>2. CASE Rejected /\ current' = current
    BY <1>1, <2>2, OutstandingTerms DEF Rejected, SyncInv, SyncTypeOK
  <2>3. CASE current' = e.block /\ stats' = stats
    BY <1>2, <2>3, OutstandingTerms DEF SyncInv
  <2>. QED BY <1>1, <2>1, <2>2, <2>3
<1>8. stats'.blocks_validated \in Nat /\ stats'.validation_errors \in Nat
  BY <1>1, OutstandingTerms DEF Accepted, Rejected, SyncInv, SyncTypeOK
<1>. QED BY <1>1, <1>3, <1>4, <1>5, <1>6, <1>7, <1>8, OutstandingTerms
         DEF Counted, Outstanding, SyncInv

\* One lemma for each kind of step of the queue.
LEMMA ArrivalCounted ==
  ASSUME SyncInv, NEW bs \in Seq(Blocks), NEW from \in Nat, Discovered(bs, from), ~calling,
         UNCHANGED <<storageVars, state, sorted_blocks, current, processed, calling>>
  PROVE  CallInv' /\ QueueInv' /\ Counted
<1>1. /\ IsFiniteSet(pending_blocks')
      /\ \A e \in pending_blocks' : e.at <= stats'.blocks_discovered
      /\ Cardinality(pending_blocks') \in Nat /\ Cardinality(pending_blocks) \in Nat
      /\ Cardinality(pending_blocks') - Cardinality(pending_blocks)
           = stats'.blocks_discovered - stats.blocks_discovered
      /\ stats' = [stats EXCEPT !.blocks_discovered = stats'.blocks_discovered]
  BY DiscoveredCount DEF SyncInv
<1>2. stats'.blocks_validated = stats.blocks_validated
      /\ stats'.validation_errors = stats.validation_errors
  BY <1>1 DEF SyncInv, SyncTypeOK
<1>3. stats'.blocks_discovered \in Nat
  BY DiscoveredType, SyncAssumption DEF SyncInv
<1>4. CallInv' /\ QueueInv'
  BY <1>1 DEF SyncInv, CallInv, QueueInv, storageVars, memory
<1>5. sorted_blocks' = sorted_blocks /\ current' = current
  OBVIOUS
<1>6. Cardinality(sorted_blocks) \in Nat /\ stats.blocks_validated \in Nat
      /\ stats.validation_errors \in Nat /\ stats.blocks_discovered \in Nat
  BY OutstandingTerms DEF SyncInv
<1>. DEFINE m == Cardinality(pending_blocks)
            n == Cardinality(pending_blocks')
            s == Cardinality(sorted_blocks)
            c == IF current = NoBlock THEN 0 ELSE 1
            v == stats.blocks_validated
            x == stats.validation_errors
            d == stats.blocks_discovered
            dd == stats'.blocks_discovered
<1>7. /\ m \in Nat /\ n \in Nat /\ s \in Nat /\ c \in Nat /\ v \in Nat /\ x \in Nat
      /\ d \in Nat /\ dd \in Nat /\ n - m = dd - d
  BY <1>1, <1>3, <1>6
<1>8. Outstanding = m + s + c + v + x /\ Outstanding' = n + s + c + v + x
  BY <1>2, <1>5 DEF Outstanding
<1>9. Counted
  <2>. HIDE DEF m, n, s, c, v, x, d, dd
  <2>1. (n + s + c + v + x) - (m + s + c + v + x) = dd - d
    BY <1>7
  <2>. QED BY <1>8, <2>1 DEF Counted, d, dd
<1>. QED BY <1>4, <1>9

\* A step that moves no block but keeps the numbers of blocks as they are.
LEMMA UnmovedCounted ==
  ASSUME SyncInv,
         UNCHANGED <<stats, pending_blocks, sorted_blocks, current>>
  PROVE  QueueInv' /\ Counted
<1>1. Outstanding' = Outstanding /\ stats'.blocks_discovered = stats.blocks_discovered
  BY DEF Outstanding
<1>2. Outstanding \in Nat
  BY OutstandingTerms DEF Outstanding, SyncInv
<1>3. QueueInv'
  BY DEF SyncInv, QueueInv
<1>. QED BY <1>1, <1>2, <1>3, OutstandingTerms DEF Counted, SyncInv

LEMMA ProcessCounted ==
  ASSUME SyncInv, Process_pending_blocks
  PROVE  CallInv' /\ QueueInv' /\ Counted
<1>1. /\ ~calling /\ calling' = TRUE /\ state' = "Validating" /\ processed' = 0
      /\ sorted_blocks' = pending_blocks /\ pending_blocks' = {}
      /\ UNCHANGED <<storageVars, stats, current, rollback, restarts>>
  BY DEF Process_pending_blocks
<1>2. sorted_blocks = {} /\ current = NoBlock
  BY <1>1 DEF SyncInv, CallInv
<1>3. CallInv'
  BY <1>1, <1>2 DEF CallInv
<1>4. QueueInv'
  BY <1>1, FS_EmptySet DEF SyncInv, QueueInv
<1>5. Cardinality(pending_blocks') = 0 /\ Cardinality(sorted_blocks) = 0
      /\ Cardinality(sorted_blocks') = Cardinality(pending_blocks)
  BY <1>1, <1>2, FS_EmptySet
<1>. QED BY <1>1, <1>3, <1>4, <1>5, OutstandingTerms DEF Counted, Outstanding, SyncInv

LEMMA FinishBlockCounted ==
  ASSUME SyncInv, FinishBlock
  PROVE  CallInv' /\ QueueInv' /\ Counted
<1>1. /\ current # NoBlock /\ storing = NoBlock /\ current' = NoBlock
      /\ processed' = processed + 1
      /\ UNCHANGED <<storageVars, state, pending_blocks, sorted_blocks, calling>>
  BY DEF FinishBlock, StorageIdle
<1>2. /\ stats'.blocks_validated = stats.blocks_validated + 1
      /\ stats'.validation_errors = stats.validation_errors
      /\ stats'.blocks_discovered = stats.blocks_discovered
  BY DEF FinishBlock, SyncInv, SyncTypeOK
<1>3. CallInv'
  BY <1>1 DEF SyncInv, CallInv, storageVars, memory
<1>4. QueueInv'
  BY <1>1, <1>2 DEF SyncInv, QueueInv
<1>. QED BY <1>1, <1>2, <1>3, <1>4, OutstandingTerms DEF Counted, Outstanding, SyncInv

\* Every step keeps the invariant and, apart from a reset and a restart, the
\* balance of the blocks.
LEMMA CountedStep ==
  ASSUME SyncInv, [Next]_vars
  PROVE  SyncInv' /\ (~RestartSync /\ ~Reset => Counted)
<1>0. SyncTypeOK' /\ LedgerInv'
  BY SyncStep DEF SyncInv
<1>. SUFFICES CallInv' /\ QueueInv' /\ (~RestartSync /\ ~Reset => Counted)
  BY <1>0 DEF SyncInv
<1>1. ASSUME NEW b \in Blocks, Add_pending_block(b)
      PROVE  CallInv' /\ QueueInv' /\ Counted
  <2>1. <<b>> \in Seq(Blocks) /\ 0 \in Nat
    OBVIOUS
  <2>. QED BY <1>1, <2>1, ArrivalCounted DEF Add_pending_block
<1>2. CASE Request_blocks
  <2>1. CallInv'
    BY <1>2 DEF Request_blocks, SyncInv, CallInv, storageVars, memory
  <2>. QED BY <1>2, <2>1, UnmovedCounted DEF Request_blocks
<1>3. CASE Reset
  <2>1. CallInv'
    BY <1>3 DEF Reset, SyncInv, CallInv, storageVars, memory
  <2>2. QueueInv'
    BY <1>3, FS_EmptySet DEF Reset, SyncInv, QueueInv
  <2>. QED BY <1>3, <2>1, <2>2
<1>4. CASE ContinueStore
  <2>1. UNCHANGED syncVars /\ StoreStep
    BY <1>4 DEF ContinueStore
  <2>2. DOMAIN index # {} => DOMAIN index' # {}
    BY <2>1, IndexStaysNonEmpty DEF SyncInv
  <2>3. storing' = storing \/ IndexBlock
    BY <2>1 DEF StoreStep, PruneBlock
  <2>4. IndexBlock => DOMAIN index' # {}
    BY <2>1, IndexStaysNonEmpty DEF SyncInv
  <2>5. CallInv'
    BY <2>1, <2>2, <2>3, <2>4 DEF syncVars, SyncInv, CallInv
  <2>. QED BY <2>1, <2>5, UnmovedCounted DEF syncVars
<1>5. CASE FinishProcessing
  <2>1. CallInv'
    BY <1>5, ConstantTypes DEF FinishProcessing, SyncInv, CallInv, storageVars, memory
  <2>. QED BY <1>5, <2>1, UnmovedCounted DEF FinishProcessing
<1>6. ASSUME NEW chain \in Chains, Detect_and_resolve_forks(chain)
      PROVE  CallInv' /\ QueueInv' /\ Counted
  <2>1. chain \in Seq(Blocks)
    BY SyncAssumption
  <2>2. ForkHeight(chain) \in Nat
    BY <2>1, ForkHeightBound DEF SyncInv
  <2>3. CASE Discovered(chain, ForkHeight(chain))
    BY <1>6, <2>1, <2>2, <2>3, ArrivalCounted DEF Detect_and_resolve_forks
  <2>4. CASE UNCHANGED <<pending_blocks, stats>>
    <3>1. CallInv'
      BY <1>6 DEF Detect_and_resolve_forks, SyncInv, CallInv, storageVars, memory
    <3>. QED BY <1>6, <2>4, <3>1, UnmovedCounted DEF Detect_and_resolve_forks
  <2>. QED BY <1>6, <2>3, <2>4 DEF Detect_and_resolve_forks
<1>7. CASE RestartSync
  <2>1. CallInv'
    BY <1>7 DEF RestartSync, CallInv
  <2>2. QueueInv'
    BY <1>7, FS_EmptySet DEF RestartSync, QueueInv
  <2>. QED BY <1>7, <2>1, <2>2
<1>8. CASE UNCHANGED vars
  <2>1. CallInv'
    BY <1>8 DEF vars, syncVars, storageVars, memory, SyncInv, CallInv
  <2>. QED BY <1>8, <2>1, UnmovedCounted DEF vars, syncVars
<1>. QED BY <1>1, <1>2, <1>3, <1>4, <1>5, <1>6, <1>7, <1>8, ProcessCounted, ConsiderCounted,
         FinishBlockCounted DEF Next, ProcessStep

LEMMA SyncInvariant == Spec => []SyncInv
<1>1. Init => CallInv /\ QueueInv
  BY FS_EmptySet DEF Init, CallInv, QueueInv
<1>2. SyncTypeOK /\ LedgerInv /\ CallInv /\ QueueInv => SyncInv
  BY DEF SyncInv
<1>3. SyncInv /\ [Next]_vars => SyncInv'
  BY CountedStep
<1>. QED BY <1>1, <1>2, <1>3, LedgerInvariant, PTL DEF Spec

\* A node that says it is synchronized holds a chain: a call only counts blocks
\* that are held or have just been indexed, and pruning never empties the index
\* (process_pending_blocks, validate_and_store_block, prune).
THEOREM SyncedAlwaysHoldsChain == Spec => []SyncedHoldsChain
<1>1. SyncInv => SyncedHoldsChain
  BY DEF SyncInv, CallInv, SyncedHoldsChain
<1>. QED BY <1>1, SyncInvariant, PTL

\* No block disappears between its discovery and the counters: it is pending,
\* in the running call, validated or an error (add_pending_block,
\* process_pending_blocks, detect_and_resolve_forks).
THEOREM NoBlockIsLost == Spec => NoBlockLost
<1>1. SyncInv /\ [Next]_vars =>
        [~RestartSync /\ ~Reset =>
           Outstanding' - Outstanding = stats'.blocks_discovered - stats.blocks_discovered]_vars
  BY CountedStep DEF Counted
<1>. QED BY <1>1, SyncInvariant, PTL DEF Spec, NoBlockLost
-----------------------------------------------------------------------------
(* The refinement of the abstract ledger.                                  *)

\* What the abstract ledger sees of the index.
LedgerView == Restrict(index, Window)

\* Whatever block of a hash HeaderOf picks, it has the header of all of them.
LEMMA HeaderOfHash ==
  ASSUME NEW b \in Blocks
  PROVE  LET c == HeaderOf(b.hash) IN
         c \in Blocks /\ c.hash = b.hash /\ c.height = b.height /\ c.prev = b.prev /\ c.time = b.time
<1>. DEFINE c == HeaderOf(b.hash)
<1>1. c \in Blocks /\ c.hash = b.hash
  BY DEF HeaderOf
<1>2. \A f \in HeaderFields : c[f] = b[f]
  BY <1>1, HashAssumption
<1>3. c["height"] = b["height"] /\ c["prev"] = b["prev"] /\ c["time"] = b["time"]
  BY <1>2 DEF HeaderFields
<1>. QED BY <1>1, <1>3

LEMMA LinkByHash ==
  ASSUME NEW b \in Blocks, NEW c \in Blocks, Validate_chain_link(b, c)
  PROVE  Validate_chain_link(HeaderOf(b.hash), HeaderOf(c.hash))
BY HeaderOfHash DEF Validate_chain_link

\* The three things a step can do to the view.
LEMMA ViewStays ==
  ASSUME LedgerInv, DOMAIN index' \subseteq Heights, chain_height' = chain_height,
         \A k \in Heights : k >= WindowFrom => (k \in DOMAIN index' <=> k \in DOMAIN index),
         \A k \in Window : index'[k] = index[k]
  PROVE  LedgerView' = LedgerView
<1>1. WindowFrom' = WindowFrom
  BY DEF WindowFrom
<1>2. Window' = Window
  BY <1>1 DEF Window, LedgerInv, StorageTypeOK
<1>. QED BY <1>2 DEF LedgerView, Restrict

LEMMA ViewStarts ==
  ASSUME DOMAIN index = {}, NEW b \in Blocks, b.height = 0,
         DOMAIN index' = {0}, index'[0] = b.hash, chain_height' = 0
  PROVE  Ledger!Start(b.hash)
<1>1. LedgerView = <<>>
  BY DEF LedgerView, Window, Restrict
<1>2. WindowFrom' = 0
  BY ConstantTypes DEF WindowFrom, KeepFrom
<1>3. Window' = {0}
  BY <1>2 DEF Window
<1>4. LedgerView' = [h \in {0} |-> b.hash]
  BY <1>3 DEF LedgerView, Restrict
<1>5. HeaderOf(b.hash).height = 0
  BY HeaderOfHash
<1>. QED BY <1>1, <1>4, <1>5 DEF LedgerView, Ledger!Start

LEMMA ViewExtends ==
  ASSUME LedgerInv, DOMAIN index # {}, NEW b \in Blocks, b.height = chain_height + 1,
         Validate_chain_link(b, files[chain_height]),
         DOMAIN index' \subseteq Heights, chain_height' = chain_height + 1,
         \A k \in Heights : k >= WindowFrom =>
           (k \in DOMAIN index' <=> k \in DOMAIN index \/ k = chain_height + 1),
         index'[chain_height + 1] = b.hash,
         \A k \in Window : index'[k] = index[k]
  PROVE  Ledger!Extend(b.hash)
<1>. USE ConstantTypes
<1>. DEFINE top == chain_height
            size == IF PruningEnabled THEN KeepBlocks ELSE MaxHeight + 1
            kept == {k \in Window \cup {top + 1} : k + size > top + 1}
<1>1. /\ top \in Heights /\ top + 1 \in Heights /\ DOMAIN index \subseteq Heights
      /\ WindowFrom \in Nat /\ WindowFrom <= top
  BY WindowFromBounds DEF LedgerInv, StorageTypeOK
<1>2. top \in Window
  BY <1>1 DEF LedgerInv, WindowComplete, Window, Heights
<1>3. \A k \in Window : k <= top
  BY DEF LedgerInv, WindowComplete, Window
<1>4. DOMAIN LedgerView = Window /\ LedgerView[top] = index[top]
  BY <1>2 DEF LedgerView, Restrict
<1>5. files[top] \in Blocks /\ files[top].hash = index[top]
  BY <1>2 DEF LedgerInv, IndexedReadable, Loadable, Load_block, Readable, StorageTypeOK, Window
<1>6. Validate_chain_link(HeaderOf(b.hash), HeaderOf(LedgerView[top]))
  BY <1>4, <1>5, LinkByHash
<1>7. WindowFrom' \in Nat /\ WindowFrom <= WindowFrom'
      /\ \A k \in Heights : k >= WindowFrom' <=> k + size > top + 1
  <2>1. CASE PruningEnabled
    BY <1>1, <2>1 DEF WindowFrom, KeepFrom, Heights
  <2>2. CASE ~PruningEnabled
    BY <1>1, <2>2 DEF WindowFrom, Heights
  <2>. QED BY <2>1, <2>2
<1>8. Window' = kept
  <2>1. ASSUME NEW k \in Window' PROVE k \in kept
    <3>1. k \in Heights /\ k >= WindowFrom' /\ k \in DOMAIN index'
      BY DEF Window
    <3>2. k >= WindowFrom
      BY <1>1, <1>7, <3>1 DEF Heights
    <3>. QED BY <1>7, <3>1, <3>2 DEF Window
  <2>2. ASSUME NEW k \in kept PROVE k \in Window'
    <3>1. k \in Heights /\ k >= WindowFrom /\ (k \in DOMAIN index \/ k = top + 1)
      BY <1>1 DEF Window, Heights
    <3>2. k \in DOMAIN index'
      BY <3>1
    <3>. QED BY <1>7, <3>1, <3>2 DEF Window
  <2>. QED BY <2>1, <2>2
<1>9. LedgerView' = [h \in kept |-> IF h = top + 1 THEN b.hash ELSE LedgerView[h]]
  <2>1. LedgerView' = [h \in kept |-> index'[h]]
    BY <1>8 DEF LedgerView, Restrict
  <2>2. ASSUME NEW h \in kept
        PROVE  index'[h] = IF h = top + 1 THEN b.hash ELSE LedgerView[h]
    BY DEF LedgerView, Restrict
  <2>. HIDE DEF kept
  <2>. QED BY <2>1, <2>2
<1>10. b.hash \in Hashes
  OBVIOUS
<1>. QED BY <1>2, <1>3, <1>4, <1>6, <1>9 DEF LedgerView, Ledger!Extend, Ledger!Heights
LEMMA IndexRefines ==
  ASSUME LedgerInv, IndexBlock
  PROVE  [Ledger!Next]_LedgerView
<1>. USE ConstantTypes
<1>. DEFINE b == storing
            h == storing.height
<1>1. /\ b \in Blocks /\ h \in Heights /\ h \notin DOMAIN index /\ b.hash \in Hashes
      /\ h > 0 => h - 1 \in DOMAIN index /\ Validate_chain_link(b, files[h - 1])
  BY DEF IndexBlock, LedgerInv, StorageTypeOK, StoreInProgress, Has_block, Load_block
<1>2. /\ DOMAIN index' = DOMAIN index \cup {h} /\ index'[h] = b.hash
      /\ \A k \in DOMAIN index : index'[k] = index[k]
      /\ chain_height' = IF h > chain_height THEN h ELSE chain_height
  BY <1>1 DEF IndexBlock, Put
<1>3. /\ DOMAIN index \subseteq Heights /\ DOMAIN index' \subseteq Heights
      /\ chain_height \in Heights /\ WindowFrom \in Nat /\ WindowFrom <= chain_height
  BY <1>1, <1>2, WindowFromBounds DEF LedgerInv, StorageTypeOK
<1>4. \A k \in Window : index'[k] = index[k]
  BY <1>2 DEF Window
<1>5. CASE DOMAIN index = {}
  <2>1. h = 0 /\ chain_height = 0
    BY <1>1, <1>5 DEF LedgerInv, WindowComplete, Heights
  <2>2. Ledger!Start(b.hash)
    BY <1>1, <1>2, <1>5, <2>1, ViewStarts
  <2>. QED BY <1>1, <2>2 DEF Ledger!Next
<1>6. CASE DOMAIN index # {}
  <2>1. h <= chain_height + 1 /\ h \notin WindowFrom .. chain_height
    BY <1>1, <1>3, <1>6 DEF LedgerInv, WindowComplete, Heights
  <2>2. CASE h = chain_height + 1
    <3>1. chain_height' = chain_height + 1 /\ Validate_chain_link(b, files[chain_height])
      BY <1>1, <1>2, <1>3, <2>2 DEF Heights
    <3>2. Ledger!Extend(b.hash)
      BY <1>1, <1>2, <1>3, <1>4, <1>6, <2>2, <3>1, ViewExtends
    <3>. QED BY <1>1, <3>2 DEF Ledger!Next
  <2>3. CASE h < WindowFrom
    <3>1. chain_height' = chain_height
      BY <1>1, <1>2, <1>3, <2>3 DEF Heights
    <3>2. \A k \in Heights : k >= WindowFrom => k # h
      BY <1>1, <1>3, <2>3 DEF Heights
    <3>. QED BY <1>2, <1>3, <1>4, <3>1, <3>2, ViewStays
  <2>. QED BY <1>1, <1>3, <2>1, <2>2, <2>3 DEF Heights
<1>. QED BY <1>5, <1>6

LEMMA PruneRefines ==
  ASSUME LedgerInv, NEW h \in to_delete, PruneBlock(h)
  PROVE  LedgerView' = LedgerView
<1>1. /\ DOMAIN index \subseteq Heights /\ h \in Heights /\ WindowFrom \in Nat /\ h < WindowFrom
  BY WindowFromBounds DEF LedgerInv, StorageTypeOK, PruneBelowWindow, WindowFrom
<1>2. /\ DOMAIN index' = DOMAIN index \ {h} /\ chain_height' = chain_height
      /\ \A k \in DOMAIN index' : index'[k] = index[k]
  BY DEF PruneBlock, Without, Restrict
<1>3. \A k \in Heights : k >= WindowFrom => k # h
  BY <1>1 DEF Heights, ConstantTypes
<1>4. \A k \in Window : k \in DOMAIN index'
  BY <1>1, <1>2, <1>3 DEF Window
<1>. QED BY <1>1, <1>2, <1>3, <1>4, ViewStays

\* A restart loses the window, or finds it again with or without the block that
\* was being stored.
LEMMA RestartRefines ==
  ASSUME LedgerInv, Restart
  PROVE  [Ledger!Next]_LedgerView
<1>. USE ConstantTypes
<1>1. CASE ~RebuildOnStart
  <2>1. DOMAIN index' = {}
    BY <1>1 DEF Restart, MemoryFrom
  <2>2. LedgerView' = <<>>
    BY <2>1 DEF LedgerView, Window, Restrict
  <2>. QED BY <1>1, <2>2 DEF LedgerView, Ledger!Next, Ledger!Lose
<1>2. CASE RebuildOnStart
  <2>1. /\ DOMAIN index' = Readable
        /\ \A k \in Readable : index'[k] = files[k].hash
        /\ Readable = {} => chain_height' = 0
    BY <1>2 DEF Restart, MemoryFrom
  <2>2. /\ DOMAIN index \subseteq Readable /\ Readable \subseteq Heights
        /\ \A k \in DOMAIN index : files[k].hash = index[k]
        /\ \A k \in Readable : files[k] \in Blocks /\ files[k].height = k
    BY DEF LedgerInv, IndexedReadable, Loadable, Load_block, Has_block, StorageTypeOK, Readable
  <2>3. /\ chain_height \in Heights /\ chain_height' \in Heights
        /\ WindowFrom \in Nat /\ WindowFrom <= chain_height
        /\ Readable # {} => chain_height' \in Readable /\ \A k \in Readable : k <= chain_height'
    <3>1. StorageTypeOK /\ Readable \in SUBSET Readable /\ MemoryFrom(Readable)
      BY <1>2 DEF LedgerInv, Restart
    <3>. QED BY <3>1, MemoryFromType, WindowFromBounds DEF StorageTypeOK
  <2>4. \A k \in Window : index'[k] = index[k]
    BY <2>1, <2>2 DEF Window
  <2>5. ASSUME NEW k \in Readable, k \notin DOMAIN index
        PROVE  \/ /\ storing # NoBlock /\ k = storing.height /\ files[k] = storing
                  /\ k > 0 => k - 1 \in DOMAIN index /\ Validate_chain_link(files[k], files[k - 1])
               \/ DOMAIN index # {} /\ k < WindowFrom
    BY <1>2, <2>5 DEF LedgerInv, LeftoversBelowWindow, StoreInProgress, Has_block, Load_block
  <2>6. CASE Readable = {}
    <3>1. DOMAIN index = {} /\ chain_height' = chain_height /\ DOMAIN index' \subseteq Heights
      BY <2>1, <2>2, <2>6 DEF LedgerInv, WindowComplete
    <3>. QED BY <2>1, <2>4, <2>6, <3>1, ViewStays
  <2>7. CASE Readable # {} /\ DOMAIN index = {}
    <3>1. ASSUME NEW k \in Readable PROVE k = 0
      BY <2>2, <2>5, <2>7 DEF Heights
    <3>2. Readable = {0}
      BY <2>7, <3>1
    <3>3. DOMAIN index' = {0} /\ index'[0] = files[0].hash /\ chain_height' = 0
          /\ files[0] \in Blocks /\ files[0].height = 0
      BY <2>1, <2>2, <2>3, <3>2
    <3>4. Ledger!Start(files[0].hash)
      BY <2>7, <3>3, ViewStarts
    <3>. QED BY <3>3, <3>4 DEF Ledger!Next
  <2>8. CASE DOMAIN index # {}
    <3>1. chain_height \in DOMAIN index /\ \A k \in DOMAIN index : k <= chain_height
      BY <2>3, <2>8 DEF LedgerInv, WindowComplete, Heights
    <3>2. chain_height' \in Readable /\ \A k \in Readable : k <= chain_height'
      BY <2>2, <2>3, <2>8
    <3>3. chain_height <= chain_height'
      BY <2>2, <3>1, <3>2
    <3>4. CASE chain_height' \in DOMAIN index
      <4>1. chain_height' = chain_height
        BY <2>3, <3>1, <3>3, <3>4 DEF Heights
      <4>2. ASSUME NEW k \in Heights, k >= WindowFrom
            PROVE  k \in DOMAIN index' <=> k \in DOMAIN index
        <5> SUFFICES ASSUME k \in Readable, k \notin DOMAIN index PROVE FALSE
          BY <2>1, <2>2
        <5>1. k > 0 => k - 1 \in DOMAIN index
          BY <2>3, <2>5, <4>2 DEF Heights
        <5>2. k <= chain_height
          BY <3>2, <4>1
        <5>3. k \in WindowFrom .. chain_height
          BY <2>3, <4>2, <5>2 DEF Heights
        <5>. QED BY <2>8, <5>3 DEF LedgerInv, WindowComplete
      <4>. QED BY <2>1, <2>2, <2>4, <4>1, <4>2, ViewStays
    <3>5. CASE chain_height' \notin DOMAIN index
      <4>. DEFINE n == chain_height'
      <4>1. n > chain_height
        BY <2>3, <3>1, <3>3, <3>5 DEF Heights
      <4>2. /\ storing # NoBlock /\ n = storing.height /\ n - 1 \in DOMAIN index
            /\ Validate_chain_link(files[n], files[n - 1])
        BY <2>3, <2>5, <3>2, <3>5, <4>1 DEF Heights
      <4>3. n = chain_height + 1
        <5>1. n - 1 <= chain_height
          BY <3>1, <4>2
        <5>2. n \in Nat /\ chain_height \in Nat
          BY <2>3 DEF Heights
        <5>. HIDE DEF n
        <5>. QED BY <4>1, <5>1, <5>2
      <4>4. ASSUME NEW k \in Heights, k >= WindowFrom
            PROVE  k \in DOMAIN index' <=> k \in DOMAIN index \/ k = chain_height + 1
        <5>1. ASSUME k \in Readable, k \notin DOMAIN index PROVE k = chain_height + 1
          BY <2>3, <2>5, <4>2, <4>3, <4>4, <5>1 DEF Heights
        <5>. QED BY <2>1, <2>2, <3>2, <4>3, <5>1
      <4>5. files[n] \in Blocks /\ files[n].height = chain_height + 1
            /\ Validate_chain_link(files[n], files[chain_height])
            /\ index'[chain_height + 1] = files[n].hash /\ n - 1 = chain_height
        BY <2>1, <2>2, <2>3, <3>2, <4>2, <4>3 DEF Heights
      <4>6. Ledger!Extend(files[n].hash)
        BY <2>1, <2>2, <2>4, <2>8, <4>3, <4>4, <4>5, ViewExtends
      <4>. QED BY <4>5, <4>6 DEF Ledger!Next
    <3>. QED BY <3>4, <3>5
  <2>. QED BY <2>6, <2>7, <2>8
<1>. QED BY <1>1, <1>2

\* Between its steps on the index ChainSync leaves the abstract ledger alone.
LEMMA StepRefines ==
  ASSUME LedgerInv, [Next]_vars
  PROVE  [Ledger!Next]_LedgerView
<1>1. CASE UNCHANGED <<index, chain_height>>
  BY <1>1 DEF LedgerView, Window, WindowFrom
<1>2. CASE StoreStep
  BY <1>2, IndexRefines, PruneRefines DEF StoreStep
<1>3. CASE Restart
  BY <1>3, RestartRefines
<1>4. UNCHANGED <<index, chain_height>> \/ StoreStep \/ Restart
  BY DEF Next, Add_pending_block, Request_blocks, Reset, Process_pending_blocks, ProcessStep,
     ConsiderBlock, WriteFails, WriteBlock, ContinueStore, FinishBlock, FinishProcessing,
     Detect_and_resolve_forks, RestartSync, vars, storageVars, memory
<1>. QED BY <1>1, <1>2, <1>3, <1>4

\* ChainSync implements the abstract ledger of LedgerWindow: the retention
\* window starts at a genesis block, moves forward by one linked block at a time,
\* and comes back whole after a restart that rebuilds the index
\* (validate_and_store_block, store_block, prune, rebuild_index).
THEOREM LedgerImplemented == Spec => ImplementsLedger
<1>1. Init => Ledger!Init
  <2> SUFFICES ASSUME Init PROVE Ledger!Init
    OBVIOUS
  <2>1. Window = {}
    BY DEF Init, StorageInit, Window
  <2>. QED BY <2>1 DEF Restrict, Ledger!Init
<1>2. LedgerInv /\ [Next]_vars => [Ledger!Next]_LedgerView
  BY StepRefines
<1>. QED BY <1>1, <1>2, LedgerInvariant, PTL DEF Spec, ImplementsLedger, Ledger!Spec, LedgerView
=============================================================================
