----------------------------- MODULE MessageCache -----------------------------
(***************************************************************************)
(* The message cache of an appliance (myriadmesh-appliance/src/cache.rs):  *)
(* messages by id, with a limit per device and one over all, kept in       *)
(* memory and in one JSON file.  Each operation holds the write lock from  *)
(* its first check to its last change; the save comes after it, and other  *)
(* operations may come in between.                                         *)
(*                                                                         *)
(* A message is [id, device, rank, expires, delivered]: rank stands for    *)
(* its priority and time of arrival, in the order of eviction.             *)
(***************************************************************************)
EXTENDS Naturals, FiniteSets, Functions

CONSTANTS
  Callers,       \* tasks that use the cache
  Devices,
  Messages,      \* messages that may be stored
  MaxPerDevice,  \* config.max_messages_per_device
  MaxTotal,      \* config.max_total_messages
  Unreadable,    \* content of a file that does not parse
  MaxNow         \* bound on the clock

Ids == {m.id : m \in Messages}

ASSUME CacheAssumption ==
  /\ Messages \subseteq [id : Ids, device : Devices, rank : Nat, expires : Nat, delivered : BOOLEAN]
  /\ MaxPerDevice \in Nat /\ MaxTotal \in Nat
  /\ MaxNow \in Nat

VARIABLES
  messages,     \* id -> message
  cache_file, cache_saver, cache_json, cache_stale,  \* see JsonFile
  now

Cache == INSTANCE JsonFile WITH data <- messages, file <- cache_file,
           saver <- cache_saver, json <- cache_json, stale <- cache_stale
cacheVars == <<messages, cache_file, cache_saver, cache_json, cache_stale>>

-----------------------------------------------------------------------------
CountOf(msgs, d) == Cardinality({i \in DOMAIN msgs : msgs[i].device = d})

\* Delivered messages of d go, and if there are still too many, as many of the
\* lowest rank as are in excess: the set of possible results.
Evict_messages_Mut(msgs, d) ==   \* delivered or not
  {Restrict(msgs, {i \in DOMAIN msgs : msgs[i].device # d})}
Evict_messages(msgs, d) ==
  LET kept   == Restrict(msgs, {i \in DOMAIN msgs : ~(msgs[i].device = d /\ msgs[i].delivered)})
      mine   == {i \in DOMAIN kept : kept[i].device = d}
      Lowest == {S \in SUBSET mine :
                   /\ Cardinality(S) + MaxPerDevice = Cardinality(mine)
                   /\ \A i \in S, j \in mine \ S : kept[i].rank <= kept[j].rank}
  IN IF Cardinality(mine) <= MaxPerDevice THEN {kept}
     ELSE {Restrict(kept, DOMAIN kept \ S) : S \in Lowest}

Evict_global(msgs) ==
  Restrict(msgs, {i \in DOMAIN msgs : ~msgs[i].delivered /\ msgs[i].expires > now})

Unexpired(msgs) == Restrict(msgs, {i \in DOMAIN msgs : msgs[i].expires > now})

\* What the limit per device, then the limit over all, leave of the messages
\* before a message of d is stored.
FitDevice(d) ==
  IF CountOf(messages, d) < MaxPerDevice THEN {messages} ELSE Evict_messages(messages, d)
FitTotal(msgs) == IF Cardinality(DOMAIN msgs) < MaxTotal THEN msgs ELSE Evict_global(msgs)

-----------------------------------------------------------------------------
CacheInit == Cache!JsonInit /\ now = 0

Idle(c) == cache_saver[c] = "no"

\* store puts the message in, also over one of the same id.
StoreAccepted_Mut(c, m) ==   \* the total is not checked again after the eviction
  /\ Idle(c)
  /\ \E kept \in FitDevice(m.device) :
       /\ CountOf(kept, m.device) < MaxPerDevice
       /\ LET rest == FitTotal(kept)
          IN Cache!Change(c, [i \in DOMAIN rest \cup {m.id} |-> IF i = m.id THEN m ELSE rest[i]])
  /\ UNCHANGED now
StoreAccepted_Mut2(c, m) ==   \* keyed by device
  /\ Idle(c)
  /\ \E kept \in FitDevice(m.device) :
       /\ CountOf(kept, m.device) < MaxPerDevice
       /\ LET rest == FitTotal(kept)
          IN /\ Cardinality(DOMAIN rest) < MaxTotal
             /\ Cache!Change(c, [i \in DOMAIN rest \cup {m.device} |->
                                   IF i = m.device THEN m ELSE rest[i]])
  /\ UNCHANGED now
StoreAccepted(c, m) ==
  /\ Idle(c)
  /\ \E kept \in FitDevice(m.device) :
       /\ CountOf(kept, m.device) < MaxPerDevice
       /\ LET rest == FitTotal(kept)
          IN /\ Cardinality(DOMAIN rest) < MaxTotal
             /\ Cache!Change(c, [i \in DOMAIN rest \cup {m.id} |->
                                   IF i = m.id THEN m ELSE rest[i]])
  /\ UNCHANGED now

\* store returns CacheFull: what was evicted is gone, and nothing is saved.
StoreRefused(c, m) ==
  /\ Idle(c)
  /\ \E kept \in FitDevice(m.device) :
       \/ /\ CountOf(kept, m.device) >= MaxPerDevice
          /\ Cache!ChangeUnsaved(kept)
       \/ /\ CountOf(kept, m.device) < MaxPerDevice
          /\ Cardinality(DOMAIN FitTotal(kept)) >= MaxTotal
          /\ Cache!ChangeUnsaved(FitTotal(kept))
  /\ UNCHANGED now

Mark_delivered(c, ids) ==
  /\ Idle(c) /\ ids # {}
  /\ Cache!Change(c, [i \in DOMAIN messages |->
       IF i \in ids THEN [messages[i] EXCEPT !.delivered = TRUE] ELSE messages[i]])
  /\ UNCHANGED now

\* Saves only if there was something to delete.
Cleanup_expired(c) ==
  /\ Idle(c)
  /\ IF Unexpired(messages) = messages THEN Cache!ChangeUnsaved(messages)
     ELSE Cache!Change(c, Unexpired(messages))
  /\ UNCHANGED now

Delete_device_messages(c, d) ==
  /\ Idle(c)
  /\ Cache!Change(c, Restrict(messages, {i \in DOMAIN messages : messages[i].device # d}))
  /\ UNCHANGED now

CacheSave(c) == Cache!SaveStep(c) /\ UNCHANGED now

\* The client of the request that saves hangs up.
CacheHangUp(c) == Cache!AbandonSave(c) /\ UNCHANGED now

\* The process stops and MessageCache::new reads the file.
CacheRestart ==
  /\ \E content \in Cache!AfterCrash : Cache!Load(content)
  /\ UNCHANGED now

Tick == now < MaxNow /\ now' = now + 1 /\ UNCHANGED cacheVars

CacheNext ==
  \/ \E c \in Callers, m \in Messages : StoreAccepted(c, m) \/ StoreRefused(c, m)
  \/ \E c \in Callers, ids \in SUBSET Ids : Mark_delivered(c, ids)
  \/ \E c \in Callers : Cleanup_expired(c) \/ CacheSave(c) \/ CacheHangUp(c)
  \/ \E c \in Callers, d \in Devices : Delete_device_messages(c, d)
  \/ CacheRestart
  \/ Tick

CacheSpec == CacheInit /\ [][CacheNext]_<<cacheVars, now>>

-----------------------------------------------------------------------------
CacheTypeOK ==
  /\ DOMAIN messages \subseteq Ids
  /\ \A i \in DOMAIN messages :
       \E m \in Messages : i = m.id /\ \E b \in BOOLEAN : messages[i] = [m EXCEPT !.delivered = b]
  /\ cache_saver \in [Callers -> {"no", "due", "writing", "orphan"}]
  /\ cache_stale \in BOOLEAN
  /\ now \in 0 .. MaxNow

\* The limits hold whatever operations meet: the check and the insertion are one
\* critical section (store), and nothing else adds a message.
LimitsHeld ==
  /\ \A d \in Devices : CountOf(messages, d) <= MaxPerDevice
  /\ Cardinality(DOMAIN messages) <= MaxTotal

\* Once nothing is written any more, the file holds what memory holds, unless the
\* last save failed, lost its client, or met the write of one that had: saves that
\* overlap with other operations, and with each other, bring no old content back
\* (save holds the read lock until the file is written).
FileFollowsMemory == Cache!FileCurrent

\* Message i is what it was, up to its delivery.
Kept(i) ==
  /\ i \in DOMAIN messages'
  /\ \E b \in BOOLEAN : messages'[i] = [messages[i] EXCEPT !.delivered = b]

\* A message that is neither delivered nor expired stays as it is until its device
\* goes, the process stops, or a message is accepted under its very id: eviction
\* and cleanup never drop it, nor does a store that is refused (store,
\* evict_messages_locked, evict_global_locked, cleanup_expired).
NoSilentLoss ==
  [][~CacheRestart /\ ~(\E c \in Callers, d \in Devices : Delete_device_messages(c, d)) =>
       \A i \in DOMAIN messages :
         \/ messages[i].delivered \/ messages[i].expires <= now
         \/ Kept(i)
         \/ \E c \in Callers, m \in Messages : m.id = i /\ StoreAccepted(c, m)]_<<cacheVars, now>>
=============================================================================
