------------------------------ MODULE Appliance ------------------------------
(***************************************************************************)
(* The appliance manager (myriadmesh-appliance/src/manager.rs) on top of   *)
(* its three parts: pending pairings (pairing.rs, in memory), the paired   *)
(* devices (device.rs, JsonFile) and the message cache (MessageCache).     *)
(* Requests come in through the API and run as tasks of their own; each    *)
(* part has its own lock, so a call of the manager is a step per part it   *)
(* uses, and other calls come in between.  A cleanup task runs every five  *)
(* minutes.                                                                *)
(*                                                                         *)
(* A paired device is what the code never changes of it: the pairing token *)
(* that made it.  Nothing ever clears "active" (PairedDevice::revoke has   *)
(* no caller), so each stored device counts as active.                     *)
(***************************************************************************)
EXTENDS MessageCache

CONSTANTS
  Requests,         \* API requests that can run at the same time
  Tokens,           \* pairing tokens (UUIDs, fresh each time)
  MaxDevices,       \* config.max_paired_devices
  RequireApproval,  \* config.require_pairing_approval
  PairingTime,      \* ticks until a token expires (five minutes)
  None

ASSUME ApplianceAssumption ==
  /\ Callers = Requests \cup {"cleanup"} /\ "cleanup" \notin Requests
  /\ None \notin Tokens \cup Devices \cup Messages
  /\ MaxDevices \in Nat /\ PairingTime \in Nat
  /\ RequireApproval \in BOOLEAN

VARIABLES
  devices,      \* device -> the token it was paired with
  device_file, device_saver, device_json, device_stale,  \* see JsonFile
  pending,      \* token -> the pending pairing
  used,         \* tokens generated so far
  call,         \* task -> where its call is, and the call's local variables
  verdict       \* token -> what the owner said last while it was pending (history)

DeviceFile == INSTANCE JsonFile WITH data <- devices, file <- device_file,
                saver <- device_saver, json <- device_json, stale <- device_stale
deviceVars == <<devices, device_file, device_saver, device_json, device_stale>>
pairingVars == <<pending, used, verdict>>
vars == <<cacheVars, now, deviceVars, pairingVars, call>>

NoCall == [at |-> "none", device |-> None, token |-> None, message |-> None]
Begin(c, at, d, t, m) ==
  call' = [call EXCEPT ![c] = [at |-> at, device |-> d, token |-> t, message |-> m]]
Goto(c, at) == call' = [call EXCEPT ![c].at = at]
Return(c) == call' = [call EXCEPT ![c] = NoCall]
Free(c) == c \in Requests /\ call[c] = NoCall /\ cache_saver[c] = "no" /\ device_saver[c] = "no"

Put(f, k, v) == [x \in DOMAIN f \cup {k} |-> IF x = k THEN v ELSE f[x]]
Without(f, k) == Restrict(f, DOMAIN f \ {k})

Init ==
  /\ CacheInit /\ DeviceFile!JsonInit
  /\ pending = <<>> /\ used = {} /\ verdict = [t \in Tokens |-> "none"]
  /\ call = [c \in Callers |-> NoCall]

-----------------------------------------------------------------------------
\* initiate_pairing counts the devices, looks for the device, and then has the
\* pairing manager generate a token.  A refusal changes nothing.
Initiate_pairing(c, d) ==
  /\ Free(c) /\ used # Tokens
  /\ Cardinality(DOMAIN devices) < MaxDevices
  /\ Begin(c, "find", d, None, None)
  /\ UNCHANGED <<cacheVars, now, deviceVars, pairingVars>>

InitiateFind(c) ==
  /\ call[c].at = "find"
  /\ IF call[c].device \in DOMAIN devices THEN Return(c) ELSE Goto(c, "request")
  /\ UNCHANGED <<cacheVars, now, deviceVars, pairingVars>>

InitiateRequest(c, t) ==
  /\ call[c].at = "request" /\ t \notin used
  /\ used' = used \cup {t}
  /\ pending' = Put(pending, t, [device   |-> call[c].device,
                                 approved |-> ~RequireApproval,
                                 expires  |-> now + PairingTime])
  /\ Return(c)
  /\ UNCHANGED <<cacheVars, now, deviceVars, verdict>>

Expired(t) == now > pending[t].expires

Approve_pairing(t) ==
  /\ t \in DOMAIN pending
  /\ IF Expired(t) THEN pending' = Without(pending, t) /\ UNCHANGED verdict
     ELSE /\ pending' = [pending EXCEPT ![t].approved = TRUE]
          /\ verdict' = [verdict EXCEPT ![t] = "approved"]
  /\ UNCHANGED <<cacheVars, now, deviceVars, used, call>>

Reject_pairing_Mut(t) ==   \* a request that was approved stays
  /\ t \in DOMAIN pending
  /\ pending' = IF pending[t].approved THEN pending ELSE Without(pending, t)
  /\ verdict' = [verdict EXCEPT ![t] = "rejected"]
  /\ UNCHANGED <<cacheVars, now, deviceVars, used, call>>
Reject_pairing(t) ==
  /\ t \in DOMAIN pending
  /\ pending' = Without(pending, t)
  /\ verdict' = [verdict EXCEPT ![t] = "rejected"]
  /\ UNCHANGED <<cacheVars, now, deviceVars, used, call>>

\* complete_pairing, in the pairing manager: an expired token is removed, an
\* approved one whose challenge was signed is used up.  Otherwise nothing changes.
\* The device to store is named by the request.
Complete_pairing_Mut(c, t, d) ==   \* the token is left for cleanup_expired
  /\ Free(c) /\ t \in DOMAIN pending
  /\ ~Expired(t) /\ pending[t].approved
  /\ UNCHANGED pending
  /\ Begin(c, "pair", d, t, None)
  /\ UNCHANGED <<cacheVars, now, deviceVars, used, verdict>>
Complete_pairing(c, t, d) ==
  /\ Free(c) /\ t \in DOMAIN pending
  /\ Expired(t) \/ pending[t].approved
  /\ pending' = Without(pending, t)
  /\ IF Expired(t) THEN UNCHANGED call ELSE Begin(c, "pair", d, t, None)
  /\ UNCHANGED <<cacheVars, now, deviceVars, used, verdict>>

\* The second half of complete_pairing, and of update_device_preferences: the
\* device of the call is stored, also over one that is there.
StoreDevice(c) ==
  /\ call[c].at \in {"pair", "preferences"}
  /\ DeviceFile!Change(c, Put(devices, call[c].device, call[c].token))
  /\ Goto(c, "save")
  /\ UNCHANGED <<cacheVars, now, pairingVars>>

\* update_device_preferences works on a copy of the device.
Update_device_preferences(c, d) ==
  /\ Free(c) /\ d \in DOMAIN devices
  /\ Begin(c, "preferences", d, devices[d], None)
  /\ UNCHANGED <<cacheVars, now, deviceVars, pairingVars>>

\* retrieve_messages: update_last_seen saves, also if the device is gone by then.
Retrieve_messages(c, d) ==
  /\ Free(c) /\ d \in DOMAIN devices
  /\ Begin(c, "seen", d, None, None)
  /\ UNCHANGED <<cacheVars, now, deviceVars, pairingVars>>

UpdateLastSeen(c) ==
  /\ call[c].at = "seen"
  /\ DeviceFile!Change(c, devices)
  /\ Goto(c, "save")
  /\ UNCHANGED <<cacheVars, now, pairingVars>>

\* unpair_device deletes the device, saves, and if that worked deletes its messages.
Unpair_device(c, d) ==
  /\ Free(c)
  /\ DeviceFile!Change(c, Without(devices, d))
  /\ Begin(c, "unpair", d, None, None)
  /\ UNCHANGED <<cacheVars, now, pairingVars>>

DeviceSave(c) ==
  /\ \/ DeviceFile!BeginSave(c) /\ UNCHANGED call
     \/ DeviceFile!EndSave(c) /\ IF call[c].at = "unpair" THEN Goto(c, "purge") ELSE Return(c)
     \/ DeviceFile!FailSave(c) /\ Return(c)
  /\ UNCHANGED <<cacheVars, now, pairingVars>>

PurgeMessages_Mut(c) ==   \* without a save
  /\ call[c].at = "purge"
  /\ Cache!ChangeUnsaved(Restrict(messages, {i \in DOMAIN messages :
                                               messages[i].device # call[c].device}))
  /\ Return(c)
  /\ UNCHANGED <<now, deviceVars, pairingVars>>
PurgeMessages(c) ==
  /\ call[c].at = "purge"
  /\ Delete_device_messages(c, call[c].device)
  /\ Goto(c, "save")
  /\ UNCHANGED <<deviceVars, pairingVars>>

-----------------------------------------------------------------------------
\* cache_message looks the device up, and then stores the message.
Cache_message(c, m) ==
  /\ Free(c) /\ m.device \in DOMAIN devices
  /\ Begin(c, "cache", None, None, m)
  /\ UNCHANGED <<cacheVars, now, deviceVars, pairingVars>>

StoreMessage(c) ==
  /\ call[c].at = "cache"
  /\ \/ StoreAccepted(c, call[c].message) /\ Goto(c, "save")
     \/ StoreRefused(c, call[c].message) /\ Return(c)
  /\ UNCHANGED <<deviceVars, pairingVars>>

Mark_messages_delivered(c, ids) ==
  /\ Free(c)
  /\ Mark_delivered(c, ids)
  /\ Begin(c, "save", None, None, None)
  /\ UNCHANGED <<deviceVars, pairingVars>>

SaveMessages(c) ==
  /\ CacheSave(c)
  /\ IF cache_saver'[c] = "no" THEN Return(c) ELSE UNCHANGED call
  /\ UNCHANGED <<deviceVars, pairingVars>>

-----------------------------------------------------------------------------
\* The cleanup task: pairings first, then messages; a failing save is logged and
\* the loop goes on.
CleanupPairings ==
  /\ call["cleanup"].at = "none"
  /\ pending' = Restrict(pending, {t \in DOMAIN pending : ~Expired(t)})
  /\ Begin("cleanup", "expire", None, None, None)
  /\ UNCHANGED <<cacheVars, now, deviceVars, used, verdict>>

CleanupMessages ==
  /\ call["cleanup"].at = "expire"
  /\ Cleanup_expired("cleanup")
  /\ IF cache_saver'["cleanup"] = "no" THEN Return("cleanup") ELSE Goto("cleanup", "save")
  /\ UNCHANGED <<deviceVars, pairingVars>>

\* The client hangs up, and its handler is dropped at an await: a call ends between
\* its steps, or in the middle of a save.
HangUp(c) ==
  /\ call[c] # NoCall /\ Return(c)
  /\ \/ cache_saver[c] = "no" /\ device_saver[c] = "no" /\ UNCHANGED <<cacheVars, now, deviceVars>>
     \/ CacheHangUp(c) /\ UNCHANGED deviceVars
     \/ DeviceFile!AbandonSave(c) /\ UNCHANGED <<cacheVars, now>>
  /\ UNCHANGED <<pairingVars>>

\* The process stops; new reads both files, and fails if one is unreadable.
Restart ==
  /\ CacheRestart
  /\ \E content \in DeviceFile!AfterCrash : DeviceFile!Load(content)
  /\ pending' = <<>>
  /\ call' = [c \in Callers |-> NoCall]
  /\ UNCHANGED <<used, verdict>>

ClockTick == Tick /\ UNCHANGED <<deviceVars, pairingVars, call>>

CallStep(c) ==
  \/ InitiateFind(c) \/ \E t \in Tokens : InitiateRequest(c, t)
  \/ StoreDevice(c) \/ UpdateLastSeen(c) \/ DeviceSave(c) \/ PurgeMessages(c)
  \/ StoreMessage(c) \/ SaveMessages(c)

Next ==
  \/ \E c \in Requests :
       \/ \E d \in Devices : \/ Initiate_pairing(c, d) \/ Unpair_device(c, d)
                             \/ Update_device_preferences(c, d) \/ Retrieve_messages(c, d)
       \/ \E t \in Tokens, d \in Devices : Complete_pairing(c, t, d)
       \/ \E m \in Messages : Cache_message(c, m)
       \/ \E ids \in SUBSET Ids : Mark_messages_delivered(c, ids)
       \/ HangUp(c)
  \/ \E t \in Tokens : Approve_pairing(t) \/ Reject_pairing(t)
  \/ \E c \in Callers : CallStep(c)
  \/ CleanupPairings \/ CleanupMessages
  \/ Restart
  \/ ClockTick

Spec == Init /\ [][Next]_vars

-----------------------------------------------------------------------------
ApplianceTypeOK ==
  /\ CacheTypeOK
  /\ DOMAIN devices \subseteq Devices /\ \A d \in DOMAIN devices : devices[d] \in Tokens
  /\ device_saver \in [Callers -> {"no", "due", "writing", "orphan"}]
  /\ used \subseteq Tokens /\ DOMAIN pending \subseteq used
  /\ \A c \in Callers : call[c].device \in Devices \cup {None}
                        /\ call[c].token \in Tokens \cup {None}

\* Whatever requests meet, a device is only paired with a token the owner approved
\* and did not reject while it was pending, also after a restart (approve_pairing,
\* reject_pairing, complete_pairing, manager::complete_pairing).
PairedByConsent ==
  RequireApproval => \A d \in DOMAIN devices : verdict[devices[d]] = "approved"

\* A token pairs one device, although complete_pairing of the pairing manager and
\* the store of the device are separate steps.
TokenPairsOne ==
  \A d, e \in DOMAIN devices : devices[d] = devices[e] => d = e

\* The device file follows memory, as FileFollowsMemory says of the cache.
DevicesFollowMemory == DeviceFile!FileCurrent

\* Types, and the file of the devices, at every moment of every call.
ApplianceConsistent == ApplianceTypeOK /\ DevicesFollowMemory

\* The manager uses the cache as MessageCache allows, so that its limits and the
\* retention of undelivered messages hold in the whole appliance.
ImplementsCache == CacheSpec
=============================================================================
