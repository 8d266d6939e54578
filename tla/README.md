# Verification of MyriadMesh server

TLA+ models of the MyriadMesh node, appliance, ledger and update crates, with TLC
runs on small instances and TLAPS proofs for all values of the constants.

Contents: 1 inventory of the system, 2 plan, 3 modules, 4 runs, 5 proofs,
6 disagreements between the code and its comments, 7 what is left out.

## 1. Inventory

The repository holds four Rust crates (`myriadmesh-ledger`, `myriadmesh-appliance`,
`myriadmesh-updates`, `myriadnode-full`) and a web user interface. The crates they
build on (`myriadmesh-protocol`, `-crypto`, `-network`, `-routing`, `-dht`, `-i2p`)
are not part of it; what is said of them below is what this code relies on.

| Part | State | Operations | Interacts with | What is hard | What makes it correct |
|---|---|---|---|---|---|
| Block storage (`ledger/storage.rs`) | a file per height; index, hash lookup, chain height in memory | store, prune, load, rebuild | owned by ChainSync | crash between file and index, failing writes and removals, pruning bound | index, lookup and files agree; the retention window is kept and nothing in it is lost |
| Blocks and consensus (`block.rs`, `consensus.rs`) | reputation table | validate structure, link, creator, signatures; choose fork | called by ChainSync | threshold arithmetic, duplicate signers | a held block passed every check |
| Synchronization (`sync.rs`) | state, statistics, pending queue | add, process, request, detect forks, reset | storage, consensus; API readers under an RwLock | blocks in any order, forks, restarts | a gapless linked chain, no block lost |
| Merkle trees, entries (`merkle.rs`, `entry.rs`) | none | root, proof, verification | block structure check | odd leaf counts | the root is that of the filled-up tree; lists of one length never share it |
| Failover (`node/failover.rs`, `scoring.rs`) | health per adapter, primary, event log | periodic check, forced failover, start, shutdown | adapter manager locks; API | four locks, decisions on stale snapshots | no deadlock, a failed primary is replaced, the log accounts for every switch |
| Heartbeat (`heartbeat.rs`) | node map, rate limiter | broadcast, receive, cleanup | adapter manager, API | admission order, freshness, a full map | map bounded, entries fresh, limits per node |
| Node (`node.rs`, `main.rs`) | all components, tasks | new, run, shutdown | everything | order of start and stop; locks that handlers still hold; a stop of the process between the writes of its files | it runs under the identity its configuration names; a shutdown ends and closes nothing that is used by the monitor |
| Monitor, node storage (`monitor.rs`, `storage.rs`) | three tasks; SQLite metrics | ping, throughput, reliability tests | adapter manager | task shutdown | every task ends on stop, none uses what is closed |
| Backhaul detection (`backhaul.rs`) | none | parse routes | operating system | pure I/O | - |
| Diagnostics (`diagnostics.rs`, `diagnostics/`) | bounded event queues, baselines | record, compare | node, API | bounds | newest entries kept |
| API, WebSocket (`api.rs`, `websocket.rs`) | shared handles | HTTP handlers, event stream | everything | handlers interleave with tasks, end half-way, outlive the database; slow clients | the messages table tells what happened; a client sees all events or is disconnected |
| Configuration (`config.rs`) | none | load, default, save | node | defaults | - |
| Appliance: cache (`cache.rs`) | messages per device, global index, a file | store, evict, retrieve, deliver, cleanup | manager | limits, eviction, persistence, clients that hang up | limits hold, no undelivered message lost silently |
| Appliance: pairing, devices (`pairing.rs`, `device.rs`, `manager.rs`) | requests by token; devices | initiate, approve, complete, reject, unpair | cache | checks separated from effects by awaits | only approved, unexpired requests pair; limits |
| Appliance: power (`power.rs`) | usage counters | adapter activity, scaling, tracking | node | counter wrap, table order | usage never under-counted; powers follow the table |
| Updates: distribution (`distribution.rs`, `verification.rs`) | pending updates | add, verify, install, cleanup | coordinator | waiting periods, re-adding | nothing unverified is installed |
| Updates: scheduling (`schedule.rs`, `coordination.rs`) | downtime of peers, own schedule | request, evaluate, register, cleanup | peers | check and registration under different locks, a search that takes its locks anew for each slot | what was agreed on stays clear of what is agreed on later |
| Web UI (`web-ui/`) | stores | fetch, render | API, WebSocket | presentation | - |

Components interact by calls on shared handles (`Arc<RwLock<..>>`, tokio, fair), by
spawned tasks that stop on a broadcast channel, and over the network by messages
whose transport is in the external crates. `PROJECT.json` lists, per line of the
code, the hazards that follow from this.

## 2. Plan

1. **Ledger** (done, proved): `LedgerBlocks` (checks), `LedgerStorage` (block store),
   `ChainSync` (synchronizer on the store), abstract specification `LedgerWindow`,
   `Merkle` as a pure algorithm.
2. **Failover** (done, proved): monitor task, forced failover, adapter start/stop and shutdown
   with their locks.
3. **Appliance** (done, proved): `JsonFile`, `MessageCache`, and `Appliance`, which
   composes cache, devices and pairings; `DataUsage` (proved) and `PowerScaling`.
4. **Updates** (done, proved): `UpdatePackages` and `UpdateWindows`.
5. **Heartbeat** (done, proved): `Heartbeat`.
6. **Node** (done, proved): `WebSocket`, `SendMessage`, `ServiceTasks`, composed by `Node`.
7. Theorems: every invariant, action property and refinement the runs check is a theorem
   (section 5); what the runs check beyond them is liveness. Next: what the decisions of
   `PowerScaling` that are no folds promise, for tables of any size.

Backhaul detection, diagnostics and the web UI hold nothing a model would add to
(section 7).

## 3. Modules

### Ledger

`LedgerBlocks` holds the block record and the checks of `block.rs` and
`consensus.rs`. A block's `hash` stands for the hash of its header
(`HashAssumption`: equal hashes mean equal headers; signatures are outside the
header). `sealed` says whether version and Merkle root check out. Reputation scores
are a constant function, because `ChainSync` lends its consensus manager by shared
reference only.

`LedgerStorage` models `storage.rs`. `files` is the disk, `index`, `hash_lookup`,
`chain_height` the memory. `store_block` is three actions: `WriteBlock` (or
`WriteFails`, which may leave a torn file), `IndexBlock`, and one `PruneBlock` per
deleted height, which may fail to remove its file. `Rebuild_index` and its early
return `RebuildFails` read what is readable. `Restart` loses the memory between any
two steps; `RebuildOnStart` tells whether the owner then calls `rebuild_index`. The
node of this repository does not.

`ChainSync` extends it with `sync.rs`. A call of `process_pending_blocks` is
`Process_pending_blocks`, then per block `ConsiderBlock` (checks and file write),
`ContinueStore` (index, pruning) and `FinishBlock`, then `FinishProcessing`. Other
calls wait for the running one, because every mutating method takes `&mut self`. The
queue is a set of blocks numbered by arrival, `IsNext` is the stable sort by height.
`Detect_and_resolve_forks` takes one of the chains in `Chains`.

`LedgerWindow` is the abstract specification: a window of linked blocks that starts
with a genesis block, grows by one block at a time and keeps the `Size` most recent
ones; a restart either keeps the window or empties it. `ChainSync` implements it
with `window` = the indexed blocks at or above the first height to keep. Blocks that
are indexed below it (an old genesis block that was accepted again, a leftover a
rebuild found) are invisible in the abstract specification.

### Failover

`Failover` models `failover.rs` and the API handlers and the node's shutdown that use
the same locks. The locks are tokio's: first in, first out, shared for readers, so a
queued writer holds up later readers (`Lock`, `Granted`, `held`, `queue`). Every
acquisition is a step of its own, `pc` says what a task waits for. A check of the
monitor takes the adapter manager, the health map, then each adapter in turn
(`LockHealth`, `BeginLoop`, `JudgeAdapter`, `LogJudgement`), drops them, and decides
on what it measured (`Decide`, `LogSwitch`). `ForceFind`, `ForceSet`, `ForceLog` are a
forced failover, `Operate*` a handler that starts or stops an adapter, `Stop_all` the
node's shutdown, `Shutdown` the manager's. Forced failovers and operators run in handlers
of the API: their client may hang up at any await (`ForceHangUp`, `OperateHangUp`), which
takes them out of the queue they are in and drops their guards (`Abandon`). A forced
failover that ends so at the event log has changed the primary and never logs it.
`ready` is the adapters' status, which changes at any moment (`AdapterChange`). What a check
measures of an adapter is one of `Metrics`, a latency and a score in whole numbers, which
may differ from check to check; the ten percent margin is integer arithmetic here.

### Appliance

`JsonFile` is a map behind a lock that is saved as a whole after each change, as
`DeviceStore` and `MessageCache` both are: the change, the begin of the save (which
truncates the file) and its end are steps; a save may fail, two saves may overlap, and
a stop in between leaves an empty or an unreadable file. The operations run in handlers of
the API. A client that hangs up drops its handler at an await (`AbandonSave`): before the
save, so that memory has changed and the file has not, or while `fs::write` runs on a
thread of its own, which goes on after the lock is released and can meet a later save (an
`orphan`). `stale` says that the last save failed, was dropped, or met an orphan: only then
may the file differ from memory. It is history; the code keeps no such mark.

`MessageCache` instantiates it with the messages and adds `store` with its two
evictions, `mark_delivered`, `cleanup_expired` and `delete_device_messages`. `rank`
stands for priority and time of arrival. `StoreRefused` is `CacheFull`. A message is known
by the id its client gave it; `store` puts a message in the place of another one of its id.

`Appliance` extends it with a second `JsonFile` for the devices, the pending pairings,
and the calls of `manager.rs`, one step per part used: `call` holds where a call is and
its local variables. A device is represented by the token it was paired with.
`verdict` records what the owner said last of a token while it was pending; it is
history and no guard reads it. The cleanup task is a caller of its own. A client may hang up
at any step of its call (`HangUp`).

`DataUsage` models `DataUsageTracker`: senders that ask, send and count, the start of a
new period, `reset` in its two steps, new policies. `total` is history: what was really
counted since the counter was last cleared. `PowerScaling` holds the pure decisions of
`PowerManager`; `MCAppliance` compares them with references in `ASSUME`s over small tables
and all orders of their entries.

### Updates

`UpdatePackages` follows a package. `receive_update_package` is `ReceiveNeeded`
(verification and comparison with the installed version, under the verifier's lock),
`Add_pending_update` and `Mark_signatures_verified`; `mark_update_installed` is
`Mark_installed` and `RecordVersion`; calls of other tasks come in between. Pending
packages are kept under adapter and version, so that two packages can share a key.
`tenure` is history: which package has been pending under a key since when, and who
vouched in that time. The user of the crate who installs what is ready is `TakeReady`.

`UpdateWindows` models the calendar: downtimes of peers as a bag, the scores of
`evaluate_update_slot` in tenths of a point, the requests this node sent and who answered.
Whoever needs locks one after the other is a handler with a step per lock. An update of this
node is `Schedule_adapter_update` (the neighbours), then `LookAtSlot` for each slot of the day
(which takes the downtimes and the load anew), `PlanFallback` and `Add_pending_schedule`. A
request is `Handle_schedule_request`, `LookForConflict` and `Acknowledge`; one in conflict is
answered with the window that a search of its own finds (`Reschedule`), one whose fallback
adapters are missing is refused (`Reject`). Downtimes come and go in between. In `handling`,
`known` (what was agreed on when the request came), `always` and `ever` (the downtimes that
were there at every look of a search, and at any) and `merits` (what the slots were worth
without downtimes) are history, and so is `agreed`.

### Heartbeat

`Heartbeat` models `handle_heartbeat` in the steps its locks leave apart: `Receive`
(signature and freshness), `Allow` (rate limiter), `UpdateMap` (node map), by several
handlers, and the cleanup task. All times are ages that grow with `Tick` up to a ceiling
beyond which nothing depends on them, so that the clock has no bound and liveness can be
asked. A time stamp ahead of the local clock has a negative age; a build that checks for
overflow panics on it (`CleanupPanics`), one that does not takes it for stale. One that is 2^63
seconds off (`Wrapped`) is its own absolute value, which passes for fresh in a build that does
not check and ends the handler in one that does. Two things are history:
`admitted`, what the limiter let through for as long as a limit can ask for it (`Remembered`),
and `late` in an entry, how old its time stamp was when it was taken over.

### Node

`WebSocket` models the broadcast channel: `events` is everything broadcast, a client's `next`
its position, `got` the positions of what it was sent. An event is only whether it can be
written as JSON. None the code has fails at that (they are made of strings and integers), but
the send task is written for one that does: it is left out, and the task goes on.
`SendMessage` extends it with `send_message`, one action per step (`Lock`, `Insert`, `Routed`,
`NotRouted`, `Update`), a caller who hangs up at any await, failing statements, and the panic
at an id that is too short (`Panic`), which changes nothing. Each statement holds the
storage's read lock. `ServiceTasks` holds whoever works under the read lock of the adapter
manager: the three tests of the network monitor, which wait in a `select!` for a tick or the
shutdown signal, and the readers nobody stops (broadcast task, failover monitor, message
sender, handlers), of which only the guard is modelled. `Node` composes them with the life of
the process: `--init` (`InitBegin` to `WriteConfig`), start (`Load` to `StartHeartbeat`),
shutdown (`Shutdown` to `Exit`), and a `Crash` at any step. `StopAdapters` and `CloseStorage`
take write locks: they wait for the guards there are, and who comes later waits behind them.
The three files survive; what was being written is torn. `keys_foreign` is history: key files
were deleted between two processes, or `--init` was begun over an older configuration.

Operators named `X_Mut` are deliberately wrong variants of `X`. They are not used by
any specification; they show that a property notices the mistake.

## 4. Runs

| Run | Instance | What it asks |
|---|---|---|
| `ledger_storage` | heights 0..3, two blocks of height 1, keep 2 | consistency of the store for any caller, with failing I/O and restarts anywhere |
| `sync_restart` | a chain of 4, a second genesis block and a block on it, keep 2, 4 arrivals, 2 restarts | gapless linked window across restarts with rebuild; refinement of `LedgerWindow` |
| `sync_forks` | two branches, late, weakly signed, unsealed and unlinked blocks, 3 arrivals, alternative chains, no rebuild (as in `node.rs`) | no loss, no invalid block, meaning of Synced, every call ends |
| `failover_locks` | two adapters whose latency and score jump, a forced failover, an operator, node shutdown, 3 checks, clients that hang up | nobody waits for ever, also where a judgement is logged under three locks; the event log accounts for every switch but those whose client hung up |
| `failover_live` | three adapters whose scores vary up to the ten percent margin, endless checks, both shutdowns, one status change | calls and checks end, a failed primary is replaced, the primary settles |
| `message_cache` | two tasks, four messages of two devices, two of them with one id, 2 per device, 2 in all, clients that hang up, any number of restarts | limits, file and memory, no silent loss |
| `appliance` | two requests and the cleanup task, two devices, one token, one message, clients that hang up, any number of restarts | consent, one device per token, device file, use of the cache |
| `update_packages` | two receivers, one installer, three keys and room for two, two packages of one key, three bad packages | nothing is offered or installed on the strength of what was said of another package; the limit; what an entry may lose |
| `update_windows` | two handlers that answer and search, requests of a neighbour and of another node in adjacent slots, searches of three hours | what an acknowledgement promises; the choice of a window while downtimes and load change; responses that come late or twice |
| `heartbeat` | two handlers, two nodes, a map of one, one heartbeat per window, early, late and wrapped time stamps | the limits; who may be dropped; a silent node is dropped |
| `node` | two requests with one id, one client behind a channel of one event, one monitor test, one other reader of the manager, two key pairs, two starts, a crash anywhere | identity, message table, order of shutdown, gapless events, a shutdown ends |
| `claim_quota` | two senders, a counter of four megabytes, a limit of five | the documented hard limit, which the code does not keep (section 6) |

`Merkle` and `PowerScaling` are evaluated in `ledger_storage` and `appliance`, whose MC
modules compare them with references in `ASSUME`s: `RootIsTree`, `RootFixesEntries` (lists
of up to seven entries), `ScalingFromBelow`, `MaxPowerFromAbove`, `ActiveByBand` (tables of
up to four entries in every order).

Bounds. Ledger: with `KeepBlocks` = 2 and heights 0..3 the window moves twice, so a
block is pruned while a later prune may already be interrupted. `MaxDiscovered` bounds
arrivals, among them every order and repetition of the blocks; two restarts let one hit
the recovery of another. Failover: a wait cycle needs at most one task per lock, and
`failover_locks` has every kind of caller. Its three checks are what a judgement under three
locks takes: the first sets the latency an adapter is known by, the second compares with it,
and the third can find it exceeded. `LogCap` = 20 is never reached there; in `failover_live`
the log is cut all the time. In the latter the scores of two adapters vary between 100 and 110
and the third has 105, so that one is always ahead of another by less than the margin or by
exactly the margin: with a plain comparison, or a smaller margin, the primary would change for
ever. Forced failovers and operators are left out of it for its size: of their end `NoDeadlock`
only shows that somebody can always go on. `MaxChanges` = 1 lets a status change at any moment
of a check; what follows the last change does not depend on how many came before. Cache: three
messages overfill one device and a cache of two, and two have one id, so that one can take the
place of the other; two tasks are enough for a save to overlap with a change, with another
save, and with one whose client hung up; restarts are unbounded. Appliance: two requests are
enough for each pair of calls to meet, the cleanup task is a third; one token is enough to be
used twice; the clock lets messages and tokens expire between any two steps. Update
packages: three keys for two places make the limit bite, and a second package of one key is
what could inherit from the first; `Period` and `Expiry` are one slot each, so that a package
can become ready and expire at the same moment. Update windows: a search of three slots begins
in one of the last of the best hours, so that hours of different merit compete; two downtimes
can lie in two of the three, and the second handler registers and cleans up between the looks
of the first. Heartbeat: no bound at all, ages are cut at a ceiling (`Oldest`). Node: requests
with one id are the interesting case of two; one reader stands for all that hold the adapter
manager's guard, since a writer waits for each of them alike; two key pairs are enough for files of
different pairs to meet; `MaxStarts` = 2 lets a second process find what the first one left.
The theorems of section 5 hold for every value of these constants.

Fairness. `sync_forks` assumes `WF_vars(ProcessStep)`: a call of
`process_pending_blocks` is a synchronous loop that waits for nobody. `failover_live`
assumes that a task that can go on is run, that the monitor's timer fires, that starting
or stopping an adapter ends, and strong fairness of `StopMonitor` alone: `select!`
chooses at random between a due tick and a waiting signal, so it takes the signal
eventually although the tick is ready each time. Locks need no fairness: they are
queues. `heartbeat` assumes that time passes and that the cleanup timer fires. `node` assumes
that the runtime goes on with `main` and with a task that works, that the database comes back
from a statement it was given, and strong fairness of `End`, again because of `select!`:
nothing of ticks, of arriving requests and their routing, of clients, the operator or crashes.
Nothing is assumed of arrivals, calls, status changes or restarts.

Deadlock is checked where the system never stops (store, cache, appliance, updates,
heartbeat). The other models stop when their bounds or calls are exhausted, and
`NoDeadlock` says what deadlock means for the locks.

## 5. Proofs

All theorems are stated for every value of the constants within the assumptions listed at
the end of this section.

### Ledger

`ChainSync_proofs` has two parts. The first is about the block store alone, called by
anybody in any order: `StorageTypeCorrect`, `IndexAlwaysConsistent` and `RetentionHolds`. The
second is about the synchronizer on it: `LedgerInv` is an invariant (`LedgerInvariant`), and
from it follow `SyncTypeCorrect`, `IndexedAlwaysReadable`, `LookupAlwaysExact`,
`WindowAlwaysLinked`, `HeldBlocksAlwaysValid` and `HeldBlocksStay` (a block that is held is not
replaced while the process runs, which is not what `sync.rs` says of forks: section 6);
`SyncedAlwaysHoldsChain` and `NoBlockIsLost` follow from `SyncInv`; and `LedgerImplemented`
says that it implements `LedgerWindow`.

The store. A caller may store a block over another one of its height, so an indexed block need
not be the one in its file while `storing` is not `NoBlock`. `EntriesOK` says so, and that a
file holds a block of the height in its name. `PruneOK` says of an unfinished prune
that all it has left to delete is below the window, and that nothing else is: when the last
height is gone, at most `KeepBlocks` heights are left, and no height of the window was among
the deleted ones. `TipIndexed` and `LookupFindsIndexed` complete the inductive invariant
(`StorageIInv`).

The synchronizer. None of the safety properties is inductive alone. A restart turns the disk
into memory, so the disk has to be described as precisely as the memory:
`LeftoversBelowWindow` says that a readable file which is not indexed is the block
being stored or lies below the window, `ReadableValid` that files passed the checks.
`StoreInProgress` carries the link check from the moment of the file write to the
moment of the index update (nothing the block links to may be pruned in between),
and `PruneBelowWindow` says that an unfinished prune only has heights below the
window left. `LedgerInv` is the conjunction of these with the safety properties.
The proof has a lemma per storage step (write, index, prune, restart with and
without rebuild) and one step per action of `Next`. `SyncInv` adds what a call has in hand
(`CallInv`: a block that was counted is held, so the index is not empty, and pruning never
takes its tip) and that the numbers of the queue are those given out (`QueueInv`), without
which adding a block to the set of pending ones might not add to its cardinality.

The refinement. `window` maps the indexed blocks at or above the first height to keep. Indexing
a block above the tip is the abstract step that extends the window, and drops what falls below
it at the same moment; a genesis block in an empty store is the abstract start; a block stored
below the window, every prune, write and failure are stutters, because `PruneBelowWindow` keeps
prunes out of the window. A restart without rebuild empties the window. One with rebuild
restores it, because of `LeftoversBelowWindow`, unless a block was on disk and not yet indexed:
then the window grows by that block, whose link was checked before it was written.

### Appliance

`Appliance_proofs` first proves of `MessageCache`, called by anybody, `CacheTypeCorrect`,
`LimitsAlwaysHeld`, `FileAlwaysFollows` and `NothingLostSilently` from `CacheInv`: memory and
file are both within the limits, and what a save is writing is what memory holds, because the
save keeps the read lock. A save that was dropped before it began, or whose writing outlived
its lock, always leaves the mark `stale` (`JsonWritten`), so that an unmarked file is the
memory's. The limits carry the rest. While they hold, `evict_messages_locked` finds nothing to
remove but delivered messages, because the device is never above its limit (`DeviceRoom`); and
an eviction that removes anything makes room, so a refused store has changed nothing and may
return without a save (`StoreRefusedKeeps`).

Of `Appliance` it then proves `AlwaysByConsent`, `TokenAlwaysPairsOne`,
`ApplianceImplementsCache` and with it `ApplianceLimits`, and `ApplianceAlwaysConsistent`.
`PairingInv` says of
each token that it is either pending or held, and by one device only; `Holds` looks for
holders in memory, in the device file, in what a save is writing and in the local
variables of a call, because a restart, a late save or a stale copy can bring any of
them back. The only step that makes a holder is `complete_pairing`, and it takes the
token out of the pending ones (`StepHolds`, `CompletesInv`); a client that hangs up only ever
removes one (`HangUpHolds`). That the device file follows memory, but for a save that failed
or was dropped, rests on the lock that a change shares with the saves (`DeviceInv`): memory
does not change while an undisturbed save is writing.

`DataUsage_proofs` proves `AnswersAlwaysRight` from `UsageInv`: the counter is what was
counted since the last reset modulo the width of the counter (`CounterOK`), and a call in
progress keeps the answer it was given. Below one turn of the counter both numbers are equal
(`NoWrapBelowWord`), so the answers are right; `claim_quota` shows what happens beyond.

### Failover

`Failover_proofs` proves `LocksAlwaysFit`, `NeverDeadlocked` and `SwitchesAlwaysBalanced`
for any number of adapters, forced failovers, handlers and shutdowns. `FailoverInv` says at
which steps each kind of task can be and what it has decided by then (`StepsOK`), that the
queues and guards are exactly those of these steps (`LocksOK`), and types (`DataOK`). The
absence of deadlock follows from the order of the locks, which has no cycle: manager, health,
adapter, log for the monitor, manager, primary, log for a forced failover. Whoever holds the
log waits for nothing, and an adapter's own start or stop ends; so nobody who waits for the log
is held up for ever, and going up the order neither is anybody who waits for an adapter, the
primary, the health map or the manager (`NoDeadlockFromLocks`). It does not depend on the order
within a queue, but on the queue having no entry of a task that left, also of one whose client
hung up (`LeftQueue`, `AbandonKept`). `BalanceInv` counts per adapter the switches in the log,
those on their way to it, and those whose client hung up on the way; each change of the primary
creates an event in the same step, and only a task that waits for the log, or was dropped
there, has one (`EventsOK`).

### Updates

`UpdatePackages_proofs` proves `PackagesAlwaysBounded`, `OffersAlwaysVetted` and
`LossesOnlyByArrival`. `PackagesIInv` says of a pending package that it shows no more than
what happened in its own tenure (`PendingOK`), of a record that what counts as installed was
vetted (`RecordsOK`), and of a call that past the check it holds a package that passed it
(`CallsOK`); the last is what a call carries over the steps where other tasks come in
between.

`UpdateWindows_proofs` proves `AcknowledgedAlwaysApart`, `AgreementsAlwaysStable` and
`WindowsAlwaysHold`. For the first, a downtime agreed on before a request came stays
registered until it is over (`Kept`, `Onward`), so that the look under the downtimes' lock
meets it, and a request that passed the look overlaps none of those that are not over
(`IsClear`), whatever is registered and removed before the answer. For the search the
invariant says what each look leaves (`SearchSoFar`, `BestSoFar`). If the best slot overlaps a
downtime that was there at every look, its score is at least 40 points, one conflict, below
what it is worth; and of each slot that met no downtime at any look, the best score is at
least its worth less the 11.5 points that the longest delay within a day costs. A conflict is
therefore only ever chosen over a free slot that is worth less, in whatever order the
downtimes and the load changed in between. `CalendarInv` adds to the types that the downtimes
are finitely many, so that conflicts can be counted (`CountOfConflicts`), and that the clock
is a natural number; the requests sent are among the used ones, so that a late answer never
opens a new entry under an old id.

### Heartbeat

`Heartbeat_proofs` proves `HeartbeatInvHolds` and `KeptWhileHeardHolds`. The limits are stated of
`admitted`, which no code reads, so the invariant relates it to what the limiter does keep:
whatever was let through within the window stands in `recent` at the same distance from the
end (`Mirrored`), which popping from the front cannot change, and the time kept for a node is
at most the age of anything let through of it (`Timed`). A heartbeat is allowed if the node's
time is at least `MinInterval` and `recent`, popped to the window, has room; from these the two
limits follow (`Spaced`, and a count of the positions of `recent`). Popping takes what is old
from the front only (`PopUntil`), and the proof shows that nothing within the window is lost
by it. Of an entry of the map `EntryOK` says that its age is at most what its time stamp was
late and its silence together, so that an entry found stale was silent for the timeout less that,
or has a time stamp from ahead.

### Node

`Node_proofs` proves `NodeConsistentHolds`, `IdentityFitsHolds`, `StatusAccountedHolds` and
`ClientsSeeAllHolds`. `NodeIInv` has four parts, each about variables of its own. `ControlOK`
says at which steps of `main` the database is open, the tasks exist, and the monitor's have
ended. `FilesOK` says what the files hold at each step a crash may follow: a readable
configuration names the pair in both key files, and `--init` writes it last, so that whatever
process was cut short left either no configuration or its keys. `RequestsOK` says of each request
how far it has come, and that what it is about to write is what happened, also to another
request that shares its row. `ClientsOK` says that what a client was given are, in
order, those events from its subscription up to its position that can be written; a step of
its task gives one more or none (`Shows`, `OneMore`).


Assumptions: `BlocksAssumption` (types of the block fields), `HashAssumption` (no
hash collisions), `StorageAssumption` (`KeepBlocks` >= 1, model values distinct from
blocks), `SyncAssumption` (types of the bounds), `CacheAssumption` (types of messages
and limits), `ApplianceAssumption` (the callers are the requests and the cleanup task;
`None` is no device, token or message), `FailoverAssumption` and `NamesAssumption` (types of
the measured values, names of tasks and locks are distinct), `PackagesAssumption` and
`WindowsAssumption` (types of packages, requests and slots), `HeartbeatAssumption` (the limits
are natural numbers), `NodeAssumption`, `TasksAssumption`, `SendMessageAssumption` and
`WebSocketAssumption` (types; the tasks of the monitor are not among the other readers of the
adapter manager; the channel holds at least one event). TLC evaluates them in every run
that uses them. Two theorems have a hypothesis of their own: `DataUsageConstants` (types of
the sizes and policies), and `IsFiniteSet(Tasks)` in `SwitchesAlwaysBalanced`, which counts
tasks.

Only model-checked: liveness (`ProcessingEnds`, `CallsReturn`, `PrimarySettles`,
`FailedPrimaryReplaced`, `SilentNodeLeaves`, `ShutdownEnds`), which is out of the prover's
reach; the Merkle tree, which is recursive; and `PowerScaling`, whose decisions over tables are
folds, so that what they compute for every table needs an induction over data.

## 6. Where code and comments disagree

`claim_quota` is a run that TLC violates, listed under `findings` in `PROJECT.json` with
the quoted line: the bytes of a period are counted in 32 bits, which wrap at 4 GiB, so that
the sends of a period never add up to a hard limit of 4096 MB or more; only a single send that
passes the limit by itself is denied (`power.rs:392` against `:323`, `:349`).

Seen while reading, without a run:

- `is_stale` is documented to find nodes that "hasn't sent heartbeat recently"
  (`heartbeat.rs:105`), but a node whose clock is ahead, which is accepted up to 300 s
  (`:585`), is dropped by the next cleanup although it was just heard; a build that checks
  for overflow loses the cleanup task. `KeptWhileHeard` and `SilentNodeLeaves` are stated
  with these two exceptions.
- A fork is not resolved. The ledger promises "DHT-based chain sync with fork resolution"
  (`lib.rs:13`) and "Fork resolution: longest chain with highest total reputation wins"
  (`lib.rs:23`, `consensus.rs:7`; likewise `:205`), and `detect_and_resolve_forks` "Returns
  the number of blocks rolled back if a fork was resolved" (`sync.rs:209`). It returns that
  number and rolls nothing back: "For now, just add alternative blocks to pending"
  (`sync.rs:259`). Processing then skips these blocks, because their heights are held, and
  counts them as validated; the synchronizer reports `Synced` with the chain that lost. That
  nothing held is ever replaced is the theorem `HeldBlocksStay`; `sync_forks` goes through all
  of it.
- With no known node every block is rejected by the creator check, although the signature
  check has a case for it (`sync.rs:171`, `consensus.rs:246`); the node starts in that state.
- With two adapters a failed primary is never replaced (`failover.rs:376`), and a check can
  switch to an adapter it just counted as Failed (`:367`, `:380`).
- Pairings begun below the limit on devices exceed it (`manager.rs:181`, `config.rs:190`).
- A client of the appliance that hangs up after its change and before the save leaves a change
  that reaches the file only with the next save of anybody. A message stored under the id of
  one that is not yet delivered takes its place without a word (`cache.rs:267`). A forced
  failover whose client hangs up at `failover.rs:507` has changed the primary and is never
  logged.
- A heartbeat whose time stamp is 2^63 seconds off passes the freshness check of a build without
  overflow checks, and ends the handler in one with them (`heartbeat.rs:585`). `send_message`
  panics on an id or a destination of fewer than 64 bytes (`api.rs:297`, `:302`).
- Two schedule requests for one window that are handled at once are both acknowledged.
  `mark_update_installed` sets the version of what it is told, also below the present one.
  `all_responded` is false for a request that was sent to nobody. Signatures of one signer
  count as often as they are listed (`verification.rs`). The coordinator of a node gets no
  verifier (`node.rs:358`), so that it accepts no package, and nothing calls its `cleanup`.
- An identity that is generated because a key file is missing does not reach the
  configuration, which goes on naming the old id (`node.rs:261`). The node's shutdown stops
  neither the heartbeat service nor the API, which serve on with a closed database
  (`node.rs:836`).
- `get_power_scaling` takes the power of the entry below the charge, and full power for a
  battery below all entries; `get_max_tx_power_dbm` takes that of the entry above: at 50 %
  charge, which the default table gives 25 dBm (`power.rs:160`), it returns 30. The first
  panics in a build that checks for overflow. Once `check_quota` denies, nobody adds usage,
  and only `add_usage` looks whether a new period has begun (`power.rs:395`).
- `websocket.rs:202` subtracts one from a subscriber count that may be zero. The health
  snapshot of a node says that it has no message sender (`node.rs:624`), which it has.

- `stats.state` never follows the state of the synchronizer (`sync.rs:47`); a fork at the
  genesis block is not seen, because height 0 means no fork (`sync.rs:216`); `needs_sync`
  tells an empty node that it has what a peer at height 0 has (`sync.rs:286`); a restart
  forgets all blocks, because the node never rebuilds the index; two signatures of one
  validator count as two (`consensus.rs`).
- The event log is awaited with the primary locked (`failover.rs:507`), against the
  documented order (`failover.rs:108`); no `AdapterRecovered` event is ever logged; a
  degraded latency does not cause a switch by itself, and `retry_attempts` is read by
  nobody (`config.toml:122`, `:129`).
- The low-priority eviction of the cache never happens unless the limits were lowered
  between two runs (`cache.rs:392`); messages cached for a device that is unpaired at the
  same moment stay until they expire (`manager.rs:284`); preferences stored at that moment
  pair the device again (`manager.rs:259`).
- `node.rs:151` uses `failover_manager` before it is defined: the crate as committed does
  not build, and the model takes the order the code means.

## 7. Not modelled

Ledger: the byte layout of blocks and entries, `load_range`, `needs_sync` and statistics
beyond their use, the set of queried nodes (nothing reads it), reputation counters while no
`ChainSync` exists. `keep_blocks` = 0 is excluded by assumption: it underflows in `prune`.
In `Merkle` no entry is itself the pair of two hashes, which entries of the ledger are not.

Failover: the text of events, the measured values behind a score.

Appliance: signatures and QR data, queries, session tokens, the abort of the cleanup task
on shutdown (a stop of the process at the same point is modelled), and
`increment_delivery_attempts` and `revoke`, which have no caller. `active` is always true.
The power budget and `update_battery_state`, which sets one number.

Updates: `forward_update_package` (it signs and logs), CVE data, the cryptography: a
signature is valid or not. Heartbeat: adapters and geolocation but for the permission to
keep it, queries over the map, `stop` (nothing calls it).

Node: what adapters, router and DHT do (not in the repository), the backhaul check, the
wiring of components, handlers of the API that read one component and format the answer,
metrics (inserted and read back), presets of the configuration.

Not at all: backhaul detection (parses the operating system's output, no state); diagnostics
(the collector is built disabled in the node, and the analyses run only in tests); the web
UI (pages that poll the API).
