------------------------------- MODULE Failover -------------------------------
(***************************************************************************)
(* The failover manager of a node (myriadnode-full/src/failover.rs) with   *)
(* the tasks that share its locks: the monitor, which checks all adapters  *)
(* every ten seconds; forced failovers and adapter starts and stops that   *)
(* come in through the API, whose callers may hang up at any await; the    *)
(* shutdown of the node and of the monitor.                                *)
(*                                                                         *)
(* Locks are tokio RwLocks: first come, first served, readers together.    *)
(* An action that ends in an .await on a lock queues for that lock and the *)
(* task's next action is the one that is granted it.                       *)
(*                                                                         *)
(* A check measures an adapter as a latency and a score, both integers:    *)
(* the score stands for the weighted sum of AdapterScorer.                 *)
(***************************************************************************)
EXTENDS Integers, Sequences, FiniteSets

CONSTANTS
  Adapters,    \* registered adapters; registration precedes the monitor
  Unknown,     \* an adapter id that is not registered
  NoAdapter,   \* no primary adapter
  Metrics,     \* adapter -> the measurements [latency, score] it can yield
  Multiplier,  \* config.latency_threshold_multiplier
  Forcers,     \* force_failover calls, one each
  Operators,   \* start_adapter and stop_adapter calls, one each
  Stoppers,    \* MyriadNode::shutdown, if it is called
  Closers,     \* FailoverManager::shutdown, if it is called
  LogCap,      \* events the log keeps (100 in the code)
  MaxChecks,   \* bound on the checks of the monitor, or Unbounded
  MaxChanges,  \* bound on status changes an adapter makes by itself
  Unbounded

ASSUME FailoverAssumption ==
  /\ IsFiniteSet(Adapters)
  /\ Unknown \notin Adapters /\ NoAdapter \notin Adapters
  /\ \A a \in Adapters : Metrics[a] \subseteq [latency : Nat, score : Nat]
  /\ Multiplier \in Nat \ {0}
  /\ LogCap \in Nat \ {0}
  /\ MaxChecks \in Nat \cup {Unbounded}
  /\ MaxChanges \in Nat

OwnLocks == {"manager", "health", "primary", "log"}
NoLock == "none"

\* Task names, adapter names and lock names do not clash.
ASSUME NamesAssumption ==
  /\ "monitor" \notin Forcers \cup Operators \cup Stoppers \cup Closers
  /\ Forcers \cap (Operators \cup Stoppers \cup Closers) = {}
  /\ Operators \cap (Stoppers \cup Closers) = {}
  /\ Stoppers \cap Closers = {}
  /\ (Adapters \cup {NoAdapter}) \cap (OwnLocks \cup {NoLock}) = {}

Tasks == {"monitor"} \cup Forcers \cup Operators \cup Stoppers \cup Closers
Locks == OwnLocks \cup Adapters

VARIABLES
  pc,        \* what each task does or which lock it waits for
  held,      \* lock -> the guards [task, mode] that exist
  queue,     \* lock -> the guards waited for, in order
  ready,     \* adapter -> is its status Ready?
  health,    \* adapter -> its AdapterHealth
  primary,   \* current_primary
  log,       \* event_log
  todo,      \* adapters the running check has not looked at
  cur,       \* the adapter it looks at
  found,     \* all_metrics: adapter -> score
  event,     \* task -> the event it is about to log
  target,    \* forcer or operator -> the adapter of its request
  signalled, \* has the monitor received the shutdown signal?
  checks,    \* checks begun (bound)
  changes    \* status changes so far (bound)

locks == <<held, queue>>
scan  == <<todo, cur, found>>
bounds == <<checks, changes>>
vars == <<pc, locks, ready, health, primary, log, scan, event, target, signalled, bounds>>

NoLatency == -1
NoEvent   == [kind |-> "none", from |-> NoAdapter, to |-> NoAdapter]
Event(k, a)    == [kind |-> k, from |-> a, to |-> a]
Switch(a, b)   == [kind |-> "AdapterSwitch", from |-> a, to |-> b]
Events == [kind : {"none", "AdapterSwitch", "ThresholdViolation", "AdapterDown"},
           from : Adapters \cup {NoAdapter}, to : Adapters \cup {NoAdapter}]

-----------------------------------------------------------------------------
\* Locks (tokio::sync::RwLock).  t stands first in the queue of l and no guard
\* that exists excludes the one it waits for.
Granted(t, l) ==
  /\ queue[l] # <<>>
  /\ Head(queue[l]).task = t
  /\ \A g \in held[l] : g.mode = "read" /\ Head(queue[l]).mode = "read"

\* Task t takes the lock it was granted (or NoLock), drops the guards of the
\* locks in "dropped", and queues for the lock "wanted" (or NoLock).
Lock_Mut(t, taken, dropped, wanted, mode) ==   \* readers go first
  /\ held' = [l \in Locks |->
       IF l \in dropped THEN {g \in held[l] : g.task # t}
       ELSE IF l = taken THEN held[l] \cup {Head(queue[l])} ELSE held[l]]
  /\ queue' = [l \in Locks |->
       LET rest == IF l = taken THEN Tail(queue[l]) ELSE queue[l]
       IN IF l # wanted THEN rest
          ELSE IF mode = "read" THEN <<[task |-> t, mode |-> mode]>> \o rest
          ELSE Append(rest, [task |-> t, mode |-> mode])]
Lock(t, taken, dropped, wanted, mode) ==
  /\ held' = [l \in Locks |->
       IF l \in dropped THEN {g \in held[l] : g.task # t}
       ELSE IF l = taken THEN held[l] \cup {Head(queue[l])} ELSE held[l]]
  /\ queue' = [l \in Locks |->
       LET rest == IF l = taken THEN Tail(queue[l]) ELSE queue[l]
       IN IF l = wanted THEN Append(rest, [task |-> t, mode |-> mode]) ELSE rest]

\* The future of task t is dropped: its guards and its place in a queue vanish.
Without(q, t) ==
  IF \A i \in DOMAIN q : q[i].task # t THEN q
  ELSE LET i == CHOOSE i \in DOMAIN q : q[i].task = t
       IN [j \in 1 .. Len(q) - 1 |-> IF j < i THEN q[j] ELSE q[j + 1]]
Abandon(t) ==
  /\ held' = [l \in Locks |-> {g \in held[l] : g.task # t}]
  /\ queue' = [l \in Locks |-> Without(queue[l], t)]

\* log_event keeps the last LogCap events.
LogEvent(e) ==
  log' = IF Len(log) < LogCap THEN Append(log, e) ELSE Append(Tail(log), e)

-----------------------------------------------------------------------------
\* AdapterHealth.  consecutive_failures is counted up to 3: more makes no
\* difference.
NewHealth == [failures |-> 0, baseline |-> NoLatency, latency |-> NoLatency]

Status(h) == CASE h.failures >= 3 -> "Failed"
               [] h.failures \in 1 .. 2 -> "Degraded"
               [] OTHER -> "Healthy"

Record_failure(h) == [h EXCEPT !.failures = IF @ < 3 THEN @ + 1 ELSE 3]

Record_success(h, m) ==
  [failures |-> 0,
   baseline |-> IF h.baseline = NoLatency THEN m.latency
                ELSE (9 * h.baseline + m.latency) \div 10,
   latency  |-> m.latency]

\* Both values are those of the last success, not of the running check.
Is_latency_degraded(h) ==
  h.baseline # NoLatency /\ h.latency > Multiplier * h.baseline

-----------------------------------------------------------------------------
Init ==
  /\ pc = [t \in Tasks |-> IF t = "monitor" THEN "unstarted" ELSE "ready"]
  /\ held = [l \in Locks |-> {}]
  /\ queue = [l \in Locks |-> <<>>]
  /\ ready \in [Adapters -> BOOLEAN]
  /\ health = [a \in Adapters |-> NewHealth]
  /\ primary = NoAdapter
  /\ log = <<>>
  /\ todo = {} /\ cur = NoAdapter /\ found = <<>>
  /\ event = [t \in Tasks |-> NoEvent]
  /\ target = [t \in Forcers \cup Operators |-> NoAdapter]
  /\ signalled = FALSE
  /\ checks = 0 /\ changes = 0

Become(t, p) == pc' = [pc EXCEPT ![t] = p]

\* start: subscribes to the shutdown channel and spawns the monitor.
Start ==
  /\ pc["monitor"] = "unstarted"
  /\ Become("monitor", "idle")
  /\ UNCHANGED <<locks, ready, health, primary, log, scan, event, target, signalled, bounds>>

\* The ticker fires: check_and_failover waits for the adapter manager.
Tick ==
  /\ pc["monitor"] = "idle"
  /\ \/ MaxChecks = Unbounded /\ UNCHANGED checks
     \/ MaxChecks # Unbounded /\ checks < MaxChecks /\ checks' = checks + 1
  /\ Become("monitor", "manager")
  /\ Lock("monitor", NoLock, {}, "manager", "read")
  /\ UNCHANGED <<ready, health, primary, log, scan, event, target, signalled, changes>>

LockHealth ==
  /\ pc["monitor"] = "manager" /\ Granted("monitor", "manager")
  /\ todo' = Adapters /\ found' = <<>> /\ UNCHANGED cur
  /\ Become("monitor", "health")
  /\ Lock("monitor", "manager", {}, "health", "write")
  /\ UNCHANGED <<ready, health, primary, log, event, target, signalled, bounds>>

\* The next adapter of adapter_ids(), in any order, or the end of the loop: the
\* locks are dropped, and with fewer than two measured adapters the check ends.
\* "taken" is the lock the task got in this step.
NextAdapter(taken) ==
  \/ /\ todo # {}
     /\ cur' \in todo
     /\ todo' = todo \ {cur'}
     /\ Become("monitor", "adapter")
     /\ Lock("monitor", taken, {cur, "log"}, cur', "read")
  \/ /\ todo = {}
     /\ UNCHANGED todo
     /\ cur' = NoAdapter
     /\ IF Cardinality(DOMAIN found') < 2
          THEN /\ Become("monitor", "idle")
               /\ Lock("monitor", taken, {cur, "log", "health", "manager"}, NoLock, "read")
          ELSE /\ Become("monitor", "primary")
               /\ Lock("monitor", taken, {cur, "log", "health", "manager"}, "primary", "write")

BeginLoop ==
  /\ pc["monitor"] = "health" /\ Granted("monitor", "health")
  /\ UNCHANGED found
  /\ NextAdapter("health")
  /\ UNCHANGED <<ready, health, primary, log, event, target, signalled, bounds>>

\* Go on after adapter cur was judged: with the event e to log first, while all
\* guards are kept, or without.
AfterJudging(e) ==
  /\ event' = [event EXCEPT !["monitor"] = e]
  /\ IF e # NoEvent
       THEN /\ Become("monitor", "log")
            /\ Lock("monitor", cur, {}, "log", "write")
            /\ UNCHANGED <<todo, cur>>
       ELSE NextAdapter(cur)

\* The adapter is not Ready: a failure, reported once it counts as Failed.
JudgeUnavailable ==
  /\ ~ready[cur]
  /\ health' = [health EXCEPT ![cur] = Record_failure(@)]
  /\ UNCHANGED found
  /\ AfterJudging(IF Status(health'[cur]) = "Failed" THEN Event("AdapterDown", cur)
                  ELSE NoEvent)

\* The adapter is Ready: it is measured, and ranked later whatever its health.  (A
\* violation is logged before the failure is recorded, but nobody sees the health
\* map in between.)
JudgeReady ==
  /\ ready[cur]
  /\ \E m \in Metrics[cur] :
       /\ found' = [a \in DOMAIN found \cup {cur} |-> IF a = cur THEN m.score ELSE found[a]]
       /\ IF Is_latency_degraded(health[cur])
            THEN /\ health' = [health EXCEPT ![cur] = Record_failure(@)]
                 /\ AfterJudging(Event("ThresholdViolation", cur))
            ELSE /\ health' = [health EXCEPT ![cur] = Record_success(@, m)]
                 /\ AfterJudging(NoEvent)

JudgeAdapter ==
  /\ pc["monitor"] = "adapter" /\ Granted("monitor", cur)
  /\ JudgeUnavailable \/ JudgeReady
  /\ UNCHANGED <<ready, primary, log, target, signalled, bounds>>

LogJudgement ==
  /\ pc["monitor"] = "log" /\ Granted("monitor", "log")
  /\ LogEvent(event["monitor"])
  /\ event' = [event EXCEPT !["monitor"] = NoEvent]
  /\ UNCHANGED found
  /\ NextAdapter("log")
  /\ UNCHANGED <<ready, health, primary, target, signalled, bounds>>

\* rank_adapters: the highest score first; ties come in any order.
Best(a) == a \in DOMAIN found /\ \A b \in DOMAIN found : found[b] <= found[a]

Should_switch_Mut(a) ==   \* any difference in favour of the best
  \/ primary = NoAdapter
  \/ primary \notin DOMAIN found
  \/ found[a] > found[primary]
Should_switch_Mut2(a) ==  \* a primary without a measurement is kept
  \/ primary = NoAdapter
  \/ primary \in DOMAIN found /\ 10 * found[a] > 11 * found[primary]
Should_switch(a) ==
  \/ primary = NoAdapter
  \/ primary \notin DOMAIN found
  \/ 10 * found[a] > 11 * found[primary]

Decide ==
  /\ pc["monitor"] = "primary" /\ Granted("monitor", "primary")
  /\ \E a \in Adapters :
       /\ Best(a)
       /\ IF Should_switch(a)
            THEN /\ primary' = a
                 /\ event' = [event EXCEPT !["monitor"] = Switch(primary, a)]
                 /\ Become("monitor", "logswitch")
                 /\ Lock("monitor", "primary", {"primary"}, "log", "write")
            ELSE /\ Become("monitor", "idle")
                 /\ Lock("monitor", "primary", {"primary"}, NoLock, "read")
                 /\ UNCHANGED <<primary, event>>
  /\ UNCHANGED <<ready, health, log, scan, target, signalled, bounds>>

LogSwitch ==
  /\ pc["monitor"] = "logswitch" /\ Granted("monitor", "log")
  /\ LogEvent(event["monitor"])
  /\ event' = [event EXCEPT !["monitor"] = NoEvent]
  /\ Become("monitor", "idle")
  /\ Lock("monitor", "log", {"log"}, NoLock, "read")
  /\ UNCHANGED <<ready, health, primary, scan, target, signalled, bounds>>

\* select! takes the shutdown branch; between checks only.
StopMonitor ==
  /\ pc["monitor"] = "idle" /\ signalled
  /\ Become("monitor", "stopped")
  /\ UNCHANGED <<locks, ready, health, primary, log, scan, event, target, signalled, bounds>>

CheckStep ==
  \/ LockHealth \/ BeginLoop \/ JudgeAdapter \/ LogJudgement \/ Decide \/ LogSwitch

-----------------------------------------------------------------------------
\* force_failover
ForceCall(f, a) ==
  /\ pc[f] = "ready"
  /\ target' = [target EXCEPT ![f] = a]
  /\ Become(f, "manager")
  /\ Lock(f, NoLock, {}, "manager", "read")
  /\ UNCHANGED <<ready, health, primary, log, scan, event, signalled, bounds>>

ForceFind_Mut(f) ==   \* the lookup takes the manager's lock a second time
  /\ pc[f] = "manager" /\ Granted(f, "manager")
  /\ IF \A g \in held["manager"] : g.task # f
       THEN Become(f, "manager") /\ Lock(f, "manager", {}, "manager", "read")
       ELSE Become(f, "primary") /\ Lock(f, "manager", {}, "primary", "write")
  /\ UNCHANGED <<ready, health, primary, log, scan, event, target, signalled, bounds>>
ForceFind(f) ==
  /\ pc[f] = "manager" /\ Granted(f, "manager")
  /\ IF target[f] \in Adapters
       THEN Become(f, "primary") /\ Lock(f, "manager", {}, "primary", "write")
       ELSE Become(f, "done") /\ Lock(f, "manager", {"manager"}, NoLock, "read")
  /\ UNCHANGED <<ready, health, primary, log, scan, event, target, signalled, bounds>>

\* Sets the primary and waits for the event log with both guards in hand.
ForceSet_Mut(f) ==   \* the event does not say which adapter was left
  /\ pc[f] = "primary" /\ Granted(f, "primary")
  /\ primary' = target[f]
  /\ event' = [event EXCEPT ![f] = Switch(NoAdapter, target[f])]
  /\ Become(f, "log")
  /\ Lock(f, "primary", {}, "log", "write")
  /\ UNCHANGED <<ready, health, log, scan, target, signalled, bounds>>
ForceSet(f) ==
  /\ pc[f] = "primary" /\ Granted(f, "primary")
  /\ primary' = target[f]
  /\ event' = [event EXCEPT ![f] = Switch(primary, target[f])]
  /\ Become(f, "log")
  /\ Lock(f, "primary", {}, "log", "write")
  /\ UNCHANGED <<ready, health, log, scan, target, signalled, bounds>>

ForceLog(f) ==
  /\ pc[f] = "log" /\ Granted(f, "log")
  /\ LogEvent(event[f])
  /\ event' = [event EXCEPT ![f] = NoEvent]
  /\ Become(f, "done")
  /\ Lock(f, "log", {"log", "primary", "manager"}, NoLock, "read")
  /\ UNCHANGED <<ready, health, primary, scan, target, signalled, bounds>>

ForceStep(f) == ForceFind(f) \/ ForceSet(f) \/ ForceLog(f)

\* The caller hangs up and its handler is dropped where it waits.  Waiting for the
\* log it has set the primary: event[f] stays, as the event that is never logged.
ForceHangUp(f) ==
  /\ pc[f] \in {"manager", "primary", "log"}
  /\ Become(f, "gone")
  /\ Abandon(f)
  /\ UNCHANGED <<ready, health, primary, log, scan, event, target, signalled, bounds>>

-----------------------------------------------------------------------------
\* start_adapter, stop_adapter (api.rs): the adapter's own lock is held for
\* writing while it starts or stops, and the manager for reading all the time.
OperateCall(o, a) ==
  /\ pc[o] = "ready"
  /\ target' = [target EXCEPT ![o] = a]
  /\ Become(o, "manager")
  /\ Lock(o, NoLock, {}, "manager", "read")
  /\ UNCHANGED <<ready, health, primary, log, scan, event, signalled, bounds>>

OperateFind(o) ==
  /\ pc[o] = "manager" /\ Granted(o, "manager")
  /\ IF target[o] \in Adapters
       THEN Become(o, "adapter") /\ Lock(o, "manager", {}, target[o], "write")
       ELSE Become(o, "done") /\ Lock(o, "manager", {"manager"}, NoLock, "read")
  /\ UNCHANGED <<ready, health, primary, log, scan, event, target, signalled, bounds>>

OperateAdapter(o) ==
  /\ pc[o] = "adapter" /\ Granted(o, target[o])
  /\ Become(o, "operate")
  /\ Lock(o, target[o], {}, NoLock, "read")
  /\ UNCHANGED <<ready, health, primary, log, scan, event, target, signalled, bounds>>

\* start or stop returns; the adapter is Ready afterwards or it is not.
OperateReturn(o) ==
  /\ pc[o] = "operate"
  /\ \E up \in BOOLEAN : ready' = [ready EXCEPT ![target[o]] = up]
  /\ Become(o, "done")
  /\ Lock(o, NoLock, {target[o], "manager"}, NoLock, "read")
  /\ UNCHANGED <<health, primary, log, scan, event, target, signalled, bounds>>

OperateStep(o) == OperateFind(o) \/ OperateAdapter(o) \/ OperateReturn(o)

\* Its caller hangs up; an adapter that was starting or stopping is left as it is.
OperateHangUp(o) ==
  /\ pc[o] \in {"manager", "adapter", "operate"}
  /\ IF pc[o] = "operate" THEN \E up \in BOOLEAN : ready' = [ready EXCEPT ![target[o]] = up]
                           ELSE UNCHANGED ready
  /\ Become(o, "gone")
  /\ Abandon(o)
  /\ UNCHANGED <<health, primary, log, scan, event, target, signalled, bounds>>

-----------------------------------------------------------------------------
\* MyriadNode::shutdown stops all adapters under the manager's write lock; the
\* other users of the adapters' locks hold the manager while they use them.
NodeShutdown(n) ==
  /\ pc[n] = "ready" /\ pc["monitor"] # "unstarted"
  /\ Become(n, "manager")
  /\ Lock(n, NoLock, {}, "manager", "write")
  /\ UNCHANGED <<ready, health, primary, log, scan, event, target, signalled, bounds>>

Stop_all(n) ==
  /\ pc[n] = "manager" /\ Granted(n, "manager")
  /\ ready' \in [Adapters -> BOOLEAN] /\ \A a \in Adapters : ready'[a] => ready[a]
  /\ Become(n, "done")
  /\ Lock(n, "manager", {"manager"}, NoLock, "read")
  /\ UNCHANGED <<health, primary, log, scan, event, target, signalled, bounds>>

\* FailoverManager::shutdown: the signal reaches subscribers only.
Shutdown(c) ==
  /\ pc[c] = "ready"
  /\ signalled' = (pc["monitor"] # "unstarted")
  /\ Become(c, IF pc["monitor"] = "unstarted" THEN "done" ELSE "join")
  /\ UNCHANGED <<locks, ready, health, primary, log, scan, event, target, bounds>>

ShutdownReturns(c) ==
  /\ pc[c] = "join" /\ pc["monitor"] = "stopped"
  /\ Become(c, "done")
  /\ UNCHANGED <<locks, ready, health, primary, log, scan, event, target, signalled, bounds>>

\* An adapter fails or recovers by itself.
AdapterChange(a) ==
  /\ changes < MaxChanges
  /\ changes' = changes + 1
  /\ ready' = [ready EXCEPT ![a] = ~@]
  /\ UNCHANGED <<pc, locks, health, primary, log, scan, event, target, signalled, checks>>

Next ==
  \/ Start \/ Tick \/ CheckStep \/ StopMonitor
  \/ \E f \in Forcers :
       ForceStep(f) \/ ForceHangUp(f) \/ \E a \in Adapters \cup {Unknown} : ForceCall(f, a)
  \/ \E o \in Operators :
       OperateStep(o) \/ OperateHangUp(o) \/ \E a \in Adapters \cup {Unknown} : OperateCall(o, a)
  \/ \E n \in Stoppers : NodeShutdown(n) \/ Stop_all(n)
  \/ \E c \in Closers : Shutdown(c) \/ ShutdownReturns(c)
  \/ \E a \in Adapters : AdapterChange(a)

Spec == Init /\ [][Next]_vars

\* The monitor's timer fires again and again, tasks run when they can, starting
\* and stopping an adapter ends, and select! does not prefer the timer for ever.
Fairness ==
  /\ WF_vars(Start) /\ WF_vars(Tick) /\ WF_vars(CheckStep) /\ SF_vars(StopMonitor)
  /\ \A f \in Forcers : WF_vars(ForceStep(f))
  /\ \A o \in Operators : WF_vars(OperateStep(o))
  /\ \A n \in Stoppers : WF_vars(Stop_all(n))
  /\ \A c \in Closers : WF_vars(ShutdownReturns(c))

FairSpec == Spec /\ Fairness

-----------------------------------------------------------------------------
States == {"unstarted", "idle", "manager", "health", "adapter", "log", "primary",
           "logswitch", "stopped", "ready", "operate", "done", "gone", "join"}
Guards == [task : Tasks, mode : {"read", "write"}]

TypeOK ==
  /\ pc \in [Tasks -> States]
  /\ held \in [Locks -> SUBSET Guards]
  /\ \A l \in Locks : \A i \in DOMAIN queue[l] : queue[l][i] \in Guards
  /\ ready \in [Adapters -> BOOLEAN]
  /\ \A a \in Adapters : health[a].failures \in 0 .. 3
  /\ primary \in Adapters \cup {NoAdapter}
  /\ Len(log) <= LogCap
  /\ \A i \in DOMAIN log : log[i] \in Events \ {NoEvent}
  /\ todo \subseteq Adapters /\ cur \in Adapters \cup {NoAdapter}
  /\ DOMAIN found \subseteq Adapters
  /\ event \in [Tasks -> Events]
  /\ target \in [Forcers \cup Operators -> Adapters \cup {Unknown, NoAdapter}]
  /\ signalled \in BOOLEAN

\* Which lock a task waits for and which guards it has, by what it is doing.
Wanted == [t \in Tasks |->
  CASE pc[t] \in {"manager", "health", "primary", "log"} -> pc[t]
    [] pc[t] = "logswitch" -> "log"
    [] pc[t] = "adapter" -> IF t = "monitor" THEN cur ELSE target[t]
    [] OTHER -> NoLock]

Holds == [t \in Tasks |->
  CASE t = "monitor" /\ pc[t] = "health"     -> {"manager"}
    [] t = "monitor" /\ pc[t] = "adapter"    -> {"manager", "health"}
    [] t = "monitor" /\ pc[t] = "log"        -> {"manager", "health", cur}
    [] t \in Forcers /\ pc[t] = "primary"    -> {"manager"}
    [] t \in Forcers /\ pc[t] = "log"        -> {"manager", "primary"}
    [] t \in Operators /\ pc[t] = "adapter"  -> {"manager"}
    [] t \in Operators /\ pc[t] = "operate"  -> {"manager", target[t]}
    [] OTHER -> {}]

\* A task is in the queue of the lock it waits for, once, and in no other; it
\* has the guards of its step and no other; the manager's guards that outlive a
\* step are for reading.
QueueInv(W) ==
  /\ \A l \in Locks :
       /\ queue[l] \in Seq(Guards)
       /\ \A i \in DOMAIN queue[l] : W[queue[l][i].task] = l
       /\ \A i, j \in DOMAIN queue[l] : queue[l][i].task = queue[l][j].task => i = j
  /\ \A t \in Tasks :
       W[t] # NoLock =>
         W[t] \in Locks /\ \E i \in DOMAIN queue[W[t]] : queue[W[t]][i].task = t
HeldInv(H) == \A l \in Locks : held[l] \subseteq Guards /\ \A g \in held[l] : l \in H[g.task]
LockInv ==
  /\ TypeOK
  /\ QueueInv(Wanted)
  /\ HeldInv(Holds)
  /\ \A g \in held["manager"] : g.mode = "read"

\* Whatever calls, checks and shutdowns meet, somebody can always go on: the
\* locks are taken in an order of their own, which is not the documented one
\* (check_and_failover, force_failover, start/stop_adapter, stop_all).
Waits(t, l) == \E i \in DOMAIN queue[l] : queue[l][i].task = t
NoDeadlock ==
  (\E t \in Tasks, l \in Locks : Waits(t, l)) =>
     \/ \E t \in Tasks, l \in Locks : Waits(t, l) /\ Granted(t, l)
     \/ \E o \in Operators : pc[o] = "operate"

\* The log, the events on their way to it and those whose caller hung up before
\* they got there (force_failover sets the primary before it awaits the log) account
\* for every change of the primary, although a check logs its switch after it gave
\* the lock up and a forced one may come in between: as many switches lead to an
\* adapter as leave it, plus one if it is the primary.  No switch is lost but by a
\* hang-up, and none is logged twice or with a primary that was not the one left.
Gone == {f \in Forcers : pc[f] = "gone"}
InLog(e(_))   == Cardinality({i \in DOMAIN log : e(log[i])})
Waiting(e(_)) == Cardinality({t \in Tasks \ Gone : e(event[t])})
Lost(e(_))    == Cardinality({t \in Gone : e(event[t])})
SwitchesBalanced ==
  Len(log) < LogCap =>
    \A a \in Adapters :
      LET To(e)   == e.kind = "AdapterSwitch" /\ e.to = a
          From(e) == e.kind = "AdapterSwitch" /\ e.from = a
      IN InLog(To) + Waiting(To) + Lost(To) =
           InLog(From) + Waiting(From) + Lost(From) + (IF primary = a THEN 1 ELSE 0)

\* Every call and every check ends: the node's shutdown is not starved by the
\* checks, nobody waits for ever for a lock, and FailoverManager::shutdown
\* returns, also if its signal comes during a check.
CallsReturn ==
  /\ \A t \in Forcers \cup Operators \cup Stoppers : pc[t] = "manager" ~> pc[t] \in {"done", "gone"}
  /\ pc["monitor"] = "manager" ~> pc["monitor"] = "idle"
  /\ \A c \in Closers : pc[c] = "join" ~> pc[c] = "done"

\* A primary that is not Ready is replaced as long as two others are: a stale
\* snapshot can choose an adapter that just stopped, the next check repairs it.
TwoReady == Cardinality({a \in Adapters : ready[a]}) >= 2
FailedPrimaryReplaced ==
  (TwoReady /\ primary \in Adapters /\ ~ready[primary] /\ ~signalled)
    ~> (~TwoReady \/ primary \notin Adapters \/ ready[primary] \/ signalled)

\* Once adapters and callers leave it alone, the primary settles, however the scores
\* go up and down within ten percent of each other: the margin keeps two adapters of
\* about the same score from taking turns.
PrimarySettles == \E a \in Adapters \cup {NoAdapter} : <>[](primary = a)
=============================================================================
