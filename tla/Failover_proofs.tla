---------------------------- MODULE Failover_proofs ----------------------------
(***************************************************************************)
(* Proofs about Failover, for any number of adapters, calls and shutdowns. *)
(*                                                                         *)
(* The locks are taken in the order manager, health, adapter, log and in   *)
(* the order manager, primary, log.  The log is never kept, so its queue   *)
(* moves; if nobody waits for the log, nobody who has an adapter or the    *)
(* primary is held up, except for an adapter that starts or stops; and so  *)
(* on up to the manager (NoDeadlockFromLocks).  What remains is that the   *)
(* queues and guards are those of the steps the tasks are at (LocksOK).    *)
(***************************************************************************)
EXTENDS Failover, FiniteSetTheorems, TLAPS

\* Where each kind of task can be, and what it has decided by then.
StepsOK ==
  /\ pc \in [Tasks -> States]
  /\ pc["monitor"] \notin {"ready", "operate", "done", "gone", "join"}
  /\ pc["monitor"] \in {"adapter", "log"} => cur \in Adapters
  /\ pc["monitor"] \in {"log", "logswitch"} => event["monitor"] # NoEvent
  /\ \A f \in Forcers :
       /\ pc[f] \in {"ready", "manager", "primary", "log", "done", "gone"}
       /\ pc[f] \in {"primary", "log"} => target[f] \in Adapters
       /\ pc[f] = "log" => event[f] # NoEvent
  /\ \A o \in Operators :
       /\ pc[o] \in {"ready", "manager", "adapter", "operate", "done", "gone"}
       /\ pc[o] \in {"adapter", "operate"} => target[o] \in Adapters
  /\ \A n \in Stoppers : pc[n] \in {"ready", "manager", "done"}
  /\ \A c \in Closers : pc[c] \in {"ready", "join", "done"}

\* Queues and guards; only a shutdown of the node wants to write the manager.
LocksOK ==
  /\ held \in [Locks -> SUBSET Guards]
  /\ queue \in [Locks -> Seq(Guards)]
  /\ QueueInv(Wanted)
  /\ HeldInv(Holds)
  /\ \A g \in held["manager"] : g.mode = "read"
  /\ \A i \in DOMAIN queue["manager"] :
       queue["manager"][i].mode = "write" => queue["manager"][i].task \in Stoppers

Healths == [failures : 0 .. 3, baseline : Int, latency : Int]

\* What is not about locks.
DataOK ==
  /\ ready \in [Adapters -> BOOLEAN]
  /\ health \in [Adapters -> Healths]
  /\ primary \in Adapters \cup {NoAdapter}
  /\ log \in Seq(Events \ {NoEvent}) /\ Len(log) <= LogCap
  /\ todo \subseteq Adapters /\ cur \in Adapters \cup {NoAdapter}
  /\ DOMAIN found \subseteq Adapters
  /\ event \in [Tasks -> Events]
  /\ target \in [Forcers \cup Operators -> Adapters \cup {Unknown, NoAdapter}]
  /\ signalled \in BOOLEAN

\* The inductive invariant.
FailoverInv == StepsOK /\ LocksOK /\ DataOK

-----------------------------------------------------------------------------
(* Somebody can go on                                                      *)

LEMMA NamesApart ==
  /\ OwnLocks \cap Adapters = {} /\ NoLock \notin Locks
  /\ NoAdapter \notin Locks
BY NamesAssumption, FailoverAssumption DEF Locks, OwnLocks, NoLock

\* A queue moves if its lock is free.
LEMMA FreeMoves ==
  ASSUME LocksOK, NEW l \in Locks, NEW u \in Tasks, Waits(u, l), held[l] = {}
  PROVE  \E t \in Tasks : Waits(t, l) /\ Granted(t, l)
<1>1. queue[l] \in Seq(Guards) /\ queue[l] # <<>>
  BY DEF LocksOK, Waits
<1>2. Head(queue[l]) = queue[l][1] /\ 1 \in DOMAIN queue[l] /\ queue[l][1] \in Guards
  BY <1>1
<1> DEFINE t == queue[l][1].task
<1>3. t \in Tasks
  BY <1>2 DEF Guards
<1>4. Waits(t, l)
  BY <1>2 DEF Waits
<1>5. Granted(t, l)
  BY <1>1, <1>2 DEF Granted
<1> QED BY <1>3, <1>4, <1>5

\* Who waits is at a step that wants the lock, and is in its queue.
LEMMA WaitersWant ==
  ASSUME LocksOK, NEW t \in Tasks, NEW l \in Locks
  PROVE  Waits(t, l) <=> Wanted[t] = l
<1>1. Waits(t, l) => Wanted[t] = l
  BY DEF LocksOK, QueueInv, Waits
<1>2. Wanted[t] = l => Waits(t, l)
  BY NamesApart DEF LocksOK, QueueInv, Waits
<1> QED BY <1>1, <1>2

LEMMA HoldersStep ==
  ASSUME LocksOK, NEW l \in Locks, held[l] # {}
  PROVE  \E t \in Tasks : l \in Holds[t]
BY DEF LocksOK, HeldInv, Guards

LEMMA NoDeadlockFromLocks == StepsOK /\ LocksOK /\ DataOK => NoDeadlock
<1> SUFFICES ASSUME StepsOK, LocksOK, DataOK, NEW u \in Tasks, NEW k \in Locks, Waits(u, k),
                    \A o \in Operators : pc[o] # "operate"
             PROVE  \E t \in Tasks, l \in Locks : Waits(t, l) /\ Granted(t, l)
  BY DEF NoDeadlock
<1> DEFINE Moves == \E t \in Tasks, l \in Locks : Waits(t, l) /\ Granted(t, l)
<1>1. ASSUME NEW l \in Locks, NEW t \in Tasks, Wanted[t] = l, held[l] = {}
      PROVE  Moves
  BY <1>1, FreeMoves, WaitersWant
<1>2. CASE \E t \in Tasks : Wanted[t] = "log"
  <2>1. "log" \in Locks /\ \A t \in Tasks : "log" \notin Holds[t]
    <3>1. cur # "log" /\ \A o \in Operators : pc[o] # "operate"
      BY NamesApart DEF DataOK, OwnLocks, Locks
    <3> QED BY <3>1 DEF Holds, Locks, OwnLocks
  <2>2. held["log"] = {}
    BY <2>1, HoldersStep
  <2> QED BY <1>1, <1>2, <2>1, <2>2
<1>3. CASE /\ \A t \in Tasks : Wanted[t] # "log"
           /\ \E t \in Tasks, a \in Adapters : Wanted[t] = a
  <2> PICK t \in Tasks, a \in Adapters : Wanted[t] = a
    BY <1>3
  <2>1. \A v \in Tasks : pc[v] # "log"
    BY <1>3 DEF Wanted
  <2>2. a \in Locks /\ a \notin OwnLocks
    BY NamesApart DEF Locks
  <2>3. \A v \in Tasks : a \notin Holds[v]
    BY <2>1, <2>2 DEF Holds, OwnLocks
  <2>4. held[a] = {}
    BY <2>2, <2>3, HoldersStep
  <2> QED BY <1>1, <2>2, <2>4
<1>4. CASE /\ \A t \in Tasks : Wanted[t] # "log"
           /\ \A t \in Tasks, a \in Adapters : Wanted[t] # a
  <2>1. \A v \in Tasks : pc[v] # "log"
    BY <1>4 DEF Wanted
  <2>2. \A v \in Tasks : v = "monitor" \/ v \in Operators => pc[v] # "adapter"
    <3>1. pc["monitor"] # "adapter"
      BY <1>4 DEF Wanted, StepsOK, Tasks
    <3>2. \A o \in Operators : o \in Tasks /\ o # "monitor"
      BY NamesAssumption DEF Tasks
    <3>3. \A o \in Operators : pc[o] # "adapter"
      BY <1>4, <3>2 DEF Wanted, StepsOK
    <3> QED BY <3>1, <3>3
  <2>3. ASSUME NEW l \in {"primary", "health"}, NEW t \in Tasks, Wanted[t] = l
        PROVE  Moves
    <3>1. \A v \in Tasks : l \notin Holds[v]
      BY <2>1, <2>2 DEF Holds
    <3>2. l \in Locks
      BY DEF Locks, OwnLocks
    <3> QED BY <1>1, <2>3, <3>1, <3>2, HoldersStep
  <2>4. CASE \A t \in Tasks : Wanted[t] \notin {"primary", "health"}
    <3>1. \A v \in Tasks : pc[v] \notin {"primary", "health"}
      BY <2>4 DEF Wanted
    <3>2. \A v \in Tasks : Holds[v] = {}
      BY <2>1, <2>2, <3>1 DEF Holds
    <3>3. held[k] = {}
      BY <3>2, HoldersStep
    <3> QED BY <1>1, <3>3, WaitersWant
  <2> QED BY <2>3, <2>4
<1> QED BY <1>2, <1>3, <1>4

-----------------------------------------------------------------------------
(* What a task does to queues and guards                                   *)

Once(q) == \A i, j \in DOMAIN q : q[i].task = q[j].task => i = j
Appended(r, q, g) == r = Append(q, g)
Absent(t, q) == \A i \in DOMAIN q : q[i].task # t

\* A queue without t, or that t left at its head.
LEMMA RestOfQueue ==
  ASSUME NEW q \in Seq(Guards), Once(q), NEW t, NEW r,
         \/ r = q /\ Absent(t, q)
         \/ q # <<>> /\ Head(q).task = t /\ r = Tail(q)
  PROVE  /\ r \in Seq(Guards) /\ Once(r) /\ Absent(t, r)
         /\ \A j \in DOMAIN r : \E i \in DOMAIN q : r[j] = q[i]
         /\ \A i \in DOMAIN q : q[i].task # t => \E j \in DOMAIN r : r[j] = q[i]
<1>1. CASE r = q /\ Absent(t, q)
  BY <1>1
<1>2. CASE q # <<>> /\ Head(q).task = t /\ r = Tail(q)
  <2>1. /\ r \in Seq(Guards) /\ Len(r) = Len(q) - 1 /\ q[1].task = t
        /\ \A j \in 1 .. Len(r) : r[j] = q[j + 1]
    BY <1>2
  <2>2. DOMAIN q = 1 .. Len(q) /\ DOMAIN r = 1 .. Len(r) /\ Len(q) \in Nat /\ Len(r) \in Nat
    BY <2>1
  <2>3. \A j \in DOMAIN r : j + 1 \in DOMAIN q /\ r[j] = q[j + 1]
    BY <2>1, <2>2
  <2>4. 1 \in DOMAIN q
    BY <2>1, <2>2
  <2>5. Absent(t, r)
    BY <2>1, <2>2, <2>3, <2>4 DEF Once, Absent
  <2>6. Once(r)
    <3> SUFFICES ASSUME NEW i \in DOMAIN r, NEW j \in DOMAIN r, r[i].task = r[j].task PROVE i = j
      BY DEF Once
    <3>1. i + 1 = j + 1
      BY <2>3 DEF Once
    <3>2. i \in Int /\ j \in Int
      BY <2>1, <2>2
    <3> QED BY <3>1, <3>2
  <2>7. \A i \in DOMAIN q : i # 1 => i - 1 \in DOMAIN r /\ r[i - 1] = q[i]
    BY <2>1, <2>2
  <2> QED BY <2>1, <2>3, <2>5, <2>6, <2>7
<1> QED BY <1>1, <1>2

LEMMA EndOfQueue ==
  ASSUME NEW q \in Seq(Guards), Once(q), NEW g \in Guards, Absent(g.task, q), NEW r, Appended(r, q, g)
  PROVE  /\ r \in Seq(Guards) /\ Once(r)
         /\ \A j \in DOMAIN r : r[j] = g \/ \E i \in DOMAIN q : r[j] = q[i]
         /\ \A i \in DOMAIN q : \E j \in DOMAIN r : r[j] = q[i]
         /\ \E j \in DOMAIN r : r[j] = g
<1>1. /\ r \in Seq(Guards) /\ Len(r) = Len(q) + 1 /\ r[Len(r)] = g
      /\ \A j \in 1 .. Len(q) : r[j] = q[j]
  BY DEF Appended
<1>2. DOMAIN q = 1 .. Len(q) /\ DOMAIN r = 1 .. (Len(q) + 1) /\ Len(q) \in Nat
  BY <1>1
<1>3. \A j \in DOMAIN r : j = Len(q) + 1 \/ j \in DOMAIN q
  BY <1>2
<1>4. Once(r)
  BY <1>1, <1>2, <1>3 DEF Once, Absent
<1>5. Len(q) + 1 \in DOMAIN r
  BY <1>2
<1> QED BY <1>1, <1>2, <1>3, <1>4, <1>5

\* How the steps of all tasks but t look from the locks.
Others(t) == \A u \in Tasks \ {t} : Wanted'[u] = Wanted[u] /\ Holds'[u] = Holds[u]

LEMMA StepOfTask ==
  ASSUME StepsOK, NEW t \in Tasks, NEW p, Become(t, p),
         t = "monitor" => UNCHANGED target,
         t # "monitor" => UNCHANGED cur /\ \A u \in (Forcers \cup Operators) \ {t} : target'[u] = target[u]
  PROVE  Others(t)
<1>1. \A u \in Tasks \ {t} : pc'[u] = pc[u]
  BY DEF Become, StepsOK
<1>2. \A u \in Tasks \ {t} : u = "monitor" => cur' = cur
  OBVIOUS
<1>3. \A u \in Tasks \ {t} : u \in Forcers \cup Operators => target'[u] = target[u]
  BY DEF Tasks
<1>4. \A u \in Tasks \ {t} : Holds'[u] = Holds[u]
  BY <1>1, <1>2, <1>3 DEF Holds
<1>5. \A u \in Tasks \ {t} : Wanted'[u] = Wanted[u]
  <2> SUFFICES ASSUME NEW u \in Tasks, u # t PROVE Wanted'[u] = Wanted[u]
    OBVIOUS
  <2>1. CASE u \in Forcers \cup Operators \/ u = "monitor"
    BY <1>1, <1>2, <1>3, <2>1 DEF Wanted
  <2>2. CASE u \in Stoppers \cup Closers
    <3>1. pc[u] # "adapter"
      BY <2>2 DEF StepsOK
    <3> QED BY <1>1, <3>1 DEF Wanted
  <2> QED BY <2>1, <2>2 DEF Tasks
<1> QED BY <1>4, <1>5 DEF Others

\* A task that gets the lock it waited for, if it did, and that waits for the one
\* its next step wants, keeping no more than its next step has.
LEMMA LockKept ==
  ASSUME LocksOK, NEW t \in Tasks, NEW taken, NEW dropped, NEW wanted, NEW mode \in {"read", "write"},
         Lock(t, taken, dropped, wanted, mode),
         Wanted[t] = taken, taken = NoLock \/ (taken \in Locks /\ Granted(t, taken)),
         Wanted'[t] = wanted, wanted \in Locks \cup {NoLock},
         Others(t),
         \A l \in Locks : l \in Holds[t] \cup {taken} => l \in dropped \/ l \in Holds'[t],
         wanted = "manager" /\ mode = "write" => t \in Stoppers,
         taken = "manager" /\ t \in Stoppers => "manager" \in dropped
  PROVE  LocksOK'
<1> DEFINE g == [task |-> t, mode |-> mode]
<1> DEFINE rest(l) == IF l = taken THEN Tail(queue[l]) ELSE queue[l]
<1>0. g \in Guards /\ g.task = t /\ NoLock \notin Locks
  BY NamesApart DEF Guards
<1>1. \A l \in Locks : /\ queue[l] \in Seq(Guards) /\ Once(queue[l])
                       /\ \A i \in DOMAIN queue[l] : Wanted[queue[l][i].task] = l
  BY DEF LocksOK, QueueInv, Once
<1>2. \A l \in Locks : \/ rest(l) = queue[l] /\ Absent(t, queue[l])
                       \/ queue[l] # <<>> /\ Head(queue[l]).task = t /\ rest(l) = Tail(queue[l])
  <2> SUFFICES ASSUME NEW l \in Locks
               PROVE \/ rest(l) = queue[l] /\ Absent(t, queue[l])
                     \/ queue[l] # <<>> /\ Head(queue[l]).task = t /\ rest(l) = Tail(queue[l])
    OBVIOUS
  <2>1. CASE l = taken
    BY <1>0, <2>1 DEF Granted
  <2>2. CASE l # taken
    BY <1>1, <2>2 DEF Absent
  <2> QED BY <2>1, <2>2
<1>3. \A l \in Locks :
        /\ rest(l) \in Seq(Guards) /\ Once(rest(l)) /\ Absent(t, rest(l))
        /\ \A j \in DOMAIN rest(l) : \E i \in DOMAIN queue[l] : rest(l)[j] = queue[l][i]
        /\ \A i \in DOMAIN queue[l] : queue[l][i].task # t => \E j \in DOMAIN rest(l) : rest(l)[j] = queue[l][i]
  <2> SUFFICES ASSUME NEW l \in Locks
      PROVE  /\ rest(l) \in Seq(Guards) /\ Once(rest(l)) /\ Absent(t, rest(l))
             /\ \A j \in DOMAIN rest(l) : \E i \in DOMAIN queue[l] : rest(l)[j] = queue[l][i]
             /\ \A i \in DOMAIN queue[l] : queue[l][i].task # t => \E j \in DOMAIN rest(l) : rest(l)[j] = queue[l][i]
    OBVIOUS
  <2>1. PICK q : q = queue[l]
    OBVIOUS
  <2>2. PICK r : r = rest(l)
    OBVIOUS
  <2> HIDE DEF rest
  <2>3. q \in Seq(Guards) /\ Once(q)
    BY <1>1, <2>1
  <2>4. \/ r = q /\ Absent(t, q)
        \/ q # <<>> /\ Head(q).task = t /\ r = Tail(q)
    BY <1>2, <2>1, <2>2
  <2>5. /\ r \in Seq(Guards) /\ Once(r) /\ Absent(t, r)
        /\ \A j \in DOMAIN r : \E i \in DOMAIN q : r[j] = q[i]
        /\ \A i \in DOMAIN q : q[i].task # t => \E j \in DOMAIN r : r[j] = q[i]
    BY <2>3, <2>4, RestOfQueue
  <2> QED BY <2>1, <2>2, <2>5
<1>4. \A l \in Locks : queue'[l] = IF l = wanted THEN Append(rest(l), g) ELSE rest(l)
  BY DEF Lock
<1> HIDE DEF rest
<1>5. ASSUME NEW l \in Locks, l # wanted
      PROVE  /\ queue'[l] \in Seq(Guards) /\ Once(queue'[l])
             /\ \A j \in DOMAIN queue'[l] :
                  queue'[l][j].task # t /\ \E i \in DOMAIN queue[l] : queue'[l][j] = queue[l][i]
             /\ \A i \in DOMAIN queue[l] : queue[l][i].task # t => \E j \in DOMAIN queue'[l] : queue'[l][j] = queue[l][i]
  BY <1>3, <1>4, <1>5 DEF Absent
<1>6. ASSUME wanted \in Locks
      PROVE  /\ queue'[wanted] \in Seq(Guards) /\ Once(queue'[wanted])
             /\ \A j \in DOMAIN queue'[wanted] :
                  queue'[wanted][j] = g \/ (/\ queue'[wanted][j].task # t
                                            /\ \E i \in DOMAIN queue[wanted] : queue'[wanted][j] = queue[wanted][i])
             /\ \A i \in DOMAIN queue[wanted] : queue[wanted][i].task # t =>
                  \E j \in DOMAIN queue'[wanted] : queue'[wanted][j] = queue[wanted][i]
             /\ \E j \in DOMAIN queue'[wanted] : queue'[wanted][j] = g
  <2>1. PICK q : q = rest(wanted)
    OBVIOUS
  <2>2. PICK r : r = queue'[wanted]
    OBVIOUS
  <2>3. PICK h : h = g
    OBVIOUS
  <2>4. /\ q \in Seq(Guards) /\ Once(q) /\ Absent(h.task, q) /\ r = Append(q, h)
        /\ h \in Guards /\ h.task = t
    BY <1>0, <1>3, <1>4, <1>6, <2>1, <2>2, <2>3
  <2>5. /\ r \in Seq(Guards) /\ Once(r)
        /\ \A j \in DOMAIN r : r[j] = h \/ \E i \in DOMAIN q : r[j] = q[i]
        /\ \A i \in DOMAIN q : \E j \in DOMAIN r : r[j] = q[i]
        /\ \E j \in DOMAIN r : r[j] = h
    <3> HIDE DEF g
    <3>1. q \in Seq(Guards) /\ Once(q) /\ h \in Guards /\ Absent(h.task, q) /\ Appended(r, q, h)
      BY <2>4 DEF Appended
    <3>2. r \in Seq(Guards) /\ Once(r)
      BY <3>1, EndOfQueue
    <3>3. \A j \in DOMAIN r : r[j] = h \/ \E i \in DOMAIN q : r[j] = q[i]
      BY <3>1, EndOfQueue
    <3>4. \A i \in DOMAIN q : \E j \in DOMAIN r : r[j] = q[i]
      BY <3>1, EndOfQueue
    <3>5. \E j \in DOMAIN r : r[j] = h
      BY <3>1, EndOfQueue
    <3> QED BY <3>2, <3>3, <3>4, <3>5
  <2>6. /\ \A i \in DOMAIN q : q[i].task # t /\ \E j \in DOMAIN queue[wanted] : q[i] = queue[wanted][j]
        /\ \A i \in DOMAIN queue[wanted] : queue[wanted][i].task # t => \E j \in DOMAIN q : q[j] = queue[wanted][i]
    BY <1>3, <1>6, <2>1 DEF Absent
  <2> HIDE DEF g
  <2> QED BY <2>2, <2>3, <2>5, <2>6
<1> HIDE DEF g
<1>7. \A l \in Locks : queue'[l] \in Seq(Guards) /\ Once(queue'[l])
  BY <1>5, <1>6
<1>8. ASSUME NEW l \in Locks, NEW j \in DOMAIN queue'[l] PROVE Wanted'[queue'[l][j].task] = l
  <2>1. CASE l = wanted /\ queue'[l][j] = g
    BY <1>0, <2>1
  <2>2. CASE queue'[l][j].task # t /\ \E i \in DOMAIN queue[l] : queue'[l][j] = queue[l][i]
    <3>1. queue'[l][j] \in Guards
      BY <1>7
    <3> QED BY <1>1, <2>2, <3>1 DEF Others, Guards
  <2> QED BY <1>5, <1>6, <2>1, <2>2
<1>9. ASSUME NEW u \in Tasks, Wanted'[u] # NoLock
      PROVE  Wanted'[u] \in Locks /\ \E j \in DOMAIN queue'[Wanted'[u]] : queue'[Wanted'[u]][j].task = u
  <2>1. CASE u = t
    BY <1>0, <1>6, <1>9, <2>1
  <2>2. CASE u # t
    <3>1. Wanted'[u] = Wanted[u] /\ Wanted[u] \in Locks
      BY <1>9, <2>2 DEF Others, LocksOK, QueueInv
    <3>2. PICK i \in DOMAIN queue[Wanted[u]] : queue[Wanted[u]][i].task = u
      BY <1>9, <3>1 DEF LocksOK, QueueInv
    <3>3. \E j \in DOMAIN queue'[Wanted[u]] : queue'[Wanted[u]][j] = queue[Wanted[u]][i]
      BY <1>5, <1>6, <2>2, <3>1, <3>2
    <3> QED BY <3>1, <3>2, <3>3
  <2> QED BY <2>1, <2>2
<1>10. QueueInv(Wanted)'
  BY <1>7, <1>8, <1>9 DEF QueueInv, Once
<1>11. queue' \in [Locks -> Seq(Guards)]
  BY <1>7 DEF Lock
<1>12. \A l \in Locks : held'[l] = IF l \in dropped THEN {h \in held[l] : h.task # t}
                                   ELSE IF l = taken THEN held[l] \cup {Head(queue[l])} ELSE held[l]
  BY DEF Lock
<1>13. \A l \in Locks : l = taken => Head(queue[l]) \in Guards /\ Head(queue[l]).task = t
  BY <1>0, <1>1 DEF Granted
<1>14. HeldInv(Holds)'
  <2> SUFFICES ASSUME NEW l \in Locks, NEW h \in held'[l]
               PROVE  h \in Guards /\ l \in Holds'[h.task]
    BY DEF HeldInv
  <2>1. CASE h \in held[l] /\ h.task # t
    BY <2>1 DEF LocksOK, HeldInv, Others, Guards
  <2>2. CASE h \in held[l] /\ h.task = t /\ l \notin dropped
    BY <2>2 DEF LocksOK, HeldInv
  <2>3. CASE l = taken /\ h = Head(queue[l]) /\ l \notin dropped
    BY <1>13, <2>3
  <2> QED BY <1>12, <2>1, <2>2, <2>3
<1>15. held' \in [Locks -> SUBSET Guards]
  BY <1>12, <1>13 DEF Lock, LocksOK
<1>16. \A h \in held'["manager"] : h.mode = "read"
  <2>1. "manager" \in Locks
    BY DEF Locks, OwnLocks
  <2>2. CASE taken # "manager" \/ "manager" \in dropped
    BY <1>12, <2>1, <2>2 DEF LocksOK
  <2>3. CASE taken = "manager" /\ t \notin Stoppers
    <3>1. Head(queue["manager"]) = queue["manager"][1] /\ 1 \in DOMAIN queue["manager"]
      BY <1>0, <1>1, <2>1, <2>3 DEF Granted
    <3>2. queue["manager"][1] \in Guards
      BY <1>1, <2>1, <3>1
    <3>3. Head(queue["manager"]).mode = "read"
      BY <1>13, <2>1, <2>3, <3>1, <3>2 DEF LocksOK, Guards
    <3> QED BY <1>12, <2>1, <2>3, <3>3 DEF LocksOK
  <2> QED BY <2>2, <2>3
<1>17. \A i \in DOMAIN queue'["manager"] :
         queue'["manager"][i].mode = "write" => queue'["manager"][i].task \in Stoppers
  <2>1. "manager" \in Locks
    BY DEF Locks, OwnLocks
  <2>2. ASSUME NEW i \in DOMAIN queue'["manager"], queue'["manager"][i].mode = "write"
        PROVE  queue'["manager"][i].task \in Stoppers
    <3>1. CASE wanted = "manager" /\ queue'["manager"][i] = g
      BY <2>2, <3>1 DEF g
    <3>2. CASE \E j \in DOMAIN queue["manager"] : queue'["manager"][i] = queue["manager"][j]
      BY <2>2, <3>2 DEF LocksOK
    <3> QED BY <1>5, <1>6, <2>1, <2>2, <3>1, <3>2
  <2> QED BY <2>2
<1> QED BY <1>10, <1>11, <1>14, <1>15, <1>16, <1>17 DEF LocksOK

\* A queue that t left, wherever it stood in it.
LEMMA LeftQueue ==
  ASSUME NEW q \in Seq(Guards), Once(q), NEW t, NEW r, r = Without(q, t)
  PROVE  /\ r \in Seq(Guards) /\ Once(r) /\ Absent(t, r)
         /\ \A j \in DOMAIN r : \E i \in DOMAIN q : r[j] = q[i]
         /\ \A i \in DOMAIN q : q[i].task # t => \E j \in DOMAIN r : r[j] = q[i]
<1>1. CASE \A i \in DOMAIN q : q[i].task # t
  <2>1. r = q
    BY <1>1 DEF Without
  <2> QED BY <1>1, <2>1 DEF Absent
<1>2. CASE \E i \in DOMAIN q : q[i].task = t
  <2> DEFINE k == CHOOSE i \in DOMAIN q : q[i].task = t
  <2>1. k \in DOMAIN q /\ q[k].task = t
    BY <1>2
  <2>2. r = [j \in 1 .. Len(q) - 1 |-> IF j < k THEN q[j] ELSE q[j + 1]]
    BY <1>2 DEF Without
  <2> HIDE DEF k
  <2>3. Len(q) \in Nat /\ DOMAIN q = 1 .. Len(q) /\ k \in 1 .. Len(q)
    BY <2>1
  <2>4. Len(q) - 1 \in Nat /\ DOMAIN r = 1 .. Len(q) - 1
    BY <2>2, <2>3
  <2> DEFINE At(j) == IF j < k THEN j ELSE j + 1
  <2>5. \A j \in DOMAIN r : At(j) \in DOMAIN q /\ At(j) # k /\ r[j] = q[At(j)]
    BY <2>2, <2>3, <2>4
  <2>6. \A i \in DOMAIN r, j \in DOMAIN r : At(i) = At(j) => i = j
    BY <2>3, <2>4
  <2>7. \A i \in DOMAIN q : i # k => \E j \in DOMAIN r : At(j) = i
    <3> SUFFICES ASSUME NEW i \in 1 .. Len(q), i # k PROVE \E j \in DOMAIN r : At(j) = i
      BY <2>3
    <3>1. CASE i < k
      <4>1. i \in DOMAIN r /\ At(i) = i
        BY <2>3, <2>4, <3>1
      <4> QED BY <4>1
    <3>2. CASE ~(i < k)
      <4>1. i - 1 \in DOMAIN r /\ At(i - 1) = i
        BY <2>3, <2>4, <3>2
      <4> QED BY <4>1
    <3> QED BY <3>1, <3>2
  <2> HIDE DEF At
  <2>8. r \in Seq(Guards)
    <3>1. \A j \in DOMAIN r : r[j] \in Guards
      BY <2>5
    <3>2. r = [j \in 1 .. Len(q) - 1 |-> r[j]]
      BY <2>2
    <3>3. r \in [1 .. Len(q) - 1 -> Guards]
      BY <2>4, <3>1, <3>2
    <3> QED BY <2>4, <3>3
  <2>9. Absent(t, r)
    BY <2>1, <2>5 DEF Once, Absent
  <2>10. Once(r)
    BY <2>5, <2>6 DEF Once
  <2>11. \A j \in DOMAIN r : \E i \in DOMAIN q : r[j] = q[i]
    BY <2>5
  <2>12. \A i \in DOMAIN q : q[i].task # t => \E j \in DOMAIN r : r[j] = q[i]
    BY <2>1, <2>5, <2>7
  <2> QED BY <2>8, <2>9, <2>10, <2>11, <2>12
<1> QED BY <1>1, <1>2

\* A task that hangs up leaves queues and guards that are those of the others.
LEMMA AbandonKept ==
  ASSUME LocksOK, NEW t \in Tasks, Abandon(t), Wanted'[t] = NoLock, Others(t)
  PROVE  LocksOK'
<1>1. \A l \in Locks : /\ queue[l] \in Seq(Guards) /\ Once(queue[l])
                       /\ \A i \in DOMAIN queue[l] : Wanted[queue[l][i].task] = l
  BY DEF LocksOK, QueueInv, Once
<1>2. ASSUME NEW l \in Locks
      PROVE  /\ queue'[l] \in Seq(Guards) /\ Once(queue'[l]) /\ Absent(t, queue'[l])
             /\ \A j \in DOMAIN queue'[l] : \E i \in DOMAIN queue[l] : queue'[l][j] = queue[l][i]
             /\ \A i \in DOMAIN queue[l] : queue[l][i].task # t =>
                  \E j \in DOMAIN queue'[l] : queue'[l][j] = queue[l][i]
  <2>1. queue'[l] = Without(queue[l], t)
    BY DEF Abandon
  <2>2. PICK q : q = queue[l]
    OBVIOUS
  <2>3. PICK r : r = queue'[l]
    OBVIOUS
  <2>4. q \in Seq(Guards) /\ Once(q) /\ r = Without(q, t)
    BY <1>1, <2>1, <2>2, <2>3
  <2>5. /\ r \in Seq(Guards) /\ Once(r) /\ Absent(t, r)
        /\ \A j \in DOMAIN r : \E i \in DOMAIN q : r[j] = q[i]
        /\ \A i \in DOMAIN q : q[i].task # t => \E j \in DOMAIN r : r[j] = q[i]
    BY <2>4, LeftQueue
  <2> QED BY <2>2, <2>3, <2>5
<1>3. ASSUME NEW l \in Locks, NEW j \in DOMAIN queue'[l] PROVE Wanted'[queue'[l][j].task] = l
  <2>1. queue'[l][j] \in Guards /\ queue'[l][j].task # t
    BY <1>2, <1>3 DEF Absent
  <2>2. PICK i \in DOMAIN queue[l] : queue'[l][j] = queue[l][i]
    BY <1>2, <1>3
  <2> QED BY <1>1, <2>1, <2>2 DEF Others, Guards
<1>4. ASSUME NEW u \in Tasks, Wanted'[u] # NoLock
      PROVE  Wanted'[u] \in Locks /\ \E j \in DOMAIN queue'[Wanted'[u]] : queue'[Wanted'[u]][j].task = u
  <2>1. u # t /\ Wanted'[u] = Wanted[u] /\ Wanted[u] \in Locks
    BY <1>4 DEF Others, LocksOK, QueueInv
  <2>2. PICK i \in DOMAIN queue[Wanted[u]] : queue[Wanted[u]][i].task = u
    BY <1>4, <2>1 DEF LocksOK, QueueInv
  <2>3. \E j \in DOMAIN queue'[Wanted[u]] : queue'[Wanted[u]][j] = queue[Wanted[u]][i]
    BY <1>2, <2>1, <2>2
  <2> QED BY <2>1, <2>2, <2>3
<1>5. QueueInv(Wanted)'
  BY <1>2, <1>3, <1>4 DEF QueueInv, Once
<1>6. queue' \in [Locks -> Seq(Guards)]
  BY <1>2 DEF Abandon
<1>7. \A l \in Locks : held'[l] = {g \in held[l] : g.task # t}
  BY DEF Abandon
<1>8. HeldInv(Holds)'
  BY <1>7 DEF LocksOK, HeldInv, Others, Guards
<1>9. held' \in [Locks -> SUBSET Guards]
  BY <1>7 DEF Abandon, LocksOK
<1>10. "manager" \in Locks
  BY DEF Locks, OwnLocks
<1>11. \A g \in held'["manager"] : g.mode = "read"
  BY <1>7, <1>10 DEF LocksOK
<1>12. \A i \in DOMAIN queue'["manager"] :
         queue'["manager"][i].mode = "write" => queue'["manager"][i].task \in Stoppers
  BY <1>2, <1>10 DEF LocksOK
<1> QED BY <1>5, <1>6, <1>8, <1>9, <1>11, <1>12 DEF LocksOK

-----------------------------------------------------------------------------
(* The steps of the tasks                                                  *)

\* What an action does not change.
LEMMA DataKept ==
  ASSUME DataOK, UNCHANGED <<health, log, todo, cur, found, event, target, signalled>>,
         ready' \in [Adapters -> BOOLEAN], primary' \in Adapters \cup {NoAdapter}
  PROVE  DataOK'
BY DEF DataOK

LEMMA NoEventFacts ==
  /\ NoEvent \in Events
  /\ \A a, b \in Adapters \cup {NoAdapter} : Switch(a, b) \in Events \ {NoEvent}
  /\ \A a \in Adapters : /\ Event("AdapterDown", a) \in Events \ {NoEvent}
                         /\ Event("ThresholdViolation", a) \in Events \ {NoEvent}
BY DEF NoEvent, Events, Switch, Event

\* log_event adds to the log and forgets what is too much.
LEMMA LogGrows ==
  ASSUME DataOK, NEW e \in Events \ {NoEvent}, LogEvent(e)
  PROVE  log' \in Seq(Events \ {NoEvent}) /\ Len(log') <= LogCap
<1> DEFINE E == Events \ {NoEvent}
<1>1. log \in Seq(E) /\ Len(log) <= LogCap /\ LogCap \in Nat /\ LogCap > 0
  BY FailoverAssumption DEF DataOK
<1> HIDE DEF E
<1>2. e \in E
  BY DEF E
<1>3. CASE Len(log) < LogCap
  <2>1. log' = Append(log, e)
    BY <1>3 DEF LogEvent
  <2> QED BY <1>1, <1>2, <1>3, <2>1 DEF E
<1>4. CASE ~(Len(log) < LogCap)
  <2>1. log' = Append(Tail(log), e) /\ log # <<>>
    BY <1>1, <1>4 DEF LogEvent
  <2>2. Tail(log) \in Seq(E) /\ Len(Tail(log)) = Len(log) - 1
    BY <1>1, <2>1
  <2> QED BY <1>1, <1>2, <2>1, <2>2 DEF E
<1> QED BY <1>3, <1>4

LEMMA TaskFacts ==
  /\ "monitor" \in Tasks /\ Forcers \subseteq Tasks /\ Operators \subseteq Tasks
  /\ Stoppers \subseteq Tasks /\ Closers \subseteq Tasks
  /\ \A f \in Forcers : f # "monitor" /\ f \notin Operators /\ f \notin Stoppers /\ f \notin Closers
  /\ \A o \in Operators : o # "monitor" /\ o \notin Forcers /\ o \notin Stoppers /\ o \notin Closers
  /\ \A n \in Stoppers : n # "monitor" /\ n \notin Forcers /\ n \notin Operators /\ n \notin Closers
  /\ \A c \in Closers : c # "monitor" /\ c \notin Forcers /\ c \notin Operators /\ c \notin Stoppers
BY NamesAssumption DEF Tasks

LEMMA LockNames == OwnLocks \subseteq Locks /\ Adapters \subseteq Locks
BY DEF Locks

LEMMA ForceStepKeeps ==
  ASSUME FailoverInv, NEW f \in Forcers,
         ForceStep(f) \/ \E a \in Adapters \cup {Unknown} : ForceCall(f, a)
  PROVE  FailoverInv'
<1> USE DEF FailoverInv
<1>0. f \in Tasks /\ f # "monitor" /\ f \notin Operators /\ f \notin Stoppers /\ f \notin Closers
  BY TaskFacts
<1>1. ASSUME NEW a \in Adapters \cup {Unknown}, ForceCall(f, a) PROVE FailoverInv'
  <2>1. /\ pc[f] = "ready" /\ Become(f, "manager") /\ Lock(f, NoLock, {}, "manager", "read")
        /\ target' = [target EXCEPT ![f] = a]
        /\ UNCHANGED <<ready, health, primary, log, todo, cur, found, event, signalled>>
    BY <1>1 DEF ForceCall, scan
  <2>2. Others(f)
    BY <1>0, <2>1, StepOfTask DEF DataOK
  <2>3. pc'[f] = "manager" /\ \A u \in Tasks \ {f} : pc'[u] = pc[u]
    BY <1>0, <2>1 DEF Become, StepsOK
  <2>4. Wanted[f] = NoLock /\ Wanted'[f] = "manager" /\ Holds[f] = {}
    BY <1>0, <2>1, <2>3 DEF Wanted, Holds
  <2>5. LocksOK'
    BY <1>0, <2>1, <2>2, <2>4, LockKept, LockNames, NamesApart DEF OwnLocks
  <2>6. StepsOK'
    BY <1>0, <2>1, <2>3, TaskFacts DEF StepsOK, DataOK, States, Become
  <2>7. DataOK'
    BY <2>1 DEF DataOK
  <2> QED BY <2>5, <2>6, <2>7
<1>2. CASE ForceFind(f)
  <2>1. /\ pc[f] = "manager" /\ Granted(f, "manager")
        /\ UNCHANGED <<ready, health, primary, log, todo, cur, found, event, target, signalled>>
    BY <1>2 DEF ForceFind, scan
  <2>2. Wanted[f] = "manager" /\ Holds[f] = {}
    BY <1>0, <2>1 DEF Wanted, Holds
  <2>3. DataOK'
    BY <2>1, DataKept DEF DataOK
  <2>4. CASE target[f] \in Adapters
    <3>1. Become(f, "primary") /\ Lock(f, "manager", {}, "primary", "write")
      BY <1>2, <2>4 DEF ForceFind
    <3>2. Others(f)
      BY <1>0, <2>1, <3>1, StepOfTask
    <3>3. pc'[f] = "primary" /\ \A u \in Tasks \ {f} : pc'[u] = pc[u]
      BY <1>0, <3>1 DEF Become, StepsOK
    <3>4. Wanted'[f] = "primary" /\ Holds'[f] = {"manager"}
      BY <1>0, <3>3 DEF Wanted, Holds
    <3>5. LocksOK'
      BY <1>0, <2>1, <2>2, <3>1, <3>2, <3>4, LockKept, LockNames, NamesApart DEF OwnLocks
    <3>6. StepsOK'
      BY <1>0, <2>1, <2>4, <3>1, <3>3, TaskFacts DEF StepsOK, States, Become
    <3> QED BY <2>3, <3>5, <3>6
  <2>5. CASE target[f] \notin Adapters
    <3>1. Become(f, "done") /\ Lock(f, "manager", {"manager"}, NoLock, "read")
      BY <1>2, <2>5 DEF ForceFind
    <3>2. Others(f)
      BY <1>0, <2>1, <3>1, StepOfTask
    <3>3. pc'[f] = "done" /\ \A u \in Tasks \ {f} : pc'[u] = pc[u]
      BY <1>0, <3>1 DEF Become, StepsOK
    <3>4. Wanted'[f] = NoLock
      BY <1>0, <3>3 DEF Wanted
    <3>5. LocksOK'
      BY <1>0, <2>1, <2>2, <3>1, <3>2, <3>4, LockKept, LockNames, NamesApart DEF OwnLocks
    <3>6. StepsOK'
      BY <1>0, <2>1, <3>1, <3>3, TaskFacts DEF StepsOK, States, Become
    <3> QED BY <2>3, <3>5, <3>6
  <2> QED BY <2>4, <2>5
<1>3. CASE ForceSet(f)
  <2>1. /\ pc[f] = "primary" /\ Granted(f, "primary")
        /\ Become(f, "log") /\ Lock(f, "primary", {}, "log", "write")
        /\ primary' = target[f] /\ event' = [event EXCEPT ![f] = Switch(primary, target[f])]
        /\ UNCHANGED <<ready, health, log, todo, cur, found, target, signalled>>
    BY <1>3 DEF ForceSet, scan
  <2>2. Others(f)
    BY <1>0, <2>1, StepOfTask
  <2>3. pc'[f] = "log" /\ \A u \in Tasks \ {f} : pc'[u] = pc[u]
    BY <1>0, <2>1 DEF Become, StepsOK
  <2>4. /\ Wanted[f] = "primary" /\ Wanted'[f] = "log"
        /\ Holds[f] = {"manager"} /\ Holds'[f] = {"manager", "primary"}
    BY <1>0, <2>1, <2>3 DEF Wanted, Holds
  <2>5. LocksOK'
    BY <1>0, <2>1, <2>2, <2>4, LockKept, LockNames, NamesApart DEF OwnLocks
  <2>6. target[f] \in Adapters /\ Switch(primary, target[f]) \in Events \ {NoEvent}
    BY <2>1, NoEventFacts DEF StepsOK, DataOK
  <2>7. /\ event'[f] # NoEvent /\ event' \in [Tasks -> Events]
        /\ \A u \in Tasks \ {f} : event'[u] = event[u]
    BY <1>0, <2>1, <2>6 DEF DataOK
  <2>8. StepsOK'
    BY <1>0, <2>1, <2>3, <2>6, <2>7, TaskFacts DEF StepsOK, States, Become
  <2>9. DataOK'
    BY <2>1, <2>6, <2>7 DEF DataOK
  <2> QED BY <2>5, <2>8, <2>9
<1>4. CASE ForceLog(f)
  <2>1. /\ pc[f] = "log" /\ Granted(f, "log") /\ LogEvent(event[f])
        /\ Become(f, "done") /\ Lock(f, "log", {"log", "primary", "manager"}, NoLock, "read")
        /\ event' = [event EXCEPT ![f] = NoEvent]
        /\ UNCHANGED <<ready, health, primary, todo, cur, found, target, signalled>>
    BY <1>4 DEF ForceLog, scan
  <2>2. Others(f)
    BY <1>0, <2>1, StepOfTask
  <2>3. pc'[f] = "done" /\ \A u \in Tasks \ {f} : pc'[u] = pc[u]
    BY <1>0, <2>1 DEF Become, StepsOK
  <2>4. Wanted[f] = "log" /\ Wanted'[f] = NoLock /\ Holds[f] = {"manager", "primary"}
    BY <1>0, <2>1, <2>3 DEF Wanted, Holds
  <2>5. LocksOK'
    BY <1>0, <2>1, <2>2, <2>4, LockKept, LockNames, NamesApart DEF OwnLocks
  <2>6. event[f] \in Events \ {NoEvent}
    BY <1>0, <2>1 DEF StepsOK, DataOK
  <2>7. event' \in [Tasks -> Events] /\ \A u \in Tasks \ {f} : event'[u] = event[u]
    BY <1>0, <2>1, NoEventFacts DEF DataOK
  <2>8. StepsOK'
    BY <1>0, <2>1, <2>3, <2>7, TaskFacts DEF StepsOK, States, Become
  <2>9. DataOK'
    BY <2>1, <2>6, <2>7, LogGrows DEF DataOK
  <2> QED BY <2>5, <2>8, <2>9
<1> QED BY <1>1, <1>2, <1>3, <1>4 DEF ForceStep

LEMMA OperateStepKeeps ==
  ASSUME FailoverInv, NEW o \in Operators,
         OperateStep(o) \/ \E a \in Adapters \cup {Unknown} : OperateCall(o, a)
  PROVE  FailoverInv'
<1> USE DEF FailoverInv
<1>0. o \in Tasks /\ o # "monitor" /\ o \notin Forcers /\ o \notin Stoppers /\ o \notin Closers
  BY TaskFacts
<1>1. ASSUME NEW a \in Adapters \cup {Unknown}, OperateCall(o, a) PROVE FailoverInv'
  <2>1. /\ pc[o] = "ready" /\ Become(o, "manager") /\ Lock(o, NoLock, {}, "manager", "read")
        /\ target' = [target EXCEPT ![o] = a]
        /\ UNCHANGED <<ready, health, primary, log, todo, cur, found, event, signalled>>
    BY <1>1 DEF OperateCall, scan
  <2>2. Others(o)
    BY <1>0, <2>1, StepOfTask DEF DataOK
  <2>3. pc'[o] = "manager" /\ \A u \in Tasks \ {o} : pc'[u] = pc[u]
    BY <1>0, <2>1 DEF Become, StepsOK
  <2>4. Wanted[o] = NoLock /\ Wanted'[o] = "manager" /\ Holds[o] = {}
    BY <1>0, <2>1, <2>3 DEF Wanted, Holds
  <2>5. LocksOK'
    BY <1>0, <2>1, <2>2, <2>4, LockKept, LockNames, NamesApart DEF OwnLocks
  <2>6. StepsOK'
    BY <1>0, <2>1, <2>3, TaskFacts DEF StepsOK, DataOK, States, Become
  <2>7. DataOK'
    BY <2>1 DEF DataOK
  <2> QED BY <2>5, <2>6, <2>7
<1>2. CASE OperateFind(o)
  <2>1. /\ pc[o] = "manager" /\ Granted(o, "manager")
        /\ UNCHANGED <<ready, health, primary, log, todo, cur, found, event, target, signalled>>
    BY <1>2 DEF OperateFind, scan
  <2>2. Wanted[o] = "manager" /\ Holds[o] = {}
    BY <1>0, <2>1 DEF Wanted, Holds
  <2>3. DataOK'
    BY <2>1, DataKept DEF DataOK
  <2>4. CASE target[o] \in Adapters
    <3>1. Become(o, "adapter") /\ Lock(o, "manager", {}, target[o], "write")
      BY <1>2, <2>4 DEF OperateFind
    <3>2. Others(o)
      BY <1>0, <2>1, <3>1, StepOfTask
    <3>3. pc'[o] = "adapter" /\ \A u \in Tasks \ {o} : pc'[u] = pc[u]
      BY <1>0, <3>1 DEF Become, StepsOK
    <3>4. Wanted'[o] = target[o] /\ Holds'[o] = {"manager"}
      BY <1>0, <2>1, <3>3 DEF Wanted, Holds
    <3>5. target[o] # "manager" /\ target[o] \in Locks
      BY <2>4, NamesApart, LockNames DEF OwnLocks
    <3>6. LocksOK'
      BY <1>0, <2>1, <2>2, <3>1, <3>2, <3>4, <3>5, LockKept, LockNames, NamesApart DEF OwnLocks
    <3>7. StepsOK'
      BY <1>0, <2>1, <2>4, <3>1, <3>3, TaskFacts DEF StepsOK, States, Become
    <3> QED BY <2>3, <3>6, <3>7
  <2>5. CASE target[o] \notin Adapters
    <3>1. Become(o, "done") /\ Lock(o, "manager", {"manager"}, NoLock, "read")
      BY <1>2, <2>5 DEF OperateFind
    <3>2. Others(o)
      BY <1>0, <2>1, <3>1, StepOfTask
    <3>3. pc'[o] = "done" /\ \A u \in Tasks \ {o} : pc'[u] = pc[u]
      BY <1>0, <3>1 DEF Become, StepsOK
    <3>4. Wanted'[o] = NoLock
      BY <1>0, <3>3 DEF Wanted
    <3>5. LocksOK'
      BY <1>0, <2>1, <2>2, <3>1, <3>2, <3>4, LockKept, LockNames, NamesApart DEF OwnLocks
    <3>6. StepsOK'
      BY <1>0, <2>1, <3>1, <3>3, TaskFacts DEF StepsOK, States, Become
    <3> QED BY <2>3, <3>5, <3>6
  <2> QED BY <2>4, <2>5
<1>3. CASE OperateAdapter(o)
  <2>1. /\ pc[o] = "adapter" /\ Granted(o, target[o])
        /\ Become(o, "operate") /\ Lock(o, target[o], {}, NoLock, "read")
        /\ UNCHANGED <<ready, health, primary, log, todo, cur, found, event, target, signalled>>
    BY <1>3 DEF OperateAdapter, scan
  <2>2. Others(o)
    BY <1>0, <2>1, StepOfTask
  <2>3. pc'[o] = "operate" /\ \A u \in Tasks \ {o} : pc'[u] = pc[u]
    BY <1>0, <2>1 DEF Become, StepsOK
  <2>4. /\ Wanted[o] = target[o] /\ Wanted'[o] = NoLock
        /\ Holds[o] = {"manager"} /\ Holds'[o] = {"manager", target[o]}
    BY <1>0, <2>1, <2>3 DEF Wanted, Holds
  <2>5. target[o] \in Locks /\ target[o] # "manager"
    BY <2>1, NamesApart, LockNames DEF OwnLocks, StepsOK
  <2>6. LocksOK'
    BY <1>0, <2>1, <2>2, <2>4, <2>5, LockKept, LockNames, NamesApart DEF OwnLocks
  <2>7. StepsOK'
    BY <1>0, <2>1, <2>3, TaskFacts DEF StepsOK, States, Become
  <2>8. DataOK'
    BY <2>1, DataKept DEF DataOK
  <2> QED BY <2>6, <2>7, <2>8
<1>4. CASE OperateReturn(o)
  <2>1. /\ pc[o] = "operate"
        /\ Become(o, "done") /\ Lock(o, NoLock, {target[o], "manager"}, NoLock, "read")
        /\ ready' \in [Adapters -> BOOLEAN]
        /\ UNCHANGED <<health, primary, log, todo, cur, found, event, target, signalled>>
    BY <1>4 DEF OperateReturn, scan, DataOK
  <2>2. Others(o)
    BY <1>0, <2>1, StepOfTask
  <2>3. pc'[o] = "done" /\ \A u \in Tasks \ {o} : pc'[u] = pc[u]
    BY <1>0, <2>1 DEF Become, StepsOK
  <2>4. Wanted[o] = NoLock /\ Wanted'[o] = NoLock /\ Holds[o] = {"manager", target[o]}
    BY <1>0, <2>1, <2>3 DEF Wanted, Holds
  <2>5. LocksOK'
    BY <1>0, <2>1, <2>2, <2>4, LockKept, LockNames, NamesApart DEF OwnLocks
  <2>6. StepsOK'
    BY <1>0, <2>1, <2>3, TaskFacts DEF StepsOK, States, Become
  <2>7. DataOK'
    BY <2>1, DataKept DEF DataOK
  <2> QED BY <2>5, <2>6, <2>7
<1> QED BY <1>1, <1>2, <1>3, <1>4 DEF OperateStep

\* Whoever hangs up leaves his locks, and perhaps an adapter, behind.
LEMMA HangUpKeeps ==
  ASSUME FailoverInv, NEW t \in Forcers \cup Operators,
         \/ t \in Forcers /\ ForceHangUp(t)
         \/ t \in Operators /\ OperateHangUp(t)
  PROVE  FailoverInv'
<1> USE DEF FailoverInv
<1>0. t \in Tasks /\ t # "monitor" /\ t \notin Stoppers /\ t \notin Closers
  BY TaskFacts
<1>1. /\ Become(t, "gone") /\ Abandon(t) /\ ready' \in [Adapters -> BOOLEAN]
      /\ UNCHANGED <<health, primary, log, todo, cur, found, event, target, signalled>>
  BY DEF ForceHangUp, OperateHangUp, scan, DataOK
<1>2. Others(t)
  BY <1>0, <1>1, StepOfTask
<1>3. pc'[t] = "gone" /\ \A u \in Tasks \ {t} : pc'[u] = pc[u]
  BY <1>0, <1>1 DEF Become, StepsOK
<1>4. Wanted'[t] = NoLock
  BY <1>0, <1>3 DEF Wanted
<1>5. LocksOK'
  BY <1>0, <1>1, <1>2, <1>4, AbandonKept
<1>6. pc' \in [Tasks -> States]
  BY <1>0, <1>1 DEF Become, StepsOK, States
<1>7. StepsOK'
  BY <1>0, <1>1, <1>3, <1>6, TaskFacts DEF StepsOK
<1>8. DataOK'
  BY <1>1, DataKept DEF DataOK
<1> QED BY <1>5, <1>7, <1>8

LEMMA StopperKeeps ==
  ASSUME FailoverInv, NEW n \in Stoppers, NodeShutdown(n) \/ Stop_all(n)
  PROVE  FailoverInv'
<1> USE DEF FailoverInv
<1>0. n \in Tasks /\ n # "monitor" /\ n \notin Forcers /\ n \notin Operators /\ n \notin Closers
  BY TaskFacts
<1>1. CASE NodeShutdown(n)
  <2>1. /\ pc[n] = "ready" /\ Become(n, "manager") /\ Lock(n, NoLock, {}, "manager", "write")
        /\ UNCHANGED <<ready, health, primary, log, todo, cur, found, event, target, signalled>>
    BY <1>1 DEF NodeShutdown, scan
  <2>2. Others(n)
    BY <1>0, <2>1, StepOfTask
  <2>3. pc'[n] = "manager" /\ \A u \in Tasks \ {n} : pc'[u] = pc[u]
    BY <1>0, <2>1 DEF Become, StepsOK
  <2>4. Wanted[n] = NoLock /\ Wanted'[n] = "manager" /\ Holds[n] = {}
    BY <1>0, <2>1, <2>3 DEF Wanted, Holds
  <2>5. LocksOK'
    BY <1>0, <2>1, <2>2, <2>4, LockKept, LockNames, NamesApart DEF OwnLocks
  <2>6. StepsOK'
    BY <1>0, <2>1, <2>3, TaskFacts DEF StepsOK, States, Become
  <2>7. DataOK'
    BY <2>1, DataKept DEF DataOK
  <2> QED BY <2>5, <2>6, <2>7
<1>2. CASE Stop_all(n)
  <2>1. /\ pc[n] = "manager" /\ Granted(n, "manager") /\ ready' \in [Adapters -> BOOLEAN]
        /\ Become(n, "done") /\ Lock(n, "manager", {"manager"}, NoLock, "read")
        /\ UNCHANGED <<health, primary, log, todo, cur, found, event, target, signalled>>
    BY <1>2 DEF Stop_all, scan
  <2>2. Others(n)
    BY <1>0, <2>1, StepOfTask
  <2>3. pc'[n] = "done" /\ \A u \in Tasks \ {n} : pc'[u] = pc[u]
    BY <1>0, <2>1 DEF Become, StepsOK
  <2>4. Wanted[n] = "manager" /\ Wanted'[n] = NoLock /\ Holds[n] = {}
    BY <1>0, <2>1, <2>3 DEF Wanted, Holds
  <2>5. LocksOK'
    BY <1>0, <2>1, <2>2, <2>4, LockKept, LockNames, NamesApart DEF OwnLocks
  <2>6. StepsOK'
    BY <1>0, <2>1, <2>3, TaskFacts DEF StepsOK, States, Become
  <2>7. DataOK'
    BY <2>1, DataKept DEF DataOK
  <2> QED BY <2>5, <2>6, <2>7
<1> QED BY <1>1, <1>2

\* Steps that take and drop no lock.
LEMMA LocksUntouched ==
  ASSUME FailoverInv, NEW t \in Tasks, NEW p, Become(t, p), pc[t] \notin {"operate", "manager", "health", "adapter", "log", "primary", "logswitch"},
         p \in {"idle", "stopped", "done", "join"}, UNCHANGED <<held, queue, cur, target>>
  PROVE  LocksOK'
<1> USE DEF FailoverInv
<1>1. \A u \in Tasks \ {t} : Wanted'[u] = Wanted[u] /\ Holds'[u] = Holds[u]
  BY StepOfTask DEF Others
<1>2. pc'[t] = p
  BY DEF Become, StepsOK
<1>3. Wanted[t] = NoLock /\ Wanted'[t] = NoLock /\ Holds[t] = {} /\ Holds'[t] = {}
  BY <1>2 DEF Wanted, Holds
<1>4. /\ \A u \in Tasks : Wanted'[u] = Wanted[u] /\ Holds'[u] = Holds[u]
      /\ Wanted' = [u \in Tasks |-> Wanted'[u]] /\ Wanted = [u \in Tasks |-> Wanted[u]]
      /\ Holds' = [u \in Tasks |-> Holds'[u]] /\ Holds = [u \in Tasks |-> Holds[u]]
  BY <1>1, <1>3 DEF Wanted, Holds
<1>5. Wanted' = Wanted /\ Holds' = Holds
  BY <1>4
<1> QED BY <1>5 DEF LocksOK, QueueInv, HeldInv

LEMMA CloserKeeps ==
  ASSUME FailoverInv, NEW c \in Closers, Shutdown(c) \/ ShutdownReturns(c)
  PROVE  FailoverInv'
<1> USE DEF FailoverInv
<1>0. c \in Tasks /\ c # "monitor" /\ c \notin Forcers /\ c \notin Operators /\ c \notin Stoppers
  BY TaskFacts
<1>1. /\ UNCHANGED <<held, queue, ready, health, primary, log, todo, cur, found, event, target>>
      /\ signalled' \in BOOLEAN
  BY DEF Shutdown, ShutdownReturns, locks, scan, DataOK
<1>2. PICK p \in {"done", "join"} : Become(c, p) /\ pc[c] \in {"ready", "join"}
  BY DEF Shutdown, ShutdownReturns
<1>3. pc'[c] = p /\ \A u \in Tasks \ {c} : pc'[u] = pc[u]
  BY <1>0, <1>2 DEF Become, StepsOK
<1>4. LocksOK'
  BY <1>0, <1>1, <1>2, LocksUntouched
<1>5. StepsOK'
  BY <1>0, <1>1, <1>2, <1>3, TaskFacts DEF StepsOK, States, Become
<1>6. DataOK'
  BY <1>1 DEF DataOK
<1> QED BY <1>4, <1>5, <1>6

-----------------------------------------------------------------------------
(* The steps of the monitor                                                *)

LEMMA MonitorSteps ==
  ASSUME StepsOK, NEW p \in States \ {"ready", "operate", "done", "gone", "join"}, Become("monitor", p),
         UNCHANGED target, \A u \in Tasks \ {"monitor"} : event'[u] = event[u],
         p \in {"adapter", "log"} => cur' \in Adapters,
         p \in {"log", "logswitch"} => event'["monitor"] # NoEvent
  PROVE  StepsOK' /\ pc'["monitor"] = p
<1>1. pc'["monitor"] = p /\ \A u \in Tasks \ {"monitor"} : pc'[u] = pc[u]
  BY TaskFacts DEF Become, StepsOK
<1>2. pc' \in [Tasks -> States]
  BY TaskFacts DEF Become, StepsOK
<1> QED BY <1>1, <1>2, TaskFacts DEF StepsOK

LEMMA MonitorOthers ==
  ASSUME StepsOK, NEW p, Become("monitor", p), UNCHANGED target
  PROVE  Others("monitor")
BY TaskFacts, StepOfTask

\* Whether the loop goes on or ends, no more is kept than the next step has.
LEMMA NextAdapterKeeps ==
  ASSUME StepsOK, LocksOK, NEW taken \in Locks, Granted("monitor", taken),
         Wanted["monitor"] = taken, NextAdapter(taken),
         Holds["monitor"] \cup {taken} \subseteq {"manager", "health", cur, "log"},
         DOMAIN found' \subseteq Adapters, todo \subseteq Adapters,
         UNCHANGED target, \A u \in Tasks \ {"monitor"} : event'[u] = event[u]
  PROVE  /\ StepsOK' /\ LocksOK'
         /\ todo' \subseteq Adapters /\ cur' \in Adapters \cup {NoAdapter}
<1>0. "monitor" \in Tasks /\ "monitor" \notin Operators /\ "monitor" \notin Forcers /\ "monitor" \notin Stoppers
  BY TaskFacts
<1>1. CASE /\ todo # {} /\ cur' \in todo /\ todo' = todo \ {cur'}
           /\ Become("monitor", "adapter") /\ Lock("monitor", taken, {cur, "log"}, cur', "read")
  <2>1. StepsOK' /\ pc'["monitor"] = "adapter"
    BY <1>1, MonitorSteps DEF States
  <2>2. Others("monitor")
    BY <1>1, MonitorOthers
  <2>3. Wanted'["monitor"] = cur' /\ Holds'["monitor"] = {"manager", "health"}
    BY <1>0, <2>1 DEF Wanted, Holds
  <2>4. cur' \in Locks
    BY <1>1, LockNames
  <2>5. \A l \in Locks : l \in Holds["monitor"] \cup {taken} => l \in {cur, "log"} \/ l \in Holds'["monitor"]
    BY <2>3
  <2>6. LocksOK'
    BY <1>0, <1>1, <2>2, <2>3, <2>4, <2>5, LockKept
  <2> QED BY <1>1, <2>1, <2>6
<1>2. ASSUME NEW p \in {"idle", "primary"}, NEW wanted, NEW mode \in {"read", "write"},
             wanted = IF p = "idle" THEN NoLock ELSE "primary",
             todo' = todo, cur' = NoAdapter, Become("monitor", p),
             Lock("monitor", taken, {cur, "log", "health", "manager"}, wanted, mode)
      PROVE  StepsOK' /\ LocksOK'
  <2>1. StepsOK' /\ pc'["monitor"] = p
    BY <1>2, MonitorSteps DEF States
  <2>2. Others("monitor")
    BY <1>2, MonitorOthers
  <2>3. Wanted'["monitor"] = wanted /\ wanted \in Locks \cup {NoLock} /\ wanted # "manager"
    BY <1>0, <1>2, <2>1, LockNames DEF Wanted, OwnLocks, NoLock
  <2>4. LocksOK'
    BY <1>0, <1>2, <2>2, <2>3, LockKept
  <2> QED BY <2>1, <2>4
<1>3. \/ todo # {} /\ cur' \in todo /\ todo' = todo \ {cur'} /\ Become("monitor", "adapter")
                   /\ Lock("monitor", taken, {cur, "log"}, cur', "read")
      \/ /\ todo' = todo /\ cur' = NoAdapter
         /\ \/ /\ Become("monitor", "idle")
               /\ Lock("monitor", taken, {cur, "log", "health", "manager"}, NoLock, "read")
            \/ /\ Become("monitor", "primary")
               /\ Lock("monitor", taken, {cur, "log", "health", "manager"}, "primary", "write")
  BY DEF NextAdapter
<1>4. CASE /\ todo' = todo /\ cur' = NoAdapter /\ Become("monitor", "idle")
           /\ Lock("monitor", taken, {cur, "log", "health", "manager"}, NoLock, "read")
  BY <1>2, <1>4
<1>5. CASE /\ todo' = todo /\ cur' = NoAdapter /\ Become("monitor", "primary")
           /\ Lock("monitor", taken, {cur, "log", "health", "manager"}, "primary", "write")
  BY <1>2, <1>5
<1> QED BY <1>1, <1>3, <1>4, <1>5

\* Every judgement leaves a health and, if it has an event, waits for the log.
LEMMA AfterJudgingKeeps ==
  ASSUME FailoverInv, pc["monitor"] = "adapter", Granted("monitor", cur),
         NEW e \in Events, AfterJudging(e), DOMAIN found' \subseteq Adapters, UNCHANGED target
  PROVE  /\ StepsOK' /\ LocksOK' /\ event' \in [Tasks -> Events]
         /\ todo' \subseteq Adapters /\ cur' \in Adapters \cup {NoAdapter}
<1> USE DEF FailoverInv
<1>0. /\ "monitor" \in Tasks /\ "monitor" \notin Operators /\ "monitor" \notin Forcers /\ "monitor" \notin Stoppers
      /\ cur \in Adapters /\ cur \in Locks /\ cur \notin OwnLocks
  BY TaskFacts, LockNames, NamesApart DEF StepsOK
<1>1. /\ event' \in [Tasks -> Events] /\ event'["monitor"] = e
      /\ \A u \in Tasks \ {"monitor"} : event'[u] = event[u]
  BY <1>0 DEF AfterJudging, DataOK
<1>2. Wanted["monitor"] = cur /\ Holds["monitor"] = {"manager", "health"}
  BY <1>0 DEF Wanted, Holds
<1>3. CASE e = NoEvent
  <2>1. NextAdapter(cur)
    BY <1>3 DEF AfterJudging
  <2> QED BY <1>0, <1>1, <1>2, <2>1, NextAdapterKeeps DEF DataOK
<1>4. CASE e # NoEvent
  <2>1. Become("monitor", "log") /\ Lock("monitor", cur, {}, "log", "write") /\ UNCHANGED <<todo, cur>>
    BY <1>4 DEF AfterJudging
  <2>2. StepsOK' /\ pc'["monitor"] = "log"
    BY <1>0, <1>1, <1>4, <2>1, MonitorSteps DEF States
  <2>3. Others("monitor")
    BY <2>1, MonitorOthers
  <2>4. Wanted'["monitor"] = "log" /\ Holds'["monitor"] = {"manager", "health", cur}
    BY <1>0, <2>1, <2>2 DEF Wanted, Holds
  <2>5. LocksOK'
    BY <1>0, <1>2, <2>1, <2>3, <2>4, LockKept, LockNames DEF OwnLocks
  <2> QED BY <1>1, <2>1, <2>2, <2>5 DEF DataOK
<1> QED BY <1>3, <1>4

LEMMA HealthFacts ==
  ASSUME NEW a \in Adapters, NEW h \in Healths, NEW m \in Metrics[a]
  PROVE  Record_failure(h) \in Healths /\ Record_success(h, m) \in Healths
<1>1. Record_failure(h) \in Healths
  BY DEF Record_failure, Healths
<1>2. m.latency \in Int
  BY FailoverAssumption
<1>3. (9 * h.baseline + m.latency) \div 10 \in Int
  BY <1>2 DEF Healths
<1>4. Record_success(h, m) \in Healths
  BY <1>2, <1>3 DEF Record_success, Healths
<1> QED BY <1>1, <1>4

LEMMA JudgeKeeps ==
  ASSUME FailoverInv, JudgeAdapter
  PROVE  FailoverInv'
<1> USE DEF FailoverInv
<1>0. /\ pc["monitor"] = "adapter" /\ Granted("monitor", cur) /\ cur \in Adapters
      /\ UNCHANGED <<ready, primary, log, target, signalled>>
  BY DEF JudgeAdapter, StepsOK
<1>1. health[cur] \in Healths
  BY <1>0 DEF DataOK
<1>2. ASSUME NEW e \in Events, AfterJudging(e), DOMAIN found' \subseteq Adapters,
             health' \in [Adapters -> Healths]
      PROVE  FailoverInv'
  <2>1. /\ StepsOK' /\ LocksOK' /\ event' \in [Tasks -> Events]
        /\ todo' \subseteq Adapters /\ cur' \in Adapters \cup {NoAdapter}
    BY <1>0, <1>2, AfterJudgingKeeps
  <2> QED BY <1>0, <1>2, <2>1 DEF DataOK
<1>3. CASE JudgeUnavailable
  <2>1. Record_failure(health[cur]) \in Healths
    BY <1>1 DEF Record_failure, Healths
  <2>2. health' \in [Adapters -> Healths] /\ found' = found
    BY <1>3, <2>1 DEF JudgeUnavailable, DataOK
  <2>3. PICK e \in {Event("AdapterDown", cur), NoEvent} : AfterJudging(e)
    BY <1>3 DEF JudgeUnavailable
  <2>4. e \in Events
    BY <1>0, NoEventFacts
  <2> QED BY <1>2, <2>2, <2>3, <2>4 DEF DataOK
<1>4. CASE JudgeReady
  <2>1. PICK m \in Metrics[cur] :
          /\ found' = [a \in DOMAIN found \cup {cur} |-> IF a = cur THEN m.score ELSE found[a]]
          /\ IF Is_latency_degraded(health[cur])
               THEN /\ health' = [health EXCEPT ![cur] = Record_failure(@)]
                    /\ AfterJudging(Event("ThresholdViolation", cur))
               ELSE /\ health' = [health EXCEPT ![cur] = Record_success(@, m)]
                    /\ AfterJudging(NoEvent)
    BY <1>4 DEF JudgeReady
  <2>2. Record_failure(health[cur]) \in Healths /\ Record_success(health[cur], m) \in Healths
    BY <1>0, <1>1, HealthFacts
  <2>3. health' \in [Adapters -> Healths]
    BY <2>1, <2>2 DEF DataOK
  <2>4. DOMAIN found' \subseteq Adapters
    BY <1>0, <2>1 DEF DataOK
  <2>5. PICK e \in {Event("ThresholdViolation", cur), NoEvent} : AfterJudging(e)
    BY <2>1
  <2>6. e \in Events
    BY <1>0, NoEventFacts
  <2> QED BY <1>2, <2>3, <2>4, <2>5, <2>6
<1> QED BY <1>3, <1>4 DEF JudgeAdapter

\* The steps that are not between two adapters.
LEMMA MonitorKeeps ==
  ASSUME FailoverInv, Start \/ Tick \/ StopMonitor \/ LockHealth \/ BeginLoop \/ LogJudgement
  PROVE  FailoverInv'
<1> USE DEF FailoverInv
<1>0. /\ "monitor" \in Tasks /\ "monitor" \notin Operators /\ "monitor" \notin Forcers /\ "monitor" \notin Stoppers
      /\ OwnLocks \subseteq Locks
  BY TaskFacts, LockNames
<1>1. CASE Start \/ StopMonitor
  <2>1. /\ pc["monitor"] \in {"unstarted", "idle"}
        /\ UNCHANGED <<held, queue, ready, health, primary, log, todo, cur, found, event, target, signalled>>
    BY <1>1 DEF Start, StopMonitor, locks, scan
  <2>2. PICK p \in {"idle", "stopped"} : Become("monitor", p)
    BY <1>1 DEF Start, StopMonitor
  <2>3. LocksOK'
    BY <1>0, <2>1, <2>2, LocksUntouched
  <2>4. StepsOK'
    BY <2>1, <2>2, MonitorSteps DEF States
  <2> QED BY <2>1, <2>3, <2>4, DataKept DEF DataOK
<1>2. CASE Tick
  <2>1. /\ pc["monitor"] = "idle" /\ Become("monitor", "manager")
        /\ Lock("monitor", NoLock, {}, "manager", "read")
        /\ UNCHANGED <<ready, health, primary, log, todo, cur, found, event, target, signalled>>
    BY <1>2 DEF Tick, scan
  <2>2. StepsOK' /\ pc'["monitor"] = "manager"
    BY <2>1, MonitorSteps DEF States
  <2>3. Others("monitor")
    BY <2>1, MonitorOthers
  <2>4. Wanted["monitor"] = NoLock /\ Wanted'["monitor"] = "manager" /\ Holds["monitor"] = {}
    BY <1>0, <2>1, <2>2 DEF Wanted, Holds
  <2>5. LocksOK'
    BY <1>0, <2>1, <2>3, <2>4, LockKept, NamesApart DEF OwnLocks
  <2> QED BY <2>1, <2>2, <2>5, DataKept DEF DataOK
<1>3. CASE LockHealth
  <2>1. /\ pc["monitor"] = "manager" /\ Granted("monitor", "manager") /\ Become("monitor", "health")
        /\ Lock("monitor", "manager", {}, "health", "write")
        /\ todo' = Adapters /\ found' = <<>>
        /\ UNCHANGED <<ready, health, primary, log, cur, event, target, signalled>>
    BY <1>3 DEF LockHealth
  <2>2. StepsOK' /\ pc'["monitor"] = "health"
    BY <2>1, MonitorSteps DEF States
  <2>3. Others("monitor")
    BY <2>1, MonitorOthers
  <2>4. /\ Wanted["monitor"] = "manager" /\ Wanted'["monitor"] = "health"
        /\ Holds["monitor"] = {} /\ Holds'["monitor"] = {"manager"}
    BY <1>0, <2>1, <2>2 DEF Wanted, Holds
  <2>5. LocksOK'
    BY <1>0, <2>1, <2>3, <2>4, LockKept, NamesApart DEF OwnLocks
  <2>6. DataOK'
    BY <2>1 DEF DataOK
  <2> QED BY <2>2, <2>5, <2>6
<1>4. CASE BeginLoop
  <2>1. /\ pc["monitor"] = "health" /\ Granted("monitor", "health") /\ NextAdapter("health")
        /\ UNCHANGED <<ready, health, primary, log, found, event, target, signalled>>
    BY <1>4 DEF BeginLoop
  <2>2. Wanted["monitor"] = "health" /\ Holds["monitor"] = {"manager"}
    BY <1>0, <2>1 DEF Wanted, Holds
  <2>3. /\ StepsOK' /\ LocksOK' /\ todo' \subseteq Adapters /\ cur' \in Adapters \cup {NoAdapter}
    BY <1>0, <2>1, <2>2, NextAdapterKeeps DEF OwnLocks, DataOK
  <2> QED BY <2>1, <2>3 DEF DataOK
<1>5. CASE LogJudgement
  <2>1. /\ pc["monitor"] = "log" /\ Granted("monitor", "log") /\ NextAdapter("log")
        /\ LogEvent(event["monitor"]) /\ event' = [event EXCEPT !["monitor"] = NoEvent]
        /\ UNCHANGED <<ready, health, primary, found, target, signalled>>
    BY <1>5 DEF LogJudgement
  <2>2. Wanted["monitor"] = "log" /\ Holds["monitor"] = {"manager", "health", cur}
    BY <1>0, <2>1 DEF Wanted, Holds
  <2>3. event' \in [Tasks -> Events] /\ \A u \in Tasks \ {"monitor"} : event'[u] = event[u]
    BY <1>0, <2>1, NoEventFacts DEF DataOK
  <2>4. /\ StepsOK' /\ LocksOK' /\ todo' \subseteq Adapters /\ cur' \in Adapters \cup {NoAdapter}
    BY <1>0, <2>1, <2>2, <2>3, NextAdapterKeeps DEF OwnLocks, DataOK
  <2>5. event["monitor"] \in Events \ {NoEvent}
    BY <1>0, <2>1 DEF StepsOK, DataOK
  <2>6. log' \in Seq(Events \ {NoEvent}) /\ Len(log') <= LogCap
    BY <2>1, <2>5, LogGrows
  <2> QED BY <2>1, <2>3, <2>4, <2>6 DEF DataOK
<1> QED BY <1>1, <1>2, <1>3, <1>4, <1>5

LEMMA SwitchKeeps ==
  ASSUME FailoverInv, Decide \/ LogSwitch
  PROVE  FailoverInv'
<1> USE DEF FailoverInv
<1>0. /\ "monitor" \in Tasks /\ "monitor" \notin Operators /\ "monitor" \notin Forcers /\ "monitor" \notin Stoppers
      /\ OwnLocks \subseteq Locks
  BY TaskFacts, LockNames
<1>1. CASE Decide
  <2>1. /\ pc["monitor"] = "primary" /\ Granted("monitor", "primary")
        /\ UNCHANGED <<ready, health, log, todo, cur, found, target, signalled>>
    BY <1>1 DEF Decide, scan
  <2>2. Wanted["monitor"] = "primary" /\ Holds["monitor"] = {}
    BY <1>0, <2>1 DEF Wanted, Holds
  <2>3. ASSUME NEW a \in Adapters, primary' = a,
               event' = [event EXCEPT !["monitor"] = Switch(primary, a)],
               Become("monitor", "logswitch"), Lock("monitor", "primary", {"primary"}, "log", "write")
        PROVE  FailoverInv'
    <3>1. Switch(primary, a) \in Events \ {NoEvent}
      BY NoEventFacts DEF DataOK
    <3>2. /\ event' \in [Tasks -> Events] /\ event'["monitor"] # NoEvent
          /\ \A u \in Tasks \ {"monitor"} : event'[u] = event[u]
      BY <1>0, <2>3, <3>1 DEF DataOK
    <3>3. StepsOK' /\ pc'["monitor"] = "logswitch"
      BY <2>1, <2>3, <3>2, MonitorSteps DEF States
    <3>4. Others("monitor")
      BY <2>1, <2>3, MonitorOthers
    <3>5. Wanted'["monitor"] = "log"
      BY <1>0, <3>3 DEF Wanted
    <3>6. LocksOK'
      BY <1>0, <2>1, <2>2, <2>3, <3>4, <3>5, LockKept DEF OwnLocks
    <3>7. DataOK'
      BY <2>1, <2>3, <3>2 DEF DataOK
    <3> QED BY <3>3, <3>6, <3>7
  <2>4. CASE /\ Become("monitor", "idle") /\ Lock("monitor", "primary", {"primary"}, NoLock, "read")
             /\ UNCHANGED <<primary, event>>
    <3>1. StepsOK' /\ pc'["monitor"] = "idle"
      BY <2>1, <2>4, MonitorSteps DEF States
    <3>2. Others("monitor")
      BY <2>1, <2>4, MonitorOthers
    <3>3. Wanted'["monitor"] = NoLock
      BY <1>0, <3>1 DEF Wanted
    <3>4. LocksOK'
      BY <1>0, <2>1, <2>2, <2>4, <3>2, <3>3, LockKept DEF OwnLocks, NoLock
    <3> QED BY <2>1, <2>4, <3>1, <3>4, DataKept DEF DataOK
  <2> QED BY <1>1, <2>3, <2>4 DEF Decide
<1>2. CASE LogSwitch
  <2>1. /\ pc["monitor"] = "logswitch" /\ Granted("monitor", "log") /\ Become("monitor", "idle")
        /\ LogEvent(event["monitor"]) /\ event' = [event EXCEPT !["monitor"] = NoEvent]
        /\ Lock("monitor", "log", {"log"}, NoLock, "read")
        /\ UNCHANGED <<ready, health, primary, todo, cur, found, target, signalled>>
    BY <1>2 DEF LogSwitch, scan
  <2>2. Wanted["monitor"] = "log" /\ Holds["monitor"] = {}
    BY <1>0, <2>1 DEF Wanted, Holds
  <2>3. event' \in [Tasks -> Events] /\ \A u \in Tasks \ {"monitor"} : event'[u] = event[u]
    BY <1>0, <2>1, NoEventFacts DEF DataOK
  <2>4. StepsOK' /\ pc'["monitor"] = "idle"
    BY <2>1, <2>3, MonitorSteps DEF States
  <2>5. Others("monitor")
    BY <2>1, MonitorOthers
  <2>6. Wanted'["monitor"] = NoLock
    BY <1>0, <2>4 DEF Wanted
  <2>7. LocksOK'
    BY <1>0, <2>1, <2>2, <2>5, <2>6, LockKept DEF OwnLocks, NoLock
  <2>8. event["monitor"] \in Events \ {NoEvent}
    BY <1>0, <2>1 DEF StepsOK, DataOK
  <2>9. log' \in Seq(Events \ {NoEvent}) /\ Len(log') <= LogCap
    BY <2>1, <2>8, LogGrows
  <2> QED BY <2>1, <2>3, <2>4, <2>7, <2>9 DEF DataOK
<1> QED BY <1>1, <1>2

-----------------------------------------------------------------------------
LEMMA FailoverInvInit == Init => FailoverInv
<1> SUFFICES ASSUME Init PROVE FailoverInv
  OBVIOUS
<1>1. \A t \in Tasks : pc[t] \in {"unstarted", "ready"} /\ (pc[t] = "unstarted" <=> t = "monitor")
  BY DEF Init
<1>2. StepsOK
  BY <1>1, TaskFacts DEF Init, StepsOK, States
<1>3. \A t \in Tasks : Wanted[t] = NoLock /\ Holds[t] = {}
  BY <1>1 DEF Wanted, Holds
<1>4. \A l \in Locks : held[l] = {} /\ queue[l] = <<>>
  BY DEF Init
<1>5. "manager" \in Locks
  BY DEF Locks, OwnLocks
<1>6. LocksOK
  BY <1>3, <1>4, <1>5 DEF Init, LocksOK, QueueInv, HeldInv
<1>7. health \in [Adapters -> Healths]
  BY DEF Init, NewHealth, Healths, NoLatency
<1>8. log \in Seq(Events \ {NoEvent}) /\ Len(log) <= LogCap /\ DOMAIN found = {}
  BY FailoverAssumption DEF Init
<1>9. DataOK
  BY <1>7, <1>8, NoEventFacts DEF Init, DataOK
<1> QED BY <1>2, <1>6, <1>9 DEF FailoverInv

LEMMA FailoverInvNext ==
  ASSUME FailoverInv, [Next]_vars
  PROVE  FailoverInv'
<1>1. CASE Start \/ Tick \/ CheckStep \/ StopMonitor
  BY <1>1, MonitorKeeps, SwitchKeeps, JudgeKeeps DEF CheckStep
<1>2. CASE \E f \in Forcers :
             ForceStep(f) \/ ForceHangUp(f) \/ \E a \in Adapters \cup {Unknown} : ForceCall(f, a)
  BY <1>2, ForceStepKeeps, HangUpKeeps
<1>3. CASE \E o \in Operators :
             OperateStep(o) \/ OperateHangUp(o) \/ \E a \in Adapters \cup {Unknown} : OperateCall(o, a)
  BY <1>3, OperateStepKeeps, HangUpKeeps
<1>4. CASE \E n \in Stoppers : NodeShutdown(n) \/ Stop_all(n)
  BY <1>4, StopperKeeps
<1>5. CASE \E c \in Closers : Shutdown(c) \/ ShutdownReturns(c)
  BY <1>5, CloserKeeps
<1>6. CASE (\E a \in Adapters : AdapterChange(a)) \/ UNCHANGED vars
  <2>1. /\ UNCHANGED <<pc, held, queue, health, primary, log, todo, cur, found, event, target, signalled>>
        /\ ready' \in [Adapters -> BOOLEAN]
    BY <1>6 DEF AdapterChange, vars, locks, scan, FailoverInv, DataOK
  <2>2. Wanted' = Wanted /\ Holds' = Holds
    BY <2>1 DEF Wanted, Holds
  <2>3. StepsOK' /\ DataOK'
    BY <2>1, DataKept DEF FailoverInv, StepsOK, DataOK
  <2>4. LocksOK'
    BY <2>1, <2>2 DEF FailoverInv, LocksOK, QueueInv, HeldInv
  <2> QED BY <2>3, <2>4 DEF FailoverInv
<1> QED BY <1>1, <1>2, <1>3, <1>4, <1>5, <1>6 DEF Next

(* Tasks are where their kind can be, queues and guards are those of their *)
(* steps, and health, primary and log are what they should be.             *)
LEMMA FailoverInvariant == Spec => []FailoverInv
BY FailoverInvInit, FailoverInvNext, PTL DEF Spec

-----------------------------------------------------------------------------
(* Every task of the failover manager waits for the lock of its step, once *)
(* and for no other, and has no guards but those of its step, for any      *)
(* number of callers (failover.rs, api.rs).                                *)
THEOREM LocksAlwaysFit == Spec => []LockInv
<1>1. FailoverInv => LockInv
  <2> SUFFICES ASSUME FailoverInv PROVE LockInv
    OBVIOUS
  <2>1. \A l \in Locks : \A j \in DOMAIN queue[l] : queue[l][j] \in Guards
    BY DEF FailoverInv, LocksOK
  <2>2. \A a \in Adapters : health[a].failures \in 0 .. 3
    BY DEF FailoverInv, DataOK, Healths
  <2>3. \A j \in DOMAIN log : log[j] \in Events \ {NoEvent}
    BY DEF FailoverInv, DataOK
  <2>4. TypeOK
    BY <2>1, <2>2, <2>3 DEF FailoverInv, StepsOK, LocksOK, DataOK, TypeOK
  <2> QED BY <2>4 DEF FailoverInv, LocksOK, LockInv
<1> QED BY <1>1, FailoverInvariant, PTL

(* However many checks, forced failovers, starts, stops and shutdowns      *)
(* meet, as long as somebody waits somebody can go on: the order in which  *)
(* they take the locks has no cycle (check_and_failover, force_failover).  *)
THEOREM NeverDeadlocked == Spec => []NoDeadlock
<1>1. FailoverInv => NoDeadlock
  BY NoDeadlockFromLocks DEF FailoverInv
<1> QED BY <1>1, FailoverInvariant, PTL

-----------------------------------------------------------------------------
(* The log accounts for the primary                                        *)

Leads(e, a) == e.kind = "AdapterSwitch" /\ e.to = a
Leaves(e, a) == e.kind = "AdapterSwitch" /\ e.from = a

LoggedTo(a) == {i \in DOMAIN log : Leads(log[i], a)}
LoggedFrom(a) == {i \in DOMAIN log : Leaves(log[i], a)}
WaitingTo(a) == {t \in Tasks : Leads(event[t], a)}
WaitingFrom(a) == {t \in Tasks : Leaves(event[t], a)}

Counted(condition) == IF condition THEN 1 ELSE 0

Balanced(a) ==
  Cardinality(LoggedTo(a)) + Cardinality(WaitingTo(a)) =
    Cardinality(LoggedFrom(a)) + Cardinality(WaitingFrom(a)) + Counted(primary = a)

\* Only tasks that wait for the log, or hung up there, have an event.
EventsOK ==
  \A t \in Tasks : event[t] # NoEvent =>
    \/ t = "monitor" /\ pc[t] \in {"log", "logswitch"}
    \/ t \in Forcers /\ pc[t] \in {"log", "gone"}

BalanceInv ==
  /\ EventsOK
  /\ Len(log) < LogCap => \A a \in Adapters : Balanced(a)

\* Sets of tasks that differ in one task at most.
LEMMA CountOne ==
  ASSUME NEW T, IsFiniteSet(T), NEW t \in T, NEW A \in SUBSET T, NEW B \in SUBSET T,
         \A u \in T \ {t} : u \in A <=> u \in B
  PROVE  /\ Cardinality(A) \in Nat /\ Cardinality(B) \in Nat
         /\ Cardinality(B) + Counted(t \in A) = Cardinality(A) + Counted(t \in B)
<1>1. IsFiniteSet(A) /\ IsFiniteSet(B)
  BY FS_Subset
<1>2. Cardinality(A) \in Nat /\ Cardinality(B) \in Nat
  BY <1>1, FS_CardinalityType
<1>3. CASE t \in A <=> t \in B
  <2>1. A = B
    BY <1>3
  <2> QED BY <1>2, <1>3, <2>1 DEF Counted
<1>4. CASE t \in A /\ t \notin B
  <2>1. A = B \cup {t}
    BY <1>4
  <2>2. Cardinality(A) = Cardinality(B) + 1
    BY <1>1, <1>4, <2>1, FS_AddElement
  <2> QED BY <1>2, <1>4, <2>2 DEF Counted
<1>5. CASE t \notin A /\ t \in B
  <2>1. B = A \cup {t}
    BY <1>5
  <2>2. Cardinality(B) = Cardinality(A) + 1
    BY <1>1, <1>5, <2>1, FS_AddElement
  <2> QED BY <1>2, <1>5, <2>2 DEF Counted
<1> QED BY <1>3, <1>4, <1>5

\* A set of tasks has those that are in B and those that are not.
LEMMA CountParts ==
  ASSUME NEW T, IsFiniteSet(T), NEW A \in SUBSET T, NEW B
  PROVE  Cardinality(A) = Cardinality(A \ B) + Cardinality(A \cap B)
<1>1. IsFiniteSet(A \ B) /\ IsFiniteSet(A \cap B)
  BY FS_Subset
<1>2. (A \ B) \cup (A \cap B) = A /\ (A \ B) \cap (A \cap B) = {}
  OBVIOUS
<1>3. Cardinality(A) = Cardinality(A \ B) + Cardinality(A \cap B) - Cardinality({})
  BY <1>1, <1>2, FS_Union
<1>4. Cardinality(A \ B) \in Nat /\ Cardinality(A \cap B) \in Nat
  BY <1>1, FS_CardinalityType
<1> QED BY <1>3, <1>4, FS_EmptySet

\* What a longer log counts.
LEMMA CountLogged ==
  ASSUME NEW q \in Seq(Events), NEW e \in Events, NEW r, r = Append(q, e), NEW P, NEW R,
         P \in SUBSET DOMAIN q, R \in SUBSET DOMAIN r, \A i \in DOMAIN q : i \in R <=> i \in P
  PROVE  /\ Cardinality(P) \in Nat /\ Len(q) + 1 \in DOMAIN r
         /\ Cardinality(R) = Cardinality(P) + Counted(Len(q) + 1 \in R)
<1>1. Len(q) \in Nat /\ DOMAIN q = 1 .. Len(q) /\ DOMAIN r = 1 .. (Len(q) + 1)
  OBVIOUS
<1> DEFINE n == Len(q) + 1
<1>2. IsFiniteSet(1 .. n) /\ n \in 1 .. n
  BY <1>1, FS_Interval
<1>3. P \in SUBSET (1 .. n) /\ R \in SUBSET (1 .. n) /\ n \notin P
  BY <1>1
<1>4. \A i \in (1 .. n) \ {n} : i \in P <=> i \in R
  BY <1>1
<1>5. /\ Cardinality(P) \in Nat /\ Cardinality(R) \in Nat
      /\ Cardinality(R) + Counted(n \in P) = Cardinality(P) + Counted(n \in R)
  <2>1. PICK T : T = 1 .. n
    OBVIOUS
  <2>2. PICK m : m = n
    OBVIOUS
  <2> HIDE DEF n
  <2>3. IsFiniteSet(T) /\ m \in T /\ P \in SUBSET T /\ R \in SUBSET T /\ \A u \in T \ {m} : u \in P <=> u \in R
    BY <1>2, <1>3, <1>4, <2>1, <2>2
  <2>4. /\ Cardinality(P) \in Nat /\ Cardinality(R) \in Nat
        /\ Cardinality(R) + Counted(m \in P) = Cardinality(P) + Counted(m \in R)
    BY <2>3, CountOne
  <2> QED BY <2>2, <2>4
<1> QED BY <1>1, <1>2, <1>3, <1>5 DEF Counted

\* An event that is logged is counted in the log instead of on its way.
LEMMA EventLogged ==
  ASSUME FailoverInv, IsFiniteSet(Tasks), NEW t \in Tasks, event[t] # NoEvent, LogEvent(event[t]),
         event' = [event EXCEPT ![t] = NoEvent], UNCHANGED primary, Len(log') < LogCap,
         NEW a \in Adapters, Balanced(a)
  PROVE  Balanced(a)'
<1> DEFINE e == event[t]
<1>1. /\ e \in Events /\ event \in [Tasks -> Events] /\ log \in Seq(Events)
      /\ Len(log) <= LogCap /\ LogCap \in Nat
  BY FailoverAssumption DEF FailoverInv, DataOK
<1>2. log' = Append(log, e)
  <2>1. CASE Len(log) < LogCap
    BY <2>1 DEF LogEvent
  <2>2. CASE ~(Len(log) < LogCap)
    <3>1. log' = Append(Tail(log), e) /\ log # <<>>
      BY <1>1, <2>2, FailoverAssumption DEF LogEvent
    <3>2. Len(log') = Len(log)
      BY <1>1, <3>1
    <3> QED BY <1>1, <2>2, <3>2
  <2> QED BY <2>1, <2>2
<1> DEFINE n == Len(log) + 1
<1>3. /\ log'[n] = e /\ \A i \in DOMAIN log : i \in DOMAIN log' /\ log'[i] = log[i]
      /\ event'[t] = NoEvent /\ \A u \in Tasks \ {t} : event'[u] = event[u]
  BY <1>1, <1>2
<1>4. /\ Cardinality(LoggedTo(a)) \in Nat
      /\ Cardinality(LoggedTo(a)') = Cardinality(LoggedTo(a)) + Counted(Leads(e, a))
  <2>1. /\ LoggedTo(a) \in SUBSET DOMAIN log /\ LoggedTo(a)' \in SUBSET DOMAIN log'
        /\ \A i \in DOMAIN log : i \in LoggedTo(a)' <=> i \in LoggedTo(a)
    BY <1>3 DEF LoggedTo
  <2>2. /\ Cardinality(LoggedTo(a)) \in Nat /\ n \in DOMAIN log'
        /\ Cardinality(LoggedTo(a)') = Cardinality(LoggedTo(a)) + Counted(n \in LoggedTo(a)')
    <3> HIDE DEF LoggedTo, e
    <3> QED BY <1>1, <1>2, <2>1, CountLogged
  <2>3. n \in LoggedTo(a)' <=> Leads(e, a)
    BY <1>3, <2>2 DEF LoggedTo
  <2> QED BY <2>2, <2>3 DEF Counted
<1>5. /\ Cardinality(LoggedFrom(a)) \in Nat
      /\ Cardinality(LoggedFrom(a)') = Cardinality(LoggedFrom(a)) + Counted(Leaves(e, a))
  <2>1. /\ LoggedFrom(a) \in SUBSET DOMAIN log /\ LoggedFrom(a)' \in SUBSET DOMAIN log'
        /\ \A i \in DOMAIN log : i \in LoggedFrom(a)' <=> i \in LoggedFrom(a)
    BY <1>3 DEF LoggedFrom
  <2>2. /\ Cardinality(LoggedFrom(a)) \in Nat /\ n \in DOMAIN log'
        /\ Cardinality(LoggedFrom(a)') = Cardinality(LoggedFrom(a)) + Counted(n \in LoggedFrom(a)')
    <3> HIDE DEF LoggedFrom, e
    <3> QED BY <1>1, <1>2, <2>1, CountLogged
  <2>3. n \in LoggedFrom(a)' <=> Leaves(e, a)
    BY <1>3, <2>2 DEF LoggedFrom
  <2> QED BY <2>2, <2>3 DEF Counted
<1>6. ~Leads(NoEvent, a) /\ ~Leaves(NoEvent, a)
  BY DEF NoEvent, Leads, Leaves
<1>7. /\ Cardinality(WaitingTo(a)) \in Nat /\ Cardinality(WaitingTo(a)') \in Nat
      /\ Cardinality(WaitingTo(a)') + Counted(Leads(e, a)) = Cardinality(WaitingTo(a))
  <2>1. /\ WaitingTo(a) \in SUBSET Tasks /\ WaitingTo(a)' \in SUBSET Tasks
        /\ \A u \in Tasks \ {t} : u \in WaitingTo(a) <=> u \in WaitingTo(a)'
        /\ t \in WaitingTo(a) <=> Leads(e, a)
        /\ t \notin WaitingTo(a)'
    BY <1>3, <1>6 DEF WaitingTo
  <2>2. /\ Cardinality(WaitingTo(a)) \in Nat /\ Cardinality(WaitingTo(a)') \in Nat
        /\ Cardinality(WaitingTo(a)') + Counted(t \in WaitingTo(a)) = Cardinality(WaitingTo(a)) + Counted(t \in WaitingTo(a)')
    <3> HIDE DEF WaitingTo
    <3> QED BY <2>1, CountOne
  <2> QED BY <2>1, <2>2 DEF Counted
<1>8. /\ Cardinality(WaitingFrom(a)) \in Nat /\ Cardinality(WaitingFrom(a)') \in Nat
      /\ Cardinality(WaitingFrom(a)') + Counted(Leaves(e, a)) = Cardinality(WaitingFrom(a))
  <2>1. /\ WaitingFrom(a) \in SUBSET Tasks /\ WaitingFrom(a)' \in SUBSET Tasks
        /\ \A u \in Tasks \ {t} : u \in WaitingFrom(a) <=> u \in WaitingFrom(a)'
        /\ t \in WaitingFrom(a) <=> Leaves(e, a)
        /\ t \notin WaitingFrom(a)'
    BY <1>3, <1>6 DEF WaitingFrom
  <2>2. /\ Cardinality(WaitingFrom(a)) \in Nat /\ Cardinality(WaitingFrom(a)') \in Nat
        /\ Cardinality(WaitingFrom(a)') + Counted(t \in WaitingFrom(a)) = Cardinality(WaitingFrom(a)) + Counted(t \in WaitingFrom(a)')
    <3> HIDE DEF WaitingFrom
    <3> QED BY <2>1, CountOne
  <2> QED BY <2>1, <2>2 DEF Counted
<1> HIDE DEF e
<1> QED BY <1>4, <1>5, <1>7, <1>8 DEF Balanced, Counted

\* An event that comes up is a switch of the primary or none of a switch.
LEMMA EventRaised ==
  ASSUME FailoverInv, IsFiniteSet(Tasks), NEW t \in Tasks, event[t] = NoEvent,
         NEW e \in Events, event' = [event EXCEPT ![t] = e], UNCHANGED log,
         \/ UNCHANGED primary /\ e.kind # "AdapterSwitch"
         \/ \E b \in Adapters : e = Switch(primary, b) /\ primary' = b,
         NEW a \in Adapters, Balanced(a)
  PROVE  Balanced(a)'
<1>1. event \in [Tasks -> Events]
  BY DEF FailoverInv, DataOK
<1>2. event'[t] = e /\ \A u \in Tasks \ {t} : event'[u] = event[u]
  BY <1>1
<1>3. LoggedTo(a)' = LoggedTo(a) /\ LoggedFrom(a)' = LoggedFrom(a)
  BY DEF LoggedTo, LoggedFrom
<1>4. Cardinality(LoggedTo(a)) \in Nat /\ Cardinality(LoggedFrom(a)) \in Nat
  <2>1. IsFiniteSet(DOMAIN log)
    <3>1. Len(log) \in Nat /\ DOMAIN log = 1 .. Len(log)
      BY DEF FailoverInv, DataOK
    <3> QED BY <3>1, FS_Interval
  <2>2. LoggedTo(a) \in SUBSET DOMAIN log /\ LoggedFrom(a) \in SUBSET DOMAIN log
    BY DEF LoggedTo, LoggedFrom
  <2>3. IsFiniteSet(LoggedTo(a)) /\ IsFiniteSet(LoggedFrom(a))
    <3> HIDE DEF LoggedTo, LoggedFrom
    <3> QED BY <2>1, <2>2, FS_Subset
  <2> QED BY <2>3, FS_CardinalityType
<1>5. ~Leads(NoEvent, a) /\ ~Leaves(NoEvent, a)
  BY DEF NoEvent, Leads, Leaves
<1>6. /\ Cardinality(WaitingTo(a)) \in Nat /\ Cardinality(WaitingTo(a)') \in Nat
      /\ Cardinality(WaitingTo(a)') = Cardinality(WaitingTo(a)) + Counted(Leads(e, a))
  <2>1. /\ WaitingTo(a) \in SUBSET Tasks /\ WaitingTo(a)' \in SUBSET Tasks
        /\ \A u \in Tasks \ {t} : u \in WaitingTo(a) <=> u \in WaitingTo(a)'
        /\ t \in WaitingTo(a)' <=> Leads(e, a)
        /\ t \notin WaitingTo(a)
    BY <1>2, <1>5 DEF WaitingTo
  <2>2. /\ Cardinality(WaitingTo(a)) \in Nat /\ Cardinality(WaitingTo(a)') \in Nat
        /\ Cardinality(WaitingTo(a)') + Counted(t \in WaitingTo(a)) = Cardinality(WaitingTo(a)) + Counted(t \in WaitingTo(a)')
    <3> HIDE DEF WaitingTo
    <3> QED BY <2>1, CountOne
  <2> QED BY <2>1, <2>2 DEF Counted
<1>7. /\ Cardinality(WaitingFrom(a)) \in Nat /\ Cardinality(WaitingFrom(a)') \in Nat
      /\ Cardinality(WaitingFrom(a)') = Cardinality(WaitingFrom(a)) + Counted(Leaves(e, a))
  <2>1. /\ WaitingFrom(a) \in SUBSET Tasks /\ WaitingFrom(a)' \in SUBSET Tasks
        /\ \A u \in Tasks \ {t} : u \in WaitingFrom(a) <=> u \in WaitingFrom(a)'
        /\ t \in WaitingFrom(a)' <=> Leaves(e, a)
        /\ t \notin WaitingFrom(a)
    BY <1>2, <1>5 DEF WaitingFrom
  <2>2. /\ Cardinality(WaitingFrom(a)) \in Nat /\ Cardinality(WaitingFrom(a)') \in Nat
        /\ Cardinality(WaitingFrom(a)') + Counted(t \in WaitingFrom(a)) = Cardinality(WaitingFrom(a)) + Counted(t \in WaitingFrom(a)')
    <3> HIDE DEF WaitingFrom
    <3> QED BY <2>1, CountOne
  <2> QED BY <2>1, <2>2 DEF Counted
<1>8. Counted(Leads(e, a)) + Counted(primary = a) = Counted(Leaves(e, a)) + Counted(primary' = a)
  <2>1. CASE UNCHANGED primary /\ e.kind # "AdapterSwitch"
    BY <2>1 DEF Leads, Leaves, Counted
  <2>2. CASE \E b \in Adapters : e = Switch(primary, b) /\ primary' = b
    BY <2>2 DEF Leads, Leaves, Counted, Switch
  <2> QED BY <2>1, <2>2
<1>9. Counted(Leads(e, a)) \in Nat /\ Counted(Leaves(e, a)) \in Nat /\ Counted(primary = a) \in Nat /\ Counted(primary' = a) \in Nat
  BY DEF Counted
<1>10. Counted(primary = a)' = Counted(primary' = a)
  BY DEF Counted
<1> QED BY <1>3, <1>4, <1>6, <1>7, <1>8, <1>9, <1>10 DEF Balanced

LEMMA EventsKept ==
  ASSUME FailoverInv, EventsOK, NEW t \in Tasks, NEW p, Become(t, p),
         \A u \in Tasks \ {t} : event'[u] = event[u],
         \/ event'[t] = NoEvent
         \/ t = "monitor" /\ p \in {"log", "logswitch"}
         \/ t \in Forcers /\ p \in {"log", "gone"}
  PROVE  EventsOK'
<1>1. pc'[t] = p /\ \A u \in Tasks \ {t} : pc'[u] = pc[u]
  BY DEF FailoverInv, StepsOK, Become
<1> QED BY <1>1 DEF EventsOK

LEMMA BalanceStep ==
  ASSUME IsFiniteSet(Tasks), FailoverInv, FailoverInv', BalanceInv, [Next]_vars
  PROVE  BalanceInv'
<1> USE DEF BalanceInv
<1>0. "monitor" \in Tasks /\ Forcers \subseteq Tasks /\ event \in [Tasks -> Events]
  BY TaskFacts DEF FailoverInv, DataOK
<1>1. ASSUME UNCHANGED <<log, primary, event>>, NEW a \in Adapters, Balanced(a) PROVE Balanced(a)'
  BY <1>1 DEF Balanced, LoggedTo, LoggedFrom, WaitingTo, WaitingFrom
<1>2. CASE /\ UNCHANGED <<log, primary, event>>
           /\ \E t \in Tasks : (\E p : Become(t, p)) /\ event[t] = NoEvent
  <2>0. PICK t \in Tasks : (\E p : Become(t, p)) /\ event[t] = NoEvent
    BY <1>2
  <2>1. PICK p : Become(t, p)
    BY <2>0
  <2>2. event'[t] = NoEvent
    BY <1>2, <2>0
  <2>3. EventsOK'
    BY <1>2, <2>1, <2>2, EventsKept
  <2> QED BY <1>1, <1>2, <2>3
\* A task logs its event.
<1>3. ASSUME NEW t \in Tasks, pc[t] \in {"log", "logswitch"}, t = "monitor" \/ t \in Forcers, NEW p, Become(t, p),
             LogEvent(event[t]), event' = [event EXCEPT ![t] = NoEvent], UNCHANGED primary
      PROVE  BalanceInv'
  <2>1. event[t] # NoEvent
    BY <1>3, TaskFacts DEF FailoverInv, StepsOK
  <2>2. event'[t] = NoEvent /\ \A u \in Tasks \ {t} : event'[u] = event[u]
    BY <1>0, <1>3
  <2>3. EventsOK'
    BY <1>3, <2>2, EventsKept
  <2>4. ASSUME Len(log') < LogCap, NEW a \in Adapters PROVE Balanced(a)'
    <3>1. Len(log) < LogCap
      <4>1. log \in Seq(Events) /\ Len(log) <= LogCap /\ LogCap \in Nat \ {0}
        BY FailoverAssumption DEF FailoverInv, DataOK
      <4>2. CASE ~(Len(log) < LogCap)
        <5>1. log' = Append(Tail(log), event[t]) /\ log # <<>>
          BY <1>3, <4>1, <4>2 DEF LogEvent
        <5>2. Len(log') = Len(log)
          BY <4>1, <5>1
        <5> QED BY <2>4, <4>1, <4>2, <5>2
      <4> QED BY <4>2
    <3>2. Balanced(a)
      BY <3>1
    <3> QED BY <1>3, <2>1, <2>4, <3>2, EventLogged
  <2> QED BY <2>3, <2>4
\* A task without an event gets one, or none.
<1>4. ASSUME NEW t \in Tasks, pc[t] \notin {"log", "logswitch", "gone"}, NEW p, Become(t, p), NEW e \in Events,
             event' = [event EXCEPT ![t] = e], UNCHANGED log,
             \/ UNCHANGED primary /\ e.kind # "AdapterSwitch"
             \/ \E b \in Adapters : e = Switch(primary, b) /\ primary' = b,
             \/ e = NoEvent
             \/ t = "monitor" /\ p \in {"log", "logswitch"}
             \/ t \in Forcers /\ p = "log"
      PROVE  BalanceInv'
  <2>1. event[t] = NoEvent
    BY <1>4 DEF EventsOK
  <2>2. event'[t] = e /\ \A u \in Tasks \ {t} : event'[u] = event[u]
    BY <1>0, <1>4
  <2>3. EventsOK'
    BY <1>4, <2>2, EventsKept
  <2>4. ASSUME Len(log') < LogCap, NEW a \in Adapters PROVE Balanced(a)'
    <3>1. Balanced(a)
      BY <1>4, <2>4
    <3> QED BY <1>4, <2>1, <3>1, EventRaised
  <2> QED BY <2>3, <2>4
<1>5. CASE Start \/ Tick \/ StopMonitor \/ LockHealth \/ BeginLoop
  <2>1. UNCHANGED <<log, primary, event>> /\ event["monitor"] = NoEvent
    BY <1>0, <1>5, TaskFacts DEF Start, Tick, StopMonitor, LockHealth, BeginLoop, EventsOK
  <2>2. \E p : Become("monitor", p)
    BY <1>5 DEF Start, Tick, StopMonitor, LockHealth, BeginLoop, NextAdapter
  <2> QED BY <1>0, <1>2, <2>1, <2>2
<1>6. CASE JudgeAdapter
  <2>1. pc["monitor"] = "adapter" /\ UNCHANGED <<primary, log>> /\ cur \in Adapters
    BY <1>6 DEF JudgeAdapter, FailoverInv, StepsOK
  <2>2. PICK e \in {NoEvent, Event("AdapterDown", cur), Event("ThresholdViolation", cur)} : AfterJudging(e)
    BY <1>6 DEF JudgeAdapter, JudgeUnavailable, JudgeReady
  <2>3. e \in Events /\ e.kind # "AdapterSwitch"
    <3>1. e \in Events
      BY <2>1, NoEventFacts
    <3>2. e.kind \in {"none", "AdapterDown", "ThresholdViolation"}
      BY DEF NoEvent, Event
    <3> QED BY <3>1, <3>2
  <2>4. event' = [event EXCEPT !["monitor"] = e]
    BY <2>2 DEF AfterJudging
  <2>5. \E p : Become("monitor", p) /\ (e = NoEvent \/ p = "log")
    BY <2>2 DEF AfterJudging, NextAdapter
  <2> QED BY <1>0, <1>4, <2>1, <2>3, <2>4, <2>5
<1>7. CASE LogJudgement \/ LogSwitch
  <2>1. /\ pc["monitor"] \in {"log", "logswitch"} /\ LogEvent(event["monitor"])
        /\ event' = [event EXCEPT !["monitor"] = NoEvent] /\ UNCHANGED primary
    BY <1>7 DEF LogJudgement, LogSwitch
  <2>2. \E p : Become("monitor", p)
    BY <1>7 DEF LogJudgement, LogSwitch, NextAdapter
  <2> QED BY <1>0, <1>3, <2>1, <2>2
<1>8. CASE Decide
  <2>1. pc["monitor"] = "primary" /\ UNCHANGED log
    BY <1>8 DEF Decide
  <2>2. ASSUME NEW a \in Adapters, primary' = a, Become("monitor", "logswitch"),
               event' = [event EXCEPT !["monitor"] = Switch(primary, a)]
        PROVE  BalanceInv'
    <3>1. Switch(primary, a) \in Events
      BY NoEventFacts DEF FailoverInv, DataOK
    <3> QED BY <1>0, <1>4, <2>1, <2>2, <3>1
  <2>3. CASE Become("monitor", "idle") /\ UNCHANGED <<primary, event>>
    BY <1>0, <1>2, <2>1, <2>3, TaskFacts DEF EventsOK
  <2> QED BY <1>8, <2>2, <2>3 DEF Decide
<1>9. ASSUME NEW f \in Forcers,
             ForceStep(f) \/ ForceHangUp(f) \/ \E a \in Adapters \cup {Unknown} : ForceCall(f, a)
      PROVE  BalanceInv'
  <2>1. CASE ForceSet(f)
    <3>1. /\ pc[f] = "primary" /\ Become(f, "log") /\ UNCHANGED log /\ primary' = target[f]
          /\ event' = [event EXCEPT ![f] = Switch(primary, target[f])]
      BY <2>1 DEF ForceSet
    <3>2. target[f] \in Adapters
      BY <3>1 DEF FailoverInv, StepsOK
    <3>3. Switch(primary, target[f]) \in Events
      BY <3>2, NoEventFacts DEF FailoverInv, DataOK
    <3> QED BY <1>0, <1>4, <3>1, <3>2, <3>3
  <2>2. CASE ForceLog(f)
    BY <1>0, <1>3, <2>2 DEF ForceLog
  <2>3. CASE ForceFind(f) \/ \E a \in Adapters \cup {Unknown} : ForceCall(f, a)
    <3>1. UNCHANGED <<log, primary, event>> /\ event[f] = NoEvent
      BY <1>0, <2>3, TaskFacts DEF ForceFind, ForceCall, EventsOK
    <3>2. \E p : Become(f, p)
      BY <2>3 DEF ForceFind, ForceCall
    <3> QED BY <1>0, <1>2, <3>1, <3>2
  <2>4. CASE ForceHangUp(f)
    <3>1. UNCHANGED <<log, primary, event>> /\ Become(f, "gone")
      BY <2>4 DEF ForceHangUp
    <3>2. EventsOK'
      BY <1>0, <3>1, EventsKept
    <3> QED BY <1>1, <3>1, <3>2
  <2> QED BY <1>9, <2>1, <2>2, <2>3, <2>4 DEF ForceStep
<1>10. ASSUME NEW t \in Operators \cup Stoppers \cup Closers,
              \/ OperateStep(t) \/ OperateHangUp(t) \/ \E a \in Adapters \cup {Unknown} : OperateCall(t, a)
              \/ NodeShutdown(t) \/ Stop_all(t) \/ Shutdown(t) \/ ShutdownReturns(t)
       PROVE  BalanceInv'
  <2>1. UNCHANGED <<log, primary, event>>
    BY <1>10 DEF OperateStep, OperateHangUp, OperateCall, OperateFind, OperateAdapter, OperateReturn, NodeShutdown,
       Stop_all, Shutdown, ShutdownReturns
  <2>2. event[t] = NoEvent /\ t \in Tasks
    BY TaskFacts DEF EventsOK
  <2>3. \E p : Become(t, p)
    BY <1>10 DEF OperateStep, OperateHangUp, OperateCall, OperateFind, OperateAdapter, OperateReturn, NodeShutdown,
       Stop_all, Shutdown, ShutdownReturns
  <2> QED BY <1>2, <2>1, <2>2, <2>3
<1>11. CASE (\E a \in Adapters : AdapterChange(a)) \/ UNCHANGED vars
  <2>1. UNCHANGED <<pc, log, primary, event>>
    BY <1>11 DEF AdapterChange, vars
  <2> QED BY <1>1, <2>1 DEF EventsOK
<1> QED BY <1>5, <1>6, <1>7, <1>8, <1>9, <1>10, <1>11 DEF Next, CheckStep

LEMMA BalanceInvariant == ASSUME IsFiniteSet(Tasks) PROVE Spec => []BalanceInv
<1>1. Init => BalanceInv
  <2> SUFFICES ASSUME Init PROVE EventsOK /\ \A a \in Adapters : Balanced(a)
    BY DEF BalanceInv
  <2>1. EventsOK
    BY DEF Init, EventsOK
  <2> SUFFICES ASSUME NEW a \in Adapters PROVE Balanced(a)
    BY <2>1
  <2>2. /\ LoggedTo(a) = {} /\ LoggedFrom(a) = {} /\ WaitingTo(a) = {} /\ WaitingFrom(a) = {}
        /\ primary # a
    BY FailoverAssumption DEF Init, LoggedTo, LoggedFrom, WaitingTo, WaitingFrom, Leads, Leaves, NoEvent
  <2> QED BY <2>2, FS_EmptySet DEF Balanced, Counted
<1>2. FailoverInv /\ FailoverInv' /\ BalanceInv /\ [Next]_vars => BalanceInv'
  BY BalanceStep
<1> QED BY <1>1, <1>2, FailoverInvariant, PTL DEF Spec

(* As many switches of the log, of the events on their way to it and of    *)
(* the callers that hung up before they logged lead to an adapter as leave *)
(* it, plus one for the primary, as long as the log has forgotten nothing: *)
(* a change of the primary goes without its event in one way only, that    *)
(* the caller of force_failover hangs up while it waits for the log.       *)
THEOREM SwitchesAlwaysBalanced == ASSUME IsFiniteSet(Tasks) PROVE Spec => []SwitchesBalanced
<1>1. Gone \subseteq Tasks
  BY TaskFacts DEF Gone
<1>2. ASSUME NEW a
      PROVE  /\ Cardinality(WaitingTo(a)) =
                  Cardinality({t \in Tasks \ Gone : Leads(event[t], a)}) + Cardinality({t \in Gone : Leads(event[t], a)})
             /\ Cardinality(WaitingFrom(a)) =
                  Cardinality({t \in Tasks \ Gone : Leaves(event[t], a)}) + Cardinality({t \in Gone : Leaves(event[t], a)})
  <2>1. /\ WaitingTo(a) \in SUBSET Tasks /\ WaitingFrom(a) \in SUBSET Tasks
        /\ {t \in Tasks \ Gone : Leads(event[t], a)} = WaitingTo(a) \ Gone
        /\ {t \in Gone : Leads(event[t], a)} = WaitingTo(a) \cap Gone
        /\ {t \in Tasks \ Gone : Leaves(event[t], a)} = WaitingFrom(a) \ Gone
        /\ {t \in Gone : Leaves(event[t], a)} = WaitingFrom(a) \cap Gone
    BY <1>1 DEF WaitingTo, WaitingFrom
  <2> HIDE DEF WaitingTo, WaitingFrom, Gone
  <2>2. /\ Cardinality(WaitingTo(a)) = Cardinality(WaitingTo(a) \ Gone) + Cardinality(WaitingTo(a) \cap Gone)
        /\ Cardinality(WaitingFrom(a)) = Cardinality(WaitingFrom(a) \ Gone) + Cardinality(WaitingFrom(a) \cap Gone)
    BY ONLY <2>1, IsFiniteSet(Tasks), CountParts
  <2> QED BY <2>1, <2>2
<1>3. ASSUME FailoverInv, BalanceInv, Len(log) < LogCap, NEW a \in Adapters
      PROVE  Cardinality({i \in DOMAIN log : Leads(log[i], a)})
               + Cardinality({t \in Tasks \ Gone : Leads(event[t], a)})
               + Cardinality({t \in Gone : Leads(event[t], a)})
             = Cardinality({i \in DOMAIN log : Leaves(log[i], a)})
               + Cardinality({t \in Tasks \ Gone : Leaves(event[t], a)})
               + Cardinality({t \in Gone : Leaves(event[t], a)}) + (IF primary = a THEN 1 ELSE 0)
  <2>1. Balanced(a)
    BY <1>3 DEF BalanceInv
  <2>2. PICK lt : lt = Cardinality(LoggedTo(a))
    OBVIOUS
  <2>3. PICK lf : lf = Cardinality(LoggedFrom(a))
    OBVIOUS
  <2>4. PICK wt : wt = Cardinality({t \in Tasks \ Gone : Leads(event[t], a)})
    OBVIOUS
  <2>5. PICK wf : wf = Cardinality({t \in Tasks \ Gone : Leaves(event[t], a)})
    OBVIOUS
  <2>6. PICK gt : gt = Cardinality({t \in Gone : Leads(event[t], a)})
    OBVIOUS
  <2>7. PICK gf : gf = Cardinality({t \in Gone : Leaves(event[t], a)})
    OBVIOUS
  <2>8. lt + (wt + gt) = lf + (wf + gf) + (IF primary = a THEN 1 ELSE 0)
    BY <1>2, <2>1, <2>2, <2>3, <2>4, <2>5, <2>6, <2>7 DEF Balanced, Counted
  <2>9. lt \in Nat /\ lf \in Nat /\ wt \in Nat /\ wf \in Nat /\ gt \in Nat /\ gf \in Nat
    <3>1. IsFiniteSet(DOMAIN log)
      <4>1. Len(log) \in Nat /\ DOMAIN log = 1 .. Len(log)
        BY <1>3 DEF FailoverInv, DataOK
      <4> QED BY <4>1, FS_Interval
    <3>2. \A S \in SUBSET DOMAIN log : Cardinality(S) \in Nat
      BY <3>1, FS_Subset, FS_CardinalityType
    <3>3. \A S \in SUBSET Tasks : Cardinality(S) \in Nat
      BY FS_Subset, FS_CardinalityType
    <3>4. LoggedTo(a) \in SUBSET DOMAIN log /\ LoggedFrom(a) \in SUBSET DOMAIN log
      BY DEF LoggedTo, LoggedFrom
    <3>5. /\ {t \in Tasks \ Gone : Leads(event[t], a)} \in SUBSET Tasks
          /\ {t \in Tasks \ Gone : Leaves(event[t], a)} \in SUBSET Tasks
          /\ {t \in Gone : Leads(event[t], a)} \in SUBSET Tasks
          /\ {t \in Gone : Leaves(event[t], a)} \in SUBSET Tasks
      BY <1>1
    <3> QED BY <2>2, <2>3, <2>4, <2>5, <2>6, <2>7, <3>2, <3>3, <3>4, <3>5
  <2>10. lt + wt + gt = lf + wf + gf + (IF primary = a THEN 1 ELSE 0)
    BY <2>8, <2>9
  <2> QED BY <2>2, <2>3, <2>4, <2>5, <2>6, <2>7, <2>10 DEF LoggedTo, LoggedFrom
<1>4. FailoverInv /\ BalanceInv => SwitchesBalanced
  BY <1>3 DEF SwitchesBalanced, InLog, Waiting, Lost, Leads, Leaves
<1> QED BY <1>4, FailoverInvariant, BalanceInvariant, PTL
=============================================================================
