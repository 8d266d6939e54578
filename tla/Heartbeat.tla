------------------------------- MODULE Heartbeat -------------------------------
(***************************************************************************)
(* What a node makes of the heartbeats of others                           *)
(* (myriadnode-full/src/heartbeat.rs): handle_heartbeat with its rate      *)
(* limiter and its node map, and the cleanup task.  Several handlers run   *)
(* at once; the checks of a message, the limiter and the map are three     *)
(* steps, each under a lock of its own or none.                            *)
(*                                                                         *)
(* Times are kept as ages, which grow with every tick, so that the clock   *)
(* needs no bound.  The age of a heartbeat is negative if its sender's     *)
(* clock is ahead.  Start and stop of the tasks are in ServiceTasks.       *)
(***************************************************************************)
EXTENDS Integers, FiniteSets, Sequences, Functions

CONSTANTS
  Nodes,           \* senders
  Handlers,        \* tasks that run handle_heartbeat
  Ahead,           \* how far a sender's clock may be ahead, and more than is accepted
  Freshness,       \* 300 seconds
  Timeout,         \* config.timeout_secs
  MinInterval,     \* 30 seconds between heartbeats of a node
  RateWindow,      \* 1 second
  MaxPerWindow,    \* 100 heartbeats
  MaxNodes,        \* config.max_nodes
  StoreLocation    \* config.store_remote_geolocation

ASSUME HeartbeatAssumption ==
  /\ {Ahead, Freshness, Timeout, MinInterval, RateWindow, MaxPerWindow, MaxNodes} \subseteq Nat
  /\ StoreLocation \in BOOLEAN

VARIABLES
  overflow_checks,  \* whether the build checks for overflow
  node_map,         \* node -> NodeInfo
  last_received,    \* node -> age of the last heartbeat that was let through
  recent,           \* ages of those let through, oldest first
  handling,         \* handler -> where its handle_heartbeat is
  cleanup,          \* "running" or "dead", after a panic
  admitted          \* history: node and age of each heartbeat let through

vars == <<overflow_checks, node_map, last_received, recent, handling, cleanup, admitted>>

-----------------------------------------------------------------------------
\* Ages beyond all limits are not told apart.  A time stamp 2^63 seconds ahead is one
\* whose difference to the clock has no absolute value in 64 bits.
Oldest == Timeout + Freshness + 1
Wrapped == -(Ahead + Freshness + 1)
Older(age) == IF age < Oldest /\ age # Wrapped THEN age + 1 ELSE age

Heartbeats == [node : Nodes, age : (-Ahead)..(Freshness + 1) \cup {Wrapped}, location : BOOLEAN]
\* age: of the time stamp taken over as last_seen; late: how old it was then
\* (history); silence: since it was taken over.
Ages == (-Freshness)..Oldest \cup {Wrapped}
NodeInfo == [age : Ages, late : Ages, silence : 0..Oldest, location : BOOLEAN]

Abs(x) == IF x < 0 THEN -x ELSE x
Put(f, k, v) == [x \in DOMAIN f \cup {k} |-> IF x = k THEN v ELSE f[x]]

\* What is left of s when everything before the first of the positions `kept' is
\* popped from its front.
PopUntil(s, kept) ==
  SubSeq(s, IF kept = {} THEN Len(s) + 1 ELSE CHOOSE i \in kept : \A j \in kept : i <= j, Len(s))

Idle == [step |-> "idle"]

Init ==
  /\ overflow_checks \in BOOLEAN
  /\ node_map = [n \in {} |-> Idle]
  /\ last_received = [n \in {} |-> 0]
  /\ recent = <<>>
  /\ handling = [h \in Handlers |-> Idle]
  /\ cleanup = "running"
  /\ admitted = <<>>

\* The signature is good and the time stamp fresh, or so far ahead that its age stays
\* negative; otherwise the heartbeat is refused, or the build that checks panics, with
\* nothing changed.
Receive(h, hb) ==
  /\ handling[h] = Idle
  /\ IF hb.age = Wrapped THEN ~overflow_checks ELSE Abs(hb.age) <= Freshness
  /\ handling' = [handling EXCEPT ![h] = [step |-> "fresh", heartbeat |-> hb]]
  /\ UNCHANGED <<overflow_checks, node_map, last_received, recent, cleanup, admitted>>

\* HeartbeatRateLimiter::allow under the limiter's lock.  What a node's own
\* interval refuses leaves `recent' as it was.
Allow(h) ==
  LET hb == handling[h].heartbeat
      n  == hb.node
      within  == PopUntil(recent, {i \in DOMAIN recent : recent[i] <= RateWindow})
      tooSoon == n \in DOMAIN last_received /\ last_received[n] < MinInterval
      allowed == ~tooSoon /\ Len(within) < MaxPerWindow
  IN /\ handling[h].step = "fresh"
     /\ handling' = [handling EXCEPT ![h] =
          IF allowed THEN [step |-> "allowed", heartbeat |-> hb] ELSE Idle]
     /\ last_received' = IF allowed THEN Put(last_received, n, 0) ELSE last_received
     /\ recent' = IF tooSoon THEN recent ELSE IF allowed THEN Append(within, 0) ELSE within
     /\ admitted' = IF allowed THEN Append(admitted, [node |-> n, age |-> 0]) ELSE admitted
     /\ UNCHANGED <<overflow_checks, node_map, cleanup>>

Entry(hb) ==
  [age |-> hb.age, late |-> hb.age, silence |-> 0, location |-> hb.location /\ StoreLocation]

\* A node that is not known is ignored when the map is full.  last_seen is the
\* sender's time, also if a later one was there.
UpdateMap_Mut(h) ==   \* the map was looked at before the lock
  /\ handling[h].step = "allowed"
  /\ node_map' = Put(node_map, handling[h].heartbeat.node, Entry(handling[h].heartbeat))
  /\ handling' = [handling EXCEPT ![h] = Idle]
  /\ UNCHANGED <<overflow_checks, last_received, recent, cleanup, admitted>>
UpdateMap(h) ==
  LET hb == handling[h].heartbeat IN
  /\ handling[h].step = "allowed"
  /\ node_map' = IF Cardinality(DOMAIN node_map) >= MaxNodes /\ hb.node \notin DOMAIN node_map
                 THEN node_map ELSE Put(node_map, hb.node, Entry(hb))
  /\ handling' = [handling EXCEPT ![h] = Idle]
  /\ UNCHANGED <<overflow_checks, last_received, recent, cleanup, admitted>>

\* now - last_seen, unsigned: below zero it is huge, or a panic.
Is_stale_Mut(info) == info.age = Timeout   \* only at the very moment
Is_stale_Mut2(info) == info.age < 0 \/ info.age >= Timeout
Is_stale(info) == info.age < 0 \/ info.age > Timeout

Stale == {n \in DOMAIN node_map : Is_stale(node_map[n])}
AheadOfUs == {n \in DOMAIN node_map : node_map[n].age < 0}

CleanupTick ==
  /\ cleanup = "running"
  /\ overflow_checks => AheadOfUs = {}
  /\ node_map' = Restrict(node_map, DOMAIN node_map \ Stale)
  /\ UNCHANGED <<overflow_checks, last_received, recent, handling, cleanup, admitted>>

\* The panic ends the task; retain may have removed some nodes by then.
CleanupPanics ==
  /\ cleanup = "running"
  /\ overflow_checks /\ AheadOfUs # {}
  /\ \E S \in SUBSET (Stale \ AheadOfUs) : node_map' = Restrict(node_map, DOMAIN node_map \ S)
  /\ cleanup' = "dead"
  /\ UNCHANGED <<overflow_checks, last_received, recent, handling, admitted>>

\* What was let through is kept as long as a limit can ask for it.
Remembered(as) ==
  PopUntil(as, {i \in DOMAIN as : as[i].age <= RateWindow \/ as[i].age < MinInterval})

Tick ==
  /\ node_map' = [n \in DOMAIN node_map |->
       [node_map[n] EXCEPT !.age = Older(@), !.silence = Older(@)]]
  /\ last_received' = [n \in DOMAIN last_received |->
       IF last_received[n] < MinInterval THEN last_received[n] + 1 ELSE last_received[n]]
  /\ recent' = [i \in DOMAIN recent |->
       IF recent[i] <= RateWindow THEN recent[i] + 1 ELSE recent[i]]
  /\ handling' = [h \in Handlers |->
       IF handling[h] = Idle THEN Idle ELSE [handling[h] EXCEPT !.heartbeat.age = Older(@)]]
  /\ admitted' = Remembered([i \in DOMAIN admitted |-> [admitted[i] EXCEPT !.age = @ + 1]])
  /\ UNCHANGED <<overflow_checks, cleanup>>

Handle_heartbeat(h) == (\E hb \in Heartbeats : Receive(h, hb)) \/ Allow(h) \/ UpdateMap(h)

Next ==
  \/ \E h \in Handlers : Handle_heartbeat(h)
  \/ CleanupTick
  \/ CleanupPanics
  \/ Tick

Spec == Init /\ [][Next]_vars
FairSpec == Spec /\ WF_vars(Tick) /\ WF_vars(CleanupTick)

-----------------------------------------------------------------------------
\* Types; without permission no location is in the map.
HeartbeatTypeOK ==
  /\ overflow_checks \in BOOLEAN
  /\ DOMAIN node_map \subseteq Nodes
  /\ \A n \in DOMAIN node_map : node_map[n] \in NodeInfo
  /\ \A n \in DOMAIN node_map : node_map[n].location => StoreLocation
  /\ DOMAIN last_received \subseteq Nodes
  /\ \A n \in DOMAIN last_received : last_received[n] \in Nat
  /\ recent \in Seq(Nat)
  /\ \A h \in Handlers : handling[h] = Idle \/
       /\ handling[h].step \in {"fresh", "allowed"}
       /\ handling[h].heartbeat.node \in Nodes
       /\ handling[h].heartbeat.age \in Ages
  /\ cleanup \in {"running", "dead"}
  /\ admitted \in Seq([node : Nodes, age : Nat])

\* Handlers that meet never push the map over max_nodes (heartbeat.rs,
\* handle_heartbeat).
NodesBounded == Cardinality(DOMAIN node_map) <= MaxNodes

\* Whatever the handlers do at once, two heartbeats of a node that are let
\* through are an interval apart, and at no time more than the limit were let
\* through within the last second (heartbeat.rs, HeartbeatRateLimiter::allow).
AdmissionLimits ==
  /\ \A i, j \in DOMAIN admitted :
       (i < j /\ admitted[i].node = admitted[j].node) =>
         admitted[i].age - admitted[j].age >= MinInterval
  /\ Cardinality({i \in DOMAIN admitted : admitted[i].age <= RateWindow}) <= MaxPerWindow

\* Types, and the limits on the map and on the rate.
HeartbeatInv == HeartbeatTypeOK /\ NodesBounded /\ AdmissionLimits

\* A node leaves the map only after it was silent for the timeout, less what
\* its last heartbeat was late, or if its clock is ahead (heartbeat.rs,
\* is_stale and the cleanup task).
KeptWhileHeard ==
  [][\A n \in DOMAIN node_map \ DOMAIN node_map' :
       \/ node_map[n].age < 0
       \/ node_map[n].silence > Timeout - node_map[n].late]_vars

\* A node that falls silent does not stay in the map of a build that does not
\* check for overflow: it is gone again and again, or heard again and again
\* (heartbeat.rs, the cleanup task).
SilentNodeLeaves ==
  ~overflow_checks => \A n \in Nodes :
    []<>(n \notin DOMAIN node_map \/ node_map[n].silence = 0)
=============================================================================
