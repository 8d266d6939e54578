----------------------------- MODULE UpdateWindows -----------------------------
(***************************************************************************)
(* When adapters are updated (myriadmesh-updates/src: schedule.rs and the  *)
(* parts of coordination.rs that use it): a node schedules updates of its  *)
(* own, answers the requests of its neighbours, remembers the downtimes it *)
(* acknowledged, and counts the answers to the requests it sent.           *)
(*                                                                         *)
(* Time is counted in slots, SlotsPerHour of them in an hour.  A task      *)
(* takes the locks one after the other: the neighbours, the downtimes (for *)
(* each slot of a search anew), the fallback adapters.  What other tasks   *)
(* do comes in between.                                                    *)
(***************************************************************************)
EXTENDS Integers, FiniteSets, Functions, Bags

CONSTANTS
  Peers,            \* other nodes
  Adapters,
  Managed,          \* adapters with a version and neighbours to register
  Requests,         \* requests peers may send, see UpdateSchedule
  Durations,        \* lengths of this node's updates, in slots
  SlotsPerHour,
  Horizon,          \* slots a search looks at: 24 hours of them in the code
  RequestLifetime,  \* 24 hours, after which a sent request is forgotten
  Neighbourhoods, Availables,  \* sets that may be registered
  LoadHours, Loads, \* hours whose load changes, load factors in percent
  Handlers,         \* tasks that answer requests or schedule updates
  RequestIds,
  NoWindow,
  MaxDowntimes,     \* bound on the downtimes
  StartTime, MaxNow \* bounds on the clock

UpdateSchedule == [peer : Peers, adapter : Adapters, start : Nat, duration : Nat \ {0},
                   fallbacks : SUBSET Adapters]

ASSUME WindowsAssumption ==
  /\ Requests \subseteq UpdateSchedule /\ Managed \subseteq Adapters
  /\ SlotsPerHour \in Nat \ {0} /\ Horizon \in 1..(24 * SlotsPerHour)
  /\ RequestLifetime \in Nat
  /\ Durations \subseteq Nat \ {0}
  /\ Neighbourhoods \subseteq SUBSET Peers /\ Availables \subseteq SUBSET Adapters
  /\ LoadHours \subseteq 0..23 /\ Loads \subseteq 0..100
  /\ StartTime \in Nat /\ MaxNow \in Nat

VARIABLES
  adapter_versions,    \* adapters whose version is registered
  adapter_neighbors,   \* adapter -> nodes that use it
  available_adapters,
  peer_downtimes,      \* what was acknowledged: a bag of PeerDowntime
  network_load,        \* hour -> percent
  pending_schedules,   \* adapter -> start and duration of this node's update
  sent_requests,       \* request id -> when it was created and who was asked
  received_responses,  \* request id -> who answered
  handling,            \* handler -> where its call is, with its local variables
  agreed,              \* all downtimes acknowledged so far (history)
  now,
  used                 \* request ids given out so far

vars == <<adapter_versions, adapter_neighbors, available_adapters, peer_downtimes, network_load,
          pending_schedules, sent_requests, received_responses, handling, agreed, now, used>>
registerVars == <<adapter_versions, adapter_neighbors, available_adapters>>
requestVars  == <<sent_requests, received_responses, used>>

-----------------------------------------------------------------------------
Window(s, d) == [start |-> s, end |-> s + d]
Overlap(w, x) == w.start < x.end /\ x.start < w.end

PeerDowntime == [peer : Peers, adapter : Adapters, start : Nat, end : Nat]
Downtimes(S) == {t \in BagToSet(peer_downtimes) : t.peer \in S}

\* The downtimes of nodes S that overlap w, of whatever adapter.
Conflicts(w, S) == {t \in Downtimes(S) : Overlap(w, t)}
Has_conflict(w, S) == Conflicts(w, S) # {}
ConflictCount(w, S) ==   \* each downtime as often as it was acknowledged
  Cardinality(UNION {{t} \X (1..peer_downtimes[t]) : t \in Conflicts(w, S)})

\* Scores are in tenths of a point; the load takes up to 30 points.
Bonus(hour) ==
  CASE hour \in 2..5          -> 500
    [] hour \in {22, 23, 0, 1} -> 300
    [] hour \in 9..17         -> -200
    [] OTHER                  -> 0
Merit(slot) ==
  LET hour == (slot \div SlotsPerHour) % 24 IN 1000 + Bonus(hour) - 3 * network_load[hour]
Delay(slot) == IF slot > now THEN (slot - now) \div SlotsPerHour ELSE 0   \* in hours
Evaluate_update_slot_Mut(slot, S, d) ==   \* the delay weighs as much as a conflict
  Merit(slot) - 400 * ConflictCount(Window(slot, d), S) - 400 * Delay(slot)
Evaluate_update_slot(slot, S, d) ==
  Merit(slot) - 400 * ConflictCount(Window(slot, d), S) - 5 * Delay(slot)

Identify_fallback_adapters(a) == available_adapters \ {a}

Put(f, k, v) == [x \in DOMAIN f \cup {k} |-> IF x = k THEN v ELSE f[x]]
Empty == [k \in {} |-> {}]

\* A call that does nothing, one that has a request, and one that searches.  History:
\* `known' are the downtimes agreed on when the request came, `always' and `ever' the
\* downtimes found at each look and at some look, `merits' what each slot was worth.
Idle == [step |-> "idle"]
Asked(r, S) == [step |-> "asked", request |-> r, neighbors |-> S,
                known |-> {t \in agreed : t.peer \in S}]
Search(own, a, d, S) ==
  [step |-> "search", own |-> own, adapter |-> a, duration |-> d, neighbors |-> S,
   from |-> now, slot |-> now, best |-> now, score |-> 0,
   always |-> Downtimes(S), ever |-> {}, merits |-> Empty]

Init ==
  /\ adapter_versions = {}
  /\ adapter_neighbors = [a \in Adapters |-> {}]
  /\ available_adapters = {}
  /\ peer_downtimes = EmptyBag
  /\ network_load = [h \in 0..23 |-> 0]
  /\ pending_schedules = [a \in Adapters |-> NoWindow]
  /\ sent_requests = Empty
  /\ received_responses = Empty
  /\ handling = [h \in Handlers |-> Idle] /\ agreed = {}
  /\ now = StartTime
  /\ used = {}

Register_adapter_version(a) ==
  /\ adapter_versions' = adapter_versions \cup {a}
  /\ UNCHANGED <<adapter_neighbors, available_adapters, peer_downtimes, network_load,
                 pending_schedules, handling, agreed, now, requestVars>>

Register_adapter_neighbors(a, S) ==
  /\ adapter_neighbors' = [adapter_neighbors EXCEPT ![a] = S]
  /\ UNCHANGED <<adapter_versions, available_adapters, peer_downtimes, network_load,
                 pending_schedules, handling, agreed, now, requestVars>>

Register_available_adapters(F) ==
  /\ available_adapters' = F
  /\ UNCHANGED <<adapter_versions, adapter_neighbors, peer_downtimes, network_load,
                 pending_schedules, handling, agreed, now, requestVars>>

Update_network_load(hour, load) ==
  /\ network_load' = [network_load EXCEPT ![hour] = load]
  /\ UNCHANGED <<registerVars, peer_downtimes, pending_schedules, handling, agreed, now, requestVars>>

\* The slots are looked at one by one, each with the downtimes, the load and the clock
\* of that moment; the earliest of the best is kept.
LookAtSlot(h) ==
  LET p == handling[h]
      here   == Downtimes(p.neighbors)
      score  == Evaluate_update_slot(p.slot, p.neighbors, p.duration)
      better == p.slot = p.from \/ score > p.score
  IN /\ p.step = "search" /\ p.slot < p.from + Horizon
     /\ handling' = [handling EXCEPT ![h] =
          [p EXCEPT !.slot = p.slot + 1,
                    !.best = IF better THEN p.slot ELSE p.best,
                    !.score = IF better THEN score ELSE p.score,
                    !.always = p.always \cap here, !.ever = p.ever \cup here,
                    !.merits = Put(p.merits, p.slot, Merit(p.slot))]]
     /\ UNCHANGED <<registerVars, peer_downtimes, network_load, pending_schedules, agreed, now,
                    requestVars>>
Found(h) == handling[h].step = "search" /\ handling[h].slot = handling[h].from + Horizon

\* Without a registered version the call fails.  (Versions stay registered, so that
\* the check and the reading of the neighbours are one step.)
Schedule_adapter_update(h, a, d) ==
  /\ handling[h] = Idle
  /\ a \in adapter_versions
  /\ handling' = [handling EXCEPT ![h] =
       [step |-> "planned", adapter |-> a, duration |-> d, neighbors |-> adapter_neighbors[a]]]
  /\ UNCHANGED <<registerVars, peer_downtimes, network_load, pending_schedules, agreed, now,
                 requestVars>>

\* Without a fallback adapter it fails, too.
PlanFallback(h) ==
  LET p == handling[h] IN
  /\ p.step = "planned"
  /\ handling' = [handling EXCEPT ![h] =
       IF Identify_fallback_adapters(p.adapter) = {} THEN Idle
       ELSE Search(TRUE, p.adapter, p.duration, p.neighbors)]
  /\ UNCHANGED <<registerVars, peer_downtimes, network_load, pending_schedules, agreed, now,
                 requestVars>>

\* An earlier schedule of the adapter is replaced.
Add_pending_schedule(h) ==
  LET p == handling[h] IN
  /\ Found(h) /\ p.own
  /\ pending_schedules' = [pending_schedules EXCEPT ![p.adapter] = Window(p.best, p.duration)]
  /\ handling' = [handling EXCEPT ![h] = Idle]
  /\ UNCHANGED <<registerVars, peer_downtimes, network_load, agreed, now, requestVars>>

Remove_pending_schedule(a) ==
  /\ pending_schedules' = [pending_schedules EXCEPT ![a] = NoWindow]
  /\ UNCHANGED <<registerVars, peer_downtimes, network_load, handling, agreed, now, requestVars>>

-----------------------------------------------------------------------------
Handle_schedule_request(h, r) ==
  /\ handling[h] = Idle
  /\ handling' = [handling EXCEPT ![h] = Asked(r, adapter_neighbors[r.adapter])]
  /\ UNCHANGED <<registerVars, peer_downtimes, network_load, pending_schedules, agreed, now,
                 requestVars>>

\* A request that conflicts is told the window a search finds, and leaves no trace.
LookForConflict(h) ==
  LET p == handling[h]
      r == p.request IN
  /\ p.step = "asked"
  /\ handling' = [handling EXCEPT ![h] =
       IF Has_conflict(Window(r.start, r.duration), p.neighbors)
       THEN Search(FALSE, r.adapter, r.duration, p.neighbors)
       ELSE [p EXCEPT !.step = "clear"]]
  /\ UNCHANGED <<registerVars, peer_downtimes, network_load, pending_schedules, agreed, now,
                 requestVars>>

Reschedule(h) ==
  /\ Found(h) /\ ~handling[h].own
  /\ handling' = [handling EXCEPT ![h] = Idle]
  /\ UNCHANGED <<registerVars, peer_downtimes, network_load, pending_schedules, agreed, now,
                 requestVars>>

\* A fallback adapter that is not available is a rejection.
Reject(h) ==
  /\ handling[h].step = "clear"
  /\ ~(handling[h].request.fallbacks \subseteq available_adapters)
  /\ handling' = [handling EXCEPT ![h] = Idle]
  /\ UNCHANGED <<registerVars, peer_downtimes, network_load, pending_schedules, agreed, now,
                 requestVars>>

Downtime(r) == [peer |-> r.peer, adapter |-> r.adapter, start |-> r.start,
                end |-> r.start + r.duration]

\* Registered without another look at the conflicts; the fallback adapters cannot
\* change meanwhile, as their lock is held.
Acknowledge(h) ==
  LET r == handling[h].request IN
  /\ handling[h].step = "clear"
  /\ r.fallbacks \subseteq available_adapters
  /\ BagCardinality(peer_downtimes) < MaxDowntimes
  /\ peer_downtimes' = peer_downtimes (+) SetToBag({Downtime(r)})
  /\ agreed' = agreed \cup {Downtime(r)}
  /\ handling' = [handling EXCEPT ![h] = Idle]
  /\ UNCHANGED <<registerVars, network_load, pending_schedules, now, requestVars>>

-----------------------------------------------------------------------------
\* A request id is used once.
Record_sent_request(id, S) ==
  /\ id \notin used
  /\ used' = used \cup {id}
  /\ sent_requests' = Put(sent_requests, id, [created_at |-> now, neighbors |-> S])
  /\ UNCHANGED <<registerVars, peer_downtimes, network_load, pending_schedules, handling, agreed,
                 now, received_responses>>

\* An answer may come late, again, or to a request that is forgotten.
Record_response_Mut(id, n) ==   \* a new answer takes the place of all of them
  /\ received_responses' = Put(received_responses, id, {n})
  /\ UNCHANGED <<registerVars, peer_downtimes, network_load, pending_schedules, handling, agreed,
                 now, sent_requests, used>>
Record_response(id, n) ==
  /\ received_responses' =
       Put(received_responses, id,
           {n} \cup IF id \in DOMAIN received_responses THEN received_responses[id] ELSE {})
  /\ UNCHANGED <<registerVars, peer_downtimes, network_load, pending_schedules, handling, agreed,
                 now, sent_requests, used>>

\* Nobody to ask is not the same as everybody answered: without an answer on
\* record the result is false.
All_responded(id) ==
  /\ id \in DOMAIN sent_requests /\ id \in DOMAIN received_responses
  /\ sent_requests[id].neighbors \subseteq received_responses[id]

\* cleanup: requests of a day ago with their answers, and the answers to no
\* request; downtimes that are over.  (The pending packages are not part of
\* this module.)
CleanupRequests ==
  LET kept == {id \in DOMAIN sent_requests : now - sent_requests[id].created_at < RequestLifetime} IN
  /\ sent_requests' = Restrict(sent_requests, kept)
  /\ received_responses' = Restrict(received_responses, kept \cap DOMAIN received_responses)
  /\ UNCHANGED <<registerVars, peer_downtimes, network_load, pending_schedules, handling, agreed,
                 now, used>>

Cleanup_expired_downtimes_Mut ==   \* those that have begun go
  /\ peer_downtimes' = Restrict(peer_downtimes, {t \in DOMAIN peer_downtimes : t.start > now})
  /\ UNCHANGED <<registerVars, network_load, pending_schedules, handling, agreed, now, requestVars>>
Cleanup_expired_downtimes ==
  /\ peer_downtimes' = Restrict(peer_downtimes, {t \in DOMAIN peer_downtimes : t.end > now})
  /\ UNCHANGED <<registerVars, network_load, pending_schedules, handling, agreed, now, requestVars>>

Tick ==
  /\ now < MaxNow
  /\ now' = now + 1
  /\ UNCHANGED <<registerVars, peer_downtimes, network_load, pending_schedules, handling, agreed,
                 requestVars>>

Next ==
  \/ \E a \in Managed : Register_adapter_version(a)
  \/ \E a \in Managed, S \in Neighbourhoods : Register_adapter_neighbors(a, S)
  \/ \E F \in Availables : Register_available_adapters(F)
  \/ \E hour \in LoadHours, load \in Loads : Update_network_load(hour, load)
  \/ \E a \in Adapters : Remove_pending_schedule(a)
  \/ \E h \in Handlers :
       \/ \E a \in Adapters, d \in Durations : Schedule_adapter_update(h, a, d)
       \/ PlanFallback(h) \/ LookAtSlot(h) \/ Add_pending_schedule(h)
       \/ \E r \in Requests : Handle_schedule_request(h, r)
       \/ LookForConflict(h) \/ Reschedule(h) \/ Reject(h) \/ Acknowledge(h)
  \/ \E id \in RequestIds : \/ \E S \in Neighbourhoods : Record_sent_request(id, S)
                            \/ \E n \in Peers : Record_response(id, n)
  \/ CleanupRequests
  \/ Cleanup_expired_downtimes
  \/ Tick

Spec == Init /\ [][Next]_vars

-----------------------------------------------------------------------------
\* Types; a registered downtime has a length.
WindowsTypeOK ==
  /\ adapter_versions \subseteq Adapters
  /\ adapter_neighbors \in [Adapters -> SUBSET Peers]
  /\ available_adapters \subseteq Adapters
  /\ IsABag(peer_downtimes)
  /\ \A t \in BagToSet(peer_downtimes) : t \in PeerDowntime /\ t.start < t.end
  /\ network_load \in [0..23 -> 0..100]
  /\ pending_schedules \in [Adapters -> {NoWindow} \cup [start : Nat, end : Nat]]
  /\ \A id \in DOMAIN sent_requests : sent_requests[id] \in [created_at : Nat, neighbors : SUBSET Peers]
  /\ \A id \in DOMAIN received_responses : received_responses[id] \subseteq Peers

\* An acknowledged window has no slot in common with a downtime of a neighbour that
\* was agreed on before the request came and is not over, whatever is cleaned up and
\* registered while the request is handled.  (Two requests handled at once may both
\* be acknowledged although they overlap: coordination.rs, handle_schedule_request.)
AcknowledgedApart ==
  [][\A h \in Handlers :
       LET r == handling[h].request
           Slots(t) == t.start..(t.end - 1) IN
       (handling[h].step = "clear" /\ peer_downtimes' # peer_downtimes /\ handling'[h] = Idle) =>
         \A t \in handling[h].known :
           t.end <= now \/ Slots(t) \cap (r.start..(r.start + r.duration - 1)) = {}]_vars

\* The window a search ends with, for a neighbour or for this node, overlaps a
\* downtime that was there all the time only if each slot it could have had instead
\* met a downtime at some time, or was worth less: no delay is worth a conflict, and
\* downtimes and load that change during the search do not make it so (schedule.rs,
\* find_optimal_window).
FreeSlotPreferred ==
  \A h \in Handlers : Found(h) =>
    LET p == handling[h]
        Meets(slot, T) == \E t \in T : Overlap(Window(slot, p.duration), t) IN
    Meets(p.best, p.always) =>
      \A s \in p.from..(p.from + Horizon - 1) :
        Meets(s, p.ever) \/ p.merits[s] < p.merits[p.best]

\* Types, and the searches that are over.
WindowsInv == WindowsTypeOK /\ FreeSlotPreferred

\* Once all have responded, late and repeated answers and cleanups leave it so
\* till the request is forgotten (schedule.rs, record_response).
AgreementStable ==
  [][\A id \in RequestIds :
       All_responded(id) /\ id \in DOMAIN sent_requests' => All_responded(id)']_vars
=============================================================================
