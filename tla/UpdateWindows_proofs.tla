-------------------------- MODULE UpdateWindows_proofs --------------------------
(***************************************************************************)
(* Proofs about UpdateWindows, for any requests, neighbours and durations: *)
(* what was agreed on stays clear of what is agreed on later while other   *)
(* handlers go on, all the answers to a request are not taken back, and a  *)
(* search, with downtimes and load that change under it, takes a conflict  *)
(* only if there was no free slot of equal worth.                          *)
(***************************************************************************)
EXTENDS UpdateWindows, FiniteSetTheorems, TLAPS

\* What the local variables of a call hold: before its search, of a request, and
\* of a search.
Plans == [step : {"planned"}, adapter : Adapters, duration : Nat \ {0}, neighbors : SUBSET Peers]
Calls == [step : {"asked", "clear"}, request : Requests, neighbors : SUBSET Peers,
          known : SUBSET PeerDowntime]
Partial == UNION {[S -> Int] : S \in SUBSET Nat}
Looks == [step : {"search"}, own : BOOLEAN, adapter : Adapters, duration : Nat \ {0},
          neighbors : SUBSET Peers, from : Nat, slot : Nat, best : Nat, score : Int,
          always : SUBSET PeerDowntime, ever : SUBSET PeerDowntime, merits : Partial]

Meets(p, slot, T) == \E t \in T : Overlap(Window(slot, p.duration), t)

\* The best so far paid for a downtime that was always there; no slot looked at
\* without a downtime was worth more.
BestSoFar(p) ==
  /\ p.best \in p.from..(p.slot - 1)
  /\ Meets(p, p.best, p.always) => p.score <= p.merits[p.best] - 400
  /\ \A s \in p.from..(p.slot - 1) : Meets(p, s, p.ever) \/ p.score >= p.merits[s] - 115
SearchSoFar(p) ==
  /\ p.from <= now /\ p.slot \in p.from..(p.from + Horizon)
  /\ DOMAIN p.merits = p.from..(p.slot - 1)
  /\ p.slot > p.from => BestSoFar(p)

\* A downtime that is over, or registered.
Kept(t) == t.end <= now \/ t \in BagToSet(peer_downtimes)

\* A request that is clear overlaps nothing agreed on before that is not over.
IsClear(p) == \A t \in p.known :
                t.end <= now \/ ~Overlap(Window(p.request.start, p.request.duration), t)
HandlerOK(h) ==
  LET p == handling[h] IN
  \/ p = Idle
  \/ p \in Plans
  \/ p \in Calls /\ p.step = "asked" /\ \A t \in p.known : Kept(t) /\ t.peer \in p.neighbors
  \/ p \in Calls /\ p.step = "clear" /\ IsClear(p)
  \/ p \in Looks /\ SearchSoFar(p)

\* The types, with what a search needs of the clock and of the downtimes.
CalendarInv == WindowsTypeOK /\ now \in Nat /\ IsFiniteSet(DOMAIN peer_downtimes)

\* The inductive invariant.
WindowsIInv ==
  /\ CalendarInv
  /\ handling \in [Handlers -> {handling[h] : h \in Handlers}]
  /\ \A h \in Handlers : HandlerOK(h)
  /\ agreed \subseteq PeerDowntime /\ \A t \in agreed : Kept(t)
  /\ DOMAIN sent_requests \subseteq used

-----------------------------------------------------------------------------
LEMMA DowntimeTyped ==
  ASSUME NEW r \in Requests
  PROVE  Downtime(r) \in PeerDowntime /\ Downtime(r).start < Downtime(r).end
BY WindowsAssumption DEF Downtime, PeerDowntime, UpdateSchedule

(* The worth of a slot                                                     *)

\* How many downtimes are in conflict is a number, and zero only without one.
LEMMA CountOfConflicts ==
  ASSUME CalendarInv, NEW w, NEW S
  PROVE  /\ ConflictCount(w, S) \in Nat
         /\ ConflictCount(w, S) = 0 <=> ~Has_conflict(w, S)
<1> DEFINE C == Conflicts(w, S)
           copies == [t \in C |-> {t} \X (1..peer_downtimes[t])]
           all == {{t} \X (1..peer_downtimes[t]) : t \in C}
<1>1. C \in SUBSET DOMAIN peer_downtimes
  BY DEF Conflicts, Downtimes, BagToSet
<1>2. \A t \in C : peer_downtimes[t] \in Nat /\ peer_downtimes[t] > 0
  BY <1>1 DEF CalendarInv, WindowsTypeOK, IsABag
<1>3. IsFiniteSet(C)
  BY <1>1, FS_Subset DEF CalendarInv
<1>4. \A t \in C : IsFiniteSet({t} \X (1..peer_downtimes[t]))
  <2> SUFFICES ASSUME NEW t \in C PROVE IsFiniteSet({t} \X (1..peer_downtimes[t]))
    OBVIOUS
  <2>1. IsFiniteSet({t})
    BY FS_Singleton
  <2>2. peer_downtimes[t] \in Int /\ 1 \in Int
    BY <1>2
  <2>3. IsFiniteSet(1..peer_downtimes[t])
    BY ONLY <2>2, FS_Interval
  <2> QED BY ONLY <2>1, <2>3, FS_Product
<1> HIDE DEF C
<1>5. IsFiniteSet(all)
  <2>1. copies \in Surjection(C, all)
    BY DEF Surjection
  <2> HIDE DEF copies, all
  <2> QED BY <1>3, <2>1, FS_Surjection
<1>6. \A X \in all : IsFiniteSet(X)
  BY <1>4
<1>7. UNION all = {} <=> C = {}
  <2>1. \A t \in C : <<t, 1>> \in {t} \X (1..peer_downtimes[t])
    BY <1>2
  <2>2. ASSUME C # {} PROVE UNION all # {}
    <3>1. PICK t \in C : TRUE
      BY <2>2
    <3>2. <<t, 1>> \in UNION all
      BY <2>1
    <3> QED BY <3>2
  <2>3. C = {} => UNION all = {}
    OBVIOUS
  <2> QED BY <2>2, <2>3
<1> HIDE DEF all
<1>8. IsFiniteSet(UNION all)
  BY <1>5, <1>6, FS_UNION
<1>9. Cardinality(UNION all) \in Nat /\ (Cardinality(UNION all) = 0 <=> UNION all = {})
  BY <1>8, FS_CardinalityType, FS_EmptySet
<1> QED BY <1>7, <1>9 DEF all, C, ConflictCount, Has_conflict

\* What lies less than 24 hours ahead.
LEMMA HoursAhead ==
  ASSUME NEW x \in Nat, NEW k \in Nat \ {0}, x < 24 * k
  PROVE  x \div k \in 0..23
<1> DEFINE q == x \div k
<1>1. q \in Nat /\ k * q <= x
  OBVIOUS
<1>2. ASSUME q >= 24 PROVE FALSE
  <2> HIDE DEF q
  <2>1. k * q >= k * 24
    BY <1>1, <1>2
  <2> QED BY <1>1, <2>1
<1> QED BY <1>1, <1>2

LEMMA MeritBound ==
  ASSUME CalendarInv, NEW slot \in Nat
  PROVE  Merit(slot) \in Int /\ Merit(slot) <= 1500
<1> DEFINE hour == (slot \div SlotsPerHour) % 24
<1>1. slot \div SlotsPerHour \in Nat
  BY WindowsAssumption
<1>2. hour \in 0..23
  <2> DEFINE n == slot \div SlotsPerHour
  <2> HIDE DEF n
  <2>1. n % 24 \in 0..23
    BY <1>1 DEF n
  <2> QED BY <2>1 DEF n
<1> HIDE DEF hour
<1>3. network_load[hour] \in 0..100
  BY <1>2 DEF CalendarInv, WindowsTypeOK
<1>4. Bonus(hour) \in {500, 300, -200, 0}
  BY DEF Bonus
<1>5. Merit(slot) = 1000 + Bonus(hour) - 3 * network_load[hour]
  BY DEF Merit, hour
<1> DEFINE b == Bonus(hour)
           l == network_load[hour]
<1> HIDE DEF b, l
<1>6. b \in Int /\ b <= 500 /\ l \in Nat
  BY <1>3, <1>4 DEF b, l
<1>7. Merit(slot) = 1000 + b - 3 * l
  BY <1>5 DEF b, l
<1> QED BY <1>6, <1>7

\* The worst delay of a search costs less than one conflict.
LEMMA ScoreBounds ==
  ASSUME CalendarInv, NEW S, NEW d, NEW from \in Nat, from <= now,
         NEW s \in from..(from + Horizon - 1)
  PROVE  LET score == Evaluate_update_slot(s, S, d) IN
         /\ score \in Int
         /\ Has_conflict(Window(s, d), S) => score <= Merit(s) - 400
         /\ ~Has_conflict(Window(s, d), S) => score >= Merit(s) - 115
<1> DEFINE hours == Delay(s)
           count == ConflictCount(Window(s, d), S)
           merit == Merit(s)
<1>1. now \in Nat /\ SlotsPerHour \in Nat \ {0} /\ Horizon \in Nat /\ Horizon <= 24 * SlotsPerHour /\ s \in Nat
  BY WindowsAssumption DEF CalendarInv
<1>2. s > now => s - now \in Nat /\ s - now < 24 * SlotsPerHour
  BY <1>1
<1>3. hours \in 0..23
  <2>1. ASSUME s > now PROVE (s - now) \div SlotsPerHour \in 0..23
    BY <1>1, <1>2, <2>1, HoursAhead
  <2> QED BY <2>1 DEF Delay
<1>4. count \in Nat /\ (count = 0 <=> ~Has_conflict(Window(s, d), S))
  BY CountOfConflicts
<1>5. merit \in Int
  BY <1>1, MeritBound
<1>6. Evaluate_update_slot(s, S, d) = merit - 400 * count - 5 * hours
  BY DEF Evaluate_update_slot
<1> HIDE DEF hours, count, merit
<1>7. Has_conflict(Window(s, d), S) => count >= 1
  BY <1>4
<1>8. /\ merit - 400 * count - 5 * hours \in Int
      /\ count >= 1 => merit - 400 * count - 5 * hours <= merit - 400
      /\ count = 0 => merit - 400 * count - 5 * hours >= merit - 115
  BY <1>3, <1>4, <1>5
<1> QED BY <1>4, <1>6, <1>7, <1>8 DEF merit

\* A search that is over has what was promised.
LEMMA FreeSlotFound == WindowsIInv => FreeSlotPreferred
<1> SUFFICES ASSUME WindowsIInv, NEW h \in Handlers, Found(h),
                    Meets(handling[h], handling[h].best, handling[h].always),
                    NEW s \in handling[h].from..(handling[h].from + Horizon - 1),
                    ~Meets(handling[h], s, handling[h].ever)
             PROVE  handling[h].merits[s] < handling[h].merits[handling[h].best]
  BY DEF FreeSlotPreferred, Meets
<1> DEFINE p == handling[h]
<1>1. p \in Looks /\ SearchSoFar(p) /\ p.slot = p.from + Horizon
  BY DEF WindowsIInv, HandlerOK, Found, Idle, Plans, Calls
<1>2. Horizon \in Nat /\ Horizon > 0 /\ p.from \in Nat /\ p.best \in Nat /\ p.score \in Int
  BY <1>1, WindowsAssumption DEF Looks
<1>3. BestSoFar(p) /\ DOMAIN p.merits = p.from..(p.slot - 1)
  BY <1>1, <1>2 DEF SearchSoFar
<1>4. s \in DOMAIN p.merits /\ p.best \in DOMAIN p.merits
  BY <1>1, <1>2, <1>3 DEF BestSoFar
<1>5. p.merits[s] \in Int /\ p.merits[p.best] \in Int
  BY <1>1, <1>4 DEF Looks, Partial
<1>6. p.score <= p.merits[p.best] - 400 /\ p.score >= p.merits[s] - 115
  BY <1>3, <1>4 DEF BestSoFar
<1> HIDE DEF p
<1>7. p.merits[s] < p.merits[p.best]
  BY <1>2, <1>5, <1>6
<1> QED BY <1>7 DEF p

-----------------------------------------------------------------------------
(* Where a call is                                                         *)

\* A call that goes on.
LEMMA HandlerMoves ==
  ASSUME WindowsIInv, NEW h \in Handlers, NEW v, handling' = [handling EXCEPT ![h] = v],
         HandlerOK(h)', UNCHANGED <<peer_downtimes, now>>
  PROVE  /\ handling' \in [Handlers -> {handling'[g] : g \in Handlers}]
         /\ \A g \in Handlers : HandlerOK(g)'
<1>1. \A g \in Handlers : g # h => handling'[g] = handling[g]
  BY DEF WindowsIInv
<1>2. \A g \in Handlers : HandlerOK(g)'
  BY <1>1 DEF WindowsIInv, HandlerOK, Kept, IsClear, SearchSoFar, BestSoFar, Meets
<1>3. handling' = [g \in Handlers |-> handling'[g]]
  BY DEF WindowsIInv
<1> QED BY <1>2, <1>3

\* What is kept stays so when time passes, downtimes are registered, and those that
\* are over are removed.
Onward ==
  /\ now' \in Nat /\ now <= now'
  /\ \A t \in BagToSet(peer_downtimes) : t.end <= now' \/ t \in BagToSet(peer_downtimes)'

LEMMA KeptOn ==
  ASSUME now \in Nat, Onward, NEW t \in PeerDowntime, Kept(t)
  PROVE  Kept(t)'
<1>1. t.end \in Nat
  BY DEF PeerDowntime
<1> QED BY <1>1 DEF Kept, Onward

\* A call that stays where it is while others move.
LEMMA HandlerWaits ==
  ASSUME WindowsIInv, Onward, NEW g \in Handlers, handling'[g] = handling[g]
  PROVE  HandlerOK(g)'
<1> DEFINE p == handling[g]
<1>1. now \in Nat
  BY DEF WindowsIInv, CalendarInv
<1>2. HandlerOK(g)
  BY DEF WindowsIInv
<1>3. ASSUME p \in Calls, p.step = "asked", \A t \in p.known : Kept(t) /\ t.peer \in p.neighbors
      PROVE  HandlerOK(g)'
  <2>1. \A t \in p.known : Kept(t)'
    BY <1>1, <1>3, KeptOn DEF Calls
  <2> QED BY <1>3, <2>1 DEF HandlerOK
<1>4. ASSUME p \in Calls, p.step = "clear", IsClear(p) PROVE HandlerOK(g)'
  <2>1. \A t \in p.known : t.end \in Nat
    BY <1>4 DEF Calls, PeerDowntime
  <2>2. IsClear(p)'
    BY <1>1, <1>4, <2>1 DEF IsClear, Onward
  <2> QED BY <1>4, <2>2 DEF HandlerOK
<1>5. ASSUME p \in Looks, SearchSoFar(p) PROVE HandlerOK(g)'
  <2>1. p.from \in Nat
    BY <1>5 DEF Looks
  <2>2. p.from <= now'
    BY <1>1, <1>5, <2>1 DEF SearchSoFar, Onward
  <2>3. SearchSoFar(p)'
    BY <1>5, <2>2 DEF SearchSoFar, BestSoFar, Meets
  <2> QED BY <1>5, <2>3 DEF HandlerOK
<1> QED BY <1>2, <1>3, <1>4, <1>5 DEF HandlerOK

\* A new search has looked at nothing.
LEMMA SearchStarts ==
  ASSUME WindowsIInv, NEW own \in BOOLEAN, NEW a \in Adapters, NEW d \in Nat \ {0}, NEW S \in SUBSET Peers
  PROVE  Search(own, a, d, S) \in Looks /\ SearchSoFar(Search(own, a, d, S))
<1> DEFINE p == Search(own, a, d, S)
<1>1. now \in Nat /\ Horizon \in Nat
  BY WindowsAssumption DEF WindowsIInv, CalendarInv
<1>2. Downtimes(S) \in SUBSET PeerDowntime
  BY DEF Downtimes, WindowsIInv, CalendarInv, WindowsTypeOK
<1>3. Empty \in Partial /\ DOMAIN Empty = {}
  <2>1. Empty \in [{} -> Int] /\ {} \in SUBSET Nat
    BY DEF Empty
  <2> QED BY <2>1 DEF Partial
<1>4. p \in Looks
  BY <1>1, <1>2, <1>3 DEF Search, Looks
<1>5. p.from = now /\ p.slot = now /\ p.merits = Empty
  BY DEF Search
<1>6. SearchSoFar(p)
  BY <1>1, <1>3, <1>5 DEF SearchSoFar
<1> QED BY <1>4, <1>6

\* A look keeps the best so far.
LEMMA SearchGoesOn ==
  ASSUME WindowsIInv, NEW h \in Handlers, LookAtSlot(h)
  PROVE  HandlerOK(h)'
<1> DEFINE p == handling[h]
           q == handling'[h]
           here == Downtimes(p.neighbors)
           score == Evaluate_update_slot(p.slot, p.neighbors, p.duration)
           better == p.slot = p.from \/ score > p.score
<1>1. p \in Looks /\ SearchSoFar(p) /\ p.slot < p.from + Horizon
  BY DEF LookAtSlot, WindowsIInv, HandlerOK, Idle, Plans, Calls
<1>2. /\ p.from \in Nat /\ p.slot \in Nat /\ p.best \in Nat /\ p.score \in Int
      /\ p.merits \in Partial /\ p.always \in SUBSET PeerDowntime /\ p.ever \in SUBSET PeerDowntime
      /\ Horizon \in Nat /\ now \in Nat /\ p.from <= now /\ p.slot >= p.from
  BY <1>1, WindowsAssumption DEF Looks, SearchSoFar, WindowsIInv, CalendarInv
<1>3. q = [p EXCEPT !.slot = p.slot + 1,
                    !.best = IF better THEN p.slot ELSE p.best,
                    !.score = IF better THEN score ELSE p.score,
                    !.always = p.always \cap here, !.ever = p.ever \cup here,
                    !.merits = Put(p.merits, p.slot, Merit(p.slot))]
  BY DEF LookAtSlot, WindowsIInv
<1>4. p.slot \in p.from..(p.from + Horizon - 1)
  BY <1>1, <1>2
<1>5. /\ score \in Int
      /\ Has_conflict(Window(p.slot, p.duration), p.neighbors) => score <= Merit(p.slot) - 400
      /\ ~Has_conflict(Window(p.slot, p.duration), p.neighbors) => score >= Merit(p.slot) - 115
  BY <1>2, <1>4, ScoreBounds DEF WindowsIInv
<1>6. Has_conflict(Window(p.slot, p.duration), p.neighbors) <=> Meets(p, p.slot, here)
  BY DEF Has_conflict, Conflicts, Meets
<1>7. here \in SUBSET PeerDowntime
  BY DEF Downtimes, WindowsIInv, CalendarInv, WindowsTypeOK
<1>8. Merit(p.slot) \in Int
  BY <1>2, MeritBound DEF WindowsIInv
<1>9. /\ Put(p.merits, p.slot, Merit(p.slot)) \in Partial
      /\ DOMAIN Put(p.merits, p.slot, Merit(p.slot)) = p.from..p.slot
      /\ Put(p.merits, p.slot, Merit(p.slot))[p.slot] = Merit(p.slot)
      /\ \A s \in p.from..(p.slot - 1) : Put(p.merits, p.slot, Merit(p.slot))[s] = p.merits[s]
  <2> DEFINE M == Put(p.merits, p.slot, Merit(p.slot))
  <2>1. DOMAIN p.merits = p.from..(p.slot - 1)
    BY <1>1 DEF SearchSoFar
  <2>2. M = [x \in p.from..p.slot |-> IF x = p.slot THEN Merit(p.slot) ELSE p.merits[x]]
    BY <1>2, <2>1 DEF Put
  <2>3. \A x \in p.from..(p.slot - 1) : p.merits[x] \in Int
    BY <1>2, <2>1 DEF Partial
  <2>4. M \in [p.from..p.slot -> Int] /\ p.from..p.slot \in SUBSET Nat
    BY <1>2, <1>8, <2>2, <2>3
  <2>5. M \in Partial
    BY <2>4 DEF Partial
  <2>6. DOMAIN M = p.from..p.slot
    BY <2>2
  <2>7. p.slot \in p.from..p.slot /\ \A s \in p.from..(p.slot - 1) : s \in p.from..p.slot /\ s # p.slot
    BY <1>2
  <2>8. M[p.slot] = Merit(p.slot) /\ \A s \in p.from..(p.slot - 1) : M[s] = p.merits[s]
    BY <2>2, <2>7
  <2> QED BY <2>5, <2>6, <2>8
<1> HIDE DEF better, score, here
<1>10. q \in Looks
  <2>1. (IF better THEN p.slot ELSE p.best) \in Nat /\ (IF better THEN score ELSE p.score) \in Int /\ p.slot + 1 \in Nat
    BY <1>2, <1>5
  <2>2. p.always \cap here \in SUBSET PeerDowntime /\ p.ever \cup here \in SUBSET PeerDowntime
    BY <1>2, <1>7
  <2> DEFINE b == IF better THEN p.slot ELSE p.best
             c == IF better THEN score ELSE p.score
             A == p.always \cap here
             E == p.ever \cup here
             M == Put(p.merits, p.slot, Merit(p.slot))
  <2> HIDE DEF b, c, A, E, M
  <2>3. b \in Nat /\ c \in Int /\ A \in SUBSET PeerDowntime /\ E \in SUBSET PeerDowntime /\ M \in Partial
    BY <1>9, <2>1, <2>2 DEF b, c, A, E, M
  <2>4. q = [p EXCEPT !.slot = p.slot + 1, !.best = b, !.score = c, !.always = A, !.ever = E, !.merits = M]
    BY <1>3 DEF b, c, A, E, M
  <2> HIDE DEF q
  <2> QED BY <1>1, <2>1, <2>3, <2>4 DEF Looks
<1>11. /\ q.slot = p.slot + 1 /\ q.from = p.from /\ q.duration = p.duration
       /\ q.best = (IF better THEN p.slot ELSE p.best)
       /\ q.score = (IF better THEN score ELSE p.score)
       /\ q.always = p.always \cap here /\ q.ever = p.ever \cup here
       /\ q.merits = Put(p.merits, p.slot, Merit(p.slot))
  BY <1>1, <1>3 DEF Looks
<1>12. \A s, T, U : T \subseteq U /\ Meets(p, s, T) => Meets(p, s, U)
  BY DEF Meets
<1>13. \A s, T : Meets(q, s, T) <=> Meets(p, s, T)
  BY <1>11 DEF Meets
<1>14. p.slot > p.from => BestSoFar(p)
  BY <1>1 DEF SearchSoFar
<1> HIDE DEF p, q
<1>15. BestSoFar(q)
  <2>1. q.best \in q.from..(q.slot - 1)
    BY <1>2, <1>11, <1>14 DEF BestSoFar, better
  <2>2. Meets(q, q.best, q.always) => q.score <= q.merits[q.best] - 400
    <3>1. ASSUME better, Meets(q, q.best, q.always) PROVE q.score <= q.merits[q.best] - 400
      <4>1. Meets(p, p.slot, here)
        BY <1>11, <1>12, <1>13, <3>1
      <4> QED BY <1>5, <1>6, <1>9, <1>11, <3>1, <4>1
    <3>2. ASSUME ~better, Meets(q, q.best, q.always) PROVE q.score <= q.merits[q.best] - 400
      <4>1. p.slot > p.from
        BY <1>2, <3>2 DEF better
      <4>2. Meets(p, p.best, p.always)
        BY <1>11, <1>12, <1>13, <3>2
      <4>3. p.score <= p.merits[p.best] - 400 /\ p.best \in p.from..(p.slot - 1)
        BY <1>14, <4>1, <4>2 DEF BestSoFar
      <4> QED BY <1>9, <1>11, <3>2, <4>3
    <3> QED BY <3>1, <3>2
  <2>3. ASSUME NEW s \in q.from..(q.slot - 1), ~Meets(q, s, q.ever) PROVE q.score >= q.merits[s] - 115
    <3>1. q.score >= score
      BY <1>2, <1>5, <1>11 DEF better
    <3>2. CASE s = p.slot
      <4>1. ~Meets(p, p.slot, here)
        BY <1>11, <1>12, <1>13, <2>3, <3>2
      <4>2. score >= Merit(p.slot) - 115 /\ q.merits[s] = Merit(p.slot)
        BY <1>5, <1>6, <1>9, <1>11, <3>2, <4>1
      <4>3. q.score \in Int
        BY <1>10 DEF Looks
      <4> QED BY <1>5, <1>8, <3>1, <4>2, <4>3
    <3>3. CASE s # p.slot
      <4>1. s \in p.from..(p.slot - 1) /\ p.slot > p.from
        BY <1>2, <1>11, <3>3
      <4>2. ~Meets(p, s, p.ever)
        BY <1>11, <1>12, <1>13, <2>3
      <4>3. p.score >= p.merits[s] - 115 /\ q.merits[s] = p.merits[s]
        BY <1>9, <1>11, <1>14, <4>1, <4>2 DEF BestSoFar
      <4>4. q.score >= p.score /\ q.score \in Int
        BY <1>2, <1>5, <1>11, <4>1 DEF better
      <4>5. p.merits[s] \in Int
        <5>1. DOMAIN p.merits = p.from..(p.slot - 1)
          BY <1>1 DEF SearchSoFar
        <5> QED BY <1>2, <4>1, <5>1 DEF Partial
      <4> QED BY <1>2, <4>3, <4>4, <4>5
    <3> QED BY <3>2, <3>3
  <2> QED BY <2>1, <2>2, <2>3 DEF BestSoFar
<1>16. UNCHANGED now
  BY DEF LookAtSlot
<1>17. SearchSoFar(q)
  <2>1. q.from <= now /\ q.slot \in q.from..(q.from + Horizon)
    BY <1>1, <1>2, <1>11
  <2>2. q.slot - 1 = p.slot
    BY <1>2, <1>11
  <2>3. DOMAIN q.merits = q.from..(q.slot - 1)
    BY <1>9, <1>11, <2>2
  <2> QED BY <1>15, <2>1, <2>3 DEF SearchSoFar
<1>18. HandlerOK(h)'
  <2>1. SearchSoFar(handling[h])'
    BY <1>16, <1>17 DEF q, SearchSoFar, BestSoFar, Meets
  <2> QED BY <1>10, <2>1 DEF q, HandlerOK
<1> QED BY <1>18

-----------------------------------------------------------------------------
(* The calendar                                                            *)

LEMMA CalendarInit == Init => CalendarInv
<1> SUFFICES ASSUME Init PROVE CalendarInv
  OBVIOUS
<1>1. DOMAIN peer_downtimes = {} /\ IsABag(peer_downtimes)
  BY DEF Init, EmptyBag, SetToBag, IsABag
<1>2. IsFiniteSet(DOMAIN peer_downtimes)
  BY <1>1, FS_EmptySet
<1>3. now \in Nat
  BY WindowsAssumption DEF Init
<1>4. WindowsTypeOK
  BY <1>1 DEF Init, WindowsTypeOK, BagToSet, Empty
<1> QED BY <1>2, <1>3, <1>4 DEF CalendarInv

LEMMA WindowsIInvInit == Init => WindowsIInv
BY CalendarInit DEF Init, WindowsIInv, HandlerOK, Empty

\* What acknowledges a request adds a downtime of some length, and takes none away.
LEMMA CalendarAcknowledges ==
  ASSUME WindowsIInv, NEW h \in Handlers, Acknowledge(h)
  PROVE  /\ CalendarInv' /\ Onward /\ agreed' \subseteq PeerDowntime
         /\ \A t \in agreed' : Kept(t)'
<1> DEFINE r == handling[h].request
<1>1. /\ peer_downtimes' = peer_downtimes (+) SetToBag({Downtime(r)})
      /\ agreed' = agreed \cup {Downtime(r)}
      /\ UNCHANGED <<registerVars, network_load, pending_schedules, now, requestVars>>
  BY DEF Acknowledge
<1>2. r \in Requests
  BY DEF WindowsIInv, HandlerOK, Acknowledge, Idle, Plans, Looks, Calls
<1>3. Downtime(r) \in PeerDowntime /\ Downtime(r).start < Downtime(r).end
  BY <1>2, DowntimeTyped
<1>4. DOMAIN peer_downtimes' = DOMAIN peer_downtimes \cup {Downtime(r)}
  BY <1>1 DEF SetToBag, (+)
<1>5. IsABag(peer_downtimes')
  BY <1>1 DEF WindowsIInv, CalendarInv, WindowsTypeOK, IsABag, SetToBag, (+)
<1>6. IsFiniteSet(DOMAIN peer_downtimes')
  BY <1>4, FS_AddElement DEF WindowsIInv, CalendarInv
<1>7. CalendarInv'
  BY <1>1, <1>3, <1>4, <1>5, <1>6
     DEF WindowsIInv, CalendarInv, WindowsTypeOK, BagToSet, registerVars, requestVars
<1>8. Onward
  BY <1>1, <1>4 DEF Onward, BagToSet, WindowsIInv, CalendarInv
<1>9. \A t \in agreed' : Kept(t)'
  <2>1. \A t \in agreed : Kept(t)'
    BY <1>8, KeptOn DEF WindowsIInv, CalendarInv
  <2>2. ASSUME NEW t, t = Downtime(r) PROVE Kept(t)'
    BY <1>4, <2>2 DEF Kept, BagToSet
  <2> QED BY <1>1, <2>1, <2>2
<1> QED BY <1>1, <1>3, <1>7, <1>8, <1>9 DEF WindowsIInv

\* The steps of a call that leave the calendar as it is.
QuietStep(h) ==
  \/ \E a \in Adapters, d \in Durations : Schedule_adapter_update(h, a, d)
  \/ PlanFallback(h) \/ LookAtSlot(h) \/ Reschedule(h) \/ Reject(h) \/ LookForConflict(h)
  \/ \E r \in Requests : Handle_schedule_request(h, r)

LEMMA QuietSteps ==
  ASSUME WindowsIInv, NEW h \in Handlers, QuietStep(h)
  PROVE  HandlerOK(h)'
<1> DEFINE p == handling[h]
<1> USE DEF WindowsIInv
<1>1. \A a \in Adapters : adapter_neighbors[a] \in SUBSET Peers
  BY DEF CalendarInv, WindowsTypeOK
<1>2. UNCHANGED <<peer_downtimes, now, agreed>>
  BY DEF QuietStep, Schedule_adapter_update, PlanFallback, LookAtSlot, Reschedule, Reject,
     LookForConflict, Handle_schedule_request
<1>3. ASSUME NEW a \in Adapters, NEW d \in Durations, Schedule_adapter_update(h, a, d)
      PROVE  HandlerOK(h)'
  <2>1. handling'[h] \in Plans
    BY <1>1, <1>3, WindowsAssumption DEF Schedule_adapter_update, Plans
  <2> QED BY <2>1 DEF HandlerOK
<1>4. ASSUME PlanFallback(h) PROVE HandlerOK(h)'
  <2>1. p \in Plans
    BY <1>4 DEF PlanFallback, HandlerOK, Idle, Calls, Looks
  <2>2. Search(TRUE, p.adapter, p.duration, p.neighbors) \in Looks
        /\ SearchSoFar(Search(TRUE, p.adapter, p.duration, p.neighbors))
    BY <2>1, SearchStarts DEF Plans
  <2>3. handling'[h] = Idle \/ handling'[h] = Search(TRUE, p.adapter, p.duration, p.neighbors)
    BY <1>4 DEF PlanFallback
  <2>4. handling'[h] = Idle \/ (handling'[h] \in Looks /\ SearchSoFar(handling'[h]))
    BY <2>2, <2>3
  <2>5. SearchSoFar(handling'[h]) => SearchSoFar(handling[h])'
    BY <1>2 DEF SearchSoFar, BestSoFar, Meets
  <2> QED BY <2>4, <2>5 DEF HandlerOK
<1>5. ASSUME LookAtSlot(h) PROVE HandlerOK(h)'
  BY <1>5, SearchGoesOn
<1>6. ASSUME Reschedule(h) \/ Reject(h) PROVE HandlerOK(h)'
  <2>1. handling'[h] = Idle
    BY <1>6 DEF Reschedule, Reject
  <2> QED BY <2>1 DEF HandlerOK
<1>7. ASSUME NEW r \in Requests, Handle_schedule_request(h, r) PROVE HandlerOK(h)'
  <2> DEFINE q == Asked(r, adapter_neighbors[r.adapter])
  <2>1. handling'[h] = q
    BY <1>7 DEF Handle_schedule_request
  <2>2. r.adapter \in Adapters
    BY WindowsAssumption DEF UpdateSchedule
  <2>3. q \in Calls /\ q.step = "asked"
    BY <1>1, <2>2 DEF Asked, Calls
  <2>4. \A t \in q.known : t \in agreed /\ t.peer \in q.neighbors
    BY DEF Asked
  <2>5. \A t \in agreed : Kept(t)'
    BY <1>2 DEF Kept
  <2> HIDE DEF q
  <2> QED BY <2>1, <2>3, <2>4, <2>5 DEF HandlerOK
<1>8. ASSUME LookForConflict(h) PROVE HandlerOK(h)'
  <2> DEFINE r == p.request
             w == Window(r.start, r.duration)
             q == Search(FALSE, r.adapter, r.duration, p.neighbors)
  <2>1. p \in Calls /\ p.step = "asked" /\ \A t \in p.known : Kept(t) /\ t.peer \in p.neighbors
    BY <1>8 DEF LookForConflict, HandlerOK, Idle, Plans, Looks
  <2>2. r \in Requests /\ r.adapter \in Adapters /\ r.duration \in Nat \ {0} /\ p.neighbors \in SUBSET Peers
    BY <2>1, WindowsAssumption DEF Calls, UpdateSchedule
  <2>3. CASE Has_conflict(w, p.neighbors)
    <3>1. handling'[h] = q
      BY <1>8, <2>3 DEF LookForConflict
    <3>2. q \in Looks /\ SearchSoFar(q)
      BY <2>2, SearchStarts
    <3>3. SearchSoFar(handling[h])'
      BY <1>2, <3>1, <3>2 DEF SearchSoFar, BestSoFar, Meets
    <3> HIDE DEF q
    <3> QED BY <3>1, <3>2, <3>3 DEF HandlerOK
  <2>4. CASE ~Has_conflict(w, p.neighbors)
    <3>1. handling'[h] = [p EXCEPT !.step = "clear"]
      BY <1>8, <2>4 DEF LookForConflict
    <3>2. /\ handling'[h] \in Calls /\ handling'[h].step = "clear"
          /\ handling'[h].known = p.known /\ handling'[h].request = r
      BY <2>1, <3>1 DEF Calls
    <3>3. \A t \in p.known : t.end <= now \/ ~Overlap(w, t)
      BY <2>1, <2>4 DEF Kept, Has_conflict, Conflicts, Downtimes
    <3>4. IsClear(handling[h])'
      BY <1>2, <3>2, <3>3 DEF IsClear
    <3> QED BY <3>2, <3>4 DEF HandlerOK
  <2> QED BY <2>3, <2>4
<1> QED BY <1>3, <1>4, <1>5, <1>6, <1>7, <1>8 DEF QuietStep

LEMMA QuietCalls ==
  ASSUME WindowsIInv, NEW h \in Handlers, QuietStep(h)
  PROVE  WindowsIInv'
<1>1. /\ handling' = [handling EXCEPT ![h] = handling'[h]]
      /\ UNCHANGED <<registerVars, peer_downtimes, network_load, pending_schedules, agreed, now, requestVars>>
  BY DEF QuietStep, Schedule_adapter_update, PlanFallback, LookAtSlot, Reschedule, Reject,
     LookForConflict, Handle_schedule_request, WindowsIInv
<1>2. HandlerOK(h)'
  BY QuietSteps
<1>3. /\ handling' \in [Handlers -> {handling'[g] : g \in Handlers}]
      /\ \A g \in Handlers : HandlerOK(g)'
  BY <1>1, <1>2, HandlerMoves
<1>4. CalendarInv'
  BY <1>1 DEF WindowsIInv, CalendarInv, WindowsTypeOK, registerVars, requestVars
<1> QED BY <1>1, <1>3, <1>4 DEF WindowsIInv, Kept, requestVars

\* The end of an own update's search sets its window.
LEMMA SchedulesWindow ==
  ASSUME WindowsIInv, NEW h \in Handlers, Add_pending_schedule(h)
  PROVE  WindowsIInv'
<1> DEFINE p == handling[h]
<1>1. p \in Looks
  BY DEF Add_pending_schedule, Found, WindowsIInv, HandlerOK, Idle, Plans, Calls
<1>2. Window(p.best, p.duration) \in [start : Nat, end : Nat] /\ p.adapter \in Adapters
  BY <1>1 DEF Looks, Window
<1>3. /\ pending_schedules' = [pending_schedules EXCEPT ![p.adapter] = Window(p.best, p.duration)]
      /\ handling' = [handling EXCEPT ![h] = Idle]
      /\ UNCHANGED <<registerVars, peer_downtimes, network_load, agreed, now, requestVars>>
  BY DEF Add_pending_schedule
<1>4. HandlerOK(h)'
  BY <1>3 DEF WindowsIInv, HandlerOK
<1>5. /\ handling' \in [Handlers -> {handling'[g] : g \in Handlers}]
      /\ \A g \in Handlers : HandlerOK(g)'
  BY <1>3, <1>4, HandlerMoves
<1> DEFINE v == Window(p.best, p.duration)
<1>6. pending_schedules' \in [Adapters -> {NoWindow} \cup [start : Nat, end : Nat]]
  <2>1. v \in [start : Nat, end : Nat] /\ pending_schedules' = [pending_schedules EXCEPT ![p.adapter] = v]
    BY <1>2, <1>3
  <2> HIDE DEF v, p
  <2> QED BY <2>1 DEF WindowsIInv, CalendarInv, WindowsTypeOK
<1>7. CalendarInv'
  BY <1>3, <1>6 DEF WindowsIInv, CalendarInv, WindowsTypeOK, registerVars, requestVars
<1> QED BY <1>3, <1>5, <1>7 DEF WindowsIInv, Kept, requestVars

\* Steps of which no call takes part.
LEMMA CallsWait ==
  ASSUME WindowsIInv, CalendarInv', Onward, UNCHANGED <<handling, agreed>>,
         DOMAIN sent_requests' \subseteq used'
  PROVE  WindowsIInv'
<1>1. \A h \in Handlers : HandlerOK(h)'
  BY HandlerWaits
<1>2. \A t \in agreed' : Kept(t)'
  BY KeptOn DEF WindowsIInv, CalendarInv
<1> QED BY <1>1, <1>2 DEF WindowsIInv

LEMMA WindowsIInvNext ==
  ASSUME WindowsIInv, [Next]_vars
  PROVE  WindowsIInv'
<1> USE DEF CalendarInv, WindowsTypeOK
<1>1. CalendarInv /\ DOMAIN sent_requests \subseteq used
  BY DEF WindowsIInv
<1>2. ASSUME UNCHANGED <<handling, peer_downtimes, agreed, now>>, CalendarInv',
             DOMAIN sent_requests' \subseteq used'
      PROVE  WindowsIInv'
  BY <1>1, <1>2, CallsWait DEF Onward
<1>3. ASSUME NEW a \in Managed, Register_adapter_version(a) PROVE WindowsIInv'
  <2>1. CalendarInv' /\ DOMAIN sent_requests' \subseteq used'
    BY <1>1, <1>3, WindowsAssumption DEF Register_adapter_version, requestVars
  <2> QED BY <1>2, <1>3, <2>1 DEF Register_adapter_version
<1>4. ASSUME NEW a \in Managed, NEW S \in Neighbourhoods, Register_adapter_neighbors(a, S)
      PROVE  WindowsIInv'
  <2>1. CalendarInv' /\ DOMAIN sent_requests' \subseteq used'
    BY <1>1, <1>4, WindowsAssumption DEF Register_adapter_neighbors, requestVars
  <2> QED BY <1>2, <1>4, <2>1 DEF Register_adapter_neighbors
<1>5. ASSUME NEW F \in Availables, Register_available_adapters(F) PROVE WindowsIInv'
  <2>1. CalendarInv' /\ DOMAIN sent_requests' \subseteq used'
    BY <1>1, <1>5, WindowsAssumption DEF Register_available_adapters, requestVars
  <2> QED BY <1>2, <1>5, <2>1 DEF Register_available_adapters
<1>6. ASSUME NEW hour \in LoadHours, NEW load \in Loads, Update_network_load(hour, load)
      PROVE  WindowsIInv'
  <2>1. CalendarInv' /\ DOMAIN sent_requests' \subseteq used'
    BY <1>1, <1>6, WindowsAssumption DEF Update_network_load, registerVars, requestVars
  <2> QED BY <1>2, <1>6, <2>1 DEF Update_network_load
<1>7. ASSUME NEW a \in Adapters, Remove_pending_schedule(a) PROVE WindowsIInv'
  <2>1. CalendarInv' /\ DOMAIN sent_requests' \subseteq used'
    BY <1>1, <1>7 DEF Remove_pending_schedule, registerVars, requestVars
  <2> QED BY <1>2, <1>7, <2>1 DEF Remove_pending_schedule
<1>8. ASSUME NEW h \in Handlers, QuietStep(h) PROVE WindowsIInv'
  BY <1>8, QuietCalls
<1>9. ASSUME NEW h \in Handlers, Add_pending_schedule(h) PROVE WindowsIInv'
  BY <1>9, SchedulesWindow
<1>10. ASSUME NEW h \in Handlers, Acknowledge(h) PROVE WindowsIInv'
  <2>1. /\ CalendarInv' /\ Onward /\ agreed' \subseteq PeerDowntime
        /\ \A t \in agreed' : Kept(t)'
    BY <1>10, CalendarAcknowledges
  <2>2. /\ handling' = [handling EXCEPT ![h] = Idle]
        /\ UNCHANGED <<sent_requests, used>>
    BY <1>10 DEF Acknowledge, requestVars
  <2>3. handling' \in [Handlers -> {handling'[g] : g \in Handlers}] /\ handling'[h] = Idle
    BY <2>2 DEF WindowsIInv
  <2>4. ASSUME NEW g \in Handlers PROVE HandlerOK(g)'
    <3>1. CASE g = h
      BY <2>3, <3>1 DEF HandlerOK
    <3>2. CASE g # h
      BY <2>1, <2>2, <3>2, HandlerWaits DEF WindowsIInv
    <3> QED BY <3>1, <3>2
  <2> QED BY <1>1, <2>1, <2>2, <2>3, <2>4 DEF WindowsIInv
<1>11. ASSUME NEW id \in RequestIds, NEW S \in Neighbourhoods, Record_sent_request(id, S)
       PROVE  WindowsIInv'
  <2>1. CalendarInv' /\ DOMAIN sent_requests' \subseteq used'
    BY <1>1, <1>11, WindowsAssumption DEF Record_sent_request, registerVars, Put
  <2> QED BY <1>2, <1>11, <2>1 DEF Record_sent_request
<1>12. ASSUME NEW id \in RequestIds, NEW n \in Peers, Record_response(id, n) PROVE WindowsIInv'
  <2>1. CalendarInv' /\ DOMAIN sent_requests' \subseteq used'
    BY <1>1, <1>12 DEF Record_response, registerVars, Put
  <2> QED BY <1>2, <1>12, <2>1 DEF Record_response
<1>13. CASE CleanupRequests
  <2>1. CalendarInv' /\ DOMAIN sent_requests' \subseteq used'
    BY <1>1, <1>13 DEF CleanupRequests, registerVars, Restrict
  <2> QED BY <1>2, <1>13, <2>1 DEF CleanupRequests
<1>14. CASE Cleanup_expired_downtimes
  <2> DEFINE kept == {t \in DOMAIN peer_downtimes : t.end > now}
  <2>1. peer_downtimes' = [t \in kept |-> peer_downtimes[t]]
    BY <1>14 DEF Cleanup_expired_downtimes, Restrict
  <2>2. IsFiniteSet(kept)
    BY <1>1, FS_Subset
  <2>3. IsABag(peer_downtimes')
    BY <1>1, <2>1 DEF IsABag
  <2>4. DOMAIN peer_downtimes' = kept
    BY <2>1
  <2>5. CalendarInv' /\ DOMAIN sent_requests' \subseteq used'
    BY <1>1, <1>14, <2>2, <2>3, <2>4 DEF Cleanup_expired_downtimes, BagToSet, registerVars, requestVars
  <2>6. \A t \in BagToSet(peer_downtimes) : t.end \in Nat
    BY <1>1 DEF PeerDowntime
  <2>7. now' = now /\ UNCHANGED <<handling, agreed>>
    BY <1>14 DEF Cleanup_expired_downtimes
  <2>8. Onward
    BY <1>1, <2>4, <2>6, <2>7 DEF Onward, BagToSet
  <2> QED BY <2>5, <2>7, <2>8, CallsWait
<1>15. CASE Tick
  <2>1. CalendarInv' /\ DOMAIN sent_requests' \subseteq used'
    BY <1>1, <1>15 DEF Tick, registerVars, requestVars
  <2>2. Onward
    BY <1>1, <1>15 DEF Tick, Onward
  <2> QED BY <1>15, <2>1, <2>2, CallsWait DEF Tick
<1>16. CASE UNCHANGED vars
  <2>1. CalendarInv' /\ DOMAIN sent_requests' \subseteq used'
    BY <1>1, <1>16 DEF vars
  <2> QED BY <1>2, <1>16, <2>1 DEF vars
<1> QED BY <1>3, <1>4, <1>5, <1>6, <1>7, <1>8, <1>9, <1>10, <1>11, <1>12, <1>13, <1>14, <1>15, <1>16
        DEF Next, QuietStep

(* The calendar, and what each call has found, are consistent.             *)
LEMMA WindowsInvariant == Spec => []WindowsIInv
BY WindowsIInvInit, WindowsIInvNext, PTL DEF Spec

(* The calendar keeps its types; and whatever downtimes and loads come and *)
(* go while a search takes its locks slot by slot, it ends with a window   *)
(* that overlaps a downtime there all the time only if each slot that met  *)
(* none was worth less (find_optimal_window, evaluate_update_slot).        *)
THEOREM WindowsAlwaysHold == Spec => []WindowsInv
<1>1. WindowsIInv => WindowsInv
  BY FreeSlotFound DEF WindowsIInv, CalendarInv, WindowsInv
<1> QED BY <1>1, WindowsInvariant, PTL

-----------------------------------------------------------------------------
\* Windows that do not overlap share no slot.
LEMMA ApartSlots ==
  ASSUME NEW r \in Requests, NEW t \in PeerDowntime, ~Overlap(Window(r.start, r.duration), t)
  PROVE  (t.start..(t.end - 1)) \cap (r.start..(r.start + r.duration - 1)) = {}
<1>1. r.start \in Nat /\ r.duration \in Nat /\ t.start \in Nat /\ t.end \in Nat
  BY WindowsAssumption DEF UpdateSchedule, PeerDowntime
<1>2. ~(r.start < t.end /\ t.start < r.start + r.duration)
  BY DEF Overlap, Window
<1> QED BY <1>1, <1>2

(* What is acknowledged has no slot in common with any downtime of a       *)
(* neighbour that was agreed on before the request came and is not over,   *)
(* whatever is cleaned up between (handle_schedule_request, has_conflict,  *)
(* cleanup_expired_downtimes).                                             *)
THEOREM AcknowledgedAlwaysApart == Spec => AcknowledgedApart
<1> DEFINE Apart ==
      \A h \in Handlers :
        LET r == handling[h].request
            Slots(t) == t.start..(t.end - 1) IN
        (handling[h].step = "clear" /\ peer_downtimes' # peer_downtimes /\ handling'[h] = Idle) =>
          \A t \in handling[h].known :
            t.end <= now \/ Slots(t) \cap (r.start..(r.start + r.duration - 1)) = {}
<1>1. WindowsIInv => Apart
  <2> SUFFICES ASSUME WindowsIInv, NEW h \in Handlers, handling[h].step = "clear",
                      NEW t \in handling[h].known, ~(t.end <= now)
               PROVE  (t.start..(t.end - 1)) \cap
                        (handling[h].request.start..(handling[h].request.start + handling[h].request.duration - 1)) = {}
    OBVIOUS
  <2>1. handling[h] \in Calls /\ IsClear(handling[h])
    BY DEF WindowsIInv, HandlerOK, Idle, Plans, Looks
  <2>2. /\ handling[h].request \in Requests /\ t \in PeerDowntime
        /\ ~Overlap(Window(handling[h].request.start, handling[h].request.duration), t)
    BY <2>1 DEF Calls, IsClear
  <2> QED BY <2>2, ApartSlots
<1>2. WindowsIInv /\ [Next]_vars => [Apart]_vars
  BY <1>1
<1> QED BY <1>2, WindowsInvariant, PTL DEF Spec, AcknowledgedApart

\* An answer more does not take an agreement back.
LEMMA AgreementStep ==
  ASSUME WindowsIInv, [Next]_vars, NEW id \in RequestIds, All_responded(id), id \in DOMAIN sent_requests'
  PROVE  All_responded(id)'
<1>1. CASE UNCHANGED <<sent_requests, received_responses>>
  BY <1>1 DEF All_responded
<1>2. ASSUME NEW i \in RequestIds, NEW S \in Neighbourhoods, Record_sent_request(i, S) PROVE All_responded(id)'
  <2>1. i # id
    BY <1>2 DEF Record_sent_request, WindowsIInv, All_responded
  <2> QED BY <1>2, <2>1 DEF Record_sent_request, All_responded, Put
<1>3. ASSUME NEW i \in RequestIds, NEW n \in Peers, Record_response(i, n) PROVE All_responded(id)'
  BY <1>3 DEF Record_response, All_responded, Put
<1>4. CASE CleanupRequests
  BY <1>4 DEF CleanupRequests, All_responded, Restrict
<1>5. CASE Cleanup_expired_downtimes \/ \E h \in Handlers : Acknowledge(h) \/ Add_pending_schedule(h) \/ QuietStep(h)
  BY <1>1, <1>5 DEF Cleanup_expired_downtimes, Acknowledge, Add_pending_schedule, QuietStep,
     Schedule_adapter_update, PlanFallback, LookAtSlot, Reschedule, Reject, LookForConflict,
     Handle_schedule_request, requestVars
<1>6. CASE \/ \E a \in Managed : Register_adapter_version(a)
           \/ \E a \in Managed, S \in Neighbourhoods : Register_adapter_neighbors(a, S)
           \/ \E F \in Availables : Register_available_adapters(F)
           \/ \E hour \in LoadHours, load \in Loads : Update_network_load(hour, load)
           \/ \E a \in Adapters : Remove_pending_schedule(a)
           \/ Tick \/ UNCHANGED vars
  BY <1>1, <1>6 DEF Register_adapter_version, Register_adapter_neighbors, Register_available_adapters,
     Update_network_load, Remove_pending_schedule, Tick, vars, registerVars, requestVars
<1> QED BY <1>2, <1>3, <1>4, <1>5, <1>6 DEF Next, QuietStep

(* Once all neighbours have answered a request they have for as long as it *)
(* is remembered, whatever late or repeated answers and cleanups follow    *)
(* (record_response, cleanup).                                             *)
THEOREM AgreementsAlwaysStable == Spec => AgreementStable
<1>1. WindowsIInv /\ [Next]_vars
        => [\A id \in RequestIds :
              All_responded(id) /\ id \in DOMAIN sent_requests' => All_responded(id)']_vars
  BY AgreementStep
<1> QED BY <1>1, WindowsInvariant, PTL DEF Spec, AgreementStable
=============================================================================
