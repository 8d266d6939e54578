---------------------------- MODULE Heartbeat_proofs ----------------------------
(***************************************************************************)
(* Proofs about Heartbeat, for any number of nodes and handlers and any    *)
(* limits.                                                                 *)
(*                                                                         *)
(* Why the limits hold: whatever was let through within the window is at   *)
(* the end of `recent' too, at the same distance from its end, which no    *)
(* popping from the front can change; and the time kept for a node is at   *)
(* most the age of all that was let through of it.                         *)
(***************************************************************************)
EXTENDS Heartbeat, FiniteSetTheorems, NaturalsInduction, WellFoundedInduction, TLAPS

\* The node map and the task that cleans it.
EntryOK(e) ==
  /\ e \in NodeInfo
  /\ e.location => StoreLocation
  /\ \/ e.age = Wrapped
     \/ /\ e.late # Wrapped
        /\ e.late + e.silence >= e.age \/ e.late + e.silence > Timeout

MapOK ==
  /\ DOMAIN node_map \subseteq Nodes
  /\ node_map = [n \in DOMAIN node_map |-> node_map[n]]
  /\ \A n \in DOMAIN node_map : EntryOK(node_map[n])
  /\ IsFiniteSet(DOMAIN node_map)
  /\ NodesBounded

\* The handlers.
Checked == [node : Nodes, age : Ages, location : BOOLEAN]
HandlersOK ==
  \A h \in Handlers :
    \/ handling[h] = Idle
    \/ handling[h] \in [step : {"fresh", "allowed"}, heartbeat : Checked]

\* The limiter: recent has, counted from the end, what admitted has.
Shift == Len(admitted) - Len(recent)
LimiterTypeOK ==
  /\ DOMAIN last_received \subseteq Nodes
  /\ \A n \in DOMAIN last_received : last_received[n] \in Nat
  /\ recent \in Seq(Nat)
  /\ admitted \in Seq([node : Nodes, age : Nat])

Mirrored ==
  \A i \in DOMAIN admitted : admitted[i].age <= RateWindow =>
    i > Shift /\ recent[i - Shift] = admitted[i].age

Timed ==
  \A i \in DOMAIN admitted :
    /\ admitted[i].node \in DOMAIN last_received
    /\ admitted[i].age >= last_received[admitted[i].node]

Spaced ==
  \A i, j \in DOMAIN admitted :
    (i < j /\ admitted[i].node = admitted[j].node) =>
      admitted[i].age - admitted[j].age >= MinInterval

LimiterOK == LimiterTypeOK /\ Len(recent) <= MaxPerWindow /\ Mirrored /\ Timed /\ Spaced

\* The inductive invariant.
HeartbeatIInv ==
  /\ overflow_checks \in BOOLEAN /\ cleanup \in {"running", "dead"}
  /\ handling = [h \in Handlers |-> handling[h]]
  /\ MapOK /\ HandlersOK /\ LimiterOK

-----------------------------------------------------------------------------
(* Popping from the front                                                  *)

LEMMA NatMin ==
  ASSUME NEW S \in SUBSET Nat, S # {}
  PROVE  \E m \in S : \A k \in S : m <= k
<1>1. PICK m \in S : \A k \in S : ~(<<k, m>> \in OpToRel(<, Nat))
  BY NatLessThanWellFounded, WFMin
<1>2. \A k \in S : ~(k < m)
  BY <1>1 DEF OpToRel
<1> QED BY <1>2

\* s without its first k elements.
Shorter(t, s, k) ==
  /\ k \in 0..Len(s)
  /\ Len(t) = Len(s) - k
  /\ \A i \in 1..(Len(s) - k) : t[i] = s[i + k]

LEMMA SuffixIsShorter ==
  ASSUME NEW S, NEW s \in Seq(S), NEW m \in 1..(Len(s) + 1)
  PROVE  SubSeq(s, m, Len(s)) \in Seq(S) /\ Shorter(SubSeq(s, m, Len(s)), s, m - 1)
<1>1. SubSeq(s, m, Len(s)) = [i \in 1..(Len(s) - m + 1) |-> s[i + m - 1]]
  BY DEF SubSeq
<1>2. \A i \in 1..(Len(s) - m + 1) : s[i + m - 1] \in S
  OBVIOUS
<1>3. SubSeq(s, m, Len(s)) \in Seq(S) /\ Len(SubSeq(s, m, Len(s))) = Len(s) - m + 1
  BY <1>1, <1>2
<1>4. \A i \in 1..(Len(s) - (m - 1)) : SubSeq(s, m, Len(s))[i] = s[i + (m - 1)]
  BY <1>1
<1> QED BY <1>3, <1>4 DEF Shorter

\* Nothing that was to be kept is popped.
LEMMA PopUntilShortens ==
  ASSUME NEW S, NEW s \in Seq(S), NEW kept \in SUBSET (1..Len(s))
  PROVE  /\ PopUntil(s, kept) \in Seq(S)
         /\ \E k \in 0..Len(s) : Shorter(PopUntil(s, kept), s, k) /\ \A i \in kept : i > k
<1>1. CASE kept = {}
  <2> DEFINE m == Len(s) + 1
  <2>1. PopUntil(s, kept) = SubSeq(s, m, Len(s))
    BY <1>1 DEF PopUntil
  <2>2. m \in 1..(Len(s) + 1) /\ m - 1 \in 0..Len(s)
    OBVIOUS
  <2> HIDE DEF m
  <2> QED BY <1>1, <2>1, <2>2, SuffixIsShorter
<1>2. CASE kept # {}
  <2> DEFINE m == CHOOSE i \in kept : \A j \in kept : i <= j
  <2>1. m \in kept /\ \A j \in kept : m <= j
    <3>1. \E i \in kept : \A j \in kept : i <= j
      BY <1>2, NatMin
    <3> QED BY <3>1
  <2>2. PopUntil(s, kept) = SubSeq(s, m, Len(s))
    BY <1>2 DEF PopUntil
  <2> HIDE DEF m
  <2>3. m \in 1..(Len(s) + 1) /\ m - 1 \in 0..Len(s) /\ \A i \in kept : i > m - 1
    BY <2>1
  <2> QED BY <2>2, <2>3, SuffixIsShorter
<1> QED BY <1>1, <1>2

-----------------------------------------------------------------------------
(* The limiter                                                             *)

LEMMA Elements ==
  ASSUME NEW S, NEW s \in Seq(S)
  PROVE  Len(s) \in Nat /\ DOMAIN s = 1..Len(s) /\ \A i \in 1..Len(s) : s[i] \in S
  OBVIOUS

LEMMA LimiterFacts ==
  ASSUME LimiterTypeOK
  PROVE  /\ Len(admitted) \in Nat /\ Len(recent) \in Nat /\ Shift \in Int
         /\ DOMAIN admitted = 1..Len(admitted) /\ DOMAIN recent = 1..Len(recent)
         /\ \A i \in 1..Len(admitted) : /\ admitted[i] \in [node : Nodes, age : Nat]
                                       /\ admitted[i].node \in Nodes /\ admitted[i].age \in Nat
         /\ \A i \in 1..Len(recent) : recent[i] \in Nat
<1>1. recent \in Seq(Nat)
  BY DEF LimiterTypeOK
<1>2. Len(recent) \in Nat /\ DOMAIN recent = 1..Len(recent) /\ \A i \in 1..Len(recent) : recent[i] \in Nat
  BY <1>1, Elements
<1>3. admitted \in Seq([node : Nodes, age : Nat])
  BY DEF LimiterTypeOK
<1>4. /\ Len(admitted) \in Nat /\ DOMAIN admitted = 1..Len(admitted)
      /\ \A i \in 1..Len(admitted) : admitted[i] \in [node : Nodes, age : Nat]
  BY <1>3, Elements
<1> QED BY <1>2, <1>4 DEF Shift

\* What is too old for the window may be popped from recent.
LEMMA PopKeeps ==
  ASSUME LimiterOK, NEW k,
         Shorter(recent', recent, k), recent' \in Seq(Nat),
         \A i \in DOMAIN recent : recent[i] <= RateWindow => i > k,
         UNCHANGED <<last_received, admitted>>
  PROVE  LimiterOK'
<1>1. /\ Len(admitted) \in Nat /\ Len(recent) \in Nat /\ k \in Nat
      /\ Len(recent') = Len(recent) - k /\ Shift' = Shift + k /\ Shift \in Int
      /\ DOMAIN admitted = 1..Len(admitted) /\ DOMAIN recent = 1..Len(recent)
  BY DEF LimiterOK, LimiterTypeOK, Shorter, Shift
<1>2. Mirrored'
  <2> SUFFICES ASSUME NEW i \in DOMAIN admitted, admitted[i].age <= RateWindow
               PROVE  i > Shift' /\ recent'[i - Shift'] = admitted[i].age
    BY DEF Mirrored
  <2>1. i > Shift /\ recent[i - Shift] = admitted[i].age
    BY DEF LimiterOK, Mirrored
  <2>2. i - Shift \in DOMAIN recent
    BY <1>1, <2>1 DEF Shift
  <2>3. i - Shift > k
    BY <2>1, <2>2
  <2>4. i - Shift' \in 1..(Len(recent) - k) /\ (i - Shift') + k = i - Shift
    BY <1>1, <2>2, <2>3
  <2>5. recent'[i - Shift'] = recent[i - Shift]
    BY <2>4 DEF Shorter
  <2> QED BY <2>1, <2>4, <2>5, <1>1
<1>3. Len(recent') <= MaxPerWindow
  BY <1>1, HeartbeatAssumption DEF LimiterOK
<1> QED BY <1>2, <1>3 DEF LimiterOK, LimiterTypeOK, Timed, Spaced

\* One more heartbeat is let through, after the limiter has popped k of recent.
LEMMA AdmitKeeps ==
  ASSUME LimiterOK, NEW n \in Nodes, NEW within \in Seq(Nat), NEW k,
         Shorter(within, recent, k),
         \A i \in DOMAIN recent : recent[i] <= RateWindow => i > k,
         Len(within) < MaxPerWindow,
         n \notin DOMAIN last_received \/ last_received[n] >= MinInterval,
         last_received' = Put(last_received, n, 0),
         recent' = Append(within, 0),
         admitted' = Append(admitted, [node |-> n, age |-> 0])
  PROVE  LimiterOK'
<1>1. /\ Len(admitted) \in Nat /\ Len(recent) \in Nat /\ k \in Nat /\ Len(within) \in Nat
      /\ Len(within) = Len(recent) - k /\ Len(recent') = Len(within) + 1
      /\ Len(admitted') = Len(admitted) + 1
      /\ Shift' = Shift + k /\ Shift \in Int
      /\ DOMAIN admitted = 1..Len(admitted) /\ DOMAIN recent = 1..Len(recent)
      /\ DOMAIN admitted' = 1..(Len(admitted) + 1)
  <2>1. k \in Nat /\ Len(within) \in Nat /\ Len(within) = Len(recent) - k
    BY DEF Shorter
  <2>2. recent \in Seq(Nat) /\ admitted \in Seq([node : Nodes, age : Nat])
    BY DEF LimiterOK, LimiterTypeOK
  <2>3. Len(recent') = Len(within) + 1
    OBVIOUS
  <2>4. Len(admitted') = Len(admitted) + 1 /\ DOMAIN admitted' = 1..(Len(admitted) + 1)
    BY <2>2
  <2>5. LimiterTypeOK
    BY DEF LimiterOK
  <2>6. Shift' = Shift + k
    <3>1. Shift' = Len(admitted') - Len(recent') /\ Shift = Len(admitted) - Len(recent)
      BY DEF Shift
    <3> QED BY <2>1, <2>3, <2>4, <2>5, <3>1, LimiterFacts
  <2> QED BY <2>1, <2>3, <2>4, <2>5, <2>6, LimiterFacts
<1>2. /\ \A i \in 1..Len(admitted) : admitted'[i] = admitted[i]
      /\ admitted'[Len(admitted) + 1] = [node |-> n, age |-> 0]
      /\ \A i \in 1..Len(within) : recent'[i] = within[i]
      /\ recent'[Len(within) + 1] = 0
  BY DEF LimiterOK, LimiterTypeOK
<1>3. LimiterTypeOK'
  BY DEF LimiterOK, LimiterTypeOK, Put
<1>4. Len(recent') <= MaxPerWindow
  BY <1>1, HeartbeatAssumption
<1>5. Mirrored'
  <2> SUFFICES ASSUME NEW i \in DOMAIN admitted', admitted'[i].age <= RateWindow
               PROVE  i > Shift' /\ recent'[i - Shift'] = admitted'[i].age
    BY DEF Mirrored
  <2>1. CASE i \in 1..Len(admitted)
    <3>1. i > Shift /\ recent[i - Shift] = admitted[i].age /\ admitted[i].age <= RateWindow
      BY <1>1, <1>2, <2>1 DEF LimiterOK, Mirrored
    <3>2. i - Shift \in DOMAIN recent
      BY <1>1, <2>1, <3>1 DEF Shift
    <3>3. i - Shift > k
      BY <3>1, <3>2
    <3>4. i - Shift' \in 1..(Len(recent) - k) /\ (i - Shift') + k = i - Shift
      BY <1>1, <2>1, <3>2, <3>3
    <3>5. recent'[i - Shift'] = recent[i - Shift]
      BY <1>1, <1>2, <3>4 DEF Shorter
    <3>6. i \in Int /\ i > Shift'
      BY <1>1, <2>1, <3>4
    <3> QED BY <1>2, <2>1, <3>1, <3>5, <3>6
  <2>2. CASE i = Len(admitted) + 1
    <3>1. Shift = Len(admitted) - Len(recent)
      BY DEF Shift
    <3>2. i - Shift' = Len(within) + 1 /\ i > Shift'
      BY <1>1, <2>2, <3>1
    <3> QED BY <1>2, <2>2, <3>2
  <2>3. i \in 1..Len(admitted) \/ i = Len(admitted) + 1
    BY <1>1
  <2> QED BY <2>1, <2>2, <2>3
<1>6. Timed'
  <2> SUFFICES ASSUME NEW i \in DOMAIN admitted'
               PROVE  /\ admitted'[i].node \in DOMAIN last_received'
                      /\ admitted'[i].age >= last_received'[admitted'[i].node]
    BY DEF Timed
  <2>1. CASE i \in 1..Len(admitted)
    <3>1. /\ admitted[i].node \in DOMAIN last_received
          /\ admitted[i].age >= last_received[admitted[i].node]
          /\ admitted[i].age \in Nat
      BY <1>1, <2>1, LimiterFacts DEF LimiterOK, Timed
    <3> QED BY <1>2, <2>1, <3>1 DEF Put
  <2>2. CASE i = Len(admitted) + 1
    BY <1>2, <2>2 DEF Put
  <2> QED BY <1>1, <2>1, <2>2
<1>7. Spaced'
  <2> SUFFICES ASSUME NEW i \in DOMAIN admitted', NEW j \in DOMAIN admitted', i < j,
                      admitted'[i].node = admitted'[j].node
               PROVE  admitted'[i].age - admitted'[j].age >= MinInterval
    BY DEF Spaced
  <2>1. i \in 1..Len(admitted)
    BY <1>1
  <2>2. CASE j \in 1..Len(admitted)
    BY <1>1, <1>2, <2>1, <2>2 DEF LimiterOK, Spaced
  <2>3. CASE j = Len(admitted) + 1
    <3>1. admitted[i].node = n
      BY <1>2, <2>1, <2>3
    <3>2. /\ n \in DOMAIN last_received /\ admitted[i].age >= last_received[n]
          /\ admitted[i].age \in Nat /\ last_received[n] \in Nat
      BY <1>1, <2>1, <3>1, LimiterFacts DEF LimiterOK, LimiterTypeOK, Timed
    <3> QED BY <1>2, <2>1, <2>3, <3>2, HeartbeatAssumption
  <2> QED BY <1>1, <2>2, <2>3
<1> QED BY <1>3, <1>4, <1>5, <1>6, <1>7 DEF LimiterOK

\* The first k of admitted are forgotten and the rest are older.
AdmittedAges(k) ==
  /\ Len(admitted') = Len(admitted) - k
  /\ \A i \in 1..(Len(admitted) - k) :
       admitted'[i].node = admitted[i + k].node /\ admitted'[i].age = admitted[i + k].age + 1

\* Time goes by for all of it alike, as far as the limits look, and what was let
\* through may be forgotten from the oldest on.
LEMMA LimiterAges ==
  ASSUME LimiterOK, NEW k \in 0..Len(admitted),
         admitted' \in Seq([node : Nodes, age : Nat]), AdmittedAges(k),
         DOMAIN last_received' = DOMAIN last_received,
         \A n \in DOMAIN last_received :
           last_received'[n] \in Nat /\ last_received'[n] <= last_received[n] + 1,
         recent' \in Seq(Nat), Len(recent') = Len(recent),
         \A i \in 1..Len(recent) : recent[i] <= RateWindow => recent'[i] = recent[i] + 1
  PROVE  LimiterOK'
<1>1. LimiterTypeOK /\ {MinInterval, RateWindow} \subseteq Nat /\ k \in Nat
  BY LimiterFacts, HeartbeatAssumption DEF LimiterOK
<1>2. LimiterTypeOK'
  BY <1>1 DEF LimiterTypeOK
<1>3. /\ DOMAIN admitted' = 1..(Len(admitted) - k)
      /\ Shift' = Shift - k /\ Shift = Len(admitted) - Len(recent)
  BY <1>1, <1>2, LimiterFacts, Elements DEF Shift, AdmittedAges
<1>4. ASSUME NEW i \in DOMAIN admitted'
      PROVE  \E o \in DOMAIN admitted :
               /\ o = i + k /\ i \in Nat /\ o \in Nat /\ admitted[o].age \in Nat
               /\ admitted'[i].node = admitted[o].node /\ admitted'[i].age = admitted[o].age + 1
  <2>1. i \in 1..(Len(admitted) - k)
    BY <1>3
  <2>2. admitted'[i].node = admitted[i + k].node /\ admitted'[i].age = admitted[i + k].age + 1
    BY <2>1 DEF AdmittedAges
  <2>3. i \in Nat /\ i + k \in 1..Len(admitted)
    BY <1>1, <2>1, LimiterFacts
  <2> DEFINE o == i + k
  <2>4. o = i + k /\ o \in 1..Len(admitted)
    BY <2>3
  <2>5. admitted'[i].node = admitted[o].node /\ admitted'[i].age = admitted[o].age + 1
    BY <2>2
  <2> HIDE DEF o
  <2>6. o \in DOMAIN admitted /\ o \in Nat /\ admitted[o].age \in Nat
    BY <1>1, <2>4, LimiterFacts
  <2> QED BY <2>3, <2>4, <2>5, <2>6
<1>5. Mirrored'
  <2> SUFFICES ASSUME NEW i \in DOMAIN admitted', admitted'[i].age <= RateWindow
               PROVE  i > Shift' /\ recent'[i - Shift'] = admitted'[i].age
    BY DEF Mirrored
  <2>1. PICK o \in DOMAIN admitted :
          /\ o = i + k /\ i \in Nat /\ o \in Nat /\ admitted[o].age \in Nat
          /\ admitted'[i].age = admitted[o].age + 1
    BY <1>4
  <2>2. admitted[o].age <= RateWindow
    BY <1>1, <2>1
  <2>3. o > Shift /\ recent[o - Shift] = admitted[o].age
    BY <2>2 DEF LimiterOK, Mirrored
  <2>0. /\ Shift \in Int /\ k \in Int /\ Len(admitted) \in Nat /\ Len(recent) \in Nat
        /\ o \in 1..Len(admitted)
    BY <1>1, LimiterFacts
  <2>4. o - Shift = i - Shift' /\ i > Shift'
    <3>1. Shift' = Shift - k
      BY <1>3
    <3> QED BY <2>0, <2>1, <2>3, <3>1
  <2> DEFINE d == o - Shift
  <2>5. d \in 1..Len(recent)
    <3>1. Shift = Len(admitted) - Len(recent)
      BY <1>3
    <3> QED BY <2>0, <2>3, <3>1
  <2>6. recent[d] = admitted[o].age /\ d = i - Shift'
    BY <2>3, <2>4
  <2> HIDE DEF d
  <2>7. recent'[d] = recent[d] + 1
    BY <2>2, <2>5, <2>6
  <2> QED BY <2>1, <2>4, <2>6, <2>7
<1>6. Timed'
  <2> SUFFICES ASSUME NEW i \in DOMAIN admitted'
               PROVE  /\ admitted'[i].node \in DOMAIN last_received'
                      /\ admitted'[i].age >= last_received'[admitted'[i].node]
    BY DEF Timed
  <2>1. PICK o \in DOMAIN admitted :
          /\ admitted[o].age \in Nat
          /\ admitted'[i].node = admitted[o].node /\ admitted'[i].age = admitted[o].age + 1
    BY <1>4
  <2> DEFINE n == admitted[o].node
  <2>2. n \in DOMAIN last_received /\ admitted[o].age >= last_received[n]
    BY DEF LimiterOK, Timed
  <2>3. last_received[n] \in Nat /\ last_received'[n] \in Nat /\ last_received'[n] <= last_received[n] + 1
    BY <1>1, <2>2 DEF LimiterTypeOK
  <2>4. admitted[o].age + 1 >= last_received'[n]
    BY <2>1, <2>2, <2>3
  <2> QED BY <2>1, <2>2, <2>4
<1>7. Spaced'
  <2> SUFFICES ASSUME NEW i \in DOMAIN admitted', NEW j \in DOMAIN admitted', i < j,
                      admitted'[i].node = admitted'[j].node
               PROVE  admitted'[i].age - admitted'[j].age >= MinInterval
    BY DEF Spaced
  <2>1. PICK o \in DOMAIN admitted :
          /\ o = i + k /\ i \in Nat /\ admitted[o].age \in Nat
          /\ admitted'[i].node = admitted[o].node /\ admitted'[i].age = admitted[o].age + 1
    BY <1>4
  <2>2. PICK u \in DOMAIN admitted :
          /\ u = j + k /\ j \in Nat /\ admitted[u].age \in Nat
          /\ admitted'[j].node = admitted[u].node /\ admitted'[j].age = admitted[u].age + 1
    BY <1>4
  <2>3. o < u
    BY <1>1, <2>1, <2>2
  <2>4. admitted[o].age - admitted[u].age >= MinInterval
    BY <2>1, <2>2, <2>3 DEF LimiterOK, Spaced
  <2>5. MinInterval \in Nat
    BY <1>1
  <2>6. admitted'[i].age - admitted'[j].age = admitted[o].age - admitted[u].age
    <3> DEFINE x == admitted'[i].age
               y == admitted'[j].age
               a == admitted[o].age
               b == admitted[u].age
    <3>1. x = a + 1 /\ y = b + 1 /\ a \in Nat /\ b \in Nat
      BY <2>1, <2>2
    <3> HIDE DEF x, y, a, b
    <3>2. x - y = a - b
      BY <3>1
    <3> QED BY <3>2 DEF x, y, a, b
  <2> QED BY <2>4, <2>6
<1> QED BY <1>2, <1>5, <1>6, <1>7 DEF LimiterOK

LEMMA AllowKeepsLimiter ==
  ASSUME LimiterOK, HandlersOK, NEW h \in Handlers, Allow(h)
  PROVE  LimiterOK'
<1> DEFINE n == handling[h].heartbeat.node
           kept == {i \in DOMAIN recent : recent[i] <= RateWindow}
           within == PopUntil(recent, kept)
           tooSoon == n \in DOMAIN last_received /\ last_received[n] < MinInterval
           allowed == ~tooSoon /\ Len(within) < MaxPerWindow
<1>1. LimiterTypeOK /\ n \in Nodes
  BY DEF LimiterOK, HandlersOK, Allow, Idle, Checked
<1>2. recent \in Seq(Nat) /\ kept \in SUBSET (1..Len(recent))
  BY <1>1, LimiterFacts DEF LimiterTypeOK
<1>3. within \in Seq(Nat)
  <2> HIDE DEF kept
  <2> QED BY <1>2, PopUntilShortens
<1>4. PICK k \in 0..Len(recent) : Shorter(within, recent, k) /\ \A i \in kept : i > k
  <2> HIDE DEF kept
  <2> QED BY <1>2, PopUntilShortens
<1>5. \A i \in DOMAIN recent : recent[i] <= RateWindow => i > k
  BY <1>4
<1> HIDE DEF kept
<1>6. CASE tooSoon
  <2>1. UNCHANGED <<last_received, recent, admitted>>
    BY <1>6 DEF Allow, kept
  <2> QED BY <2>1 DEF LimiterOK, LimiterTypeOK, Mirrored, Timed, Spaced, Shift
<1>7. CASE ~tooSoon /\ ~allowed
  <2>1. recent' = within /\ UNCHANGED <<last_received, admitted>>
    BY <1>7 DEF Allow, kept
  <2> QED BY <1>3, <1>4, <1>5, <2>1, PopKeeps
<1>8. CASE allowed
  <2>1. /\ last_received' = Put(last_received, n, 0) /\ recent' = Append(within, 0)
        /\ admitted' = Append(admitted, [node |-> n, age |-> 0])
    BY <1>8 DEF Allow, kept
  <2>2. n \notin DOMAIN last_received \/ last_received[n] >= MinInterval
    BY <1>1, <1>8, HeartbeatAssumption DEF LimiterTypeOK
  <2>3. Len(within) < MaxPerWindow
    BY <1>8
  <2> HIDE DEF n, within
  <2> QED BY <1>1, <1>3, <1>4, <1>5, <2>1, <2>2, <2>3, AdmitKeeps
<1> QED BY <1>6, <1>7, <1>8

LEMMA TickKeepsLimiter == ASSUME LimiterOK, Tick PROVE LimiterOK'
<1> DEFINE older == [i \in DOMAIN admitted |-> [admitted[i] EXCEPT !.age = @ + 1]]
           kept == {i \in DOMAIN older : older[i].age <= RateWindow \/ older[i].age < MinInterval}
<1>1. LimiterTypeOK /\ {MinInterval, RateWindow} \subseteq Nat
  BY HeartbeatAssumption DEF LimiterOK
<1>2. \A i \in 1..Len(admitted) :
        /\ older[i] \in [node : Nodes, age : Nat]
        /\ older[i].node = admitted[i].node /\ older[i].age = admitted[i].age + 1
  BY <1>1, LimiterFacts
<1>3. older \in Seq([node : Nodes, age : Nat]) /\ Len(older) = Len(admitted)
  BY <1>1, <1>2, LimiterFacts
<1>4. kept \in SUBSET (1..Len(older))
  BY <1>3
<1>5. admitted' = PopUntil(older, kept)
  BY DEF Tick, Remembered
<1> HIDE DEF older, kept
<1>6. PICK k \in 0..Len(older) : Shorter(admitted', older, k)
  BY <1>3, <1>4, <1>5, PopUntilShortens
<1>7. admitted' \in Seq([node : Nodes, age : Nat])
  BY <1>3, <1>4, <1>5, PopUntilShortens
<1>8. AdmittedAges(k)
  <2>1. \A i \in 1..(Len(admitted) - k) : i + k \in 1..Len(admitted) /\ admitted'[i] = older[i + k]
    BY <1>1, <1>3, <1>6, LimiterFacts DEF Shorter
  <2> QED BY <1>2, <1>3, <1>6, <2>1 DEF Shorter, AdmittedAges
<1>9. /\ DOMAIN last_received' = DOMAIN last_received
      /\ \A n \in DOMAIN last_received :
           last_received'[n] \in Nat /\ last_received'[n] <= last_received[n] + 1
  <2>1. last_received' = [n \in DOMAIN last_received |->
          IF last_received[n] < MinInterval THEN last_received[n] + 1 ELSE last_received[n]]
    BY DEF Tick
  <2>2. \A n \in DOMAIN last_received : last_received[n] \in Nat
    BY <1>1 DEF LimiterTypeOK
  <2> QED BY <2>1, <2>2
<1>10. recent' = [i \in 1..Len(recent) |-> IF recent[i] <= RateWindow THEN recent[i] + 1 ELSE recent[i]]
  BY <1>1, LimiterFacts DEF Tick
<1>11. recent' \in Seq(Nat) /\ Len(recent') = Len(recent)
  BY <1>1, <1>10, LimiterFacts
<1>12. \A i \in 1..Len(recent) : recent[i] <= RateWindow => recent'[i] = recent[i] + 1
  BY <1>10
<1>13. k \in 0..Len(admitted)
  BY <1>3, <1>6
<1> HIDE DEF older
<1> QED BY <1>7, <1>8, <1>9, <1>11, <1>12, <1>13, LimiterAges

LEMMA LimiterKept ==
  ASSUME LimiterOK, UNCHANGED <<last_received, recent, admitted>> PROVE LimiterOK'
  BY DEF LimiterOK, LimiterTypeOK, Mirrored, Timed, Spaced, Shift

-----------------------------------------------------------------------------
(* The handlers                                                            *)

LEMMA Limits ==
  /\ {Ahead, Freshness, Timeout, MinInterval, RateWindow, MaxPerWindow, MaxNodes} \subseteq Nat
  /\ Oldest \in Nat /\ Oldest = Timeout + Freshness + 1
  /\ Wrapped \in Int /\ Wrapped < -Freshness /\ Wrapped < -Ahead /\ Wrapped < 0
  /\ Ages \in SUBSET Int
  /\ StoreLocation \in BOOLEAN
  BY HeartbeatAssumption DEF Oldest, Wrapped, Ages

LEMMA OlderType ==
  ASSUME NEW age \in Ages
  PROVE  /\ Older(age) \in Ages /\ Older(age) >= age
         /\ Older(age) = age + 1 \/ (age \in {Oldest, Wrapped} /\ Older(age) = age)
  BY Limits DEF Older, Ages

LEMMA HandlersKept == ASSUME HandlersOK, UNCHANGED handling PROVE HandlersOK'
  BY DEF HandlersOK

\* A step of one handler.
LEMMA HandlersStep ==
  ASSUME HandlersOK, NEW h \in Handlers, handling = [g \in Handlers |-> handling[g]],
         NEW s, handling' = [handling EXCEPT ![h] = s],
         s = Idle \/ s \in [step : {"fresh", "allowed"}, heartbeat : Checked]
  PROVE  HandlersOK' /\ handling' = [g \in Handlers |-> handling'[g]]
  BY DEF HandlersOK

LEMMA HandlersTick ==
  ASSUME HandlersOK, Tick
  PROVE  HandlersOK' /\ handling' = [h \in Handlers |-> handling'[h]]
<1>1. handling' = [h \in Handlers |->
        IF handling[h] = Idle THEN Idle ELSE [handling[h] EXCEPT !.heartbeat.age = Older(@)]]
  BY DEF Tick
<1>2. ASSUME NEW h \in Handlers, handling[h] # Idle
      PROVE  [handling[h] EXCEPT !.heartbeat.age = Older(@)]
               \in [step : {"fresh", "allowed"}, heartbeat : Checked]
  BY <1>2, OlderType DEF HandlersOK, Checked
<1> QED BY <1>1, <1>2 DEF HandlersOK

LEMMA ReceiveHandlers ==
  ASSUME HandlersOK, handling = [g \in Handlers |-> handling[g]],
         NEW h \in Handlers, NEW hb \in Heartbeats, Receive(h, hb)
  PROVE  HandlersOK' /\ handling' = [g \in Handlers |-> handling'[g]]
<1>1. hb \in Checked
  BY Limits DEF Heartbeats, Checked, Receive, Abs, Ages
<1> QED BY <1>1, HandlersStep DEF Receive

LEMMA AllowHandlers ==
  ASSUME HandlersOK, handling = [g \in Handlers |-> handling[g]], NEW h \in Handlers, Allow(h)
  PROVE  HandlersOK' /\ handling' = [g \in Handlers |-> handling'[g]]
<1>1. handling[h] \in [step : {"fresh", "allowed"}, heartbeat : Checked]
  BY DEF HandlersOK, Allow, Idle
<1>2. \/ handling' = [handling EXCEPT ![h] = Idle]
      \/ handling' = [handling EXCEPT ![h] = [step |-> "allowed", heartbeat |-> handling[h].heartbeat]]
  BY DEF Allow
<1> QED BY <1>1, <1>2, HandlersStep

-----------------------------------------------------------------------------
(* The node map                                                            *)

LEMMA MapKept == ASSUME MapOK, UNCHANGED node_map PROVE MapOK'
  BY DEF MapOK, NodesBounded

LEMMA MapShrinks ==
  ASSUME MapOK, NEW S \in SUBSET DOMAIN node_map, node_map' = Restrict(node_map, S)
  PROVE  MapOK'
<1>1. node_map' = [n \in S |-> node_map[n]]
  BY DEF Restrict
<1>2. IsFiniteSet(S) /\ Cardinality(S) <= Cardinality(DOMAIN node_map)
  BY FS_Subset DEF MapOK
<1>3. Cardinality(S) <= MaxNodes
  BY <1>2, Limits, FS_CardinalityType DEF MapOK, NodesBounded
<1> QED BY <1>1, <1>2, <1>3 DEF MapOK, NodesBounded

LEMMA EntryType ==
  ASSUME NEW hb \in Checked PROVE EntryOK(Entry(hb))
<1>1. (hb.location /\ StoreLocation) \in BOOLEAN
  BY SMT
<1>2. 0 \in 0..Oldest
  BY Limits
<1>3. hb.age \in Ages /\ hb.age \in Int
  BY Limits DEF Checked
<1> DEFINE e == Entry(hb)
<1>4. e \in NodeInfo
  BY <1>1, <1>2, <1>3 DEF Entry, NodeInfo
<1>5. e.age = hb.age /\ e.late = hb.age /\ e.silence = 0 /\ (e.location => StoreLocation)
  BY DEF Entry
<1> HIDE DEF e
<1>6. EntryOK(e)
  BY <1>3, <1>4, <1>5 DEF EntryOK
<1> QED BY <1>6 DEF e

LEMMA UpdateMapOK ==
  ASSUME MapOK, HandlersOK, handling = [g \in Handlers |-> handling[g]],
         NEW h \in Handlers, UpdateMap(h)
  PROVE  MapOK' /\ HandlersOK' /\ handling' = [g \in Handlers |-> handling'[g]]
<1> DEFINE hb == handling[h].heartbeat
           n == hb.node
<1>1. hb \in Checked /\ n \in Nodes
  BY DEF HandlersOK, UpdateMap, Idle, Checked
<1>2. HandlersOK' /\ handling' = [g \in Handlers |-> handling'[g]]
  BY HandlersStep DEF UpdateMap
<1>3. CASE node_map' = node_map
  BY <1>2, <1>3, MapKept
<1>4. CASE node_map' # node_map
  <2>1. node_map' = Put(node_map, n, Entry(hb))
    BY <1>4 DEF UpdateMap
  <2>2. n \in DOMAIN node_map \/ ~(Cardinality(DOMAIN node_map) >= MaxNodes)
    BY <1>4 DEF UpdateMap
  <2>3. EntryOK(Entry(hb))
    BY <1>1, EntryType
  <2> HIDE DEF n, hb
  <2>4. DOMAIN node_map' = DOMAIN node_map \cup {n}
    BY <2>1 DEF Put
  <2>5. IsFiniteSet(DOMAIN node_map') /\ Cardinality(DOMAIN node_map') <= MaxNodes
    <3>1. IsFiniteSet(DOMAIN node_map) /\ Cardinality(DOMAIN node_map) \in Nat
      BY FS_CardinalityType DEF MapOK
    <3>2. CASE n \in DOMAIN node_map
      <4>1. DOMAIN node_map' = DOMAIN node_map
        BY <2>4, <3>2
      <4> QED BY <3>1, <4>1 DEF MapOK, NodesBounded
    <3>3. CASE n \notin DOMAIN node_map
      <4>1. /\ IsFiniteSet(DOMAIN node_map')
            /\ Cardinality(DOMAIN node_map') = Cardinality(DOMAIN node_map) + 1
        BY <2>4, <3>1, <3>3, FS_AddElement
      <4> QED BY <2>2, <3>1, <3>3, <4>1, Limits
    <3> QED BY <3>2, <3>3
  <2>6. \A x \in DOMAIN node_map' : EntryOK(node_map'[x])
    BY <2>1, <2>3 DEF MapOK, Put
  <2>7. DOMAIN node_map' \subseteq Nodes /\ node_map' = [x \in DOMAIN node_map' |-> node_map'[x]]
    BY <1>1, <2>1 DEF MapOK, Put
  <2> QED BY <1>2, <2>5, <2>6, <2>7 DEF MapOK, NodesBounded
<1> QED BY <1>3, <1>4

LEMMA MapTick == ASSUME MapOK, Tick PROVE MapOK'
<1>1. node_map' = [n \in DOMAIN node_map |->
        [node_map[n] EXCEPT !.age = Older(@), !.silence = Older(@)]]
  BY DEF Tick
<1>2. ASSUME NEW n \in DOMAIN node_map PROVE EntryOK(node_map'[n])
  <2> DEFINE e == node_map[n]
  <2>1. e \in NodeInfo /\ EntryOK(e)
    BY DEF MapOK, EntryOK
  <2>2. node_map'[n] = [age |-> Older(e.age), late |-> e.late, silence |-> Older(e.silence),
                        location |-> e.location]
    BY <1>1, <2>1 DEF NodeInfo
  <2> HIDE DEF e
  <2>3. /\ e.age \in Ages /\ e.late \in Ages
        /\ e.silence \in 0..Oldest /\ e.silence \in Ages
    BY <2>1, Limits DEF NodeInfo, Ages
  <2>4. Older(e.silence) \in 0..Oldest
    BY <2>3, Limits DEF Older
  <2>5. \/ Older(e.age) = Wrapped
        \/ e.late # Wrapped /\ (e.late + Older(e.silence) >= Older(e.age) \/ e.late + Older(e.silence) > Timeout)
    <3>1. CASE e.age = Wrapped
      BY <3>1 DEF Older
    <3>2. CASE e.age # Wrapped
      <4>1. /\ e.late # Wrapped /\ e.late \in (-Freshness)..Oldest /\ e.age \in Int
            /\ e.late + e.silence >= e.age \/ e.late + e.silence > Timeout
        BY <2>1, <2>3, <3>2, Limits DEF EntryOK, Ages
      <4>2. Older(e.silence) = e.silence + 1 \/ (e.silence = Oldest /\ Older(e.silence) = Oldest)
        BY <2>3, Limits DEF Older
      <4>3. Older(e.age) = e.age + 1 \/ Older(e.age) = e.age
        BY DEF Older
      <4> QED BY <2>3, <4>1, <4>2, <4>3, Limits
    <3> QED BY <3>1, <3>2
  <2> QED BY <2>1, <2>2, <2>3, <2>4, <2>5, OlderType DEF EntryOK, NodeInfo
<1> QED BY <1>1, <1>2 DEF MapOK, NodesBounded

-----------------------------------------------------------------------------
(* The invariant                                                           *)

LEMMA HeartbeatInit == Init => HeartbeatIInv
<1> SUFFICES ASSUME Init PROVE HeartbeatIInv
  OBVIOUS
<1>1. MapOK
  BY FS_EmptySet, Limits DEF Init, MapOK, NodesBounded
<1>2. LimiterOK
  BY Limits DEF Init, LimiterOK, LimiterTypeOK, Mirrored, Timed, Spaced
<1> QED BY <1>1, <1>2 DEF Init, HeartbeatIInv, HandlersOK

LEMMA HeartbeatStep == HeartbeatIInv /\ [Next]_vars => HeartbeatIInv'
<1> SUFFICES ASSUME HeartbeatIInv, [Next]_vars PROVE HeartbeatIInv'
  OBVIOUS
<1> USE DEF HeartbeatIInv
<1>1. CASE UNCHANGED vars
  BY <1>1, MapKept, HandlersKept, LimiterKept DEF vars
<1>2. ASSUME NEW h \in Handlers, NEW hb \in Heartbeats, Receive(h, hb) PROVE HeartbeatIInv'
  BY <1>2, ReceiveHandlers, MapKept, LimiterKept DEF Receive
<1>3. ASSUME NEW h \in Handlers, Allow(h) PROVE HeartbeatIInv'
  <2>1. UNCHANGED <<overflow_checks, node_map, cleanup>>
    BY <1>3 DEF Allow
  <2> QED BY <1>3, <2>1, AllowHandlers, AllowKeepsLimiter, MapKept
<1>4. ASSUME NEW h \in Handlers, UpdateMap(h) PROVE HeartbeatIInv'
  <2>1. UNCHANGED <<overflow_checks, last_received, recent, cleanup, admitted>>
    BY <1>4 DEF UpdateMap
  <2> QED BY <1>4, <2>1, UpdateMapOK, LimiterKept
<1>5. CASE CleanupTick
  BY <1>5, MapShrinks, HandlersKept, LimiterKept DEF CleanupTick
<1>6. CASE CleanupPanics
  <2>1. PICK S \in SUBSET (Stale \ AheadOfUs) : node_map' = Restrict(node_map, DOMAIN node_map \ S)
    BY <1>6 DEF CleanupPanics
  <2> QED BY <1>6, <2>1, MapShrinks, HandlersKept, LimiterKept DEF CleanupPanics
<1>7. CASE Tick
  <2>1. UNCHANGED <<overflow_checks, cleanup>>
    BY <1>7 DEF Tick
  <2> QED BY <1>7, <2>1, MapTick, HandlersTick, TickKeepsLimiter
<1> QED BY <1>1, <1>2, <1>3, <1>4, <1>5, <1>6, <1>7 DEF Next, Handle_heartbeat

LEMMA HeartbeatInvariant == Spec => []HeartbeatIInv
<1>1. Init => HeartbeatIInv
  BY HeartbeatInit
<1>2. HeartbeatIInv /\ [Next]_vars => HeartbeatIInv'
  BY HeartbeatStep
<1> QED BY <1>1, <1>2, PTL DEF Spec

-----------------------------------------------------------------------------
(* What follows                                                            *)

\* At most as much was let through in the window as recent has room for.
LEMMA RateLimited ==
  ASSUME LimiterOK
  PROVE  Cardinality({i \in DOMAIN admitted : admitted[i].age <= RateWindow}) <= MaxPerWindow
<1> DEFINE inWindow == {i \in DOMAIN admitted : admitted[i].age <= RateWindow}
           last == (Shift + 1)..Len(admitted)
<1>1. LimiterTypeOK
  BY DEF LimiterOK
<1>2. /\ Len(admitted) \in Nat /\ Len(recent) \in Nat /\ Shift \in Int
      /\ DOMAIN admitted = 1..Len(admitted) /\ Shift = Len(admitted) - Len(recent)
  BY <1>1, LimiterFacts DEF Shift
<1>3. inWindow \subseteq last
  BY <1>2 DEF LimiterOK, Mirrored
<1>4. /\ IsFiniteSet(last)
      /\ Cardinality(last) = IF Shift + 1 > Len(admitted) THEN 0 ELSE Len(admitted) - (Shift + 1) + 1
  <2> DEFINE from == Shift + 1
  <2>1. from \in Int /\ Len(admitted) \in Int
    BY <1>2
  <2> HIDE DEF from
  <2>2. /\ IsFiniteSet(from..Len(admitted))
        /\ Cardinality(from..Len(admitted)) = IF from > Len(admitted) THEN 0 ELSE Len(admitted) - from + 1
    BY <2>1, FS_Interval
  <2> QED BY <2>2 DEF from
<1>5. Cardinality(last) = Len(recent)
  BY <1>2, <1>4
<1>6. Cardinality(inWindow) <= Cardinality(last) /\ Cardinality(inWindow) \in Nat
  BY <1>3, <1>4, FS_Subset, FS_CardinalityType
<1> QED BY <1>2, <1>5, <1>6, Limits DEF LimiterOK

\* Whatever the handlers do at once, the map never has more than max_nodes
\* entries, two heartbeats of a node that are let through are an interval apart,
\* and no more than the limit are let through within a second
\* (handle_heartbeat, HeartbeatRateLimiter::allow).
THEOREM HeartbeatInvHolds == Spec => []HeartbeatInv
<1>1. HeartbeatIInv => HeartbeatInv
  <2> SUFFICES ASSUME HeartbeatIInv PROVE HeartbeatInv
    OBVIOUS
  <2>1. HeartbeatTypeOK
    BY DEF HeartbeatIInv, HeartbeatTypeOK, MapOK, EntryOK, HandlersOK, Checked,
           LimiterOK, LimiterTypeOK
  <2>2. AdmissionLimits
    BY RateLimited DEF HeartbeatIInv, LimiterOK, Spaced, AdmissionLimits
  <2> QED BY <2>1, <2>2 DEF HeartbeatIInv, MapOK, HeartbeatInv
<1> QED BY <1>1, HeartbeatInvariant, PTL

\* A node leaves the map only after it was silent for the timeout, less what its
\* last heartbeat was late, or if its clock is ahead (is_stale, cleanup task).
THEOREM KeptWhileHeardHolds == Spec => KeptWhileHeard
<1>1. ASSUME HeartbeatIInv, [Next]_vars, NEW n \in DOMAIN node_map \ DOMAIN node_map'
      PROVE  node_map[n].age < 0 \/ node_map[n].silence > Timeout - node_map[n].late
  <2>1. EntryOK(node_map[n])
    BY <1>1 DEF HeartbeatIInv, MapOK
  <2>2. DOMAIN node_map # DOMAIN node_map'
    OBVIOUS
  <2>3. CleanupTick \/ CleanupPanics
    <3>1. ~(UNCHANGED node_map)
      BY <2>2
    <3>2. ASSUME NEW h \in Handlers, UpdateMap(h) PROVE DOMAIN node_map \subseteq DOMAIN node_map'
      BY <3>2 DEF UpdateMap, Put
    <3>3. Tick => DOMAIN node_map' = DOMAIN node_map
      BY DEF Tick
    <3> QED BY <1>1, <3>1, <3>2, <3>3 DEF Next, Handle_heartbeat, Receive, Allow, vars
  <2>4. n \in Stale
    BY <1>1, <2>3 DEF CleanupTick, CleanupPanics, Restrict
  <2>5. node_map[n].age < 0 \/ node_map[n].age > Timeout
    BY <2>4 DEF Stale, Is_stale
  <2>6. /\ node_map[n].age \in Int /\ node_map[n].late \in Int /\ node_map[n].silence \in Int
        /\ Timeout \in Int
    <3>1. node_map[n] \in NodeInfo
      BY <2>1 DEF EntryOK
    <3>2. node_map[n].age \in Ages /\ node_map[n].late \in Ages /\ node_map[n].silence \in 0..Oldest
      BY <3>1 DEF NodeInfo
    <3>3. \A x \in 0..Oldest : x \in Int
      OBVIOUS
    <3>4. \A x \in Ages : x \in Int
      BY Limits
    <3>5. Timeout \in Int
      BY Limits
    <3> QED BY <3>2, <3>3, <3>4, <3>5
  <2> QED BY <2>1, <2>5, <2>6, Limits DEF EntryOK
<1>2. HeartbeatIInv /\ [Next]_vars =>
        [\A n \in DOMAIN node_map \ DOMAIN node_map' :
           \/ node_map[n].age < 0
           \/ node_map[n].silence > Timeout - node_map[n].late]_vars
  BY <1>1
<1> QED BY <1>2, HeartbeatInvariant, PTL DEF KeptWhileHeard, Spec

================================================================================
