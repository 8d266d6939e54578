------------------------- MODULE UpdatePackages_proofs -------------------------
(***************************************************************************)
(* Proofs about UpdatePackages, for any number of packages, peers, callers *)
(* and installers and any limits.                                          *)
(*                                                                         *)
(* The strengthening is about the calls: a caller past the check holds a   *)
(* package that passed it, so that whatever it adds, late or over another  *)
(* package of the same key, has passed; and what a pending entry shows of  *)
(* peers and waiting is never more than the tenure of its own package.     *)
(***************************************************************************)
EXTENDS UpdatePackages, FiniteSetTheorems, TLAPS

\* What a pending entry shows has been earned by the package it is for.
EntryOK(k) ==
  /\ Verify_package(pending[k].package)
  /\ tenure[k].package = pending[k].package
  /\ pending[k].verified_by \subseteq tenure[k].peers
  /\ tenure[k].at <= pending[k].received_at
  /\ pending[k].received_at <= now

CallerOK(c) ==
  \/ receiving[c] = Idle
  \/ \E s \in {"needed", "added"}, p \in Packages : receiving[c] = At(s, p) /\ Verify_package(p)

InstallerOK(i) ==
  \/ installing[i] = Idle
  \/ \E s \in {"ready", "marked"}, p \in Packages : installing[i] = At(s, p)

\* The pending packages, and the tenures kept of them.
PendingOK ==
  /\ DOMAIN pending \subseteq Keys
  /\ \A k \in DOMAIN pending : pending[k] \in PendingUpdate /\ Key(pending[k].package) = k
  /\ IsFiniteSet(DOMAIN pending)
  /\ PendingBounded
  /\ now \in Nat
  /\ tenure \in [DOMAIN pending -> [package : Packages, at : Nat, peers : SUBSET Peers]]
  /\ \A k \in DOMAIN pending : EntryOK(k)

\* What was recorded of adapters.
RecordsOK ==
  /\ verifier \in BOOLEAN
  /\ adapter_versions \in [Adapters -> Nat]
  /\ installed \in [Adapters -> Packages \cup {NoPackage}]
  /\ InstalledPassed

\* The calls that are running.
CallsOK ==
  /\ DOMAIN receiving = Callers /\ receiving = [c \in Callers |-> receiving[c]]
  /\ DOMAIN installing = Installers /\ installing = [i \in Installers |-> installing[i]]
  /\ \A c \in Callers : CallerOK(c)
  /\ \A i \in Installers : InstallerOK(i)

\* The inductive invariant.
PackagesIInv == PendingOK /\ RecordsOK /\ CallsOK

-----------------------------------------------------------------------------
(* The parts of the invariant, where an action leaves their state alone    *)

LEMMA PendingKept ==
  ASSUME PendingOK, UNCHANGED <<pending, tenure>>, now' \in Nat, now <= now'
  PROVE  PendingOK'
<1>1. \A k \in DOMAIN pending : pending[k].received_at \in Nat
  BY DEF PendingOK, PendingUpdate
<1>2. \A k \in DOMAIN pending : pending[k].received_at <= now'
  BY <1>1 DEF PendingOK, EntryOK
<1>3. \A k \in DOMAIN pending : EntryOK(k)'
  BY <1>2 DEF PendingOK, EntryOK
<1> QED BY <1>3 DEF PendingOK, PendingBounded

LEMMA RecordsKept ==
  ASSUME RecordsOK, UNCHANGED installed, verifier' \in BOOLEAN,
         adapter_versions' \in [Adapters -> Nat]
  PROVE  RecordsOK'
BY DEF RecordsOK, InstalledPassed

LEMMA CallerMoves ==
  ASSUME CallsOK, NEW c \in Callers, NEW v, UNCHANGED installing,
         receiving' = [receiving EXCEPT ![c] = v],
         \/ v = Idle
         \/ \E s \in {"needed", "added"}, p \in Packages : v = At(s, p) /\ Verify_package(p)
  PROVE  CallsOK'
<1>1. \A d \in Callers : receiving'[d] = IF d = c THEN v ELSE receiving[d]
  BY DEF CallsOK
<1>3. \A d \in Callers : CallerOK(d)'
  BY <1>1 DEF CallsOK, CallerOK
<1> QED BY <1>3 DEF CallsOK, InstallerOK

LEMMA InstallerMoves ==
  ASSUME CallsOK, NEW i \in Installers, NEW v, UNCHANGED receiving,
         installing' = [installing EXCEPT ![i] = v],
         v = Idle \/ \E s \in {"ready", "marked"}, p \in Packages : v = At(s, p)
  PROVE  CallsOK'
<1>1. \A j \in Installers : installing'[j] = IF j = i THEN v ELSE installing[j]
  BY DEF CallsOK
<1>3. \A j \in Installers : InstallerOK(j)'
  BY <1>1 DEF CallsOK, InstallerOK
<1> QED BY <1>3 DEF CallsOK, CallerOK

-----------------------------------------------------------------------------
(* What the operations do to the pending packages                          *)

LEMMA KeyFacts ==
  ASSUME NEW p \in Packages
  PROVE  /\ Key(p) \in Keys /\ Key(p)[1] = Pkg[p].adapter
         /\ Pkg[p].adapter \in Adapters /\ Pkg[p].version \in Nat
BY PackagesAssumption DEF Key, Keys, Versions

(* Dropping entries leaves the others as they were. *)
LEMMA DropKept ==
  ASSUME PendingOK, NEW K \in SUBSET DOMAIN pending, UNCHANGED now,
         pending' = Restrict(pending, K), tenure' = Restrict(tenure, K)
  PROVE  PendingOK'
<1>1. DOMAIN pending' = K /\ \A k \in K : pending'[k] = pending[k] /\ tenure'[k] = tenure[k]
  BY DEF Restrict
<1>2. IsFiniteSet(K) /\ Cardinality(K) <= Cardinality(DOMAIN pending)
  BY FS_Subset DEF PendingOK
<1>3. Cardinality(K) \in Nat /\ Cardinality(DOMAIN pending) \in Nat
  BY <1>2, FS_CardinalityType DEF PendingOK
<1>4. PendingBounded'
  BY <1>1, <1>2, <1>3, PackagesAssumption DEF PendingOK, PendingBounded
<1>5. tenure' \in [K -> [package : Packages, at : Nat, peers : SUBSET Peers]]
  BY DEF PendingOK, Restrict
<1>6. \A k \in K : EntryOK(k)'
  BY <1>1 DEF PendingOK, EntryOK
<1> QED BY <1>1, <1>2, <1>4, <1>5, <1>6 DEF PendingOK

(* A package that passed may be added where there is room. *)
LEMMA AddKept ==
  ASSUME PendingOK, NEW p \in Packages, Verify_package(p), UNCHANGED now,
         Cardinality(DOMAIN pending) < MaxPending,
         pending' = Put(pending, Key(p), NewPending(p)), tenure' = Hold(p)
  PROVE  PendingOK'
<1> DEFINE k == Key(p)
<1> DEFINE D == DOMAIN pending \cup {k}
<1>1. /\ DOMAIN pending' = D /\ pending'[k] = NewPending(p)
      /\ \A j \in DOMAIN pending : j # k => pending'[j] = pending[j]
  BY DEF Put
<1>2. IsFiniteSet(D) /\ Cardinality(D) <= Cardinality(DOMAIN pending) + 1
  <2>1. IsFiniteSet(DOMAIN pending) /\ Cardinality(DOMAIN pending) \in Nat
    BY FS_CardinalityType DEF PendingOK
  <2>2. /\ IsFiniteSet(DOMAIN pending \cup {k})
        /\ Cardinality(DOMAIN pending \cup {k}) = IF k \in DOMAIN pending THEN Cardinality(DOMAIN pending)
                                                ELSE Cardinality(DOMAIN pending) + 1
    BY <2>1, FS_AddElement, Zenon
  <2> QED BY <2>1, <2>2
<1>3. PendingBounded'
  <2>1. Cardinality(D) \in Nat /\ Cardinality(DOMAIN pending) \in Nat /\ MaxPending \in Nat
    BY <1>2, FS_CardinalityType, PackagesAssumption DEF PendingOK
  <2> QED BY <1>1, <1>2, <2>1 DEF PendingBounded
<1>4. NewPending(p) \in PendingUpdate /\ Key(NewPending(p).package) = k
  BY DEF PendingOK, NewPending, PendingUpdate
<1>5. /\ tenure' \in [D -> [package : Packages, at : Nat, peers : SUBSET Peers]]
      /\ \A j \in DOMAIN pending : j # k => tenure'[j] = tenure[j]
      /\ tenure'[k].package = p /\ tenure'[k].at <= now
  <2>1. CASE k \in DOMAIN tenure /\ tenure[k].package = p
    <3>1. tenure' = tenure /\ D = DOMAIN pending
      BY <2>1 DEF Hold, PendingOK
    <3>2. EntryOK(k) /\ pending[k] \in PendingUpdate
      BY <2>1 DEF PendingOK
    <3>3. tenure[k].at \in Nat /\ pending[k].received_at \in Nat /\ now \in Nat
      BY <2>1, <3>2 DEF PendingOK, PendingUpdate
    <3>4. tenure[k].at <= now
      BY <3>2, <3>3 DEF EntryOK
    <3> QED BY <2>1, <3>1, <3>4 DEF PendingOK
  <2>2. CASE ~(k \in DOMAIN tenure /\ tenure[k].package = p)
    <3> DEFINE t == [package |-> p, at |-> now, peers |-> {}]
    <3>1. tenure' = Put(tenure, k, t)
      BY <2>2, Zenon DEF Hold
    <3>2. t \in [package : Packages, at : Nat, peers : SUBSET Peers]
      BY DEF PendingOK
    <3>3. DOMAIN tenure = DOMAIN pending
      BY DEF PendingOK
    <3>4. tenure' = [x \in D |-> IF x = k THEN t ELSE tenure[x]]
      BY <3>1, <3>3, Zenon DEF Put
    <3> QED BY <3>2, <3>4 DEF PendingOK
  <2> QED BY <2>1, <2>2
<1>6. EntryOK(k)'
  <2>1. NewPending(p).package = p /\ NewPending(p).verified_by = {} /\ NewPending(p).received_at = now
    BY DEF NewPending
  <2>2. now <= now
    BY DEF PendingOK
  <2> QED BY <1>1, <1>5, <2>1, <2>2 DEF EntryOK
<1>7. \A j \in DOMAIN pending : j # k => EntryOK(j)'
  BY <1>1, <1>5 DEF PendingOK, EntryOK
<1> QED BY <1>1, <1>2, <1>3, <1>4, <1>5, <1>6, <1>7, KeyFacts DEF PendingOK

(* A peer's word counts for the package that is there. *)
LEMMA WordKept ==
  ASSUME PendingOK, NEW k \in DOMAIN pending, NEW n \in Peers, UNCHANGED now,
         pending' = [pending EXCEPT ![k].verified_by = @ \cup {n}],
         tenure' = [tenure EXCEPT ![k].peers = @ \cup {n}]
  PROVE  PendingOK'
<1>1. pending[k] \in PendingUpdate /\ EntryOK(k)
  BY DEF PendingOK
<1>2. /\ pending'[k] \in PendingUpdate
      /\ pending'[k].package = pending[k].package
      /\ pending'[k].received_at = pending[k].received_at
      /\ pending'[k].verified_by = pending[k].verified_by \cup {n}
  BY <1>1 DEF PendingUpdate
<1>3. tenure[k] \in [package : Packages, at : Nat, peers : SUBSET Peers]
  BY DEF PendingOK
<1>4. /\ tenure'[k] \in [package : Packages, at : Nat, peers : SUBSET Peers]
      /\ tenure'[k].package = tenure[k].package /\ tenure'[k].at = tenure[k].at
      /\ tenure'[k].peers = tenure[k].peers \cup {n}
  BY <1>3 DEF PendingOK
<1>5. EntryOK(k)'
  BY <1>1, <1>2, <1>4 DEF EntryOK
<1>6. /\ DOMAIN pending' = DOMAIN pending
      /\ \A j \in DOMAIN pending : j # k => pending'[j] = pending[j] /\ tenure'[j] = tenure[j]
  BY DEF PendingOK
<1>7. \A j \in DOMAIN pending : EntryOK(j)'
  BY <1>5, <1>6 DEF PendingOK, EntryOK
<1>8. tenure' \in [DOMAIN pending -> [package : Packages, at : Nat, peers : SUBSET Peers]]
  BY <1>4 DEF PendingOK
<1> QED BY <1>2, <1>6, <1>7, <1>8 DEF PendingOK, PendingBounded

(* So does the mark that the signatures were checked. *)
LEMMA MarkKept ==
  ASSUME PendingOK, NEW k \in DOMAIN pending, UNCHANGED <<now, tenure>>,
         pending' = [pending EXCEPT ![k].signatures_verified = TRUE]
  PROVE  PendingOK'
<1>1. pending[k] \in PendingUpdate /\ EntryOK(k)
  BY DEF PendingOK
<1>2. /\ pending'[k] \in PendingUpdate
      /\ pending'[k].package = pending[k].package
      /\ pending'[k].received_at = pending[k].received_at
      /\ pending'[k].verified_by = pending[k].verified_by
  BY <1>1 DEF PendingUpdate
<1>3. /\ DOMAIN pending' = DOMAIN pending
      /\ \A j \in DOMAIN pending : j # k => pending'[j] = pending[j]
  OBVIOUS
<1>4. \A j \in DOMAIN pending : EntryOK(j)'
  BY <1>1, <1>2, <1>3 DEF PendingOK, EntryOK
<1> QED BY <1>2, <1>3, <1>4 DEF PendingOK, PendingBounded

-----------------------------------------------------------------------------
LEMMA PackagesIInvInit == Init => PackagesIInv
<1> SUFFICES ASSUME Init PROVE PackagesIInv
  OBVIOUS
<1>1. DOMAIN pending = {} /\ DOMAIN tenure = {} /\ tenure = [k \in {} |-> NoPackage]
  BY DEF Init
<1>2. PendingBounded /\ IsFiniteSet(DOMAIN pending)
  BY <1>1, FS_EmptySet, PackagesAssumption DEF PendingBounded
<1>3. PendingOK
  BY <1>1, <1>2 DEF Init, PendingOK
<1>4. RecordsOK
  BY DEF Init, RecordsOK, InstalledPassed
<1>5. CallsOK
  BY DEF Init, CallsOK, CallerOK, InstallerOK
<1> QED BY <1>3, <1>4, <1>5 DEF PackagesIInv

LEMMA ReceiveStep ==
  ASSUME PackagesIInv, NEW c \in Callers, Receive_update_package(c)
  PROVE  PackagesIInv'
<1> USE DEF PackagesIInv
<1> DEFINE p == receiving[c].package
<1>0. now \in Nat
  BY DEF PendingOK
<1>1. ASSUME NEW q \in Packages, ReceiveNeeded(c, q) PROVE PackagesIInv'
  <2>1. PendingOK' /\ RecordsOK'
    BY <1>0, <1>1, PendingKept, RecordsKept DEF ReceiveNeeded, packageVars, RecordsOK
  <2>2. receiving' = [receiving EXCEPT ![c] = At("needed", q)] /\ Verify_package(q) /\ UNCHANGED installing
    BY <1>1 DEF ReceiveNeeded
  <2>3. CallsOK'
    BY <2>2, CallerMoves
  <2> QED BY <2>1, <2>3
<1>2. CASE Add_pending_update(c)
  <2>1. p \in Packages /\ Verify_package(p)
    <3>1. receiving[c] # Idle
      BY <1>2 DEF Add_pending_update, Idle
    <3> QED BY <3>1 DEF CallsOK, CallerOK, At
  <2>2. RecordsOK'
    BY <1>2, RecordsKept DEF Add_pending_update, RecordsOK
  <2>3. CASE Cardinality(DOMAIN pending) >= MaxPending
    <3>1. /\ receiving' = [receiving EXCEPT ![c] = Idle]
          /\ UNCHANGED <<pending, tenure, now, installing>>
      BY <1>2, <2>3 DEF Add_pending_update
    <3>2. PendingOK'
      BY <1>0, <3>1, PendingKept
    <3>3. CallsOK'
      BY <3>1, CallerMoves
    <3> QED BY <2>2, <3>2, <3>3
  <2>4. CASE ~(Cardinality(DOMAIN pending) >= MaxPending)
    <3>1. /\ pending' = Put(pending, Key(p), NewPending(p)) /\ tenure' = Hold(p)
          /\ receiving' = [receiving EXCEPT ![c] = At("added", p)]
          /\ UNCHANGED <<now, installing>>
      BY <1>2, <2>4 DEF Add_pending_update
    <3>2. Cardinality(DOMAIN pending) < MaxPending
      BY <2>4, FS_CardinalityType, PackagesAssumption DEF PendingOK
    <3>3. PendingOK'
      BY <2>1, <3>1, <3>2, AddKept
    <3>4. CallsOK'
      BY <2>1, <3>1, CallerMoves
    <3> QED BY <2>2, <3>3, <3>4
  <2> QED BY <2>3, <2>4
<1>3. CASE Mark_signatures_verified(c)
  <2>1. RecordsOK'
    BY <1>3, RecordsKept DEF Mark_signatures_verified, RecordsOK
  <2>2. CallsOK'
    BY <1>3, CallerMoves DEF Mark_signatures_verified
  <2>3. CASE Key(p) \in DOMAIN pending
    <3>1. /\ pending' = [pending EXCEPT ![Key(p)].signatures_verified = TRUE]
          /\ UNCHANGED <<now, tenure>>
      BY <1>3, <2>3 DEF Mark_signatures_verified
    <3> QED BY <2>1, <2>2, <2>3, <3>1, MarkKept
  <2>4. CASE Key(p) \notin DOMAIN pending
    BY <1>0, <1>3, <2>1, <2>2, <2>4, PendingKept DEF Mark_signatures_verified
  <2> QED BY <2>3, <2>4
<1> QED BY <1>1, <1>2, <1>3 DEF Receive_update_package

LEMMA InstallStep ==
  ASSUME PackagesIInv, NEW i \in Installers, Install(i)
  PROVE  PackagesIInv'
<1> USE DEF PackagesIInv
<1> DEFINE p == installing[i].package
<1> DEFINE k == Key(p)
<1>0. now \in Nat
  BY DEF PendingOK
<1>1. CASE TakeReady(i)
  <2>1. PendingOK' /\ RecordsOK'
    BY <1>0, <1>1, PendingKept, RecordsKept DEF TakeReady, packageVars, RecordsOK
  <2>2. PICK q \in Get_ready_updates : installing' = [installing EXCEPT ![i] = At("ready", q)]
    BY <1>1 DEF TakeReady
  <2>3. q \in Packages
    BY <2>2 DEF Get_ready_updates, PendingOK, PendingUpdate
  <2>4. CallsOK'
    BY <1>1, <2>2, <2>3, InstallerMoves DEF TakeReady
  <2> QED BY <2>1, <2>4
<1>2. CASE Mark_installed(i)
  <2>1. p \in Packages
    <3>1. installing[i] # Idle
      BY <1>2 DEF Mark_installed, Idle
    <3> QED BY <3>1 DEF CallsOK, InstallerOK, At
  <2>2. CallsOK'
    BY <1>2, <2>1, InstallerMoves DEF Mark_installed
  <2>3. CASE k \in DOMAIN pending
    <3>1. /\ installed' = [installed EXCEPT ![k[1]] = pending[k].package]
          /\ pending' = Restrict(pending, DOMAIN pending \ {k})
          /\ tenure' = Restrict(tenure, DOMAIN pending')
          /\ UNCHANGED <<now, verifier, adapter_versions>>
      BY <1>2, <2>3 DEF Mark_installed
    <3>2. DOMAIN pending' = DOMAIN pending \ {k}
      BY <3>1 DEF Restrict
    <3>3. PendingOK'
      BY <3>1, <3>2, DropKept
    <3>4. /\ pending[k].package \in Packages /\ Verify_package(pending[k].package)
          /\ Key(pending[k].package) = k
      BY <2>3 DEF PendingOK, PendingUpdate, EntryOK
    <3>5. Pkg[pending[k].package].adapter = k[1] /\ k[1] \in Adapters
      BY <3>4, KeyFacts
    <3>6. RecordsOK'
      BY <3>1, <3>4, <3>5 DEF RecordsOK, InstalledPassed
    <3> QED BY <2>2, <3>3, <3>6
  <2>4. CASE k \notin DOMAIN pending
    <3>1. /\ UNCHANGED <<installed, pending, now, verifier, adapter_versions>>
          /\ tenure' = Restrict(tenure, DOMAIN pending')
      BY <1>2, <2>4 DEF Mark_installed
    <3>2. tenure' = tenure
      BY <3>1 DEF Restrict, PendingOK
    <3> QED BY <1>0, <2>2, <3>1, <3>2, PendingKept, RecordsKept DEF RecordsOK
  <2> QED BY <2>3, <2>4
<1>3. CASE RecordVersion(i)
  <2>1. p \in Packages
    <3>1. installing[i] # Idle
      BY <1>3 DEF RecordVersion, Idle
    <3> QED BY <3>1 DEF CallsOK, InstallerOK, At
  <2>2. adapter_versions' \in [Adapters -> Nat]
    BY <1>3, <2>1, KeyFacts DEF RecordVersion, RecordsOK
  <2>3. CallsOK'
    BY <1>3, InstallerMoves DEF RecordVersion
  <2>4. UNCHANGED <<verifier, installed, pending, tenure, now>>
    BY <1>3 DEF RecordVersion, packageVars
  <2> QED BY <1>0, <2>2, <2>3, <2>4, PendingKept, RecordsKept DEF RecordsOK
<1> QED BY <1>1, <1>2, <1>3 DEF Install

LEMMA PackagesIInvNext ==
  ASSUME PackagesIInv, [Next]_vars
  PROVE  PackagesIInv'
<1> USE DEF PackagesIInv
<1>0. now \in Nat /\ now <= now
  BY DEF PendingOK
<1>1. CASE Set_verifier
  BY <1>0, <1>1, PendingKept DEF Set_verifier, packageVars, RecordsOK, InstalledPassed, CallsOK,
     CallerOK, InstallerOK
<1>2. CASE \E r \in Registered : Register_adapter_version(r[1], r[2])
  <2> PICK r \in Registered : Register_adapter_version(r[1], r[2])
    BY <1>2
  <2>1. r[1] \in Adapters /\ r[2] \in Nat
    BY PackagesAssumption DEF Versions
  <2>2. RecordsOK'
    BY <2>1 DEF Register_adapter_version, packageVars, RecordsOK, InstalledPassed
  <2>3. PendingOK'
    BY <1>0, PendingKept DEF Register_adapter_version, packageVars
  <2> QED BY <2>2, <2>3 DEF Register_adapter_version, CallsOK, CallerOK, InstallerOK
<1>3. CASE \E c \in Callers : Receive_update_package(c)
  BY <1>3, ReceiveStep
<1>4. CASE \E k \in Keys, n \in Peers : Add_verification(k, n)
  <2> PICK k \in Keys, n \in Peers : Add_verification(k, n)
    BY <1>4
  <2>1. PendingOK'
    BY WordKept DEF Add_verification
  <2> QED BY <2>1 DEF Add_verification, RecordsOK, InstalledPassed, CallsOK, CallerOK, InstallerOK
<1>5. CASE \E i \in Installers : Install(i)
  BY <1>5, InstallStep
<1>6. CASE Cleanup_expired
  <2> DEFINE K == {k \in DOMAIN pending : Age(pending[k]) < Expiry}
  <2>1. pending' = Restrict(pending, K) /\ tenure' = Restrict(tenure, DOMAIN pending') /\ UNCHANGED now
    BY <1>6 DEF Cleanup_expired
  <2>2. DOMAIN pending' = K
    BY <2>1 DEF Restrict
  <2>3. PendingOK'
    BY <2>1, <2>2, DropKept
  <2> QED BY <1>6, <2>3 DEF Cleanup_expired, RecordsOK, InstalledPassed, CallsOK, CallerOK, InstallerOK
<1>7. CASE Tick
  <2>1. PendingOK'
    BY <1>0, <1>7, PendingKept DEF Tick, packageVars
  <2> QED BY <1>7, <2>1 DEF Tick, packageVars, RecordsOK, InstalledPassed, CallsOK, CallerOK, InstallerOK
<1>8. CASE UNCHANGED vars
  BY <1>0, <1>8, PendingKept DEF vars, RecordsOK, InstalledPassed, CallsOK, CallerOK, InstallerOK
<1> QED BY <1>1, <1>2, <1>3, <1>4, <1>5, <1>6, <1>7, <1>8 DEF Next

(* Callers hold packages that passed, and pending entries show no more than *)
(* their own package has earned.                                           *)
LEMMA PackagesInvariant == Spec => []PackagesIInv
BY PackagesIInvInit, PackagesIInvNext, PTL DEF Spec

-----------------------------------------------------------------------------
(* The pending packages never exceed max_pending and are kept each under   *)
(* its own key, whatever the callers of receive_update_package interleave. *)
THEOREM PackagesAlwaysBounded == Spec => []PackagesInv
<1>1. PackagesIInv => PackagesInv
  <2> SUFFICES ASSUME PackagesIInv PROVE PackagesInv
    OBVIOUS
  <2> USE DEF PackagesIInv
  <2>1. receiving \in [Callers -> [step : Steps, package : Packages \cup {NoPackage}]]
    BY DEF CallsOK, CallerOK, Idle, At, Steps
  <2>2. installing \in [Installers -> [step : Steps, package : Packages \cup {NoPackage}]]
    BY DEF CallsOK, InstallerOK, Idle, At, Steps
  <2> QED BY <2>1, <2>2 DEF PackagesInv, PackagesTypeOK, PendingOK, RecordsOK
<1> QED BY <1>1, PackagesInvariant, PTL

(* A package that is offered passed the verification itself and waited and *)
(* was vouched for itself, whichever package shares its key, and so did    *)
(* pass what counts as installed (is_ready_to_install, mark_installed).    *)
THEOREM OffersAlwaysVetted == Spec => []Vetted
<1>1. PackagesIInv => Vetted
  <2> SUFFICES ASSUME PackagesIInv, NEW k \in DOMAIN pending, Is_ready(pending[k])
               PROVE  /\ Verify_package(pending[k].package)
                      /\ tenure[k].package = pending[k].package
                      /\ Cardinality(tenure[k].peers) >= MinVerifications
                      /\ Pkg[pending[k].package].critical \/ now - tenure[k].at >= Period
    BY DEF PackagesIInv, RecordsOK, Vetted, ReadyVetted
  <2>1. EntryOK(k) /\ pending[k] \in PendingUpdate
    BY DEF PackagesIInv, PendingOK
  <2>2. tenure[k].at \in Nat /\ tenure[k].peers \in SUBSET Peers /\ now \in Nat
    BY DEF PackagesIInv, PendingOK
  <2>3. Cardinality(tenure[k].peers) >= MinVerifications
    <3>1. IsFiniteSet(tenure[k].peers)
      BY <2>2, FS_Subset, PackagesAssumption
    <3>2. /\ IsFiniteSet(pending[k].verified_by)
          /\ Cardinality(pending[k].verified_by) <= Cardinality(tenure[k].peers)
      BY <2>1, <3>1, FS_Subset DEF EntryOK
    <3>3. Cardinality(pending[k].verified_by) >= MinVerifications
      BY DEF Is_ready
    <3> QED BY <3>1, <3>2, <3>3, FS_CardinalityType, PackagesAssumption
  <2>4. Pkg[pending[k].package].critical \/ now - tenure[k].at >= Period
    <3>1. pending[k].received_at \in Nat
      BY <2>1 DEF PendingUpdate
    <3>2. CASE Age(pending[k]) >= Period
      BY <2>1, <2>2, <3>1, <3>2, PackagesAssumption DEF Age, EntryOK
    <3> QED BY <3>2 DEF Is_ready
  <2> QED BY <2>1, <2>3, <2>4 DEF EntryOK
<1> QED BY <1>1, PackagesInvariant, PTL

\* What is there of an entry that stays is there after the step.
Lasts(k) ==
  /\ pending[k].verified_by \subseteq pending'[k].verified_by
  /\ pending[k].signatures_verified => pending'[k].signatures_verified

Arrives(k) ==
  \E c \in Callers : receiving[c].step = "needed" /\ Key(receiving[c].package) = k
                       /\ receiving'[c].step = "added"

LEMMA LossStep ==
  ASSUME PackagesIInv, [Next]_vars, NEW k \in DOMAIN pending, k \in DOMAIN pending'
  PROVE  Lasts(k) \/ Arrives(k)
<1>0. UNCHANGED pending => Lasts(k)
  BY DEF Lasts
<1>1. ASSUME NEW K, pending' = Restrict(pending, K) PROVE Lasts(k)
  BY <1>1 DEF Restrict, Lasts
<1>2. CASE \E c \in Callers : Receive_update_package(c)
  <2> PICK c \in Callers : Receive_update_package(c)
    BY <1>2
  <2>1. ASSUME NEW p \in Packages, ReceiveNeeded(c, p) PROVE Lasts(k)
    BY <1>0, <2>1 DEF ReceiveNeeded, packageVars
  <2>2. CASE Add_pending_update(c)
    <3> DEFINE p == receiving[c].package
    <3>1. CASE UNCHANGED pending
      BY <1>0, <3>1
    <3>2. CASE /\ pending' = Put(pending, Key(p), NewPending(p))
               /\ receiving' = [receiving EXCEPT ![c] = At("added", p)]
      <4>1. CASE k = Key(p)
        <5>1. receiving'[c].step = "added"
          BY <3>2 DEF PackagesIInv, CallsOK, At
        <5> QED BY <2>2, <4>1, <5>1 DEF Add_pending_update, Arrives
      <4>2. CASE k # Key(p)
        BY <3>2, <4>2 DEF Put, Lasts
      <4> QED BY <4>1, <4>2
    <3> QED BY <2>2, <3>1, <3>2 DEF Add_pending_update
  <2>3. CASE Mark_signatures_verified(c)
    <3> DEFINE j == Key(receiving[c].package)
    <3>1. CASE pending' = [pending EXCEPT ![j].signatures_verified = TRUE] /\ j \in DOMAIN pending
      <4>1. pending[k] \in PendingUpdate
        BY DEF PackagesIInv, PendingOK
      <4> QED BY <3>1, <4>1 DEF Lasts, PendingUpdate
    <3> QED BY <1>0, <2>3, <3>1 DEF Mark_signatures_verified
  <2> QED BY <2>1, <2>2, <2>3 DEF Receive_update_package
<1>3. CASE \E j \in Keys, n \in Peers : Add_verification(j, n)
  <2> PICK j \in Keys, n \in Peers : Add_verification(j, n)
    BY <1>3
  <2>1. pending[k] \in PendingUpdate
    BY DEF PackagesIInv, PendingOK
  <2> QED BY <2>1 DEF Add_verification, Lasts, PendingUpdate
<1>4. CASE \E i \in Installers : Install(i)
  BY <1>0, <1>1, <1>4 DEF Install, TakeReady, Mark_installed, RecordVersion, packageVars
<1>5. CASE Cleanup_expired
  BY <1>1, <1>5 DEF Cleanup_expired
<1>6. CASE Set_verifier \/ (\E r \in Registered : Register_adapter_version(r[1], r[2])) \/ Tick
           \/ UNCHANGED vars
  BY <1>0, <1>6 DEF Set_verifier, Register_adapter_version, Tick, packageVars, vars
<1> QED BY <1>2, <1>3, <1>4, <1>5, <1>6 DEF Next

(* The word of a peer and the mark on the signatures of a pending package  *)
(* go only by the arrival of a package of its key, whatever calls of other *)
(* tasks come between the steps of receive_update_package.                 *)
THEOREM LossesOnlyByArrival == Spec => LosesOnlyByArrival
<1>1. PackagesIInv /\ [Next]_vars
        => [\A k \in DOMAIN pending \cap DOMAIN pending' :
              \/ /\ pending[k].verified_by \subseteq pending'[k].verified_by
                 /\ pending[k].signatures_verified => pending'[k].signatures_verified
              \/ \E c \in Callers : receiving[c].step = "needed" /\ Key(receiving[c].package) = k
                                      /\ receiving'[c].step = "added"]_vars
  BY LossStep DEF Lasts, Arrives
<1> QED BY <1>1, PackagesInvariant, PTL DEF Spec, LosesOnlyByArrival
=============================================================================
