---------------------------- MODULE UpdatePackages ----------------------------
(***************************************************************************)
(* What becomes of an update package on a node (myriadmesh-updates/src:    *)
(* distribution.rs, verification.rs and the parts of coordination.rs that  *)
(* use them): a package is received, checked, kept as pending while peers  *)
(* vouch for its version, offered as ready, and installed.                 *)
(*                                                                         *)
(* Every lock is taken for one statement and dropped, so a call of         *)
(* receive_update_package is three steps, one of mark_update_installed two, *)
(* with those of other tasks in between.  Peers vouch for an adapter       *)
(* and a version, not for the content of a package: two packages may share *)
(* that key.  The installer is a user of the crate that marks as installed *)
(* what it was offered as ready.                                           *)
(***************************************************************************)
EXTENDS Integers, FiniteSets, Functions

CONSTANTS
  Adapters,
  Packages,          \* packages that may arrive
  Pkg,               \* package -> its content, see PackageInfo
  Nodes,             \* nodes that sign packages
  Peers,             \* nodes that vouch for updates
  Trusted,           \* nodes with a known key and a reputation of 0.8 or more
  Registered,        \* adapter and version pairs the node may register at any time
  MinTrusted,        \* MIN_TRUSTED_SIGNATURES
  MinVerifications,  \* MIN_VERIFICATIONS
  Period,            \* VERIFICATION_PERIOD
  Expiry,            \* age at which a pending package is dropped, 48 hours
  MaxPending,        \* max_pending
  Callers,           \* tasks that receive packages
  Installers,
  NoPackage,
  MaxNow             \* bound on the clock

Versions == Nat \ {0}   \* 0 is no version registered

\* intact: the payload hash matches; publisher: what the publisher's key says
\* of the signature, "none" if there is none; a peer's signature names its
\* signer and is valid or not.
PackageInfo == [adapter : Adapters, version : Versions, critical : BOOLEAN,
                intact : BOOLEAN, source : {"official", "peer"},
                publisher : {"none", "good", "bad"},
                signatures : UNION {[1..n -> [signer : Nodes, valid : BOOLEAN]] : n \in Nat}]

ASSUME PackagesAssumption ==
  /\ \A p \in Packages :
       /\ Pkg[p].adapter \in Adapters /\ Pkg[p].version \in Versions
       /\ Pkg[p].critical \in BOOLEAN /\ Pkg[p].intact \in BOOLEAN
       /\ \A i \in DOMAIN Pkg[p].signatures : Pkg[p].signatures[i].signer \in Nodes
  /\ NoPackage \notin Packages
  /\ Registered \subseteq Adapters \X Versions
  /\ IsFiniteSet(Peers)
  /\ {MinTrusted, MinVerifications, Period, Expiry, MaxPending, MaxNow} \subseteq Nat

VARIABLES
  verifier,          \* whether set_verifier was called
  adapter_versions,  \* adapter -> version, 0 for none
  pending,           \* <<adapter, version>> -> PendingUpdate
  installed,         \* adapter -> package
  receiving,         \* caller -> where its receive_update_package is
  installing,        \* installer -> where it is
  now,
  \* History, which no action reads:
  tenure             \* pending key -> the package there, since when without a
                     \* break, and the peers whose word came since then

vars == <<verifier, adapter_versions, pending, installed, receiving, installing, now,
          tenure>>
packageVars == <<pending, installed, tenure>>

-----------------------------------------------------------------------------
Key(p) == <<Pkg[p].adapter, Pkg[p].version>>
Keys   == {Key(p) : p \in Packages}

PendingUpdate == [package : Packages, received_at : Nat, verified_by : SUBSET Peers,
                  signatures_verified : BOOLEAN]
NewPending(p) == [package |-> p, received_at |-> now, verified_by |-> {},
                  signatures_verified |-> FALSE]

Age(u) == now - u.received_at
Is_ready(u) ==
  /\ Age(u) >= Period \/ Pkg[u.package].critical
  /\ Cardinality(u.verified_by) >= MinVerifications
  /\ u.signatures_verified

\* Each entry of the list counts, two of one signer as two.
TrustedCount(p) ==
  Cardinality({i \in DOMAIN Pkg[p].signatures :
                 Pkg[p].signatures[i].valid /\ Pkg[p].signatures[i].signer \in Trusted})

\* The publisher's signature decides if there is one.
Verify_package(p) ==
  /\ Pkg[p].intact
  /\ IF Pkg[p].source = "official" /\ Pkg[p].publisher # "none"
     THEN Pkg[p].publisher = "good"
     ELSE TrustedCount(p) >= MinTrusted

Put(f, k, v) == [x \in DOMAIN f \cup {k} |-> IF x = k THEN v ELSE f[x]]

\* A package that is pending already goes on with its tenure.
Hold(p) ==
  IF Key(p) \in DOMAIN tenure /\ tenure[Key(p)].package = p THEN tenure
  ELSE Put(tenure, Key(p), [package |-> p, at |-> now, peers |-> {}])

Idle == [step |-> "idle", package |-> NoPackage]
At(s, p) == [step |-> s, package |-> p]

Init ==
  /\ verifier = FALSE
  /\ adapter_versions = [a \in Adapters |-> 0]
  /\ pending = [k \in {} |-> NoPackage]
  /\ installed = [a \in Adapters |-> NoPackage]
  /\ receiving = [c \in Callers |-> Idle]
  /\ installing = [i \in Installers |-> Idle]
  /\ now = 0
  /\ tenure = [k \in {} |-> NoPackage]

\* A receive_update_package keeps the verifier locked for reading till it ends.
Set_verifier ==
  /\ \A c \in Callers : receiving[c] = Idle
  /\ verifier' = TRUE
  /\ UNCHANGED <<adapter_versions, receiving, installing, now, packageVars>>

Register_adapter_version(a, v) ==
  /\ adapter_versions' = [adapter_versions EXCEPT ![a] = v]
  /\ UNCHANGED <<verifier, receiving, installing, now, packageVars>>

\* A package is refused, which changes nothing, if it is damaged, if it comes
\* before the verifier is set, if it fails the verification, or if the adapter
\* is known to have its version or a later one.
ReceiveNeeded(c, p) ==
  /\ receiving[c] = Idle
  /\ verifier
  /\ Verify_package(p)
  /\ adapter_versions[Pkg[p].adapter] < Pkg[p].version
  /\ receiving' = [receiving EXCEPT ![c] = At("needed", p)]
  /\ UNCHANGED <<verifier, adapter_versions, installing, now, packageVars>>

\* A package whose key is pending takes its place, with no peer's word and a
\* waiting time of its own; if pending is full it is refused all the same.
Add_pending_update_Mut(c) ==   \* room is not checked under the lock
  LET p == receiving[c].package IN
  /\ receiving[c].step = "needed"
  /\ pending' = Put(pending, Key(p), NewPending(p))
  /\ tenure' = Hold(p)
  /\ receiving' = [receiving EXCEPT ![c] = At("added", p)]
  /\ UNCHANGED <<verifier, adapter_versions, installed, installing, now>>
Add_pending_update_Mut2(c) ==   \* the entry of a key is kept, its package replaced
  LET p == receiving[c].package
      entry == IF Key(p) \in DOMAIN pending
               THEN [pending[Key(p)] EXCEPT !.package = p] ELSE NewPending(p) IN
  /\ receiving[c].step = "needed"
  /\ Cardinality(DOMAIN pending) < MaxPending
  /\ pending' = Put(pending, Key(p), entry)
  /\ tenure' = Hold(p)
  /\ receiving' = [receiving EXCEPT ![c] = At("added", p)]
  /\ UNCHANGED <<verifier, adapter_versions, installed, installing, now>>
Add_pending_update(c) ==
  LET p == receiving[c].package IN
  /\ receiving[c].step = "needed"
  /\ IF Cardinality(DOMAIN pending) >= MaxPending
     THEN /\ receiving' = [receiving EXCEPT ![c] = Idle]
          /\ UNCHANGED <<pending, tenure>>
     ELSE /\ pending' = Put(pending, Key(p), NewPending(p))
          /\ tenure' = Hold(p)
          /\ receiving' = [receiving EXCEPT ![c] = At("added", p)]
  /\ UNCHANGED <<verifier, adapter_versions, installed, installing, now>>

\* The mark goes to whatever is pending under the key by now, if anything.
Mark_signatures_verified_Mut(c) ==   \* the entry is built anew
  LET k == Key(receiving[c].package) IN
  /\ receiving[c].step = "added"
  /\ pending' = IF k \in DOMAIN pending
                THEN [pending EXCEPT ![k] = [NewPending(@.package) EXCEPT !.signatures_verified = TRUE]]
                ELSE pending
  /\ receiving' = [receiving EXCEPT ![c] = Idle]
  /\ UNCHANGED <<verifier, adapter_versions, installed, installing, now, tenure>>
Mark_signatures_verified(c) ==
  LET k == Key(receiving[c].package) IN
  /\ receiving[c].step = "added"
  /\ pending' = IF k \in DOMAIN pending
                THEN [pending EXCEPT ![k].signatures_verified = TRUE] ELSE pending
  /\ receiving' = [receiving EXCEPT ![c] = Idle]
  /\ UNCHANGED <<verifier, adapter_versions, installed, installing, now, tenure>>

\* A peer's word for a key that is not pending is lost.
Add_verification(k, n) ==
  /\ k \in DOMAIN pending
  /\ pending' = [pending EXCEPT ![k].verified_by = @ \cup {n}]
  /\ tenure' = [tenure EXCEPT ![k].peers = @ \cup {n}]
  /\ UNCHANGED <<verifier, adapter_versions, installed, receiving, installing, now>>

Get_ready_updates == {pending[k].package : k \in {x \in DOMAIN pending : Is_ready(pending[x])}}

TakeReady(i) ==
  /\ installing[i] = Idle
  /\ \E p \in Get_ready_updates : installing' = [installing EXCEPT ![i] = At("ready", p)]
  /\ UNCHANGED <<verifier, adapter_versions, receiving, now, packageVars>>

\* What is pending under the key by now counts as installed, if anything.
Mark_installed(i) ==
  LET p == installing[i].package
      k == Key(p) IN
  /\ installing[i].step = "ready"
  /\ IF k \in DOMAIN pending
     THEN /\ installed' = [installed EXCEPT ![k[1]] = pending[k].package]
          /\ pending' = Restrict(pending, DOMAIN pending \ {k})
     ELSE UNCHANGED <<installed, pending>>
  /\ tenure' = Restrict(tenure, DOMAIN pending')
  /\ installing' = [installing EXCEPT ![i] = At("marked", p)]
  /\ UNCHANGED <<verifier, adapter_versions, receiving, now>>

\* The version is recorded whether or not anything was pending.
RecordVersion(i) ==
  LET p == installing[i].package IN
  /\ installing[i].step = "marked"
  /\ adapter_versions' = [adapter_versions EXCEPT ![Pkg[p].adapter] = Pkg[p].version]
  /\ installing' = [installing EXCEPT ![i] = Idle]
  /\ UNCHANGED <<verifier, receiving, now, packageVars>>

Cleanup_expired ==
  /\ pending' = Restrict(pending, {k \in DOMAIN pending : Age(pending[k]) < Expiry})
  /\ tenure' = Restrict(tenure, DOMAIN pending')
  /\ UNCHANGED <<verifier, adapter_versions, installed, receiving, installing, now>>

Tick ==
  /\ now < MaxNow
  /\ now' = now + 1
  /\ UNCHANGED <<verifier, adapter_versions, receiving, installing, packageVars>>

Receive_update_package(c) ==
  \/ \E p \in Packages : ReceiveNeeded(c, p)
  \/ Add_pending_update(c)
  \/ Mark_signatures_verified(c)

Install(i) == TakeReady(i) \/ Mark_installed(i) \/ RecordVersion(i)

Next ==
  \/ Set_verifier
  \/ \E r \in Registered : Register_adapter_version(r[1], r[2])
  \/ \E c \in Callers : Receive_update_package(c)
  \/ \E k \in Keys, n \in Peers : Add_verification(k, n)
  \/ \E i \in Installers : Install(i)
  \/ Cleanup_expired
  \/ Tick

Spec == Init /\ [][Next]_vars

-----------------------------------------------------------------------------
Steps == {"idle", "needed", "added", "ready", "marked"}

\* Types: pending entries are under their own key, calls are where they can be.
PackagesTypeOK ==
  /\ verifier \in BOOLEAN
  /\ adapter_versions \in [Adapters -> Nat]
  /\ DOMAIN pending \subseteq Keys
  /\ \A k \in DOMAIN pending : pending[k] \in PendingUpdate /\ Key(pending[k].package) = k
  /\ installed \in [Adapters -> Packages \cup {NoPackage}]
  /\ receiving \in [Callers -> [step : Steps, package : Packages \cup {NoPackage}]]
  /\ installing \in [Installers -> [step : Steps, package : Packages \cup {NoPackage}]]
  /\ now \in Nat
  /\ tenure \in [DOMAIN pending -> [package : Packages, at : Nat, peers : SUBSET Peers]]

\* A package is offered only if that very package passed the verification and
\* has been pending without a break since enough peers gave their word and,
\* unless it is critical, for the whole period: nothing is inherited from
\* another package of the same key (distribution.rs, is_ready_to_install).
ReadyVetted ==
  \A k \in DOMAIN pending : Is_ready(pending[k]) =>
    /\ Verify_package(pending[k].package)
    /\ tenure[k].package = pending[k].package
    /\ Cardinality(tenure[k].peers) >= MinVerifications
    /\ Pkg[pending[k].package].critical \/ now - tenure[k].at >= Period

\* What counts as installed for an adapter is a package for that adapter that
\* passed the verification, even if it replaced the one that was offered
\* (distribution.rs, mark_installed).
InstalledPassed ==
  \A a \in Adapters : installed[a] # NoPackage =>
    Verify_package(installed[a]) /\ Pkg[installed[a]].adapter = a

\* Callers that add at once never exceed max_pending (distribution.rs,
\* add_pending_update).
PendingBounded == Cardinality(DOMAIN pending) <= MaxPending

\* The pending packages, in types and in number.
PackagesInv == PackagesTypeOK /\ PendingBounded

\* What is offered and what was installed went through the whole procedure.
Vetted == ReadyVetted /\ InstalledPassed

\* A pending package loses a peer's word or its signature mark only by the
\* arrival of a package of its key, never by the calls of other tasks
\* (coordination.rs, receive_update_package).
LosesOnlyByArrival ==
  [][\A k \in DOMAIN pending \cap DOMAIN pending' :
       \/ /\ pending[k].verified_by \subseteq pending'[k].verified_by
          /\ pending[k].signatures_verified => pending'[k].signatures_verified
       \/ \E c \in Callers : receiving[c].step = "needed" /\ Key(receiving[c].package) = k
                               /\ receiving'[c].step = "added"]_vars
=============================================================================
