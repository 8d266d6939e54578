--------------------------- MODULE Appliance_proofs ---------------------------
(***************************************************************************)
(* Proofs about MessageCache, and about Appliance with it, for any number  *)
(* of requests, devices, tokens, messages and limits.                      *)
(*                                                                         *)
(* The limits of the cache carry its other two results: as long as they    *)
(* hold, a device never has more than its limit, so evict_messages_locked  *)
(* has nothing to remove but delivered messages (NoSilentLoss); and an     *)
(* eviction that removes anything makes room, so a store that is refused   *)
(* has evicted nothing, and needs no save (FileFollowsMemory).  A client   *)
(* that hangs up leaves its mark until a save from begin to end goes       *)
(* undisturbed: as long as its write may still come, the file is not       *)
(* trusted.                                                                *)
(*                                                                         *)
(* A token is at first pending, and then held by a device: in memory, in   *)
(* the device file, in a save under way, or by a call that is about to     *)
(* store the device.  It is never both, it is held by one device only, and *)
(* while it is pending nothing depends on what the owner says of it.       *)
(***************************************************************************)
EXTENDS Appliance, FiniteSetTheorems, TLAPS

-----------------------------------------------------------------------------
(* The message cache by itself                                             *)

\* Content the cache may have: its messages are such as can be stored.
Held(f) ==
  /\ f = [i \in DOMAIN f |-> f[i]]
  /\ DOMAIN f \subseteq Ids /\ IsFiniteSet(DOMAIN f)
  /\ \A i \in DOMAIN f :
       \E m \in Messages : i = m.id /\ \E b \in BOOLEAN : f[i] = [m EXCEPT !.delivered = b]

\* Content within the limits.
Fits(f) ==
  /\ Held(f)
  /\ \A d \in Devices : CountOf(f, d) <= MaxPerDevice
  /\ Cardinality(DOMAIN f) <= MaxTotal

\* What an operation may make of the cache without losing anything: the rest of f
\* after messages went that were delivered or have expired.
Thinned(f, g) ==
  \E K \in SUBSET DOMAIN f :
    /\ g = Restrict(f, K)
    /\ \A i \in DOMAIN f \ K : f[i].delivered \/ f[i].expires <= now

\* What a write will leave in the file.
Written(f) == f = Unreadable \/ Fits(f)

\* The inductive invariant: memory, file and writes fit, a write whose task holds the
\* lock is of what memory holds, and while an orphan writes the file is not trusted.
CacheInv ==
  /\ CacheTypeOK
  /\ Fits(messages)
  /\ Written(cache_file)
  /\ DOMAIN cache_json = Callers /\ cache_json = [c \in Callers |-> cache_json[c]]
  /\ \A c \in Callers : cache_saver[c] = "writing" => cache_json[c] \in {messages, Unreadable}
  /\ \A c \in Callers : cache_saver[c] = "orphan" => Written(cache_json[c]) /\ cache_stale
  /\ FileFollowsMemory

-----------------------------------------------------------------------------
(* What the operators of MessageCache do to content that fits              *)

LEMMA MessageFields ==
  ASSUME NEW f, Held(f), NEW i \in DOMAIN f
  PROVE  /\ f[i].id = i /\ f[i].device \in Devices /\ f[i].rank \in Nat
         /\ f[i].expires \in Nat /\ f[i].delivered \in BOOLEAN
         /\ \A b \in BOOLEAN : [f[i] EXCEPT !.delivered = b].device = f[i].device
BY CacheAssumption DEF Held

LEMMA CountIsNat ==
  ASSUME NEW f, Held(f), NEW d
  PROVE  /\ CountOf(f, d) \in Nat /\ Cardinality(DOMAIN f) \in Nat
         /\ IsFiniteSet({i \in DOMAIN f : f[i].device = d})
<1>. DEFINE D == {i \in DOMAIN f : f[i].device = d}
<1>1. D \in SUBSET DOMAIN f /\ IsFiniteSet(DOMAIN f)
  BY DEF Held
<1>2. IsFiniteSet(D)
  BY <1>1, FS_Subset
<1>. QED BY <1>1, <1>2, FS_CardinalityType DEF CountOf

\* Dropping messages keeps content within the limits, and what has as many
\* messages as before is the same.
LEMMA RestrictFits ==
  ASSUME NEW f, Fits(f), NEW K \in SUBSET DOMAIN f
  PROVE  /\ Fits(Restrict(f, K)) /\ DOMAIN Restrict(f, K) = K
         /\ \A d \in Devices : CountOf(Restrict(f, K), d) <= CountOf(f, d)
         /\ Cardinality(K) <= Cardinality(DOMAIN f)
<1>. DEFINE g == Restrict(f, K)
<1>1. DOMAIN g = K /\ g = [i \in K |-> f[i]] /\ \A i \in K : g[i] = f[i]
  BY DEF Restrict
<1>2. IsFiniteSet(K) /\ Cardinality(K) <= Cardinality(DOMAIN f) /\ Cardinality(K) \in Nat
  BY FS_Subset, FS_CardinalityType DEF Fits, Held
<1>3. Held(g)
  <2>1. g = [i \in DOMAIN g |-> g[i]]
    BY <1>1
  <2>2. DOMAIN g \subseteq Ids /\ IsFiniteSet(DOMAIN g)
    BY <1>1, <1>2 DEF Fits, Held
  <2>3. \A i \in DOMAIN g :
          \E m \in Messages : i = m.id /\ \E b \in BOOLEAN : g[i] = [m EXCEPT !.delivered = b]
    BY <1>1 DEF Fits, Held
  <2>. QED BY <2>1, <2>2, <2>3 DEF Held
<1>4. ASSUME NEW d \in Devices PROVE CountOf(g, d) <= CountOf(f, d)
  <2>1. {i \in DOMAIN g : g[i].device = d} \subseteq {i \in DOMAIN f : f[i].device = d}
    BY <1>1
  <2>2. IsFiniteSet({i \in DOMAIN f : f[i].device = d})
    BY CountIsNat DEF Fits
  <2>. QED BY <2>1, <2>2, FS_Subset DEF CountOf
<1>5. \A d \in Devices : CountOf(g, d) \in Nat /\ CountOf(f, d) \in Nat
  BY <1>3, CountIsNat DEF Fits
<1>6. Cardinality(DOMAIN f) \in Nat /\ MaxPerDevice \in Nat /\ MaxTotal \in Nat
  BY CountIsNat, CacheAssumption DEF Fits
<1>7. Fits(g)
  BY <1>1, <1>2, <1>3, <1>4, <1>5, <1>6 DEF Fits
<1>. QED BY <1>1, <1>2, <1>4, <1>7

LEMMA RestrictAll ==
  ASSUME NEW f, Held(f)
  PROVE  Restrict(f, DOMAIN f) = f
BY DEF Held, Restrict

\* evict_messages_locked removes delivered messages and nothing else, and the
\* device is still full afterwards only if it removed none.
LEMMA DeviceRoom ==
  ASSUME Fits(messages), NEW d \in Devices, NEW kept \in FitDevice(d)
  PROVE  /\ Thinned(messages, kept) /\ Fits(kept)
         /\ CountOf(kept, d) >= MaxPerDevice => kept = messages
<1>. DEFINE D == {i \in DOMAIN messages : messages[i].device = d}
            K == {i \in DOMAIN messages : ~(messages[i].device = d /\ messages[i].delivered)}
            g == Restrict(messages, K)
            mine == {i \in DOMAIN g : g[i].device = d}
<1>0. Restrict(messages, DOMAIN messages) = messages
  BY RestrictAll DEF Fits
<1>1. CASE CountOf(messages, d) < MaxPerDevice
  <2>1. kept = messages
    BY <1>1 DEF FitDevice
  <2>. QED BY <1>0, <2>1 DEF Thinned
<1>2. CASE ~(CountOf(messages, d) < MaxPerDevice)
  <2>1. kept \in Evict_messages(messages, d)
    BY <1>2 DEF FitDevice
  <2>2. DOMAIN g = K /\ Fits(g) /\ CountOf(g, d) <= CountOf(messages, d)
    BY RestrictFits
  <2>c. CountOf(messages, d) = Cardinality(D) /\ CountOf(g, d) = Cardinality(mine)
    BY DEF CountOf
  <2>3. Cardinality(mine) <= MaxPerDevice
    BY <2>2, <2>c DEF Fits
  <2>4. kept = g
    BY <2>1, <2>3 DEF Evict_messages
  <2>5. \A i \in DOMAIN messages \ K : messages[i].delivered
    OBVIOUS
  <2>6. ASSUME CountOf(kept, d) >= MaxPerDevice PROVE kept = messages
    <3>1. mine \subseteq D /\ IsFiniteSet(D)
      BY <2>2, CountIsNat DEF Fits, Restrict
    <3>2. CountOf(messages, d) <= MaxPerDevice /\ CountOf(g, d) >= MaxPerDevice
      BY <2>4, <2>6 DEF Fits
    <3>3. CountOf(messages, d) \in Nat /\ CountOf(g, d) \in Nat /\ MaxPerDevice \in Nat
      BY <2>2, CountIsNat, CacheAssumption DEF Fits
    <3>4. mine = D
      <4>1. Cardinality(mine) >= Cardinality(D) /\ Cardinality(mine) \in Nat /\ Cardinality(D) \in Nat
        BY <2>c, <3>2, <3>3
      <4>2. Cardinality(mine) <= Cardinality(D) /\ (Cardinality(D) = Cardinality(mine) => D = mine)
        BY <3>1, FS_Subset
      <4>. QED BY <4>1, <4>2
    <3>5. K = DOMAIN messages
      BY <2>2, <3>4
    <3>. QED BY <1>0, <2>4, <3>5
  <2>. QED BY <2>2, <2>4, <2>5, <2>6 DEF Thinned
<1>. QED BY <1>1, <1>2

\* evict_global_locked likewise.
LEMMA TotalRoom ==
  ASSUME NEW f, Fits(f), now \in Nat
  PROVE  /\ Thinned(f, FitTotal(f)) /\ Fits(FitTotal(f))
         /\ \A d \in Devices : CountOf(FitTotal(f), d) <= CountOf(f, d)
         /\ Cardinality(DOMAIN FitTotal(f)) >= MaxTotal => FitTotal(f) = f
<1>. DEFINE K == {i \in DOMAIN f : ~f[i].delivered /\ f[i].expires > now}
<1>0. Restrict(f, DOMAIN f) = f
  BY RestrictAll DEF Fits
<1>a. \A d \in Devices : CountOf(f, d) \in Nat
  BY CountIsNat DEF Fits
<1>1. CASE Cardinality(DOMAIN f) < MaxTotal
  <2>1. FitTotal(f) = f
    BY <1>1 DEF FitTotal
  <2>. QED BY <1>0, <1>a, <2>1 DEF Thinned
<1>2. CASE ~(Cardinality(DOMAIN f) < MaxTotal)
  <2>1. FitTotal(f) = Restrict(f, K)
    BY <1>2 DEF FitTotal, Evict_global
  <2>2. /\ DOMAIN Restrict(f, K) = K /\ Fits(Restrict(f, K))
        /\ \A d \in Devices : CountOf(Restrict(f, K), d) <= CountOf(f, d)
    BY RestrictFits
  <2>3. \A i \in DOMAIN f \ K : f[i].delivered \/ f[i].expires <= now
    BY MessageFields DEF Fits
  <2>4. ASSUME Cardinality(K) >= MaxTotal PROVE K = DOMAIN f
    <3>1. Cardinality(DOMAIN f) <= MaxTotal /\ IsFiniteSet(DOMAIN f) /\ K \in SUBSET DOMAIN f
      BY DEF Fits, Held
    <3>2. Cardinality(DOMAIN f) \in Nat /\ Cardinality(K) \in Nat /\ MaxTotal \in Nat
      BY <2>2, CountIsNat, CacheAssumption DEF Fits
    <3>. QED BY <2>4, <3>1, <3>2, FS_Subset
  <2>. QED BY <1>0, <2>1, <2>2, <2>3, <2>4 DEF Thinned
<1>. QED BY <1>1, <1>2

\* A message that goes where there is room leaves the limits intact, also if it
\* replaces one of its id.
LEMMA InsertFits ==
  ASSUME NEW f, Fits(f), NEW m \in Messages,
         CountOf(f, m.device) < MaxPerDevice, Cardinality(DOMAIN f) < MaxTotal
  PROVE  Fits([i \in DOMAIN f \cup {m.id} |-> IF i = m.id THEN m ELSE f[i]])
<1>. DEFINE g == [i \in DOMAIN f \cup {m.id} |-> IF i = m.id THEN m ELSE f[i]]
<1>1. DOMAIN g = DOMAIN f \cup {m.id} /\ g = [i \in DOMAIN g |-> g[i]]
  OBVIOUS
<1>2. m \in [id : Ids, device : Devices, rank : Nat, expires : Nat, delivered : BOOLEAN]
  BY CacheAssumption
<1>3. m = [m EXCEPT !.delivered = m.delivered]
  BY <1>2
<1>4. Held(g)
  <2>1. DOMAIN g \subseteq Ids /\ IsFiniteSet(DOMAIN g)
    BY <1>1, <1>2, FS_AddElement DEF Fits, Held
  <2>2. \A i \in DOMAIN g :
          \E x \in Messages : i = x.id /\ \E b \in BOOLEAN : g[i] = [x EXCEPT !.delivered = b]
    <3>1. \A i \in DOMAIN f :
            \E x \in Messages : i = x.id /\ \E b \in BOOLEAN : f[i] = [x EXCEPT !.delivered = b]
      BY DEF Fits, Held
    <3>2. m.delivered \in BOOLEAN
      BY <1>2
    <3>3. g[m.id] = m /\ \A i \in DOMAIN g \ {m.id} : i \in DOMAIN f /\ g[i] = f[i]
      OBVIOUS
    <3>. QED BY <1>3, <3>1, <3>2, <3>3
  <2>. QED BY <1>1, <2>1, <2>2 DEF Held
<1>5. MaxPerDevice \in Nat /\ MaxTotal \in Nat
  BY CacheAssumption
<1>6. Cardinality(DOMAIN g) <= MaxTotal
  <2>1. IsFiniteSet(DOMAIN f) /\ Cardinality(DOMAIN f) \in Nat
    BY CountIsNat DEF Fits, Held
  <2>. QED BY <1>1, <1>5, <2>1, FS_AddElement
<1>7. ASSUME NEW d \in Devices PROVE CountOf(g, d) <= MaxPerDevice
  <2>. DEFINE F == {i \in DOMAIN f : f[i].device = d}
              G == {i \in DOMAIN g : g[i].device = d}
  <2>1. CountOf(f, d) = Cardinality(F) /\ CountOf(g, d) = Cardinality(G)
    BY DEF CountOf
  <2>2. IsFiniteSet(F) /\ Cardinality(F) \in Nat /\ Cardinality(G) \in Nat
    BY <1>4, <2>1, CountIsNat DEF Fits
  <2>3. CASE d = m.device
    <3>1. G \in SUBSET (F \cup {m.id})
      OBVIOUS
    <3>2. IsFiniteSet(F \cup {m.id}) /\ Cardinality(F \cup {m.id}) <= Cardinality(F) + 1
      <4>. HIDE DEF F
      <4>. QED BY <2>2, FS_AddElement
    <3>3. Cardinality(G) <= Cardinality(F \cup {m.id}) /\ Cardinality(F \cup {m.id}) \in Nat
      BY <3>1, <3>2, FS_Subset, FS_CardinalityType
    <3>4. Cardinality(F) < MaxPerDevice
      BY <2>1, <2>3
    <3>. QED BY <1>5, <2>1, <2>2, <3>2, <3>3, <3>4
  <2>4. CASE d # m.device
    <3>1. G \in SUBSET F
      BY <2>4
    <3>2. Cardinality(G) <= Cardinality(F)
      BY <2>2, <3>1, FS_Subset
    <3>3. Cardinality(F) <= MaxPerDevice
      BY <2>1 DEF Fits
    <3>. QED BY <1>5, <2>1, <2>2, <3>2, <3>3
  <2>. QED BY <2>3, <2>4
<1>. QED BY <1>4, <1>6, <1>7 DEF Fits

LEMMA MarkFits ==
  ASSUME NEW f, Fits(f), NEW ids
  PROVE  Fits([i \in DOMAIN f |->
                 IF i \in ids THEN [f[i] EXCEPT !.delivered = TRUE] ELSE f[i]])
<1>. DEFINE g == [i \in DOMAIN f |->
                    IF i \in ids THEN [f[i] EXCEPT !.delivered = TRUE] ELSE f[i]]
<1>1. DOMAIN g = DOMAIN f /\ g = [i \in DOMAIN g |-> g[i]]
  OBVIOUS
<1>2. \A i \in DOMAIN f : g[i].device = f[i].device
  BY MessageFields DEF Fits
<1>3. Held(g)
  <2>1. ASSUME NEW i \in DOMAIN g
        PROVE  \E m \in Messages : i = m.id /\ \E b \in BOOLEAN : g[i] = [m EXCEPT !.delivered = b]
    <3>1. PICK m \in Messages, b \in BOOLEAN : i = m.id /\ f[i] = [m EXCEPT !.delivered = b]
      BY DEF Fits, Held
    <3>2. m \in [id : Ids, device : Devices, rank : Nat, expires : Nat, delivered : BOOLEAN]
      BY CacheAssumption
    <3>3. [f[i] EXCEPT !.delivered = TRUE] = [m EXCEPT !.delivered = TRUE]
      BY <3>1, <3>2
    <3>. QED BY <3>1, <3>3
  <2>. QED BY <1>1, <2>1 DEF Fits, Held
<1>4. ASSUME NEW d \in Devices PROVE CountOf(g, d) = CountOf(f, d)
  <2>1. {i \in DOMAIN g : g[i].device = d} = {i \in DOMAIN f : f[i].device = d}
    BY <1>1, <1>2
  <2>. QED BY <2>1 DEF CountOf
<1>. QED BY <1>1, <1>3, <1>4 DEF Fits

LEMMA EmptyFits == Fits(<<>>)
<1>1. DOMAIN <<>> = {} /\ <<>> = [i \in DOMAIN <<>> |-> <<>>[i]]
  OBVIOUS
<1>2. Held(<<>>)
  BY <1>1, FS_EmptySet DEF Held
<1>3. ASSUME NEW d \in Devices PROVE CountOf(<<>>, d) = 0
  <2>1. {i \in DOMAIN <<>> : <<>>[i].device = d} = {}
    BY <1>1
  <2>. QED BY <2>1, FS_EmptySet DEF CountOf
<1>. QED BY <1>1, <1>2, <1>3, FS_EmptySet, CacheAssumption DEF Fits

-----------------------------------------------------------------------------
(* The map and its file: what each step of JsonFile keeps of the invariant *)

LEMMA ChangeInv ==
  ASSUME CacheInv, NEW c \in Callers, NEW d, Fits(d), Cache!Change(c, d), UNCHANGED now
  PROVE  CacheInv'
<1>1. \A b \in Callers : cache_saver[b] # "writing" /\ cache_saver'[b] # "writing"
  BY DEF CacheInv, CacheTypeOK, Cache!Change, Cache!Writable
<1>2. /\ cache_saver' \in [Callers -> {"no", "due", "writing", "orphan"}] /\ cache_saver'[c] = "due"
      /\ \A b \in Callers \ {c} : cache_saver'[b] = cache_saver[b]
  BY DEF CacheInv, CacheTypeOK, Cache!Change
<1>3. FileFollowsMemory'
  BY <1>2 DEF FileFollowsMemory, Cache!FileCurrent, Cache!Saving
<1>4. messages' = d /\ UNCHANGED <<cache_file, cache_json, cache_stale>>
  BY DEF Cache!Change
<1>5. CacheTypeOK'
  BY <1>2, <1>4 DEF CacheInv, CacheTypeOK, Fits, Held
<1>6. \A b \in Callers : cache_saver'[b] = "orphan" => Written(cache_json[b]) /\ cache_stale
  BY <1>2 DEF CacheInv
<1>. QED BY <1>1, <1>3, <1>4, <1>5, <1>6 DEF CacheInv

\* What a save may write is fit to be found in the file.
LEMMA JsonWritten ==
  ASSUME CacheInv, NEW c \in Callers, cache_saver[c] \in {"writing", "orphan"}
  PROVE  Written(cache_json[c])
BY DEF CacheInv, Written

LEMMA BeginSaveInv ==
  ASSUME CacheInv, NEW c \in Callers, Cache!BeginSave(c), UNCHANGED now
  PROVE  CacheInv'
<1>1. /\ cache_saver' \in [Callers -> {"no", "due", "writing", "orphan"}]
      /\ cache_saver'[c] = "writing"
      /\ \A b \in Callers \ {c} : cache_saver'[b] = cache_saver[b]
  BY DEF CacheInv, CacheTypeOK, Cache!BeginSave
<1>2. PICK torn : cache_json' = [b \in Callers |-> IF b \in torn THEN Unreadable
                                   ELSE IF b = c THEN messages ELSE cache_json[b]]
  BY DEF Cache!BeginSave
<1>3. /\ DOMAIN cache_json' = Callers /\ cache_json' = [b \in Callers |-> cache_json'[b]]
      /\ cache_json'[c] \in {messages, Unreadable}
      /\ \A b \in Callers \ {c} : cache_json'[b] \in {cache_json[b], Unreadable}
  BY <1>2
<1>4. UNCHANGED <<messages, cache_file, cache_stale>>
  BY DEF Cache!BeginSave
<1>5. FileFollowsMemory'
  BY <1>1 DEF FileFollowsMemory, Cache!FileCurrent, Cache!Saving
<1>6. CacheTypeOK' /\ Fits(messages') /\ Written(cache_file')
  BY <1>1, <1>4 DEF CacheInv, CacheTypeOK
<1>7. \A b \in Callers : cache_saver'[b] = "writing" => cache_json'[b] \in {messages, Unreadable}
  BY <1>1, <1>3 DEF CacheInv
<1>8. ASSUME NEW b \in Callers, cache_saver'[b] = "orphan"
      PROVE  Written(cache_json'[b]) /\ cache_stale
  <2>1. b \in Callers \ {c} /\ cache_saver[b] = "orphan"
    BY <1>1, <1>8
  <2>2. Written(cache_json[b]) /\ cache_stale
    BY <2>1 DEF CacheInv
  <2>. QED BY <1>3, <2>1, <2>2 DEF Written
<1>. QED BY <1>3, <1>4, <1>5, <1>6, <1>7, <1>8 DEF CacheInv

LEMMA EndSaveInv ==
  ASSUME CacheInv, NEW c \in Callers, Cache!EndSave(c), UNCHANGED now
  PROVE  CacheInv'
<1>1. /\ cache_saver' \in [Callers -> {"no", "due", "writing", "orphan"}] /\ cache_saver'[c] = "no"
      /\ \A b \in Callers \ {c} : cache_saver'[b] = cache_saver[b]
  BY DEF CacheInv, CacheTypeOK, Cache!EndSave
<1>2. /\ DOMAIN cache_json' = Callers /\ cache_json' = [b \in Callers |-> cache_json'[b]]
      /\ \A b \in Callers \ {c} : cache_json'[b] = cache_json[b]
  BY DEF CacheInv, Cache!EndSave
<1>3. /\ cache_saver[c] \in {"writing", "orphan"} /\ messages' = messages
      /\ cache_file' = cache_json[c] /\ cache_stale' \in BOOLEAN
      /\ cache_stale' <=> \/ cache_saver[c] = "orphan" \/ cache_json[c] = Unreadable
                           \/ \E b \in Callers : cache_saver[b] = "orphan"
  BY DEF Cache!EndSave
<1>4. FileFollowsMemory'
  <2>1. CASE cache_stale'
    BY <2>1 DEF FileFollowsMemory, Cache!FileCurrent
  <2>2. CASE ~cache_stale'
    <3>1. cache_saver[c] = "writing" /\ cache_json[c] # Unreadable
      BY <1>3, <2>2
    <3>2. cache_file' = messages'
      BY <1>3, <3>1 DEF CacheInv
    <3>. QED BY <3>2 DEF FileFollowsMemory, Cache!FileCurrent
  <2>. QED BY <2>1, <2>2
<1>5. CacheTypeOK' /\ Fits(messages')
  BY <1>1, <1>3 DEF CacheInv, CacheTypeOK
<1>6. Written(cache_file')
  BY <1>3, JsonWritten
<1>7. \A b \in Callers : cache_saver'[b] = "writing" => cache_json'[b] \in {messages, Unreadable}
  BY <1>1, <1>2 DEF CacheInv
<1>8. ASSUME NEW b \in Callers, cache_saver'[b] = "orphan"
      PROVE  Written(cache_json'[b]) /\ cache_stale'
  <2>1. b \in Callers \ {c} /\ cache_saver[b] = "orphan"
    BY <1>1, <1>8
  <2>2. Written(cache_json[b]) /\ cache_stale'
    BY <1>3, <2>1 DEF CacheInv
  <2>. QED BY <1>2, <2>1, <2>2
<1>. QED BY <1>2, <1>3, <1>4, <1>5, <1>6, <1>7, <1>8 DEF CacheInv

\* A save that ends badly, or goes on without its task, leaves the file untrusted.
LEMMA BrokenSaveInv ==
  ASSUME CacheInv, NEW c \in Callers, Cache!FailSave(c) \/ Cache!AbandonSave(c), UNCHANGED now
  PROVE  CacheInv'
<1>1. /\ cache_saver' \in [Callers -> {"no", "due", "writing", "orphan"}]
      /\ cache_saver'[c] = "no" \/ (cache_saver'[c] = "orphan" /\ cache_saver[c] = "writing"
                                     /\ cache_json' = cache_json)
      /\ \A b \in Callers \ {c} : cache_saver'[b] = cache_saver[b]
  BY DEF CacheInv, CacheTypeOK, Cache!FailSave, Cache!AbandonSave
<1>2. /\ DOMAIN cache_json' = Callers /\ cache_json' = [b \in Callers |-> cache_json'[b]]
      /\ \A b \in Callers \ {c} : cache_json'[b] = cache_json[b]
  BY DEF CacheInv, Cache!FailSave, Cache!AbandonSave
<1>3. UNCHANGED messages /\ cache_stale' = TRUE
  BY DEF Cache!FailSave, Cache!AbandonSave
<1>4. cache_file' = cache_file \/ cache_file' = <<>> \/ cache_file' = Unreadable
  BY DEF Cache!FailSave, Cache!AbandonSave
<1>5. FileFollowsMemory'
  BY <1>3 DEF FileFollowsMemory, Cache!FileCurrent
<1>6. CacheTypeOK' /\ Fits(messages') /\ Written(cache_file')
  BY <1>1, <1>3, <1>4, EmptyFits DEF CacheInv, CacheTypeOK, Written
<1>7. \A b \in Callers : cache_saver'[b] = "writing" => cache_json'[b] \in {messages, Unreadable}
  BY <1>1, <1>2 DEF CacheInv
<1>8. ASSUME NEW b \in Callers, cache_saver'[b] = "orphan" PROVE Written(cache_json'[b])
  <2>1. CASE b = c
    BY <1>1, <1>8, <2>1, JsonWritten
  <2>2. CASE b # c
    BY <1>1, <1>2, <1>8, <2>2, JsonWritten
  <2>. QED BY <2>1, <2>2
<1>. QED BY <1>2, <1>3, <1>5, <1>6, <1>7, <1>8 DEF CacheInv

LEMMA RestartInv ==
  ASSUME CacheInv, CacheRestart
  PROVE  CacheInv'
<1>1. PICK content \in Cache!AfterCrash : Cache!Load(content)
  BY DEF CacheRestart
<1>2. Fits(content)
  <2>1. content \in {cache_file, <<>>, Unreadable} /\ content # Unreadable
    BY <1>1 DEF Cache!AfterCrash, Cache!Load
  <2>. QED BY <2>1, EmptyFits DEF CacheInv, Written
<1>3. /\ messages' = content /\ cache_file' = content /\ cache_stale' = FALSE /\ now' = now
      /\ cache_saver' = [c \in Callers |-> "no"] /\ cache_json' = [c \in Callers |-> <<>>]
  BY <1>1 DEF Cache!Load, CacheRestart
<1>4. FileFollowsMemory'
  BY <1>3 DEF FileFollowsMemory, Cache!FileCurrent
<1>5. CacheTypeOK'
  <2>1. Held(messages')
    BY <1>2, <1>3 DEF Fits
  <2>2. cache_saver' \in [Callers -> {"no", "due", "writing", "orphan"}] /\ now' \in 0 .. MaxNow
    BY <1>3 DEF CacheInv, CacheTypeOK
  <2>. QED BY <1>3, <2>1, <2>2 DEF CacheTypeOK, Held
<1>. QED BY <1>2, <1>3, <1>4, <1>5 DEF CacheInv, Written

-----------------------------------------------------------------------------
(* The steps of the cache                                                  *)

\* What the two evictions leave, whether the message is then stored or not.
LEMMA StoreRoom ==
  ASSUME CacheInv, NEW d \in Devices, NEW kept \in FitDevice(d)
  PROVE  /\ Fits(kept) /\ Thinned(messages, kept)
         /\ CountOf(kept, d) >= MaxPerDevice => kept = messages
         /\ Fits(FitTotal(kept)) /\ Thinned(messages, FitTotal(kept))
         /\ CountOf(FitTotal(kept), d) <= CountOf(kept, d)
         /\ Cardinality(DOMAIN FitTotal(kept)) >= MaxTotal => FitTotal(kept) = messages
<1>0. Fits(messages) /\ now \in Nat
  BY CacheAssumption DEF CacheInv, CacheTypeOK
<1>1. /\ Fits(kept) /\ Thinned(messages, kept)
      /\ CountOf(kept, d) >= MaxPerDevice => kept = messages
  BY <1>0, DeviceRoom
<1>2. /\ Thinned(kept, FitTotal(kept)) /\ Fits(FitTotal(kept))
      /\ CountOf(FitTotal(kept), d) <= CountOf(kept, d)
      /\ Cardinality(DOMAIN FitTotal(kept)) >= MaxTotal => FitTotal(kept) = kept
  BY <1>0, <1>1, TotalRoom
<1>3. PICK K \in SUBSET DOMAIN messages :
        /\ kept = Restrict(messages, K)
        /\ \A i \in DOMAIN messages \ K : messages[i].delivered \/ messages[i].expires <= now
  BY <1>1 DEF Thinned
<1>4. DOMAIN kept = K /\ \A i \in K : kept[i] = messages[i]
  BY <1>3 DEF Restrict
<1>5. Thinned(messages, FitTotal(kept))
  <2>1. PICK J \in SUBSET DOMAIN kept :
          /\ FitTotal(kept) = Restrict(kept, J)
          /\ \A i \in DOMAIN kept \ J : kept[i].delivered \/ kept[i].expires <= now
    BY <1>2 DEF Thinned
  <2>2. J \in SUBSET DOMAIN messages /\ J \subseteq K
    BY <1>4
  <2>3. FitTotal(kept) = Restrict(messages, J)
    BY <1>4, <2>1, <2>2 DEF Restrict
  <2>4. \A i \in DOMAIN messages \ J : messages[i].delivered \/ messages[i].expires <= now
    BY <1>3, <1>4, <2>1
  <2>. QED BY <2>2, <2>3, <2>4 DEF Thinned
<1>6. ASSUME Cardinality(DOMAIN FitTotal(kept)) >= MaxTotal PROVE FitTotal(kept) = messages
  <2>1. FitTotal(kept) = kept /\ Cardinality(K) >= MaxTotal
    BY <1>2, <1>4, <1>6
  <2>2. /\ Cardinality(DOMAIN messages) <= MaxTotal /\ IsFiniteSet(DOMAIN messages)
        /\ Cardinality(DOMAIN messages) \in Nat /\ Cardinality(K) \in Nat /\ MaxTotal \in Nat
    BY <1>0, <1>1, <1>4, CountIsNat, CacheAssumption DEF Fits, Held
  <2>3. K = DOMAIN messages
    BY <2>1, <2>2, FS_Subset
  <2>. QED BY <1>0, <1>3, <2>1, <2>3, RestrictAll DEF Fits
<1>. QED BY <1>1, <1>2, <1>5, <1>6

LEMMA StoreAcceptedInv ==
  ASSUME CacheInv, NEW c \in Callers, NEW m \in Messages, StoreAccepted(c, m)
  PROVE  CacheInv'
<1>1. PICK kept \in FitDevice(m.device) :
        /\ CountOf(kept, m.device) < MaxPerDevice
        /\ Cardinality(DOMAIN FitTotal(kept)) < MaxTotal
        /\ Cache!Change(c, [i \in DOMAIN FitTotal(kept) \cup {m.id} |->
                               IF i = m.id THEN m ELSE FitTotal(kept)[i]])
  BY DEF StoreAccepted
<1>2. m.device \in Devices
  BY CacheAssumption
<1>3. /\ Fits(kept) /\ Fits(FitTotal(kept))
      /\ CountOf(FitTotal(kept), m.device) <= CountOf(kept, m.device)
  BY <1>2, StoreRoom
<1>4. CountOf(FitTotal(kept), m.device) < MaxPerDevice
  <2>1. /\ CountOf(kept, m.device) \in Nat /\ CountOf(FitTotal(kept), m.device) \in Nat
        /\ MaxPerDevice \in Nat
    BY <1>3, CountIsNat, CacheAssumption DEF Fits
  <2>. QED BY <1>1, <1>3, <2>1
<1>5. Fits([i \in DOMAIN FitTotal(kept) \cup {m.id} |->
              IF i = m.id THEN m ELSE FitTotal(kept)[i]])
  BY <1>1, <1>3, <1>4, InsertFits
<1>6. UNCHANGED now
  BY DEF StoreAccepted
<1>. QED BY <1>1, <1>5, <1>6, ChangeInv

\* A refused store changes nothing: what was evicted would have made room.
LEMMA StoreRefusedKeeps ==
  ASSUME CacheInv, NEW c \in Callers, NEW m \in Messages, StoreRefused(c, m)
  PROVE  UNCHANGED <<cacheVars, now>>
<1>1. PICK kept \in FitDevice(m.device) :
        \/ /\ CountOf(kept, m.device) >= MaxPerDevice
           /\ Cache!ChangeUnsaved(kept)
        \/ /\ Cardinality(DOMAIN FitTotal(kept)) >= MaxTotal
           /\ Cache!ChangeUnsaved(FitTotal(kept))
  BY DEF StoreRefused
<1>2. m.device \in Devices
  BY CacheAssumption
<1>3. Cache!ChangeUnsaved(messages)
  BY <1>1, <1>2, StoreRoom
<1>. QED BY <1>3 DEF Cache!ChangeUnsaved, StoreRefused, cacheVars

LEMMA UnchangedInv ==
  ASSUME CacheInv, UNCHANGED cacheVars, now' \in 0 .. MaxNow
  PROVE  CacheInv'
<1>1. UNCHANGED <<messages, cache_file, cache_saver, cache_json, cache_stale>>
  BY DEF cacheVars
<1>2. CacheTypeOK'
  BY <1>1 DEF CacheInv, CacheTypeOK
<1>3. FileFollowsMemory'
  BY <1>1 DEF CacheInv, FileFollowsMemory, Cache!FileCurrent, Cache!Saving
<1>. QED BY <1>1, <1>2, <1>3 DEF CacheInv

LEMMA CleanupRestricts ==
  ASSUME CacheInv
  PROVE  Fits(Unexpired(messages)) /\ Thinned(messages, Unexpired(messages))
<1>. DEFINE K == {i \in DOMAIN messages : messages[i].expires > now}
<1>1. Fits(messages) /\ now \in Nat
  BY CacheAssumption DEF CacheInv, CacheTypeOK
<1>2. Unexpired(messages) = Restrict(messages, K)
  BY DEF Unexpired
<1>3. \A i \in DOMAIN messages \ K : messages[i].expires <= now
  BY <1>1, MessageFields DEF Fits
<1>. QED BY <1>1, <1>2, <1>3, RestrictFits DEF Thinned

LEMMA CacheNextInv == CacheInv /\ [CacheNext]_<<cacheVars, now>> => CacheInv'
<1> SUFFICES ASSUME CacheInv, [CacheNext]_<<cacheVars, now>>
             PROVE  CacheInv'
  OBVIOUS
<1>a. now \in 0 .. MaxNow /\ Fits(messages)
  BY DEF CacheInv, CacheTypeOK
<1>1. CASE \E c \in Callers, m \in Messages : StoreAccepted(c, m)
  BY <1>1, StoreAcceptedInv
<1>2. CASE \E c \in Callers, m \in Messages : StoreRefused(c, m)
  BY <1>a, <1>2, StoreRefusedKeeps, UnchangedInv
<1>3. CASE \E c \in Callers, ids \in SUBSET Ids : Mark_delivered(c, ids)
  <2>1. PICK c \in Callers, ids \in SUBSET Ids : Mark_delivered(c, ids)
    BY <1>3
  <2>. QED BY <1>a, <2>1, MarkFits, ChangeInv DEF Mark_delivered
<1>4. CASE \E c \in Callers : Cleanup_expired(c)
  <2>1. PICK c \in Callers : Cleanup_expired(c)
    BY <1>4
  <2>2. CASE Unexpired(messages) = messages
    BY <1>a, <2>1, <2>2, UnchangedInv DEF Cleanup_expired, Cache!ChangeUnsaved, cacheVars
  <2>3. CASE Unexpired(messages) # messages
    BY <2>1, <2>3, CleanupRestricts, ChangeInv DEF Cleanup_expired
  <2>. QED BY <2>2, <2>3
<1>5. CASE \E c \in Callers : CacheSave(c) \/ CacheHangUp(c)
  BY <1>5, BeginSaveInv, EndSaveInv, BrokenSaveInv DEF CacheSave, Cache!SaveStep, CacheHangUp
<1>6. CASE \E c \in Callers, d \in Devices : Delete_device_messages(c, d)
  <2>1. PICK c \in Callers, d \in Devices : Delete_device_messages(c, d)
    BY <1>6
  <2>2. Fits(Restrict(messages, {i \in DOMAIN messages : messages[i].device # d}))
    BY <1>a, RestrictFits
  <2>. QED BY <2>1, <2>2, ChangeInv DEF Delete_device_messages
<1>7. CASE CacheRestart
  BY <1>7, RestartInv
<1>8. CASE Tick
  BY <1>a, <1>8, CacheAssumption, UnchangedInv DEF Tick
<1>9. CASE UNCHANGED <<cacheVars, now>>
  BY <1>a, <1>9, UnchangedInv
<1>. QED BY <1>1, <1>2, <1>3, <1>4, <1>5, <1>6, <1>7, <1>8, <1>9 DEF CacheNext

LEMMA CacheInitInv == CacheInit => CacheInv
<1> SUFFICES ASSUME CacheInit PROVE CacheInv
  OBVIOUS
<1>1. /\ messages = <<>> /\ cache_file = <<>> /\ cache_stale = FALSE /\ now = 0
      /\ cache_saver = [c \in Callers |-> "no"] /\ cache_json = [c \in Callers |-> <<>>]
  BY DEF CacheInit, Cache!JsonInit
<1>2. Fits(messages) /\ Held(messages)
  BY <1>1, EmptyFits DEF Fits
<1>3. CacheTypeOK
  <2>1. now \in 0 .. MaxNow
    BY <1>1, CacheAssumption
  <2>2. cache_stale \in BOOLEAN
    BY <1>1
  <2>. QED BY <1>1, <1>2, <2>1, <2>2 DEF CacheTypeOK, Held
<1>4. FileFollowsMemory
  BY <1>1 DEF FileFollowsMemory, Cache!FileCurrent
<1>. QED BY <1>1, <1>2, <1>3, <1>4 DEF CacheInv, Written

LEMMA CacheInvariant == CacheSpec => []CacheInv
BY CacheInitInv, CacheNextInv, PTL DEF CacheSpec

\* The cache only ever holds messages that were handed to store, each under its
\* own id.
THEOREM CacheTypeCorrect == CacheSpec => []CacheTypeOK
<1>1. CacheInv => CacheTypeOK
  BY DEF CacheInv
<1>. QED BY <1>1, CacheInvariant, PTL

\* Whatever operations, failing saves and restarts meet, no device and no cache
\* holds more messages than configured (store, evict_messages_locked,
\* evict_global_locked).
THEOREM LimitsAlwaysHeld == CacheSpec => []LimitsHeld
<1>1. CacheInv => LimitsHeld
  BY DEF CacheInv, Fits, LimitsHeld
<1>. QED BY <1>1, CacheInvariant, PTL

\* Once nobody writes, the file holds what memory holds, unless the last save failed,
\* was dropped with its handler, or met what another dropped handler was writing
\* (save, and every operation that calls it).
THEOREM FileAlwaysFollows == CacheSpec => []FileFollowsMemory
<1>1. CacheInv => FileFollowsMemory
  BY DEF CacheInv
<1>. QED BY <1>1, CacheInvariant, PTL

\* A message of what Thinned leaves is as it was.
LEMMA ThinnedKeeps ==
  ASSUME CacheInv, NEW f, Thinned(messages, f), NEW i \in DOMAIN messages,
         ~(messages[i].delivered \/ messages[i].expires <= now)
  PROVE  i \in DOMAIN f /\ f[i] = messages[i]
BY DEF Thinned, Restrict

\* No change of a message at all is a change up to its delivery.
LEMMA SameKept ==
  ASSUME CacheInv, NEW i \in DOMAIN messages, i \in DOMAIN messages', messages'[i] = messages[i]
  PROVE  Kept(i)
<1>1. messages[i] = [messages[i] EXCEPT !.delivered = messages[i].delivered]
  <2>1. PICK m \in Messages, b \in BOOLEAN : messages[i] = [m EXCEPT !.delivered = b]
    BY DEF CacheInv, Fits, Held
  <2>2. m \in [id : Ids, device : Devices, rank : Nat, expires : Nat, delivered : BOOLEAN]
    BY CacheAssumption
  <2>. QED BY <2>1, <2>2
<1>2. messages[i].delivered \in BOOLEAN
  BY MessageFields DEF CacheInv, Fits
<1>. QED BY <1>1, <1>2 DEF Kept

LEMMA StepLosesNothing ==
  ASSUME CacheInv, [CacheNext]_<<cacheVars, now>>, ~CacheRestart,
         ~(\E c \in Callers, d \in Devices : Delete_device_messages(c, d)),
         NEW i \in DOMAIN messages,
         ~(messages[i].delivered \/ messages[i].expires <= now)
  PROVE  Kept(i) \/ \E c \in Callers, m \in Messages : m.id = i /\ StoreAccepted(c, m)
<1>1. CASE \E c \in Callers, m \in Messages : StoreAccepted(c, m)
  <2>1. PICK c \in Callers, m \in Messages : StoreAccepted(c, m)
    BY <1>1
  <2>2. PICK kept \in FitDevice(m.device) :
          messages' = [j \in DOMAIN FitTotal(kept) \cup {m.id} |->
                         IF j = m.id THEN m ELSE FitTotal(kept)[j]]
    BY <2>1 DEF StoreAccepted, Cache!Change
  <2>3. m.device \in Devices
    BY CacheAssumption
  <2>4. Thinned(messages, FitTotal(kept))
    BY <2>3, StoreRoom
  <2>5. i \in DOMAIN FitTotal(kept) /\ FitTotal(kept)[i] = messages[i]
    BY <2>4, ThinnedKeeps
  <2>6. CASE m.id = i
    BY <2>1, <2>6
  <2>7. CASE m.id # i
    BY <2>2, <2>5, <2>7, SameKept
  <2>. QED BY <2>6, <2>7
<1>2. CASE \E c \in Callers, m \in Messages : StoreRefused(c, m)
  BY <1>2, StoreRefusedKeeps, SameKept DEF cacheVars
<1>3. CASE \E c \in Callers, ids \in SUBSET Ids : Mark_delivered(c, ids)
  <2>1. \/ i \in DOMAIN messages' /\ messages'[i] = [messages[i] EXCEPT !.delivered = TRUE]
        \/ i \in DOMAIN messages' /\ messages'[i] = messages[i]
    BY <1>3 DEF Mark_delivered, Cache!Change
  <2>. QED BY <2>1, SameKept DEF Kept
<1>4. CASE \E c \in Callers : Cleanup_expired(c)
  <2>1. messages' = Unexpired(messages)
    BY <1>4 DEF Cleanup_expired, Cache!Change, Cache!ChangeUnsaved
  <2>. QED BY <2>1, CleanupRestricts, ThinnedKeeps, SameKept
<1>5. CASE \E c \in Callers : CacheSave(c) \/ CacheHangUp(c)
  <2>1. messages' = messages
    BY <1>5 DEF CacheSave, CacheHangUp, Cache!SaveStep, Cache!BeginSave, Cache!EndSave,
                Cache!FailSave, Cache!AbandonSave
  <2>. QED BY <2>1, SameKept
<1>6. CASE Tick \/ UNCHANGED <<cacheVars, now>>
  <2>1. messages' = messages
    BY <1>6 DEF Tick, cacheVars
  <2>. QED BY <2>1, SameKept
<1>. QED BY <1>1, <1>2, <1>3, <1>4, <1>5, <1>6 DEF CacheNext

\* A message that is neither delivered nor expired stays as it is, whatever the limits
\* are, until its device goes, the process stops, or a message of its id is accepted
\* (store, evict_messages_locked, evict_global_locked, cleanup_expired).
THEOREM NothingLostSilently == CacheSpec => NoSilentLoss
<1>1. CacheInv /\ [CacheNext]_<<cacheVars, now>> =>
        [~CacheRestart /\ ~(\E c \in Callers, d \in Devices : Delete_device_messages(c, d)) =>
           \A i \in DOMAIN messages :
             \/ messages[i].delivered \/ messages[i].expires <= now
             \/ Kept(i)
             \/ \E c \in Callers, m \in Messages : m.id = i /\ StoreAccepted(c, m)]_<<cacheVars, now>>
  BY StepLosesNothing
<1>. QED BY <1>1, CacheInvariant, PTL DEF CacheSpec, NoSilentLoss

-----------------------------------------------------------------------------
(* The manager with its cache                                              *)

Storing(c) == call[c].at \in {"pair", "preferences"}

\* d has the token t somewhere.
Holds(d, t) ==
  \/ d \in DOMAIN devices /\ devices[d] = t
  \/ device_file # Unreadable /\ d \in DOMAIN device_file /\ device_file[d] = t
  \/ \E c \in Callers : /\ device_json[c] # Unreadable
                         /\ d \in DOMAIN device_json[c] /\ device_json[c][d] = t
  \/ \E c \in Callers : Storing(c) /\ call[c].device = d /\ call[c].token = t

\* The local variables of the calls.
Places == {"none", "find", "request", "pair", "preferences", "seen", "unpair", "purge", "cache",
           "expire", "save"}
Calls == [at : Places, device : Devices \cup {None}, token : Tokens \cup {None},
          message : Messages \cup {None}]
CallInv ==
  /\ call \in [Callers -> Calls]
  /\ \A c \in Callers :
       /\ call[c].at \in {"find", "request", "pair", "preferences", "unpair", "purge"}
            => call[c].device \in Devices
       /\ call[c].at = "cache" => call[c].message \in Messages

TokenInv ==
  /\ used \subseteq Tokens /\ DOMAIN pending \subseteq used
  /\ verdict \in [Tokens -> {"none", "approved", "rejected"}]
  /\ \A t \in DOMAIN pending : RequireApproval /\ pending[t].approved => verdict[t] = "approved"

HolderInv ==
  /\ DOMAIN device_json = Callers
  /\ \A d, t : Holds(d, t) =>
       /\ d \in Devices /\ t \in used /\ t \notin DOMAIN pending
       /\ RequireApproval => verdict[t] = "approved"
  /\ \A d, e, t : Holds(d, t) /\ Holds(e, t) => d = e

PairingInv == CallInv /\ TokenInv /\ HolderInv

LEMMA CallerFacts ==
  /\ Requests \subseteq Callers /\ "cleanup" \in Callers
  /\ NoCall \in Calls /\ None \notin Tokens /\ None \notin Devices /\ None \notin Messages
BY ApplianceAssumption DEF NoCall, Calls, Places

-----------------------------------------------------------------------------
(* Calls                                                                   *)

\* What a step may do with the calls.
LEMMA BeginInv ==
  ASSUME CallInv, NEW c \in Callers, NEW r \in Calls, call' = [call EXCEPT ![c] = r],
         r.at \in {"find", "request", "pair", "preferences", "unpair", "purge"} => r.device \in Devices,
         r.at = "cache" => r.message \in Messages
  PROVE  CallInv'
BY DEF CallInv

LEMMA GotoInv ==
  ASSUME CallInv, NEW c \in Callers, NEW at \in Places, Goto(c, at),
         at \in {"find", "request", "pair", "preferences", "unpair", "purge"} =>
           call[c].device \in Devices,
         at # "cache"
  PROVE  CallInv'
BY DEF CallInv, Goto, Calls

LEMMA ReturnInv ==
  ASSUME CallInv, NEW c \in Callers, Return(c)
  PROVE  CallInv'
BY CallerFacts DEF CallInv, Return, NoCall

LEMMA CallStepInv ==
  ASSUME CallInv, NEW c \in Callers, CallStep(c)
  PROVE  CallInv'
<1>1. CASE InitiateFind(c)
  BY <1>1, GotoInv, ReturnInv DEF Places, InitiateFind, CallInv
<1>2. CASE \E t \in Tokens : InitiateRequest(c, t)
  BY <1>2, ReturnInv DEF InitiateRequest
<1>3. CASE StoreDevice(c) \/ UpdateLastSeen(c)
  BY <1>3, GotoInv DEF Places, StoreDevice, UpdateLastSeen
<1>4. CASE DeviceSave(c)
  BY <1>4, GotoInv, ReturnInv DEF Places, DeviceSave, CallInv
<1>5. CASE PurgeMessages(c)
  BY <1>5, GotoInv DEF Places, PurgeMessages
<1>6. CASE StoreMessage(c)
  BY <1>6, GotoInv, ReturnInv DEF Places, StoreMessage
<1>7. CASE SaveMessages(c)
  BY <1>7, ReturnInv DEF SaveMessages, CallInv
<1>. QED BY <1>1, <1>2, <1>3, <1>4, <1>5, <1>6, <1>7 DEF CallStep

LEMMA RequestInv ==
  ASSUME CallInv, TokenInv, HolderInv, NEW c \in Requests, NEW d \in Devices,
         \/ Initiate_pairing(c, d) \/ Unpair_device(c, d)
         \/ Update_device_preferences(c, d) \/ Retrieve_messages(c, d)
         \/ \E t \in Tokens : Complete_pairing(c, t, d)
  PROVE  CallInv'
<1>. USE CallerFacts
<1>1. CASE Initiate_pairing(c, d)
  BY <1>1, BeginInv DEF Initiate_pairing, Begin, Calls, Places
<1>2. CASE Unpair_device(c, d)
  BY <1>2, BeginInv DEF Unpair_device, Begin, Calls, Places
<1>3. CASE Update_device_preferences(c, d)
  <2>1. Holds(d, devices[d])
    BY <1>3 DEF Holds, Update_device_preferences
  <2>2. devices[d] \in Tokens
    BY <2>1 DEF HolderInv, TokenInv
  <2>. QED BY <1>3, <2>2, BeginInv DEF Update_device_preferences, Begin, Calls, Places
<1>4. CASE Retrieve_messages(c, d)
  BY <1>4, BeginInv DEF Retrieve_messages, Begin, Calls, Places
<1>5. CASE \E t \in Tokens : Complete_pairing(c, t, d)
  BY <1>5, BeginInv DEF Complete_pairing, CallInv, Begin, Calls, Places
<1>. QED BY <1>1, <1>2, <1>3, <1>4, <1>5

LEMMA CallNextInv ==
  ASSUME PairingInv, [Next]_vars
  PROVE  CallInv'
<1>. USE CallerFacts DEF PairingInv
<1>1. CASE \E c \in Requests : \E d \in Devices :
             \/ Initiate_pairing(c, d) \/ Unpair_device(c, d)
             \/ Update_device_preferences(c, d) \/ Retrieve_messages(c, d)
  BY <1>1, RequestInv
<1>2. CASE \E c \in Requests : \E t \in Tokens, d \in Devices : Complete_pairing(c, t, d)
  BY <1>2, RequestInv
<1>3. CASE \E c \in Requests : \E m \in Messages : Cache_message(c, m)
  BY <1>3, BeginInv DEF Cache_message, Begin, Calls, Places
<1>4. CASE \E c \in Requests : \E ids \in SUBSET Ids : Mark_messages_delivered(c, ids)
  BY <1>4, BeginInv DEF Mark_messages_delivered, Begin, Calls, Places
<1>5. CASE \E t \in Tokens : Approve_pairing(t) \/ Reject_pairing(t)
  BY <1>5 DEF Approve_pairing, Reject_pairing, CallInv
<1>6. CASE \E c \in Callers : CallStep(c)
  BY <1>6, CallStepInv
<1>7. CASE CleanupPairings
  BY <1>7, BeginInv DEF CleanupPairings, Begin, Calls, Places
<1>8. CASE CleanupMessages
  BY <1>8, GotoInv, ReturnInv DEF Places, CleanupMessages
<1>9. CASE Restart
  BY <1>9 DEF Restart, CallInv, NoCall
<1>10. CASE ClockTick \/ UNCHANGED vars
  BY <1>10 DEF ClockTick, vars, CallInv
<1>11. CASE \E c \in Requests : HangUp(c)
  BY <1>11, ReturnInv DEF HangUp
<1>. QED BY <1>1, <1>2, <1>3, <1>4, <1>5, <1>6, <1>7, <1>8, <1>9, <1>10, <1>11 DEF Next

-----------------------------------------------------------------------------
(* Tokens                                                                  *)

\* The steps that change the pending pairings, or what the owner said.
PairingStep ==
  \/ \E c \in Callers, t \in Tokens : InitiateRequest(c, t)
  \/ \E t \in Tokens : Approve_pairing(t) \/ Reject_pairing(t)
  \/ \E c \in Requests, t \in Tokens, d \in Devices : Complete_pairing(c, t, d)
  \/ CleanupPairings
  \/ Restart

LEMMA OtherSteps ==
  ASSUME [Next]_vars, ~PairingStep
  PROVE  UNCHANGED pairingVars
<1>1. CASE \E c \in Requests : \E d \in Devices :
             \/ Initiate_pairing(c, d) \/ Unpair_device(c, d)
             \/ Update_device_preferences(c, d) \/ Retrieve_messages(c, d)
  BY <1>1 DEF Initiate_pairing, Unpair_device, Update_device_preferences, Retrieve_messages
<1>2. CASE \E c \in Requests : \/ \E m \in Messages : Cache_message(c, m)
                              \/ \E ids \in SUBSET Ids : Mark_messages_delivered(c, ids)
  BY <1>2 DEF Cache_message, Mark_messages_delivered
<1>3. CASE \E c \in Callers : CallStep(c)
  <2>1. PICK c \in Callers : \/ InitiateFind(c) \/ StoreDevice(c) \/ UpdateLastSeen(c)
                             \/ DeviceSave(c) \/ PurgeMessages(c)
                             \/ StoreMessage(c) \/ SaveMessages(c)
    BY <1>3 DEF CallStep, PairingStep
  <2>. QED BY <2>1 DEF InitiateFind, StoreDevice, UpdateLastSeen, DeviceSave, PurgeMessages,
                       StoreMessage, SaveMessages
<1>4. CASE CleanupMessages \/ ClockTick \/ UNCHANGED vars
  BY <1>4 DEF CleanupMessages, ClockTick, vars
<1>5. CASE \E c \in Requests : HangUp(c)
  BY <1>5 DEF HangUp
<1>. QED BY <1>1, <1>2, <1>3, <1>4, <1>5 DEF Next, PairingStep

LEMMA TokenNextInv ==
  ASSUME PairingInv, [Next]_vars
  PROVE  TokenInv'
<1>. USE DEF PairingInv
<1>1. CASE \E c \in Callers, t \in Tokens : InitiateRequest(c, t)
  <2>1. PICK c \in Callers, t \in Tokens : InitiateRequest(c, t)
    BY <1>1
  <2>2. /\ DOMAIN pending' = DOMAIN pending \cup {t} /\ pending'[t].approved = ~RequireApproval
        /\ \A u \in DOMAIN pending : u # t => pending'[u] = pending[u]
        /\ used' = used \cup {t} /\ verdict' = verdict /\ t \notin DOMAIN pending
    BY <2>1 DEF InitiateRequest, Put, TokenInv
  <2>3. RequireApproval \in BOOLEAN
    BY ApplianceAssumption
  <2>. QED BY <2>2, <2>3 DEF TokenInv
<1>2. CASE \E t \in Tokens : Approve_pairing(t)
  <2>1. PICK t \in Tokens : Approve_pairing(t)
    BY <1>2
  <2>2. CASE Expired(t)
    BY <2>1, <2>2 DEF Approve_pairing, Without, Restrict, TokenInv
  <2>3. CASE ~Expired(t)
    <3>1. /\ DOMAIN pending' = DOMAIN pending
          /\ \A u \in DOMAIN pending : u # t => pending'[u] = pending[u]
          /\ verdict' = [verdict EXCEPT ![t] = "approved"] /\ used' = used
      BY <2>1, <2>3 DEF Approve_pairing
    <3>. QED BY <3>1 DEF TokenInv
  <2>. QED BY <2>2, <2>3
<1>3. CASE \E t \in Tokens : Reject_pairing(t)
  BY <1>3 DEF Reject_pairing, Without, Restrict, TokenInv
<1>4. CASE \E c \in Requests, t \in Tokens, d \in Devices : Complete_pairing(c, t, d)
  BY <1>4 DEF Complete_pairing, Without, Restrict, TokenInv
<1>5. CASE CleanupPairings
  BY <1>5 DEF CleanupPairings, Restrict, TokenInv
<1>6. CASE Restart
  BY <1>6 DEF Restart, TokenInv
<1>7. CASE ~PairingStep
  BY <1>7, OtherSteps DEF pairingVars, TokenInv
<1>. QED BY <1>1, <1>2, <1>3, <1>4, <1>5, <1>6, <1>7 DEF PairingStep

-----------------------------------------------------------------------------
(* Holders                                                                 *)

\* A step that leaves the device store alone, and no call about to store that was
\* not so before, makes no holder.
LEMMA HoldsKept ==
  ASSUME UNCHANGED deviceVars, NEW d, NEW t, Holds(d, t)',
         \A c \in Callers : Storing(c)' => call'[c] = call[c]
  PROVE  Holds(d, t)
BY DEF Holds, Storing, deviceVars

LEMMA CallKept ==
  ASSUME CallInv, NEW c \in Callers, NEW b \in Callers,
         \/ \E at, d, t, m : at \notin {"pair", "preferences"} /\ Begin(c, at, d, t, m)
         \/ \E at : at \notin {"pair", "preferences"} /\ Goto(c, at)
         \/ Return(c)
         \/ UNCHANGED call,
         Storing(b)'
  PROVE  call'[b] = call[b]
<1>1. CASE b = c
  BY <1>1 DEF Storing, Begin, Goto, Return, NoCall, CallInv, Calls
<1>2. CASE b # c
  BY <1>2 DEF Begin, Goto, Return, CallInv
<1>. QED BY <1>1, <1>2

\* Changing the device store in memory: what it holds afterwards comes from d.
LEMMA ChangeHolds ==
  ASSUME NEW c \in Callers, NEW devs, DeviceFile!Change(c, devs),
         \A b \in Callers : Storing(b)' => call'[b] = call[b],
         NEW d, NEW t, Holds(d, t)'
  PROVE  Holds(d, t) \/ (d \in DOMAIN devs /\ devs[d] = t)
BY DEF Holds, Storing, DeviceFile!Change

LEMMA SaveHolds ==
  ASSUME CallInv, HolderInv, NEW c \in Callers, DeviceSave(c), NEW d, NEW t, Holds(d, t)'
  PROVE  Holds(d, t)
<1>1. devices' = devices
  BY DEF DeviceSave, DeviceFile!BeginSave, DeviceFile!EndSave, DeviceFile!FailSave
<1>2. ASSUME NEW b \in Callers, Storing(b)' PROVE call'[b] = call[b]
  BY <1>2, CallKept DEF DeviceSave
<1>3. \A b \in Callers : \/ device_json'[b] = device_json[b]
                          \/ device_json'[b] = devices
                          \/ device_json'[b] = <<>>
                          \/ device_json'[b] = Unreadable
  BY DEF HolderInv, DeviceSave, DeviceFile!BeginSave, DeviceFile!EndSave, DeviceFile!FailSave
<1>4. \/ device_file' \in {device_file, <<>>, Unreadable} \/ device_file' = device_json[c]
  BY DEF DeviceSave, DeviceFile!BeginSave, DeviceFile!EndSave, DeviceFile!FailSave
<1>5. DOMAIN <<>> = {}
  OBVIOUS
<1>. QED BY <1>1, <1>2, <1>3, <1>4, <1>5 DEF Holds, Storing

LEMMA CallStepHolds ==
  ASSUME PairingInv, NEW c \in Callers, CallStep(c), NEW d, NEW t, Holds(d, t)'
  PROVE  Holds(d, t)
<1>. USE DEF PairingInv
<1>1. CASE InitiateFind(c) \/ (\E u \in Tokens : InitiateRequest(c, u)) \/ PurgeMessages(c)
  <2>1. \A b \in Callers : Storing(b)' => call'[b] = call[b]
    BY <1>1, CallKept DEF InitiateFind, InitiateRequest, PurgeMessages
  <2>. QED BY <1>1, <2>1, HoldsKept DEF InitiateFind, InitiateRequest, PurgeMessages
<1>2. CASE StoreMessage(c) \/ SaveMessages(c)
  <2>1. \A b \in Callers : Storing(b)' => call'[b] = call[b]
    BY <1>2, CallKept DEF StoreMessage, SaveMessages
  <2>. QED BY <1>2, <2>1, HoldsKept DEF StoreMessage, SaveMessages
<1>3. CASE StoreDevice(c)
  <2>. DEFINE devs == Put(devices, call[c].device, call[c].token)
  <2>1. \A b \in Callers : Storing(b)' => call'[b] = call[b]
    BY <1>3, CallKept DEF StoreDevice
  <2>2. Holds(d, t) \/ (d \in DOMAIN devs /\ devs[d] = t)
    <3>1. DeviceFile!Change(c, devs)
      BY <1>3 DEF StoreDevice
    <3>. HIDE DEF devs
    <3>. QED BY <2>1, <3>1, ChangeHolds
  <2>3. Holds(call[c].device, call[c].token)
    BY <1>3 DEF StoreDevice, Holds, Storing
  <2>4. d \in DOMAIN devs /\ devs[d] = t =>
          (d = call[c].device /\ t = call[c].token) \/ (d \in DOMAIN devices /\ devices[d] = t)
    BY DEF Put
  <2>. QED BY <2>2, <2>3, <2>4 DEF Holds
<1>4. CASE UpdateLastSeen(c)
  <2>1. \A b \in Callers : Storing(b)' => call'[b] = call[b]
    BY <1>4, CallKept DEF UpdateLastSeen
  <2>2. Holds(d, t) \/ (d \in DOMAIN devices /\ devices[d] = t)
    BY <1>4, <2>1, ChangeHolds DEF UpdateLastSeen
  <2>. QED BY <2>2 DEF Holds
<1>5. CASE DeviceSave(c)
  BY <1>5, SaveHolds
<1>. QED BY <1>1, <1>2, <1>3, <1>4, <1>5 DEF CallStep

LEMMA HangUpHolds ==
  ASSUME PairingInv, NEW c \in Callers, HangUp(c), NEW d, NEW t, Holds(d, t)'
  PROVE  Holds(d, t)
<1>1. \A b \in Callers : Storing(b)' => call'[b] = call[b]
  BY CallKept DEF HangUp, PairingInv
<1>2. CASE UNCHANGED deviceVars
  BY <1>1, <1>2, HoldsKept
<1>3. CASE DeviceFile!AbandonSave(c)
  <2>1. /\ UNCHANGED <<devices, device_file>>
        /\ \A b \in Callers : device_json'[b] \in {device_json[b], <<>>}
    BY <1>3 DEF DeviceFile!AbandonSave, PairingInv, HolderInv
  <2>2. DOMAIN <<>> = {}
    OBVIOUS
  <2>. QED BY <1>1, <2>1, <2>2 DEF Holds, Storing
<1>. QED BY <1>2, <1>3 DEF HangUp

Completes(c, d, t) == Complete_pairing(c, t, d) /\ ~Expired(t)

LEMMA StepHolds ==
  ASSUME PairingInv, [Next]_vars,
         ~ \E c \in Requests, e \in Devices, u \in Tokens : Completes(c, e, u),
         NEW d, NEW t, Holds(d, t)'
  PROVE  Holds(d, t)
<1>. USE CallerFacts DEF PairingInv
<1>1. CASE \E c \in Requests, e \in Devices : Initiate_pairing(c, e) \/ Retrieve_messages(c, e)
  <2>1. \A b \in Callers : Storing(b)' => call'[b] = call[b]
    BY <1>1, CallKept DEF Initiate_pairing, Retrieve_messages
  <2>. QED BY <1>1, <2>1, HoldsKept DEF Initiate_pairing, Retrieve_messages
<1>2. CASE \E c \in Requests, e \in Devices : Unpair_device(c, e)
  <2>1. PICK c \in Requests, e \in Devices : Unpair_device(c, e)
    BY <1>2
  <2>2. \A b \in Callers : Storing(b)' => call'[b] = call[b]
    BY <2>1, CallKept DEF Unpair_device
  <2>3. Holds(d, t) \/ (d \in DOMAIN Without(devices, e) /\ Without(devices, e)[d] = t)
    BY <2>1, <2>2, ChangeHolds DEF Unpair_device
  <2>. QED BY <2>3 DEF Holds, Without, Restrict
<1>3. CASE \E c \in Requests, e \in Devices : Update_device_preferences(c, e)
  <2>1. PICK c \in Requests, e \in Devices : Update_device_preferences(c, e)
    BY <1>3
  <2>2. /\ e \in DOMAIN devices /\ UNCHANGED deviceVars
        /\ call' = [call EXCEPT ![c] = [at |-> "preferences", device |-> e,
                                        token |-> devices[e], message |-> None]]
    BY <2>1 DEF Update_device_preferences, Begin
  <2>3. call'[c].device = e /\ call'[c].token = devices[e]
        /\ \A b \in Callers \ {c} : call'[b] = call[b]
    BY <2>2 DEF CallInv
  <2>. QED BY <2>2, <2>3 DEF Holds, Storing, deviceVars
<1>4. CASE \E c \in Requests, e \in Devices, u \in Tokens : Complete_pairing(c, u, e)
  <2>1. PICK c \in Requests, e \in Devices, u \in Tokens : Complete_pairing(c, u, e) /\ Expired(u)
    BY <1>4 DEF Completes
  <2>2. UNCHANGED call /\ UNCHANGED deviceVars
    BY <2>1 DEF Complete_pairing
  <2>. QED BY <2>2, HoldsKept
<1>5. CASE \E c \in Requests : \/ \E m \in Messages : Cache_message(c, m)
                              \/ \E ids \in SUBSET Ids : Mark_messages_delivered(c, ids)
  <2>1. \A b \in Callers : Storing(b)' => call'[b] = call[b]
    BY <1>5, CallKept DEF Cache_message, Mark_messages_delivered
  <2>. QED BY <1>5, <2>1, HoldsKept DEF Cache_message, Mark_messages_delivered
<1>6. CASE \E u \in Tokens : Approve_pairing(u) \/ Reject_pairing(u)
  BY <1>6, HoldsKept DEF Approve_pairing, Reject_pairing
<1>7. CASE \E c \in Callers : CallStep(c)
  BY <1>7, CallStepHolds
<1>8. CASE CleanupPairings \/ CleanupMessages
  <2>1. \A b \in Callers : Storing(b)' => call'[b] = call[b]
    BY <1>8, CallKept DEF CleanupPairings, CleanupMessages
  <2>. QED BY <1>8, <2>1, HoldsKept DEF CleanupPairings, CleanupMessages
<1>9. CASE Restart
  <2>1. PICK content \in DeviceFile!AfterCrash : DeviceFile!Load(content)
    BY <1>9 DEF Restart
  <2>2. content \in {device_file, <<>>} /\ content # Unreadable
    BY <2>1 DEF DeviceFile!AfterCrash, DeviceFile!Load
  <2>3. /\ devices' = content /\ device_file' = content
        /\ device_json' = [b \in Callers |-> <<>>]
    BY <2>1 DEF DeviceFile!Load
  <2>4. \A b \in Callers : ~Storing(b)'
    BY <1>9 DEF Restart, Storing, NoCall
  <2>5. DOMAIN <<>> = {}
    OBVIOUS
  <2>6. d \in DOMAIN content /\ content[d] = t
    BY <2>3, <2>4, <2>5 DEF Holds
  <2>. QED BY <2>2, <2>5, <2>6 DEF Holds
<1>10. CASE ClockTick \/ UNCHANGED vars
  BY <1>10, HoldsKept DEF ClockTick, vars
<1>11. CASE \E c \in Requests : HangUp(c)
  BY <1>11, HangUpHolds
<1>. QED BY <1>1, <1>2, <1>3, <1>4, <1>5, <1>6, <1>7, <1>8, <1>9, <1>10, <1>11 DEF Next

\* What is known of a token that is no longer pending does not change.
LEMMA TokenKept ==
  ASSUME PairingInv, [Next]_vars, NEW t \in used, t \notin DOMAIN pending
  PROVE  t \in used' /\ t \notin DOMAIN pending' /\ verdict'[t] = verdict[t]
<1>. USE DEF PairingInv, TokenInv
<1>1. CASE \E c \in Callers, u \in Tokens : InitiateRequest(c, u)
  BY <1>1 DEF InitiateRequest, Put
<1>2. CASE \E u \in Tokens : Approve_pairing(u) \/ Reject_pairing(u)
  BY <1>2 DEF Approve_pairing, Reject_pairing, Without, Restrict
<1>3. CASE \E c \in Requests, u \in Tokens, d \in Devices : Complete_pairing(c, u, d)
  BY <1>3 DEF Complete_pairing, Without, Restrict
<1>4. CASE CleanupPairings \/ Restart
  BY <1>4 DEF CleanupPairings, Restart, Restrict
<1>5. CASE ~PairingStep
  BY <1>5, OtherSteps DEF pairingVars
<1>. QED BY <1>1, <1>2, <1>3, <1>4, <1>5 DEF PairingStep

LEMMA JsonDomain ==
  ASSUME PairingInv, [Next]_vars
  PROVE  DOMAIN device_json' = Callers
<1>1. DOMAIN device_json = Callers
  BY DEF PairingInv, HolderInv
<1>2. CASE \E c \in Callers : DeviceSave(c)
  BY <1>1, <1>2 DEF DeviceSave, DeviceFile!BeginSave, DeviceFile!EndSave, DeviceFile!FailSave
<1>3. CASE Restart
  BY <1>3 DEF Restart, DeviceFile!Load
<1>4. CASE \E c \in Requests, d \in Devices : Unpair_device(c, d)
  BY <1>1, <1>4 DEF Unpair_device, DeviceFile!Change
<1>5. CASE \E c \in Callers : StoreDevice(c) \/ UpdateLastSeen(c)
  BY <1>1, <1>5 DEF StoreDevice, UpdateLastSeen, DeviceFile!Change
<1>6. CASE UNCHANGED deviceVars
  BY <1>1, <1>6 DEF deviceVars
<1>7. CASE \E c \in Callers : CallStep(c)
  <2>1. CASE \E c \in Callers : \/ InitiateFind(c) \/ \E t \in Tokens : InitiateRequest(c, t)
                               \/ PurgeMessages(c) \/ StoreMessage(c) \/ SaveMessages(c)
    BY <1>6, <2>1 DEF InitiateFind, InitiateRequest, PurgeMessages, StoreMessage, SaveMessages
  <2>. QED BY <1>2, <1>5, <1>7, <2>1 DEF CallStep
<1>8. CASE \E c \in Requests, d \in Devices :
             \/ Initiate_pairing(c, d) \/ Update_device_preferences(c, d)
             \/ Retrieve_messages(c, d) \/ \E t \in Tokens : Complete_pairing(c, t, d)
  BY <1>6, <1>8 DEF Initiate_pairing, Update_device_preferences, Retrieve_messages, Complete_pairing
<1>9. CASE \E c \in Requests : \/ \E m \in Messages : Cache_message(c, m)
                              \/ \E ids \in SUBSET Ids : Mark_messages_delivered(c, ids)
  BY <1>6, <1>9 DEF Cache_message, Mark_messages_delivered
<1>10. CASE \E t \in Tokens : Approve_pairing(t) \/ Reject_pairing(t)
  BY <1>6, <1>10 DEF Approve_pairing, Reject_pairing
<1>11. CASE CleanupPairings \/ CleanupMessages \/ ClockTick \/ UNCHANGED vars
  BY <1>6, <1>11 DEF CleanupPairings, CleanupMessages, ClockTick, vars
<1>12. CASE \E c \in Requests : HangUp(c)
  BY <1>1, <1>6, <1>12 DEF HangUp, DeviceFile!AbandonSave
<1>. QED BY <1>3, <1>4, <1>7, <1>8, <1>9, <1>10, <1>11, <1>12 DEF Next

\* complete_pairing hands the token over: it was pending and approved, so nobody
\* held it, and it is no longer pending.
LEMMA CompletesInv ==
  ASSUME PairingInv, [Next]_vars, NEW c \in Requests, NEW e \in Devices, NEW u \in Tokens,
         Completes(c, e, u)
  PROVE  HolderInv'
<1>. USE CallerFacts DEF PairingInv
<1>1. /\ UNCHANGED deviceVars /\ verdict' = verdict /\ used' = used
      /\ u \in DOMAIN pending /\ pending[u].approved /\ DOMAIN pending' = DOMAIN pending \ {u}
      /\ call' = [call EXCEPT ![c] = [at |-> "pair", device |-> e, token |-> u, message |-> None]]
  BY DEF Completes, Complete_pairing, Begin, Without, Restrict
<1>2. /\ call'[c].device = e /\ call'[c].token = u
      /\ \A b \in Callers \ {c} : call'[b] = call[b]
  BY <1>1 DEF CallInv
<1>3. \A d, t : Holds(d, t)' => Holds(d, t) \/ (d = e /\ t = u)
  BY <1>1, <1>2 DEF Holds, Storing, deviceVars
<1>4. \A d : ~Holds(d, u)
  BY <1>1 DEF HolderInv
<1>5. u \in used /\ (RequireApproval => verdict[u] = "approved")
  BY <1>1 DEF TokenInv
<1>6. \A d, t : Holds(d, t)' =>
        /\ d \in Devices /\ t \in used' /\ t \notin DOMAIN pending'
        /\ RequireApproval => verdict'[t] = "approved"
  BY <1>1, <1>3, <1>5 DEF HolderInv
<1>7. \A d, f, t : Holds(d, t)' /\ Holds(f, t)' => d = f
  BY <1>3, <1>4 DEF HolderInv
<1>8. DOMAIN device_json' = Callers
  BY JsonDomain
<1>. QED BY <1>6, <1>7, <1>8 DEF HolderInv

LEMMA HolderNextInv ==
  ASSUME PairingInv, [Next]_vars
  PROVE  HolderInv'
<1>1. CASE \E c \in Requests, e \in Devices, u \in Tokens : Completes(c, e, u)
  BY <1>1, CompletesInv
<1>2. CASE ~ \E c \in Requests, e \in Devices, u \in Tokens : Completes(c, e, u)
  <2>1. \A d, t : Holds(d, t)' => Holds(d, t)
    BY <1>2, StepHolds
  <2>2. ASSUME NEW d, NEW t, Holds(d, t)'
        PROVE  /\ d \in Devices /\ t \in used' /\ t \notin DOMAIN pending'
               /\ RequireApproval => verdict'[t] = "approved"
    <3>1. /\ d \in Devices /\ t \in used /\ t \notin DOMAIN pending
          /\ RequireApproval => verdict[t] = "approved"
      BY <2>1, <2>2 DEF PairingInv, HolderInv
    <3>. QED BY <3>1, TokenKept
  <2>3. \A d, f, t : Holds(d, t)' /\ Holds(f, t)' => d = f
    BY <2>1 DEF PairingInv, HolderInv
  <2>4. DOMAIN device_json' = Callers
    BY JsonDomain
  <2>. QED BY <2>2, <2>3, <2>4 DEF HolderInv
<1>. QED BY <1>1, <1>2

LEMMA InitPairingInv == Init => PairingInv
<1> SUFFICES ASSUME Init PROVE PairingInv
  OBVIOUS
<1>. USE CallerFacts
<1>1. /\ devices = <<>> /\ device_file = <<>> /\ device_json = [c \in Callers |-> <<>>]
      /\ pending = <<>> /\ used = {} /\ verdict = [t \in Tokens |-> "none"]
      /\ call = [c \in Callers |-> NoCall] /\ DOMAIN <<>> = {}
  BY DEF Init, DeviceFile!JsonInit
<1>2. CallInv
  BY <1>1 DEF CallInv, NoCall
<1>3. TokenInv
  BY <1>1 DEF TokenInv
<1>4. \A d, t : ~Holds(d, t)
  BY <1>1 DEF Holds, Storing, NoCall
<1>. QED BY <1>1, <1>2, <1>3, <1>4 DEF PairingInv, HolderInv

LEMMA PairingInvariant == Spec => []PairingInv
<1>1. PairingInv /\ [Next]_vars => PairingInv'
  BY CallNextInv, TokenNextInv, HolderNextInv DEF PairingInv
<1>. QED BY <1>1, InitPairingInv, PTL DEF Spec

\* Whatever requests, failing saves and restarts meet, a device is only paired by a
\* token the owner approved last while it was pending (manager and pairing manager).
THEOREM AlwaysByConsent == Spec => []PairedByConsent
<1>1. PairingInv => PairedByConsent
  BY DEF PairingInv, HolderInv, Holds, PairedByConsent
<1>. QED BY <1>1, PairingInvariant, PTL

\* No token ever pairs two devices.
THEOREM TokenAlwaysPairsOne == Spec => []TokenPairsOne
<1>1. PairingInv => TokenPairsOne
  <2> SUFFICES ASSUME PairingInv, NEW d \in DOMAIN devices, NEW e \in DOMAIN devices,
                      devices[d] = devices[e]
               PROVE  d = e
    BY DEF TokenPairsOne
  <2>1. Holds(d, devices[d]) /\ Holds(e, devices[d])
    BY DEF Holds
  <2>. QED BY <2>1 DEF PairingInv, HolderInv
<1>. QED BY <1>1, PairingInvariant, PTL

-----------------------------------------------------------------------------
(* The appliance uses its cache as MessageCache says.                      *)

LEMMA CacheRefinement ==
  ASSUME CallInv, [Next]_vars
  PROVE  [CacheNext]_<<cacheVars, now>>
<1>. USE CallerFacts
<1>1. CASE \E c \in Requests, d \in Devices :
             \/ Initiate_pairing(c, d) \/ Unpair_device(c, d) \/ Update_device_preferences(c, d)
             \/ Retrieve_messages(c, d) \/ \E t \in Tokens : Complete_pairing(c, t, d)
  BY <1>1 DEF Initiate_pairing, Unpair_device, Update_device_preferences, Retrieve_messages,
              Complete_pairing
<1>2. CASE \E c \in Requests, m \in Messages : Cache_message(c, m)
  BY <1>2 DEF Cache_message
<1>3. CASE \E c \in Requests, ids \in SUBSET Ids : Mark_messages_delivered(c, ids)
  BY <1>3 DEF Mark_messages_delivered, CacheNext
<1>4. CASE \E t \in Tokens : Approve_pairing(t) \/ Reject_pairing(t)
  BY <1>4 DEF Approve_pairing, Reject_pairing
<1>5. CASE \E c \in Callers : CallStep(c)
  <2>1. PICK c \in Callers : CallStep(c)
    BY <1>5
  <2>2. CASE InitiateFind(c) \/ (\E t \in Tokens : InitiateRequest(c, t)) \/ StoreDevice(c)
             \/ UpdateLastSeen(c) \/ DeviceSave(c)
    BY <2>2 DEF InitiateFind, InitiateRequest, StoreDevice, UpdateLastSeen, DeviceSave
  <2>3. CASE PurgeMessages(c)
    <3>1. call[c].device \in Devices /\ Delete_device_messages(c, call[c].device)
      BY <2>3 DEF PurgeMessages, CallInv
    <3>. QED BY <3>1 DEF CacheNext
  <2>4. CASE StoreMessage(c)
    <3>1. call[c].message \in Messages
      BY <2>4 DEF StoreMessage, CallInv
    <3>2. StoreAccepted(c, call[c].message) \/ StoreRefused(c, call[c].message)
      BY <2>4 DEF StoreMessage
    <3>. QED BY <3>1, <3>2 DEF CacheNext
  <2>5. CASE SaveMessages(c)
    BY <2>5 DEF SaveMessages, CacheNext
  <2>. QED BY <2>1, <2>2, <2>3, <2>4, <2>5 DEF CallStep
<1>6. CASE CleanupPairings \/ CleanupMessages
  BY <1>6 DEF CleanupPairings, CleanupMessages, CacheNext
<1>7. CASE Restart \/ ClockTick
  BY <1>7 DEF Restart, ClockTick, CacheNext
<1>8. CASE UNCHANGED vars
  BY <1>8 DEF vars
<1>9. CASE \E c \in Requests : HangUp(c)
  BY <1>9 DEF HangUp, CacheNext
<1>. QED BY <1>1, <1>2, <1>3, <1>4, <1>5, <1>6, <1>7, <1>8, <1>9 DEF Next

\* Every step of the appliance is a step of its cache or leaves the cache alone.
THEOREM ApplianceImplementsCache == Spec => ImplementsCache
<1>1. Init => CacheInit
  BY DEF Init
<1>2. PairingInv /\ [Next]_vars => [CacheNext]_<<cacheVars, now>>
  BY CacheRefinement DEF PairingInv
<1>. QED BY <1>1, <1>2, PairingInvariant, PTL DEF Spec, ImplementsCache, CacheSpec

\* So the limits of the cache hold in the appliance.
THEOREM ApplianceLimits == Spec => []LimitsHeld
BY ApplianceImplementsCache, LimitsAlwaysHeld, PTL DEF ImplementsCache
-----------------------------------------------------------------------------
(* The file of the devices.                                                *)

\* A write whose task holds the lock is of what memory holds, and a file that nobody
\* is about to write is current or known to be stale.
DeviceInv ==
  /\ device_saver \in [Callers -> {"no", "due", "writing", "orphan"}]
  /\ device_json = [c \in Callers |-> device_json[c]]
  /\ \A c \in Callers : device_saver[c] = "writing" => device_json[c] \in {devices, Unreadable}
  /\ DevicesFollowMemory

LEMMA DeviceChangeInv ==
  ASSUME DeviceInv, NEW c \in Callers, NEW devs, DeviceFile!Change(c, devs)
  PROVE  DeviceInv'
<1>1. \A b \in Callers : device_saver[b] # "writing" /\ device_saver'[b] # "writing"
  BY DEF DeviceInv, DeviceFile!Change, DeviceFile!Writable
<1>2. device_saver' \in [Callers -> {"no", "due", "writing", "orphan"}] /\ device_saver'[c] = "due"
  BY DEF DeviceInv, DeviceFile!Change
<1>3. DevicesFollowMemory'
  BY <1>2 DEF DevicesFollowMemory, DeviceFile!FileCurrent, DeviceFile!Saving
<1>4. device_json' = device_json
  BY DEF DeviceFile!Change
<1>. QED BY <1>1, <1>2, <1>3, <1>4 DEF DeviceInv

LEMMA DeviceBeginInv ==
  ASSUME DeviceInv, NEW c \in Callers, DeviceFile!BeginSave(c)
  PROVE  DeviceInv'
<1>1. /\ device_saver' \in [Callers -> {"no", "due", "writing", "orphan"}]
      /\ device_saver'[c] = "writing"
      /\ \A b \in Callers \ {c} : device_saver'[b] = device_saver[b]
  BY DEF DeviceInv, DeviceFile!BeginSave
<1>2. PICK torn : device_json' = [b \in Callers |-> IF b \in torn THEN Unreadable
                                    ELSE IF b = c THEN devices ELSE device_json[b]]
  BY DEF DeviceFile!BeginSave
<1>3. /\ device_json' = [b \in Callers |-> device_json'[b]]
      /\ device_json'[c] \in {devices, Unreadable}
      /\ \A b \in Callers \ {c} : device_json'[b] \in {device_json[b], Unreadable}
  BY <1>2
<1>4. devices' = devices
  BY DEF DeviceFile!BeginSave
<1>5. DevicesFollowMemory'
  BY <1>1 DEF DevicesFollowMemory, DeviceFile!FileCurrent, DeviceFile!Saving
<1>6. \A b \in Callers : device_saver'[b] = "writing" => device_json'[b] \in {devices, Unreadable}
  BY <1>1, <1>3 DEF DeviceInv
<1>. QED BY <1>1, <1>3, <1>4, <1>5, <1>6 DEF DeviceInv

LEMMA DeviceEndInv ==
  ASSUME DeviceInv, NEW c \in Callers,
         DeviceFile!EndSave(c) \/ DeviceFile!FailSave(c) \/ DeviceFile!AbandonSave(c)
  PROVE  DeviceInv'
<1>1. /\ device_saver' \in [Callers -> {"no", "due", "writing", "orphan"}]
      /\ device_saver'[c] \in {"no", "orphan"}
      /\ \A b \in Callers \ {c} : device_saver'[b] = device_saver[b]
  BY DEF DeviceInv, DeviceFile!EndSave, DeviceFile!FailSave, DeviceFile!AbandonSave
<1>2. /\ device_json' = [b \in Callers |-> device_json'[b]]
      /\ \A b \in Callers \ {c} : device_json'[b] = device_json[b]
  BY DEF DeviceInv, DeviceFile!EndSave, DeviceFile!FailSave, DeviceFile!AbandonSave
<1>3. devices' = devices
  BY DEF DeviceFile!EndSave, DeviceFile!FailSave, DeviceFile!AbandonSave
<1>4. CASE DeviceFile!EndSave(c)
  <2>1. ASSUME device_stale' PROVE DevicesFollowMemory'
    BY <2>1 DEF DevicesFollowMemory, DeviceFile!FileCurrent
  <2>2. ASSUME ~device_stale' PROVE DevicesFollowMemory'
    <3>1. /\ device_saver[c] = "writing" /\ device_json[c] # Unreadable
          /\ device_file' = device_json[c]
      BY <1>4, <2>2 DEF DeviceFile!EndSave
    <3>. QED BY <1>3, <3>1 DEF DeviceInv, DevicesFollowMemory, DeviceFile!FileCurrent
  <2>3. DevicesFollowMemory'
    BY <2>1, <2>2
  <2>. QED BY <1>1, <1>2, <1>3, <2>3 DEF DeviceInv
<1>5. CASE DeviceFile!FailSave(c) \/ DeviceFile!AbandonSave(c)
  <2>1. device_stale' = TRUE
    BY <1>5 DEF DeviceFile!FailSave, DeviceFile!AbandonSave
  <2>2. DevicesFollowMemory'
    BY <2>1 DEF DevicesFollowMemory, DeviceFile!FileCurrent
  <2>. QED BY <1>1, <1>2, <1>3, <2>2 DEF DeviceInv
<1>. QED BY <1>4, <1>5

LEMMA DeviceNextInv ==
  ASSUME DeviceInv, [Next]_vars
  PROVE  DeviceInv'
<1>. USE CallerFacts
<1>1. CASE UNCHANGED deviceVars
  <2>1. UNCHANGED <<devices, device_file, device_saver, device_json, device_stale>>
    BY <1>1 DEF deviceVars
  <2>2. DevicesFollowMemory'
    BY <2>1 DEF DeviceInv, DevicesFollowMemory, DeviceFile!FileCurrent, DeviceFile!Saving
  <2>. QED BY <2>1, <2>2 DEF DeviceInv
<1>2. ASSUME NEW c \in Callers, NEW devs, DeviceFile!Change(c, devs)
      PROVE  DeviceInv'
  BY <1>2, DeviceChangeInv
<1>3. CASE \E c \in Callers : DeviceSave(c)
  BY <1>3, DeviceBeginInv, DeviceEndInv DEF DeviceSave
<1>4. CASE Restart
  <2>1. PICK content \in DeviceFile!AfterCrash : DeviceFile!Load(content)
    BY <1>4 DEF Restart
  <2>2. /\ devices' = content /\ device_file' = content
        /\ device_saver' = [c \in Callers |-> "no"] /\ device_json' = [c \in Callers |-> <<>>]
    BY <2>1 DEF DeviceFile!Load
  <2>3. DevicesFollowMemory'
    BY <2>2 DEF DevicesFollowMemory, DeviceFile!FileCurrent
  <2>. QED BY <2>2, <2>3 DEF DeviceInv
<1>5. CASE \E c \in Requests : \E d \in Devices :
             \/ Initiate_pairing(c, d) \/ Update_device_preferences(c, d)
             \/ Retrieve_messages(c, d) \/ \E t \in Tokens : Complete_pairing(c, t, d)
  BY <1>1, <1>5 DEF Initiate_pairing, Update_device_preferences, Retrieve_messages,
                    Complete_pairing
<1>6. CASE \E c \in Requests : \E d \in Devices : Unpair_device(c, d)
  BY <1>2, <1>6 DEF Unpair_device
<1>7. CASE \E c \in Requests : \/ \E m \in Messages : Cache_message(c, m)
                              \/ \E ids \in SUBSET Ids : Mark_messages_delivered(c, ids)
  BY <1>1, <1>7 DEF Cache_message, Mark_messages_delivered
<1>8. CASE \E t \in Tokens : Approve_pairing(t) \/ Reject_pairing(t)
  BY <1>1, <1>8 DEF Approve_pairing, Reject_pairing
<1>9. CASE \E c \in Callers : StoreDevice(c) \/ UpdateLastSeen(c)
  BY <1>2, <1>9 DEF StoreDevice, UpdateLastSeen
<1>10. CASE \E c \in Callers : \/ InitiateFind(c) \/ \E t \in Tokens : InitiateRequest(c, t)
                               \/ PurgeMessages(c) \/ StoreMessage(c) \/ SaveMessages(c)
  BY <1>1, <1>10 DEF InitiateFind, InitiateRequest, PurgeMessages, StoreMessage, SaveMessages
<1>11. CASE CleanupPairings \/ CleanupMessages \/ ClockTick \/ UNCHANGED vars
  BY <1>1, <1>11 DEF CleanupPairings, CleanupMessages, ClockTick, vars
<1>12. CASE \E c \in Requests : HangUp(c)
  BY <1>1, <1>12, DeviceEndInv DEF HangUp
<1>. QED BY <1>3, <1>4, <1>5, <1>6, <1>7, <1>8, <1>9, <1>10, <1>11, <1>12 DEF Next, CallStep

\* The types hold, and once no write of the devices is under way their file holds
\* what memory holds, unless the last save failed, was dropped with its handler, or
\* met what another dropped handler was writing: requests that store, unpair and
\* touch devices while others save never leave old content behind (device.rs,
\* manager.rs).
THEOREM ApplianceAlwaysConsistent == Spec => []ApplianceConsistent
<1>1. Init => DeviceInv
  BY DEF Init, DeviceFile!JsonInit, DeviceInv, DevicesFollowMemory, DeviceFile!FileCurrent
<1>2. DeviceInv /\ [Next]_vars => DeviceInv'
  BY DeviceNextInv
<1>3. PairingInv /\ CacheTypeOK /\ DeviceInv => ApplianceConsistent
  <2> SUFFICES ASSUME PairingInv, CacheTypeOK, DeviceInv PROVE ApplianceConsistent
    OBVIOUS
  <2>1. \A d \in DOMAIN devices : d \in Devices /\ devices[d] \in Tokens
    BY DEF PairingInv, HolderInv, TokenInv, Holds
  <2>2. used \subseteq Tokens /\ DOMAIN pending \subseteq used
    BY DEF PairingInv, TokenInv
  <2>3. \A c \in Callers : call[c].device \in Devices \cup {None} /\ call[c].token \in Tokens \cup {None}
    BY DEF PairingInv, CallInv, Calls
  <2>. QED BY <2>1, <2>2, <2>3 DEF DeviceInv, ApplianceTypeOK, ApplianceConsistent
<1>4. CacheSpec => []CacheTypeOK
  BY CacheTypeCorrect
<1>. QED BY <1>1, <1>2, <1>3, <1>4, PairingInvariant, ApplianceImplementsCache, PTL
         DEF Spec, ImplementsCache
=============================================================================
