------------------------------ MODULE Node_proofs ------------------------------
(***************************************************************************)
(* Proofs about Node and the parts composed in it (SendMessage, WebSocket, *)
(* ServiceTasks), for any number of requests, clients and tasks and any    *)
(* way of making message ids.                                              *)
(*                                                                         *)
(* The invariant has four parts, each about variables of its own: where    *)
(* main is and what that says of the tasks and the database; what the      *)
(* files hold at each step that a crash can follow; how far a request has  *)
(* come; and where a client is in the events.                              *)
(***************************************************************************)
EXTENDS Node, TLAPS

Initializing == {"init key", "init pub", "init config"}
Starting == {"core", "identity", "new key", "new pub", "services", "adapters", "api", "monitor"}
Running  == {"heartbeat", "ready", "stop monitor"}
Stopping == {"stop adapters", "stop appliance", "close storage"}
Identified == {"services", "adapters", "api", "monitor"} \cup Running \cup Down
Loaded     == {"storage"} \cup Starting \cup Running \cup Down
Steps == {"off"} \cup Initializing \cup Loaded

\* main, the tasks and the database.
ControlOK ==
  /\ pc \in Steps
  /\ TasksTypeOK
  /\ db_open = IF pc \in Starting \cup Running \cup Stopping THEN TRUE ELSE FALSE
  /\ pc \notin Running \cup Down => \A t \in ServiceTasks : task[t] = "none"
  /\ pc \in Down => MonitorEnded

FileTypeOK ==
  /\ {key_file, pub_file, config_file} \subseteq Identities \cup {Absent, Torn}
  /\ ident \in 0..MaxIds /\ config_id \in 0..MaxIds /\ made \in 0..MaxIds
  /\ starts \in 0..MaxStarts

\* The files: --init has no configuration beside it that could be read, or has
\* owned up to it; a configuration that can be read has its keys.
FilesOK ==
  /\ FileTypeOK
  /\ keys_foreign \in BOOLEAN
  /\ pc \in Initializing \cup {"new key", "new pub"} => ident \in Identities
  /\ pc \in {"new key", "new pub"} => keys_foreign
  /\ (pc \in Initializing /\ ~keys_foreign) => config_file \notin Identities
  /\ pc \in {"init pub", "init config"} => key_file = ident
  /\ pc = "init config" => pub_file = ident
  /\ (pc \notin Initializing /\ ~keys_foreign /\ config_file \in Identities) =>
       key_file = config_file /\ pub_file = config_file
  /\ pc \in Loaded => config_file \in Identities /\ config_id = config_file
  /\ (pc \in Identified /\ ~keys_foreign) => ident = config_id

\* The requests: what is about to be written has happened.
TableTypeOK ==
  /\ DOMAIN rows \subseteq Ids
  /\ \A i \in DOMAIN rows : rows[i] \in {"routing", "sent", "failed"}
  /\ sending = [r \in Requests |-> sending[r]]
  /\ \A r \in Requests : sending[r] \in
       [at : {"due", "done", "insert", "route", "sent", "failed"}, persist : BOOLEAN,
        guard : BOOLEAN]
  /\ routed \cup refused \cup cut \subseteq Ids

RequestOK(r) ==
  /\ sending[r].at \in {"due", "done"} => ~sending[r].persist /\ ~sending[r].guard
  /\ sending[r].at \in {"insert", "sent", "failed"} => sending[r].persist
  /\ sending[r].at = "sent" => Id(r) \in routed
  /\ sending[r].at = "failed" => Id(r) \in refused

RowOK(i) ==
  /\ rows[i] = "sent" => i \in routed
  /\ rows[i] = "failed" => i \in refused
  /\ rows[i] = "routing" => i \in cut \/ \E r \in Requests : Id(r) = i /\ Unfinished(r)

RequestsOK ==
  /\ TableTypeOK
  /\ \A r \in Requests : RequestOK(r)
  /\ \A i \in DOMAIN rows : RowOK(i)

\* The clients: what was written to a socket is what can be written of the events
\* between the first one and the next.
Shows(got, all, first, last) ==
  /\ {got[j] : j \in 1..Len(got)} = {i \in first..last : all[i]}
  /\ \A j, k \in 1..Len(got) : j < k => got[j] < got[k]

ClientOK(c) ==
  LET me == client[c] IN
  Connected(c) =>
    /\ 1 <= me.first /\ me.first <= me.next /\ me.next <= Len(events) + 1
    /\ Shows(me.got, events, me.first, me.next - 1)

Connections == [at : {"away", "open", "gone"}, first : Nat, next : Nat, got : Seq(Nat)]
ClientsOK ==
  /\ events \in Seq(BOOLEAN)
  /\ client \in [Clients -> Connections]
  /\ \A c \in Clients : ClientOK(c)

\* The inductive invariant.
NodeIInv == ControlOK /\ FilesOK /\ RequestsOK /\ ClientsOK

-----------------------------------------------------------------------------
(* Requests                                                                *)

\* What else happens in the node touches the requests in one of two ways only:
\* not at all (except for opening and closing the database), or all at once.
tableVars == <<rows, sending, routed, refused, cut>>

LEMMA RequestsInit == ASSUME ApiInit PROVE RequestsOK
  BY DEF ApiInit, RequestsOK, TableTypeOK, RequestOK, RowOK, Due, Handler, Unfinished

LEMMA RequestsKept == ASSUME RequestsOK, UNCHANGED tableVars PROVE RequestsOK'
  BY DEF RequestsOK, TableTypeOK, RequestOK, RowOK, Unfinished, tableVars

LEMMA RequestsReset == ASSUME RequestsOK, ApiReset PROVE RequestsOK'
<1>2. TableTypeOK' /\ \A r \in Requests : RequestOK(r)'
  BY DEF RequestsOK, TableTypeOK, RequestOK, ApiReset, Ids, Done, Handler, Active, Due
<1>3. ASSUME NEW i \in DOMAIN rows PROVE RowOK(i)'
  <2>1. RowOK(i) BY DEF RequestsOK
  <2>2. cut \subseteq cut' /\ \A r \in Requests : Unfinished(r) => Id(r) \in cut'
    BY DEF ApiReset
  <2> QED BY <2>1, <2>2 DEF RowOK, ApiReset
<1> QED BY <1>2, <1>3 DEF RequestsOK, ApiReset

LEMMA RequestBegins ==
  ASSUME RequestsOK, NEW r \in Requests, NEW high \in BOOLEAN, Begin(r, high)
  PROVE  RequestsOK'
<1>1. TableTypeOK' /\ \A q \in Requests : RequestOK(q)'
  BY SendMessageAssumption DEF RequestsOK, TableTypeOK, RequestOK, Begin
<1>2. ASSUME NEW i \in DOMAIN rows PROVE RowOK(i)'
  <2>1. RowOK(i) /\ ~sending[r].persist
    BY DEF RequestsOK, RequestOK, Begin, Comes, Due, Handler
  <2>2. \A q \in Requests : q # r => sending'[q] = sending[q]
    BY DEF RequestsOK, TableTypeOK, Begin
  <2> QED BY <2>1, <2>2 DEF RowOK, Unfinished, Begin
<1> QED BY <1>1, <1>2 DEF RequestsOK, Begin

\* A step of one request leaves alone the rows that need another one.
LEMMA OtherRows ==
  ASSUME RequestsOK, NEW r \in Requests,
         \A q \in Requests : q # r => sending'[q] = sending[q],
         routed \subseteq routed', refused \subseteq refused', cut \subseteq cut',
         NEW i, RowOK(i), rows'[i] = rows[i],
         \/ Id(r) # i
         \/ ~Unfinished(r)
         \/ Unfinished(r)'
         \/ Id(r) \in cut'
         \/ rows[i] # "routing"
  PROVE  RowOK(i)'
  BY DEF RowOK, Unfinished

\* Taking the guard, and a panic before anything was done, change no row.
LEMMA LockKeeps ==
  ASSUME RequestsOK, NEW r \in Requests, NEW waits, Panic(r) \/ Lock(r, waits)
  PROVE  RequestsOK'
<1>1. \A q \in Requests : q # r => sending'[q] = sending[q]
  BY DEF RequestsOK, TableTypeOK, Panic, Lock
<1>2. TableTypeOK'
  <2>1. CASE Panic(r)
    BY <2>1 DEF RequestsOK, TableTypeOK, Panic, Done, Handler
  <2>2. CASE Lock(r, waits)
    BY <2>2 DEF RequestsOK, TableTypeOK, Lock
  <2> QED BY <2>1, <2>2
<1>5. RequestOK(r)'
  BY DEF RequestsOK, TableTypeOK, RequestOK, Panic, Lock, Done, Handler
<1>6. \A q \in Requests : RequestOK(q)'
  BY <1>1, <1>5 DEF RequestsOK, RequestOK, Panic, Lock
<1>3. ~Unfinished(r) \/ Unfinished(r)'
  BY DEF RequestsOK, TableTypeOK, RequestOK, Unfinished, Panic, Comes, Due, Handler, Lock
<1>4. \A i \in DOMAIN rows : RowOK(i)'
  BY <1>1, <1>3, OtherRows DEF RequestsOK, Panic, Lock
<1> QED BY <1>2, <1>6, <1>4 DEF RequestsOK, Panic, Lock

LEMMA InsertKeeps == ASSUME RequestsOK, NEW r \in Requests, Insert(r) PROVE RequestsOK'
<1>1. ~Unfinished(r) /\ Unfinished(r)'
  BY DEF RequestsOK, TableTypeOK, RequestOK, Insert, Unfinished
<1>2. \A q \in Requests : q # r => sending'[q] = sending[q]
  BY DEF RequestsOK, TableTypeOK, Insert
<1>3. DOMAIN rows' \subseteq DOMAIN rows \cup {Id(r)}
  BY DEF Insert, Put
<1>4. \A i \in DOMAIN rows : rows'[i] = rows[i]
  BY DEF Insert, Put
<1>5. \A i \in DOMAIN rows' \ DOMAIN rows : i = Id(r) /\ rows'[i] = "routing"
  BY DEF Insert, Put
<1>6. TableTypeOK'
  BY <1>3, <1>4, <1>5 DEF RequestsOK, TableTypeOK, Insert, Ids
<1>7. \A q \in Requests : RequestOK(q)'
  BY <1>1, <1>2 DEF RequestsOK, TableTypeOK, RequestOK, Insert
<1>8. ASSUME NEW i \in DOMAIN rows' PROVE RowOK(i)'
  <2>1. CASE i \in DOMAIN rows
    BY <1>1, <1>2, <1>4, <2>1, OtherRows DEF RequestsOK, Insert
  <2>2. CASE i \notin DOMAIN rows
    BY <1>1, <1>5, <2>2 DEF RowOK
  <2> QED BY <2>1, <2>2
<1> QED BY <1>6, <1>7, <1>8 DEF RequestsOK

LEMMA RoutedKeeps == ASSUME RequestsOK, NEW r \in Requests, Routed(r) PROVE RequestsOK'
<1>1. \A q \in Requests : q # r => sending'[q] = sending[q]
  BY DEF RequestsOK, TableTypeOK, Routed
<1>2. TableTypeOK'
  BY DEF RequestsOK, TableTypeOK, Routed, Ids, Done, Handler
<1>3. ~Unfinished(r) \/ Unfinished(r)'
  BY DEF RequestsOK, TableTypeOK, Unfinished, Routed
<1>4. \A q \in Requests : RequestOK(q)'
  BY <1>1, <1>2 DEF RequestsOK, TableTypeOK, RequestOK, Routed, Done, Handler
<1>5. \A i \in DOMAIN rows : RowOK(i)'
  BY <1>1, <1>3, OtherRows DEF RequestsOK, Routed
<1> QED BY <1>2, <1>4, <1>5 DEF RequestsOK, Routed

LEMMA NotRoutedKeeps == ASSUME RequestsOK, NEW r \in Requests, NotRouted(r) PROVE RequestsOK'
<1>1. \A q \in Requests : q # r => sending'[q] = sending[q]
  BY DEF RequestsOK, TableTypeOK, NotRouted
<1>2. TableTypeOK'
  BY DEF RequestsOK, TableTypeOK, NotRouted, Ids, Done, Handler
<1>3. ~Unfinished(r) \/ Unfinished(r)'
  BY DEF RequestsOK, TableTypeOK, Unfinished, NotRouted
<1>4. \A q \in Requests : RequestOK(q)'
  BY <1>1, <1>2 DEF RequestsOK, TableTypeOK, RequestOK, NotRouted, Done, Handler
<1>5. \A i \in DOMAIN rows : RowOK(i)'
  BY <1>1, <1>3, OtherRows DEF RequestsOK, NotRouted
<1> QED BY <1>2, <1>4, <1>5 DEF RequestsOK, NotRouted

LEMMA UpdateKeeps == ASSUME RequestsOK, NEW r \in Requests, Update(r) PROVE RequestsOK'
<1>1. \A q \in Requests : q # r => sending'[q] = sending[q]
  BY DEF RequestsOK, TableTypeOK, Update
<1>2. DOMAIN rows' = DOMAIN rows /\ \A i \in DOMAIN rows : i # Id(r) => rows'[i] = rows[i]
  BY DEF Update
<1>3. Id(r) \in cut' \/ (Id(r) \in DOMAIN rows => rows'[Id(r)] = sending[r].at)
  BY DEF Update
<1>4. rows'[Id(r)] = rows[Id(r)] \/ rows'[Id(r)] = sending[r].at
  BY DEF Update
<1>5. sending[r].at \in {"sent", "failed"} /\ RequestOK(r)
  BY DEF RequestsOK, Update
<1>6. TableTypeOK'
  BY <1>2, <1>4, <1>5 DEF RequestsOK, TableTypeOK, Update, Ids, Done, Handler
<1>7. \A q \in Requests : RequestOK(q)'
  BY <1>1, <1>6 DEF RequestsOK, TableTypeOK, RequestOK, Update, Done, Handler
<1>8. ASSUME NEW i \in DOMAIN rows PROVE RowOK(i)'
  <2>1. RowOK(i) BY DEF RequestsOK
  <2>2. cut \subseteq cut' /\ routed' = routed /\ refused' = refused
    BY DEF Update
  <2>3. CASE i # Id(r)
    BY <1>1, <1>2, <2>1, <2>2, <2>3, OtherRows
  <2>4. CASE i = Id(r) /\ Id(r) \in cut'
    BY <1>4, <1>5, <2>1, <2>2, <2>4 DEF RowOK, RequestOK
  <2>5. CASE i = Id(r) /\ Id(r) \notin cut'
    BY <1>3, <1>5, <2>2, <2>5 DEF RowOK, RequestOK
  <2> QED BY <2>3, <2>4, <2>5
<1> QED BY <1>2, <1>6, <1>7, <1>8 DEF RequestsOK

LEMMA CallerGoneKeeps == ASSUME RequestsOK, NEW r \in Requests, CallerGone(r) PROVE RequestsOK'
<1>1. \A q \in Requests : q # r => sending'[q] = sending[q]
  BY DEF RequestsOK, TableTypeOK, CallerGone
<1>2. TableTypeOK' /\ \A q \in Requests : RequestOK(q)'
  BY <1>1 DEF RequestsOK, TableTypeOK, RequestOK, CallerGone, Ids, Done, Handler
<1>3. \A i \in DOMAIN rows : RowOK(i)'
  BY <1>1, OtherRows DEF RequestsOK, CallerGone
<1> QED BY <1>2, <1>3 DEF RequestsOK, CallerGone

-----------------------------------------------------------------------------
(* Clients                                                                 *)

LEMMA ClientsInit == ASSUME WsInit PROVE ClientsOK
  BY DEF WsInit, ClientsOK, ClientOK, Connected, Away, Connection, Connections

LEMMA ClientsKept == ASSUME ClientsOK, UNCHANGED wsVars PROVE ClientsOK'
  BY DEF ClientsOK, ClientOK, Connected, Shows, wsVars

LEMMA ClientsReset == ASSUME ClientsOK, WsReset PROVE ClientsOK'
  BY DEF ClientsOK, ClientOK, Connected, WsReset, Away, Gone, Connection, Connections

LEMMA BroadcastKeeps ==
  ASSUME ClientsOK, NEW encodable \in BOOLEAN, Broadcast(encodable), UNCHANGED client
  PROVE  ClientsOK'
<1>1. events' \in Seq(BOOLEAN) /\ Len(events') = Len(events) + 1
  BY DEF ClientsOK, Broadcast
<1>2. \A i \in 1..Len(events) : events'[i] = events[i]
  BY DEF ClientsOK, Broadcast
<1>3. ASSUME NEW c \in Clients, Connected(c) PROVE ClientOK(c)'
  <2> DEFINE me == client[c]
  <2>1. ClientOK(c) /\ me.first \in Nat /\ me.next \in Nat /\ Len(events) \in Nat
    BY DEF ClientsOK, Connections
  <2>2. 1 <= me.first /\ me.first <= me.next /\ me.next <= Len(events) + 1
    BY <1>3, <2>1 DEF ClientOK
  <2>3. {i \in me.first..(me.next - 1) : events'[i]} = {i \in me.first..(me.next - 1) : events[i]}
    BY <1>2, <2>1, <2>2
  <2> QED BY <1>1, <1>3, <2>1, <2>2, <2>3 DEF ClientOK, Shows
<1> QED BY <1>1, <1>3 DEF ClientsOK, ClientOK, Connected

\* One more event is taken from the channel.
LEMMA OneMore ==
  ASSUME NEW all \in Seq(BOOLEAN), NEW first \in Nat, NEW next \in Nat, first <= next,
         NEW seen \in Seq(Nat), Shows(seen, all, first, next - 1),
         NEW got, got = IF all[next] THEN Append(seen, next) ELSE seen
  PROVE  got \in Seq(Nat) /\ Shows(got, all, first, next)
<1> USE DEF Shows
<1>1. Len(seen) \in Nat /\ first..next = (first..(next - 1)) \cup {next}
  OBVIOUS
<1>2. CASE all[next]
  <2>1. /\ got = Append(seen, next) /\ got \in Seq(Nat)
        /\ Len(got) = Len(seen) + 1 /\ got[Len(seen) + 1] = next
        /\ \A j \in 1..Len(seen) : got[j] = seen[j]
    BY <1>2
  <2>2. 1..Len(got) = (1..Len(seen)) \cup {Len(seen) + 1}
    BY <1>1, <2>1
  <2>3. {got[j] : j \in 1..Len(got)} = {seen[j] : j \in 1..Len(seen)} \cup {next}
    BY <2>1, <2>2
  <2>4. {i \in first..next : all[i]} = {i \in first..(next - 1) : all[i]} \cup {next}
    BY <1>1, <1>2
  <2>5. \A j \in 1..Len(seen) : seen[j] \in Nat /\ seen[j] < next
    <3>1. \A j \in 1..Len(seen) : seen[j] \in first..(next - 1)
      OBVIOUS
    <3> QED BY <3>1
  <2>6. ASSUME NEW j \in 1..Len(got), NEW k \in 1..Len(got), j < k PROVE got[j] < got[k]
    <3>1. j \in 1..Len(seen) /\ got[j] = seen[j]
      BY <1>1, <2>1, <2>2, <2>6
    <3>2. CASE k \in 1..Len(seen)
      BY <2>1, <2>6, <3>1, <3>2
    <3>3. CASE k = Len(seen) + 1
      BY <2>1, <2>5, <3>1, <3>3
    <3> QED BY <2>2, <3>2, <3>3
  <2> QED BY <2>1, <2>3, <2>4, <2>6
<1>3. CASE ~all[next]
  <2>1. {i \in first..next : all[i]} = {i \in first..(next - 1) : all[i]}
    BY <1>1, <1>3
  <2> QED BY <1>3, <2>1
<1> QED BY <1>2, <1>3

LEMMA GivenKeeps ==
  ASSUME ClientsOK, NEW c \in Clients, client[c].at = "open", client[c].next <= Len(events),
         client' = [client EXCEPT ![c] = Given(client[c], client[c].next)], events' = events
  PROVE  ClientOK(c)' /\ client'[c] \in Connections
<1>1. client[c] \in Connections /\ ClientOK(c) /\ Connected(c)
  BY DEF ClientsOK, Connected, Away, Gone, Connection
<1>2. PICK first \in Nat, next \in Nat, seen \in Seq(Nat) :
        first = client[c].first /\ next = client[c].next /\ seen = client[c].got
  BY <1>1 DEF Connections
<1>3. PICK got : got = IF events[next] THEN Append(seen, next) ELSE seen
  OBVIOUS
<1>4. client'[c] = [at |-> "open", first |-> first, next |-> next + 1, got |-> got]
  BY <1>2, <1>3 DEF ClientsOK, Given, Connection
<1>5. 1 <= first /\ first <= next /\ Shows(seen, events, first, next - 1)
  BY <1>1, <1>2 DEF ClientOK
<1>6. events \in Seq(BOOLEAN)
  BY DEF ClientsOK
<1>7. got \in Seq(Nat) /\ Shows(got, events, first, next)
  BY ONLY <1>2, <1>3, <1>5, <1>6, OneMore
<1>8. client'[c] \in Connections
  BY <1>2, <1>4, <1>7 DEF Connections
<1>9. /\ client'[c].first = first /\ client'[c].next = next + 1 /\ client'[c].got = got
  BY <1>4
<1>10. (next + 1) - 1 = next /\ first <= next + 1 /\ next + 1 <= Len(events) + 1
  BY <1>2, <1>5, <1>6
<1> QED BY <1>5, <1>7, <1>8, <1>9, <1>10 DEF ClientOK

LEMMA ClientStepKeeps == ASSUME ClientsOK, NEW c \in Clients, ClientStep(c) PROVE ClientsOK'
<1>1. events' = events /\ \A d \in Clients : d # c => client'[d] = client[d]
  BY DEF ClientsOK, ClientStep, Connect, Forward, Disconnect
<1>2. \A d \in Clients : d # c => ClientOK(d)'
  BY <1>1 DEF ClientsOK, ClientOK, Connected, Shows
<1>3. ASSUME ClientOK(c)', client'[c] \in Connections PROVE ClientsOK'
  <2>1. client' = [client EXCEPT ![c] = client'[c]]
    BY <1>1 DEF ClientsOK, ClientStep, Connect, Forward, Disconnect
  <2> QED BY <1>1, <1>2, <1>3, <2>1 DEF ClientsOK
<1>4. CASE Connect(c)
  <2> DEFINE n == Len(events) + 1
  <2>1. client'[c] = Connection("open", n, n, <<>>) /\ n \in Nat
    BY <1>4 DEF ClientsOK, Connect
  <2>2. client'[c] \in Connections
    BY <2>1 DEF Connection, Connections
  <2>3. ClientOK(c)'
    BY <1>1, <2>1 DEF ClientOK, ClientsOK, Connection, Shows
  <2> QED BY <1>3, <2>2, <2>3
<1>5. CASE Forward(c) /\ ~Lagged(c)
  BY <1>1, <1>3, <1>5, GivenKeeps DEF Forward
<1>6. CASE (Forward(c) /\ Lagged(c)) \/ Disconnect(c)
  <2>1. client'[c] = Gone
    BY <1>6 DEF ClientsOK, Forward, Disconnect
  <2> QED BY <1>3, <2>1 DEF ClientOK, Connected, Gone, Connection, Connections
<1> QED BY <1>4, <1>5, <1>6 DEF ClientStep

-----------------------------------------------------------------------------
(* main, the tasks and the database                                        *)

USE DEF Steps, Initializing, Starting, Running, Stopping, Identified, Loaded

\* A step of main that leaves tasks and database alone and does not pass from
\* one of the phases to another.
LEMMA SamePhase ==
  ASSUME ControlOK, UNCHANGED <<taskVars, db_open>>,
         pc' \in Steps,
         pc \in {"off", "storage"} \cup Initializing <=> pc' \in {"off", "storage"} \cup Initializing,
         pc \in Starting <=> pc' \in Starting,
         pc \in Running <=> pc' \in Running,
         pc \in Stopping <=> pc' \in Stopping
  PROVE  ControlOK'
  BY DEF ControlOK, TasksTypeOK, MonitorEnded, Down, taskVars

\* The process is gone, and with it its tasks and its connection.
LEMMA ControlEnds == ASSUME ControlOK, ProcessEnds PROVE ControlOK'
  BY DEF ControlOK, TasksTypeOK, ProcessEnds, TasksReset, ApiReset, Down

\* The steps before the monitor is started.
LEMMA ControlInits ==
  ASSUME ControlOK, InitBegin \/ InitSteps \/ LoseKeys \/ Load \/ OpenStorage \/ BuildCore
  PROVE  ControlOK'
<1>1. CASE InitBegin \/ LoseKeys \/ Load \/ BuildCore
  BY <1>1, SamePhase DEF InitBegin, LoseKeys, Load, BuildCore, Goto, apiSide, apiVars, ControlOK
<1>2. CASE WriteKey("init key", "init pub") \/ WritePub("init pub", "init config")
  BY <1>2, SamePhase DEF WriteKey, WritePub, Goto, apiSide, apiVars
<1>3. CASE WriteConfig
  BY <1>3, ControlEnds DEF WriteConfig
<1>4. CASE OpenStorage
  BY <1>4 DEF OpenStorage, ControlOK, TasksTypeOK, taskVars, Goto, Down
<1> QED BY <1>1, <1>2, <1>3, <1>4 DEF InitSteps

LEMMA ControlStarts ==
  ASSUME ControlOK,
         \/ LoadIdentity \/ GenerateIdentity
         \/ WriteKey("new key", "new pub") \/ WritePub("new pub", "services")
         \/ BuildServices \/ StartAdapters \/ StartApi
  PROVE  ControlOK'
<1>1. CASE LoadIdentity \/ GenerateIdentity
  BY <1>1, SamePhase DEF LoadIdentity, GenerateIdentity, Goto, apiSide, apiVars
<1>2. CASE WriteKey("new key", "new pub") \/ WritePub("new pub", "services")
  BY <1>2, SamePhase DEF WriteKey, WritePub, Goto, apiSide, apiVars
<1>3. CASE BuildServices \/ StartAdapters \/ StartApi
  BY <1>3, SamePhase, NodeAssumption
     DEF BuildServices, StartAdapters, StartApi, Goto, apiSide, apiVars
<1> QED BY <1>1, <1>2, <1>3

\* The steps of Node::run, each of which changes the tasks or relies on them.
LEMMA ControlRuns ==
  ASSUME ControlOK,
         \/ StartMonitor \/ StartHeartbeat \/ Shutdown \/ Joined
         \/ StopAdapters \/ StopAppliance \/ CloseStorage
  PROVE  ControlOK'
<1>1. CASE StartMonitor
  BY <1>1 DEF StartMonitor, Spawn, ControlOK, TasksTypeOK, Goto, Down, apiSide, apiVars
<1>2. CASE StartHeartbeat
  BY <1>2 DEF StartHeartbeat, Spawn, ControlOK, TasksTypeOK, Goto, Down, apiSide, apiVars
<1>3. CASE Shutdown
  BY <1>3 DEF Shutdown, SendSignal, ControlOK, TasksTypeOK, Goto, Down, apiSide, apiVars
<1>4. CASE Joined
  BY <1>4 DEF Joined, ControlOK, TasksTypeOK, Goto, Down, MonitorEnded, taskVars, apiSide, apiVars
<1>5. CASE StopAdapters \/ StopAppliance
  BY <1>5, SamePhase DEF StopAdapters, StopAppliance, Goto, Down, apiSide, apiVars
<1>6. CASE CloseStorage
  BY <1>6 DEF CloseStorage, ControlOK, TasksTypeOK, Goto, Down, MonitorEnded, taskVars
<1> QED BY <1>1, <1>2, <1>3, <1>4, <1>5, <1>6

\* A task that is not there does nothing, and one that has ended stays ended.
LEMMA TaskKeepsControl ==
  ASSUME ControlOK, NEW t \in ServiceTasks, Tick(t) \/ Work(t) \/ End(t),
         UNCHANGED <<nodeSide, apiSide>>
  PROVE  ControlOK'
<1>1. PICK from \in {"waiting", "working"}, to \in {"waiting", "working", "ended"} :
        Become(t, from, to)
  BY DEF Tick, Work, TestTick, ReadTick, TestDone, ReadDone, End
<1>2. pc' = pc /\ db_open' = db_open /\ monitor_signal' = monitor_signal
  BY <1>1 DEF nodeSide, apiSide, apiVars, Become
<1>3. task[t] = from /\ task' = [task EXCEPT ![t] = to]
  BY <1>1 DEF Become
<1>4. TasksTypeOK'
  BY <1>2, <1>3 DEF ControlOK, TasksTypeOK
<1>5. pc \notin Running \cup Down => FALSE
  BY <1>3 DEF ControlOK
<1>6. MonitorEnded => MonitorEnded'
  BY <1>3 DEF MonitorEnded, ControlOK, TasksTypeOK, ServiceTasks
<1> QED BY <1>2, <1>4, <1>5, <1>6 DEF ControlOK

-----------------------------------------------------------------------------
(* The files                                                               *)

-----------------------------------------------------------------------------
(* The files                                                               *)

LEMMA TruthValue ==
  ASSUME NEW x, NEW S, NEW b, b = (x \in S)
  PROVE  b \in BOOLEAN /\ (b <=> x \in S)
<1>1. b \in BOOLEAN
  BY SMT
<1> QED BY <1>1, Zenon

LEMMA NotIdentities ==
  /\ Absent \notin Identities /\ Torn \notin Identities /\ Absent # Torn
  /\ \A i \in Identities : i \in 0..MaxIds
  /\ \A i \in 0..MaxIds : i < MaxIds => i + 1 \in Identities
  /\ 0 \in 0..MaxIds /\ 0 \in 0..MaxStarts
  /\ \A n \in 0..MaxStarts : n < MaxStarts => n + 1 \in 0..MaxStarts
  BY NodeAssumption DEF Identities

\* Steps that write no file and name no identity: all of Node::run, and what
\* is beside main.
LEMMA FilesKept ==
  ASSUME FilesOK, UNCHANGED <<fileVars, idVars, starts>>,
         \/ pc' = pc
         \/ pc \in {"storage", "core"} /\ pc' \in {"core", "identity"}
         \/ pc \in Identified /\ pc' \in Identified
  PROVE  FilesOK'
<1>1. FileTypeOK'
  BY DEF FilesOK, FileTypeOK, fileVars, idVars
<1>2. CASE pc' = pc
  BY <1>1, <1>2 DEF FilesOK, fileVars, idVars
<1>3. CASE pc # pc'
  BY <1>1, <1>3 DEF FilesOK, fileVars, idVars, Down
<1> QED BY <1>2, <1>3

LEMMA FilesInit ==
  ASSUME FilesOK, InitBegin \/ WriteKey("init key", "init pub")
                    \/ WritePub("init pub", "init config") \/ WriteConfig \/ LoseKeys
  PROVE  FilesOK'
<1> USE NotIdentities DEF FilesOK, FileTypeOK, fileVars, Down
<1>1. CASE InitBegin
  <2>1. made + 1 \in Identities
    BY <1>1 DEF InitBegin
  <2>2. keys_foreign' \in BOOLEAN /\ (keys_foreign' <=> config_file \in Identities)
    <3>1. keys_foreign' = (config_file \in Identities)
      BY <1>1 DEF InitBegin
    <3> QED BY <3>1, TruthValue, Zenon
  <2>3. pc' = "init key" /\ made' = made + 1 /\ ident' = made + 1
    BY <1>1 DEF InitBegin, Goto
  <2>4. UNCHANGED <<fileVars, config_id, starts>>
    BY <1>1 DEF InitBegin
  <2> QED BY <2>1, <2>2, <2>3, <2>4
<1>2. CASE WriteKey("init key", "init pub")
  BY <1>2 DEF WriteKey, Goto, idVars
<1>3. CASE WritePub("init pub", "init config")
  BY <1>3 DEF WritePub, Goto, idVars
<1>4. CASE WriteConfig
  BY <1>4 DEF WriteConfig, ProcessEnds
<1>5. CASE LoseKeys
  BY <1>5 DEF LoseKeys
<1> QED BY <1>1, <1>2, <1>3, <1>4, <1>5

LEMMA FilesLoaded ==
  ASSUME FilesOK, \/ Load \/ LoadIdentity \/ GenerateIdentity
                  \/ WriteKey("new key", "new pub") \/ WritePub("new pub", "services")
  PROVE  FilesOK'
<1> USE NotIdentities DEF FilesOK, FileTypeOK, fileVars, Down
<1>1. CASE Load
  BY <1>1 DEF Load, Goto
<1>2. CASE LoadIdentity
  BY <1>2 DEF LoadIdentity, BothKeys, Goto
<1>3. CASE GenerateIdentity
  <2>1. config_file \in Identities
    BY <1>3 DEF GenerateIdentity, Goto
  <2>2. keys_foreign
    BY <1>3, <2>1 DEF GenerateIdentity, Goto, BothKeys
  <2> QED BY <1>3, <2>1, <2>2 DEF GenerateIdentity, Goto
<1>4. CASE WriteKey("new key", "new pub")
  BY <1>4 DEF WriteKey, Goto, idVars
<1>5. CASE WritePub("new pub", "services")
  BY <1>5 DEF WritePub, Goto, idVars
<1> QED BY <1>1, <1>2, <1>3, <1>4, <1>5

\* A crash leaves what the step before it had made, and one file torn at most.
LEMMA FilesEnd == ASSUME FilesOK, Exit \/ Crash PROVE FilesOK'
<1> USE NotIdentities DEF FilesOK, FileTypeOK, ProcessEnds, Down
<1>1. CASE Exit
  BY <1>1 DEF Exit, fileVars
<1>2. CASE Crash
  <2>1. /\ key_file' \in {key_file, Torn} /\ pub_file' \in {pub_file, Torn}
        /\ config_file' \in {config_file, Torn}
        /\ key_file' # key_file => pc \in {"init key", "new key"}
        /\ pub_file' # pub_file => pc \in {"init pub", "new pub"}
        /\ config_file' # config_file => pc = "init config"
    BY <1>2 DEF Crash, Left
  <2> QED BY <1>2, <2>1 DEF Crash
<1> QED BY <1>1, <1>2

-----------------------------------------------------------------------------
(* The invariant                                                           *)

LEMMA NodeInit == Init => NodeIInv
<1> SUFFICES ASSUME Init PROVE NodeIInv
  OBVIOUS
<1>1. RequestsOK /\ ClientsOK
  BY RequestsInit, ClientsInit DEF Init
<1>2. ControlOK
  BY DEF Init, ControlOK, TasksTypeOK, TasksInit, ApiInit, Down
<1>3. FilesOK
  BY NotIdentities DEF Init, FilesOK, FileTypeOK, Down
<1> QED BY <1>1, <1>2, <1>3 DEF NodeIInv

\* main, and what happens to it.
LEMMA NodeMain ==
  ASSUME NodeIInv, InitBegin \/ LoseKeys \/ Load \/ Shutdown \/ Crash \/ Main
  PROVE  NodeIInv'
<1> USE DEF NodeIInv
<1>1. CASE Crash \/ Exit \/ WriteConfig
  <2>1. ProcessEnds
    BY <1>1 DEF Crash, Exit, WriteConfig
  <2>2. FilesOK'
    BY <1>1, FilesEnd, FilesInit
  <2> QED BY <2>1, <2>2, ControlEnds, RequestsReset, ClientsReset DEF ProcessEnds
<1>2. CASE ~(Crash \/ Exit \/ WriteConfig)
  <2>1. UNCHANGED <<tableVars, wsVars>>
    BY <1>2 DEF Main, InitBegin, LoseKeys, Load, Shutdown, InitSteps, OpenStorage, BuildCore,
         LoadIdentity, GenerateIdentity, WriteKey, WritePub, BuildServices, StartAdapters,
         StartApi, StartMonitor, StartHeartbeat, Joined, StopAdapters, StopAppliance,
         CloseStorage,
         apiSide, apiVars, tableVars
  <2>2. RequestsOK' /\ ClientsOK'
    BY <2>1, RequestsKept, ClientsKept
  <2>3. ControlOK'
    BY <1>2, ControlInits, ControlStarts, ControlRuns DEF Main, InitSteps
  <2>4. CASE \/ InitBegin \/ LoseKeys \/ Load \/ InitSteps
             \/ LoadIdentity \/ GenerateIdentity
             \/ WriteKey("new key", "new pub") \/ WritePub("new pub", "services")
    BY <1>2, <2>2, <2>3, <2>4, FilesInit, FilesLoaded DEF InitSteps
  <2>5. CASE \/ OpenStorage \/ BuildCore
             \/ BuildServices \/ StartAdapters \/ StartApi \/ StartMonitor \/ StartHeartbeat
             \/ Shutdown \/ Joined \/ StopAdapters \/ StopAppliance \/ CloseStorage
    <3>1. UNCHANGED <<fileVars, idVars, starts>>
      BY <2>5 DEF OpenStorage, BuildCore, BuildServices, StartAdapters, StartApi, StartMonitor,
           StartHeartbeat, Shutdown, Joined, StopAdapters, StopAppliance, CloseStorage
    <3>2. \/ pc \in {"storage", "core"} /\ pc' \in {"core", "identity"}
          \/ pc \in Identified /\ pc' \in Identified
      BY <2>5 DEF OpenStorage, BuildCore, BuildServices, StartAdapters, StartApi, StartMonitor,
           StartHeartbeat, Shutdown, Joined, StopAdapters, StopAppliance, CloseStorage, Goto, Down
    <3> QED BY <2>2, <2>3, <3>1, <3>2, FilesKept
  <2> QED BY <1>2, <2>4, <2>5 DEF Main
<1> QED BY <1>1, <1>2

\* The tasks, the requests and the clients, while main stays where it is.
LEMMA NodeBeside ==
  ASSUME NodeIInv,
         \/ \E t \in ServiceTasks : (Tick(t) \/ Work(t) \/ End(t)) /\ UNCHANGED <<nodeSide, apiSide>>
         \/ /\ Serving /\ UNCHANGED <<nodeSide, taskVars>>
            /\ \/ \E r \in Requests : \/ SendStep(r) \/ Lock(r, pc = "close storage")
                                      \/ \E high \in BOOLEAN : Begin(r, high)
               \/ \E c \in Clients : ClientStep(c) /\ UNCHANGED apiVars
  PROVE  NodeIInv'
<1> USE DEF NodeIInv
<1>1. FilesOK'
  BY FilesKept DEF nodeSide
<1>2. CASE \E t \in ServiceTasks :
             (Tick(t) \/ Work(t) \/ End(t)) /\ UNCHANGED <<nodeSide, apiSide>>
  <2>1. RequestsOK' /\ ClientsOK'
    BY <1>2, RequestsKept, ClientsKept DEF apiSide, apiVars, tableVars
  <2>2. ControlOK'
    BY <1>2, TaskKeepsControl
  <2> QED BY <1>1, <2>1, <2>2
<1>3. ASSUME UNCHANGED <<nodeSide, taskVars>>, db_open' = db_open PROVE ControlOK'
  BY <1>3 DEF ControlOK, TasksTypeOK, MonitorEnded, nodeSide, taskVars
<1>4. ASSUME NEW r \in Requests, \/ SendStep(r) \/ Lock(r, pc = "close storage")
                                  \/ \E high \in BOOLEAN : Begin(r, high)
      PROVE  RequestsOK' /\ ClientsOK' /\ db_open' = db_open
  <2>1. RequestsOK'
    BY <1>4, InsertKeeps, RoutedKeeps, NotRoutedKeeps, UpdateKeeps, CallerGoneKeeps,
       RequestBegins, LockKeeps DEF SendStep, Execute
  <2>2. (Routed(r) /\ db_open' = db_open) \/ UNCHANGED <<wsVars, db_open>>
    BY <1>4 DEF SendStep, Execute, Insert, Routed, NotRouted, Update, CallerGone, Begin, Panic,
         Lock
  <2>3. ClientsOK'
    BY <2>2, ClientsKept, BroadcastKeeps DEF Routed
  <2> QED BY <2>1, <2>2, <2>3
<1>5. ASSUME NEW c \in Clients, ClientStep(c), UNCHANGED apiVars
      PROVE  RequestsOK' /\ ClientsOK' /\ db_open' = db_open
  BY <1>5, ClientStepKeeps, RequestsKept DEF apiVars, tableVars
<1> QED BY <1>1, <1>2, <1>3, <1>4, <1>5

LEMMA NodeStep == NodeIInv /\ [Next]_vars => NodeIInv'
<1> SUFFICES ASSUME NodeIInv, [Next]_vars PROVE NodeIInv'
  OBVIOUS
<1>1. CASE UNCHANGED vars
  BY <1>1, SamePhase, FilesKept, RequestsKept, ClientsKept
     DEF NodeIInv, vars, apiSide, apiVars, tableVars, ControlOK
<1>2. CASE Next
  BY <1>2, NodeMain, NodeBeside DEF Next
<1> QED BY <1>1, <1>2

LEMMA NodeInvariant == Spec => []NodeIInv
<1>1. Init => NodeIInv
  BY NodeInit
<1>2. NodeIInv /\ [Next]_vars => NodeIInv'
  BY NodeStep
<1> QED BY <1>1, <1>2, PTL DEF Spec

-----------------------------------------------------------------------------
(* What follows                                                            *)

\* When the adapters are stopped and the storage is closed, no task of the
\* network monitor uses them any more (Node::shutdown, NetworkMonitor::stop).
THEOREM NodeConsistentHolds == Spec => []NodeConsistent
<1>1. NodeIInv => NodeConsistent
  <2> SUFFICES ASSUME NodeIInv PROVE NodeConsistent
    OBVIOUS
  <2>1. ApiTypeOK
    BY DEF NodeIInv, ControlOK, RequestsOK, TableTypeOK, RequestOK, ApiTypeOK, Due, Done, Handler
  <2>2. NodeTypeOK
    BY <2>1 DEF NodeIInv, ControlOK, FilesOK, FileTypeOK, NodeTypeOK
  <2>3. (\E t \in MonitorTasks : task[t] = "working") => db_open
    BY DEF NodeIInv, ControlOK, MonitorEnded, ServiceTasks, Down
  <2> QED BY <2>2, <2>3 DEF NodeConsistent, NodeIInv, ControlOK
<1> QED BY <1>1, NodeInvariant, PTL

\* Whatever process was stopped at whatever step before, a node that runs has
\* the identity its configuration names, unless its keys were taken away or
\* --init was cut short over an older configuration (create_default, Node::new).
THEOREM IdentityFitsHolds == Spec => []IdentityFits
<1>1. NodeIInv => IdentityFits
  BY DEF NodeIInv, FilesOK, IdentityFits
<1> QED BY <1>1, NodeInvariant, PTL

\* The messages table tells what happened to a message, also where two requests
\* share an id or the process stops in between (send_message, Storage::close).
THEOREM StatusAccountedHolds == Spec => []StatusAccounted
<1>1. NodeIInv => StatusAccounted
  BY DEF NodeIInv, RequestsOK, TableTypeOK, RowOK, StatusAccounted
<1> QED BY <1>1, NodeInvariant, PTL

\* A WebSocket client is given all events since it subscribed that can be written,
\* in their order, for as long as it is connected (websocket.rs, handle_socket's send task).
THEOREM ClientsSeeAllHolds == Spec => []ClientsSeeAll
<1>1. NodeIInv => ClientsSeeAll
  BY DEF NodeIInv, ClientsOK, ClientOK, Shows, ClientsSeeAll
<1> QED BY <1>1, NodeInvariant, PTL
==============================================================================
