------------------------------ MODULE SendMessage ------------------------------
(***************************************************************************)
(* Sending a message over the REST API (send_message in                    *)
(* myriadnode-full/src/api.rs) and the row it leaves in the messages table *)
(* (myriadnode-full/src/storage.rs).  The row is written before the        *)
(* message is routed and updated afterwards, with awaits in between.  Each *)
(* statement is executed with the storage locked for reading, as is the    *)
(* query of list_messages, which changes nothing.                          *)
(*                                                                         *)
(* The id of a message is made from its source, destination, payload and   *)
(* the time in milliseconds: requests alike in all else share an id if     *)
(* they come within one millisecond.                                       *)
(***************************************************************************)
EXTENDS WebSocket

CONSTANTS
  MaxRequests,   \* bound: calls of send_message, numbered as they come
  Id(_),         \* the id send_message makes of a request
  AlwaysPersist  \* config.storage.persist_sent_messages, or appliance mode

ASSUME SendMessageAssumption == MaxRequests \in Nat /\ AlwaysPersist \in BOOLEAN

VARIABLES
  db_open,   \* the pool is open
  rows,      \* table messages: id -> status
  sending,   \* request -> where its handler is
  routed,    \* history: ids that were routed at least once
  refused,   \* history: ids whose routing failed at least once
  cut        \* history: ids of requests whose last statement was not executed

apiVars == <<db_open, rows, sending, routed, refused, cut>>

-----------------------------------------------------------------------------
Put(f, k, v) == [x \in DOMAIN f \cup {k} |-> IF x = k THEN v ELSE f[x]]

Requests == 1..MaxRequests
Ids == {Id(r) : r \in Requests}
Handler(at) == [at |-> at, persist |-> FALSE, guard |-> FALSE]
Due  == Handler("due")
Done == Handler("done")
Active(r) == sending[r] \notin {Due, Done}
Unfinished(r) == sending[r].persist /\ sending[r].at # "insert"

ApiInit ==
  /\ db_open = FALSE
  /\ rows = [i \in {} |-> ""]
  /\ sending = [r \in Requests |-> Due]
  /\ routed = {} /\ refused = {} /\ cut = {}

Comes(r) == sending[r] = Due /\ \A q \in 1..(r - 1) : sending[q] # Due

\* A message of high priority is written down in any case.
Begin(r, high) ==
  LET persist == AlwaysPersist \/ high IN
  /\ Comes(r)
  /\ sending' = [sending EXCEPT ![r] =
       [at |-> IF persist THEN "insert" ELSE "route", persist |-> persist, guard |-> FALSE]]
  /\ UNCHANGED <<wsVars, db_open, rows, routed, refused, cut>>

\* The handler panics if the id of the node or of the destination is shorter than
\* 64 bytes, and is gone before it has done anything.
Panic(r) ==
  /\ Comes(r)
  /\ sending' = [sending EXCEPT ![r] = Done]
  /\ UNCHANGED <<wsVars, db_open, rows, routed, refused, cut>>

\* The read lock of the storage; who waits for the write lock is before it in the
\* queue.
Lock(r, writer_waits) ==
  /\ sending[r].at \in {"insert", "sent", "failed"} /\ ~sending[r].guard
  /\ ~writer_waits
  /\ sending' = [sending EXCEPT ![r].guard = TRUE]
  /\ UNCHANGED <<wsVars, db_open, rows, routed, refused, cut>>

\* An insertion fails if the id is there, if the pool is closed, or on its own;
\* the message is routed all the same.
Insert(r) ==
  /\ sending[r].at = "insert" /\ sending[r].guard
  /\ rows' \in IF db_open /\ Id(r) \notin DOMAIN rows
               THEN {rows, Put(rows, Id(r), "routing")} ELSE {rows}
  /\ sending' = [sending EXCEPT ![r].at = "route", ![r].guard = FALSE]
  /\ UNCHANGED <<wsVars, db_open, routed, refused, cut>>

\* The event goes out as soon as the router has accepted the message.
Routed(r) ==
  /\ sending[r].at = "route"
  /\ \E encodable \in BOOLEAN : Broadcast(encodable)
  /\ routed' = routed \cup {Id(r)}
  /\ sending' = [sending EXCEPT ![r] = IF @.persist THEN [@ EXCEPT !.at = "sent"] ELSE Done]
  /\ UNCHANGED <<client, db_open, rows, refused, cut>>

NotRouted_Mut(r) ==   \* answers without an update
  /\ sending[r].at = "route"
  /\ refused' = refused \cup {Id(r)}
  /\ sending' = [sending EXCEPT ![r] = Done]
  /\ UNCHANGED <<wsVars, db_open, rows, routed, cut>>
NotRouted(r) ==
  /\ sending[r].at = "route"
  /\ refused' = refused \cup {Id(r)}
  /\ sending' = [sending EXCEPT ![r] = IF @.persist THEN [@ EXCEPT !.at = "failed"] ELSE Done]
  /\ UNCHANGED <<wsVars, db_open, rows, routed, cut>>

\* The result of the update is not looked at.
Update(r) ==
  LET id == Id(r) IN
  /\ sending[r].at \in {"sent", "failed"} /\ sending[r].guard
  /\ \/ db_open /\ UNCHANGED cut
        /\ rows' = IF id \in DOMAIN rows THEN [rows EXCEPT ![id] = sending[r].at] ELSE rows
     \/ cut' = cut \cup {id} /\ UNCHANGED rows
  /\ sending' = [sending EXCEPT ![r] = Done]
  /\ UNCHANGED <<wsVars, db_open, routed, refused>>

\* The caller hangs up: the server drops the handler, and its guard, at the await
\* it is at.
CallerGone(r) ==
  /\ Active(r)
  /\ cut' = IF Unfinished(r) THEN cut \cup {Id(r)} ELSE cut
  /\ sending' = [sending EXCEPT ![r] = Done]
  /\ UNCHANGED <<wsVars, db_open, rows, routed, refused>>

Execute(r) == Insert(r) \/ Update(r)
SendStep(r) == Panic(r) \/ Execute(r) \/ Routed(r) \/ NotRouted(r) \/ CallerGone(r)

StorageRead == \E r \in Requests : sending[r].guard

\* The process is gone, and with it every request; the table stays.
ApiReset ==
  /\ db_open' = FALSE
  /\ cut' = cut \cup {Id(r) : r \in {q \in Requests : Unfinished(q)}}
  /\ sending' = [r \in Requests |-> IF Active(r) THEN Done ELSE sending[r]]
  /\ UNCHANGED <<rows, routed, refused>>

-----------------------------------------------------------------------------
ApiTypeOK ==
  /\ db_open \in BOOLEAN
  /\ DOMAIN rows \subseteq Ids
  /\ \A i \in DOMAIN rows : rows[i] \in {"routing", "sent", "failed"}
  /\ \A r \in Requests : sending[r] \in {Due, Done} \/
       sending[r] \in [at : {"insert", "route", "sent", "failed"}, persist : BOOLEAN,
                      guard : BOOLEAN]
  /\ routed \cup refused \cup cut \subseteq Ids

\* The table tells what happened: a message listed as sent was routed, one listed
\* as failed was refused, and one that is listed as being routed is, unless its
\* request was cut short; also if two requests share a row, the database fails
\* or closes between two statements, and the process stops (send_message,
\* Storage::close).
StatusAccounted ==
  \A i \in DOMAIN rows :
    CASE rows[i] = "sent"    -> i \in routed
      [] rows[i] = "failed"  -> i \in refused
      [] rows[i] = "routing" -> i \in cut \/ \E r \in Requests : Id(r) = i /\ Unfinished(r)
=============================================================================
