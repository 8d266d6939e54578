------------------------------- MODULE JsonFile -------------------------------
(***************************************************************************)
(* A map behind a tokio RwLock that is saved as a whole to a JSON file     *)
(* after every change: DeviceStore (device.rs) and MessageCache (cache.rs) *)
(* of the appliance crate are both built this way.  An operation changes   *)
(* the map under the write lock, drops the lock, and then saves: it takes  *)
(* the read lock, serializes the map and writes the file.                  *)
(*                                                                         *)
(* The operations run inside the handlers of the API.  A client that hangs *)
(* up drops its handler at an await: before the save has begun, while the  *)
(* directory is created, or while fs::write runs on a thread of its own,   *)
(* which goes on writing after the read lock is released (an orphan).      *)
(***************************************************************************)
CONSTANTS
  Callers,     \* tasks that use the map
  Unreadable   \* content of a file that does not parse

VARIABLES
  data,    \* the map in memory
  file,    \* what the file holds; <<>> is the empty map and the empty file
  saver,   \* caller -> is it about to save, or writing?
  json,    \* caller -> what the file will hold once its write is done
  stale    \* has the last save failed, been dropped, or met an orphan?

jsonVars == <<data, file, saver, json, stale>>

JsonInit ==
  /\ data = <<>> /\ file = <<>>
  /\ saver = [c \in Callers |-> "no"]
  /\ json = [c \in Callers |-> <<>>]
  /\ stale = FALSE

\* The write lock is free: nobody holds the read lock, as a save does until its
\* file is written.
Writable_Mut == TRUE   \* save drops the lock once it has serialized the map
Writable == \A c \in Callers : saver[c] # "writing"

\* The operation of c changes the map to d and is going to save it.
Change(c, d) ==
  /\ Writable
  /\ data' = d
  /\ saver' = [saver EXCEPT ![c] = "due"]
  /\ UNCHANGED <<file, json, stale>>

\* The operation of c changes the map, if at all, and returns without a save.
ChangeUnsaved(d) ==
  /\ Writable
  /\ data' = d
  /\ UNCHANGED <<file, saver, json, stale>>

\* fs::write truncates the file before it writes.  Two that write the same may
\* overlap; of a write and an orphan of other content either may come out torn.
BeginSave(c) ==
  LET clash == {b \in Callers : saver[b] = "orphan" /\ json[b] # data} IN
  /\ saver[c] = "due"
  /\ saver' = [saver EXCEPT ![c] = "writing"]
  /\ \E torn \in SUBSET IF clash = {} THEN {} ELSE clash \cup {c} :
       json' = [b \in Callers |-> IF b \in torn THEN Unreadable
                                 ELSE IF b = c THEN data ELSE json[b]]
  /\ UNCHANGED <<data, file, stale>>

\* A write is done.  After it the file is current unless it was torn or an orphan
\* is still to write.
EndSave(c) ==
  /\ saver[c] \in {"writing", "orphan"}
  /\ saver' = [saver EXCEPT ![c] = "no"]
  /\ json' = [json EXCEPT ![c] = <<>>]
  /\ file' = json[c]
  /\ stale' = (\/ saver[c] = "orphan" \/ json[c] = Unreadable
               \/ \E b \in Callers : saver[b] = "orphan")
  /\ UNCHANGED data

\* The file cannot be opened, or the write breaks off.
FailSave(c) ==
  /\ saver[c] # "no"
  /\ saver' = [saver EXCEPT ![c] = "no"]
  /\ json' = [json EXCEPT ![c] = <<>>]
  /\ IF saver[c] = "due" THEN UNCHANGED file ELSE file' \in {file, <<>>, Unreadable}
  /\ stale' = TRUE
  /\ UNCHANGED data

SaveStep(c) == BeginSave(c) \/ EndSave(c) \/ FailSave(c)

\* The handler that saves is dropped: nothing is written, or what fs::write has
\* begun is written by nobody's order.
AbandonSave(c) ==
  /\ \/ /\ saver[c] \in {"due", "writing"}
        /\ saver' = [saver EXCEPT ![c] = "no"]
        /\ json' = [json EXCEPT ![c] = <<>>]
     \/ /\ saver[c] = "writing"
        /\ saver' = [saver EXCEPT ![c] = "orphan"]
        /\ UNCHANGED json
  /\ stale' = TRUE
  /\ UNCHANGED <<data, file>>

\* What a stop of the process leaves in the file.
AfterCrash ==
  IF \A c \in Callers : saver[c] \in {"no", "due"} THEN {file} ELSE {file, <<>>, Unreadable}

\* DeviceStore::new, MessageCache::new; they fail on an unreadable file.
Load(content) ==
  /\ content # Unreadable
  /\ file' = content /\ data' = content
  /\ saver' = [c \in Callers |-> "no"]
  /\ json' = [c \in Callers |-> <<>>]
  /\ stale' = FALSE

\* Once nothing is written any more, the file holds what memory holds, but for a
\* save that failed, was dropped, or was disturbed by an orphan, and that no later
\* one made good.
Saving == \E c \in Callers : saver[c] # "no"
FileCurrent == Saving \/ stale \/ file = data
=============================================================================
