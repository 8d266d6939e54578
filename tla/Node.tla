--------------------------------- MODULE Node ---------------------------------
(***************************************************************************)
(* The life of a node: myriadnode --init and its start (main.rs and        *)
(* config.rs), Node::new, run and shutdown (node.rs), with the periodic    *)
(* tasks, the REST API's send_message and the WebSocket clients running in *)
(* it.  The process can stop at any moment; three files survive it, each   *)
(* written as a whole, or torn if the process stops meanwhile: the two     *)
(* halves of the key pair and the configuration, which names the node id.  *)
(*                                                                         *)
(* A key pair and the id made from it are one number.                      *)
(***************************************************************************)
EXTENDS SendMessage, ServiceTasks

CONSTANTS
  Absent, Torn,          \* what a file can be besides an identity
  ApiEnabled,            \* config.api.enabled
  MaxIds,                \* bound: key pairs generated
  MaxStarts              \* bound: processes started without --init

ASSUME NodeAssumption ==
  /\ ApiEnabled \in BOOLEAN
  /\ MaxIds \in Nat /\ MaxStarts \in Nat
  /\ {Absent, Torn} \cap (1..MaxIds) = {} /\ Absent # Torn

VARIABLES
  key_file, pub_file,    \* keys/node.key and keys/node.pub
  config_file,           \* config.yaml: the node id in it
  pc,                    \* the next step of main
  ident,                 \* identity generated or loaded by this process
  config_id,             \* node id from the configuration it loaded
  made,                  \* key pairs generated so far
  starts,                \* processes started
  keys_foreign           \* history: the key files need not belong to the configuration

fileVars == <<key_file, pub_file, config_file>>
idVars   == <<ident, config_id, made, keys_foreign>>
apiSide  == <<wsVars, apiVars>>
vars == <<fileVars, pc, idVars, starts, taskVars, apiSide>>

-----------------------------------------------------------------------------
Identities == 1..MaxIds

Init ==
  /\ key_file = Absent /\ pub_file = Absent /\ config_file = Absent
  /\ pc = "off"
  /\ ident = 0 /\ config_id = 0 /\ made = 0 /\ keys_foreign = FALSE
  /\ starts = 0
  /\ TasksInit /\ WsInit /\ ApiInit

\* The process ends here, in whatever way: main returns, with an error or
\* without, or it is killed.
ProcessEnds ==
  /\ pc' = "off"
  /\ ident' = 0 /\ config_id' = 0
  /\ TasksReset /\ WsReset /\ ApiReset

Goto(from, to) == pc = from /\ pc' = to

-----------------------------------------------------------------------------
(* myriadnode --init: Config::create_default.                              *)

\* Over an existing configuration, the keys change before the id does.
InitBegin ==
  /\ Goto("off", "init key") /\ made < MaxIds
  /\ made' = made + 1 /\ ident' = made + 1
  /\ keys_foreign' = (config_file \in Identities)
  /\ UNCHANGED <<fileVars, config_id, starts, taskVars, apiSide>>

WriteKey(from, to) ==
  /\ Goto(from, to)
  /\ key_file' = ident
  /\ UNCHANGED <<pub_file, config_file, idVars, starts, taskVars, apiSide>>

WritePub(from, to) ==
  /\ Goto(from, to)
  /\ pub_file' = ident
  /\ UNCHANGED <<key_file, config_file, idVars, starts, taskVars, apiSide>>

WriteConfig ==
  /\ pc = "init config" /\ ProcessEnds
  /\ config_file' = ident
  /\ keys_foreign' = FALSE
  /\ UNCHANGED <<key_file, pub_file, made, starts>>

InitSteps_Mut ==   \* the configuration is saved as soon as the id is known
  \/ /\ Goto("init key", "init key 2")
     /\ config_file' = ident
     /\ UNCHANGED <<key_file, pub_file, idVars, starts, taskVars, apiSide>>
  \/ WriteKey("init key 2", "init pub")
  \/ /\ pc = "init pub" /\ ProcessEnds
     /\ pub_file' = ident /\ keys_foreign' = FALSE
     /\ UNCHANGED <<key_file, config_file, made, starts>>
InitSteps ==
  \/ WriteKey("init key", "init pub")
  \/ WritePub("init pub", "init config")
  \/ WriteConfig

\* Between two processes: key files are deleted, or the next start is given
\* another data directory.
LoseKeys ==
  /\ pc = "off" /\ ~keys_foreign
  /\ key_file' \in {key_file, Absent} /\ pub_file' \in {pub_file, Absent}
  /\ <<key_file', pub_file'>> # <<key_file, pub_file>>
  /\ keys_foreign' = TRUE
  /\ UNCHANGED <<config_file, pc, ident, config_id, made, starts, taskVars, apiSide>>

-----------------------------------------------------------------------------
(* myriadnode: Config::load and Node::new.                                 *)

\* Without a configuration that parses there is no start.
Load ==
  /\ Goto("off", "storage") /\ starts < MaxStarts
  /\ config_file \in Identities
  /\ config_id' = config_file
  /\ starts' = starts + 1
  /\ UNCHANGED <<fileVars, ident, made, keys_foreign, taskVars, apiSide>>

\* A connection, and the tables if they are not there.
OpenStorage ==
  /\ Goto("storage", "core")
  /\ db_open' = TRUE
  /\ UNCHANGED <<fileVars, idVars, starts, taskVars, wsVars,
                 rows, sending, routed, refused, cut>>

\* Router, ledger, abuse prevention, monitor and failover manager: all of them
\* are made, and none of them runs before run starts it.
BuildCore ==
  /\ Goto("core", "identity")
  /\ UNCHANGED <<fileVars, idVars, starts, taskVars, apiSide>>

\* Bytes of the wrong length are an error; two halves of different pairs may be
\* taken or not.
BothKeys == key_file # Absent /\ pub_file # Absent
LoadIdentity ==
  /\ Goto("identity", "services")
  /\ BothKeys /\ key_file # Torn /\ pub_file # Torn
  /\ ident' = key_file
  /\ UNCHANGED <<fileVars, config_id, made, keys_foreign, starts, taskVars, apiSide>>

GenerateIdentity ==
  /\ Goto("identity", "new key") /\ made < MaxIds
  /\ ~BothKeys
  /\ made' = made + 1 /\ ident' = made + 1
  /\ UNCHANGED <<fileVars, config_id, keys_foreign, starts, taskVars, apiSide>>

\* The services that need the identity: heartbeat, appliance, updates, API.
BuildServices ==
  /\ Goto("services", "adapters")
  /\ UNCHANGED <<fileVars, idVars, starts, taskVars, apiSide>>

-----------------------------------------------------------------------------
(* Node::run.                                                              *)

\* An adapter that fails to start is missing, which stops nobody.
StartAdapters ==
  /\ Goto("adapters", IF ApiEnabled THEN "api" ELSE "monitor")
  /\ UNCHANGED <<fileVars, idVars, starts, taskVars, apiSide>>

StartApi ==
  /\ Goto("api", "monitor")
  /\ UNCHANGED <<fileVars, idVars, starts, taskVars, apiSide>>

StartMonitor ==
  /\ Goto("monitor", "heartbeat")
  /\ Spawn(MonitorTasks)
  /\ UNCHANGED <<fileVars, idVars, starts, apiSide>>

\* From here on all readers of the adapter manager are there: the failover
\* manager's monitor was started before, the router's queue processor is next.
StartHeartbeat ==
  /\ Goto("heartbeat", "ready")
  /\ Spawn(ManagerReaders)
  /\ UNCHANGED <<fileVars, idVars, starts, apiSide>>

\* wait_for_shutdown returns, and NetworkMonitor::stop tells its tasks.
Shutdown ==
  /\ Goto("ready", "stop monitor")
  /\ SendSignal
  /\ UNCHANGED <<fileVars, idVars, starts, apiSide>>

Joined_Mut ==   \* the tasks are told and not waited for
  /\ Goto("stop monitor", "stop adapters")
  /\ UNCHANGED <<fileVars, idVars, starts, taskVars, apiSide>>
Joined ==
  /\ Goto("stop monitor", "stop adapters")
  /\ MonitorEnded
  /\ UNCHANGED <<fileVars, idVars, starts, taskVars, apiSide>>

\* The write lock of the adapter manager is had when all its readers have let go.
StopAdapters ==
  /\ Goto("stop adapters", "stop appliance")
  /\ ~ManagerRead
  /\ UNCHANGED <<fileVars, idVars, starts, taskVars, apiSide>>

\* The cleanup task of the message cache is aborted, if the node is an appliance;
\* nobody else takes the lock this needs.
StopAppliance ==
  /\ Goto("stop appliance", "close storage")
  /\ UNCHANGED <<fileVars, idVars, starts, taskVars, apiSide>>

\* The write lock of the storage is had when no statement is executed any more.
\* The API keeps answering, and the heartbeat task keeps working, till the end.
CloseStorage ==
  /\ Goto("close storage", "exit")
  /\ ~StorageRead
  /\ db_open' = FALSE
  /\ UNCHANGED <<fileVars, idVars, starts, taskVars, wsVars,
                 rows, sending, routed, refused, cut>>

Exit ==
  /\ pc = "exit" /\ ProcessEnds
  /\ UNCHANGED <<fileVars, made, starts, keys_foreign>>

\* An error that main returns (a write, the database, the identity, a port in
\* use), or the process is killed.  A file that is being written is left as it
\* was or torn.
Left(f, steps) == IF pc \in steps THEN {f, Torn} ELSE {f}
Crash ==
  /\ pc # "off" /\ ProcessEnds
  /\ key_file' \in Left(key_file, {"init key", "new key"})
  /\ pub_file' \in Left(pub_file, {"init pub", "new pub"})
  /\ config_file' \in Left(config_file, {"init config"})
  /\ UNCHANGED <<made, starts, keys_foreign>>

-----------------------------------------------------------------------------
Main ==
  \/ InitSteps
  \/ OpenStorage \/ BuildCore \/ LoadIdentity \/ GenerateIdentity
  \/ WriteKey("new key", "new pub") \/ WritePub("new pub", "services")
  \/ BuildServices
  \/ StartAdapters \/ StartApi \/ StartMonitor \/ StartHeartbeat
  \/ Joined \/ StopAdapters \/ StopAppliance \/ CloseStorage \/ Exit

nodeSide == <<fileVars, pc, idVars, starts>>

Work(t) == TestDone(t) \/ ReadDone(t)
Tick(t) ==
  LET writer_waits == pc = "stop adapters"
  IN  TestTick(t, writer_waits) \/ ReadTick(t, writer_waits)

\* The server answers from its start until the process is gone.
Serving ==
  ApiEnabled /\ pc \in {"monitor", "heartbeat", "ready", "stop monitor", "stop adapters",
                        "stop appliance", "close storage", "exit"}

Next ==
  \/ InitBegin \/ LoseKeys \/ Load \/ Shutdown \/ Crash
  \/ Main
  \/ \E t \in ServiceTasks : (Tick(t) \/ Work(t) \/ End(t)) /\ UNCHANGED <<nodeSide, apiSide>>
  \/ /\ Serving /\ UNCHANGED <<nodeSide, taskVars>>
     /\ \/ \E r \in Requests : \/ SendStep(r) \/ Lock(r, pc = "close storage")
                               \/ \E high \in BOOLEAN : Begin(r, high)
        \/ \E c \in Clients : ClientStep(c) /\ UNCHANGED apiVars

Spec == Init /\ [][Next]_vars

\* The runtime goes on with main and with a task that works, and the database
\* comes back from one of the statements it is given; a task that finds its
\* signal and a tick again and again takes the signal at last, because select!
\* chooses at random.  Nothing is assumed of requests: they may come or not, and
\* their routing may never end.
FairSpec ==
  /\ Spec
  /\ WF_vars(Main)
  /\ \A t \in ServiceTasks :
       /\ WF_vars(Work(t) /\ UNCHANGED <<nodeSide, apiSide>>)
       /\ SF_vars(End(t) /\ UNCHANGED <<nodeSide, apiSide>>)
  /\ WF_vars(Serving /\ UNCHANGED <<nodeSide, taskVars>> /\ \E r \in Requests : Execute(r))

-----------------------------------------------------------------------------
NodeTypeOK ==
  /\ TasksTypeOK /\ ApiTypeOK
  /\ {key_file, pub_file, config_file} \subseteq Identities \cup {Absent, Torn}
  /\ ident \in 0..MaxIds /\ config_id \in 0..MaxIds /\ made \in 0..MaxIds
  /\ starts \in 0..MaxStarts

\* When the adapters are stopped and the storage is closed, no monitor task uses
\* them any more; the network monitor writes its metrics only to an open
\* database (Node::shutdown, NetworkMonitor::stop).
Down == {"stop adapters", "stop appliance", "close storage", "exit"}
NodeConsistent ==
  /\ NodeTypeOK
  /\ pc \in Down => MonitorEnded
  /\ (\E t \in MonitorTasks : task[t] = "working") => db_open

\* Whatever process was stopped at whatever step before, a node that runs has the
\* identity its configuration names, unless its keys were taken away or --init
\* was cut short over an older configuration (create_default, Node::new).
IdentityFits ==
  (pc \in {"api", "monitor", "heartbeat", "ready"} /\ ~keys_foreign) =>
    ident = config_id /\ key_file = config_id /\ pub_file = config_id

\* A shutdown that has begun ends the process, although the tests of the monitor,
\* the readers of the adapter manager and the requests that are still served
\* hold locks it needs and take them again (Node::shutdown, NetworkMonitor::stop).
ShutdownEnds == pc = "stop monitor" ~> pc = "off"
=============================================================================
