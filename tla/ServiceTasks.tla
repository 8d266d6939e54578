----------------------------- MODULE ServiceTasks ------------------------------
(***************************************************************************)
(* What in a node works with the adapter manager locked for reading: the   *)
(* three tests of the network monitor (myriadnode-full/src/monitor.rs),    *)
(* each of which waits in a select! for its next tick or for the shutdown  *)
(* signal, and the readers that no shutdown tells: the broadcast task of   *)
(* the heartbeat service (heartbeat.rs), the monitor of the failover       *)
(* manager (failover.rs), the router's message sender (node.rs) and the    *)
(* handlers of the REST API (api.rs).                                      *)
(*                                                                         *)
(* What those readers do is modelled in Heartbeat and Failover; here they  *)
(* are only the guard they hold.                                           *)
(***************************************************************************)
EXTENDS Integers

CONSTANTS
  MonitorTasks,     \* ping, throughput, reliability
  ManagerReaders    \* who else reads the adapter manager, again and again

ASSUME TasksAssumption == MonitorTasks \cap ManagerReaders = {}

VARIABLES
  task,            \* task -> what it does
  monitor_signal   \* NetworkMonitor::stop has sent the shutdown signal

taskVars == <<task, monitor_signal>>

-----------------------------------------------------------------------------
ServiceTasks == MonitorTasks \cup ManagerReaders

TasksInit ==
  /\ task = [t \in ServiceTasks |-> "none"]
  /\ monitor_signal = FALSE

\* All tasks of a service are spawned when it starts.  Those of the monitor have
\* subscribed before, so a later signal is kept for them.
Spawn(T) ==
  /\ task' = [t \in ServiceTasks |-> IF t \in T THEN "waiting" ELSE task[t]]
  /\ UNCHANGED monitor_signal

Become(t, from, to) ==
  /\ task[t] = from
  /\ task' = [task EXCEPT ![t] = to]
  /\ UNCHANGED monitor_signal

\* A tick's work begins with the read lock of the manager; who waits for the
\* write lock is before it in the queue.
TestTick(t, writer_waits) ==
  t \in MonitorTasks /\ ~writer_waits /\ Become(t, "waiting", "working")

\* The tests keep the manager locked while they write their metrics; an error is
\* logged.
TestDone(t) == t \in MonitorTasks /\ Become(t, "working", "waiting")

ReadTick(t, writer_waits) ==
  t \in ManagerReaders /\ ~writer_waits /\ Become(t, "waiting", "working")

\* What a reader does without a guard, as the broadcast task does when it signs
\* what it collected, is left out.
ReadDone(t) == t \in ManagerReaders /\ Become(t, "working", "waiting")

\* select! looks for the signal only while the task waits, and may prefer a tick
\* that is due.
End(t) == t \in MonitorTasks /\ monitor_signal /\ Become(t, "waiting", "ended")

\* The first half of NetworkMonitor::stop; the second waits for MonitorEnded.
SendSignal_Mut ==   \* only tasks that wait at that moment hear it
  /\ monitor_signal' = \A t \in MonitorTasks : task[t] = "waiting"
  /\ UNCHANGED task
SendSignal == monitor_signal' = TRUE /\ UNCHANGED task
MonitorEnded == \A t \in MonitorTasks : task[t] = "ended"

ManagerRead == \E t \in ServiceTasks : task[t] = "working"

\* The process is gone.
TasksReset ==
  /\ task' = [t \in ServiceTasks |-> "none"]
  /\ monitor_signal' = FALSE

TasksTypeOK ==
  /\ task \in [ServiceTasks -> {"none", "waiting", "working", "ended"}]
  /\ monitor_signal \in BOOLEAN
=============================================================================
