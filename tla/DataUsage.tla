------------------------------- MODULE DataUsage -------------------------------
(***************************************************************************)
(* The data usage of an appliance (DataUsageTracker in                     *)
(* myriadmesh-appliance/src/power.rs).  Whoever wants to send asks         *)
(* check_quota, sends unless it was denied, and calls add_usage, which     *)
(* counts the bytes and then looks whether a new period has begun; others  *)
(* do the same meanwhile.  The tracker has no user in the repository: the  *)
(* senders here use it as its comments say.                                *)
(***************************************************************************)
EXTENDS Integers

CONSTANTS
  Senders,
  Sizes,        \* bytes a sender may want to send
  Policies,     \* policies update_policy may set
  Megabyte,     \* 1024 * 1024
  Word,         \* 2^32, where the counter starts again
  MaxTotal,     \* bound on the bytes sent
  MaxNow        \* bound on the clock

\* hard, warn: limits in megabytes, with hard = 0 for none; start: of the period.
DataUsagePolicy == [enabled : BOOLEAN, warn : Nat, hard : Nat, period : Nat, start : Nat]

DataUsageConstants ==
  /\ Word \in Nat \ {0} /\ Megabyte \in Nat \ {0}
  /\ Sizes \subseteq 0..(Word - 1)
  /\ Policies \subseteq DataUsagePolicy

VARIABLES
  policy,
  usage_bytes,   \* an AtomicU32
  sending,       \* sender -> where it is
  resetting,     \* reset() has cleared the counter and not yet the period's start
  now,
  total          \* history: bytes counted since the counter was last cleared

vars == <<policy, usage_bytes, sending, resetting, now, total>>

-----------------------------------------------------------------------------
\* Whole megabytes are added, each part rounded down.
Quota(p, bytes, size) ==
  LET mb == bytes \div Megabyte + size \div Megabyte IN
  IF p.enabled /\ p.hard > 0 /\ mb > p.hard THEN "Denied"
  ELSE IF p.enabled /\ mb > p.warn THEN "WarnButAllow" ELSE "Allow"

Idle == [step |-> "idle"]

Init ==
  /\ policy \in Policies
  /\ usage_bytes = 0
  /\ sending = [s \in Senders |-> Idle]
  /\ resetting = FALSE
  /\ now = 0
  /\ total = 0

\* due, sent: history, the answer that is due by the bytes really counted, and
\* their number.
Check_quota(s, n) ==
  /\ sending[s] = Idle
  /\ sending' = [sending EXCEPT ![s] =
       [step |-> "asked", size |-> n, answer |-> Quota(policy, usage_bytes, n),
        due |-> Quota(policy, total, n), sent |-> total]]
  /\ UNCHANGED <<policy, usage_bytes, resetting, now, total>>

GiveUp(s) ==
  /\ sending[s].step = "asked" /\ sending[s].answer = "Denied"
  /\ sending' = [sending EXCEPT ![s] = Idle]
  /\ UNCHANGED <<policy, usage_bytes, resetting, now, total>>

\* fetch_add wraps.
Plus(bytes, n) == IF bytes + n < Word THEN bytes + n ELSE bytes + n - Word
Add_usage(s) ==
  /\ sending[s].step = "asked" /\ sending[s].answer # "Denied"
  /\ total < MaxTotal
  /\ usage_bytes' = Plus(usage_bytes, sending[s].size)
  /\ total' = total + sending[s].size
  /\ sending' = [sending EXCEPT ![s].step = "counted"]
  /\ UNCHANGED <<policy, resetting, now>>

\* The end of add_usage, with the policy locked.  Nothing else looks whether the
\* period is over.
Reset_if_needed(s) ==
  /\ sending[s].step = "counted"
  /\ sending' = [sending EXCEPT ![s] = Idle]
  /\ IF now >= policy.start + policy.period
     THEN /\ usage_bytes' = 0 /\ total' = 0
          /\ policy' = [policy EXCEPT !.start = now]
     ELSE UNCHANGED <<usage_bytes, total, policy>>
  /\ UNCHANGED <<resetting, now>>

\* reset clears the counter before it waits for the policy's lock.
ResetUsage ==
  /\ ~resetting /\ resetting' = TRUE
  /\ usage_bytes' = 0 /\ total' = 0
  /\ UNCHANGED <<policy, sending, now>>
ResetStart ==
  /\ resetting /\ resetting' = FALSE
  /\ policy' = [policy EXCEPT !.start = now]
  /\ UNCHANGED <<usage_bytes, sending, now, total>>

Update_policy(p) ==
  /\ policy' = p
  /\ UNCHANGED <<usage_bytes, sending, resetting, now, total>>

Tick ==
  /\ now < MaxNow
  /\ now' = now + 1
  /\ UNCHANGED <<policy, usage_bytes, sending, resetting, total>>

Send(s) == (\E n \in Sizes : Check_quota(s, n)) \/ GiveUp(s) \/ Add_usage(s) \/ Reset_if_needed(s)

Next ==
  \/ \E s \in Senders : Send(s)
  \/ ResetUsage \/ ResetStart
  \/ \E p \in Policies : Update_policy(p)
  \/ Tick

Spec == Init /\ [][Next]_vars

-----------------------------------------------------------------------------
\* The comment on QuotaCheck::Denied: "Hard limit exceeded, transmission denied"
\* (power.rs:349), by the bytes that were counted since the last reset.
DeniedBeyondLimit ==
  \A s \in Senders : (sending[s] # Idle /\ sending[s].due = "Denied") => sending[s].answer = "Denied"

\* As long as less than a word was counted since the last reset, each answer is
\* the one the policy asks for, whatever other senders, resets and new policies
\* come in between (DataUsageTracker).
AnswersRight ==
  \A s \in Senders : (sending[s] # Idle /\ sending[s].sent < Word) => sending[s].answer = sending[s].due
=============================================================================
