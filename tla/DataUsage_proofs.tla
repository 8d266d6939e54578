--------------------------- MODULE DataUsage_proofs ---------------------------
(***************************************************************************)
(* The counter of DataUsage is the number of bytes counted since it was    *)
(* last cleared, less as many words as fit; from this it follows that the  *)
(* answers are right as long as less than a word was counted.              *)
(***************************************************************************)
EXTENDS DataUsage, TLAPS

Answers == {"Allow", "WarnButAllow", "Denied"}

\* What a call of a sender keeps while it runs.
CallOK(s) ==
  \/ sending[s] = Idle
  \/ /\ sending[s] \in [step : {"asked", "counted"}, size : Sizes, answer : Answers,
                        due : Answers, sent : Nat]
     /\ sending[s].sent < Word => sending[s].answer = sending[s].due

CallsOK == DOMAIN sending = Senders /\ \A s \in Senders : CallOK(s)

CounterOK ==
  /\ usage_bytes \in 0..(Word - 1)
  /\ total \in Nat
  /\ \E k \in Nat : total = usage_bytes + k * Word

UsageInv == CallsOK /\ CounterOK

-----------------------------------------------------------------------------
(* A counter below a word has not started again. *)
LEMMA NoWrapBelowWord ==
  ASSUME DataUsageConstants, CounterOK, total < Word
  PROVE  usage_bytes = total
<1>1. PICK k \in Nat : total = usage_bytes + k * Word
  BY DEF CounterOK
<1>2. CASE k = 0
  <2>1. k * Word = 0
    BY <1>2 DEF DataUsageConstants
  <2> QED BY <1>1, <2>1 DEF CounterOK
<1>3. CASE k > 0
  <2>1. k * Word >= Word
    BY <1>3, SMT DEF DataUsageConstants
  <2> QED BY <1>1, <2>1 DEF CounterOK, DataUsageConstants
<1> QED BY <1>2, <1>3

(* Adding in the counter is adding, less a word at most. *)
LEMMA PlusCounts ==
  ASSUME DataUsageConstants, CounterOK, NEW n \in Sizes,
         usage_bytes' = Plus(usage_bytes, n), total' = total + n
  PROVE  CounterOK'
<1>1. PICK k \in Nat : total = usage_bytes + k * Word
  BY DEF CounterOK
<1>2. n \in Nat /\ n < Word /\ Word \in Nat
  BY DEF DataUsageConstants
<1>3. usage_bytes' \in 0..(Word - 1) /\ total' \in Nat
  BY <1>2 DEF CounterOK, Plus
<1>4. CASE usage_bytes + n < Word
  BY <1>1, <1>2, <1>3, <1>4 DEF CounterOK, Plus
<1>5. CASE ~(usage_bytes + n < Word)
  <2>1. (k + 1) * Word = k * Word + Word
    BY <1>2
  <2>2. total' = usage_bytes' + (k + 1) * Word
    BY <1>1, <1>2, <1>5, <2>1 DEF CounterOK, Plus
  <2> QED BY <1>3, <2>2 DEF CounterOK
<1> QED BY <1>4, <1>5

LEMMA CounterCleared ==
  ASSUME DataUsageConstants, usage_bytes' = 0, total' = 0
  PROVE  CounterOK'
<1>1. total' = usage_bytes' + 0 * Word
  BY DEF DataUsageConstants
<1> QED BY <1>1 DEF CounterOK, DataUsageConstants

(* The other calls are as they were. *)
LEMMA OneCall ==
  ASSUME CallsOK, NEW s \in Senders, NEW v,
         sending' = [sending EXCEPT ![s] = v], CallOK(s)'
  PROVE  CallsOK'
BY DEF CallsOK, CallOK

-----------------------------------------------------------------------------
LEMMA UsageInvInit == ASSUME DataUsageConstants, Init PROVE UsageInv
<1>1. total = usage_bytes + 0 * Word
  BY DEF Init, DataUsageConstants
<1> QED BY <1>1 DEF Init, UsageInv, CallsOK, CallOK, CounterOK, DataUsageConstants

LEMMA UsageInvNext ==
  ASSUME DataUsageConstants, UsageInv, [Next]_vars
  PROVE  UsageInv'
<1> USE DEF UsageInv
<1>1. CASE \E s \in Senders : Send(s)
  <2> PICK s \in Senders : Send(s) BY <1>1
  <2>1. CASE \E n \in Sizes : Check_quota(s, n)
    <3> PICK n \in Sizes : Check_quota(s, n) BY <2>1
    <3> DEFINE v == [step |-> "asked", size |-> n, answer |-> Quota(policy, usage_bytes, n),
                     due |-> Quota(policy, total, n), sent |-> total]
    <3>1. sending' = [sending EXCEPT ![s] = v]
      BY DEF Check_quota
    <3>2. sending'[s] = v
      BY <3>1 DEF CallsOK
    <3>3. total < Word => usage_bytes = total
      BY NoWrapBelowWord
    <3>4. Quota(policy, usage_bytes, n) \in Answers /\ Quota(policy, total, n) \in Answers
      BY Zenon DEF Quota, Answers
    <3>5. v \in [step : {"asked", "counted"}, size : Sizes, answer : Answers, due : Answers, sent : Nat]
      BY <3>4 DEF CounterOK
    <3>6. v.sent < Word => v.answer = v.due
      BY <3>3
    <3>7. CallOK(s)'
      BY <3>2, <3>5, <3>6 DEF CallOK
    <3>8. CallsOK'
      BY <3>1, <3>7, OneCall
    <3>9. CounterOK'
      BY DEF Check_quota, CounterOK
    <3> QED BY <3>8, <3>9
  <2>2. CASE GiveUp(s)
    <3>1. CallOK(s)'
      BY <2>2 DEF GiveUp, CallOK, CallsOK
    <3>2. CallsOK'
      BY <2>2, <3>1, OneCall DEF GiveUp
    <3> QED BY <2>2, <3>2 DEF GiveUp, CounterOK
  <2>3. CASE Add_usage(s)
    <3>1. CallOK(s) /\ sending[s].step = "asked"
      BY <2>3 DEF Add_usage, CallsOK
    <3>2. sending[s] # Idle
      BY <3>1 DEF Idle
    <3>3. CallOK(s)'
      BY <2>3, <3>1, <3>2 DEF Add_usage, CallOK, CallsOK
    <3>4. sending' = [sending EXCEPT ![s] = [sending[s] EXCEPT !.step = "counted"]]
      BY <2>3 DEF Add_usage
    <3>5. CallsOK'
      BY <3>3, <3>4, OneCall
    <3>6. sending[s].size \in Sizes
      BY <3>1, <3>2 DEF CallOK
    <3>7. CounterOK'
      BY <2>3, <3>6, PlusCounts DEF Add_usage
    <3> QED BY <3>5, <3>7
  <2>4. CASE Reset_if_needed(s)
    <3>1. CallOK(s)'
      BY <2>4 DEF Reset_if_needed, CallOK, CallsOK
    <3>2. CallsOK'
      BY <2>4, <3>1, OneCall DEF Reset_if_needed
    <3>3. CounterOK'
      BY <2>4, CounterCleared DEF Reset_if_needed, CounterOK
    <3> QED BY <3>2, <3>3
  <2> QED BY <2>1, <2>2, <2>3, <2>4 DEF Send
<1>2. CASE ResetUsage
  <2>1. CounterOK'
    BY <1>2, CounterCleared DEF ResetUsage
  <2> QED BY <1>2, <2>1 DEF ResetUsage, CallsOK, CallOK
<1>3. CASE ResetStart \/ (\E p \in Policies : Update_policy(p)) \/ Tick \/ UNCHANGED vars
  BY <1>3 DEF ResetStart, Update_policy, Tick, vars, CallsOK, CallOK, CounterOK
<1> QED BY <1>1, <1>2, <1>3 DEF Next

(* The counter and the answers given by it are right at all times.         *)
LEMMA UsageInvariant == ASSUME DataUsageConstants PROVE Spec => []UsageInv
<1>1. Init => UsageInv
  BY UsageInvInit
<1>2. UsageInv /\ [Next]_vars => UsageInv'
  BY UsageInvNext
<1> QED BY <1>1, <1>2, PTL DEF Spec

(* As long as less than a word was counted since the last reset, a sender  *)
(* is denied exactly when the policy asks for it, and warned exactly then, *)
(* for every number of senders, every size and every policy (check_quota). *)
THEOREM AnswersAlwaysRight == ASSUME DataUsageConstants PROVE Spec => []AnswersRight
<1>1. UsageInv => AnswersRight
  BY DEF UsageInv, CallsOK, CallOK, AnswersRight
<1> QED BY <1>1, UsageInvariant, PTL
=============================================================================
