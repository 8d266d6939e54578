------------------------------ MODULE PowerScaling ------------------------------
(***************************************************************************)
(* What the battery allows (PowerManager in                                *)
(* myriadmesh-appliance/src/power.rs): whether an adapter is active, and   *)
(* with which power it may transmit.  The power table is a hash map, whose *)
(* entries come in any order: `order' is the order they come in.  All      *)
(* numbers are bytes.                                                      *)
(***************************************************************************)
EXTENDS Integers, Sequences, SequencesExt, FiniteSetsExt

MaxPower == 30   \* dBm

\* Up to the rounding of the code's floating point.  More than is full counts, up
\* to what a byte holds.
Battery_percent(capacity, current) ==
  IF capacity = 0 THEN 0 ELSE Min({255, (100 * current) \div capacity})

Is_critical_battery(percent, critical) == percent <= critical

\* thresholds: a list of [threshold, action], of which the first that applies
\* decides.
Is_adapter_active(thresholds, percent, critical) ==
  LET applies == {i \in DOMAIN thresholds : percent <= thresholds[i].threshold} IN
  IF applies # {} THEN thresholds[Min(applies)].action \in {"FullPower", "ReducePower"}
  ELSE ~Is_critical_battery(percent, critical)

Minus(a, b) == (a - b) % 256

\* The entry nearest to the charge from below, and full power if there is none.
\* A build that checks for overflow panics instead when the first such entry is
\* compared with 100 percent.
Get_power_scaling(table, percent, order) ==
  LET nearer(best, t) ==
        IF t <= percent /\ Minus(percent, t) < Minus(percent, best.percent)
        THEN [percent |-> t, power |-> table[t]] ELSE best
  IN FoldLeft(nearer, [percent |-> 100, power |-> MaxPower], order).power

Get_max_tx_power_dbm(table, percent, order) ==
  LET adjust(result, t) == IF percent >= t THEN Max({result, table[t]}) ELSE Min({result, table[t]})
  IN FoldLeft(adjust, MaxPower, order)

-----------------------------------------------------------------------------
(* References.                                                             *)

Monotone(table) == \A t, u \in DOMAIN table : t <= u => table[t] <= table[u]

EntryBelow(table, percent) ==
  LET below == {t \in DOMAIN table : t <= percent} IN
  IF below = {} THEN MaxPower ELSE table[Max(below)]

EntryAbove(table, percent) ==
  LET above == {t \in DOMAIN table : t > percent} IN
  IF above = {} THEN MaxPower ELSE table[Min(above)]

\* Tightening thresholds: the band the charge is in decides.
Ascending(thresholds) ==
  \A i, j \in DOMAIN thresholds : i < j => thresholds[i].threshold < thresholds[j].threshold
Band(thresholds, percent) ==
  {th \in Range(thresholds) :
     percent <= th.threshold /\ \A u \in Range(thresholds) : percent <= u.threshold => th.threshold <= u.threshold}
=============================================================================
