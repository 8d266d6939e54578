----------------------------- MODULE MCAppliance -----------------------------
(***************************************************************************)
(* A small instance of Appliance: two requests at a time, two devices and  *)
(* one message, for the first of them.                                     *)
(***************************************************************************)
EXTENDS Appliance, TLC

CONSTANTS r1, r2, d1, d2, t1, t2

TwoRequests == {r1, r2}
AllCallers  == Requests \cup {"cleanup"}
RequestSymmetry == Permutations(TwoRequests)

Message(i, d, r, e) ==
  [id |-> i, device |-> d, rank |-> r, expires |-> e, delivered |-> FALSE]
OneMessage == {Message("m1", d1, 1, 0)}
-----------------------------------------------------------------------------
(* The battery, on power tables and thresholds of a few entries.           *)
Battery == INSTANCE PowerScaling

Charges == {0, 4, 5, 6, 20, 21, 49, 50, 99, 100, 120}
Tables  == UNION {[S -> {10, 20, 30}] : S \in SUBSET {5, 20, 50, 100}}
Orders(S) == {o \in [1..Cardinality(S) -> S] : \A i, j \in DOMAIN o : i # j => o[i] # o[j]}
Thresholds ==
  UNION {[1..n -> [threshold : {5, 20, 50}, action : {"FullPower", "ListenOnly"}]] : n \in 0..3}

\* In whatever order the entries of the table come, the scaling is that of the
\* entry nearest from below; a full battery has full power whatever the table
\* says of it (power.rs, get_power_scaling).
ASSUME ScalingFromBelow ==
  \A table \in Tables, p \in Charges : \A o \in Orders(DOMAIN table) :
    Battery!Get_power_scaling(table, p, o) =
      IF p < 100 THEN Battery!EntryBelow(table, p) ELSE Battery!MaxPower

\* In whatever order the entries come, the power in dBm of a table that grows with
\* the charge is that of the next entry above (power.rs, get_max_tx_power_dbm).
ASSUME MaxPowerFromAbove ==
  \A table \in Tables, p \in Charges : Battery!Monotone(table) =>
    \A o \in Orders(DOMAIN table) :
      Battery!Get_max_tx_power_dbm(table, p, o) = Battery!EntryAbove(table, p)

\* Thresholds listed from the lowest on act by the band the charge is in, and
\* above all of them an adapter is active unless the battery is critical
\* (power.rs, is_adapter_active).
ASSUME ActiveByBand ==
  \A ths \in Thresholds, p \in Charges : Battery!Ascending(ths) =>
    LET band == Battery!Band(ths, p) IN
    Battery!Is_adapter_active(ths, p, 5) <=>
      IF band = {} THEN p > 5 ELSE \A th \in band : th.action = "FullPower"
=============================================================================
