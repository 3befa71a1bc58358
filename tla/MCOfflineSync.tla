--------------------------- MODULE MCOfflineSync ---------------------------
(* Small instances of OfflineSync for TLC.                                  *)
EXTENDS OfflineSync, TLC

CONSTANTS t1, t2, t3, cashier1, cashier2, till

(* One tab, one cashier, one till.                                          *)
OneTab == t1 :> cashier1
OneTill == cashier1 :> till

(* Two runtimes over the database of one cashier.                           *)
TwoTabs == t1 :> cashier1 @@ t2 :> cashier1

(* Two cashiers who take turns on one till: two databases, one device.      *)
TwoCashiers == t1 :> cashier1 @@ t2 :> cashier2
SharedTill == cashier1 :> till @@ cashier2 :> till

(* Both: two tabs of one cashier, and another cashier.                      *)
ThreeTabs == t1 :> cashier1 @@ t2 :> cashier1 @@ t3 :> cashier2

Open == {r \in Runtimes : page[r].phase # "CLOSED"}
OneOrder == \A c, d \in Commands : None \notin {agg[c], agg[d]} => agg[c] = agg[d]

(* No device is revoked, and no resolution dialog is open.                   *)
InService ==
    /\ \A d \in Devices : active[d]
    /\ \A r \in Runtimes : page[r].resolving = None

(* The states worth exploring with ThreeTabs and two commands an outbox: one *)
(* tab with one failure on two orders, or with two in service on one order;  *)
(* two tabs at once, in service on one order, without failures; and one     *)
(* command of each cashier with one failure.                                *)
OneTabAtWork ==
    /\ Cardinality(Open) <= 1 /\ nextSequence[cashier2] = 1 /\ t3 \notin Open
    /\ faults <= 1 \/ (OneOrder /\ InService)
TwoTabsAtWork ==
    /\ t3 \notin Open /\ nextSequence[cashier2] = 1 /\ OneOrder
    /\ InService /\ faults = 0
CashiersTakeTurns ==
    /\ Cardinality(Open \ {t3}) <= 1 /\ OneOrder /\ faults <= 1
    /\ \A o \in Outboxes : nextSequence[o] <= 2
Scope == OneTabAtWork \/ TwoTabsAtWork \/ CashiersTakeTurns

Symmetry ==
    Permutations(Slots) \cup Permutations(Aggregates) \cup Permutations({t1, t2})

=============================================================================
