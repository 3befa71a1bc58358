----------------------------- MODULE StockRoom -----------------------------
(***************************************************************************)
(* The stock of a branch under everything that moves it at once: sales,     *)
(* manual commands and counts, purchasing and production share one ledger   *)
(* and each checks its own shortage against it.                             *)
(***************************************************************************)
EXTENDS Consumption, Purchasing, Production

(* A document is one sold line, one delivery, one return or one batch.      *)
ASSUME DocumentsDiffer ==
    /\ Lines \cap Batches = {}
    /\ (Lines \cup Batches) \cap (Receipts \cup Returns) = {}

vars == <<ledgerVars, saleVars, purchaseVars, batch>>

Init == LedgerInit /\ SaleInit /\ PurchaseInit /\ ProductionInit

Next ==
    \/ LedgerNext /\ UNCHANGED <<saleVars, purchaseVars, batch>>
    \/ SaleNext /\ UNCHANGED <<purchaseVars, batch>>
    \/ PurchaseNext /\ UNCHANGED <<saleVars, batch>>
    \/ ProductionNext /\ UNCHANGED <<saleVars, purchaseVars>>

Spec == Init /\ [][Next]_vars

-----------------------------------------------------------------------------
TypeOK ==
    /\ ledger \in [Documents \cup {Manual} -> [Places -> Int]]
    /\ authorised \in [Places -> BOOLEAN]
    /\ \A c \in Counts : count[c].status \in {"NONE", "DRAFT", "POSTED"}
    /\ policy \in [DOMAIN Policies -> PolicyStatuses]
    /\ version \in [Versions -> VersionStatuses] /\ cancelled \subseteq Lines
    /\ sentAt \in [Lines -> {Never} \cup 0..clock]
    /\ readyAt \in [Tickets -> {Never} \cup 0..clock]
    /\ \A l \in Lines : consumption[l].status \in {"NONE", "POSTED", "REVERSED"}
    /\ purchase \in {"DRAFT", "SUBMITTED", "PARTIALLY_RECEIVED", "COMPLETED", "CANCELLED"}
    /\ \A b \in Batches : batch[b].status \in {"NONE", "POSTED", "REVERSED"}

(* No location is short of an item unless somebody allowed it with an       *)
(* override since the balance was last at zero or above, whatever sales,    *)
(* transfers, returns, batches and counts do to the same shelf in turn, and *)
(* although a document of several entries is checked entry by entry.        *)
ShortageIsAuthorised == \A p \in Places : Balance(p) < 0 => authorised[p]

(* What was reversed leaves no trace in any balance, whatever recipe or     *)
(* route has become effective in between.                                   *)
ReversedIsNeutral ==
    /\ \A l \in Lines : consumption[l].status = "REVERSED" => ledger[l] = Empty
    /\ \A b \in Batches : batch[b].status = "REVERSED" => ledger[b] = Empty

(* reconciliation counts the cancelled lines whose stock was taken and not  *)
(* put back: there are none, in whatever order a line is sent, prepared,    *)
(* posted or reversed by hand and cancelled.                                *)
CancelledIsPutBack == \A l \in cancelled : consumption[l].status # "POSTED"

(* A purchase never puts more into stock than was ordered, nor takes more   *)
(* back out than it put there, and it is COMPLETED exactly when nothing is  *)
(* outstanding.                                                             *)
PurchaseWithinOrder ==
    /\ \A l \in PurchaseLines : ReceivedOf(l) <= OrderLines[l].ordered
    /\ \A r \in Receipts, l \in PurchaseLines : ReturnedOf(r, l) <= received[r].quantity[l]
    /\ purchase = "COMPLETED"
          <=> \A l \in PurchaseLines : ReceivedOf(l) = OrderLines[l].ordered
    /\ SumFunction([p \in Places |-> SumFunction([d \in Receipts \cup Returns |-> ledger[d][p]])])
          = NetBase

(* The ledger as the line's guest sees it: see LineStock.                   *)
Promise == INSTANCE LineStock WITH
    stage <- [l \in Lines |-> consumption[l].status],
    taken <- [l \in Lines |-> [p \in Places |-> -ledger[l][p]]]

ImplementsLineStock == Promise!LineStockSpec

=============================================================================
