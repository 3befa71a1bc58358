----------------------------- MODULE Purchasing -----------------------------
(***************************************************************************)
(* A purchase order, the deliveries received against it and the goods sent  *)
(* back.  Quantities are ordered in the supplier's unit and reach the       *)
(* ledger in the item's own, by an exact ratio fixed when the order was     *)
(* placed.  Abstracted: costs and currencies.                               *)
(***************************************************************************)
EXTENDS StockLedger

CONSTANTS
    OrderLines,     \* order line -> [item, ordered, numerator, denominator]
    Receipts, Returns       \* numbers, taken lowest first

ASSUME PurchaseAssumption ==
    /\ Receipts \cup Returns \subseteq Documents /\ Receipts \cap Returns = {} /\ Receipts # {}
    /\ DOMAIN OrderLines # {} /\ IsFiniteSet(DOMAIN OrderLines)
    /\ \A l \in DOMAIN OrderLines :
          /\ OrderLines[l].item \in Items /\ OrderLines[l].ordered \in Nat \ {0}
          /\ OrderLines[l].numerator \in Nat /\ OrderLines[l].denominator \in Nat \ {0}

PurchaseLines == DOMAIN OrderLines

VARIABLES
    purchase,       \* the order's status
    received,       \* receipt -> order line -> [quantity, location]
    returned        \* return -> [receipt, order line -> quantity]

purchaseVars == <<purchase, received, returned>>

-----------------------------------------------------------------------------
Exact(l, quantity) == (quantity * OrderLines[l].numerator) % OrderLines[l].denominator = 0
Base(l, quantity) == (quantity * OrderLines[l].numerator) \div OrderLines[l].denominator

Nothing == [l \in PurchaseLines |-> 0]

Posted(r) == \E l \in PurchaseLines : received[r].quantity[l] > 0

FreshReceipt(r) == ~Posted(r) /\ \A q \in Receipts : q < r => Posted(q)
FreshReturn(x) ==
    /\ returned[x].quantity = Nothing
    /\ \A y \in Returns : y < x => returned[y].quantity # Nothing

ReceivedOf(l) == SumFunction([r \in Receipts |-> received[r].quantity[l]])
ReturnsOf(r) == {x \in Returns : returned[x].receipt = r}
ReturnedOf(r, l) == SumFunction([x \in ReturnsOf(r) |-> returned[x].quantity[l]])

PlaceOf(r, l) == <<received[r].location[l], OrderLines[l].item>>

-----------------------------------------------------------------------------
(* transitionOrder                                                          *)
Submit ==
    /\ purchase = "DRAFT" /\ purchase' = "SUBMITTED" /\ budget.purchases > 0
    /\ UNCHANGED <<received, returned, ledgerVars>>

CancelPurchase ==
    /\ purchase \in {"DRAFT", "SUBMITTED"} /\ purchase' = "CANCELLED"
    /\ UNCHANGED <<received, returned, ledgerVars>>

(* Faulty variant: the lines missing from a delivery are not looked at.     *)
PostReceiptAlone(r, quantity, location) ==
    LET lines == {l \in PurchaseLines : quantity[l] > 0}
    IN /\ purchase \in {"SUBMITTED", "PARTIALLY_RECEIVED"}
       /\ FreshReceipt(r) /\ lines # {} /\ Spend("purchases")
       /\ \A l \in lines :
             ReceivedOf(l) + quantity[l] <= OrderLines[l].ordered /\ Exact(l, quantity[l])
       /\ received' = [received EXCEPT ![r] = [quantity |-> quantity, location |-> location]]
       /\ Post(r, {[line |-> l, place |-> <<location[l], OrderLines[l].item>>,
                    delta |-> Base(l, quantity[l])] : l \in lines}, FALSE)
       /\ purchase' =
            IF \A l \in lines : ReceivedOf(l) + quantity[l] >= OrderLines[l].ordered
            THEN "COMPLETED" ELSE "PARTIALLY_RECEIVED"
       /\ UNCHANGED <<returned, count>>

(* postReceipt: some lines, each at most once and into a location of its    *)
(* own; the order is complete when nothing is outstanding, the lines        *)
(* missing from this delivery included.                                     *)
PostReceipt(r, quantity, location) ==
    LET lines == {l \in PurchaseLines : quantity[l] > 0}
    IN /\ purchase \in {"SUBMITTED", "PARTIALLY_RECEIVED"}
       /\ FreshReceipt(r) /\ lines # {} /\ Spend("purchases")
       /\ \A l \in lines :
             /\ ReceivedOf(l) + quantity[l] <= OrderLines[l].ordered
             /\ Exact(l, quantity[l])
       /\ received' = [received EXCEPT ![r] = [quantity |-> quantity, location |-> location]]
       /\ Post(r, {[line |-> l, place |-> <<location[l], OrderLines[l].item>>,
                    delta |-> Base(l, quantity[l])] : l \in lines}, FALSE)
       /\ purchase' =
            IF \A l \in PurchaseLines : ReceivedOf(l) + quantity[l] >= OrderLines[l].ordered
            THEN "COMPLETED" ELSE "PARTIALLY_RECEIVED"
       /\ UNCHANGED <<returned, count>>

(* postReturn: whatever has become of the order; every line is checked      *)
(* against the balance before any of the return's entries is written.       *)
PostReturn(x, r, quantity, override) ==
    LET lines == {l \in PurchaseLines : quantity[l] > 0}
    IN /\ Posted(r) /\ lines # {} /\ Spend("purchases")
       /\ FreshReturn(x)
       /\ \A l \in lines :
             /\ ReturnedOf(r, l) + quantity[l] <= received[r].quantity[l]
             /\ Exact(l, quantity[l])
       /\ returned' = [returned EXCEPT ![x] = [receipt |-> r, quantity |-> quantity]]
       /\ Post(x, {[line |-> l, place |-> PlaceOf(r, l),
                    delta |-> -Base(l, quantity[l])] : l \in lines}, override)
       /\ UNCHANGED <<purchase, received, count>>

-----------------------------------------------------------------------------
(* valuationPreview: what is left of the deliveries, in base units.         *)
ReturnedBase(r, l) ==
    SumFunction([x \in ReturnsOf(r) |-> Base(l, returned[x].quantity[l])])

NetBase ==
    SumFunction([rl \in Receipts \X PurchaseLines |->
        Base(rl[2], received[rl[1]].quantity[rl[2]]) - ReturnedBase(rl[1], rl[2])])

PurchaseInit ==
    /\ purchase = "DRAFT"
    /\ received = [r \in Receipts |->
            [quantity |-> Nothing, location |-> [l \in PurchaseLines |-> CHOOSE k \in Locations : TRUE]]]
    /\ returned = [x \in Returns |->
            [receipt |-> CHOOSE r \in Receipts : TRUE, quantity |-> Nothing]]

Deliveries == [PurchaseLines -> 0..MaxQuantity]

PurchaseNext ==
    \/ Submit
    \/ CancelPurchase
    \/ \E r \in Receipts, quantity \in Deliveries :
          \/ \E location \in [PurchaseLines -> Locations] : PostReceipt(r, quantity, location)
          \/ \E x \in Returns, override \in BOOLEAN : PostReturn(x, r, quantity, override)

=============================================================================
