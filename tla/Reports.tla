------------------------------- MODULE Reports -------------------------------
(***************************************************************************)
(* What is read from the sale afterwards: the receipt of a completed order  *)
(* (apps/api/src/receipts) and the reports of the management (apps/api/src/ *)
(* reports).  Each is computed in one transaction from rows that Sale       *)
(* changes, so each is an expression over its state.                        *)
(*                                                                          *)
(* Abstracted: there is one business date and one currency; net amounts and *)
(* tax, which OrderPricing has; the numbers, the names and the layout of    *)
(* what is shown; the printing of a receipt.                                *)
(***************************************************************************)
EXTENDS Sale

Sold == WithStatus(order, {"COMPLETED"})

(* Faulty variant: the lines of merged orders are forgotten.                *)
OwnLines(o) == Drafts(o)

(* compositionLines: the lines of an order and of those merged into it.     *)
CompositionLines(o) == UNION {Drafts(x) : x \in Bill(o)}

(* compositionMoney: the totals stored with those orders.                   *)
CompositionMoney(o) == BillGross(o)

(* The receipt of a completed order: what its lines come to, and in full the *)
(* confirmed payments that have an allocation to it.                         *)
ReceiptTotal(o) == SumFunction([l \in CompositionLines(o) |-> line[l].quantity])

ReceiptTenders(o) ==
    SumFunction([p \in UNION {Allocated(x, {"CONFIRMED"}) : x \in Bill(o)} |-> Amount(p)])

(* salesBreakdown: a row for every item, or one for every channel.          *)
SalesByItem == [l \in UNION {CompositionLines(o) : o \in Sold} |-> line[l].quantity]
SalesByChannel == SumFunction([o \in Sold |-> CompositionMoney(o)])

(* dailySummary: the orders completed, and the refunds that were confirmed. *)
DailySummary ==
    [gross    |-> SumFunction([o \in Sold |-> CompositionMoney(o)]),
     refunded |-> SumFunction([r \in WithStatus(refund, {"CONFIRMED"}) |-> refund[r].amount])]

(* tenderSummary: a row for every method; a refund is one of its payment's. *)
TenderSummary ==
    [method \in {"CASH", "MANUAL"} |->
        [confirmed |-> SumFunction([p \in {p \in WithStatus(payment, {"CONFIRMED"}) :
                                              payment[p].method = method} |-> Amount(p)]),
         refunded  |-> SumFunction([r \in {r \in WithStatus(refund, {"CONFIRMED"}) :
                                              payment[refund[r].payment].method = method}
                                        |-> refund[r].amount])]]

Tendered(column) == SumFunction([method \in DOMAIN TenderSummary |-> TenderSummary[method][column]])

(* shiftReconciliation: a closed shift is compared with its rows of today.  *)
ShiftReconciliation(s) ==
    IF shift[s].status # "CLOSED" THEN "OPEN"
    ELSE IF shift[s].expected = ExpectedCash(s) THEN "MATCH" ELSE "MISMATCH"

-----------------------------------------------------------------------------
\* The books agree.  A receipt asks for what was tendered, in payments that are on
\* no other receipt; a day's sales are the same by order, by item and by receipt;
\* what was tendered and is not on a receipt was for orders not completed; and the
\* reconciliation of a closed shift never shows a difference
\* (ReceiptsService.create, ReportsService.dailySummary, salesBreakdown,
\* tenderSummary, shiftReconciliation).
BooksAgree ==
    /\ \A o \in Sold :
          ReceiptTotal(o) = CompositionMoney(o) /\ ReceiptTotal(o) = ReceiptTenders(o)
    /\ SumFunction(SalesByItem) = SalesByChannel
    /\ DailySummary.refunded = Tendered("refunded")
    /\ DailySummary.gross + SumFunction([o \in Orders \ UNION {Bill(x) : x \in Sold} |-> Confirmed(o)])
          = Tendered("confirmed")
    /\ \A s \in Shifts : ShiftReconciliation(s) # "MISMATCH"
=============================================================================
