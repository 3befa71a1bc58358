--------------------------- MODULE SaleTillProofs ---------------------------
(***************************************************************************)
(* Proofs about the money.  First what is kept because no step touches the   *)
(* rows it is taken over: what a shift was closed with stays true, and a     *)
(* completed bill stays settled.  Then what is added up, with SumLemmas: the *)
(* types of the amounts, what is returned of a bill and never more (the      *)
(* refinement of Settlement), and the agreement of the reports.              *)
(***************************************************************************)
EXTENDS SaleProofs, Reports

(* The shape of the rows.  What is allocated is left open.                  *)
PaymentRows ==
    /\ payment = [p \in Payments |-> payment[p]]
    /\ \A p \in Payments : payment[p] \in
          [status: {"NONE", "REQUIRES_VERIFICATION", "CONFIRMED", "FAILED", "CANCELLED"},
           method: {"CASH", "MANUAL"}, order: Orders \cup {None},
           shift: Shifts \cup {None}, by: Users \cup {None},
           allocation: {payment[p].allocation}]

RefundRows ==
    /\ refund = [r \in Refunds |-> refund[r]]
    /\ \A r \in Refunds : refund[r] \in
          [status: {"NONE", "REJECTED", "FAILED"} \cup Reserving,
           payment: Payments \cup {None}, shift: Shifts \cup {None},
           by: Users \cup {None}, approver: Users \cup {None},
           amount: {refund[r].amount}]

MovementRows == movement \in [Movements -> CashMovement]

(* A refund pays back a payment that exists.                                *)
Backed ==
    \A r \in Refunds : refund[r].status # "NONE" =>
        refund[r].payment \in Payments /\ payment[refund[r].payment].status # "NONE"

TillRows == PaymentRows /\ RefundRows /\ MovementRows /\ Backed

(* What CompletedIsSettled says of one order.                               *)
SettledBill(o) ==
    /\ BillConfirmed(o) = BillGross(o)
    /\ \A x \in Bill(o) :
          /\ UnsentDrafts(x) = {} /\ Allocated(x, {"REQUIRES_VERIFICATION"}) = {}
          /\ \A t \in WithStatus(ticket, InPreparation) : ticket[t].order # x

TillInv == TillRows /\ ClosedShiftStands /\ CompletedIsSettled

-----------------------------------------------------------------------------
(* What keeps the figure of a closed shift and a completed bill.            *)

(* Rows of one table change in no row of shift s.                           *)
Elsewhere(rows, new, s) ==
    \A x \in DOMAIN rows :
        \/ new[x] = rows[x]
        \/ (rows[x].status = "NONE" \/ rows[x].shift # s) /\ new[x].shift # s

LEMMA ClosedStays ==
    ASSUME TillRows, TillRows', NEW s \in Shifts, shift'[s] = shift[s],
           Elsewhere(payment, payment', s), Elsewhere(refund, refund', s),
           Elsewhere(movement, movement', s),
           \A p \in Payments : payment[p].status # "NONE" => payment'[p].method = payment[p].method
    PROVE  /\ ExpectedCash(s)' = ExpectedCash(s)
           /\ Awaiting(payment, s)' = Awaiting(payment, s)
           /\ Awaiting(refund, s)' = Awaiting(refund, s)
           /\ Awaiting(movement, s)' = Awaiting(movement, s)
<1>0. /\ DOMAIN payment = Payments /\ DOMAIN payment' = Payments
      /\ DOMAIN refund = Refunds /\ DOMAIN refund' = Refunds
      /\ DOMAIN movement = Movements /\ DOMAIN movement' = Movements
  BY DEF TillRows, PaymentRows, RefundRows, MovementRows
<1>1. /\ Awaiting(payment, s)' = Awaiting(payment, s)
      /\ Awaiting(refund, s)' = Awaiting(refund, s)
      /\ Awaiting(movement, s)' = Awaiting(movement, s)
  BY <1>0 DEF Awaiting, Elsewhere
<1>2. /\ CashPayments(s)' = CashPayments(s)
      /\ \A p \in CashPayments(s) : payment'[p] = payment[p]
  BY <1>0 DEF CashPayments, WithStatus, Elsewhere
<1>3. /\ CashRefunds(s)' = CashRefunds(s)
      /\ \A r \in CashRefunds(s) : refund'[r] = refund[r]
  <2>1. ASSUME NEW r \in Refunds, refund[r].status # "NONE", refund'[r] = refund[r]
        PROVE  payment'[refund'[r].payment].method = payment[refund[r].payment].method
    BY <2>1 DEF TillRows, Backed
  <2> QED BY <1>0, <2>1 DEF CashRefunds, WithStatus, Elsewhere
<1>4. \A d \in {"IN", "OUT"} :
         /\ PostedMovements(s, d)' = PostedMovements(s, d)
         /\ \A m \in PostedMovements(s, d) : movement'[m] = movement[m]
  BY <1>0 DEF PostedMovements, WithStatus, Elsewhere
<1>5. [p \in CashPayments(s)' |-> Amount(p)'] = [p \in CashPayments(s) |-> Amount(p)]
  <2>1. \A p \in CashPayments(s) : Amount(p)' = Amount(p)
    BY <1>2 DEF Amount
  <2> QED BY <1>2, <2>1
<1>6. [r \in CashRefunds(s)' |-> refund'[r].amount] = [r \in CashRefunds(s) |-> refund[r].amount]
  BY <1>3
<1>7. Posted(s, "IN")' = Posted(s, "IN") /\ Posted(s, "OUT")' = Posted(s, "OUT")
  <2>1. \A d \in {"IN", "OUT"} :
           [m \in PostedMovements(s, d)' |-> movement'[m].amount]
              = [m \in PostedMovements(s, d) |-> movement[m].amount]
    BY <1>4
  <2> QED BY <2>1 DEF Posted
<1>8. ExpectedCash(s)' = ExpectedCash(s)
  BY <1>5, <1>6, <1>7 DEF ExpectedCash
<1> QED BY <1>1, <1>8

LEMMA SettledStays ==
    ASSUME TillRows, TillRows', NEW o \in Orders, SettledBill(o), Bill(o)' = Bill(o),
           \A x \in Bill(o) :
              /\ order'[x].gross = order[x].gross
              /\ UnsentDrafts(x)' = {}
              /\ \A t \in WithStatus(ticket, InPreparation)' : ticket'[t].order # x
              /\ \A p \in Payments :
                    \/ payment'[p] = payment[p]
                    \/ /\ payment[p].status \in {"REQUIRES_VERIFICATION", "CONFIRMED"} =>
                             ~(payment[p].allocation[x] > 0)
                       /\ payment'[p].status \in {"REQUIRES_VERIFICATION", "CONFIRMED"} =>
                             ~(payment'[p].allocation[x] > 0)
    PROVE  SettledBill(o)'
<1>0. DOMAIN payment = Payments /\ DOMAIN payment' = Payments
  BY DEF TillRows, PaymentRows
<1>1. ASSUME NEW x \in Bill(o)
      PROVE  /\ Confirmed(x)' = Confirmed(x)
             /\ Allocated(x, {"REQUIRES_VERIFICATION"})' = {}
  <2>1. /\ Allocated(x, {"CONFIRMED"})' = Allocated(x, {"CONFIRMED"})
        /\ \A p \in Allocated(x, {"CONFIRMED"}) : payment'[p] = payment[p]
    BY <1>0 DEF Allocated, WithStatus
  <2>2. [p \in Allocated(x, {"CONFIRMED"})' |-> payment'[p].allocation[x]]
           = [p \in Allocated(x, {"CONFIRMED"}) |-> payment[p].allocation[x]]
    BY <2>1
  <2>3. Confirmed(x)' = Confirmed(x)
    BY <2>2 DEF Confirmed
  <2>4. Allocated(x, {"REQUIRES_VERIFICATION"}) = {}
    BY DEF SettledBill
  <2>5. Allocated(x, {"REQUIRES_VERIFICATION"})' = {}
    BY <1>0, <2>4 DEF Allocated, WithStatus
  <2> QED BY <2>3, <2>5
<1>2. [x \in Bill(o)' |-> Confirmed(x)'] = [x \in Bill(o) |-> Confirmed(x)]
  BY <1>1
<1>3. [x \in Bill(o)' |-> order'[x].gross] = [x \in Bill(o) |-> order[x].gross]
  OBVIOUS
<1>4. BillConfirmed(o)' = BillConfirmed(o) /\ BillGross(o)' = BillGross(o)
  BY <1>2, <1>3 DEF BillConfirmed, BillGross
<1> QED BY <1>1, <1>4 DEF SettledBill

-----------------------------------------------------------------------------
(* Steps that leave the tables of one half alone.                           *)

LEMMA SameTillRows ==
    ASSUME TillRows, UNCHANGED <<payment, refund, movement>>
    PROVE  TillRows'
BY DEF TillRows, PaymentRows, RefundRows, MovementRows, Backed

LEMMA SameClosed ==
    ASSUME OrderInv, ClosedShiftStands, UNCHANGED <<shift, payment, refund, movement>>
    PROVE  ClosedShiftStands'
<1>1. \A s \in Shifts : ExpectedCash(s)' = ExpectedCash(s)
  BY DEF ExpectedCash, CashPayments, CashRefunds, PostedMovements, Posted, Amount, WithStatus
<1>2. DOMAIN shift = Shifts
  BY DEF OrderInv, ShiftRows
<1> QED BY <1>1, <1>2 DEF ClosedShiftStands, Awaiting, WithStatus

LEMMA SameSettled ==
    ASSUME OrderInv, CompletedIsSettled, UNCHANGED <<order, line, ticket, payment>>
    PROVE  CompletedIsSettled'
<1>1. \A x \in Orders : Confirmed(x)' = Confirmed(x)
  BY DEF Confirmed, Allocated, WithStatus
<1>2. \A o \in Orders : BillConfirmed(o)' = BillConfirmed(o) /\ BillGross(o)' = BillGross(o)
  <2> SUFFICES ASSUME NEW o \in Orders
               PROVE  BillConfirmed(o)' = BillConfirmed(o) /\ BillGross(o)' = BillGross(o)
    OBVIOUS
  <2>1. Bill(o)' = Bill(o) /\ Bill(o) \subseteq Orders
    BY DEF Bill
  <2>2. [x \in Bill(o)' |-> Confirmed(x)'] = [x \in Bill(o) |-> Confirmed(x)]
    BY <1>1, <2>1
  <2> QED BY <2>1, <2>2 DEF BillConfirmed, BillGross
<1>3. DOMAIN order = Orders
  BY DEF OrderInv, OrderRows
<1> QED BY <1>2, <1>3 DEF CompletedIsSettled, Bill, UnsentDrafts, Drafts, Allocated, WithStatus

(* A completed bill: the order itself and the orders merged into it.        *)
LEMMA CompletedBill ==
    ASSUME OrderInv, NEW o \in Orders, order[o].status = "COMPLETED", NEW x \in Bill(o)
    PROVE  x \in Orders /\ order[x].status \in {"COMPLETED", "MERGED"}
<1>1. None \notin Orders
  BY SaleAssumption DEF SaleAssumption, Identifiers
<1> QED BY <1>1 DEF OrderInv, Joined, Bill

-----------------------------------------------------------------------------
(* The floor.                                                               *)

(* What the floor does to orders that are no longer live.                   *)
FloorSpares ==
    \A x \in Orders :
        /\ order'[x].status = "COMPLETED" => order[x].status = "COMPLETED"
        /\ order[x].status \in {"COMPLETED", "MERGED"} =>
              /\ order'[x] = order[x]
              /\ UnsentDrafts(x)' \subseteq UnsentDrafts(x)
              /\ \A t \in WithStatus(ticket, InPreparation)' : ticket'[t].order = x =>
                    t \in WithStatus(ticket, InPreparation) /\ ticket[t].order = x
        /\ \A o \in Orders : order[o].status = "COMPLETED" /\ order'[x].into = o =>
              order[x].into = o

LEMMA SparedKeepsSettled ==
    ASSUME OrderInv, OrderInv', TillInv, FloorSpares, UNCHANGED <<payment, refund, movement>>
    PROVE  CompletedIsSettled'
<1> SUFFICES ASSUME NEW o \in Orders, order'[o].status = "COMPLETED" PROVE SettledBill(o)'
  BY DEF CompletedIsSettled, SettledBill, WithStatus, OrderInv, OrderRows
<1>1. order[o].status = "COMPLETED"
  BY DEF FloorSpares
<1>2. SettledBill(o)
  BY <1>1 DEF TillInv, CompletedIsSettled, SettledBill, WithStatus, OrderInv, OrderRows
<1>3. \A x \in Bill(o) : x \in Orders /\ order[x].status \in {"COMPLETED", "MERGED"}
  BY <1>1, CompletedBill
<1>4. Bill(o)' = Bill(o)
  BY <1>1, <1>3 DEF Bill, FloorSpares
<1>5. \A x \in Bill(o) :
         /\ order'[x].gross = order[x].gross
         /\ UnsentDrafts(x)' = {}
         /\ \A t \in WithStatus(ticket, InPreparation)' : ticket'[t].order # x
         /\ \A p \in Payments : payment'[p] = payment[p]
  BY <1>2, <1>3 DEF FloorSpares, SettledBill
<1>6. TillRows /\ TillRows'
  BY SameTillRows DEF TillInv
<1> QED BY <1>2, <1>4, <1>5, <1>6, SettledStays

LEMMA FloorSparesSettled ==
    ASSUME OrderInv, FloorInv, NEW o \in Orders, Floor(o)
    PROVE  FloorSpares
<1> USE DEF FloorSpares
<1>0. /\ order = [x \in Orders |-> order[x]]
      /\ LineRows /\ TicketRows
  BY DEF OrderInv, OrderRows, FloorInv, KitchenInv
<1>1. ASSUME NEW s \in Shifts, CreateOrder(o, s) PROVE FloorSpares
  <2>1. /\ order[o].status = "NONE" /\ UNCHANGED <<line, ticket>>
        /\ order'[o].status = "OPEN" /\ order'[o].into = None
        /\ \A x \in Orders \ {o} : order'[x] = order[x]
    BY <1>0, <1>1 DEF CreateOrder, Fresh, Unused, NoOrder
  <2>2. None \notin Orders
    BY SaleAssumption DEF SaleAssumption, Identifiers
  <2> QED BY <2>1, <2>2 DEF UnsentDrafts, Drafts, WithStatus
<1>2. ASSUME NEW to \in {"OPEN", "HELD", "CANCELLED"}, Transition(o, to) PROVE FloorSpares
  <2>1. /\ order[o].status \in Live /\ UNCHANGED <<line, ticket>>
        /\ order'[o].status = to /\ order'[o].into = order[o].into
        /\ \A x \in Orders \ {o} : order'[x] = order[x]
    BY <1>2 DEF Transition, OrderInv, OrderRows
  <2> QED BY <2>1 DEF UnsentDrafts, Drafts, WithStatus, Live
<1>3. ASSUME order[o].status = "OPEN", Recalculate({o}),
             \A l \in Lines : \/ line'[l] = line[l] \/ line'[l].order = o,
             \A t \in Tickets :
                /\ ticket'[t].order = ticket[t].order
                /\ ticket'[t].status \in InPreparation => ticket[t].status \in InPreparation,
             DOMAIN ticket' = Tickets
      PROVE  FloorSpares
  <2>1. /\ order'[o].status = order[o].status /\ order'[o].into = order[o].into
        /\ \A x \in Orders \ {o} : order'[x] = order[x]
    BY <1>3 DEF Recalculate, OrderInv, OrderRows
  <2>2. \A x \in Orders \ {o} : UnsentDrafts(x)' \subseteq UnsentDrafts(x)
    BY <1>3 DEF UnsentDrafts, Drafts
  <2> QED BY <1>0, <1>3, <2>1, <2>2 DEF WithStatus, TicketRows
<1>4. ASSUME NEW l \in Lines, NEW n \in 1..MaxQuantity, AddLine(o, l, n) PROVE FloorSpares
  <2>1. n \in Nat
    BY SaleAssumption DEF SaleAssumption
  <2>2. \A k \in Lines : \/ line'[k] = line[k] \/ line'[k].order = o
    BY <1>0, <1>4, <2>1, NewLineShape DEF AddLine, LineRows
  <2> QED BY <1>0, <1>3, <1>4, <2>2 DEF AddLine, TicketRows
<1>5. ASSUME NEW l \in Lines, NEW n \in 1..MaxQuantity, NEW new \in Lines,
             ReplaceLine(o, l, new, n)
      PROVE  FloorSpares
  <2>1. n \in Nat
    BY SaleAssumption DEF SaleAssumption
  <2>2. \A k \in Lines : \/ line'[k] = line[k] \/ line'[k].order = o
    BY <1>0, <1>5, <2>1, NewLineShape
       DEF ReplaceLine, Editable, UnsentDrafts, Drafts, LineRows, OrderLine
  <2> QED BY <1>0, <1>3, <1>5, <2>2 DEF ReplaceLine, Editable, TicketRows
<1>6. ASSUME NEW l \in Lines, RemoveLine(o, l) PROVE FloorSpares
  <2>1. \A k \in Lines : \/ line'[k] = line[k] \/ line'[k].order = o
    BY <1>0, <1>6 DEF RemoveLine, Editable, UnsentDrafts, Drafts, LineRows, OrderLine
  <2> QED BY <1>0, <1>3, <1>6, <2>1 DEF RemoveLine, Editable, TicketRows
<1>7. ASSUME NEW l \in Lines, CancelSentLine(o, l) PROVE FloorSpares
  <2>1. \A k \in Lines : \/ line'[k] = line[k] \/ line'[k].order = o
    BY <1>0, <1>7 DEF CancelSentLine, Drafts, LineRows, OrderLine
  <2>2. /\ DOMAIN ticket' = Tickets
        /\ \A t \in Tickets :
              /\ ticket'[t].order = ticket[t].order
              /\ ticket'[t].status \in InPreparation => ticket[t].status \in InPreparation
    BY <1>0, <1>7 DEF CancelSentLine, Withdraw, TicketRows, PreparationTicket, InPreparation
  <2> QED BY <1>3, <1>7, <2>1, <2>2 DEF CancelSentLine
<1>8. ASSUME NEW other \in Orders, Merge(o, other) PROVE FloorSpares
  <2>1. /\ order[o].status = "OPEN" /\ order[other].status = "OPEN" /\ UNCHANGED <<line, ticket>>
        /\ order'[other].status = "MERGED" /\ order'[other].into = o
        /\ \A x \in Orders \ {other} : order'[x] = order[x]
    BY <1>8 DEF Merge, OrderInv, OrderRows
  <2> QED BY <2>1 DEF UnsentDrafts, Drafts, WithStatus
<1>9. ASSUME NEW child \in Orders, Split(o, child) PROVE FloorSpares
  <2>1. /\ order[o].status = "OPEN" /\ order[child].status = "NONE" /\ UNCHANGED ticket
    BY <1>9 DEF Split, Fresh, Unused
  <2>2. PICK total, rest :
           order' = [order EXCEPT ![o].gross = rest,
              ![child] = [NoOrder EXCEPT !.status = "OPEN", !.shift = order[o].shift,
                                         !.gross = total]]
    BY <1>9 DEF Split
  <2>3. /\ order'[o].status = "OPEN" /\ order'[o].into = order[o].into
        /\ order'[child].status = "OPEN" /\ order'[child].into = None
        /\ \A x \in Orders \ {o, child} : order'[x] = order[x]
    BY <2>1, <2>2 DEF NoOrder, OrderInv, OrderRows
  <2>4. \A l \in Lines : line'[l] = line[l] \/ line'[l].order \in {o, child}
    BY <1>9, SplitLinesEdit
  <2>5. \A x \in Orders \ {o, child} : UnsentDrafts(x)' \subseteq UnsentDrafts(x)
    BY <2>4 DEF UnsentDrafts, Drafts
  <2>6. None \notin Orders
    BY SaleAssumption DEF SaleAssumption, Identifiers
  <2> QED BY <2>1, <2>3, <2>5, <2>6 DEF WithStatus
<1>10. ASSUME NEW wave \in SUBSET UnsentDrafts(o), NEW tickets \in SUBSET Tickets,
              Send(o, wave, tickets)
       PROVE  FloorSpares
  <2>1. order[o].status = "OPEN" /\ UNCHANGED order
    BY <1>10 DEF Send
  <2>2. \A x \in Orders : UnsentDrafts(x)' \subseteq UnsentDrafts(x)
    BY <1>0, <1>10 DEF Send, UnsentDrafts, Drafts, LineRows, OrderLine
  <2>3. /\ DOMAIN ticket' = Tickets
        /\ \A t \in Tickets : ticket'[t] = ticket[t] \/ ticket'[t].order = o
    BY <1>10 DEF Send
  <2> QED BY <1>0, <2>1, <2>2, <2>3 DEF WithStatus, TicketRows
<1> HIDE DEF FloorSpares
<1> QED BY <1>1, <1>2, <1>4, <1>5, <1>6, <1>7, <1>8, <1>9, <1>10 DEF Floor

LEMMA AdvanceSparesSettled ==
    ASSUME FloorInv, NEW t \in Tickets, AdvanceTicket(t)
    PROVE  FloorSpares
<1>1. UNCHANGED <<order, line>> /\ ticket[t].status \in InPreparation
  BY DEF AdvanceTicket
<1>2. /\ DOMAIN ticket = Tickets /\ DOMAIN ticket' = Tickets
      /\ \A u \in Tickets \ {t} : ticket'[u] = ticket[u]
      /\ ticket'[t].order = ticket[t].order
  BY DEF AdvanceTicket, FloorInv, KitchenInv, TicketRows, PreparationTicket
<1>3. \A x \in Orders : UnsentDrafts(x)' = UnsentDrafts(x)
  BY <1>1 DEF UnsentDrafts, Drafts
<1> QED BY <1>1, <1>2, <1>3 DEF FloorSpares, WithStatus

(* Completing an order: its bill is settled then, and the others stay so.   *)
LEMMA CompleteKeepsSettled ==
    ASSUME OrderInv, TillInv, NEW o \in Orders, CompleteOrder(o)
    PROVE  CompletedIsSettled'
<1>0. /\ order[o].status \in Live /\ order' = [order EXCEPT ![o].status = "COMPLETED"]
      /\ UNCHANGED <<line, ticket, payment, refund, movement>>
      /\ SettledBill(o)
  BY DEF CompleteOrder, floorVars, SettledBill
<1>1. /\ DOMAIN order = Orders /\ DOMAIN order' = Orders
      /\ order'[o].status = "COMPLETED"
      /\ \A x \in Orders \ {o} : order'[x].status = order[x].status
      /\ \A x \in Orders : order'[x].into = order[x].into /\ order'[x].gross = order[x].gross
  BY <1>0 DEF OrderInv, OrderRows
<1>2. TillRows /\ TillRows'
  BY <1>0, SameTillRows DEF TillInv
<1>3. \A c \in Orders : order'[c].status = "COMPLETED" => SettledBill(c)
  BY <1>0, <1>1 DEF TillInv, CompletedIsSettled, SettledBill, WithStatus
<1>4. ASSUME NEW c \in Orders, order'[c].status = "COMPLETED" PROVE SettledBill(c)'
  <2>1. SettledBill(c) /\ Bill(c)' = Bill(c) /\ Bill(c) \subseteq Orders
    BY <1>1, <1>3, <1>4 DEF Bill
  <2>2. \A x \in Bill(c) :
           /\ order'[x].gross = order[x].gross
           /\ UnsentDrafts(x)' = {}
           /\ \A t \in WithStatus(ticket, InPreparation)' : ticket'[t].order # x
           /\ \A p \in Payments : payment'[p] = payment[p]
    BY <1>0, <1>1, <2>1 DEF SettledBill, UnsentDrafts, Drafts, WithStatus
  <2> QED BY <1>2, <2>1, <2>2, SettledStays
<1> QED BY <1>1, <1>4 DEF CompletedIsSettled, SettledBill, WithStatus

-----------------------------------------------------------------------------
(* Payments.                                                                *)

(* A payment touches no closed shift and no completed bill.                 *)
LEMMA OnePaymentKeeps ==
    ASSUME OrderInv, TillInv, NEW p \in Payments,
           UNCHANGED <<shift, order, line, ticket, refund, movement>>,
           PaymentRows',
           \A x \in Payments \ {p} : payment'[x] = payment[x],
           payment'[p].status # "NONE",
           payment[p].status # "NONE" => payment'[p].method = payment[p].method,
           \A s \in Shifts : shift[s].status = "CLOSED" =>
              /\ payment[p].status = "NONE" \/ payment[p].shift # s
              /\ payment'[p].shift # s,
           \A o \in Orders, x \in Orders :
              order[o].status = "COMPLETED" /\ x \in Bill(o) =>
                 /\ payment[p].status \in {"REQUIRES_VERIFICATION", "CONFIRMED"} =>
                          ~(payment[p].allocation[x] > 0)
                 /\ payment'[p].status \in {"REQUIRES_VERIFICATION", "CONFIRMED"} =>
                          ~(payment'[p].allocation[x] > 0)
    PROVE  TillInv'
<1>1. DOMAIN shift = Shifts /\ DOMAIN order = Orders
  BY DEF OrderInv, ShiftRows, OrderRows
<1>2. TillRows /\ TillRows'
  BY DEF TillInv, TillRows, RefundRows, MovementRows, Backed
<1>3. ClosedShiftStands'
  <2> SUFFICES ASSUME NEW s \in Shifts, shift[s].status = "CLOSED"
               PROVE  /\ shift[s].expected = ExpectedCash(s)'
                      /\ Awaiting(payment, s)' = {} /\ Awaiting(refund, s)' = {}
                      /\ Awaiting(movement, s)' = {}
    BY <1>1 DEF ClosedShiftStands, WithStatus
  <2>1. /\ Elsewhere(payment, payment', s) /\ Elsewhere(refund, refund', s)
        /\ Elsewhere(movement, movement', s)
    BY <1>2 DEF Elsewhere, TillRows, PaymentRows
  <2>2. /\ shift[s].expected = ExpectedCash(s)
        /\ Awaiting(payment, s) = {} /\ Awaiting(refund, s) = {} /\ Awaiting(movement, s) = {}
    BY <1>1 DEF TillInv, ClosedShiftStands, WithStatus
  <2>3. \A x \in Payments : payment[x].status # "NONE" => payment'[x].method = payment[x].method
    OBVIOUS
  <2> QED BY <1>2, <2>1, <2>2, <2>3, ClosedStays
<1>4. CompletedIsSettled'
  <2> SUFFICES ASSUME NEW o \in Orders, order[o].status = "COMPLETED" PROVE SettledBill(o)'
    BY <1>1 DEF CompletedIsSettled, SettledBill, WithStatus
  <2>1. SettledBill(o) /\ Bill(o)' = Bill(o) /\ Bill(o) \subseteq Orders
    BY <1>1 DEF TillInv, CompletedIsSettled, SettledBill, WithStatus, Bill
  <2>2. \A x \in Bill(o) :
           /\ order'[x].gross = order[x].gross
           /\ UnsentDrafts(x)' = {}
           /\ \A t \in WithStatus(ticket, InPreparation)' : ticket'[t].order # x
    BY <2>1 DEF SettledBill, UnsentDrafts, Drafts, WithStatus
  <2> QED BY <1>2, <2>1, <2>2, SettledStays
<1> QED BY <1>2, <1>3, <1>4 DEF TillInv

(* A shift that is not open has no part in a request of its own cashier.    *)
LEMMA OpenIsNotClosed ==
    ASSUME NEW s \in Shifts, NEW u \in Users, OwnShift(s, u)
    PROVE  \A c \in Shifts : shift[c].status = "CLOSED" => s # c
BY DEF OwnShift

LEMMA CreatePaymentKeeps ==
    ASSUME OrderInv, TillInv, NEW p \in Payments, NEW o \in Orders, NEW s \in Shifts,
           NEW u \in Users, NEW method \in {"CASH", "MANUAL"},
           CreatePayment(p, o, s, u, method)
    PROVE  TillInv'
<1>0. PICK allocation \in Allocations(o) :
          payment' = [payment EXCEPT ![p] =
                [status |-> IF method = "CASH" THEN "CONFIRMED" ELSE "REQUIRES_VERIFICATION",
                 method |-> method, order |-> o, shift |-> s, by |-> u,
                 allocation |-> allocation]]
  BY DEF CreatePayment
<1>1. /\ UNCHANGED <<shift, order, line, ticket, refund, movement>>
      /\ order[o].status \in Live /\ payment[p].status = "NONE"
      /\ \A c \in Shifts : shift[c].status = "CLOSED" => s # c
  BY OpenIsNotClosed DEF CreatePayment, floorVars, Fresh, Unused
<1>2. /\ PaymentRows' /\ payment'[p].status # "NONE" /\ payment'[p].shift = s
      /\ payment'[p].allocation = allocation
      /\ \A x \in Payments \ {p} : payment'[x] = payment[x]
  BY <1>0 DEF TillInv, TillRows, PaymentRows
<1>3. ASSUME NEW c \in Orders, NEW x \in Orders, order[c].status = "COMPLETED", x \in Bill(c)
      PROVE  ~(allocation[x] > 0)
  <2>1. allocation[x] > 0 => x \in Bill(o)
    BY DEF Allocations
  <2>2. None \notin Orders
    BY SaleAssumption DEF SaleAssumption, Identifiers
  <2>3. x \notin Bill(o)
    BY <1>1, <1>3, <2>2 DEF Bill, Live, OrderInv, Joined
  <2> QED BY <2>1, <2>3
<1> QED BY <1>1, <1>2, <1>3, OnePaymentKeeps

(* A manual payment that still waits is neither in a closed shift nor on a  *)
(* completed bill.                                                          *)
LEMMA WaitingIsElsewhere ==
    ASSUME OrderInv, TillInv, NEW p \in Payments, payment[p].status = "REQUIRES_VERIFICATION"
    PROVE  /\ \A s \in Shifts : shift[s].status = "CLOSED" => payment[p].shift # s
           /\ \A o \in Orders, x \in Orders :
                 order[o].status = "COMPLETED" /\ x \in Bill(o) => ~(payment[p].allocation[x] > 0)
<1>1. DOMAIN shift = Shifts /\ DOMAIN order = Orders /\ DOMAIN payment = Payments
  BY DEF OrderInv, ShiftRows, OrderRows, TillInv, TillRows, PaymentRows
<1>2. \A s \in Shifts : shift[s].status = "CLOSED" => Awaiting(payment, s) = {}
  BY <1>1 DEF TillInv, ClosedShiftStands, WithStatus
<1>3. \A o \in Orders, x \in Orders : order[o].status = "COMPLETED" /\ x \in Bill(o) =>
         Allocated(x, {"REQUIRES_VERIFICATION"}) = {}
  BY <1>1 DEF TillInv, CompletedIsSettled, WithStatus
<1>4. \A s \in Shifts : shift[s].status = "CLOSED" => payment[p].shift # s
  BY <1>1, <1>2 DEF Awaiting
<1>5. \A o \in Orders, x \in Orders :
         order[o].status = "COMPLETED" /\ x \in Bill(o) => ~(payment[p].allocation[x] > 0)
  BY <1>1, <1>3 DEF Allocated, WithStatus
<1> QED BY <1>4, <1>5

(* Verifying and cancelling.                                                *)
LEMMA DecidePaymentKeeps ==
    ASSUME OrderInv, TillInv, NEW p \in Payments,
           NEW status \in {"CONFIRMED", "FAILED", "CANCELLED"},
           payment[p].status = "REQUIRES_VERIFICATION",
           payment' = [payment EXCEPT ![p].status = status],
           UNCHANGED <<shift, order, line, ticket, refund, movement>>
    PROVE  TillInv'
<1>1. /\ PaymentRows' /\ payment'[p].status = status /\ payment'[p].shift = payment[p].shift
      /\ payment'[p].allocation = payment[p].allocation
      /\ payment'[p].method = payment[p].method
      /\ \A x \in Payments \ {p} : payment'[x] = payment[x]
  BY DEF TillInv, TillRows, PaymentRows
<1>2. payment'[p].status # "NONE"
  BY <1>1
<1> QED BY <1>1, <1>2, WaitingIsElsewhere, OnePaymentKeeps

-----------------------------------------------------------------------------
(* Refunds and drawer movements.                                            *)

LEMMA OneRowKeeps ==
    ASSUME OrderInv, TillInv, TillRows', UNCHANGED <<shift, order, line, ticket, payment>>,
           \A s \in Shifts : shift[s].status = "CLOSED" =>
              Elsewhere(refund, refund', s) /\ Elsewhere(movement, movement', s)
    PROVE  TillInv'
<1>1. DOMAIN shift = Shifts
  BY DEF OrderInv, ShiftRows
<1>2. ClosedShiftStands'
  <2> SUFFICES ASSUME NEW s \in Shifts, shift[s].status = "CLOSED"
               PROVE  /\ shift[s].expected = ExpectedCash(s)'
                      /\ Awaiting(payment, s)' = {} /\ Awaiting(refund, s)' = {}
                      /\ Awaiting(movement, s)' = {}
    BY <1>1 DEF ClosedShiftStands, WithStatus
  <2>1. /\ shift[s].expected = ExpectedCash(s)
        /\ Awaiting(payment, s) = {} /\ Awaiting(refund, s) = {} /\ Awaiting(movement, s) = {}
    BY <1>1 DEF TillInv, ClosedShiftStands, WithStatus
  <2>2. Elsewhere(payment, payment', s)
    BY DEF Elsewhere
  <2> QED BY <2>1, <2>2, ClosedStays DEF TillInv
<1>3. CompletedIsSettled'
  BY SameSettled DEF TillInv
<1> QED BY <1>2, <1>3 DEF TillInv

(* Refund r of a closed shift is no longer waiting.                         *)
LEMMA OpenRefundIsElsewhere ==
    ASSUME OrderInv, TillInv, NEW r \in Refunds,
           refund[r].status \in {"AWAITING_APPROVAL", "PENDING_PROVIDER"}
    PROVE  \A s \in Shifts : shift[s].status = "CLOSED" => refund[r].shift # s
<1>1. DOMAIN shift = Shifts /\ DOMAIN refund = Refunds
  BY DEF OrderInv, ShiftRows, TillInv, TillRows, RefundRows
<1>2. \A s \in Shifts : shift[s].status = "CLOSED" => Awaiting(refund, s) = {}
  BY <1>1 DEF TillInv, ClosedShiftStands, WithStatus
<1> QED BY <1>1, <1>2 DEF Awaiting

LEMMA RequestRefundKeeps ==
    ASSUME OrderInv, TillInv, NEW r \in Refunds, NEW p \in Payments, NEW s \in Shifts,
           NEW u \in Users, NEW n, RequestRefund(r, p, s, u, n)
    PROVE  TillInv'
<1>1. /\ UNCHANGED <<shift, order, line, ticket, payment, movement>>
      /\ refund[r].status = "NONE" /\ payment[p].status = "CONFIRMED"
      /\ refund' = [refund EXCEPT ![r] =
            [status |-> "AWAITING_APPROVAL", payment |-> p, shift |-> s, by |-> u,
             approver |-> None, amount |-> n]]
      /\ \A c \in Shifts : shift[c].status = "CLOSED" => s # c
  BY OpenIsNotClosed DEF RequestRefund, floorVars, Fresh, Unused
<1>2. /\ RefundRows' /\ refund'[r].shift = s /\ refund'[r].payment = p
      /\ \A x \in Refunds \ {r} : refund'[x] = refund[x]
  BY <1>1 DEF TillInv, TillRows, RefundRows, Reserving
<1>3. TillRows'
  BY <1>1, <1>2 DEF TillInv, TillRows, PaymentRows, MovementRows, Backed
<1>4. DOMAIN refund = Refunds
  BY DEF TillInv, TillRows, RefundRows
<1>5. \A c \in Shifts : shift[c].status = "CLOSED" =>
         Elsewhere(refund, refund', c) /\ Elsewhere(movement, movement', c)
  BY <1>1, <1>2, <1>4 DEF Elsewhere
<1> QED BY <1>1, <1>3, <1>5, OneRowKeeps

(* Approving, rejecting and resolving.                                      *)
LEMMA DecideRefundKeeps ==
    ASSUME OrderInv, TillInv, NEW r \in Refunds, NEW u \in Users,
           NEW status \in {"REJECTED", "CONFIRMED", "PENDING_PROVIDER", "FAILED"},
           refund[r].status \in {"AWAITING_APPROVAL", "PENDING_PROVIDER"},
           \/ refund' = [refund EXCEPT ![r].status = status, ![r].approver = u]
           \/ refund' = [refund EXCEPT ![r].status = status],
           UNCHANGED <<shift, order, line, ticket, payment, movement>>
    PROVE  TillInv'
<1>1. /\ RefundRows' /\ refund'[r].shift = refund[r].shift
      /\ refund'[r].payment = refund[r].payment
      /\ \A x \in Refunds \ {r} : refund'[x] = refund[x]
  BY DEF TillInv, TillRows, RefundRows, Reserving
<1>2. TillRows'
  BY <1>1 DEF TillInv, TillRows, PaymentRows, MovementRows, Backed
<1>3. DOMAIN refund = Refunds
  BY DEF TillInv, TillRows, RefundRows
<1>4. \A c \in Shifts : shift[c].status = "CLOSED" =>
         Elsewhere(refund, refund', c) /\ Elsewhere(movement, movement', c)
  BY <1>1, <1>3, OpenRefundIsElsewhere DEF Elsewhere
<1> QED BY <1>2, <1>4, OneRowKeeps

LEMMA RefundingKeeps ==
    ASSUME OrderInv, TillInv, NEW r \in Refunds, Refunding(r)
    PROVE  TillInv'
<1>1. ASSUME NEW p \in WithStatus(payment, {"CONFIRMED"}), NEW s \in Shifts, NEW u \in Users,
             NEW n \in 1..Amount(p), RequestRefund(r, p, s, u, n)
      PROVE  TillInv'
  <2>1. p \in Payments
    BY DEF WithStatus, TillInv, TillRows, PaymentRows
  <2> QED BY <1>1, <2>1, RequestRefundKeeps
<1>2. ASSUME NEW u \in Users, NEW approved \in BOOLEAN, ApproveRefund(r, u, approved)
      PROVE  TillInv'
  BY <1>2, DecideRefundKeeps DEF ApproveRefund, floorVars
<1>3. ASSUME NEW u \in Users, NEW outcome \in {"CONFIRMED", "FAILED"},
             ResolveRefund(r, u, outcome)
      PROVE  TillInv'
  BY <1>3, DecideRefundKeeps DEF ResolveRefund, floorVars
<1> QED BY <1>1, <1>2, <1>3 DEF Refunding

LEMMA DrawerKeeps ==
    ASSUME OrderInv, TillInv, NEW m \in Movements, Drawer(m)
    PROVE  TillInv'
<1>0. movement \in [Movements -> CashMovement] /\ DOMAIN movement = Movements
  BY DEF TillInv, TillRows, MovementRows
<1>1. ASSUME NEW s \in Shifts, NEW u \in Users, NEW direction \in {"IN", "OUT"},
             NEW n \in 1..MaxMovement, RequestMovement(m, s, u, direction, n)
      PROVE  TillInv'
  <2>1. /\ UNCHANGED <<shift, order, line, ticket, payment, refund>>
        /\ movement[m].status = "NONE"
        /\ \A c \in Shifts : shift[c].status = "CLOSED" => s # c
    BY <1>1, OpenIsNotClosed DEF RequestMovement, floorVars, Fresh, Unused
  <2>2. n \in Nat
    BY SaleAssumption DEF SaleAssumption
  <2>3. /\ MovementRows' /\ movement'[m].shift = s
        /\ \A x \in Movements \ {m} : movement'[x] = movement[x]
    <3>1. movement' = [movement EXCEPT ![m] =
             [status |-> "AWAITING_APPROVAL", shift |-> s, by |-> u,
              direction |-> direction, amount |-> n]]
      BY <1>1 DEF RequestMovement
    <3>2. [status |-> "AWAITING_APPROVAL", shift |-> s, by |-> u,
           direction |-> direction, amount |-> n] \in CashMovement
      BY <2>2 DEF CashMovement
    <3> QED BY <1>0, <3>1, <3>2 DEF MovementRows
  <2>4. TillRows'
    BY <2>1, <2>3 DEF TillInv, TillRows, PaymentRows, RefundRows, Backed
  <2>5. \A c \in Shifts : shift[c].status = "CLOSED" =>
           Elsewhere(refund, refund', c) /\ Elsewhere(movement, movement', c)
    BY <1>0, <2>1, <2>3 DEF Elsewhere
  <2> QED BY <2>1, <2>4, <2>5, OneRowKeeps
<1>2. ASSUME NEW u \in Users, NEW status \in {"POSTED", "REJECTED"}, ApproveMovement(m, u, status)
      PROVE  TillInv'
  <2>1. /\ UNCHANGED <<shift, order, line, ticket, payment, refund>>
        /\ \A c \in Shifts : shift[c].status = "CLOSED" => movement[m].shift # c
    BY <1>2 DEF ApproveMovement, floorVars
  <2>2. /\ MovementRows' /\ movement'[m].shift = movement[m].shift
        /\ \A x \in Movements \ {m} : movement'[x] = movement[x]
    BY <1>0, <1>2 DEF ApproveMovement, MovementRows, CashMovement
  <2>3. TillRows'
    BY <2>1, <2>2 DEF TillInv, TillRows, PaymentRows, RefundRows, Backed
  <2>4. \A c \in Shifts : shift[c].status = "CLOSED" =>
           Elsewhere(refund, refund', c) /\ Elsewhere(movement, movement', c)
    BY <1>0, <2>1, <2>2 DEF Elsewhere
  <2> QED BY <2>1, <2>3, <2>4, OneRowKeeps
<1> QED BY <1>1, <1>2 DEF Drawer

-----------------------------------------------------------------------------
(* Shifts.                                                                  *)

(* The shift desk leaves all rows but one shift's; a shift it has closed    *)
(* was left with nothing undecided, and a closed one stays as it is.        *)
LEMMA DeskKeeps ==
    ASSUME OrderInv, TillInv, NEW s \in Shifts, ShiftDesk(s)
    PROVE  TillInv'
<1>0. UNCHANGED <<order, line, ticket, payment, refund, movement>>
  BY DEF ShiftDesk, OpenShift, HandOver, CloseShift, floorVars
<1>1. TillRows' /\ CompletedIsSettled'
  BY <1>0, SameTillRows, SameSettled DEF TillInv
<1>2. /\ shift = [x \in Shifts |-> shift[x]] /\ DOMAIN shift = Shifts
      /\ \A x \in Shifts : shift[x] \in
            [status: {"NONE", "OPEN", "CLOSED"}, device: Devices \cup {None},
             cashier: Users \cup {None}, expected: {shift[x].expected}]
  BY DEF OrderInv, ShiftRows
<1>3. \A x \in Shifts : ExpectedCash(x)' = ExpectedCash(x)
  BY <1>0 DEF ExpectedCash, CashPayments, CashRefunds, PostedMovements, Posted, Amount, WithStatus
<1>4. \A x \in Shifts : /\ Awaiting(payment, x)' = Awaiting(payment, x)
                        /\ Awaiting(refund, x)' = Awaiting(refund, x)
                        /\ Awaiting(movement, x)' = Awaiting(movement, x)
  BY <1>0 DEF Awaiting
<1>5. /\ DOMAIN shift' = Shifts
      /\ \A x \in Shifts \ {s} : shift'[x] = shift[x]
      /\ shift'[s].status = "CLOSED" =>
            /\ shift'[s].expected = ExpectedCash(s)
            /\ Awaiting(payment, s) = {} /\ Awaiting(refund, s) = {} /\ Awaiting(movement, s) = {}
  <2>1. CASE \E u \in Users : HandOver(s, u)
    BY <1>2, <2>1 DEF HandOver
  <2>2. CASE \E u \in Users, d \in Devices : OpenShift(s, d, u)
    <3>1. PICK u \in Users, d \in Devices : OpenShift(s, d, u)
      BY <2>2
    <3>2. shift' = [shift EXCEPT ![s] =
             [NoShift EXCEPT !.status = "OPEN", !.device = d, !.cashier = u]]
      BY <3>1 DEF OpenShift
    <3>3. [NoShift EXCEPT !.status = "OPEN", !.device = d, !.cashier = u].status = "OPEN"
      BY DEF NoShift
    <3> QED BY <1>2, <3>2, <3>3
  <2>3. CASE CloseShift(s)
    BY <1>2, <2>3 DEF CloseShift
  <2> QED BY <2>1, <2>2, <2>3 DEF ShiftDesk
<1>6. ClosedShiftStands'
  <2> SUFFICES ASSUME NEW x \in Shifts, shift'[x].status = "CLOSED"
               PROVE  /\ shift'[x].expected = ExpectedCash(x)
                      /\ Awaiting(payment, x) = {} /\ Awaiting(refund, x) = {}
                      /\ Awaiting(movement, x) = {}
    BY <1>3, <1>4, <1>5 DEF ClosedShiftStands, WithStatus
  <2>1. CASE x = s
    BY <1>5, <2>1
  <2>2. CASE x # s
    BY <1>2, <1>5, <2>2 DEF TillInv, ClosedShiftStands, WithStatus
  <2> QED BY <2>1, <2>2
<1> QED BY <1>1, <1>6 DEF TillInv

-----------------------------------------------------------------------------
(* Every step.                                                              *)

LEMMA TillInvInit == Init => TillInv
<1> SUFFICES ASSUME Init PROVE TillInv
  OBVIOUS
<1>1. PaymentRows
  BY DEF Init, NoPayment, PaymentRows
<1>2. RefundRows
  BY DEF Init, NoRefund, RefundRows
<1>3. MovementRows
  BY DEF Init, NoMovement, MovementRows, CashMovement
<1>4. Backed
  BY DEF Init, NoRefund, Backed
<1>5. ClosedShiftStands
  BY DEF Init, NoShift, ClosedShiftStands, WithStatus
<1>6. CompletedIsSettled
  BY DEF Init, NoOrder, CompletedIsSettled, WithStatus
<1> QED BY <1>1, <1>2, <1>3, <1>4, <1>5, <1>6 DEF TillInv, TillRows

(* A step of the floor or the kitchen leaves the till alone.                *)
LEMMA FloorKeepsTill ==
    ASSUME OrderInv, OrderInv', TillInv, FloorSpares,
           UNCHANGED <<shift, payment, refund, movement>>
    PROVE  TillInv'
<1>1. CompletedIsSettled'
  BY SparedKeepsSettled
<1>2. TillRows' /\ ClosedShiftStands'
  BY SameTillRows, SameClosed DEF TillInv
<1> QED BY <1>1, <1>2 DEF TillInv

LEMMA TillInvStep ==
    ASSUME OrderInv, OrderInv', FloorInv, TillInv, [Next]_vars
    PROVE  TillInv'
<1>1. CASE \E o \in Orders : Floor(o)
  <2>1. PICK o \in Orders : Floor(o)
    BY <1>1
  <2>2. UNCHANGED <<shift, payment, refund, movement>>
    BY <2>1 DEF Floor, CreateOrder, Transition, AddLine, ReplaceLine, RemoveLine,
                CancelSentLine, Merge, Split, Send, moneyVars
  <2>3. FloorSpares
    BY <2>1, FloorSparesSettled
  <2> QED BY <2>2, <2>3, FloorKeepsTill
<1>2. CASE \E o \in Orders : CompleteOrder(o)
  <2>1. PICK o \in Orders : CompleteOrder(o)
    BY <1>2
  <2>2. UNCHANGED <<shift, payment, refund, movement>>
    BY <2>1 DEF CompleteOrder
  <2>3. TillRows' /\ ClosedShiftStands'
    BY <2>2, SameTillRows, SameClosed DEF TillInv
  <2>4. CompletedIsSettled'
    BY <2>1, CompleteKeepsSettled
  <2> QED BY <2>3, <2>4 DEF TillInv
<1>3. CASE \E t \in Tickets : AdvanceTicket(t)
  <2>1. PICK t \in Tickets : AdvanceTicket(t)
    BY <1>3
  <2>2. UNCHANGED <<shift, payment, refund, movement>>
    BY <2>1 DEF AdvanceTicket, moneyVars
  <2>3. FloorSpares
    BY <2>1, AdvanceSparesSettled
  <2> QED BY <2>2, <2>3, FloorKeepsTill
<1>4. CASE \E p \in Payments : Paying(p)
  <2>1. PICK p \in Payments : Paying(p)
    BY <1>4
  <2>2. ASSUME NEW o \in WithStatus(order, Live), NEW s \in Shifts, NEW u \in Users,
               NEW method \in {"CASH", "MANUAL"}, CreatePayment(p, o, s, u, method)
        PROVE  TillInv'
    <3>1. o \in Orders
      BY DEF WithStatus, OrderInv, OrderRows
    <3> QED BY <2>2, <3>1, CreatePaymentKeeps
  <2>3. ASSUME NEW u \in Users, NEW status \in {"CONFIRMED", "FAILED"},
               VerifyPayment(p, u, status)
        PROVE  TillInv'
    BY <2>3, DecidePaymentKeeps DEF VerifyPayment, floorVars
  <2>4. ASSUME CancelPayment(p) PROVE TillInv'
    BY <2>4, DecidePaymentKeeps DEF CancelPayment, floorVars
  <2> QED BY <2>1, <2>2, <2>3, <2>4 DEF Paying
<1>5. CASE \E r \in Refunds : Refunding(r)
  BY <1>5, RefundingKeeps
<1>6. CASE \E m \in Movements : Drawer(m)
  BY <1>6, DrawerKeeps
<1>7. CASE \E s \in Shifts : ShiftDesk(s)
  BY <1>7, DeskKeeps
<1>8. CASE UNCHANGED vars
  <2>1. UNCHANGED <<shift, order, line, ticket, payment, refund, movement>>
    BY <1>8 DEF vars
  <2> QED BY <2>1, SameTillRows, SameClosed, SameSettled DEF TillInv
<1> QED BY <1>1, <1>2, <1>3, <1>4, <1>5, <1>6, <1>7, <1>8 DEF Next

LEMMA TillInvariant == Spec => []TillInv
BY TillInvInit, TillInvStep, OrderInvariant, FloorInvariant, PTL DEF Spec

(* What a shift was closed with stays what its payments, refunds and        *)
(* movements say, whatever is verified, refunded or approved afterwards.    *)
THEOREM ClosedShiftsStand == Spec => []ClosedShiftStands
<1>1. TillInv => ClosedShiftStands
  BY DEF TillInv
<1> QED BY <1>1, TillInvariant, PTL

(* A bill that was completed is paid exactly, sent and prepared, and nothing *)
(* that anybody does later changes that.                                    *)
THEOREM CompletedBillsStaySettled == Spec => []CompletedIsSettled
<1>1. TillInv => CompletedIsSettled
  BY DEF TillInv
<1> QED BY <1>1, TillInvariant, PTL

-----------------------------------------------------------------------------
(***************************************************************************)
(* Amounts.  From here on sums are added up: what is recorded of money is a *)
(* whole number, refunds fit their payments, and what is paid is on the     *)
(* bill it was paid for.                                                    *)
(***************************************************************************)

(* What is allocated, refunded and expected.                                *)
Amounts ==
    /\ \A p \in Payments : payment[p].allocation \in [Orders -> Nat]
    /\ \A r \in Refunds : refund[r].amount \in Nat
    /\ \A s \in Shifts : shift[s].expected \in Int

(* What is paid back, or may still be, was paid.                            *)
RefundsFit == \A p \in Payments : Refunded(p, Reserving) <= Amount(p)

(* Only what was paid for a completed order is paid back.                   *)
RefundsAreOfSales ==
    \A r \in Refunds : refund[r].status # "NONE" =>
        /\ refund[r].amount > 0
        /\ payment[refund[r].payment].status = "CONFIRMED"
        /\ order[payment[refund[r].payment].order].status = "COMPLETED"

(* A payment is for the bill of the order it is anchored at.                *)
PaidOnBill ==
    \A p \in Payments : payment[p].status # "NONE" =>
        /\ payment[p].order \in Orders
        /\ \A x \in Orders : payment[p].allocation[x] > 0 => x \in Bill(payment[p].order)

MoneyInv == Amounts /\ RefundsFit /\ RefundsAreOfSales /\ PaidOnBill

LEMMA RowsAreFinite ==
    /\ IsFiniteSet(Shifts) /\ IsFiniteSet(Orders) /\ IsFiniteSet(Lines)
    /\ IsFiniteSet(Payments) /\ IsFiniteSet(Refunds) /\ IsFiniteSet(Movements)
    /\ None \notin Orders /\ None \notin Payments
<1>1. /\ Shifts \subseteq Identifiers /\ Orders \subseteq Identifiers /\ Lines \subseteq Identifiers
      /\ Payments \subseteq Identifiers /\ Refunds \subseteq Identifiers
      /\ Movements \subseteq Identifiers
  BY DEF Identifiers
<1> QED BY <1>1, SaleAssumption, FS_Subset DEF SaleAssumption

(* A sum over a table of whole numbers is one.                              *)
LEMMA TableSum ==
    ASSUME NEW f, IsFiniteSet(DOMAIN f)
    PROVE  /\ (\A x \in DOMAIN f : f[x] \in Nat) => SumFunction(f) \in Nat
           /\ (\A x \in DOMAIN f : f[x] \in Int) => SumFunction(f) \in Int
BY SumOver, SumIsNat, SumType

LEMMA AmountIsNat ==
    ASSUME NEW a \in [Orders -> Nat]
    PROVE  SumFunction(a) \in Nat /\ SumFunction(a) = SumFunctionOnSet(a, Orders)
<1>1. DOMAIN a = Orders /\ \A o \in Orders : a[o] \in Nat
  OBVIOUS
<1> QED BY <1>1, RowsAreFinite, TableSum, SumOver

LEMMA TotalIsNat ==
    ASSUME FloorInv, NEW o \in Orders
    PROVE  order[o].gross \in Nat
<1> DEFINE f == [l \in Drafts(o) |-> line[l].quantity]
<1>1. Drafts(o) \subseteq Lines
  BY DEF Drafts
<1>2. DOMAIN f = Drafts(o) /\ \A l \in DOMAIN f : f[l] \in Nat
  BY <1>1 DEF FloorInv, KitchenInv, LineRows, OrderLine
<1>3. IsFiniteSet(DOMAIN f)
  BY <1>1, <1>2, RowsAreFinite, FS_Subset
<1> HIDE DEF f
<1>4. SumFunction(f) \in Nat
  BY <1>2, <1>3, TableSum
<1> QED BY <1>4 DEF f, FloorInv, TotalInv, GrossIsCurrent, DraftTotal

LEMMA ExpectedIsInt ==
    ASSUME TillRows, Amounts, NEW s \in Shifts
    PROVE  ExpectedCash(s) \in Int
<1> DEFINE f == [p \in CashPayments(s) |-> Amount(p)]
           g == [r \in CashRefunds(s) |-> refund[r].amount]
           h(d) == [m \in PostedMovements(s, d) |-> movement[m].amount]
<1>0. /\ CashPayments(s) \subseteq Payments /\ CashRefunds(s) \subseteq Refunds
      /\ \A d \in {"IN", "OUT"} : PostedMovements(s, d) \subseteq Movements
  BY DEF CashPayments, CashRefunds, PostedMovements, WithStatus, TillRows, PaymentRows,
         RefundRows, MovementRows
<1>1. /\ IsFiniteSet(CashPayments(s)) /\ IsFiniteSet(CashRefunds(s))
      /\ \A d \in {"IN", "OUT"} : IsFiniteSet(PostedMovements(s, d))
  BY <1>0, RowsAreFinite, FS_Subset
<1>2. DOMAIN f = CashPayments(s) /\ \A p \in DOMAIN f : f[p] \in Int
  BY <1>0, AmountIsNat DEF Amounts, Amount
<1>3. DOMAIN g = CashRefunds(s) /\ \A r \in DOMAIN g : g[r] \in Int
  BY <1>0 DEF Amounts
<1>4. \A d \in {"IN", "OUT"} :
         DOMAIN h(d) = PostedMovements(s, d) /\ \A m \in DOMAIN h(d) : h(d)[m] \in Int
  BY <1>0 DEF TillRows, MovementRows, CashMovement
<1> HIDE DEF f, g, h
<1>5. SumFunction(f) \in Int /\ SumFunction(g) \in Int
  BY <1>1, <1>2, <1>3, TableSum
<1>6. SumFunction(h("IN")) \in Int /\ SumFunction(h("OUT")) \in Int
  BY <1>1, <1>4, TableSum
<1>7. ExpectedCash(s) = SumFunction(f) - SumFunction(g) + SumFunction(h("IN")) - SumFunction(h("OUT"))
  BY DEF ExpectedCash, Posted, f, g, h
<1> QED BY <1>5, <1>6, <1>7

-----------------------------------------------------------------------------
(* Refunds of a payment, as a sum over all refunds.                         *)

RefundTable(R) == DOMAIN R = Refunds /\ \A r \in Refunds : R[r].amount \in Nat

Back(R, p, statuses) ==
    [r \in Refunds |->
        IF R[r].status \in statuses /\ R[r].payment = p THEN R[r].amount ELSE 0]

BackSum(R, p, statuses) == SumFunctionOnSet(Back(R, p, statuses), Refunds)

LEMMA RefundedIsSum ==
    ASSUME NEW R, RefundTable(R), NEW p, NEW statuses
    PROVE  /\ SumFunction([r \in {r \in WithStatus(R, statuses) : R[r].payment = p} |-> R[r].amount])
                 = BackSum(R, p, statuses)
           /\ BackSum(R, p, statuses) \in Nat
<1> DEFINE A == {r \in WithStatus(R, statuses) : R[r].payment = p}
           f == [r \in A |-> R[r].amount]
           v == [r \in Refunds |-> R[r].amount]
<1>1. /\ A \subseteq Refunds /\ DOMAIN f = A /\ \A r \in A : f[r] = v[r]
      /\ \A r \in Refunds : v[r] \in Int
      /\ [r \in Refunds |-> IF r \in A THEN v[r] ELSE 0] = Back(R, p, statuses)
  BY DEF RefundTable, WithStatus, Back
<1>2. \A r \in Refunds : Back(R, p, statuses)[r] \in Nat
  BY DEF RefundTable, Back
<1> HIDE DEF A, f, v
<1>3. SumFunction(f) = SumFunctionOnSet([r \in Refunds |-> IF r \in A THEN v[r] ELSE 0], Refunds)
  BY <1>1, RowsAreFinite, SumFiltered
<1>4. BackSum(R, p, statuses) \in Nat
  BY <1>2, RowsAreFinite, SumIsNat DEF BackSum
<1> QED BY <1>1, <1>3, <1>4 DEF f, A, BackSum

(* One refund changes.                                                      *)
OneRefund(R, new, r) ==
    /\ RefundTable(R) /\ RefundTable(new) /\ r \in Refunds
    /\ \A x \in Refunds \ {r} : new[x] = R[x]

LEMMA RefundedMoves ==
    ASSUME NEW R, NEW new, NEW r, OneRefund(R, new, r), NEW p, NEW statuses
    PROVE  /\ BackSum(new, p, statuses) = BackSum(R, p, statuses)
                 + (Back(new, p, statuses)[r] - Back(R, p, statuses)[r])
           /\ BackSum(R, p, statuses) \in Nat /\ BackSum(new, p, statuses) \in Nat
<1> DEFINE f == Back(R, p, statuses)
           g == Back(new, p, statuses)
<1>1. /\ r \in Refunds
      /\ \A x \in Refunds : f[x] \in Int /\ g[x] \in Int
      /\ \A x \in Refunds \ {r} : g[x] = f[x]
  BY DEF OneRefund, RefundTable, Back
<1>2. BackSum(R, p, statuses) \in Nat /\ BackSum(new, p, statuses) \in Nat
  BY RefundedIsSum DEF OneRefund
<1> HIDE DEF f, g
<1>3. SumFunctionOnSet(g, Refunds) = SumFunctionOnSet(f, Refunds) + (g[r] - f[r])
  BY <1>1, RowsAreFinite, SumUpdate
<1> QED BY <1>2, <1>3 DEF f, g, BackSum

LEMMA RefundsAreTable ==
    ASSUME TillRows, Amounts
    PROVE  /\ RefundTable(refund)
           /\ \A p, statuses : /\ Refunded(p, statuses) = BackSum(refund, p, statuses)
                               /\ Refunded(p, statuses) \in Nat
<1>1. RefundTable(refund)
  BY DEF TillRows, RefundRows, Amounts, RefundTable
<1>2. ASSUME NEW p, NEW statuses
      PROVE  Refunded(p, statuses) = BackSum(refund, p, statuses) /\ Refunded(p, statuses) \in Nat
  <2>1. /\ SumFunction([r \in {r \in WithStatus(refund, statuses) : refund[r].payment = p} |->
                          refund[r].amount]) = BackSum(refund, p, statuses)
        /\ BackSum(refund, p, statuses) \in Nat
    BY <1>1, RefundedIsSum
  <2> QED BY <2>1 DEF Refunded
<1> QED BY <1>1, <1>2

(* The same of the next state.                                              *)
LEMMA RefundsStayTable ==
    ASSUME TillRows', Amounts'
    PROVE  /\ RefundTable(refund')
           /\ \A p, statuses : /\ Refunded(p, statuses)' = BackSum(refund', p, statuses)
                               /\ Refunded(p, statuses)' \in Nat
<1>1. RefundTable(refund')
  BY DEF TillRows, RefundRows, Amounts, RefundTable
<1>2. ASSUME NEW p, NEW statuses
      PROVE  Refunded(p, statuses)' = BackSum(refund', p, statuses) /\ Refunded(p, statuses)' \in Nat
  <2>1. /\ SumFunction([r \in {r \in WithStatus(refund', statuses) : refund'[r].payment = p} |->
                          refund'[r].amount]) = BackSum(refund', p, statuses)
        /\ BackSum(refund', p, statuses) \in Nat
    BY <1>1, RefundedIsSum
  <2> QED BY <2>1 DEF Refunded
<1> QED BY <1>1, <1>2

-----------------------------------------------------------------------------
(* Every step keeps the amounts.                                            *)

(* What the floor, the kitchen, the shift desk and the drawer leave alone.  *)
LEMMA OrdersKeepMoney ==
    ASSUME TillRows, MoneyInv, UNCHANGED <<payment, refund>>, \A s \in Shifts : shift'[s].expected \in Int,
           \A x \in Orders : /\ order[x].status = "COMPLETED" => order'[x].status = "COMPLETED"
                             /\ order[x].into \in Orders => order'[x].into = order[x].into
    PROVE  MoneyInv'
<1>1. Amounts'
  BY DEF MoneyInv, Amounts
<1>2. RefundsFit'
  BY DEF MoneyInv, RefundsFit, Refunded, Amount, WithStatus
<1>3. PaidOnBill'
  BY DEF MoneyInv, PaidOnBill, Bill
<1>4. \A r \in Refunds : refund[r].status # "NONE" => payment[refund[r].payment].order \in Orders
  BY DEF TillRows, Backed, MoneyInv, PaidOnBill
<1>5. RefundsAreOfSales'
  BY <1>4 DEF MoneyInv, RefundsAreOfSales
<1> QED BY <1>1, <1>2, <1>3, <1>5 DEF MoneyInv

(* A new payment, or one that is decided on.                                *)
LEMMA OnePaymentKeepsMoney ==
    ASSUME TillRows, MoneyInv, NEW p \in Payments, UNCHANGED <<shift, order, refund>>,
           DOMAIN payment' = Payments, \A x \in Payments \ {p} : payment'[x] = payment[x],
           payment[p].status # "CONFIRMED", payment'[p].allocation \in [Orders -> Nat],
           payment'[p].order \in Orders,
           payment[p].status = "NONE" \/ payment'[p].allocation = payment[p].allocation,
           \A x \in Orders : payment'[p].allocation[x] > 0 => x \in Bill(payment'[p].order)
    PROVE  MoneyInv'
<1>1. Amounts'
  BY DEF MoneyInv, Amounts
<1>2. \A r \in Refunds : refund[r].status # "NONE" =>
         refund[r].payment \in Payments /\ refund[r].payment # p
  BY DEF MoneyInv, RefundsAreOfSales, TillRows, Backed
<1>3. RefundsAreOfSales'
  BY <1>2 DEF MoneyInv, RefundsAreOfSales
<1>4. PaidOnBill'
  BY DEF MoneyInv, PaidOnBill, Bill
<1>5. ASSUME NEW q \in Payments PROVE (Refunded(q, Reserving) <= Amount(q))'
  <2>1. Refunded(q, Reserving)' = Refunded(q, Reserving)
    BY DEF Refunded, WithStatus
  <2>2. CASE q # p
    <3>1. Amount(q)' = Amount(q)
      BY <2>2 DEF Amount
    <3> QED BY <2>1, <3>1 DEF MoneyInv, RefundsFit
  <2>3. CASE q = p
    <3>1. \A r \in Refunds : Back(refund, p, Reserving)[r] = 0
      BY <1>2 DEF Back, Reserving
    <3>2. BackSum(refund, p, Reserving) = 0
      BY <3>1, RowsAreFinite, SumZero DEF BackSum
    <3>3. Refunded(p, Reserving) = 0
      BY <3>2, RefundsAreTable DEF MoneyInv
    <3>4. Amount(p)' \in Nat
      BY AmountIsNat DEF Amount
    <3> QED BY <2>1, <2>3, <3>3, <3>4
  <2> QED BY <2>2, <2>3
<1>6. RefundsFit'
  BY <1>5 DEF RefundsFit
<1> QED BY <1>1, <1>3, <1>4, <1>6 DEF MoneyInv

LEMMA CreatePaymentKeepsMoney ==
    ASSUME TillInv, MoneyInv, NEW p \in Payments, NEW o \in Orders, NEW s \in Shifts,
           NEW u \in Users, NEW method \in {"CASH", "MANUAL"},
           CreatePayment(p, o, s, u, method)
    PROVE  MoneyInv'
<1>1. PICK allocation \in Allocations(o) :
          payment' = [payment EXCEPT ![p] =
                [status |-> IF method = "CASH" THEN "CONFIRMED" ELSE "REQUIRES_VERIFICATION",
                 method |-> method, order |-> o, shift |-> s, by |-> u,
                 allocation |-> allocation]]
  BY DEF CreatePayment
<1>2. DOMAIN payment = Payments /\ payment[p].status = "NONE" /\ UNCHANGED <<shift, order, refund>>
  BY DEF CreatePayment, Fresh, Unused, TillInv, TillRows, PaymentRows
<1>3. /\ DOMAIN payment' = Payments /\ \A x \in Payments \ {p} : payment'[x] = payment[x]
      /\ payment'[p].order = o /\ payment'[p].allocation = allocation
  BY <1>1, <1>2
<1>4. allocation \in [Orders -> Nat] /\ \A x \in Orders : allocation[x] > 0 => x \in Bill(o)
  BY DEF Allocations
<1> QED BY <1>2, <1>3, <1>4, OnePaymentKeepsMoney DEF TillInv

LEMMA DecidePaymentKeepsMoney ==
    ASSUME TillInv, MoneyInv, NEW p \in Payments,
           NEW status, payment[p].status = "REQUIRES_VERIFICATION",
           payment' = [payment EXCEPT ![p].status = status],
           UNCHANGED <<shift, order, refund>>
    PROVE  MoneyInv'
<1>1. /\ DOMAIN payment' = Payments /\ \A x \in Payments \ {p} : payment'[x] = payment[x]
      /\ payment'[p].order = payment[p].order
      /\ payment'[p].allocation = payment[p].allocation
  BY DEF TillInv, TillRows, PaymentRows
<1>2. /\ payment[p].allocation \in [Orders -> Nat] /\ payment[p].order \in Orders
      /\ \A x \in Orders : payment[p].allocation[x] > 0 => x \in Bill(payment[p].order)
  BY DEF MoneyInv, Amounts, PaidOnBill
<1> QED BY <1>1, <1>2, OnePaymentKeepsMoney DEF TillInv

(* One refund is requested or decided on.                                   *)
LEMMA OneRefundKeepsMoney ==
    ASSUME TillRows, TillRows', MoneyInv, UNCHANGED <<shift, order, payment>>,
           NEW r \in Refunds, \A x \in Refunds \ {r} : refund'[x] = refund[x],
           refund'[r].amount \in Nat \ {0},
           refund'[r].payment \in Payments,
           payment[refund'[r].payment].status = "CONFIRMED",
           order[payment[refund'[r].payment].order].status = "COMPLETED",
           \/ refund[r].status = "NONE"
              /\ refund'[r].amount <= Amount(refund'[r].payment) - Refunded(refund'[r].payment, Reserving)
           \/ refund[r].status \in Reserving /\ refund'[r].amount = refund[r].amount
              /\ refund'[r].payment = refund[r].payment
    PROVE  MoneyInv'
<1>1. Amounts'
  BY DEF MoneyInv, Amounts
<1>2. RefundsAreOfSales'
  BY DEF MoneyInv, RefundsAreOfSales
<1>3. PaidOnBill'
  BY DEF MoneyInv, PaidOnBill, Bill
<1>4. OneRefund(refund, refund', r)
  BY <1>1, RefundsAreTable, RefundsStayTable DEF OneRefund, MoneyInv
<1>5. ASSUME NEW q \in Payments PROVE (Refunded(q, Reserving) <= Amount(q))'
  <2> DEFINE before == Back(refund, q, Reserving)[r]
             after == Back(refund', q, Reserving)[r]
  <2>1. Refunded(q, Reserving) <= Amount(q) /\ Amount(q)' = Amount(q) /\ Amount(q) \in Nat
    BY AmountIsNat DEF MoneyInv, RefundsFit, Amounts, Amount
  <2>2. /\ Refunded(q, Reserving)' = Refunded(q, Reserving) + (after - before)
        /\ Refunded(q, Reserving) \in Nat
    BY <1>1, <1>4, RefundedMoves, RefundsAreTable, RefundsStayTable DEF MoneyInv
  <2>3. /\ before = IF refund[r].status \in Reserving /\ refund[r].payment = q
                    THEN refund[r].amount ELSE 0
        /\ after = IF refund'[r].status \in Reserving /\ refund'[r].payment = q
                   THEN refund'[r].amount ELSE 0
    BY DEF Back
  <2>4. refund[r].amount \in Nat /\ before \in Nat /\ after \in Nat
    BY <2>3 DEF MoneyInv, Amounts
  <2> HIDE DEF before, after
  <2>5. CASE refund[r].status = "NONE"
    <3>1. before = 0
      BY <2>3, <2>5 DEF Reserving
    <3>2. CASE refund'[r].payment = q
      <4>1. refund'[r].amount <= Amount(q) - Refunded(q, Reserving)
        BY <2>5, <3>2 DEF Reserving
      <4>2. after <= refund'[r].amount
        BY <2>3
      <4> QED BY <2>1, <2>2, <2>4, <3>1, <4>1, <4>2
    <3>3. CASE refund'[r].payment # q
      <4>1. after = 0
        BY <2>3, <3>3
      <4> QED BY <2>1, <2>2, <3>1, <4>1
    <3> QED BY <3>2, <3>3
  <2>6. CASE refund[r].status \in Reserving
    <3>1. after <= before
      BY <2>3, <2>4, <2>6 DEF Reserving
    <3> QED BY <2>1, <2>2, <2>4, <3>1
  <2> QED BY <2>5, <2>6
<1>6. RefundsFit'
  BY <1>5 DEF RefundsFit
<1> QED BY <1>1, <1>2, <1>3, <1>6 DEF MoneyInv

LEMMA RefundingKeepsMoney ==
    ASSUME TillInv, TillInv', MoneyInv, NEW r \in Refunds, Refunding(r)
    PROVE  MoneyInv'
<1>0. TillRows /\ TillRows' /\ DOMAIN refund = Refunds /\ DOMAIN payment = Payments
  BY DEF TillInv, TillRows, RefundRows, PaymentRows
<1>1. ASSUME NEW p \in WithStatus(payment, {"CONFIRMED"}), NEW s \in Shifts, NEW u \in Users,
             NEW n \in 1..Amount(p), RequestRefund(r, p, s, u, n)
      PROVE  MoneyInv'
  <2>1. /\ p \in Payments /\ n \in Nat \ {0} /\ UNCHANGED <<shift, order, payment>>
        /\ refund[r].status = "NONE"
        /\ payment[p].status = "CONFIRMED" /\ order[payment[p].order].status = "COMPLETED"
        /\ n <= Amount(p) - Refunded(p, Reserving)
    BY <1>0, <1>1 DEF RequestRefund, Fresh, Unused, WithStatus
  <2>2. /\ \A x \in Refunds \ {r} : refund'[x] = refund[x]
        /\ refund'[r].payment = p /\ refund'[r].amount = n
    BY <1>0, <1>1 DEF RequestRefund
  <2> QED BY <1>0, <2>1, <2>2, OneRefundKeepsMoney
<1>2. ASSUME refund[r].status \in Reserving, UNCHANGED <<shift, order, payment>>,
             \A x \in Refunds \ {r} : refund'[x] = refund[x],
             refund'[r].payment = refund[r].payment, refund'[r].amount = refund[r].amount
      PROVE  MoneyInv'
  <2>1. refund[r].status # "NONE"
    BY <1>2 DEF Reserving
  <2>2. /\ refund[r].amount \in Nat \ {0} /\ refund[r].payment \in Payments
        /\ payment[refund[r].payment].status = "CONFIRMED"
        /\ order[payment[refund[r].payment].order].status = "COMPLETED"
    BY <1>0, <2>1 DEF TillRows, Backed, MoneyInv, Amounts, RefundsAreOfSales
  <2> QED BY <1>0, <1>2, <2>2, OneRefundKeepsMoney
<1>3. ASSUME NEW u \in Users, NEW approved \in BOOLEAN, ApproveRefund(r, u, approved)
      PROVE  MoneyInv'
  <2>1. /\ refund[r].status \in Reserving /\ UNCHANGED <<shift, order, payment>>
        /\ \A x \in Refunds \ {r} : refund'[x] = refund[x]
        /\ refund'[r].payment = refund[r].payment /\ refund'[r].amount = refund[r].amount
    BY <1>0, <1>3 DEF ApproveRefund, Reserving, TillRows, RefundRows
  <2> QED BY <1>2, <2>1
<1>4. ASSUME NEW u \in Users, NEW outcome \in {"CONFIRMED", "FAILED"},
             ResolveRefund(r, u, outcome)
      PROVE  MoneyInv'
  <2>1. /\ refund[r].status \in Reserving /\ UNCHANGED <<shift, order, payment>>
        /\ \A x \in Refunds \ {r} : refund'[x] = refund[x]
        /\ refund'[r].payment = refund[r].payment /\ refund'[r].amount = refund[r].amount
    BY <1>0, <1>4 DEF ResolveRefund, Reserving, TillRows, RefundRows
  <2> QED BY <1>2, <2>1
<1> QED BY <1>1, <1>3, <1>4 DEF Refunding

LEMMA MoneyInit == Init => MoneyInv
<1> SUFFICES ASSUME Init PROVE MoneyInv
  OBVIOUS
<1>1. /\ \A p \in Payments : payment[p].status = "NONE" /\ payment[p].allocation = [o \in Orders |-> 0]
      /\ \A r \in Refunds : refund[r].status = "NONE" /\ refund[r].amount = 0
      /\ \A s \in Shifts : shift[s].expected = 0
  BY DEF Init, NoPayment, NoRefund, NoShift
<1>2. Amounts /\ RefundsAreOfSales /\ PaidOnBill
  BY <1>1 DEF Amounts, RefundsAreOfSales, PaidOnBill
<1>3. RefundTable(refund)
  BY <1>1 DEF Init, RefundTable
<1>4. ASSUME NEW p \in Payments PROVE Refunded(p, Reserving) <= Amount(p)
  <2>1. \A r \in Refunds : Back(refund, p, Reserving)[r] = 0
    BY <1>1 DEF Back
  <2>2. BackSum(refund, p, Reserving) = 0
    BY <2>1, RowsAreFinite, SumZero DEF BackSum
  <2>3. SumFunction([r \in {r \in WithStatus(refund, Reserving) : refund[r].payment = p} |->
                        refund[r].amount]) = BackSum(refund, p, Reserving)
    BY <1>3, RefundedIsSum
  <2>4. Amount(p) \in Nat
    BY <1>2, AmountIsNat DEF Amounts, Amount
  <2> QED BY <2>2, <2>3, <2>4 DEF Refunded
<1> QED BY <1>2, <1>4 DEF MoneyInv, RefundsFit

LEMMA MoneyStep ==
    ASSUME OrderInv, OrderInv', FloorInv, TillInv, TillInv', MoneyInv, [Next]_vars
    PROVE  MoneyInv'
<1>0. /\ TillRows /\ None \notin Orders
      /\ \A s \in Shifts : shift[s].expected \in Int
  BY RowsAreFinite DEF TillInv, MoneyInv, Amounts
<1>1. ASSUME FloorSpares, UNCHANGED <<shift, payment, refund>> PROVE MoneyInv'
  <2>1. \A x \in Orders : /\ order[x].status = "COMPLETED" => order'[x] = order[x]
                          /\ order[x].into \in Orders => order'[x] = order[x]
    BY <1>0, <1>1 DEF FloorSpares, OrderInv, Joined
  <2> QED BY <1>0, <1>1, <2>1, OrdersKeepMoney
<1>2. CASE \E o \in Orders : Floor(o)
  <2>1. PICK o \in Orders : Floor(o)
    BY <1>2
  <2>2. UNCHANGED <<shift, payment, refund>>
    BY <2>1 DEF Floor, CreateOrder, Transition, AddLine, ReplaceLine, RemoveLine,
                CancelSentLine, Merge, Split, Send, moneyVars
  <2> QED BY <1>1, <2>1, <2>2, FloorSparesSettled
<1>3. CASE \E t \in Tickets : AdvanceTicket(t)
  <2>1. PICK t \in Tickets : AdvanceTicket(t)
    BY <1>3
  <2>2. UNCHANGED <<shift, payment, refund>>
    BY <2>1 DEF AdvanceTicket, moneyVars
  <2> QED BY <1>1, <2>1, <2>2, AdvanceSparesSettled
<1>4. CASE \E o \in Orders : CompleteOrder(o)
  <2>1. PICK o \in Orders : CompleteOrder(o)
    BY <1>4
  <2>2. UNCHANGED <<shift, payment, refund>> /\ order' = [order EXCEPT ![o].status = "COMPLETED"]
    BY <2>1 DEF CompleteOrder
  <2>3. \A x \in Orders : /\ order[x].status = "COMPLETED" => order'[x].status = "COMPLETED"
                          /\ order[x].into \in Orders => order'[x].into = order[x].into
    BY <2>2 DEF OrderInv, OrderRows
  <2> QED BY <1>0, <2>2, <2>3, OrdersKeepMoney
<1>5. CASE \E p \in Payments : Paying(p)
  <2>1. PICK p \in Payments : Paying(p)
    BY <1>5
  <2>2. ASSUME NEW o \in WithStatus(order, Live), NEW s \in Shifts, NEW u \in Users,
               NEW method \in {"CASH", "MANUAL"}, CreatePayment(p, o, s, u, method)
        PROVE  MoneyInv'
    <3>1. o \in Orders
      BY DEF WithStatus, OrderInv, OrderRows
    <3> QED BY <2>2, <3>1, CreatePaymentKeepsMoney
  <2>3. ASSUME NEW u \in Users, NEW status \in {"CONFIRMED", "FAILED"},
               VerifyPayment(p, u, status)
        PROVE  MoneyInv'
    BY <2>3, DecidePaymentKeepsMoney DEF VerifyPayment
  <2>4. ASSUME CancelPayment(p) PROVE MoneyInv'
    BY <2>4, DecidePaymentKeepsMoney DEF CancelPayment
  <2> QED BY <2>1, <2>2, <2>3, <2>4 DEF Paying
<1>6. CASE \E r \in Refunds : Refunding(r)
  BY <1>6, RefundingKeepsMoney
<1>7. CASE \E m \in Movements : Drawer(m)
  <2>1. UNCHANGED <<shift, order, payment, refund>>
    BY <1>7 DEF Drawer, RequestMovement, ApproveMovement
  <2> QED BY <1>0, <2>1, OrdersKeepMoney
<1>8. CASE \E s \in Shifts : ShiftDesk(s)
  <2>1. PICK s \in Shifts : ShiftDesk(s)
    BY <1>8
  <2>2. UNCHANGED <<order, payment, refund>>
    BY <2>1 DEF ShiftDesk, OpenShift, HandOver, CloseShift
  <2>3. DOMAIN shift = Shifts /\ \A x \in Shifts : ExpectedCash(x) \in Int
    BY <1>0, ExpectedIsInt DEF MoneyInv, OrderInv, ShiftRows
  <2>4. ASSUME NEW d \in Devices, NEW u \in Users, OpenShift(s, d, u)
        PROVE  \A x \in Shifts : shift'[x].expected \in Int
    <3>1. [NoShift EXCEPT !.status = "OPEN", !.device = d, !.cashier = u].expected = 0
      BY DEF NoShift
    <3>2. shift' = [shift EXCEPT ![s] =
             [NoShift EXCEPT !.status = "OPEN", !.device = d, !.cashier = u]]
      BY <2>4 DEF OpenShift
    <3> QED BY <1>0, <2>3, <3>1, <3>2
  <2>5. ASSUME NEW u \in Users, HandOver(s, u)
        PROVE  \A x \in Shifts : shift'[x].expected \in Int
    BY <1>0, <2>3, <2>5 DEF HandOver, OrderInv, ShiftRows
  <2>6. ASSUME CloseShift(s)
        PROVE  \A x \in Shifts : shift'[x].expected \in Int
    BY <1>0, <2>3, <2>6 DEF CloseShift, OrderInv, ShiftRows
  <2>7. \A x \in Shifts : shift'[x].expected \in Int
    BY <2>1, <2>4, <2>5, <2>6 DEF ShiftDesk
  <2> QED BY <1>0, <2>2, <2>7, OrdersKeepMoney
<1>9. CASE UNCHANGED vars
  <2>1. UNCHANGED <<shift, order, payment, refund>>
    BY <1>9 DEF vars
  <2> QED BY <1>0, <2>1, OrdersKeepMoney
<1> QED BY <1>2, <1>3, <1>4, <1>5, <1>6, <1>7, <1>8, <1>9 DEF Next

LEMMA MoneyInvariant == Spec => []MoneyInv
BY MoneyInit, MoneyStep, OrderInvariant, FloorInvariant, TillInvariant, PTL DEF Spec

LEMMA Typed ==
    ASSUME OrderInv, FloorInv, TillInv, MoneyInv
    PROVE  TypeOK
<1>1. shift \in [Shifts -> StaffShift]
  <2>1. \A s \in Shifts : shift[s] \in StaffShift
    BY DEF OrderInv, ShiftRows, MoneyInv, Amounts, StaffShift
  <2> QED BY <2>1 DEF OrderInv, ShiftRows
<1>2. order \in [Orders -> Order]
  <2>1. \A o \in Orders : order[o] \in Order
    BY TotalIsNat DEF OrderInv, OrderRows, Order
  <2> QED BY <2>1 DEF OrderInv, OrderRows
<1>3. payment \in [Payments -> Payment]
  <2>1. \A p \in Payments : payment[p] \in Payment
    BY DEF TillInv, TillRows, PaymentRows, MoneyInv, Amounts, Payment
  <2> QED BY <2>1 DEF TillInv, TillRows, PaymentRows
<1>4. refund \in [Refunds -> Refund]
  <2>1. \A r \in Refunds : refund[r] \in Refund
    BY DEF TillInv, TillRows, RefundRows, MoneyInv, Amounts, Refund
  <2> QED BY <2>1 DEF TillInv, TillRows, RefundRows
<1> QED BY <1>1, <1>2, <1>3, <1>4
        DEF TypeOK, FloorInv, KitchenInv, LineRows, TicketRows, TillInv, TillRows, MovementRows

(* Every row keeps the shape of its table: totals and refunds are whole     *)
(* numbers of units, never less than none.                                  *)
THEOREM SaleTypes == Spec => []TypeOK
BY Typed, OrderInvariant, FloorInvariant, TillInvariant, MoneyInvariant, PTL

-----------------------------------------------------------------------------
(* Payments as a table: a row for every order, a column for every payment.  *)

LEMMA ConfirmedOf ==
    ASSUME TillRows, Amounts, NEW B \in SUBSET Orders, NEW P \in SUBSET Payments,
           \A p \in P : /\ payment[p].status = "CONFIRMED"
                        /\ \A x \in Orders \ B : payment[p].allocation[x] = 0,
           \A x \in B : Allocated(x, {"CONFIRMED"}) \subseteq P
    PROVE  SumFunction([x \in B |-> Confirmed(x)]) = SumFunction([p \in P |-> Amount(p)])
<1> DEFINE F == [x \in B |-> [p \in P |-> payment[p].allocation[x]]]
           rows == [x \in B |-> Confirmed(x)]
           column == [p \in P |-> [x \in B |-> payment[p].allocation[x]]]
           columns == [p \in P |-> Amount(p)]
<1>1. IsFiniteSet(B) /\ IsFiniteSet(P) /\ IsFiniteSet(Orders)
  BY RowsAreFinite, FS_Subset
<1>2. /\ \A x \in B, p \in P : F[x][p] \in Int
      /\ \A p \in P, x \in B : column[p][x] = F[x][p]
  BY DEF Amounts
<1>3. ASSUME NEW x \in B PROVE rows[x] = SumFunctionOnSet(F[x], P)
  <2> DEFINE S == Allocated(x, {"CONFIRMED"})
             f == [p \in S |-> payment[p].allocation[x]]
             g == F[x]
  <2>1. /\ x \in Orders /\ S \subseteq P /\ DOMAIN f = S
        /\ \A p \in S : f[p] = g[p] /\ g[p] \in Int
        /\ IsFiniteSet(S)
    BY <1>1, FS_Subset DEF Amounts
  <2>2. ASSUME NEW p \in P \ S PROVE g[p] = 0
    <3>1. p \in Payments /\ payment[p].status = "CONFIRMED" /\ DOMAIN payment = Payments
      BY DEF TillRows, PaymentRows
    <3>2. ~(payment[p].allocation[x] > 0)
      BY <2>2, <3>1 DEF Allocated, WithStatus
    <3>3. payment[p].allocation[x] \in Nat
      BY <2>1, <3>1 DEF Amounts
    <3> QED BY <2>1, <3>2, <3>3
  <2> HIDE DEF S, f, g
  <2>3. SumFunctionOnSet(g, P) = SumFunctionOnSet(g, S)
    BY <1>1, <2>1, <2>2, SumExtended
  <2>4. SumFunctionOnSet(f, S) = SumFunctionOnSet(g, S)
    BY <2>1, SumSame
  <2>5. SumFunction(f) = SumFunctionOnSet(f, S)
    BY <2>1, SumOver
  <2>6. Confirmed(x) = SumFunction(f)
    BY DEF Confirmed, f, S
  <2> QED BY <2>3, <2>4, <2>5, <2>6 DEF g
<1>4. ASSUME NEW p \in P PROVE columns[p] = SumFunctionOnSet(column[p], B)
  <2> DEFINE a == payment[p].allocation
             g == column[p]
  <2>1. /\ a \in [Orders -> Nat]
        /\ \A x \in B : a[x] = g[x] /\ a[x] \in Int
        /\ \A x \in Orders \ B : a[x] = 0
    BY DEF Amounts
  <2>2. columns[p] = SumFunction(a)
    BY DEF Amount
  <2> HIDE DEF a, g
  <2>3. SumFunction(a) = SumFunctionOnSet(a, Orders)
    BY <2>1, AmountIsNat
  <2>4. SumFunctionOnSet(a, Orders) = SumFunctionOnSet(a, B)
    BY <1>1, <2>1, SumExtended
  <2>5. SumFunctionOnSet(a, B) = SumFunctionOnSet(g, B)
    BY <1>1, <2>1, SumSame
  <2> QED BY <2>2, <2>3, <2>4, <2>5 DEF g
<1>5. DOMAIN rows = B /\ DOMAIN columns = P
  OBVIOUS
<1> HIDE DEF F, rows, column, columns
<1>6. /\ \A x \in B : rows[x] = SumFunctionOnSet(F[x], P)
      /\ \A p \in P : columns[p] = SumFunctionOnSet(column[p], B)
  BY <1>3, <1>4
<1>7. Tabled(B, P, F, rows, column, columns)
  BY <1>1, <1>2, <1>6 DEF Tabled
<1>8. SumFunctionOnSet(rows, B) = SumFunctionOnSet(columns, P)
  BY <1>7, SumSwap
<1> QED BY <1>5, <1>8, SumOver DEF rows, columns

(* The payments of a bill are those anchored at one of its orders.          *)
LEMMA BillPayments ==
    ASSUME OrderInv, MoneyInv, NEW o \in Orders, order[o].status # "MERGED",
           NEW p \in Payments, payment[p].status # "NONE"
    PROVE  /\ payment[p].order \in Bill(o) =>
                 \A x \in Orders : payment[p].allocation[x] > 0 => x \in Bill(o)
           /\ \A x \in Bill(o) : payment[p].allocation[x] > 0 => payment[p].order \in Bill(o)
<1> DEFINE a == payment[p].order
<1>0. None \notin Orders /\ DOMAIN order = Orders
  BY RowsAreFinite DEF OrderInv, OrderRows
<1>1. a \in Orders /\ \A x \in Orders : payment[p].allocation[x] > 0 => x \in Bill(a)
  BY DEF MoneyInv, PaidOnBill
<1>2. \A x, y \in Orders : order[x].into = y => order[x].status = "MERGED" /\ order[y].status # "MERGED"
  BY <1>0 DEF OrderInv, Joined, MergedIntoLiving, WithStatus, Live
<1>3. \A x \in Orders, y \in Orders : x \in Bill(y) <=> x = y \/ order[x].into = y
  BY DEF Bill
<1>4. Bill(o) \subseteq Orders
  BY DEF Bill
<1> HIDE DEF a
<1>5. a \in Bill(o) => \A x \in Orders : x \in Bill(a) => x \in Bill(o)
  BY <1>1, <1>2, <1>3
<1>6. \A x \in Bill(o) : x \in Bill(a) => a \in Bill(o)
  BY <1>1, <1>2, <1>3, <1>4
<1> QED BY <1>1, <1>4, <1>5, <1>6 DEF a

(* What the payments anchored at a bill come to is what is confirmed on it. *)
Paid(o) == {p \in WithStatus(payment, {"CONFIRMED"}) : payment[p].order \in Bill(o)}

LEMMA BillIsPaid ==
    ASSUME OrderInv, TillRows, MoneyInv, NEW o \in Orders, order[o].status # "MERGED"
    PROVE  /\ BillConfirmed(o) = SumFunction([p \in Paid(o) |-> Amount(p)])
           /\ BillConfirmed(o) = ReceiptTenders(o)
<1> DEFINE U == UNION {Allocated(x, {"CONFIRMED"}) : x \in Bill(o)}
<1>0. Bill(o) \subseteq Orders /\ DOMAIN payment = Payments
  BY DEF Bill, TillRows, PaymentRows
<1>1. Paid(o) \subseteq Payments /\ \A p \in Paid(o) : payment[p].status = "CONFIRMED"
  BY <1>0 DEF Paid, WithStatus
<1>2. \A x \in Bill(o) : Allocated(x, {"CONFIRMED"}) \subseteq Paid(o)
  BY <1>0, BillPayments DEF Allocated, WithStatus, Paid
<1>3. U \subseteq Paid(o) /\ \A x \in Bill(o) : Allocated(x, {"CONFIRMED"}) \subseteq U
  BY <1>2
<1>4. ASSUME NEW p \in Paid(o), NEW x \in Orders \ Bill(o)
      PROVE  payment[p].allocation[x] = 0
  <2>1. p \in Payments /\ payment[p].status # "NONE" /\ payment[p].order \in Bill(o)
    BY <1>1 DEF Paid
  <2>2. ~(payment[p].allocation[x] > 0)
    BY <2>1, BillPayments
  <2>3. payment[p].allocation[x] \in Nat
    BY <2>1 DEF MoneyInv, Amounts
  <2> QED BY <2>2, <2>3
<1>5. Amounts
  BY DEF MoneyInv
<1> HIDE DEF U
<1>6. SumFunction([x \in Bill(o) |-> Confirmed(x)]) = SumFunction([p \in Paid(o) |-> Amount(p)])
  BY <1>0, <1>1, <1>2, <1>4, <1>5, ConfirmedOf
<1>7. SumFunction([x \in Bill(o) |-> Confirmed(x)]) = SumFunction([p \in U |-> Amount(p)])
  BY <1>0, <1>1, <1>3, <1>4, <1>5, ConfirmedOf
<1> QED BY <1>6, <1>7 DEF BillConfirmed, ReceiptTenders, U

(* What has been paid back on an order.                                     *)
PaidBack(o) == SumFunction([p \in Anchored(o) |-> Refunded(p, {"CONFIRMED"})])

(* The same as a table over all payments.                                   *)
Share(o) ==
    [p \in Payments |-> IF p \in Anchored(o) THEN Refunded(p, {"CONFIRMED"}) ELSE 0]

(* No more is paid back on a completed order than was paid for its bill.    *)
ReturnsFit ==
    \A o \in Orders : /\ PaidBack(o) = SumFunctionOnSet(Share(o), Payments)
                      /\ PaidBack(o) \in Nat /\ BillConfirmed(o) \in Nat
                      /\ order[o].status = "COMPLETED" => PaidBack(o) <= BillConfirmed(o)

(* What was returned of payments, as a sum over all of them.                *)
LEMMA ReturnedIsSum ==
    ASSUME TillRows, Amounts, NEW o
    PROVE  /\ PaidBack(o) = SumFunctionOnSet(Share(o), Payments)
           /\ PaidBack(o) \in Nat
<1> DEFINE A == Anchored(o)
           v == [p \in Payments |-> Refunded(p, {"CONFIRMED"})]
           f == [p \in A |-> Refunded(p, {"CONFIRMED"})]
           g == [p \in Payments |-> IF p \in A THEN v[p] ELSE 0]
<1>1. /\ A \subseteq Payments /\ DOMAIN f = A /\ \A p \in A : f[p] = v[p]
      /\ \A p \in Payments : v[p] \in Int
      /\ g = Share(o)
      /\ \A p \in Payments : g[p] \in Nat
  BY RefundsAreTable DEF Anchored, Share
<1>2. PaidBack(o) = SumFunction(f)
  BY DEF PaidBack
<1> HIDE DEF A, f, v
<1>3. SumFunction(f) = SumFunctionOnSet(g, Payments)
  BY <1>1, RowsAreFinite, SumFiltered
<1>4. SumFunctionOnSet(g, Payments) \in Nat
  BY <1>1, RowsAreFinite, SumIsNat
<1> QED BY <1>1, <1>2, <1>3, <1>4 DEF A

LEMMA RefundsBelowAmount ==
    ASSUME TillRows, MoneyInv, NEW p \in Payments
    PROVE  /\ Refunded(p, {"CONFIRMED"}) <= Amount(p)
           /\ payment[p].status # "CONFIRMED" => \A statuses : Refunded(p, statuses \cap Reserving) = 0
<1> DEFINE f == Back(refund, p, {"CONFIRMED"})
           g == Back(refund, p, Reserving)
<1>1. \A r \in Refunds : f[r] \in Int /\ g[r] \in Int /\ f[r] <= g[r]
  BY DEF Back, Reserving, MoneyInv, Amounts
<1>2. BackSum(refund, p, {"CONFIRMED"}) <= BackSum(refund, p, Reserving)
  <2> HIDE DEF f, g
  <2>1. SumFunctionOnSet(f, Refunds) <= SumFunctionOnSet(g, Refunds)
    BY <1>1, RowsAreFinite, SumMonotone
  <2> QED BY <2>1 DEF BackSum, f, g
<1>3. /\ Refunded(p, {"CONFIRMED"}) = BackSum(refund, p, {"CONFIRMED"})
      /\ Refunded(p, Reserving) = BackSum(refund, p, Reserving)
      /\ Refunded(p, {"CONFIRMED"}) \in Nat /\ Refunded(p, Reserving) \in Nat
  BY RefundsAreTable DEF MoneyInv
<1>4. Refunded(p, Reserving) <= Amount(p) /\ Amount(p) \in Nat
  BY AmountIsNat DEF MoneyInv, Amounts, RefundsFit, Amount
<1>5. ASSUME payment[p].status # "CONFIRMED", NEW statuses
      PROVE  Refunded(p, statuses \cap Reserving) = 0
  <2>1. \A r \in Refunds : Back(refund, p, statuses \cap Reserving)[r] = 0
    BY <1>5 DEF Back, Reserving, MoneyInv, RefundsAreOfSales
  <2>2. BackSum(refund, p, statuses \cap Reserving) = 0
    BY <2>1, RowsAreFinite, SumZero DEF BackSum
  <2> QED BY <2>2, RefundsAreTable DEF MoneyInv
<1> QED BY <1>2, <1>3, <1>4, <1>5

LEMMA ReturnsAreFit ==
    ASSUME OrderInv, TillInv, MoneyInv
    PROVE  ReturnsFit
<1>0. TillRows /\ Amounts /\ DOMAIN payment = Payments /\ DOMAIN order = Orders
  BY DEF TillInv, TillRows, PaymentRows, MoneyInv, OrderInv, OrderRows
<1>1. ASSUME NEW o \in Orders PROVE BillConfirmed(o) \in Nat
  <2> DEFINE f == [x \in Bill(o) |-> Confirmed(x)]
  <2>1. Bill(o) \subseteq Orders /\ IsFiniteSet(Bill(o))
    BY RowsAreFinite, FS_Subset DEF Bill
  <2>2. ASSUME NEW x \in Orders PROVE Confirmed(x) \in Nat
    <3> DEFINE g == [p \in Allocated(x, {"CONFIRMED"}) |-> payment[p].allocation[x]]
    <3>1. Allocated(x, {"CONFIRMED"}) \subseteq Payments
      BY <1>0 DEF Allocated, WithStatus
    <3>2. IsFiniteSet(DOMAIN g) /\ \A p \in DOMAIN g : g[p] \in Nat
      BY <1>0, <3>1, RowsAreFinite, FS_Subset DEF Amounts
    <3> HIDE DEF g
    <3>3. SumFunction(g) \in Nat
      BY <3>2, TableSum
    <3> QED BY <3>3 DEF g, Confirmed
  <2>3. IsFiniteSet(DOMAIN f) /\ \A x \in DOMAIN f : f[x] \in Nat
    BY <2>1, <2>2
  <2> HIDE DEF f
  <2>4. SumFunction(f) \in Nat
    BY <2>3, TableSum
  <2> QED BY <2>4 DEF f, BillConfirmed
<1>2. ASSUME NEW o \in Orders, order[o].status = "COMPLETED"
      PROVE  PaidBack(o) <= BillConfirmed(o)
  <2> DEFINE f == Share(o)
             v == [p \in Payments |-> Amount(p)]
             h == [p \in Paid(o) |-> Amount(p)]
             g == [p \in Payments |-> IF p \in Paid(o) THEN v[p] ELSE 0]
  <2>1. PaidBack(o) = SumFunctionOnSet(f, Payments)
    BY <1>0, ReturnedIsSum
  <2>2. BillConfirmed(o) = SumFunction(h)
    BY <1>0, <1>2, BillIsPaid
  <2>3. /\ Paid(o) \subseteq Payments /\ \A p \in Payments : v[p] \in Int
        /\ DOMAIN h = Paid(o) /\ \A p \in Paid(o) : h[p] = v[p]
    BY <1>0, AmountIsNat DEF Paid, WithStatus, Amounts, Amount
  <2>4. ASSUME NEW p \in Payments PROVE f[p] \in Int /\ g[p] \in Int /\ f[p] <= g[p]
    <3>1. Refunded(p, {"CONFIRMED"}) \in Nat /\ Amount(p) \in Nat
      BY <1>0, RefundsAreTable, AmountIsNat DEF Amounts, Amount
    <3>2. Refunded(p, {"CONFIRMED"}) <= Amount(p)
      BY <1>0, RefundsBelowAmount
    <3>3. CASE p \in Anchored(o) /\ payment[p].status = "CONFIRMED"
      <4>1. p \in Paid(o)
        BY <1>0, <3>3 DEF Anchored, Paid, WithStatus, Bill
      <4> QED BY <3>1, <3>2, <3>3, <4>1 DEF Share
    <3>4. CASE payment[p].status # "CONFIRMED"
      <4>1. Refunded(p, {"CONFIRMED"} \cap Reserving) = 0
        BY <1>0, <3>4, RefundsBelowAmount
      <4>2. {"CONFIRMED"} \cap Reserving = {"CONFIRMED"}
        BY DEF Reserving
      <4>3. Refunded(p, {"CONFIRMED"}) = 0
        BY <4>1, <4>2
      <4> QED BY <3>1, <4>3 DEF Share
    <3>5. CASE p \notin Anchored(o)
      BY <3>1, <3>5 DEF Share
    <3> QED BY <3>3, <3>4, <3>5
  <2> HIDE DEF f, v, h
  <2>5. SumFunction(h) = SumFunctionOnSet(g, Payments)
    BY <2>3, RowsAreFinite, SumFiltered
  <2> HIDE DEF g
  <2>6. SumFunctionOnSet(f, Payments) <= SumFunctionOnSet(g, Payments)
    BY <2>4, RowsAreFinite, SumMonotone
  <2> QED BY <2>1, <2>2, <2>5, <2>6
<1> QED BY <1>0, <1>1, <1>2, ReturnedIsSum DEF ReturnsFit

LEMMA ReturnsInvariant == Spec => []ReturnsFit
BY ReturnsAreFit, OrderInvariant, TillInvariant, MoneyInvariant, PTL

-----------------------------------------------------------------------------
(* The sale keeps its promise to the guest and the accountant.              *)

(* What of a step matters to a completed order.                             *)
LEMMA CompletedStays ==
    ASSUME OrderInv, FloorInv, TillInv, [Next]_vars
    PROVE  \A o \in Orders : order[o].status = "COMPLETED" =>
              order'[o].status = "COMPLETED" /\ BillGross(o)' = BillGross(o)
<1>0. None \notin Orders /\ DOMAIN order = Orders
  BY RowsAreFinite DEF OrderInv, OrderRows
<1>1. ASSUME \A x \in Orders :
                /\ order[x].status = "COMPLETED" => order'[x].status = "COMPLETED"
                /\ order[x].status \in {"COMPLETED", "MERGED"} => order'[x].gross = order[x].gross
                /\ \A o \in Orders : order[o].status = "COMPLETED" =>
                      (order'[x].into = o <=> order[x].into = o)
      PROVE  \A o \in Orders : order[o].status = "COMPLETED" =>
                order'[o].status = "COMPLETED" /\ BillGross(o)' = BillGross(o)
  <2> SUFFICES ASSUME NEW o \in Orders, order[o].status = "COMPLETED"
               PROVE  order'[o].status = "COMPLETED" /\ BillGross(o)' = BillGross(o)
    OBVIOUS
  <2>1. Bill(o)' = Bill(o)
    BY <1>1 DEF Bill
  <2>2. \A x \in Bill(o) : x \in Orders /\ order[x].status \in {"COMPLETED", "MERGED"}
    BY CompletedBill
  <2>3. [x \in Bill(o)' |-> order'[x].gross] = [x \in Bill(o) |-> order[x].gross]
    BY <1>1, <2>1, <2>2
  <2> QED BY <1>1, <2>3 DEF BillGross
<1>2. ASSUME FloorSpares
      PROVE  \A x \in Orders :
                /\ order[x].status = "COMPLETED" => order'[x].status = "COMPLETED"
                /\ order[x].status \in {"COMPLETED", "MERGED"} => order'[x].gross = order[x].gross
                /\ \A o \in Orders : order[o].status = "COMPLETED" =>
                      (order'[x].into = o <=> order[x].into = o)
  <2>1. \A x, o \in Orders : order[x].into = o => order[x].status = "MERGED"
    BY <1>0 DEF OrderInv, Joined
  <2> QED BY <1>2, <2>1 DEF FloorSpares
<1>3. CASE \E o \in Orders : Floor(o)
  BY <1>1, <1>2, <1>3, FloorSparesSettled
<1>4. CASE \E t \in Tickets : AdvanceTicket(t)
  BY <1>1, <1>2, <1>4, AdvanceSparesSettled
<1>5. CASE \E o \in Orders : CompleteOrder(o)
  <2>1. PICK o \in Orders : order' = [order EXCEPT ![o].status = "COMPLETED"]
    BY <1>5 DEF CompleteOrder
  <2>2. \A x \in Orders : /\ order'[x].gross = order[x].gross /\ order'[x].into = order[x].into
                          /\ order[x].status = "COMPLETED" => order'[x].status = "COMPLETED"
    BY <2>1 DEF OrderInv, OrderRows
  <2> QED BY <1>1, <2>2
<1>6. CASE UNCHANGED order
  BY <1>1, <1>6
<1>7. CASE \/ \E p \in Payments : Paying(p)
           \/ \E r \in Refunds : Refunding(r)
           \/ \E m \in Movements : Drawer(m)
           \/ \E s \in Shifts : ShiftDesk(s)
           \/ UNCHANGED vars
  <2>1. UNCHANGED order
    BY <1>7 DEF Paying, Refunding, Drawer, ShiftDesk, vars, CreatePayment, VerifyPayment,
       CancelPayment, RequestRefund, ApproveRefund, ResolveRefund, RequestMovement,
       ApproveMovement, HandOver, OpenShift, CloseShift
  <2> QED BY <1>6, <2>1
<1> QED BY <1>3, <1>4, <1>5, <1>7 DEF Next

(* What is settled does not change, but by completing one more order.       *)
LEMMA SettledMoves ==
    ASSUME OrderInv, OrderInv', FloorInv, TillInv, TillInv', [Next]_vars, NEW o \in Orders
    PROVE  /\ order[o].status = "COMPLETED" =>
                 order'[o].status = "COMPLETED" /\ BillConfirmed(o)' = BillConfirmed(o)
           /\ order[o].status # "COMPLETED" /\ order'[o].status = "COMPLETED" => CompleteOrder(o)
<1>0. DOMAIN order = Orders /\ DOMAIN order' = Orders
  BY DEF OrderInv, OrderRows
<1>1. ASSUME order[o].status = "COMPLETED"
      PROVE  order'[o].status = "COMPLETED" /\ BillConfirmed(o)' = BillConfirmed(o)
  <2>1. order'[o].status = "COMPLETED" /\ BillGross(o)' = BillGross(o)
    BY <1>1, CompletedStays
  <2>2. BillConfirmed(o) = BillGross(o)
    BY <1>0, <1>1 DEF TillInv, CompletedIsSettled, WithStatus
  <2>3. BillConfirmed(o)' = BillGross(o)'
    BY <1>0, <2>1 DEF TillInv, CompletedIsSettled, WithStatus
  <2> QED BY <2>1, <2>2, <2>3
<1>2. ASSUME order[o].status # "COMPLETED", order'[o].status = "COMPLETED"
      PROVE  CompleteOrder(o)
  <2>1. ~FloorSpares
    BY <1>2 DEF FloorSpares
  <2>2. CASE \E c \in Orders : CompleteOrder(c)
    <3>1. PICK c \in Orders : CompleteOrder(c)
      BY <2>2
    <3>2. order' = [order EXCEPT ![c].status = "COMPLETED"]
      BY <3>1 DEF CompleteOrder
    <3> QED BY <1>0, <1>2, <3>1, <3>2
  <2>3. CASE \/ \E p \in Payments : Paying(p)
             \/ \E r \in Refunds : Refunding(r)
             \/ \E m \in Movements : Drawer(m)
             \/ \E s \in Shifts : ShiftDesk(s)
             \/ UNCHANGED vars
    <3>1. UNCHANGED order
      BY <2>3 DEF Paying, Refunding, Drawer, ShiftDesk, vars, CreatePayment, VerifyPayment,
         CancelPayment, RequestRefund, ApproveRefund, ResolveRefund, RequestMovement,
         ApproveMovement, HandOver, OpenShift, CloseShift
    <3> QED BY <1>2, <3>1
  <2> QED BY <2>1, <2>2, <2>3, FloorSparesSettled, AdvanceSparesSettled DEF Next
<1> QED BY <1>1, <1>2

(* What is paid back on an order changes only when a refund is confirmed.   *)
SameReturns == \A o \in Orders : PaidBack(o)' = PaidBack(o)

OneReturn ==
    /\ UNCHANGED <<order, payment>>
    /\ \E o \in Orders, n \in Nat \ {0} :
          /\ order[o].status = "COMPLETED"
          /\ PaidBack(o)' = PaidBack(o) + n
          /\ \A x \in Orders \ {o} : PaidBack(x)' = PaidBack(x)

LEMMA PaymentsKeepReturns ==
    ASSUME TillInv, MoneyInv, ReturnsFit, ReturnsFit', UNCHANGED refund,
           \A p \in Payments : payment'[p] = payment[p] \/ payment[p].status # "CONFIRMED"
    PROVE  SameReturns
<1> SUFFICES ASSUME NEW o \in Orders PROVE PaidBack(o)' = PaidBack(o)
  BY DEF SameReturns
<1> DEFINE f == Share(o)
           g == Share(o)'
<1>1. ASSUME NEW p \in Payments PROVE g[p] = f[p]
  <2>1. Refunded(p, {"CONFIRMED"})' = Refunded(p, {"CONFIRMED"})
    BY DEF Refunded, WithStatus
  <2>2. CASE payment'[p] = payment[p]
    BY <2>1, <2>2 DEF Share, Anchored
  <2>3. CASE payment[p].status # "CONFIRMED"
    <3>1. Refunded(p, {"CONFIRMED"} \cap Reserving) = 0
      BY <2>3, RefundsBelowAmount DEF TillInv
    <3>2. {"CONFIRMED"} \cap Reserving = {"CONFIRMED"}
      BY DEF Reserving
    <3>3. Refunded(p, {"CONFIRMED"}) = 0
      BY <3>1, <3>2
    <3> QED BY <2>1, <3>3 DEF Share
  <2> QED BY <2>2, <2>3
<1>2. PaidBack(o) = SumFunctionOnSet(f, Payments) /\ PaidBack(o)' = SumFunctionOnSet(g, Payments)
  BY DEF ReturnsFit
<1> HIDE DEF f, g
<1>3. SumFunctionOnSet(g, Payments) = SumFunctionOnSet(f, Payments)
  BY <1>1, RowsAreFinite, SumSame
<1> QED BY <1>2, <1>3

LEMMA OneRefundReturns ==
    ASSUME TillInv, TillInv', MoneyInv, MoneyInv', ReturnsFit, ReturnsFit', NEW r \in Refunds,
           UNCHANGED <<order, payment>>, \A x \in Refunds \ {r} : refund'[x] = refund[x],
           refund[r].status # "CONFIRMED"
    PROVE  SameReturns \/ OneReturn
<1> DEFINE moved(p) == Back(refund', p, {"CONFIRMED"})[r]
           f(o) == Share(o)
           g(o) == Share(o)'
<1>0. /\ TillRows /\ TillRows' /\ Amounts /\ Amounts'
      /\ OneRefund(refund, refund', r)
  BY RefundsAreTable, RefundsStayTable DEF TillInv, MoneyInv, OneRefund
<1>1. ASSUME NEW p \in Payments
      PROVE  /\ Refunded(p, {"CONFIRMED"})' = Refunded(p, {"CONFIRMED"}) + moved(p)
             /\ Refunded(p, {"CONFIRMED"}) \in Nat /\ moved(p) \in Nat
  <2>1. /\ Refunded(p, {"CONFIRMED"}) = BackSum(refund, p, {"CONFIRMED"})
        /\ Refunded(p, {"CONFIRMED"})' = BackSum(refund', p, {"CONFIRMED"})
    BY <1>0, RefundsAreTable, RefundsStayTable
  <2>2. Back(refund, p, {"CONFIRMED"})[r] = 0 /\ moved(p) \in Nat
    BY <1>0 DEF Back, Amounts
  <2>3. /\ BackSum(refund', p, {"CONFIRMED"}) = BackSum(refund, p, {"CONFIRMED"})
              + (moved(p) - Back(refund, p, {"CONFIRMED"})[r])
        /\ BackSum(refund, p, {"CONFIRMED"}) \in Nat
    BY <1>0, RefundedMoves
  <2> HIDE DEF moved
  <2> QED BY <2>1, <2>2, <2>3
<1>2. \A o \in Orders : /\ PaidBack(o) = SumFunctionOnSet(f(o), Payments)
                        /\ PaidBack(o)' = SumFunctionOnSet(g(o), Payments)
                        /\ PaidBack(o) \in Nat
  BY DEF ReturnsFit
<1>3. ASSUME NEW o \in Orders, NEW p \in Payments
      PROVE  /\ g(o)[p] = f(o)[p] + (IF payment[p].order = o THEN moved(p) ELSE 0)
             /\ f(o)[p] \in Int /\ g(o)[p] \in Int
  <2> HIDE DEF moved
  <2> QED BY <1>1 DEF Share, Anchored
<1>4. ASSUME NEW o \in Orders, \A p \in Payments : payment[p].order = o => moved(p) = 0
      PROVE  PaidBack(o)' = PaidBack(o)
  <2>1. \A p \in Payments : g(o)[p] = f(o)[p]
    <3> HIDE DEF f, g, moved
    <3> QED BY <1>3, <1>4
  <2> HIDE DEF f, g
  <2>2. SumFunctionOnSet(g(o), Payments) = SumFunctionOnSet(f(o), Payments)
    BY <2>1, RowsAreFinite, SumSame
  <2> QED BY <1>2, <2>2
<1>5. \A p \in Payments : moved(p) = IF refund'[r].status = "CONFIRMED" /\ refund'[r].payment = p
                                     THEN refund'[r].amount ELSE 0
  BY DEF Back
<1> HIDE DEF moved, f, g
<1>6. CASE refund'[r].status # "CONFIRMED"
  BY <1>4, <1>5, <1>6 DEF SameReturns
<1>7. CASE refund'[r].status = "CONFIRMED"
  <2>1. PICK q \in Payments, n \in Nat \ {0}, c \in Orders :
           /\ refund'[r].payment = q /\ refund'[r].amount = n /\ payment[q].order = c
           /\ order[c].status = "COMPLETED"
    <3>1. /\ refund'[r].payment \in Payments /\ refund'[r].amount \in Nat \ {0}
          /\ payment[refund'[r].payment].status = "CONFIRMED"
          /\ order[payment[refund'[r].payment].order].status = "COMPLETED"
      BY <1>0, <1>7 DEF TillRows, Backed, Amounts, MoneyInv, RefundsAreOfSales
    <3>2. payment[refund'[r].payment].order \in Orders
      BY <3>1 DEF MoneyInv, PaidOnBill
    <3> QED BY <3>1, <3>2
  <2>2. moved(q) = n /\ \A p \in Payments \ {q} : moved(p) = 0
    BY <1>5, <1>7, <2>1
  <2>3. \A x \in Orders \ {c} : PaidBack(x)' = PaidBack(x)
    BY <1>4, <2>1, <2>2
  <2>4. /\ \A p \in Payments : f(c)[p] \in Int /\ g(c)[p] \in Int
        /\ \A p \in Payments \ {q} : g(c)[p] = f(c)[p]
        /\ g(c)[q] = f(c)[q] + n
    BY <1>3, <2>1, <2>2
  <2>5. SumFunctionOnSet(g(c), Payments) = SumFunctionOnSet(f(c), Payments) + (g(c)[q] - f(c)[q])
    BY <2>4, RowsAreFinite, SumUpdate
  <2>6. g(c)[q] - f(c)[q] = n
    BY <2>4
  <2>7. PaidBack(c)' = PaidBack(c) + n
    BY <1>2, <2>5, <2>6
  <2> QED BY <2>1, <2>3, <2>7 DEF OneReturn
<1> QED BY <1>6, <1>7

LEMMA ReturnedMoves ==
    ASSUME TillInv, TillInv', MoneyInv, MoneyInv', ReturnsFit, ReturnsFit', [Next]_vars
    PROVE  SameReturns \/ OneReturn
<1>0. TillRows /\ DOMAIN payment = Payments /\ DOMAIN refund = Refunds
  BY DEF TillInv, TillRows, PaymentRows, RefundRows
<1>1. CASE UNCHANGED <<payment, refund>>
  BY <1>1, PaymentsKeepReturns
<1>2. CASE \E p \in Payments : Paying(p)
  <2>1. PICK p \in Payments : Paying(p)
    BY <1>2
  <2>2. UNCHANGED refund /\ payment[p].status # "CONFIRMED"
    BY <1>0, <2>1 DEF Paying, CreatePayment, VerifyPayment, CancelPayment, Fresh, Unused
  <2>3. \A x \in Payments \ {p} : payment'[x] = payment[x]
    BY <1>0, <2>1 DEF Paying, CreatePayment, VerifyPayment, CancelPayment
  <2> QED BY <2>2, <2>3, PaymentsKeepReturns
<1>3. CASE \E r \in Refunds : Refunding(r)
  <2>1. PICK r \in Refunds : Refunding(r)
    BY <1>3
  <2>2. UNCHANGED <<order, payment>> /\ refund[r].status # "CONFIRMED"
    BY <1>0, <2>1 DEF Refunding, RequestRefund, ApproveRefund, ResolveRefund, Fresh, Unused
  <2>3. \A x \in Refunds \ {r} : refund'[x] = refund[x]
    BY <1>0, <2>1 DEF Refunding, RequestRefund, ApproveRefund, ResolveRefund
  <2> QED BY <2>2, <2>3, OneRefundReturns
<1>4. CASE \/ \E o \in Orders : Floor(o) \/ CompleteOrder(o)
           \/ \E t \in Tickets : AdvanceTicket(t)
           \/ \E m \in Movements : Drawer(m)
           \/ \E s \in Shifts : ShiftDesk(s)
           \/ UNCHANGED vars
  <2>1. UNCHANGED <<payment, refund>>
    BY <1>4 DEF Floor, CreateOrder, Transition, AddLine, ReplaceLine, RemoveLine, CancelSentLine,
       Merge, Split, Send, moneyVars, CompleteOrder, AdvanceTicket, Drawer, RequestMovement,
       ApproveMovement, ShiftDesk, OpenShift, HandOver, CloseShift, vars
  <2> QED BY <1>1, <2>1
<1> QED BY <1>2, <1>3, <1>4 DEF Next
LEMMA ReturnedAt ==
    \A o \in Orders : Returned[o] = PaidBack(o) /\ Returned'[o] = PaidBack(o)'
<1>1. \A o \in Orders : Returned[o] = PaidBack(o)
  BY DEF Returned, PaidBack
<1>2. \A o \in Orders : Returned'[o] = PaidBack(o)'
  BY DEF Returned, PaidBack
<1> QED BY <1>1, <1>2

LEMMA AccountsTyped ==
    /\ Settled = [o \in Orders |-> Settled[o]] /\ Settled' = [o \in Orders |-> Settled'[o]]
    /\ Returned = [o \in Orders |-> Returned[o]] /\ Returned' = [o \in Orders |-> Returned'[o]]
<1>1. Settled = [o \in Orders |-> Settled[o]] /\ Settled' = [o \in Orders |-> Settled'[o]]
  BY DEF Settled
<1>2. Returned = [o \in Orders |-> Returned[o]] /\ Returned' = [o \in Orders |-> Returned'[o]]
  BY DEF Returned
<1> QED BY <1>1, <1>2

LEMMA AccountsInit == Init => Accounts!Init
<1> SUFFICES ASSUME Init PROVE Accounts!Init
  OBVIOUS
<1>1. \A o \in Orders : order[o].status = "NONE"
  BY DEF Init, NoOrder
<1>2. Settled = [o \in Orders |-> 0]
  BY <1>1 DEF Settled
<1>3. ASSUME NEW o \in Orders
      PROVE  SumFunction([p \in Anchored(o) |-> Refunded(p, {"CONFIRMED"})]) = 0
  <2> DEFINE f == [p \in Anchored(o) |-> Refunded(p, {"CONFIRMED"})]
  <2>1. Anchored(o) = {}
    BY RowsAreFinite DEF Init, NoPayment, Anchored
  <2>2. DOMAIN f = {}
    BY <2>1
  <2> HIDE DEF f
  <2>3. SumFunction(f) = 0
    BY <2>2, SumOver, SumEmpty
  <2> QED BY <2>3 DEF f
<1>4. Returned = [o \in Orders |-> 0]
  BY <1>3 DEF Returned
<1> QED BY <1>2, <1>4 DEF Accounts!Init

(* Completing an order settles its bill and leaves all others as they were. *)
LEMMA CompleteSettles ==
    ASSUME OrderInv, OrderInv', FloorInv, TillInv, TillInv', MoneyInv, MoneyInv',
           ReturnsFit, ReturnsFit', [Next]_vars, NEW o \in Orders, CompleteOrder(o)
    PROVE  Accounts!Next
<1>0. DOMAIN order = Orders /\ DOMAIN order' = Orders
  BY DEF OrderInv, OrderRows
<1>1. /\ order[o].status \in Live /\ BillGross(o) > 0
      /\ order' = [order EXCEPT ![o].status = "COMPLETED"]
      /\ UNCHANGED <<payment, refund>>
  BY DEF CompleteOrder
<1>2. Returned' = Returned
  <2>1. \A x \in Orders : PaidBack(x)' = PaidBack(x)
    BY <1>1, PaymentsKeepReturns DEF SameReturns
  <2> QED BY <2>1, ReturnedAt, AccountsTyped
<1>3. ASSUME NEW x \in Orders \ {o} PROVE Settled'[x] = Settled[x]
  <2>1. order'[x].status = order[x].status
    BY <1>0, <1>1
  <2>2. order[x].status = "COMPLETED" => BillConfirmed(x)' = BillConfirmed(x)
    BY SettledMoves
  <2> QED BY <2>1, <2>2 DEF Settled
<1>4. Settled[o] = 0
  BY <1>1 DEF Live, Settled
<1>5. Settled'[o] > 0
  <2>1. order'[o].status = "COMPLETED"
    BY <1>0, <1>1
  <2>2. Settled'[o] = BillConfirmed(o)'
    BY <2>1 DEF Settled
  <2>3. BillConfirmed(o)' = BillGross(o)'
    BY <1>0, <2>1 DEF TillInv, CompletedIsSettled, WithStatus
  <2>4. \A x \in Orders : order'[x].gross = order[x].gross /\ order'[x].into = order[x].into
    BY <1>1 DEF OrderInv, OrderRows
  <2>5. Bill(o)' = Bill(o) /\ Bill(o) \subseteq Orders
    BY <2>4 DEF Bill
  <2>6. [x \in Bill(o)' |-> order'[x].gross] = [x \in Bill(o) |-> order[x].gross]
    BY <2>4, <2>5
  <2>7. BillGross(o)' = BillGross(o)
    BY <2>6 DEF BillGross
  <2> QED BY <1>1, <2>2, <2>3, <2>7
<1>6. Settled' = [Settled EXCEPT ![o] = Settled'[o]]
  BY <1>3, AccountsTyped
<1> QED BY <1>2, <1>4, <1>5, <1>6 DEF Accounts!Next, Accounts!Settle

LEMMA AccountsStep ==
    ASSUME OrderInv, OrderInv', FloorInv, TillInv, TillInv', MoneyInv, MoneyInv',
           ReturnsFit, ReturnsFit', [Next]_vars
    PROVE  [Accounts!Next]_(Accounts!settlementVars)
<1>1. CASE \E o \in Orders : CompleteOrder(o)
  BY <1>1, CompleteSettles
<1>2. CASE \A o \in Orders : ~CompleteOrder(o)
  <2>1. Settled' = Settled
    <3>1. ASSUME NEW o \in Orders PROVE Settled'[o] = Settled[o]
      <4>1. /\ order[o].status = "COMPLETED" =>
                  order'[o].status = "COMPLETED" /\ BillConfirmed(o)' = BillConfirmed(o)
            /\ order'[o].status = "COMPLETED" => order[o].status = "COMPLETED"
        BY <1>2, SettledMoves
      <4> QED BY <4>1 DEF Settled
    <3> QED BY <3>1, AccountsTyped
  <2>2. CASE SameReturns
    <3>1. \A o \in Orders : PaidBack(o)' = PaidBack(o)
      BY <2>2 DEF SameReturns
    <3>2. Returned' = Returned
      BY <3>1, ReturnedAt, AccountsTyped
    <3> QED BY <2>1, <3>2 DEF Accounts!settlementVars
  <2>3. CASE OneReturn
    <3>1. PICK c \in Orders, n \in Nat \ {0} :
             /\ order[c].status = "COMPLETED" /\ order'[c].status = "COMPLETED"
             /\ PaidBack(c)' = PaidBack(c) + n
             /\ \A x \in Orders \ {c} : PaidBack(x)' = PaidBack(x)
      BY <2>3 DEF OneReturn
    <3>2. /\ PaidBack(c) \in Nat /\ PaidBack(c)' <= BillConfirmed(c)'
          /\ Settled'[c] = BillConfirmed(c)'
      BY <3>1 DEF ReturnsFit, Settled
    <3>3. Returned'[c] - Returned[c] = n /\ Returned'[c] = Returned[c] + n
      BY <3>1, <3>2, ReturnedAt
    <3>4. Returned[c] + n <= Settled[c]
      BY <2>1, <3>1, <3>2, ReturnedAt
    <3>5. Returned' = [Returned EXCEPT ![c] = @ + n]
      <4>1. \A x \in Orders \ {c} : Returned'[x] = Returned[x]
        BY <3>1, ReturnedAt
      <4> QED BY <3>3, <4>1, AccountsTyped
    <3>6. n \in {Returned'[c] - Returned[c]} /\ n > 0
      BY <3>3
    <3>7. \E m \in {Returned'[c] - Returned[c]} :
             /\ m > 0 /\ Returned[c] + m <= Settled[c]
             /\ Returned' = [Returned EXCEPT ![c] = @ + m] /\ Settled' = Settled
      <4> USE <3>6
      <4> WITNESS n \in {Returned'[c] - Returned[c]}
      <4> QED BY <2>1, <3>4, <3>5, <3>6
    <3> QED BY <3>7 DEF Accounts!Next, Accounts!Return
  <2> QED BY <2>2, <2>3, ReturnedMoves
<1> QED BY <1>1, <1>2

(* A bill is settled once, for an amount that stays what it was, and no     *)
(* more than that is ever paid back on it (completeOrder, RefundsService).  *)
THEOREM SettlementIsKept == Spec => ImplementsSettlement
BY AccountsInit, AccountsStep, OrderInvariant, FloorInvariant, TillInvariant, MoneyInvariant,
   ReturnsInvariant, PTL DEF Spec, ImplementsSettlement, Accounts!SettlementSpec

-----------------------------------------------------------------------------
(* The books: the same money added up by order, by line and by payment.     *)

(* What f gives is added up key by key in parts.                            *)
ByKey(S, T, f, key, parts) ==
    /\ DOMAIN f = S /\ DOMAIN parts = T /\ IsFiniteSet(S) /\ IsFiniteSet(T)
    /\ \A x \in S : key[x] \in T /\ f[x] \in Int
    /\ \A t \in T : parts[t] = SumFunction([x \in {x \in S : key[x] = t} |-> f[x]])

LEMMA FiledSum ==
    ASSUME NEW S, NEW T, NEW f, NEW key, NEW parts, ByKey(S, T, f, key, parts)
    PROVE  SumFunction(f) = SumFunction(parts)
<1> USE DEF ByKey
<1>1. ASSUME NEW t \in T PROVE parts[t] = SumFunctionOnSet(f, {x \in S : key[x] = t})
  <2> DEFINE A == {x \in S : key[x] = t}
             g == [x \in A |-> f[x]]
  <2>1. DOMAIN g = A /\ (\A x \in A : g[x] = f[x]) /\ IsFiniteSet(A)
    BY FS_Subset
  <2>2. parts[t] = SumFunction(g)
    OBVIOUS
  <2> HIDE DEF A, g
  <2>3. SumFunction(g) = SumFunctionOnSet(g, A)
    BY <2>1, SumOver
  <2>4. SumFunctionOnSet(g, A) = SumFunctionOnSet(f, A)
    BY <2>1, SumSame
  <2> QED BY <2>2, <2>3, <2>4 DEF A
<1>2. Filed(S, T, f, key, parts)
  BY <1>1 DEF Filed
<1>3. SumFunctionOnSet(f, S) = SumFunctionOnSet(parts, T)
  BY <1>2, SumByKey
<1> QED BY <1>3, SumOver

(* The order that pays for x.                                               *)
Payer(x) == IF order[x].status = "COMPLETED" THEN x ELSE order[x].into

LEMMA PayerPays ==
    ASSUME OrderInv, NEW o \in Sold, NEW x \in Orders
    PROVE  /\ o \in Orders /\ order[o].status = "COMPLETED"
           /\ x \in Bill(o) <=> Payer(x) = o
<1>1. o \in Orders /\ order[o].status = "COMPLETED" /\ None \notin Orders
  BY RowsAreFinite DEF Sold, WithStatus, OrderInv, OrderRows
<1> QED BY <1>1 DEF Payer, Bill, OrderInv, Joined

(* A receipt comes to what the orders on it come to.                        *)
LEMMA ReceiptIsBill ==
    ASSUME FloorInv, NEW o \in Orders
    PROVE  ReceiptTotal(o) = BillGross(o)
<1> DEFINE S == CompositionLines(o)
           T == Bill(o)
           f == [l \in S |-> line[l].quantity]
           key == [l \in S |-> line[l].order]
           parts == [x \in T |-> order[x].gross]
<1>1. S \subseteq Lines /\ T \subseteq Orders /\ IsFiniteSet(S) /\ IsFiniteSet(T)
  <2>1. S \subseteq Lines /\ T \subseteq Orders
    BY DEF CompositionLines, Drafts, Bill
  <2> QED BY <2>1, RowsAreFinite, FS_Subset
<1>2. \A l \in S : key[l] \in T /\ f[l] \in Int
  BY <1>1 DEF CompositionLines, Drafts, FloorInv, KitchenInv, LineRows, OrderLine
<1>3. ASSUME NEW x \in T
      PROVE  parts[x] = SumFunction([l \in {l \in S : key[l] = x} |-> f[l]])
  <2>1. {l \in S : key[l] = x} = Drafts(x)
    BY <1>1 DEF CompositionLines, Drafts
  <2>2. Drafts(x) \subseteq S
    BY DEF CompositionLines
  <2>3. [l \in {l \in S : key[l] = x} |-> f[l]] = [l \in Drafts(x) |-> line[l].quantity]
    BY <2>1, <2>2
  <2>4. parts[x] = DraftTotal(x)
    BY <1>1 DEF FloorInv, TotalInv, GrossIsCurrent
  <2> QED BY <2>3, <2>4 DEF DraftTotal
<1>4. DOMAIN f = S /\ DOMAIN parts = T
  OBVIOUS
<1>5. ReceiptTotal(o) = SumFunction(f) /\ BillGross(o) = SumFunction(parts)
  BY DEF ReceiptTotal, BillGross
<1> HIDE DEF S, T, f, key, parts
<1>6. SumFunction(f) = SumFunction(parts)
  <2>1. ByKey(S, T, f, key, parts)
    BY <1>1, <1>2, <1>3, <1>4 DEF ByKey
  <2> QED BY <2>1, FiledSum
<1> QED BY <1>5, <1>6

(* A day's sales by line and by order.                                      *)
LEMMA ItemsAreSales ==
    ASSUME OrderInv, FloorInv
    PROVE  SumFunction(SalesByItem) = SalesByChannel
<1> DEFINE S == UNION {CompositionLines(o) : o \in Sold}
           f == SalesByItem
           key == [l \in S |-> Payer(line[l].order)]
           parts == [o \in Sold |-> CompositionMoney(o)]
<1>1. Sold \subseteq Orders /\ S \subseteq Lines
  BY DEF Sold, WithStatus, OrderInv, OrderRows, CompositionLines, Drafts
<1>2. IsFiniteSet(Sold) /\ IsFiniteSet(S)
  BY <1>1, RowsAreFinite, FS_Subset
<1>3. ASSUME NEW l \in S, NEW o \in Sold
      PROVE  key[l] \in Sold /\ (l \in CompositionLines(o) <=> key[l] = o)
  <2>1. PICK c \in Sold : l \in CompositionLines(c)
    OBVIOUS
  <2>2. PICK x \in Bill(c) : l \in Drafts(x)
    BY <2>1 DEF CompositionLines
  <2>3. x \in Orders /\ line[l].order = x
    BY <1>1, <2>2 DEF Bill, Drafts
  <2>4. key[l] = c
    BY <2>2, <2>3, PayerPays
  <2>5. l \in CompositionLines(o) => x \in Bill(o)
    BY <2>3 DEF CompositionLines, Drafts
  <2>6. l \in CompositionLines(o) => o = c
    BY <2>3, <2>4, <2>5, PayerPays
  <2> QED BY <2>1, <2>4, <2>6
<1>4. \A l \in S : key[l] \in Sold /\ f[l] \in Int
  <2>1. \A l \in S : key[l] \in Sold
    BY <1>3
  <2>2. \A l \in S : f[l] \in Int
    BY <1>1 DEF SalesByItem, FloorInv, KitchenInv, LineRows, OrderLine
  <2> QED BY <2>1, <2>2
<1>5. ASSUME NEW o \in Sold
      PROVE  parts[o] = SumFunction([l \in {l \in S : key[l] = o} |-> f[l]])
  <2>1. {l \in S : key[l] = o} = CompositionLines(o)
    <3>1. CompositionLines(o) \subseteq S
      OBVIOUS
    <3> HIDE DEF S, key
    <3> QED BY <1>3, <3>1
  <2>2. [l \in {l \in S : key[l] = o} |-> f[l]] = [l \in CompositionLines(o) |-> line[l].quantity]
    <3>1. \A l \in CompositionLines(o) : f[l] = line[l].quantity
      BY DEF SalesByItem
    <3> HIDE DEF f, key
    <3> QED BY <2>1, <3>1
  <2>3. parts[o] = ReceiptTotal(o)
    BY <1>1, ReceiptIsBill DEF CompositionMoney
  <2> QED BY <2>2, <2>3 DEF ReceiptTotal
<1>6. DOMAIN f = S /\ DOMAIN parts = Sold
  BY DEF SalesByItem
<1>7. SalesByChannel = SumFunction(parts)
  BY DEF SalesByChannel
<1> HIDE DEF S, f, key, parts
<1>8. SumFunction(f) = SumFunction(parts)
  <2>1. ByKey(S, Sold, f, key, parts)
    BY <1>2, <1>4, <1>5, <1>6 DEF ByKey
  <2> QED BY <2>1, FiledSum
<1> QED BY <1>7, <1>8 DEF f

(* What is confirmed on the bills of completed orders, and what else is.    *)
Billed == UNION {Bill(x) : x \in Sold}

LEMMA BilledIsConfirmed ==
    ASSUME OrderInv, FloorInv, TillInv, MoneyInv, \A o \in Orders : Confirmed(o) \in Nat
    PROVE  SumFunction([o \in Orders |-> Confirmed(o)])
              = DailySummary.gross + SumFunction([o \in Orders \ Billed |-> Confirmed(o)])
<1> DEFINE f == [o \in Orders |-> Confirmed(o)]
           b == [o \in Billed |-> Confirmed(o)]
           rest == [o \in Orders \ Billed |-> Confirmed(o)]
           key == [o \in Billed |-> Payer(o)]
           parts == [o \in Sold |-> BillConfirmed(o)]
           sales == [o \in Sold |-> CompositionMoney(o)]
<1>1. Sold \subseteq Orders /\ Billed \subseteq Orders
  BY DEF Sold, WithStatus, OrderInv, OrderRows, Billed, Bill
<1>2. /\ IsFiniteSet(Orders) /\ IsFiniteSet(Sold) /\ IsFiniteSet(Billed)
      /\ IsFiniteSet(Orders \ Billed)
  BY <1>1, RowsAreFinite, FS_Subset
<1>3. ASSUME NEW x \in Billed, NEW o \in Sold
      PROVE  key[x] \in Sold /\ (x \in Bill(o) <=> key[x] = o)
  <2>1. PICK c \in Sold : x \in Bill(c)
    BY DEF Billed
  <2> QED BY <1>1, <2>1, PayerPays
<1>4. \A x \in Billed : key[x] \in Sold /\ b[x] \in Int
  <2>1. \A x \in Billed : key[x] \in Sold
    BY <1>3 DEF Billed
  <2>2. \A x \in Billed : b[x] \in Int
    BY <1>1
  <2> QED BY <2>1, <2>2
<1>5. ASSUME NEW o \in Sold
      PROVE  parts[o] = SumFunction([x \in {x \in Billed : key[x] = o} |-> b[x]])
  <2>1. Bill(o) \subseteq Billed
    BY DEF Billed
  <2>2. {x \in Billed : key[x] = o} = Bill(o)
    <3> HIDE DEF key
    <3> QED BY <1>3, <2>1
  <2>3. [x \in {x \in Billed : key[x] = o} |-> b[x]] = [x \in Bill(o) |-> Confirmed(x)]
    <3>1. \A x \in Bill(o) : b[x] = Confirmed(x)
      BY <2>1
    <3> HIDE DEF b, key
    <3> QED BY <2>2, <3>1
  <2> QED BY <2>3 DEF BillConfirmed
<1>6. DOMAIN b = Billed /\ DOMAIN parts = Sold /\ DOMAIN f = Orders
      /\ DOMAIN rest = Orders \ Billed /\ DOMAIN sales = Sold
  OBVIOUS
<1>7. /\ \A o \in Orders : f[o] \in Int
      /\ \A o \in Billed : b[o] = f[o]
      /\ \A o \in Orders \ Billed : rest[o] = f[o]
  BY <1>1
<1>8. \A o \in Sold : parts[o] = sales[o]
  BY <1>1 DEF TillInv, CompletedIsSettled, CompositionMoney, Sold
<1>9. DailySummary.gross = SumFunction(sales)
  BY DEF DailySummary
<1> HIDE DEF f, b, rest, key, parts, sales
<1>10. SumFunction(b) = SumFunction(parts)
  <2>1. DOMAIN b = Billed /\ DOMAIN parts = Sold /\ IsFiniteSet(Billed) /\ IsFiniteSet(Sold)
    BY <1>2, <1>6
  <2>2. \A o \in Sold : parts[o] = SumFunction([x \in {x \in Billed : key[x] = o} |-> b[x]])
    BY <1>5
  <2>3. ByKey(Billed, Sold, b, key, parts)
    BY <1>4, <2>1, <2>2 DEF ByKey
  <2> QED BY <2>3, FiledSum
<1>11. SumFunction(parts) = SumFunction(sales)
  BY <1>2, <1>6, <1>8, SumSame, SumOver
<1>12. SumFunctionOnSet(f, Orders)
          = SumFunctionOnSet(f, Billed) + SumFunctionOnSet(f, Orders \ Billed)
  BY <1>1, <1>2, <1>7, SumParted
<1>13. SumFunctionOnSet(b, Billed) = SumFunctionOnSet(f, Billed)
  BY <1>2, <1>7, SumSame
<1>14. SumFunctionOnSet(rest, Orders \ Billed) = SumFunctionOnSet(f, Orders \ Billed)
  BY <1>2, <1>7, SumSame
<1>15. SumFunction(f) = SumFunction(b) + SumFunction(rest)
  BY <1>6, <1>12, <1>13, <1>14, SumOver
<1> QED BY <1>9, <1>10, <1>11, <1>15 DEF f, rest

Methods == {"CASH", "MANUAL"}

(* The tenders of all methods are all payments and all refunds.             *)
LEMMA TendersAreAll ==
    ASSUME TillRows, Amounts
    PROVE  /\ Tendered("confirmed")
                 = SumFunction([p \in WithStatus(payment, {"CONFIRMED"}) |-> Amount(p)])
           /\ Tendered("refunded") = DailySummary.refunded
<1> DEFINE P == WithStatus(payment, {"CONFIRMED"})
           R == WithStatus(refund, {"CONFIRMED"})
           f == [p \in P |-> Amount(p)]
           g == [r \in R |-> refund[r].amount]
           fkey == [p \in P |-> payment[p].method]
           gkey == [r \in R |-> payment[refund[r].payment].method]
           confirmed == [m \in Methods |-> TenderSummary[m].confirmed]
           refunded == [m \in Methods |-> TenderSummary[m].refunded]
<1>1. P \subseteq Payments /\ R \subseteq Refunds
  BY DEF WithStatus, TillRows, PaymentRows, RefundRows
<1>2. IsFiniteSet(P) /\ IsFiniteSet(R) /\ IsFiniteSet(Methods)
  <2>1. IsFiniteSet({"CASH"}) /\ IsFiniteSet({"MANUAL"})
    BY FS_Singleton
  <2>2. Methods = {"CASH"} \cup {"MANUAL"}
    BY DEF Methods
  <2>3. IsFiniteSet(Methods)
    BY <2>1, <2>2, FS_Union
  <2> QED BY <1>1, <2>3, RowsAreFinite, FS_Subset
<1>3. \A p \in P : fkey[p] \in Methods /\ f[p] \in Int
  <2>1. \A p \in P : payment[p].method \in Methods
    BY <1>1 DEF TillRows, PaymentRows, Methods
  <2>2. \A p \in P : Amount(p) \in Int
    BY <1>1, AmountIsNat DEF Amounts, Amount
  <2> QED BY <2>1, <2>2
<1>4. \A r \in R : gkey[r] \in Methods /\ g[r] \in Int
  <2>1. \A r \in R : refund[r].payment \in Payments /\ refund[r].amount \in Int
    BY <1>1 DEF WithStatus, TillRows, Backed, Amounts
  <2>2. \A p \in Payments : payment[p].method \in Methods
    BY DEF TillRows, PaymentRows, Methods
  <2> QED BY <2>1, <2>2
<1>5. ASSUME NEW m \in Methods
      PROVE  /\ confirmed[m] = SumFunction([p \in {p \in P : fkey[p] = m} |-> f[p]])
             /\ refunded[m] = SumFunction([r \in {r \in R : gkey[r] = m} |-> g[r]])
  <2>1. /\ {p \in P : fkey[p] = m} = {p \in P : payment[p].method = m}
        /\ {r \in R : gkey[r] = m} = {r \in R : payment[refund[r].payment].method = m}
    OBVIOUS
  <2>2. /\ [p \in {p \in P : fkey[p] = m} |-> f[p]] = [p \in {p \in P : payment[p].method = m} |-> Amount(p)]
        /\ [r \in {r \in R : gkey[r] = m} |-> g[r]]
              = [r \in {r \in R : payment[refund[r].payment].method = m} |-> refund[r].amount]
    BY <2>1
  <2>3. /\ TenderSummary[m].confirmed
              = SumFunction([p \in {p \in P : payment[p].method = m} |-> Amount(p)])
        /\ TenderSummary[m].refunded
              = SumFunction([r \in {r \in R : payment[refund[r].payment].method = m} |-> refund[r].amount])
    BY DEF TenderSummary, Methods
  <2> HIDE DEF P, R, f, g, fkey, gkey
  <2> QED BY <2>2, <2>3
<1>6. /\ DOMAIN f = P /\ DOMAIN g = R
      /\ DOMAIN confirmed = Methods /\ DOMAIN refunded = Methods
  OBVIOUS
<1>7. Tendered("confirmed") = SumFunction(confirmed) /\ Tendered("refunded") = SumFunction(refunded)
  <2>1. DOMAIN TenderSummary = Methods
    BY DEF TenderSummary, Methods
  <2> QED BY <2>1 DEF Tendered
<1>8. DailySummary.refunded = SumFunction(g)
  BY DEF DailySummary
<1> HIDE DEF P, R, f, g, fkey, gkey, confirmed, refunded
<1>9. ByKey(P, Methods, f, fkey, confirmed) /\ ByKey(R, Methods, g, gkey, refunded)
  BY <1>2, <1>3, <1>4, <1>5, <1>6 DEF ByKey
<1>10. SumFunction(f) = SumFunction(confirmed) /\ SumFunction(g) = SumFunction(refunded)
  BY <1>9, FiledSum
<1> QED BY <1>7, <1>8, <1>10 DEF f, P

(* All that was confirmed, by payment and by order.                         *)
LEMMA AllIsConfirmed ==
    ASSUME TillRows, MoneyInv
    PROVE  /\ SumFunction([o \in Orders |-> Confirmed(o)])
                 = SumFunction([p \in WithStatus(payment, {"CONFIRMED"}) |-> Amount(p)])
           /\ \A o \in Orders : Confirmed(o) \in Nat
<1> DEFINE P == WithStatus(payment, {"CONFIRMED"})
<1>0. Amounts /\ DOMAIN payment = Payments
  BY DEF MoneyInv, TillRows, PaymentRows
<1>1. /\ P \in SUBSET Payments /\ \A p \in P : payment[p].status = "CONFIRMED"
      /\ \A x \in Orders : Allocated(x, {"CONFIRMED"}) \subseteq P
  BY <1>0 DEF WithStatus, Allocated
<1> HIDE DEF P
<1>2. SumFunction([o \in Orders |-> Confirmed(o)]) = SumFunction([p \in P |-> Amount(p)])
  BY <1>0, <1>1, ConfirmedOf
<1>3. ASSUME NEW x \in Orders PROVE Confirmed(x) \in Nat
  <2> DEFINE g == [p \in Allocated(x, {"CONFIRMED"}) |-> payment[p].allocation[x]]
  <2>1. Allocated(x, {"CONFIRMED"}) \subseteq Payments
    BY <1>0 DEF Allocated, WithStatus
  <2>2. IsFiniteSet(DOMAIN g) /\ \A p \in DOMAIN g : g[p] \in Nat
    BY <1>0, <2>1, RowsAreFinite, FS_Subset DEF Amounts
  <2> HIDE DEF g
  <2>3. SumFunction(g) \in Nat
    BY <2>2, TableSum
  <2> QED BY <2>3 DEF g, Confirmed
<1> QED BY <1>2, <1>3 DEF P

LEMMA Balanced ==
    ASSUME OrderInv, FloorInv, TillInv, MoneyInv
    PROVE  BooksAgree
<1>0. /\ TillRows /\ Amounts /\ DOMAIN order = Orders /\ DOMAIN shift = Shifts
      /\ ClosedShiftStands /\ CompletedIsSettled
  BY DEF TillInv, MoneyInv, OrderInv, OrderRows, ShiftRows
<1>1. ASSUME NEW o \in Sold
      PROVE  ReceiptTotal(o) = CompositionMoney(o) /\ ReceiptTotal(o) = ReceiptTenders(o)
  <2>1. o \in Orders /\ order[o].status = "COMPLETED" /\ BillConfirmed(o) = BillGross(o)
    BY <1>0, <1>1 DEF Sold, WithStatus, CompletedIsSettled
  <2> QED BY <1>0, <2>1, ReceiptIsBill, BillIsPaid DEF CompositionMoney
<1>2. SumFunction(SalesByItem) = SalesByChannel
  BY ItemsAreSales
<1>3. DailySummary.refunded = Tendered("refunded")
  BY <1>0, TendersAreAll
<1>4. DailySummary.gross + SumFunction([o \in Orders \ Billed |-> Confirmed(o)])
         = Tendered("confirmed")
  BY <1>0, TendersAreAll, AllIsConfirmed, BilledIsConfirmed
<1>5. \A s \in Shifts : ShiftReconciliation(s) # "MISMATCH"
  BY <1>0 DEF ShiftReconciliation, ClosedShiftStands, WithStatus
<1> QED BY <1>1, <1>2, <1>3, <1>4, <1>5 DEF BooksAgree, Billed

(* The receipts, the sales of the day, the tenders and the reconciliation   *)
(* of closed shifts agree after any history (ReceiptsService.create,        *)
(* ReportsService).                                                         *)
THEOREM BooksAlwaysAgree == Spec => []BooksAgree
BY Balanced, OrderInvariant, FloorInvariant, TillInvariant, MoneyInvariant, PTL
=============================================================================
