----------------------------- MODULE SaleProofs ------------------------------
(***************************************************************************)
(* Proofs about the floor, for any number of shifts, orders, lines, waves and *)
(* stations: who may hold an open shift, which shift a live order belongs to *)
(* and what a merged one is part of; then lines, tickets and stored totals. *)
(***************************************************************************)
EXTENDS Sale, SumLemmas, TLAPS

(* The shape of the rows.  What is a sum (expected, gross) is left open.    *)
ShiftRows ==
    /\ shift = [s \in Shifts |-> shift[s]]
    /\ \A s \in Shifts : shift[s] \in
          [status: {"NONE", "OPEN", "CLOSED"}, device: Devices \cup {None},
           cashier: Users \cup {None}, expected: {shift[s].expected}]

OrderRows ==
    /\ order = [o \in Orders |-> order[o]]
    /\ \A o \in Orders : order[o] \in
          [status: {"NONE", "CANCELLED", "MERGED", "COMPLETED"} \cup Live,
           shift: Shifts \cup {None}, gross: {order[o].gross},
           into: Orders \cup {None}]

(* A live order has a shift.                                                *)
Placed == \A o \in Orders : order[o].status \in Live => order[o].shift \in Shifts

(* Exactly the merged orders are part of another one.                       *)
Joined ==
    \A o \in Orders :
        IF order[o].status = "MERGED" THEN order[o].into \in Orders \ {o}
                                      ELSE order[o].into = None

OrderInv ==
    /\ ShiftRows /\ OrderRows /\ OneOpenShift
    /\ Placed /\ Joined /\ LiveOrdersHaveShift /\ MergedIntoLiving

-----------------------------------------------------------------------------
(* Shifts.                                                                  *)

LEMMA OpenShiftKeeps ==
    ASSUME OrderInv, NEW s \in Shifts, NEW d \in Devices, NEW u \in Users,
           OpenShift(s, d, u)
    PROVE  OrderInv'
<1> USE DEF OrderInv
<1>1. ShiftRows'
  BY DEF ShiftRows, OpenShift, NoShift
<1>2. OneOpenShift'
  BY DEF ShiftRows, OpenShift, NoShift, OneOpenShift, WithStatus
<1>3. OrderRows' /\ Placed' /\ Joined' /\ MergedIntoLiving'
  BY DEF OpenShift, OrderRows, Placed, Joined, MergedIntoLiving, WithStatus
<1>4. LiveOrdersHaveShift'
  BY DEF OpenShift, NoShift, ShiftRows, OrderRows, Placed, LiveOrdersHaveShift, WithStatus
<1> QED BY <1>1, <1>2, <1>3, <1>4

LEMMA HandOverKeeps ==
    ASSUME OrderInv, NEW s \in Shifts, NEW u \in Users, HandOver(s, u)
    PROVE  OrderInv'
<1> USE DEF OrderInv
<1>1. ShiftRows'
  BY DEF ShiftRows, HandOver
<1>2. OneOpenShift'
  BY DEF ShiftRows, HandOver, OneOpenShift, WithStatus
<1>3. OrderRows' /\ Placed' /\ Joined' /\ MergedIntoLiving'
  BY DEF HandOver, OrderRows, Placed, Joined, MergedIntoLiving, WithStatus
<1>4. LiveOrdersHaveShift'
  BY DEF HandOver, ShiftRows, OrderRows, Placed, LiveOrdersHaveShift, WithStatus
<1> QED BY <1>1, <1>2, <1>3, <1>4

LEMMA CloseShiftKeeps ==
    ASSUME OrderInv, NEW s \in Shifts, CloseShift(s)
    PROVE  OrderInv'
<1> USE DEF OrderInv
<1>1. ShiftRows'
  BY DEF ShiftRows, CloseShift
<1>2. OneOpenShift'
  BY DEF ShiftRows, CloseShift, OneOpenShift, WithStatus
<1>3. OrderRows' /\ Placed' /\ Joined' /\ MergedIntoLiving'
  BY DEF CloseShift, OrderRows, Placed, Joined, MergedIntoLiving, WithStatus
<1>4. LiveOrdersHaveShift'
  BY DEF CloseShift, ShiftRows, OrderRows, Placed, LiveOrdersHaveShift, WithStatus
<1> QED BY <1>1, <1>2, <1>3, <1>4

-----------------------------------------------------------------------------
(* Orders.                                                                  *)

LEMMA CreateOrderKeeps ==
    ASSUME OrderInv, NEW o \in Orders, NEW s \in Shifts, CreateOrder(o, s)
    PROVE  OrderInv'
<1> USE DEF OrderInv
<1>0. order[o].status = "NONE" /\ shift' = shift
  BY DEF CreateOrder, Fresh, Unused, moneyVars
<1>1. OrderRows'
  BY DEF OrderRows, CreateOrder, NoOrder, Live
<1>2. ShiftRows' /\ OneOpenShift'
  BY <1>0 DEF ShiftRows, OneOpenShift, WithStatus
<1>3. Placed' /\ Joined'
  BY DEF OrderRows, CreateOrder, NoOrder, Placed, Joined, Live
<1>4. LiveOrdersHaveShift'
  BY <1>0 DEF OrderRows, CreateOrder, NoOrder, LiveOrdersHaveShift, WithStatus, Live
<1>5. MergedIntoLiving'
  BY <1>0 DEF OrderRows, CreateOrder, NoOrder, Joined, MergedIntoLiving, WithStatus, Live
<1> QED BY <1>1, <1>2, <1>3, <1>4, <1>5

LEMMA TransitionKeeps ==
    ASSUME OrderInv, NEW o \in Orders, NEW to \in {"OPEN", "HELD", "CANCELLED"},
           Transition(o, to)
    PROVE  OrderInv'
<1> USE DEF OrderInv
<1>0. order[o].status \in Live /\ shift' = shift
  BY DEF Transition, moneyVars
<1>1. OrderRows'
  BY DEF OrderRows, Transition, Live
<1>2. ShiftRows' /\ OneOpenShift'
  BY <1>0 DEF ShiftRows, OneOpenShift, WithStatus
<1>3. Placed' /\ Joined'
  BY <1>0 DEF OrderRows, Transition, Placed, Joined, Live
<1>4. LiveOrdersHaveShift'
  BY <1>0 DEF OrderRows, Transition, LiveOrdersHaveShift, WithStatus, Live
<1>5. MergedIntoLiving'
  <2> SUFFICES ASSUME NEW m \in Orders, order'[m].status = "MERGED"
               PROVE  order'[order'[m].into].status \in Live \cup {"COMPLETED"}
    BY <1>1 DEF MergedIntoLiving, WithStatus, OrderRows
  <2>1. /\ order[m].status = "MERGED" /\ order'[m].into = order[m].into
        /\ order[m].into \in Orders
        /\ order[order[m].into].status \in Live \cup {"COMPLETED"}
    BY <1>0 DEF OrderRows, Transition, Joined, MergedIntoLiving, WithStatus, Live
  <2>2. CASE order[m].into = o
    <3>1. Composed(o)
      BY <1>0, <2>1, <2>2 DEF Composed, Bill, Live
    <3>2. to # "CANCELLED" /\ order'[o].status = to
      BY <3>1 DEF Transition, OrderRows
    <3> QED BY <2>1, <2>2, <3>2 DEF Live
  <2>3. CASE order[m].into # o
    BY <2>1, <2>3 DEF Transition, OrderRows
  <2> QED BY <2>2, <2>3
<1> QED BY <1>1, <1>2, <1>3, <1>4, <1>5

(* The handlers that only recalculate totals.                               *)
LEMMA RecalculateKeeps ==
    ASSUME OrderInv, NEW os, Recalculate(os), UNCHANGED shift
    PROVE  OrderInv'
<1> USE DEF OrderInv
<1>1. OrderRows'
  BY DEF OrderRows, Recalculate
<1>2. \A o \in Orders : /\ order'[o].status = order[o].status
                        /\ order'[o].shift = order[o].shift
                        /\ order'[o].into = order[o].into
  BY DEF OrderRows, Recalculate
<1>3. ShiftRows' /\ OneOpenShift'
  BY DEF ShiftRows, OneOpenShift, WithStatus
<1>4. Placed' /\ Joined'
  BY <1>2 DEF Placed, Joined
<1>5. LiveOrdersHaveShift' /\ MergedIntoLiving'
  BY <1>1, <1>2 DEF OrderRows, LiveOrdersHaveShift, MergedIntoLiving, WithStatus, Joined
<1> QED BY <1>1, <1>3, <1>4, <1>5

LEMMA MergeKeeps ==
    ASSUME OrderInv, NEW o \in Orders, NEW other \in Orders, Merge(o, other)
    PROVE  OrderInv'
<1> USE DEF OrderInv
<1>0. /\ order[o].status = "OPEN" /\ order[other].status = "OPEN" /\ o # other
      /\ shift' = shift
  BY DEF Merge, moneyVars
<1>1. OrderRows'
  <2>1. order' = [order EXCEPT ![other].status = "MERGED", ![other].into = o]
    BY DEF Merge
  <2> QED BY <2>1 DEF OrderRows
<1>2. ShiftRows' /\ OneOpenShift'
  BY <1>0 DEF ShiftRows, OneOpenShift, WithStatus
<1>3. Placed' /\ Joined'
  BY <1>0 DEF OrderRows, Merge, Placed, Joined, Live
<1>4. LiveOrdersHaveShift'
  BY <1>0 DEF OrderRows, Merge, LiveOrdersHaveShift, WithStatus, Live
<1>5. MergedIntoLiving'
  BY <1>0 DEF OrderRows, Merge, Joined, MergedIntoLiving, WithStatus, Live, Composed, Bill
<1> QED BY <1>1, <1>2, <1>3, <1>4, <1>5

LEMMA SplitKeeps ==
    ASSUME OrderInv, NEW o \in Orders, NEW child \in Orders, Split(o, child)
    PROVE  OrderInv'
<1> USE DEF OrderInv
<1>0. /\ order[o].status = "OPEN" /\ order[child].status = "NONE" /\ shift' = shift
      /\ order[o].shift \in Shifts /\ shift[order[o].shift].status = "OPEN"
  BY DEF Split, Fresh, Unused, moneyVars, Placed, Live
<1>1. order' = [order EXCEPT
          ![o].gross = DraftTotal(o)',
          ![child] = [NoOrder EXCEPT !.status = "OPEN", !.shift = order[o].shift,
                                     !.gross = DraftTotal(child)']]
  BY DEF Split
<1>2. OrderRows'
  <2>1. PICK total, rest :
           order' = [order EXCEPT ![o].gross = rest,
              ![child] = [NoOrder EXCEPT !.status = "OPEN", !.shift = order[o].shift,
                                         !.gross = total]]
    BY <1>1
  <2>2. /\ order' = [x \in Orders |-> order'[x]]
        /\ \A x \in Orders \ {o, child} : order'[x] = order[x]
        /\ order'[o] = [order[o] EXCEPT !.gross = rest]
        /\ order'[child] = [status |-> "OPEN", shift |-> order[o].shift,
                            gross |-> total, into |-> None]
    BY <1>0, <2>1 DEF OrderRows, NoOrder
  <2> QED BY <1>0, <2>2 DEF OrderRows, Live
<1>3. /\ order'[child].status = "OPEN" /\ order'[child].shift = order[o].shift
      /\ order'[child].into = None
      /\ \A x \in Orders \ {child} : /\ order'[x].status = order[x].status
                                     /\ order'[x].shift = order[x].shift
                                     /\ order'[x].into = order[x].into
  BY <1>0, <1>1 DEF OrderRows, NoOrder
<1>4. ShiftRows' /\ OneOpenShift'
  BY <1>0 DEF ShiftRows, OneOpenShift, WithStatus
<1>5. Placed' /\ Joined'
  BY <1>0, <1>3 DEF Placed, Joined, Live
<1>6. LiveOrdersHaveShift'
  BY <1>0, <1>2, <1>3 DEF OrderRows, LiveOrdersHaveShift, WithStatus, Live
<1>7. MergedIntoLiving'
  BY <1>0, <1>2, <1>3 DEF OrderRows, Joined, MergedIntoLiving, WithStatus, Live
<1> QED BY <1>2, <1>4, <1>5, <1>6, <1>7

LEMMA CompleteOrderKeeps ==
    ASSUME OrderInv, NEW o \in Orders, CompleteOrder(o)
    PROVE  OrderInv'
<1> USE DEF OrderInv
<1>0. order[o].status \in Live /\ shift' = shift
      /\ order' = [order EXCEPT ![o].status = "COMPLETED"]
  BY DEF CompleteOrder
<1>1. OrderRows'
  BY <1>0 DEF OrderRows
<1>2. ShiftRows' /\ OneOpenShift'
  BY <1>0 DEF ShiftRows, OneOpenShift, WithStatus
<1>3. Placed' /\ Joined'
  BY <1>0 DEF OrderRows, Placed, Joined, Live
<1>4. LiveOrdersHaveShift'
  BY <1>0 DEF OrderRows, LiveOrdersHaveShift, WithStatus, Live
<1>5. MergedIntoLiving'
  BY <1>0 DEF OrderRows, Joined, MergedIntoLiving, WithStatus, Live
<1> QED BY <1>1, <1>2, <1>3, <1>4, <1>5

-----------------------------------------------------------------------------
(* The other handlers leave shifts and orders alone.                        *)

LEMMA StutterKeeps ==
    ASSUME OrderInv, UNCHANGED <<shift, order>>
    PROVE  OrderInv'
BY DEF OrderInv, ShiftRows, OrderRows, OneOpenShift, Placed, Joined,
       LiveOrdersHaveShift, MergedIntoLiving, WithStatus

LEMMA OrderInvInit == Init => OrderInv
BY DEF Init, OrderInv, ShiftRows, OrderRows, OneOpenShift, Placed, Joined, LiveOrdersHaveShift,
       MergedIntoLiving, WithStatus, NoShift, NoOrder, Live

LEMMA OrderInvStep ==
    ASSUME OrderInv, [Next]_vars
    PROVE  OrderInv'
<1>1. CASE \E o \in Orders : Floor(o)
  <2> SUFFICES ASSUME NEW o \in Orders, Floor(o) PROVE OrderInv'
    BY <1>1
  <2>1. CASE \E s \in Shifts : CreateOrder(o, s)
    BY <2>1, CreateOrderKeeps
  <2>2. CASE \E to \in {"OPEN", "HELD", "CANCELLED"} : Transition(o, to)
    BY <2>2, TransitionKeeps
  <2>3. CASE \E l \in Lines, n \in 1..MaxQuantity :
                \/ AddLine(o, l, n)
                \/ \E new \in Lines : ReplaceLine(o, l, new, n)
    BY <2>3, RecalculateKeeps DEF AddLine, ReplaceLine, moneyVars
  <2>4. CASE \E l \in Lines : RemoveLine(o, l) \/ CancelSentLine(o, l)
    BY <2>4, RecalculateKeeps DEF RemoveLine, CancelSentLine, moneyVars
  <2>5. CASE \E other \in Orders : Merge(o, other) \/ Split(o, other)
    BY <2>5, MergeKeeps, SplitKeeps
  <2>6. CASE \E wave \in SUBSET UnsentDrafts(o), tickets \in SUBSET Tickets :
                Send(o, wave, tickets)
    BY <2>6, StutterKeeps DEF Send, moneyVars
  <2> QED BY <2>1, <2>2, <2>3, <2>4, <2>5, <2>6 DEF Floor
<1>2. CASE \E o \in Orders : CompleteOrder(o)
  BY <1>2, CompleteOrderKeeps
<1>3. CASE \E t \in Tickets : AdvanceTicket(t)
  BY <1>3, StutterKeeps DEF AdvanceTicket, moneyVars
<1>4. CASE \E p \in Payments : Paying(p)
  BY <1>4, StutterKeeps DEF Paying, CreatePayment, VerifyPayment, CancelPayment
<1>5. CASE \E r \in Refunds : Refunding(r)
  BY <1>5, StutterKeeps DEF Refunding, RequestRefund, ApproveRefund, ResolveRefund
<1>6. CASE \E m \in Movements : Drawer(m)
  BY <1>6, StutterKeeps DEF Drawer, RequestMovement, ApproveMovement
<1>7. CASE \E s \in Shifts : ShiftDesk(s)
  BY <1>7, OpenShiftKeeps, HandOverKeeps, CloseShiftKeeps DEF ShiftDesk
<1>8. CASE UNCHANGED vars
  BY <1>8, StutterKeeps DEF vars
<1> QED BY <1>1, <1>2, <1>3, <1>4, <1>5, <1>6, <1>7, <1>8 DEF Next

LEMMA OrderInvariant == Spec => []OrderInv
BY OrderInvInit, OrderInvStep, PTL DEF Spec

(* Nobody holds two open shifts at once, and no device has two.             *)
THEOREM OneOpenShiftEach == Spec => []OneOpenShift
<1>1. OrderInv => OneOpenShift
  BY DEF OrderInv
<1> QED BY <1>1, OrderInvariant, PTL

(* An order that can still be paid belongs to an open shift.                *)
THEOREM LiveOrdersKeepTheirShift == Spec => []LiveOrdersHaveShift
<1>1. OrderInv => LiveOrdersHaveShift
  BY DEF OrderInv
<1> QED BY <1>1, OrderInvariant, PTL

(* A merged order is part of one that is still live or was completed.       *)
THEOREM MergedOrdersAreBilled == Spec => []MergedIntoLiving
<1>1. OrderInv => MergedIntoLiving
  BY DEF OrderInv
<1> QED BY <1>1, OrderInvariant, PTL

-----------------------------------------------------------------------------
(***************************************************************************)
(* Lines, tickets and stored totals.                                        *)
(***************************************************************************)

LineRows == line \in [Lines -> OrderLine]
TicketRows == ticket \in [Tickets -> PreparationTicket]

(* Lines that do not exist yet have not been sent.                          *)
NewUnsent == \A l \in Lines : line[l].status = "NONE" => ~line[l].sent

(* A ticket lists wanted lines that were sent, and only those.              *)
OnTickets ==
    \A t \in Tickets : \A l \in ticket[t].lines : line[l].status = "DRAFT" /\ line[l].sent

NewTickets == \A t \in Tickets : ticket[t].status = "NONE" => ticket[t].lines = {}

Prepared == \A t \in Tickets : ticket[t].status \in InPreparation => ticket[t].lines # {}

Served ==
    \A l \in Lines : line[l].status = "DRAFT" /\ line[l].sent =>
        \E t \in Tickets : l \in ticket[t].lines /\ ticket[t].status # "CANCELLED"

KitchenInv ==
    LineRows /\ TicketRows /\ NewUnsent /\ OnTickets /\ NewTickets /\ Prepared /\ Served

(* A line belongs to an order that exists.                                  *)
Owned ==
    \A l \in Lines : line[l].status # "NONE" =>
        line[l].order \in Orders /\ order[line[l].order].status # "NONE"

TotalInv == Owned /\ GrossIsCurrent

-----------------------------------------------------------------------------
(* Sums.                                                                    *)

(* An order whose draft lines stay what they were comes to the same.        *)
LEMMA SameTotal ==
    ASSUME NEW o \in Orders, Drafts(o)' = Drafts(o),
           \A l \in Drafts(o) : line'[l].quantity = line[l].quantity
    PROVE  DraftTotal(o)' = DraftTotal(o)
<1>1. [l \in Drafts(o)' |-> line'[l].quantity] = [l \in Drafts(o) |-> line[l].quantity]
  OBVIOUS
<1> QED BY <1>1 DEF DraftTotal

-----------------------------------------------------------------------------
(* What the handlers that edit lines have in common.                        *)

LEMMA EditKeepsKitchen ==
    ASSUME KitchenInv, UNCHANGED ticket, LineRows', NewUnsent',
           \A l \in Lines : line'[l] = line[l] \/ (~line[l].sent /\ ~line'[l].sent)
    PROVE  KitchenInv'
<1>1. TicketRows' /\ NewTickets' /\ Prepared'
  BY DEF KitchenInv, TicketRows, NewTickets, Prepared
<1>2. OnTickets'
  BY DEF KitchenInv, OnTickets, TicketRows, PreparationTicket
<1>3. Served'
  BY DEF KitchenInv, Served
<1> QED BY <1>1, <1>2, <1>3 DEF KitchenInv

LEMMA EditKeepsTotals ==
    ASSUME TotalInv, NEW os \in SUBSET Orders,
           \A l \in Lines :
              \/ line'[l] = line[l]
              \/ /\ line[l].status = "NONE" \/ line[l].order \in os
                 /\ line'[l].order \in os,
           \A o \in os : order'[o].status # "NONE" /\ order'[o].gross = DraftTotal(o)',
           \A o \in Orders \ os : /\ order'[o].gross = order[o].gross
                                  /\ order[o].status # "NONE" => order'[o].status # "NONE"
    PROVE  TotalInv'
<1>1. Owned'
  BY DEF TotalInv, Owned
<1>2. ASSUME NEW o \in Orders \ os
      PROVE  order'[o].gross = DraftTotal(o)'
  <2>1. Drafts(o)' = Drafts(o) /\ \A l \in Drafts(o) : line'[l] = line[l]
    BY <1>2 DEF Drafts
  <2>2. DraftTotal(o)' = DraftTotal(o)
    BY <2>1, SameTotal
  <2> QED BY <1>2, <2>2 DEF TotalInv, GrossIsCurrent
<1>3. GrossIsCurrent'
  BY <1>2 DEF GrossIsCurrent
<1> QED BY <1>1, <1>3 DEF TotalInv

(* The handlers that leave lines and totals alone.                          *)
LEMMA SameLinesKeepTotals ==
    ASSUME TotalInv, UNCHANGED line,
           \A o \in Orders : /\ order'[o].gross = order[o].gross
                             /\ order[o].status # "NONE" => order'[o].status # "NONE"
    PROVE  TotalInv'
BY EditKeepsTotals, {} \in SUBSET Orders

LEMMA SameKitchen ==
    ASSUME KitchenInv, UNCHANGED <<line, ticket>>
    PROVE  KitchenInv'
BY DEF KitchenInv, LineRows, TicketRows, NewUnsent, OnTickets, NewTickets, Prepared, Served

FloorInv == KitchenInv /\ TotalInv

-----------------------------------------------------------------------------
(* Orders.                                                                  *)

LEMMA CreateKeepsFloor ==
    ASSUME OrderInv, FloorInv, NEW o \in Orders, NEW s \in Shifts, CreateOrder(o, s)
    PROVE  FloorInv'
<1>0. order[o].status = "NONE" /\ UNCHANGED <<line, ticket>>
  BY DEF CreateOrder, Fresh, Unused
<1>1. /\ order'[o].status = "OPEN" /\ order'[o].gross = 0
      /\ \A x \in Orders \ {o} : order'[x] = order[x]
  BY DEF CreateOrder, NoOrder, OrderInv, OrderRows
<1>2. Drafts(o)' = {}
  BY <1>0 DEF FloorInv, TotalInv, Owned, Drafts
<1>3. DraftTotal(o)' = 0
  <2>1. DOMAIN [l \in Drafts(o)' |-> line'[l].quantity] = {}
    BY <1>2
  <2> QED BY <2>1, SumOver, SumEmpty DEF DraftTotal
<1>4. TotalInv'
  BY <1>0, <1>1, <1>3, EditKeepsTotals, {o} \in SUBSET Orders DEF FloorInv
<1>5. KitchenInv'
  BY <1>0, SameKitchen DEF FloorInv
<1> QED BY <1>4, <1>5 DEF FloorInv

LEMMA TransitionKeepsFloor ==
    ASSUME OrderInv, FloorInv, NEW o \in Orders, NEW to \in {"OPEN", "HELD", "CANCELLED"},
           Transition(o, to)
    PROVE  FloorInv'
<1>1. UNCHANGED <<line, ticket>>
  BY DEF Transition
<1>2. \A x \in Orders : /\ order'[x].gross = order[x].gross
                        /\ order[x].status # "NONE" => order'[x].status # "NONE"
  BY DEF Transition, OrderInv, OrderRows
<1>3. TotalInv'
  BY <1>1, <1>2, SameLinesKeepTotals DEF FloorInv
<1>4. KitchenInv'
  BY <1>1, SameKitchen DEF FloorInv
<1> QED BY <1>3, <1>4 DEF FloorInv

LEMMA MergeKeepsFloor ==
    ASSUME OrderInv, FloorInv, NEW o \in Orders, NEW other \in Orders, Merge(o, other)
    PROVE  FloorInv'
<1>1. UNCHANGED <<line, ticket>>
  BY DEF Merge
<1>2. \A x \in Orders : /\ order'[x].gross = order[x].gross
                        /\ order[x].status # "NONE" => order'[x].status # "NONE"
  BY DEF Merge, OrderInv, OrderRows
<1>3. TotalInv'
  BY <1>1, <1>2, SameLinesKeepTotals DEF FloorInv
<1>4. KitchenInv'
  BY <1>1, SameKitchen DEF FloorInv
<1> QED BY <1>3, <1>4 DEF FloorInv

LEMMA CompleteKeepsFloor ==
    ASSUME OrderInv, FloorInv, NEW o \in Orders, CompleteOrder(o)
    PROVE  FloorInv'
<1>1. UNCHANGED <<line, ticket>> /\ order' = [order EXCEPT ![o].status = "COMPLETED"]
  BY DEF CompleteOrder, floorVars
<1>2. \A x \in Orders : /\ order'[x].gross = order[x].gross
                        /\ order[x].status # "NONE" => order'[x].status # "NONE"
  BY <1>1 DEF OrderInv, OrderRows
<1>3. TotalInv'
  BY <1>1, <1>2, SameLinesKeepTotals DEF FloorInv
<1>4. KitchenInv'
  BY <1>1, SameKitchen DEF FloorInv
<1> QED BY <1>3, <1>4 DEF FloorInv

-----------------------------------------------------------------------------
(* Lines.                                                                   *)

(* What Recalculate({o}) does to the totals.                                *)
LEMMA RecalculateTotals ==
    ASSUME OrderInv, NEW o \in Orders, order[o].status # "NONE", Recalculate({o})
    PROVE  /\ \A x \in {o} : order'[x].status # "NONE" /\ order'[x].gross = DraftTotal(x)'
           /\ \A x \in Orders \ {o} : /\ order'[x].gross = order[x].gross
                                      /\ order[x].status # "NONE" => order'[x].status # "NONE"
BY DEF Recalculate, OrderInv, OrderRows

(* A new line is a draft that has not been sent.                            *)
LEMMA NewLineShape ==
    ASSUME NEW o \in Orders, NEW n \in Nat
    PROVE  /\ NewLine(o, n) \in OrderLine
           /\ NewLine(o, n).order = o /\ NewLine(o, n).status = "DRAFT" /\ ~NewLine(o, n).sent
BY DEF NewLine, NoLine, OrderLine

LEMMA AddLineKeepsFloor ==
    ASSUME OrderInv, FloorInv, NEW o \in Orders, NEW l \in Lines, NEW n \in 1..MaxQuantity,
           AddLine(o, l, n)
    PROVE  FloorInv'
<1>0. /\ order[o].status = "OPEN" /\ line[l].status = "NONE" /\ UNCHANGED ticket
      /\ line' = [line EXCEPT ![l] = NewLine(o, n)] /\ Recalculate({o})
  BY DEF AddLine, Fresh, Unused
<1>1. n \in Nat /\ LineRows
  BY SaleAssumption DEF SaleAssumption, FloorInv, KitchenInv
<1>2. LineRows'
  BY <1>0, <1>1, NewLineShape DEF LineRows
<1>3. /\ line'[l].order = o /\ line'[l].status = "DRAFT" /\ ~line'[l].sent
      /\ \A k \in Lines \ {l} : line'[k] = line[k]
  BY <1>0, <1>1, NewLineShape DEF LineRows
<1>4. KitchenInv'
  <2>1. NewUnsent'
    BY <1>3 DEF FloorInv, KitchenInv, NewUnsent
  <2>2. \A k \in Lines : line'[k] = line[k] \/ (~line[k].sent /\ ~line'[k].sent)
    BY <1>0, <1>3 DEF FloorInv, KitchenInv, NewUnsent
  <2> QED BY <1>0, <1>2, <2>1, <2>2, EditKeepsKitchen DEF FloorInv
<1>5. TotalInv'
  BY <1>0, <1>3, RecalculateTotals, EditKeepsTotals, {o} \in SUBSET Orders DEF FloorInv
<1> QED BY <1>4, <1>5 DEF FloorInv

LEMMA ReplaceLineKeepsFloor ==
    ASSUME OrderInv, FloorInv, NEW o \in Orders, NEW l \in Lines, NEW new \in Lines,
           NEW n \in 1..MaxQuantity, ReplaceLine(o, l, new, n)
    PROVE  FloorInv'
<1>0. /\ order[o].status = "OPEN" /\ line[new].status = "NONE" /\ UNCHANGED ticket
      /\ line[l].order = o /\ line[l].status = "DRAFT" /\ ~line[l].sent
      /\ line' = [line EXCEPT ![l].status = "REPLACED", ![new] = NewLine(o, n)]
      /\ Recalculate({o})
  BY DEF ReplaceLine, Fresh, Unused, Editable, UnsentDrafts, Drafts
<1>1. n \in Nat /\ LineRows
  BY SaleAssumption DEF SaleAssumption, FloorInv, KitchenInv
<1>2. LineRows'
  BY <1>0, <1>1, NewLineShape DEF LineRows, OrderLine
<1>3. /\ line'[new].order = o /\ line'[new].status = "DRAFT" /\ ~line'[new].sent
      /\ line'[l].order = o /\ line'[l].status = "REPLACED" /\ ~line'[l].sent
      /\ \A k \in Lines \ {l, new} : line'[k] = line[k]
  BY <1>0, <1>1, NewLineShape DEF LineRows, OrderLine
<1>4. KitchenInv'
  <2>1. NewUnsent'
    BY <1>3 DEF FloorInv, KitchenInv, NewUnsent
  <2>2. \A k \in Lines : line'[k] = line[k] \/ (~line[k].sent /\ ~line'[k].sent)
    BY <1>0, <1>3 DEF FloorInv, KitchenInv, NewUnsent
  <2> QED BY <1>0, <1>2, <2>1, <2>2, EditKeepsKitchen DEF FloorInv
<1>5. TotalInv'
  BY <1>0, <1>3, RecalculateTotals, EditKeepsTotals, {o} \in SUBSET Orders DEF FloorInv
<1> QED BY <1>4, <1>5 DEF FloorInv

LEMMA RemoveLineKeepsFloor ==
    ASSUME OrderInv, FloorInv, NEW o \in Orders, NEW l \in Lines, RemoveLine(o, l)
    PROVE  FloorInv'
<1>0. /\ order[o].status = "OPEN" /\ UNCHANGED ticket
      /\ line[l].order = o /\ line[l].status = "DRAFT" /\ ~line[l].sent
      /\ line' = [line EXCEPT ![l].status = "REMOVED"] /\ Recalculate({o})
  BY DEF RemoveLine, Editable, UnsentDrafts, Drafts
<1>1. LineRows'
  BY <1>0 DEF FloorInv, KitchenInv, LineRows, OrderLine
<1>2. /\ line'[l].order = o /\ line'[l].status = "REMOVED" /\ ~line'[l].sent
      /\ \A k \in Lines \ {l} : line'[k] = line[k]
  BY <1>0 DEF FloorInv, KitchenInv, LineRows, OrderLine
<1>3. KitchenInv'
  <2>1. NewUnsent'
    BY <1>2 DEF FloorInv, KitchenInv, NewUnsent
  <2>2. \A k \in Lines : line'[k] = line[k] \/ (~line[k].sent /\ ~line'[k].sent)
    BY <1>0, <1>2
  <2> QED BY <1>0, <1>1, <2>1, <2>2, EditKeepsKitchen DEF FloorInv
<1>4. TotalInv'
  BY <1>0, <1>2, RecalculateTotals, EditKeepsTotals, {o} \in SUBSET Orders DEF FloorInv
<1> QED BY <1>3, <1>4 DEF FloorInv


(* A split edits lines of two orders.                                       *)
LEMMA SplitKeepsTotals ==
    ASSUME TotalInv, NEW o \in Orders, NEW child \in Orders,
           \A l \in Lines :
              \/ line'[l] = line[l]
              \/ /\ line[l].status = "NONE" \/ line[l].order = o
                 /\ line'[l].order \in {o, child},
           \A x \in {o, child} : order'[x].status # "NONE" /\ order'[x].gross = DraftTotal(x)',
           \A x \in Orders \ {o, child} :
               /\ order'[x].gross = order[x].gross
               /\ order[x].status # "NONE" => order'[x].status # "NONE"
    PROVE  TotalInv'
BY EditKeepsTotals, {o, child} \in SUBSET Orders

(* What a split does to the lines.                                         *)
LEMMA SplitLinesEdit ==
    ASSUME OrderInv, FloorInv, NEW o \in Orders, NEW child \in Orders, Split(o, child)
    PROVE  /\ LineRows'
           /\ \A l \in Lines :
                \/ line'[l] = line[l]
                \/ /\ ~line[l].sent /\ ~line'[l].sent /\ line'[l].status # "NONE"
                   /\ line[l].status = "NONE" \/ line[l].order = o
                   /\ line'[l].order \in {o, child}
<1>0. LineRows /\ NewUnsent
  BY DEF FloorInv, KitchenInv
<1>1. PICK chosen \in SUBSET UnsentDrafts(o) : \E moved \in [chosen -> 1..MaxQuantity] :
          /\ \A l \in chosen : moved[l] <= line[l].quantity
          /\ \E target \in Injection(chosen, Unused(line)),
                rest \in Injection(Cut(moved), Unused(line)) :
                line' = SplitLines(o, child, moved, target, rest)
  BY DEF Split
<1>2. PICK moved \in [chosen -> 1..MaxQuantity] :
          /\ \A l \in chosen : moved[l] <= line[l].quantity
          /\ \E target \in Injection(chosen, Unused(line)),
                rest \in Injection(Cut(moved), Unused(line)) :
                line' = SplitLines(o, child, moved, target, rest)
  BY <1>1
<1>3. PICK target \in Injection(chosen, Unused(line)),
           rest \in Injection(Cut(moved), Unused(line)) :
           line' = SplitLines(o, child, moved, target, rest)
  BY <1>2
<1>4. \A k \in chosen : /\ moved[k] \in Nat /\ Left(k, moved[k]) \in Nat
                         /\ k \in Lines /\ target[k] \in Lines
                         /\ line[target[k]].status = "NONE"
                         /\ line[k].order = o /\ line[k].status = "DRAFT" /\ ~line[k].sent
  <2>1. \A k \in chosen : /\ k \in Lines /\ line[k].order = o
                           /\ line[k].status = "DRAFT" /\ ~line[k].sent
    BY DEF UnsentDrafts, Drafts
  <2>2. \A k \in chosen : moved[k] \in Nat /\ Left(k, moved[k]) \in Nat
    BY <1>0, <1>2, <2>1, SaleAssumption DEF SaleAssumption, Left, LineRows, OrderLine
  <2>3. \A k \in chosen : target[k] \in Lines /\ line[target[k]].status = "NONE"
    BY <1>0 DEF Injection, Unused, LineRows
  <2> QED BY <2>1, <2>2, <2>3
<1>5. \A k \in Cut(moved) : k \in chosen /\ rest[k] \in Lines /\ line[rest[k]].status = "NONE"
  BY <1>0 DEF Injection, Unused, LineRows, Cut
<1>6. ASSUME NEW l \in Lines
      PROVE  /\ line'[l] \in OrderLine
             /\ \/ line'[l] = line[l]
                \/ /\ ~line[l].sent /\ ~line'[l].sent /\ line'[l].status # "NONE"
                   /\ line[l].status = "NONE" \/ line[l].order = o
                   /\ line'[l].order \in {o, child}
  <2>0. /\ DOMAIN moved = chosen /\ line[l] \in OrderLine
        /\ line[l].status = "NONE" => ~line[l].sent
    BY <1>0 DEF LineRows, NewUnsent
  <2>1. CASE l \in chosen
    <3>1. line'[l] = [line[l] EXCEPT !.status = "REPLACED"]
      BY <1>3, <2>0, <2>1 DEF SplitLines
    <3> QED BY <1>4, <2>0, <2>1, <3>1 DEF OrderLine
  <2>2. CASE l \notin chosen /\ \E k \in chosen : target[k] = l
    <3> DEFINE k == CHOOSE k \in chosen : target[k] = l
    <3>1. k \in chosen /\ target[k] = l
      BY <2>2
    <3>2. line'[l] = NewLine(child, moved[k])
      BY <1>3, <2>0, <2>2 DEF SplitLines
    <3> QED BY <1>4, <2>0, <3>1, <3>2, NewLineShape
  <2>3. CASE /\ l \notin chosen /\ ~\E k \in chosen : target[k] = l
             /\ \E k \in Cut(moved) : rest[k] = l
    <3> DEFINE k == CHOOSE k \in Cut(moved) : rest[k] = l
    <3>1. k \in Cut(moved) /\ rest[k] = l
      BY <2>3
    <3>2. line'[l] = NewLine(o, Left(k, moved[k]))
      BY <1>3, <2>0, <2>3 DEF SplitLines
    <3> QED BY <1>4, <1>5, <2>0, <3>1, <3>2, NewLineShape
  <2>4. CASE /\ l \notin chosen /\ ~\E k \in chosen : target[k] = l
             /\ ~\E k \in Cut(moved) : rest[k] = l
    <3>1. line'[l] = line[l]
      BY <1>3, <2>0, <2>4 DEF SplitLines
    <3> QED BY <2>0, <3>1
  <2> QED BY <2>1, <2>2, <2>3, <2>4
<1>7. LineRows'
  <2>1. line' = [l \in Lines |-> line'[l]]
    BY <1>3 DEF SplitLines
  <2> QED BY <1>6, <2>1 DEF LineRows
<1> QED BY <1>6, <1>7

LEMMA SplitKeepsFloor ==
    ASSUME OrderInv, FloorInv, NEW o \in Orders, NEW child \in Orders, Split(o, child)
    PROVE  FloorInv'
<1>0. /\ order[o].status = "OPEN" /\ order[child].status = "NONE" /\ UNCHANGED ticket
      /\ KitchenInv /\ NewUnsent
  BY DEF Split, Fresh, Unused, FloorInv, KitchenInv
<1>1. /\ LineRows'
      /\ \A l \in Lines :
           \/ line'[l] = line[l]
           \/ /\ ~line[l].sent /\ ~line'[l].sent /\ line'[l].status # "NONE"
              /\ line[l].status = "NONE" \/ line[l].order = o
              /\ line'[l].order \in {o, child}
  BY SplitLinesEdit
<1>2. KitchenInv'
  <2>1. NewUnsent'
    BY <1>0, <1>1 DEF NewUnsent
  <2>2. \A l \in Lines : line'[l] = line[l] \/ (~line[l].sent /\ ~line'[l].sent)
    BY <1>1
  <2> QED BY <1>0, <1>1, <2>1, <2>2, EditKeepsKitchen
<1>3. /\ \A x \in {o, child} : order'[x].status # "NONE" /\ order'[x].gross = DraftTotal(x)'
      /\ \A x \in Orders \ {o, child} : /\ order'[x].gross = order[x].gross
                                        /\ order[x].status # "NONE" => order'[x].status # "NONE"
  <2>1. order' = [order EXCEPT
          ![o].gross = DraftTotal(o)',
          ![child] = [NoOrder EXCEPT !.status = "OPEN", !.shift = order[o].shift,
                                     !.gross = DraftTotal(child)']]
    BY DEF Split
  <2> QED BY <1>0, <2>1 DEF NoOrder, OrderInv, OrderRows
<1>4. TotalInv'
  BY <1>1, <1>3, SplitKeepsTotals DEF FloorInv
<1> QED BY <1>2, <1>4 DEF FloorInv

-----------------------------------------------------------------------------
(* The kitchen.                                                             *)

LEMMA SendKeepsFloor ==
    ASSUME OrderInv, FloorInv, NEW o \in Orders, NEW wave \in SUBSET UnsentDrafts(o),
           NEW tickets \in SUBSET Tickets, Send(o, wave, tickets)
    PROVE  FloorInv'
<1>0. /\ KitchenInv /\ UNCHANGED order
      /\ \A l \in wave : l \in Lines /\ line[l].status = "DRAFT"
      /\ \A t \in tickets : ticket[t].status = "NONE"
  BY DEF Send, Fresh, Unused, UnsentDrafts, Drafts, FloorInv
<1>1. PICK entries \in [tickets -> (SUBSET wave) \ {{}}] :
          /\ UNION Range(entries) = wave
          /\ ticket' = [t \in Tickets |->
                IF t \in tickets
                THEN [status |-> "QUEUED", order |-> o, lines |-> entries[t]]
                ELSE ticket[t]]
  BY DEF Send
<1>2. line' = [l \in Lines |-> IF l \in wave THEN [line[l] EXCEPT !.sent = TRUE] ELSE line[l]]
  BY DEF Send
<1>3. LineRows'
  <2>1. line \in [Lines -> OrderLine]
    BY <1>0 DEF KitchenInv, LineRows
  <2>2. \A l \in Lines : [line[l] EXCEPT !.sent = TRUE] \in OrderLine
    BY <2>1 DEF OrderLine
  <2> QED BY <1>2, <2>1, <2>2 DEF LineRows
<1>4. \A l \in Lines : /\ line'[l].status = line[l].status /\ line'[l].order = line[l].order
                        /\ line'[l].quantity = line[l].quantity
                        /\ line'[l].sent = (l \in wave \/ line[l].sent)
  BY <1>0, <1>2 DEF KitchenInv, LineRows, OrderLine
<1>5. /\ \A t \in tickets : /\ ticket'[t].status = "QUEUED" /\ ticket'[t].lines = entries[t]
                            /\ entries[t] \subseteq wave /\ entries[t] # {}
      /\ \A t \in Tickets \ tickets : ticket'[t] = ticket[t]
  <2>1. \A t \in tickets : entries[t] \in SUBSET wave /\ entries[t] # {}
    OBVIOUS
  <2> QED BY <1>1, <2>1
<1>6. TicketRows'
  BY <1>0, <1>1 DEF KitchenInv, TicketRows, PreparationTicket, InPreparation
<1>7. NewUnsent' /\ NewTickets' /\ Prepared'
  <2>1. NewUnsent'
    BY <1>0, <1>4 DEF KitchenInv, NewUnsent
  <2>2. NewTickets'
    BY <1>0, <1>5 DEF KitchenInv, NewTickets
  <2>3. Prepared'
    BY <1>0, <1>5 DEF KitchenInv, Prepared
  <2> QED BY <2>1, <2>2, <2>3
<1>8. OnTickets'
  <2> SUFFICES ASSUME NEW t \in Tickets, NEW l \in ticket'[t].lines
               PROVE  line'[l].status = "DRAFT" /\ line'[l].sent
    BY DEF OnTickets
  <2>1. CASE t \in tickets
    <3>1. l \in wave
      BY <1>5, <2>1
    <3> QED BY <1>0, <1>4, <3>1
  <2>2. CASE t \notin tickets
    <3>1. l \in ticket[t].lines /\ l \in Lines
      BY <1>0, <1>5, <2>2 DEF KitchenInv, TicketRows, PreparationTicket
    <3> QED BY <1>0, <1>4, <3>1 DEF KitchenInv, OnTickets
  <2> QED BY <2>1, <2>2
<1>9. Served'
  <2> SUFFICES ASSUME NEW l \in Lines, line'[l].status = "DRAFT", line'[l].sent
               PROVE  \E t \in Tickets : l \in ticket'[t].lines /\ ticket'[t].status # "CANCELLED"
    BY DEF Served
  <2>1. CASE l \in wave
    <3>1. PICK t \in tickets : l \in entries[t]
      BY <1>1, <2>1 DEF Range
    <3> QED BY <1>5, <3>1
  <2>2. CASE l \notin wave
    <3>1. PICK t \in Tickets : l \in ticket[t].lines /\ ticket[t].status # "CANCELLED"
      <4>1. line[l].status = "DRAFT" /\ line[l].sent
        BY <1>4, <2>2
      <4> QED BY <1>0, <4>1 DEF KitchenInv, Served
    <3>2. t \notin tickets
      BY <1>0, <3>1 DEF KitchenInv, NewTickets
    <3> QED BY <1>5, <3>1, <3>2
  <2> QED BY <2>1, <2>2
<1>10. TotalInv'
  <2>1. Owned'
    BY <1>0, <1>4 DEF FloorInv, TotalInv, Owned
  <2>2. \A x \in Orders : Drafts(x)' = Drafts(x)
    BY <1>4 DEF Drafts
  <2>3. \A x \in Orders : DraftTotal(x)' = DraftTotal(x)
    BY <1>4, <2>2, SameTotal DEF Drafts
  <2> QED BY <1>0, <2>1, <2>3 DEF FloorInv, TotalInv, GrossIsCurrent
<1> QED BY <1>3, <1>6, <1>7, <1>8, <1>9, <1>10 DEF FloorInv, KitchenInv

LEMMA CancelSentLineKeepsFloor ==
    ASSUME OrderInv, FloorInv, NEW o \in Orders, NEW l \in Lines, CancelSentLine(o, l)
    PROVE  FloorInv'
<1>0. /\ KitchenInv /\ order[o].status = "OPEN" /\ Recalculate({o})
      /\ line[l].order = o /\ line[l].status = "DRAFT"
      /\ line' = [line EXCEPT ![l].status = "CANCELLED"]
      /\ ticket' = [t \in Tickets |-> Withdraw(t, l)]
  BY DEF CancelSentLine, Drafts, FloorInv
<1>1. LineRows'
  BY <1>0 DEF KitchenInv, LineRows, OrderLine
<1>2. /\ line'[l].order = o /\ line'[l].status = "CANCELLED"
      /\ \A k \in Lines \ {l} : line'[k] = line[k]
  BY <1>0 DEF KitchenInv, LineRows, OrderLine
<1>3. \A t \in Tickets :
          /\ ticket'[t] \in PreparationTicket /\ ticket'[t].lines = ticket[t].lines \ {l}
          /\ ticket'[t].status = IF ticket[t].lines = {l} /\ ticket[t].status \in InPreparation
                                 THEN "CANCELLED" ELSE ticket[t].status
  BY <1>0 DEF Withdraw, KitchenInv, TicketRows, PreparationTicket
<1>4. TicketRows'
  BY <1>0, <1>3 DEF TicketRows
<1>5. NewUnsent' /\ NewTickets'
  BY <1>0, <1>2, <1>3 DEF KitchenInv, NewUnsent, NewTickets
<1>6. OnTickets'
  BY <1>0, <1>2, <1>3 DEF KitchenInv, OnTickets, TicketRows, PreparationTicket
<1>7. Prepared'
  BY <1>0, <1>3 DEF KitchenInv, Prepared, InPreparation
<1>8. Served'
  BY <1>0, <1>2, <1>3 DEF KitchenInv, Served
<1>9. TotalInv'
  BY <1>0, <1>2, RecalculateTotals, EditKeepsTotals, {o} \in SUBSET Orders DEF FloorInv
<1> QED BY <1>1, <1>4, <1>5, <1>6, <1>7, <1>8, <1>9 DEF FloorInv, KitchenInv

LEMMA AdvanceTicketKeepsFloor ==
    ASSUME FloorInv, NEW t \in Tickets, AdvanceTicket(t)
    PROVE  FloorInv'
<1>0. KitchenInv /\ TotalInv /\ UNCHANGED <<order, line>>
  BY DEF AdvanceTicket, FloorInv
<1>1. NextTicketStatus[ticket[t].status] \in {"PREPARING", "READY", "COMPLETED"}
  BY DEF AdvanceTicket, NextTicketStatus, InPreparation
<1>2. /\ TicketRows'
      /\ \A u \in Tickets :
            /\ ticket'[u].lines = ticket[u].lines
            /\ \/ ticket'[u].status = ticket[u].status
               \/ /\ ticket[u].status \in InPreparation
                  /\ ticket'[u].status \in {"PREPARING", "READY", "COMPLETED"}
  BY <1>0, <1>1 DEF AdvanceTicket, KitchenInv, TicketRows, PreparationTicket, InPreparation
<1>3. NewTickets' /\ Prepared'
  BY <1>0, <1>2 DEF KitchenInv, NewTickets, Prepared, InPreparation
<1>4. LineRows' /\ NewUnsent' /\ OnTickets'
  BY <1>0, <1>2 DEF KitchenInv, LineRows, NewUnsent, OnTickets
<1>5. Served'
  BY <1>0, <1>2 DEF KitchenInv, Served
<1>6. TotalInv'
  BY <1>0, SameLinesKeepTotals
<1> QED BY <1>2, <1>3, <1>4, <1>5, <1>6 DEF FloorInv, KitchenInv

-----------------------------------------------------------------------------
(* Every step.                                                              *)

(* The till's handlers, but for completion, leave the floor alone.          *)
LEMMA TillKeepsFloor ==
    ASSUME FloorInv, UNCHANGED <<order, line, ticket>>
    PROVE  FloorInv'
<1>1. TotalInv'
  BY SameLinesKeepTotals DEF FloorInv
<1>2. KitchenInv'
  BY SameKitchen DEF FloorInv
<1> QED BY <1>1, <1>2 DEF FloorInv

LEMMA FloorInvInit == Init => FloorInv
<1> SUFFICES ASSUME Init PROVE FloorInv
  OBVIOUS
<1>1. KitchenInv
  BY DEF Init, NoLine, NoTicket, KitchenInv, LineRows, OrderLine, TicketRows, PreparationTicket,
         NewUnsent, OnTickets, NewTickets, Prepared, InPreparation, Served
<1>2. Owned
  BY DEF Init, NoLine, Owned
<1>3. ASSUME NEW o \in Orders PROVE order[o].gross = DraftTotal(o)
  <2>1. DOMAIN [l \in Drafts(o) |-> line[l].quantity] = {}
    BY DEF Init, NoLine, Drafts
  <2>2. DraftTotal(o) = 0
    BY <2>1, SumOver, SumEmpty DEF DraftTotal
  <2> QED BY <2>2 DEF Init, NoOrder
<1> QED BY <1>1, <1>2, <1>3 DEF FloorInv, TotalInv, GrossIsCurrent

LEMMA FloorInvStep ==
    ASSUME OrderInv, FloorInv, [Next]_vars
    PROVE  FloorInv'
<1>1. CASE \E o \in Orders : Floor(o)
  <2> SUFFICES ASSUME NEW o \in Orders, Floor(o) PROVE FloorInv'
    BY <1>1
  <2>1. CASE \E s \in Shifts : CreateOrder(o, s)
    BY <2>1, CreateKeepsFloor
  <2>2. CASE \E to \in {"OPEN", "HELD", "CANCELLED"} : Transition(o, to)
    BY <2>2, TransitionKeepsFloor
  <2>3. CASE \E l \in Lines, n \in 1..MaxQuantity :
                \/ AddLine(o, l, n)
                \/ \E new \in Lines : ReplaceLine(o, l, new, n)
    BY <2>3, AddLineKeepsFloor, ReplaceLineKeepsFloor
  <2>4. CASE \E l \in Lines : RemoveLine(o, l) \/ CancelSentLine(o, l)
    BY <2>4, RemoveLineKeepsFloor, CancelSentLineKeepsFloor
  <2>5. CASE \E other \in Orders : Merge(o, other) \/ Split(o, other)
    BY <2>5, MergeKeepsFloor, SplitKeepsFloor
  <2>6. CASE \E wave \in SUBSET UnsentDrafts(o), tickets \in SUBSET Tickets :
                Send(o, wave, tickets)
    BY <2>6, SendKeepsFloor
  <2> QED BY <2>1, <2>2, <2>3, <2>4, <2>5, <2>6 DEF Floor
<1>2. CASE \E o \in Orders : CompleteOrder(o)
  BY <1>2, CompleteKeepsFloor
<1>3. CASE \E t \in Tickets : AdvanceTicket(t)
  BY <1>3, AdvanceTicketKeepsFloor
<1>4. CASE \E p \in Payments : Paying(p)
  BY <1>4, TillKeepsFloor DEF Paying, CreatePayment, VerifyPayment, CancelPayment, floorVars
<1>5. CASE \E r \in Refunds : Refunding(r)
  BY <1>5, TillKeepsFloor DEF Refunding, RequestRefund, ApproveRefund, ResolveRefund, floorVars
<1>6. CASE \E m \in Movements : Drawer(m)
  BY <1>6, TillKeepsFloor DEF Drawer, RequestMovement, ApproveMovement, floorVars
<1>7. CASE \E s \in Shifts : ShiftDesk(s)
  BY <1>7, TillKeepsFloor DEF ShiftDesk, OpenShift, HandOver, CloseShift, floorVars
<1>8. CASE UNCHANGED vars
  BY <1>8, TillKeepsFloor DEF vars
<1> QED BY <1>1, <1>2, <1>3, <1>4, <1>5, <1>6, <1>7, <1>8 DEF Next

LEMMA FloorInvariant == Spec => []FloorInv
BY FloorInvInit, FloorInvStep, OrderInvariant, PTL DEF Spec

(* The total stored with an order is always that of its lines.              *)
THEOREM StoredTotalsAreCurrent == Spec => []GrossIsCurrent
<1>1. FloorInv => GrossIsCurrent
  BY DEF FloorInv, TotalInv
<1> QED BY <1>1, FloorInvariant, PTL

(* Every wanted line that was sent is on a ticket that was not cancelled,   *)
(* and no ticket in preparation is for cancelled lines alone.               *)
THEOREM KitchenServesTheFloor == Spec => []KitchenServes
<1>1. FloorInv => KitchenServes
  BY DEF FloorInv, KitchenInv, KitchenServes, Served, OnTickets, Prepared, TicketRows, WithStatus
<1> QED BY <1>1, FloorInvariant, PTL

=============================================================================
