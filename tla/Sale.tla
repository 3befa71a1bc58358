-------------------------------- MODULE Sale --------------------------------
(***************************************************************************)
(* The sale: the order floor, the kitchen and the till over one database.   *)
(* Nobody is obliged to act, so there is no fairness.                       *)
(***************************************************************************)
EXTENDS Till

Next ==
    \/ \E o \in Orders : Floor(o) \/ CompleteOrder(o)
    \/ \E t \in Tickets : AdvanceTicket(t)
    \/ \E p \in Payments : Paying(p)
    \/ \E r \in Refunds : Refunding(r)
    \/ \E m \in Movements : Drawer(m)
    \/ \E s \in Shifts : ShiftDesk(s)

Spec == Init /\ [][Next]_vars

-----------------------------------------------------------------------------
(* The floor.                                                               *)

(* The total stored with an order is that of its lines, whatever has been   *)
(* added, changed, removed, split off or cancelled after sending, also once *)
(* the order is held, merged, cancelled or completed.                       *)
GrossIsCurrent == \A o \in Orders : order[o].gross = DraftTotal(o)

(* The kitchen works on what is wanted: every line that was sent and not    *)
(* cancelled since is on a ticket that was not cancelled, and every ticket  *)
(* still in preparation has a line that is wanted.                          *)
KitchenServes ==
    /\ \A l \in Lines : line[l].status = "DRAFT" /\ line[l].sent =>
          \E t \in Tickets : l \in ticket[t].lines /\ ticket[t].status # "CANCELLED"
    /\ \A t \in WithStatus(ticket, InPreparation) :
          \E l \in ticket[t].lines : line[l].status = "DRAFT"

(* An order that was merged has joined one that is still to be paid or has  *)
(* been, never a cancelled one.                                             *)
MergedIntoLiving ==
    \A o \in WithStatus(order, {"MERGED"}) :
        order[order[o].into].status \in Live \cup {"COMPLETED"}

(* Orders that can still be paid belong to a shift that is still open.      *)
LiveOrdersHaveShift ==
    \A o \in WithStatus(order, Live) : shift[order[o].shift].status = "OPEN"

(* Every unsent line on a bill that is still to be paid can be sent or      *)
(* removed, because its own order is still live.                            *)
DraftsCanBeSettled ==
    \A o \in WithStatus(order, Live) : \A s \in Bill(o) :
        UnsentDrafts(s) # {} => order[s].status \in Live

-----------------------------------------------------------------------------
(* The till.                                                                *)

(* Nobody holds two open shifts and no device has two.                      *)
OneOpenShift ==
    \A s, t \in WithStatus(shift, {"OPEN"}) : s # t =>
        shift[s].device # shift[t].device /\ shift[s].cashier # shift[t].cashier

(* The figure a shift was closed with stays what its payments, refunds and  *)
(* movements say, and nothing of it is left undecided.                      *)
ClosedShiftStands ==
    \A s \in WithStatus(shift, {"CLOSED"}) :
        /\ shift[s].expected = ExpectedCash(s)
        /\ Awaiting(payment, s) \cup Awaiting(refund, s) \cup Awaiting(movement, s) = {}

(* A completed bill has been paid exactly and will be: nothing can still be *)
(* confirmed for it, and nothing on it is unsent or in preparation.         *)
CompletedIsSettled ==
    \A o \in WithStatus(order, {"COMPLETED"}) :
        /\ BillConfirmed(o) = BillGross(o)
        /\ \A x \in Bill(o) :
              /\ UnsentDrafts(x) = {} /\ Allocated(x, {"REQUIRES_VERIFICATION"}) = {}
              /\ \A t \in WithStatus(ticket, InPreparation) : ticket[t].order # x

(* Confirmed payments never exceed the total of the order they are for.     *)
ConfirmedWithinTotal ==
    \A o \in Orders : Confirmed(o) <= order[o].gross

(* The payments anchored at an order.                                       *)
Anchored(o) == {p \in Payments : payment[p].order = o}

(* What an order was completed for, and what has been paid back on it.      *)
Settled ==
    [o \in Orders |-> IF order[o].status = "COMPLETED" THEN BillConfirmed(o) ELSE 0]

Returned ==
    [o \in Orders |-> SumFunction([p \in Anchored(o) |-> Refunded(p, {"CONFIRMED"})])]

(* Bills are settled once and for all, and refunds stay within them.        *)
Accounts == INSTANCE Settlement WITH
    Bills <- Orders, settled <- Settled, returned <- Returned

ImplementsSettlement == Accounts!SettlementSpec

=============================================================================
