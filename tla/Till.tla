-------------------------------- MODULE Till --------------------------------
(***************************************************************************)
(* Money: shifts, payments, the completion of an order, refunds and drawer  *)
(* movements.                                                               *)
(***************************************************************************)
EXTENDS OrderFloor

floorVars == <<line, ticket>>

(* An open shift, whose cashier u makes the request on its device.          *)
OwnShift(s, u) == shift[s].status = "OPEN" /\ shift[s].cashier = u

Awaiting(rows, s) ==
    {x \in DOMAIN rows : rows[x].shift = s
        /\ rows[x].status \in {"REQUIRES_VERIFICATION", "AWAITING_APPROVAL",
                               "PENDING_PROVIDER"}}

-----------------------------------------------------------------------------
(* Shifts.                                                                  *)

OpenShift(s, d, u) ==
    /\ Fresh(shift, {s})
    /\ \A other \in WithStatus(shift, {"OPEN"}) :
          shift[other].device # d /\ shift[other].cashier # u
    /\ shift' = [shift EXCEPT ![s] =
          [NoShift EXCEPT !.status = "OPEN", !.device = d, !.cashier = u]]
    /\ UNCHANGED <<order, floorVars, payment, refund, movement>>

(* Faulty variant: the receiver may own another open shift.                 *)
HandOverUnchecked(s, u) ==
    /\ shift[s].status = "OPEN" /\ shift[s].cashier # u
    /\ shift' = [shift EXCEPT ![s].cashier = u]
    /\ UNCHANGED <<order, floorVars, payment, refund, movement>>

HandOver(s, u) ==
    /\ shift[s].status = "OPEN" /\ shift[s].cashier # u
    /\ \A other \in WithStatus(shift, {"OPEN"}) : shift[other].cashier # u
    /\ shift' = [shift EXCEPT ![s].cashier = u]
    /\ UNCHANGED <<order, floorVars, payment, refund, movement>>

(* Faulty variant: refunds that wait for the provider do not count.         *)
CloseShiftEarly(s) ==
    /\ shift[s].status = "OPEN"
    /\ Awaiting(payment, s) = {} /\ Awaiting(movement, s) = {}
    /\ \A o \in WithStatus(order, Live) : order[o].shift # s
    /\ shift' = [shift EXCEPT ![s].status = "CLOSED", ![s].expected = ExpectedCash(s)]
    /\ UNCHANGED <<order, floorVars, payment, refund, movement>>

(* Faulty variant: held orders do not count.                                *)
CloseShiftOverHeld(s) ==
    /\ shift[s].status = "OPEN"
    /\ Awaiting(payment, s) = {} /\ Awaiting(refund, s) = {}
    /\ Awaiting(movement, s) = {}
    /\ \A o \in WithStatus(order, {"OPEN"}) : order[o].shift # s
    /\ shift' = [shift EXCEPT ![s].status = "CLOSED", ![s].expected = ExpectedCash(s)]
    /\ UNCHANGED <<order, floorVars, payment, refund, movement>>

(* The drawer is counted against what the shift's own payments, refunds and *)
(* movements make it hold.                                                  *)
CloseShift(s) ==
    /\ shift[s].status = "OPEN"
    /\ Awaiting(payment, s) = {} /\ Awaiting(refund, s) = {}
    /\ Awaiting(movement, s) = {}
    /\ \A o \in WithStatus(order, Live) : order[o].shift # s
    /\ shift' = [shift EXCEPT ![s].status = "CLOSED", ![s].expected = ExpectedCash(s)]
    /\ UNCHANGED <<order, floorVars, payment, refund, movement>>

-----------------------------------------------------------------------------
(* Payments.                                                                *)

(* Every allocation fits what is still to be paid of its order.             *)
Fits(allocation) == \A o \in Orders : allocation[o] > 0 => allocation[o] <= Outstanding(o)

Allocations(o) ==
    {a \in [Orders -> 0..MaxQuantity * Cardinality(Lines)] :
        /\ \A x \in Orders : a[x] > 0 => x \in Bill(o)
        /\ \E x \in Orders : a[x] > 0}

(* create: a payment anchored at o for parts of its bill, in the cashier's  *)
(* own shift, which need not be the order's.  Cash is confirmed at once.    *)
CreatePayment(p, o, s, u, method) ==
    /\ Fresh(payment, {p}) /\ order[o].status \in Live /\ OwnShift(s, u)
    /\ \E allocation \in Allocations(o) :
          /\ Fits(allocation)
          /\ payment' = [payment EXCEPT ![p] =
                [status |-> IF method = "CASH" THEN "CONFIRMED" ELSE "REQUIRES_VERIFICATION",
                 method |-> method, order |-> o, shift |-> s, by |-> u,
                 allocation |-> allocation]]
    /\ UNCHANGED <<shift, order, floorVars, refund, movement>>

(* verify: another member of staff confirms or fails a manual payment; what *)
(* has become of the order since is not looked at, but for its balance.     *)
VerifyPayment(p, u, status) ==
    /\ payment[p].status = "REQUIRES_VERIFICATION" /\ payment[p].by # u
    /\ status = "CONFIRMED" => Fits(payment[p].allocation)
    /\ payment' = [payment EXCEPT ![p].status = status]
    /\ UNCHANGED <<shift, order, floorVars, refund, movement>>

CancelPayment(p) ==
    /\ payment[p].status = "REQUIRES_VERIFICATION"
    /\ payment' = [payment EXCEPT ![p].status = "CANCELLED"]
    /\ UNCHANGED <<shift, order, floorVars, refund, movement>>

(* Faulty variant: only the payments anchored at the order itself are       *)
(* looked at for being unverified.                                          *)
CompleteOverPending(o) ==
    /\ order[o].status \in Live
    /\ BillGross(o) > 0 /\ BillConfirmed(o) = BillGross(o)
    /\ \A p \in WithStatus(payment, {"REQUIRES_VERIFICATION"}) : payment[p].order # o
    /\ \A x \in Bill(o) : UnsentDrafts(x) = {}
    /\ \A t \in WithStatus(ticket, InPreparation) : ticket[t].order \notin Bill(o)
    /\ order' = [order EXCEPT ![o].status = "COMPLETED"]
    /\ UNCHANGED <<shift, floorVars, payment, refund, movement>>

(* completeOrder: the whole bill is paid exactly, sent and prepared.  The   *)
(* orders merged into o stay MERGED.                                        *)
CompleteOrder(o) ==
    /\ order[o].status \in Live
    /\ BillGross(o) > 0 /\ BillConfirmed(o) = BillGross(o)
    /\ \A x \in Bill(o) :
          Allocated(x, {"REQUIRES_VERIFICATION"}) = {} /\ UnsentDrafts(x) = {}
    /\ \A t \in WithStatus(ticket, InPreparation) : ticket[t].order \notin Bill(o)
    /\ order' = [order EXCEPT ![o].status = "COMPLETED"]
    /\ UNCHANGED <<shift, floorVars, payment, refund, movement>>

-----------------------------------------------------------------------------
(* Refunds.                                                                 *)

(* Faulty variant: only refunds already paid out are subtracted.            *)
RequestRefundAgain(r, p, s, u, n) ==
    /\ Fresh(refund, {r}) /\ OwnShift(s, u)
    /\ payment[p].status = "CONFIRMED" /\ order[payment[p].order].status = "COMPLETED"
    /\ n <= Amount(p) - Refunded(p, {"CONFIRMED"})
    /\ refund' = [refund EXCEPT ![r] =
          [status |-> "AWAITING_APPROVAL", payment |-> p, shift |-> s, by |-> u,
           approver |-> None, amount |-> n]]
    /\ UNCHANGED <<shift, order, floorVars, payment, movement>>

(* Only a payment anchored at a completed order can be refunded, in any     *)
(* later shift.                                                             *)
RequestRefund(r, p, s, u, n) ==
    /\ Fresh(refund, {r}) /\ OwnShift(s, u)
    /\ payment[p].status = "CONFIRMED" /\ order[payment[p].order].status = "COMPLETED"
    /\ n <= Amount(p) - Refunded(p, Reserving)
    /\ refund' = [refund EXCEPT ![r] =
          [status |-> "AWAITING_APPROVAL", payment |-> p, shift |-> s, by |-> u,
           approver |-> None, amount |-> n]]
    /\ UNCHANGED <<shift, order, floorVars, payment, movement>>

(* Cash is handed out on approval; anything else waits for the provider.    *)
ApproveRefund(r, u, approved) ==
    LET status == IF ~approved THEN "REJECTED"
                  ELSE IF payment[refund[r].payment].method = "CASH" THEN "CONFIRMED"
                  ELSE "PENDING_PROVIDER"
    IN  /\ refund[r].status = "AWAITING_APPROVAL" /\ refund[r].by # u
        /\ refund' = [refund EXCEPT ![r].status = status, ![r].approver = u]
        /\ UNCHANGED <<shift, order, floorVars, payment, movement>>

(* A third person records the provider's answer.                            *)
ResolveRefund(r, u, outcome) ==
    /\ refund[r].status = "PENDING_PROVIDER" /\ u \notin {refund[r].by, refund[r].approver}
    /\ refund' = [refund EXCEPT ![r].status = outcome]
    /\ UNCHANGED <<shift, order, floorVars, payment, movement>>

-----------------------------------------------------------------------------
(* Drawer movements.                                                        *)

RequestMovement(m, s, u, direction, n) ==
    /\ Fresh(movement, {m}) /\ OwnShift(s, u)
    /\ movement' = [movement EXCEPT ![m] =
          [status |-> "AWAITING_APPROVAL", shift |-> s, by |-> u,
           direction |-> direction, amount |-> n]]
    /\ UNCHANGED <<shift, order, floorVars, payment, refund>>

ApproveMovement(m, u, status) ==
    /\ movement[m].status = "AWAITING_APPROVAL" /\ movement[m].by # u
    /\ shift[movement[m].shift].status = "OPEN"
    /\ movement' = [movement EXCEPT ![m].status = status]
    /\ UNCHANGED <<shift, order, floorVars, payment, refund>>

-----------------------------------------------------------------------------
ShiftDesk(s) ==
    \/ \E u \in Users : HandOver(s, u) \/ \E d \in Devices : OpenShift(s, d, u)
    \/ CloseShift(s)

Paying(p) ==
    \/ \E o \in WithStatus(order, Live), s \in Shifts, u \in Users, method \in {"CASH", "MANUAL"} :
          CreatePayment(p, o, s, u, method)
    \/ \E u \in Users, status \in {"CONFIRMED", "FAILED"} : VerifyPayment(p, u, status)
    \/ CancelPayment(p)

Refunding(r) ==
    \/ \E p \in WithStatus(payment, {"CONFIRMED"}), s \in Shifts, u \in Users :
          \E n \in 1..Amount(p) : RequestRefund(r, p, s, u, n)
    \/ \E u \in Users, approved \in BOOLEAN : ApproveRefund(r, u, approved)
    \/ \E u \in Users, outcome \in {"CONFIRMED", "FAILED"} : ResolveRefund(r, u, outcome)

Drawer(m) ==
    \/ \E s \in Shifts, u \in Users, direction \in {"IN", "OUT"}, n \in 1..MaxMovement :
          RequestMovement(m, s, u, direction, n)
    \/ \E u \in Users, status \in {"POSTED", "REJECTED"} : ApproveMovement(m, u, status)

=============================================================================
