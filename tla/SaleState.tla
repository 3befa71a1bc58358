----------------------------- MODULE SaleState -----------------------------
(***************************************************************************)
(* The state of one branch's sales: shifts, orders and their lines, kitchen *)
(* tickets, payments, refunds and drawer movements, as rows of the database. *)
(*                                                                          *)
(* Every handler of the services that write these rows is one serializable, *)
(* idempotent transaction, so it is one action; a request that is refused,   *)
(* or that carries a stale revision, changes nothing.                       *)
(*                                                                          *)
(* Abstracted: one unit costs one, so an amount is a number of units; tax,  *)
(* discounts, the opening float, tables, stations and reasons.  Permissions *)
(* decide who may call a handler and are left to the caller; who may not    *)
(* call it although permitted (the maker of a request) is kept.             *)
(***************************************************************************)
EXTENDS Integers, FiniteSets, Functions

CONSTANTS
    Users,          \* staff members
    Devices,        \* tills
    Shifts,         \* identifiers of shifts, orders, ...: numbers,
    Orders,         \* taken lowest first
    Lines,
    Tickets,
    Payments,
    Refunds,
    Movements,
    MaxQuantity,    \* bound: the quantity of a line
    MaxMovement,    \* bound: the amount of a drawer movement
    None            \* no user, device, shift, order, ...

Identifiers ==
    Shifts \cup Orders \cup Lines \cup Tickets \cup Payments \cup Refunds \cup Movements

ASSUME SaleAssumption ==
    /\ Identifiers \subseteq Nat /\ IsFiniteSet(Identifiers)
    /\ MaxQuantity \in Nat \ {0} /\ MaxMovement \in Nat
    /\ None \notin Identifiers \cup Users \cup Devices

VARIABLES shift, order, line, ticket, payment, refund, movement

vars == <<shift, order, line, ticket, payment, refund, movement>>

-----------------------------------------------------------------------------
(* The rows.  Status NONE: the row has not been inserted.                   *)

Live == {"OPEN", "HELD"}                             \* orders
InPreparation == {"QUEUED", "PREPARING", "READY"}    \* tickets
Reserving == {"AWAITING_APPROVAL", "PENDING_PROVIDER", "CONFIRMED"}

StaffShift ==
    [status: {"NONE", "OPEN", "CLOSED"}, device: Devices \cup {None},
     cashier: Users \cup {None}, expected: Int]

Order ==
    [status: {"NONE", "CANCELLED", "MERGED", "COMPLETED"} \cup Live,
     shift: Shifts \cup {None}, gross: Nat, into: Orders \cup {None}]

OrderLine ==
    [status: {"NONE", "DRAFT", "REPLACED", "REMOVED", "CANCELLED"},
     order: Orders \cup {None}, quantity: Nat, sent: BOOLEAN]

PreparationTicket ==
    [status: {"NONE", "COMPLETED", "CANCELLED"} \cup InPreparation,
     order: Orders \cup {None}, lines: SUBSET Lines]

Payment ==
    [status: {"NONE", "REQUIRES_VERIFICATION", "CONFIRMED", "FAILED", "CANCELLED"},
     method: {"CASH", "MANUAL"}, order: Orders \cup {None},
     shift: Shifts \cup {None}, by: Users \cup {None},
     allocation: [Orders -> Nat]]

Refund ==
    [status: {"NONE", "REJECTED", "FAILED"} \cup Reserving,
     payment: Payments \cup {None}, shift: Shifts \cup {None},
     by: Users \cup {None}, approver: Users \cup {None}, amount: Nat]

CashMovement ==
    [status: {"NONE", "AWAITING_APPROVAL", "POSTED", "REJECTED"},
     shift: Shifts \cup {None}, by: Users \cup {None},
     direction: {"IN", "OUT"}, amount: Nat]

(* Every row has the shape its table gives it.                              *)
TypeOK ==
    /\ shift \in [Shifts -> StaffShift]
    /\ order \in [Orders -> Order]
    /\ line \in [Lines -> OrderLine]
    /\ ticket \in [Tickets -> PreparationTicket]
    /\ payment \in [Payments -> Payment]
    /\ refund \in [Refunds -> Refund]
    /\ movement \in [Movements -> CashMovement]

NoShift == [status |-> "NONE", device |-> None, cashier |-> None, expected |-> 0]
NoOrder == [status |-> "NONE", shift |-> None, gross |-> 0, into |-> None]
NoLine == [status |-> "NONE", order |-> None, quantity |-> 0, sent |-> FALSE]
NoTicket == [status |-> "NONE", order |-> None, lines |-> {}]
NoPayment ==
    [status |-> "NONE", method |-> "CASH", order |-> None, shift |-> None,
     by |-> None, allocation |-> [o \in Orders |-> 0]]
NoRefund ==
    [status |-> "NONE", payment |-> None, shift |-> None, by |-> None,
     approver |-> None, amount |-> 0]
NoMovement ==
    [status |-> "NONE", shift |-> None, by |-> None, direction |-> "IN", amount |-> 0]

Init ==
    /\ shift = [s \in Shifts |-> NoShift]
    /\ order = [o \in Orders |-> NoOrder]
    /\ line = [l \in Lines |-> NoLine]
    /\ ticket = [t \in Tickets |-> NoTicket]
    /\ payment = [p \in Payments |-> NoPayment]
    /\ refund = [r \in Refunds |-> NoRefund]
    /\ movement = [m \in Movements |-> NoMovement]

-----------------------------------------------------------------------------
(* Identifiers and sums.                                                    *)

Unused(rows) == {x \in DOMAIN rows : rows[x].status = "NONE"}

(* ids are new, and the lowest of the new ones.                             *)
Fresh(rows, ids) ==
    /\ ids \subseteq Unused(rows)
    /\ \A x \in ids, y \in Unused(rows) \ ids : x < y

(* An order and the orders merged into it: what its guests pay together.    *)
Bill(o) == {o} \cup {s \in Orders : order[s].into = o}

Composed(o) == Bill(o) # {o}

Drafts(o) == {l \in Lines : line[l].order = o /\ line[l].status = "DRAFT"}
UnsentDrafts(o) == {l \in Drafts(o) : ~line[l].sent}

(* What the lines of o come to: calculateOrder with unit prices of one.     *)
DraftTotal(o) == SumFunction([l \in Drafts(o) |-> line[l].quantity])

WithStatus(rows, statuses) == {x \in DOMAIN rows : rows[x].status \in statuses}

(* The payments with one of the statuses that have an allocation to o.      *)
Allocated(o, statuses) ==
    {p \in WithStatus(payment, statuses) : payment[p].allocation[o] > 0}

(* What confirmed payments have allocated to o.                             *)
Confirmed(o) ==
    SumFunction([p \in Allocated(o, {"CONFIRMED"}) |-> payment[p].allocation[o]])

Outstanding(o) == IF order[o].gross > Confirmed(o) THEN order[o].gross - Confirmed(o) ELSE 0

BillGross(o) == SumFunction([x \in Bill(o) |-> order[x].gross])
BillConfirmed(o) == SumFunction([x \in Bill(o) |-> Confirmed(x)])

Amount(p) == SumFunction(payment[p].allocation)

(* What the refunds of p with one of the statuses come to.                  *)
Refunded(p, statuses) ==
    SumFunction([r \in {r \in WithStatus(refund, statuses) : refund[r].payment = p} |->
                    refund[r].amount])

CashPayments(s) ==
    {p \in WithStatus(payment, {"CONFIRMED"}) :
        payment[p].shift = s /\ payment[p].method = "CASH"}

CashRefunds(s) ==
    {r \in WithStatus(refund, {"CONFIRMED"}) :
        refund[r].shift = s /\ payment[refund[r].payment].method = "CASH"}

PostedMovements(s, direction) ==
    {m \in WithStatus(movement, {"POSTED"}) :
        movement[m].shift = s /\ movement[m].direction = direction}

Posted(s, direction) ==
    SumFunction([m \in PostedMovements(s, direction) |-> movement[m].amount])

(* What the drawer of shift s should hold over its opening float.           *)
ExpectedCash(s) ==
    SumFunction([p \in CashPayments(s) |-> Amount(p)])
    - SumFunction([r \in CashRefunds(s) |-> refund[r].amount])
    + Posted(s, "IN") - Posted(s, "OUT")

=============================================================================
