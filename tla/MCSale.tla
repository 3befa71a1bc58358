------------------------------- MODULE MCSale -------------------------------
(* Small instances of Sale for TLC.                                         *)
EXTENDS Reports, TLC

(* Bound of sale_floor: three units, as three lines or as two lines of which *)
(* one has two, as long as nobody has paid; then two lines of one unit each, *)
(* one payment at most that is not in cash, and the shift is not handed over. *)
BillBound ==
    LET standing == {l \in Lines : line[l].status # "NONE"}
    IN \/ /\ \A p \in Payments : payment[p].status = "NONE"
          /\ \A l \in standing : line[l].quantity = 2 => Cardinality(standing) <= 2
          /\ Cardinality({l \in standing : line[l].quantity = 2}) <= 1
       \/ /\ \A l \in standing : l <= 2 /\ line[l].quantity = 1
          /\ \A p \in Payments, s \in Shifts :
                payment[p].status # "NONE" => payment[p].by = shift[s].cashier
          /\ \E p \in Payments : payment[p].method = "CASH"

(* Bound of sale_money: two refunds race within one shift, or two shifts on  *)
(* two tills see one unit sold, with a refund or a drawer movement, or the   *)
(* order of the payment is merged into another.  A movement waits or is      *)
(* rejected before the order is sent, or where there is one shift.           *)
MoneyBound ==
    LET none(rows, r) == rows[r].status = "NONE"
    IN \/ none(shift, 2) /\ none(movement, 1) /\ none(order, 2)
       \/ /\ \A l \in Lines : line[l].quantity <= 1
          /\ none(refund, 2)
          /\ none(refund, 1) \/ none(movement, 1)
          /\ none(order, 2) \/ (none(shift, 2) /\ none(movement, 1))
          /\ \/ none(ticket, 1) \/ none(movement, 1) \/ none(shift, 2)
             \/ movement[1].status = "POSTED"

Symmetry == Permutations(Users) \cup Permutations(Devices)

=============================================================================
