----------------------------- MODULE Settlement -----------------------------
(***************************************************************************)
(* What the sale promises a guest and the accountant: a bill is settled at  *)
(* most once, for an amount that never changes afterwards, and what is paid *)
(* back on a settled bill never exceeds it.                                 *)
(***************************************************************************)
EXTENDS Naturals

CONSTANT Bills

VARIABLES
    settled,    \* the amount a bill was settled for, 0 until it is
    returned    \* what has been paid back on it

settlementVars == <<settled, returned>>

Init ==
    /\ settled = [b \in Bills |-> 0]
    /\ returned = [b \in Bills |-> 0]

Settle(b, n) ==
    /\ settled[b] = 0 /\ n > 0
    /\ settled' = [settled EXCEPT ![b] = n]
    /\ UNCHANGED returned

Return(b, n) ==
    /\ n > 0 /\ returned[b] + n <= settled[b]
    /\ returned' = [returned EXCEPT ![b] = @ + n]
    /\ UNCHANGED settled

Next ==
    \E b \in Bills :
        \/ \E n \in {settled'[b]} : Settle(b, n)
        \/ \E n \in {returned'[b] - returned[b]} : Return(b, n)

SettlementSpec == Init /\ [][Next]_settlementVars

=============================================================================
