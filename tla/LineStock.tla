----------------------------- MODULE LineStock -----------------------------
(***************************************************************************)
(* What the stock promises about a sold line: its goods leave the stock at  *)
(* most once, for quantities that do not change afterwards, and come back   *)
(* at most once, all of them; after that the line never touches the stock   *)
(* again.                                                                   *)
(***************************************************************************)
EXTENDS Integers

CONSTANTS Lines, Places

VARIABLES
    stage,      \* line -> NONE, POSTED or REVERSED
    taken       \* line -> place -> what it has taken from there, net

None == [p \in Places |-> 0]

Init ==
    /\ stage = [l \in Lines |-> "NONE"]
    /\ taken = [l \in Lines |-> None]

PutBack(l) ==
    /\ stage[l] = "POSTED"
    /\ stage' = [stage EXCEPT ![l] = "REVERSED"]
    /\ taken' = [taken EXCEPT ![l] = None]

(* Several lines may be taken by one event.                                 *)
TakeAll ==
    LET ls == {l \in Lines : stage'[l] # stage[l]}
    IN /\ \A l \in ls :
             /\ stage[l] = "NONE" /\ stage'[l] = "POSTED"
             /\ \A p \in Places : taken'[l][p] >= 0
             /\ \E p \in Places : taken'[l][p] > 0
       /\ \A l \in Lines \ ls : taken'[l] = taken[l]

Next == TakeAll \/ \E l \in Lines : PutBack(l)

LineStockSpec == Init /\ [][Next]_<<stage, taken>>

=============================================================================
