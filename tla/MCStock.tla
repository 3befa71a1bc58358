------------------------------ MODULE MCStock ------------------------------
(* A small instance of StockRoom for TLC: two shelves, two items.  Line 1   *)
(* is plain, on tickets 1 and 2; line 2 carries the modifier, on ticket 1.  *)
EXTENDS StockRoom

MCLines == {1, 2}
MCQuantity == [l \in MCLines |-> 3 - l]
MCTickets == [t \in {11, 12} |-> IF t = 11 THEN {1, 2} ELSE {1}]
MCPolicies ==
    [p \in {21, 22} |-> IF p = 21 THEN [from |-> 0, trigger |-> "SENT"]
                        ELSE [from |-> 1, trigger |-> "PREPARED"]]
Recipe(number, from, beans, yield) ==
    [version |-> number, from |-> from, yield |-> yield,
     takes |-> [i \in Items |-> IF i = "beans" THEN beans ELSE 0]]
MCRecipes == {Recipe(1, 0, 2, 2), Recipe(2, 1, 2, 1)}
MCRoutes ==
    {[version |-> 1, from |-> 0, item |-> "beans", location |-> "bar", anyStation |-> TRUE],
     [version |-> 2, from |-> 0, item |-> "syrup", location |-> "bar", anyStation |-> TRUE],
     [version |-> 3, from |-> 1, item |-> "beans", location |-> "store", anyStation |-> FALSE]}
MCEffects ==
    {[version |-> 1, from |-> 0,
      adds |-> [i \in Items |-> IF i = "syrup" THEN 1 ELSE -1]],
     [version |-> 2, from |-> 1,
      adds |-> [i \in Items |-> IF i = "syrup" THEN 1 ELSE 0]]}
MCVersionsFirst ==
    [v \in MCRecipes \cup MCRoutes \cup MCEffects |->
        IF v.version = 1 \/ (v \in MCRoutes /\ v.version = 2) THEN "ACTIVE" ELSE "NONE"]
MCPoliciesFirst ==
    {[p \in {21, 22} |-> IF p = 21 THEN "CONFIRMED" ELSE "NONE"],
     [p \in {21, 22} |-> IF p = 21 THEN "ACTIVE" ELSE "DRAFT"]}
Budget(manual, purchases, batches, byHand, changes, events) ==
    [manual |-> manual, purchases |-> purchases, batches |-> batches,
     byHand |-> byHand, changes |-> changes, events |-> events]
MCBudgets ==
    {Budget(0, 0, 0, 1, 2, 5), Budget(0, 3, 0, 0, 0, 0), Budget(1, 2, 0, 0, 0, 1),
     Budget(1, 0, 2, 0, 0, 1), Budget(3, 0, 0, 0, 0, 1)}
MCOpening == [p \in Places |-> CASE p = <<"bar", "beans">> -> 2 [] p[1] = "bar" -> 1 [] OTHER -> 0]
MCInputs == [i \in {"beans"} |-> 2]
MCOrderLines ==
    [l \in {31, 32} |->
        IF l = 31 THEN [item |-> "beans", ordered |-> 1, numerator |-> 2, denominator |-> 1]
        ELSE [item |-> "beans", ordered |-> 2, numerator |-> 1, denominator |-> 1]]

=============================================================================
