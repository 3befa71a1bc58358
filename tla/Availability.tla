---------------------------- MODULE Availability ----------------------------
(***************************************************************************)
(* What the server answers when it is asked whether a dish can be sold     *)
(* (inventory-availability): the catalogue's switches, the withdrawals     *)
(* that people record by hand and the rules on critical ingredients, which *)
(* compare a recipe with the balances of the stock ledger.  One item with  *)
(* one variant and one modifier stands for the menu.                       *)
(***************************************************************************)
EXTENDS Integers, FiniteSets, Sequences, FiniteSetsExt

CONSTANTS
    Ingredients, Shelves,   \* inventory items, stock locations
    Portion,                \* micros in one portion (1 000 000 in the code)
    RecipeBook,             \* versions of the recipe: [id, from, yields, takes]
    Proposals,              \* rules an administrator may draw up:
                            \*   [recipe, from, safety, shelves]
    Ledgers,                \* balances of the stock ledger: [Shelves \X Ingredients -> Int]
    LastInstant, MostOrdered, MostRecords   \* bounds

ASSUME AvailabilityAssumption ==
    /\ Portion \in Nat \ {0} /\ IsFiniteSet(Proposals)
    /\ \A r \in RecipeBook :
          /\ r.from \in Nat /\ r.yields \in Nat \ {0}
          /\ \A i \in DOMAIN r.takes : r.takes[i] \in Nat \ {0}
    /\ \A p \in Proposals :
          /\ p.from \in Nat /\ p.recipe \in RecipeBook
          /\ DOMAIN p.safety # {} /\ DOMAIN p.shelves = DOMAIN p.safety
          /\ DOMAIN p.safety \subseteq Ingredients /\ IsFiniteSet(DOMAIN p.safety)
          /\ \A i \in DOMAIN p.shelves :
                /\ p.safety[i] \in Nat
                /\ p.shelves[i] \subseteq Shelves /\ p.shelves[i] # {} /\ IsFiniteSet(p.shelves[i])
    /\ \A balance \in Ledgers : \A x \in Shelves \X Ingredients : balance[x] \in Int

VARIABLES
    rules,      \* of each proposal: its status and its version, 0 before
    records,    \* what was recorded by hand for each target, oldest first
    onMenu,     \* the item and the variant are active and available
    cookable    \* the recipe versions that are ACTIVE
availabilityVars == <<rules, records, onMenu, cookable>>

Instants == 0..LastInstant
Sellables  == {"ITEM", "VARIANT", "MODIFIER"}
Unlimited  == LastInstant + 2     \* a withdrawal without expiresAt
Records  ==
    {e \in [state: {"UNAVAILABLE", "RESTORED"}, from: Instants, expires: 1..Unlimited] :
        IF e.state = "RESTORED" THEN e.expires = Unlimited ELSE e.expires > e.from}

AvailabilityTypeOK ==
    /\ rules \in [Proposals -> [status: {"NONE", "DRAFT", "CONFIRMED", "ACTIVE", "CANCELLED"},
                                version: 0..Cardinality(Proposals)]]
    /\ records \in [Sellables -> Seq(Records)]
    /\ onMenu \in BOOLEAN
    /\ cookable \subseteq RecipeBook

NoRules == [p \in Proposals |-> [status |-> "NONE", version |-> 0]]

AvailabilityInit ==
    /\ rules = NoRules
    /\ records = [t \in Sellables |-> <<>>]
    /\ onMenu = TRUE
    /\ cookable = {}

----------------------------------------------------------------------------
(* Rules.  Every change of a row raises its revision, so a status names the *)
(* revision that the command must carry.                                    *)

ActivateRecipe(r) ==            \* inventory-policies: nothing retires a version
    /\ cookable' = cookable \union {r}
    /\ UNCHANGED <<rules, records, onMenu>>

SetStatus(p, status) ==
    /\ rules' = [rules EXCEPT ![p].status = status]
    /\ UNCHANGED <<records, onMenu, cookable>>

CreateRule(p) ==
    /\ rules[p].status = "NONE"
    /\ p.recipe \in cookable /\ p.recipe.from <= p.from
    /\ DOMAIN p.safety \subseteq DOMAIN p.recipe.takes
    /\ rules' = [rules EXCEPT ![p] =
                    [status |-> "DRAFT",
                     version |-> 1 + Max({rules[o].version : o \in Proposals})]]
    /\ UNCHANGED <<records, onMenu, cookable>>

ConfirmRule(p) == rules[p].status = "DRAFT" /\ SetStatus(p, "CONFIRMED")

\* One rule is ACTIVE for each moment of taking effect (a unique index).
ActivateRule(p) ==
    /\ rules[p].status = "CONFIRMED"
    /\ \A o \in Proposals : rules[o].status = "ACTIVE" => o.from # p.from
    /\ SetStatus(p, "ACTIVE")

CancelRule(p) ==
    /\ rules[p].status \in {"DRAFT", "CONFIRMED"}
    /\ SetStatus(p, "CANCELLED")

----------------------------------------------------------------------------
(* Withdrawals by hand and the catalogue's switches.                        *)

RecordManual(t, e, expected) ==
    /\ expected = Len(records[t])
    /\ expected < MostRecords
    /\ records' = [records EXCEPT ![t] = Append(@, e)]
    /\ UNCHANGED <<rules, onMenu, cookable>>

SwitchOnMenu ==
    /\ onMenu' = ~onMenu
    /\ UNCHANGED <<rules, records, cookable>>

AvailabilityNext ==
    \/ \E r \in RecipeBook : r \notin cookable /\ ActivateRecipe(r)
    \/ \E p \in Proposals :
          CreateRule(p) \/ ConfirmRule(p) \/ ActivateRule(p) \/ CancelRule(p)
    \/ \E t \in Sellables, e \in Records, expected \in 0..MostRecords :
          RecordManual(t, e, expected)
    \/ SwitchOnMenu

----------------------------------------------------------------------------
(* The answer, for a quantity, a moment and the balances of the ledger.     *)

\* Of the records that have begun, the last one counts, even if it has ended.
LatestManual(t, at) ==
    LET begun == {n \in DOMAIN records[t] : records[t][n].from <= at} IN
    IF begun = {} THEN [state |-> "RESTORED", from |-> 0, expires |-> Unlimited]
                  ELSE records[t][Max(begun)]

Withdrawn(t, at) ==
    LET e == LatestManual(t, at) IN e.state = "UNAVAILABLE" /\ e.expires > at

RulesInEffect(at) ==      \* the rules in effect that the query ranks
    {p \in Proposals : rules[p].status = "ACTIVE" /\ p.from <= at}

RuleAt(at) ==       \* the latest moment first, then the highest version
    CHOOSE p \in RulesInEffect(at) : \A o \in RulesInEffect(at) :
        p.from > o.from \/ (p.from = o.from /\ rules[p].version >= rules[o].version)

Usable(p, i, balance) ==
    SumFunction([s \in p.shelves[i] |-> balance[<<s, i>>]]) - p.safety[i]

Needed(p, i, q) == p.recipe.takes[i] * q * Portion      \* over the yield

Fractional(p, q) ==
    \E i \in DOMAIN p.safety : Needed(p, i, q) % p.recipe.yields # 0

\* Mutant: the safety stock is offered as well.
CapacityOfBalance(p, i, balance) ==
    LET usable == Usable(p, i, balance) + p.safety[i] IN
    IF usable <= 0 THEN 0
    ELSE (usable * p.recipe.yields) \div (p.recipe.takes[i] * Portion)

CapacityOf(p, i, balance) ==
    LET usable == Usable(p, i, balance) IN
    IF usable <= 0 THEN 0
    ELSE (usable * p.recipe.yields) \div (p.recipe.takes[i] * Portion)

CapacityLeft(p, balance) ==     \* maxSellableQuantity
    Min({CapacityOf(p, i, balance) : i \in DOMAIN p.safety})

Sufficient(p, q, balance) ==
    \A i \in DOMAIN p.safety :
        Usable(p, i, balance) >= Needed(p, i, q) \div p.recipe.yields

\* The code also asks that each item is active; no endpoint makes one inactive.
RuleIsValid(p, at) ==
    /\ p.recipe \in cookable /\ p.recipe.from <= at
    /\ \A i \in DOMAIN p.safety : i \in DOMAIN p.recipe.takes /\ p.shelves[i] # {}

Verdict(q, at, balance, modifiers) ==    \* modifiers: those of the line
    IF ~onMenu \/ Withdrawn("ITEM", at) \/ Withdrawn("VARIANT", at) THEN "UNAVAILABLE"
    ELSE LET fromStock ==
                 IF RulesInEffect(at) = {} THEN "NOT_CONFIGURED"
                 ELSE LET p == RuleAt(at) IN
                      IF ~RuleIsValid(p, at) THEN "RULE_INVALID"
                      ELSE IF Fractional(p, q) THEN "FRACTIONAL_MICRO"
                      ELSE IF Sufficient(p, q, balance) THEN "AVAILABLE"
                      ELSE "STOCK_INSUFFICIENT"
         IN  IF fromStock \in {"NOT_CONFIGURED", "AVAILABLE"}
                                 /\ \E m \in modifiers : Withdrawn(m, at)
             THEN "UNAVAILABLE" ELSE fromStock

----------------------------------------------------------------------------
(* Property.                                                                *)

\* The ledger after what q portions need was taken from one shelf of the rule.
LedgerAfter(p, q, balance) ==
    [x \in Shelves \X Ingredients |->
        IF x[2] \in DOMAIN p.safety /\ x[1] = CHOOSE s \in p.shelves[x[2]] : TRUE
        THEN balance[x] - Needed(p, x[2], q) \div p.recipe.yields ELSE balance[x]]

(* The number that a preview offers is the number that can be sold: an      *)
(* order is accepted exactly up to maxSellableQuantity, whatever it takes   *)
(* leaves each ingredient its safety stock, and the number offered next is  *)
(* lower by exactly what was ordered, for a recipe that divides evenly or   *)
(* not.  And no rule that is in effect turns out invalid, so nothing on     *)
(* sale is refused for its configuration (inventory-availability.service.ts,*)
(* resolve, with the triggers that pin a rule to its recipe).               *)
QuotesAddUp ==
    rules # NoRules =>
    \A at \in {t \in Instants : RulesInEffect(t) # {}}, q \in 1..MostOrdered,
       balance \in Ledgers, modifiers \in {{}, {"MODIFIER"}} :
        LET answer == Verdict(q, at, balance, modifiers) IN
        /\ answer # "RULE_INVALID"
        /\ answer \in {"AVAILABLE", "STOCK_INSUFFICIENT"} =>
              LET p == RuleAt(at)
                  offered == CapacityLeft(p, balance)
              IN  /\ (answer = "AVAILABLE") <=> q <= offered
                  /\ answer = "AVAILABLE" =>
                        LET later == LedgerAfter(p, q, balance) IN
                            /\ \A i \in DOMAIN p.safety : Usable(p, i, later) >= 0
                            /\ CapacityLeft(p, later) = offered - q

=============================================================================
