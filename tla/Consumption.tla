---------------------------- MODULE Consumption ----------------------------
(***************************************************************************)
(* What a sale takes out of the stock.  A deduction policy names the event  *)
(* of a line (sent, prepared, completed, served) at which its recipe is     *)
(* taken from the ledger; sending, the kitchen and the till call the        *)
(* consumption service inside their own transaction, the back office may    *)
(* post and reverse by hand.                                                *)
(*                                                                          *)
(* Policies, recipes, routes and modifier effects are versions with a       *)
(* moment from which they count; a draft is a version not yet activated.    *)
(* One station, one branch, one order (with what was merged into it).       *)
(***************************************************************************)
EXTENDS StockLedger

CONSTANTS
    Lines,          \* order lines
    Quantity,       \* line -> its quantity
    WithModifier,   \* the lines that carry the modifier
    TicketLines,    \* preparation ticket -> the lines it has an entry of
    Policies,       \* policy version -> [from, trigger]
    RecipeVersions,         \* [version, from, takes: item -> Nat, yield]
    RouteVersions,          \* [version, from, item, location, anyStation]
    EffectVersions,         \* [version, from, adds: item -> Int]
    PoliciesFirst,  \* the statuses the policies may have at first
    VersionsFirst,  \* and those of the other versions
    MaxTime         \* bound: the clock

Tickets == DOMAIN TicketLines
Never == -1
Versions == RecipeVersions \cup RouteVersions \cup EffectVersions

PolicyStatuses == {"NONE", "DRAFT", "CONFIRMED", "ACTIVE"}
VersionStatuses == {"NONE", "DRAFT", "ACTIVE"}

ASSUME ConsumptionAssumption ==
    /\ Lines \subseteq Documents /\ Quantity \in [Lines -> Nat \ {0}]
    /\ \A t \in DOMAIN TicketLines : TicketLines[t] \subseteq Lines
    /\ IsFiniteSet(Versions) /\ \A v \in Versions : v.from \in Nat /\ v.version \in Nat
    /\ \A v \in RecipeVersions : v.takes \in [Items -> Nat] /\ v.yield \in Nat \ {0}
    /\ \A v \in RouteVersions : v.location \in Locations
    /\ \A v \in EffectVersions : v.adds \in [Items -> Int]
    /\ PoliciesFirst \subseteq [DOMAIN Policies -> PolicyStatuses]
    /\ VersionsFirst \in [Versions -> VersionStatuses]
    /\ MaxTime \in Nat

VARIABLES
    clock,
    policy,         \* policy version -> its status
    version,        \* recipe, route or effect version -> its status
    sentAt,         \* line -> when, or Never
    cancelled,      \* the sent lines cancelled since
    readyAt,        \* ticket -> when it became READY, or Never
    completedAt,    \* when the order was completed, or Never
    consumption     \* line -> status and the entries it was posted with

lineVars == <<sentAt, cancelled, readyAt, completedAt>>
configVars == <<clock, policy, version>>
saleVars == <<lineVars, configVars, consumption>>

-----------------------------------------------------------------------------
(* Which version counts at a moment.                                        *)

Active(S) == {v \in S : version[v] = "ACTIVE"}

InForce(S, at) == {v \in Active(S) : v.from <= at}

Newest(S) ==
    CHOOSE v \in S : \A w \in S :
        w.from < v.from \/ (w.from = v.from /\ w.version <= v.version)

ActivePolicies(at) ==
    {p \in DOMAIN Policies : policy[p] = "ACTIVE" /\ Policies[p].from <= at}

(* The trigger configured at a moment; no two ACTIVE policies start at once.*)
Trigger(at) ==
    IF ActivePolicies(at) = {} THEN "NONE"
    ELSE Policies[CHOOSE p \in ActivePolicies(at) :
            \A q \in ActivePolicies(at) : Policies[q].from <= Policies[p].from].trigger

Recipes(at) == InForce(RecipeVersions, at)
Effects(at) == InForce(EffectVersions, at)
Routes(item, at) == {r \in InForce(RouteVersions, at) : r.item = item}

(* A route of the line's own station comes before one for any station,      *)
(* however new the latter is.                                               *)
Route(item, at) ==
    LET own == {r \in Routes(item, at) : ~r.anyStation}
    IN Newest(IF own # {} THEN own ELSE Routes(item, at))

(* resolve, resolveWithModifiers: the quantity of each item a line takes.   *)
Takes(l, at) ==
    [i \in Items |->
        LET recipe == Newest(Recipes(at))
        IN (recipe.takes[i] * Quantity[l]) \div recipe.yield
           + (IF l \in WithModifier
              THEN Newest(Effects(at)).adds[i] * Quantity[l] ELSE 0)]

(* Faulty variant: a cancelled line resolves like any other.                *)
ResolvableForEver(l, at) ==
    /\ Recipes(at) # {}
    /\ l \in WithModifier => Effects(at) # {}
    /\ \A i \in Items :
          /\ (Newest(Recipes(at)).takes[i] * Quantity[l]) % Newest(Recipes(at)).yield = 0
          /\ Takes(l, at)[i] >= 0
          /\ Takes(l, at)[i] > 0 => Routes(i, at) # {}
    /\ \E i \in Items : Takes(l, at)[i] > 0

(* ... which exists only if the configuration covers the line and every     *)
(* quantity is exact, none negative and not all zero.                       *)
Resolvable(l, at) ==
    /\ l \notin cancelled
    /\ Recipes(at) # {}
    /\ \A i \in Items :
          (Newest(Recipes(at)).takes[i] * Quantity[l]) % Newest(Recipes(at)).yield = 0
    /\ l \in WithModifier => Effects(at) # {}
    /\ \A i \in Items : Takes(l, at)[i] >= 0
    /\ \E i \in Items : Takes(l, at)[i] > 0
    /\ \A i \in Items : Takes(l, at)[i] > 0 => Routes(i, at) # {}

(* The stored consumption entries: a place and a quantity each.             *)
Drawn(l, at) ==
    [p \in Places |->
        IF Takes(l, at)[p[2]] > 0 /\ Route(p[2], at).location = p[1]
        THEN Takes(l, at)[p[2]] ELSE 0]

-----------------------------------------------------------------------------
(* Posting: a consumption per line, at most one for ever.                   *)

NoConsumption == [status |-> "NONE", drawn |-> Empty]

(* The lines are taken one after the other, each against what the ones      *)
(* before it left: all of them go through, or none.                         *)
DrawAll(ls, at, override) ==
    LET total == [p \in Places |-> SumFunction([l \in ls |-> Drawn(l, at)[p]])]
        touched == {p \in Places : total[p] > 0}
    IN /\ \A l \in ls : Resolvable(l, at)
       /\ override <=> \E p \in touched : Balance(p) < total[p]
       /\ ledger' = [d \in DOMAIN ledger |->
            IF d \in ls THEN [p \in Places |-> ledger[d][p] - Drawn(d, at)[p]]
            ELSE ledger[d]]
       /\ authorised' = [p \in Places |->
            /\ Balance(p) - total[p] < 0
            /\ authorised[p] \/ (override /\ p \in touched)]
       /\ consumption' = [l \in Lines |->
            IF l \in ls THEN [status |-> "POSTED", drawn |-> Drawn(l, at)]
            ELSE consumption[l]]

(* Faulty variant: a consumption that was reversed is posted anew.          *)
PostAutomaticallyAnew(ls, trigger, at) ==
    IF Trigger(at) = trigger
    THEN DrawAll({l \in ls : consumption[l].status # "POSTED"}, at, FALSE)
    ELSE UNCHANGED <<ledger, authorised, consumption>>

(* postAutomatically: nothing unless the policy in force at the event names *)
(* it; lines already consumed, by whatever event, are passed over.          *)
PostAutomatically(ls, trigger, at) ==
    IF Trigger(at) = trigger
    THEN DrawAll({l \in ls : consumption[l].status = "NONE"}, at, FALSE)
    ELSE UNCHANGED <<ledger, authorised, consumption>>

(* Faulty variant: what the recipe of the day takes is put back.            *)
GiveBackByRecipe(l) ==
    /\ ledger' = [ledger EXCEPT ![l] = [p \in Places |-> @[p] + Drawn(l, clock)[p]]]
    /\ authorised' = [p \in Places |-> authorised[p] /\ Balance(p) + Drawn(l, clock)[p] < 0]
    /\ consumption' = [consumption EXCEPT ![l].status = "REVERSED"]

(* Reversing puts back the entries that were stored, not what the recipe    *)
(* of the day would take.                                                   *)
GiveBack(l) ==
    /\ ledger' = [ledger EXCEPT ![l] =
            [p \in Places |-> @[p] + consumption[l].drawn[p]]]
    /\ authorised' = [p \in Places |->
            authorised[p] /\ Balance(p) + consumption[l].drawn[p] < 0]
    /\ consumption' = [consumption EXCEPT ![l].status = "REVERSED"]

(* reverseAutomatically: a line without a consumption, or with one already  *)
(* reversed, is left alone.                                                 *)
ReverseAutomatically(l) ==
    IF consumption[l].status = "POSTED" THEN GiveBack(l)
    ELSE UNCHANGED <<ledger, authorised, consumption>>

-----------------------------------------------------------------------------
(* The events of the sale.                                                  *)

(* Faulty variant: the wave is stamped with the moment after it.            *)
SendAhead(ls) ==
    /\ Spend("events") /\ completedAt = Never
    /\ \A l \in ls : sentAt[l] = Never
    /\ sentAt' = [l \in Lines |-> IF l \in ls THEN clock + 1 ELSE sentAt[l]]
    /\ PostAutomatically(ls, "SENT", clock)
    /\ UNCHANGED <<cancelled, readyAt, completedAt, configVars>>

(* send: a wave of unsent lines; a ticket is printed with its wave.         *)
Send(ls) ==
    /\ Spend("events")
    /\ completedAt = Never
    /\ \A l \in ls : sentAt[l] = Never
    /\ \A t \in Tickets : TicketLines[t] \cap ls # {} => TicketLines[t] \subseteq ls
    /\ sentAt' = [l \in Lines |-> IF l \in ls THEN clock ELSE sentAt[l]]
    /\ PostAutomatically(ls, "SENT", clock)
    /\ UNCHANGED <<cancelled, readyAt, completedAt, configVars>>

Uncancelled(t) == TicketLines[t] \ cancelled

(* transition to READY: a line is prepared once every ticket that still     *)
(* carries it is.                                                           *)
Ready(t) ==
    /\ Spend("events")
    /\ readyAt[t] = Never /\ Uncancelled(t) # {}
    /\ \A l \in TicketLines[t] : sentAt[l] # Never
    /\ readyAt' = [readyAt EXCEPT ![t] = clock]
    /\ PostAutomatically(
            {l \in Uncancelled(t) : \A u \in Tickets : l \in TicketLines[u] => readyAt'[u] # Never},
            "PREPARED", clock)
    /\ UNCHANGED <<sentAt, cancelled, completedAt, configVars>>

(* cancelSentLine                                                           *)
CancelSentLine(l) ==
    /\ Spend("events")
    /\ sentAt[l] # Never /\ l \notin cancelled /\ completedAt = Never
    /\ cancelled' = cancelled \cup {l}
    /\ ReverseAutomatically(l)
    /\ UNCHANGED <<sentAt, readyAt, completedAt, configVars>>

(* completeOrder: all lines sent, every ticket that is left prepared.       *)
Complete ==
    /\ Spend("events")
    /\ completedAt = Never
    /\ \A l \in Lines : sentAt[l] # Never
    /\ \A t \in Tickets : readyAt[t] # Never \/ Uncancelled(t) = {}
    /\ cancelled # Lines
    /\ completedAt' = clock
    /\ PostAutomatically(Lines \ cancelled, "COMPLETED", clock)
    /\ UNCHANGED <<sentAt, cancelled, readyAt, configVars>>

-----------------------------------------------------------------------------
(* The back office.                                                         *)

(* sourceOccurredAt: the moments of the events of a line that a manual      *)
(* posting may name.  No event is ever recorded for SERVED.                 *)
Events(l, trigger) ==
    (CASE trigger = "SENT" -> {sentAt[l]}
       [] trigger = "PREPARED" ->
            {readyAt[t] : t \in {t \in Tickets : l \in Uncancelled(t)}}
       [] trigger = "COMPLETED" -> {completedAt}
       [] OTHER -> {}) \ {Never}

(* post: one ticket of two being ready is enough here.                      *)
PostByHand(l, trigger, override) ==
    /\ Spend("byHand")
    /\ consumption[l].status = "NONE"
    /\ \E at \in Events(l, trigger) :
          Trigger(at) = trigger /\ DrawAll({l}, at, override)
    /\ UNCHANGED <<lineVars, configVars>>

ReverseByHand(l) ==
    /\ Spend("byHand")
    /\ consumption[l].status = "POSTED"
    /\ GiveBack(l)
    /\ UNCHANGED <<lineVars, configVars>>

CreatePolicy(p) ==
    /\ policy[p] = "NONE" /\ Spend("changes")
    /\ policy' = [policy EXCEPT ![p] = "DRAFT"]
    /\ UNCHANGED <<clock, version, lineVars, consumption, ledger, authorised>>

(* confirmPolicy, activatePolicy: with evidence first, and never withdrawn. *)
ConfirmPolicy(p) ==
    /\ policy[p] = "DRAFT" /\ Spend("changes")
    /\ policy' = [policy EXCEPT ![p] = "CONFIRMED"]
    /\ UNCHANGED <<clock, version, lineVars, consumption, ledger, authorised>>

ActivatePolicy(p) ==
    /\ policy[p] = "CONFIRMED" /\ Spend("changes")
    /\ \A q \in DOMAIN Policies : policy[q] = "ACTIVE" => Policies[q].from # Policies[p].from
    /\ policy' = [policy EXCEPT ![p] = "ACTIVE"]
    /\ UNCHANGED <<clock, version, lineVars, consumption, ledger, authorised>>

(* A version is drafted, then activated; it may take effect in the past.    *)
Draft(v) ==
    /\ version[v] = "NONE" /\ Spend("changes")
    /\ version' = [version EXCEPT ![v] = "DRAFT"]
    /\ UNCHANGED <<clock, policy, lineVars, consumption, ledger, authorised>>

Activate(v) ==
    /\ version[v] = "DRAFT" /\ Spend("changes")
    /\ version' = [version EXCEPT ![v] = "ACTIVE"]
    /\ UNCHANGED <<clock, policy, lineVars, consumption, ledger, authorised>>

Existing(S) == {v \in S : version[v] # "NONE"}

(* createRecipe, createModifierEffect: numbered after the latest.           *)
CreateRecipe(v) ==
    v.version = Cardinality(Existing(RecipeVersions)) + 1 /\ Draft(v)

CreateModifierEffect(v) ==
    v.version = Cardinality(Existing(EffectVersions)) + 1 /\ Draft(v)

CreateRoute(v) == Draft(v)

ActivateRecipe(v) == (\E i \in Items : v.takes[i] > 0) /\ Activate(v)

ActivateModifierEffect(v) == Activate(v)

(* activateRoute: two routes of an item and station may not start at once.  *)
ActivateRoute(v) ==
    /\ \A r \in Active(RouteVersions) :
          ~(r.from = v.from /\ r.item = v.item /\ r.anyStation = v.anyStation)
    /\ Activate(v)

Tick ==
    /\ Spend("events")
    /\ clock < MaxTime /\ clock' = clock + 1
    /\ UNCHANGED <<policy, version, lineVars, consumption, ledger, authorised>>

-----------------------------------------------------------------------------
(* A branch opens with part of its configuration already activated.         *)
SaleInit ==
    /\ clock = 0
    /\ policy \in PoliciesFirst
    /\ version = VersionsFirst
    /\ sentAt = [l \in Lines |-> Never]
    /\ cancelled = {}
    /\ readyAt = [t \in Tickets |-> Never]
    /\ completedAt = Never
    /\ consumption = [l \in Lines |-> NoConsumption]

Triggers == {"SENT", "PREPARED", "COMPLETED", "SERVED"}

SaleNext ==
    /\ \/ \E ls \in (SUBSET Lines) \ {{}} : Send(ls)
       \/ \E t \in Tickets : Ready(t)
       \/ \E l \in Lines :
             \/ CancelSentLine(l)
             \/ \E trigger \in Triggers, override \in BOOLEAN : PostByHand(l, trigger, override)
             \/ ReverseByHand(l)
       \/ Complete
       \/ \E p \in DOMAIN Policies : CreatePolicy(p) \/ ConfirmPolicy(p) \/ ActivatePolicy(p)
       \/ \E v \in RecipeVersions : CreateRecipe(v) \/ ActivateRecipe(v)
       \/ \E v \in EffectVersions : CreateModifierEffect(v) \/ ActivateModifierEffect(v)
       \/ \E v \in RouteVersions : CreateRoute(v) \/ ActivateRoute(v)
       \/ Tick
    /\ UNCHANGED count

=============================================================================
