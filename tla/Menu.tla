-------------------------------- MODULE Menu --------------------------------
(***************************************************************************)
(* The menu of a branch: one item with its variants, their effective-dated *)
(* prices, the stations and tax classes an active item needs, and the CSV  *)
(* import (apps/api/src/catalog: catalog-configuration.service.ts,         *)
(* catalog-lifecycle.service.ts, menu-import.service.ts and -parser.ts).   *)
(*                                                                         *)
(* Every operation is one serializable transaction.  Names, descriptions,  *)
(* categories and modifier groups, which no operation here depends on, are *)
(* left out; so is the availability switch, which only the order lines     *)
(* read.                                                                   *)
(***************************************************************************)
EXTENDS Naturals, FiniteSets

CONSTANTS
    Variants,   \* variants of the item
    Stations,
    TaxClasses,
    Amounts,    \* prices, positive
    LastClock,  \* bound of the clock
    MaxPrices,  \* bound of the price rows
    Base,       \* the item itself, as what a price is for
    None

ASSUME MenuAssumption == Amounts \subseteq Nat \ {0} /\ LastClock \in Nat

VARIABLES
    clock,
    stations,   \* stations that exist; nothing deactivates one
    taxClass,   \* taxClass[c]: "none", "inactive" or "active"
    item,       \* the item: its state, its station and its tax class
    variant,    \* variant[v]: "none", "inactive" or "active"
    prices      \* prices[t]: the price rows of the item or of a variant

menuVars == <<clock, stations, taxClass, item, variant, prices>>

Targets == {Base} \cup Variants
Forever == LastClock + 2     \* an interval that has no end
States  == {"none", "inactive", "active"}

MenuTypeOK ==
    /\ clock \in 0..LastClock
    /\ stations \subseteq Stations
    /\ taxClass \in [TaxClasses -> States]
    /\ item \in [state: States, station: Stations \cup {None},
                 taxClass: TaxClasses \cup {None}]
    /\ variant \in [Variants -> States]
    /\ \A t \in Targets : \A p \in prices[t] :
          p.from \in 0..LastClock /\ p.to \in (p.from + 1)..Forever /\ p.amount \in Amounts

MenuInit ==
    /\ clock = 0
    /\ stations = {}
    /\ taxClass = [c \in TaxClasses |-> "none"]
    /\ item = [state |-> "none", station |-> None, taxClass |-> None]
    /\ variant = [v \in Variants |-> "none"]
    /\ prices = [t \in Targets |-> {}]

-----------------------------------------------------------------------------
EffectiveAt(t, instant) == {p \in prices[t] : p.from <= instant /\ p.to > instant}
Overlaps(t, from, to)   == \E p \in prices[t] : p.from < to /\ p.to > from

Exists(t) == IF t = Base THEN item.state # "none" ELSE variant[t] # "none"
Activity(on) == IF on THEN "active" ELSE "inactive"

StationIsActive(s)  == s \in stations
TaxClassIsActive(c) == c # None /\ taxClass[c] = "active"
Known(station, class) ==
    /\ station # None => station \in stations
    /\ class # None => taxClass[class] # "none"

Rows == Cardinality(UNION {{<<t, p>> : p \in prices[t]} : t \in Targets})

MenuTick ==
    /\ clock < LastClock
    /\ clock' = clock + 1
    /\ UNCHANGED <<stations, taxClass, item, variant, prices>>

CreateStation(s) ==
    /\ s \notin stations
    /\ stations' = stations \cup {s}
    /\ UNCHANGED <<clock, taxClass, item, variant, prices>>

CreateTaxClass(c) ==
    /\ taxClass[c] = "none"
    /\ taxClass' = [taxClass EXCEPT ![c] = "inactive"]
    /\ UNCHANGED <<clock, stations, item, variant, prices>>

ActivateTaxClass(c) ==
    /\ taxClass[c] # "none"
    /\ taxClass' = [taxClass EXCEPT ![c] = "active"]
    /\ UNCHANGED <<clock, stations, item, variant, prices>>

CreateMenuItem(station, class) ==
    /\ item.state = "none"
    /\ Known(station, class)
    /\ item' = [state |-> "inactive", station |-> station, taxClass |-> class]
    /\ UNCHANGED <<clock, stations, taxClass, variant, prices>>

UpdateMenuItem(station, class) ==
    /\ item.state # "none"
    /\ Known(station, class)
    /\ item.state = "active" => StationIsActive(station) /\ TaxClassIsActive(class)
    /\ item' = [item EXCEPT !.station = station, !.taxClass = class]
    /\ UNCHANGED <<clock, stations, taxClass, variant, prices>>

ActivateMenuItem ==
    /\ item.state # "none"
    /\ StationIsActive(item.station)
    /\ TaxClassIsActive(item.taxClass)
    /\ EffectiveAt(Base, clock) # {}
    /\ item' = [item EXCEPT !.state = "active"]
    /\ UNCHANGED <<clock, stations, taxClass, variant, prices>>

\* The variants of a deactivated item keep their state.
DeactivateMenuItem ==
    /\ item.state # "none"
    /\ item' = [item EXCEPT !.state = "inactive"]
    /\ UNCHANGED <<clock, stations, taxClass, variant, prices>>

CreateVariant(v) ==
    /\ item.state # "none"
    /\ variant[v] = "none"
    /\ variant' = [variant EXCEPT ![v] = "inactive"]
    /\ UNCHANGED <<clock, stations, taxClass, item, prices>>

ActivateVariant(v) ==
    /\ variant[v] # "none"
    /\ item.state = "active"
    /\ EffectiveAt(v, clock) # {}
    /\ variant' = [variant EXCEPT ![v] = "active"]
    /\ UNCHANGED <<clock, stations, taxClass, item, prices>>

\* A price may start in the past and may have no end.
CreatePrice(t, amount, from, to) ==
    /\ Exists(t)
    /\ ~Overlaps(t, from, to)
    /\ Rows < MaxPrices
    /\ prices' = [prices EXCEPT ![t] = @ \cup {[amount |-> amount, from |-> from, to |-> to]}]
    /\ UNCHANGED <<clock, stations, taxClass, item, variant>>

-----------------------------------------------------------------------------
(* The import.  A file names the item's station and tax class, the same in *)
(* every row, and has at most one row for the item and for each variant;   *)
(* a row of price 0 has none.                                              *)

\* What the parser asks of a file by itself.
WellFormed(rows, station, class) ==
    \A t \in DOMAIN rows :
        rows[t].active => station # None /\ class # None /\ rows[t].price > 0

ItemIsActiveInFile(rows) == Base \in DOMAIN rows /\ rows[Base].active

ItemWillBeActive(rows) ==
    IF Base \in DOMAIN rows THEN rows[Base].active ELSE item.state = "active"

\* What the validation asks of it against the menu.
Valid(rows, station, class) ==
    /\ Known(station, class)
    /\ ItemWillBeActive(rows) =>
          /\ StationIsActive(station) /\ TaxClassIsActive(class)
          /\ \/ Base \in DOMAIN rows /\ rows[Base].price > 0
             \/ Cardinality(EffectiveAt(Base, clock)) = 1
    /\ \A t \in DOMAIN rows :
          /\ rows[t].active => TaxClassIsActive(class) /\ ItemWillBeActive(rows)
          /\ rows[t].price > 0 => \A p \in prices[t] : p.from <= clock
          /\ Cardinality(EffectiveAt(t, clock)) <= 1

\* The price rows after a row of the file: the current price is ended now and
\* another starts now, unless its amount is the same.
RepricedInPlace(t, price) ==
    {IF p \in EffectiveAt(t, clock) THEN [p EXCEPT !.amount = price] ELSE p : p \in prices[t]}

RepricedFromNow(t, price) ==
    prices[t] \cup {[amount |-> price, from |-> clock, to |-> Forever]}

Repriced(t, price) ==
    LET current == EffectiveAt(t, clock)
    IN  IF price = 0 \/ \E p \in current : p.amount = price
        THEN prices[t]
        ELSE (prices[t] \ current) \cup {[p EXCEPT !.to = clock] : p \in current}
                 \cup {[amount |-> price, from |-> clock, to |-> Forever]}

\* The database refuses an interval that ends where it starts, and with it the
\* whole import.
Import(rows, station, class) ==
    /\ WellFormed(rows, station, class)
    /\ Valid(rows, station, class)
    /\ \A t \in DOMAIN rows : \A p \in Repriced(t, rows[t].price) : p.from < p.to
    /\ prices' = [t \in Targets |-> IF t \in DOMAIN rows THEN Repriced(t, rows[t].price)
                                                         ELSE prices[t]]
    /\ item' = [state |-> IF Base \in DOMAIN rows THEN Activity(rows[Base].active)
                           ELSE IF item.state = "none" THEN "inactive" ELSE item.state,
                station |-> station, taxClass |-> class]
    /\ variant' = [v \in Variants |-> IF v \in DOMAIN rows THEN Activity(rows[v].active)
                                                           ELSE variant[v]]
    /\ Rows < MaxPrices
    /\ UNCHANGED <<clock, stations, taxClass>>

FileRows == [price: Amounts \cup {0}, active: BOOLEAN]
Files    == UNION {[D -> FileRows] : D \in (SUBSET Targets) \ {{}}}

MenuNext ==
    \/ MenuTick \/ ActivateMenuItem \/ DeactivateMenuItem
    \/ \E s \in Stations : CreateStation(s)
    \/ \E c \in TaxClasses : CreateTaxClass(c) \/ ActivateTaxClass(c)
    \/ \E v \in Variants : CreateVariant(v) \/ ActivateVariant(v)
    \/ \E t \in Targets, a \in Amounts, from \in 0..LastClock, to \in 1..(LastClock + 1) \cup {Forever} :
          from < to /\ CreatePrice(t, a, from, to)
    \/ \E s \in Stations \cup {None}, c \in TaxClasses \cup {None} :
          \/ CreateMenuItem(s, c) \/ UpdateMenuItem(s, c)
          \/ \E rows \in Files : Import(rows, s, c)

-----------------------------------------------------------------------------
\* An active item has an active station and an approved tax class, however its
\* parts were changed: by its own commands, or by a file that has rows only for
\* its variants.
ActiveItemIsComplete ==
    item.state = "active" => StationIsActive(item.station) /\ TaxClassIsActive(item.taxClass)

\* Prices stand.  At every instant the item and each variant have at most one price,
\* whatever mix of priced, scheduled, ended and imported prices there is: the
\* database has no constraint for it, and an order line takes the latest it finds
\* (OrdersService.lineSnapshot).  What was charged at an instant that has passed
\* stays its price: new prices and imports add to the past or end the present.
PricesStand ==
    /\ [](\A t \in Targets, i \in 0..(LastClock + 1) : Cardinality(EffectiveAt(t, i)) <= 1)
    /\ [][\A t \in Targets, i \in 0..LastClock :
             i < clock => \A p \in EffectiveAt(t, i) :
                             \E q \in EffectiveAt(t, i)' : q.amount = p.amount]_menuVars
=============================================================================
