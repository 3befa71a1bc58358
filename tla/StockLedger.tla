---------------------------- MODULE StockLedger ----------------------------
(***************************************************************************)
(* The stock ledger of a branch: an append-only list of signed quantities   *)
(* per location and item.  No quantity on hand is stored anywhere: it is    *)
(* the sum of the entries, read inside the serializable transaction that    *)
(* posts the next ones, so each handler is one action.                      *)
(*                                                                          *)
(* The entries are kept grouped by the document they belong to (source_type *)
(* and source_id); adjustments, transfers and counts share one group.       *)
(* Abstracted: units of measure, names, reasons, actors, and the revision   *)
(* a client must quote (a stale one changes nothing).                       *)
(***************************************************************************)
EXTENDS Integers, FiniteSets, Functions

CONSTANTS
    Locations, Items,
    Documents,      \* the documents other than the manual commands
    Manual,         \* the group of adjustments, transfers and counts
    Opening,        \* place -> what was on hand when the model starts
    Counts,         \* stock counts: documents of their own until posted
    MaxQuantity,    \* bound: the quantity of one manual command
    Budgets         \* bounds: how much of each kind a behaviour may hold

Places == Locations \X Items

ASSUME LedgerAssumption ==
    /\ IsFiniteSet(Places) /\ Places # {} /\ Opening \in [Places -> Nat]
    /\ IsFiniteSet(Documents) /\ Manual \notin Documents
    /\ MaxQuantity \in Nat

VARIABLES
    ledger,         \* document -> place -> the sum of its entries
    authorised,     \* place -> a shortage there was allowed by an override
    count,          \* stock count -> status, place and counted quantity
    budget          \* kind of step -> how many are left

ledgerVars == <<ledger, authorised, count, budget>>

-----------------------------------------------------------------------------
(* balance: the aggregate over the whole ledger.                            *)
Balance(place) == SumFunction([d \in DOMAIN ledger |-> ledger[d][place]])

Empty == [p \in Places |-> 0]

(* An entry is a record; line tells apart the entries of one document.      *)
Entries(place) == [line : Documents \cup {Manual}, place : {place}, delta : Int]

DeltaAt(entries, place) ==
    SumFunction([e \in {e \in entries : e.place = place} |-> e.delta])

(* Faulty variant: the index is dropped.                                    *)
RepeatedKeys(entries) == TRUE

(* The index (source_type, source_id, type, location, item) is unique.      *)
UniqueKeys(entries) == \A e, f \in entries : e.place = f.place => e = f

(* assertNonNegative looks at each entry alone, against what the ledger     *)
(* held before the document.                                                *)
Covered(entries) ==
    \A e \in entries : e.delta >= 0 \/ Balance(e.place) + e.delta >= 0

(* The rows a document inserts.  A shortage stays authorised until the      *)
(* balance of its place is back at zero or above.                           *)
Record(document, entries, override) ==
    /\ UniqueKeys(entries)
    /\ ledger' = [ledger EXCEPT ![document] =
            [p \in Places |-> @[p] + DeltaAt(entries, p)]]
    /\ authorised' = [p \in Places |->
            /\ Balance(p) + DeltaAt(entries, p) < 0
            /\ \/ authorised[p]
               \/ override /\ \E e \in entries : e.place = p]

(* An override where nothing is short changes nothing and is not tried.      *)
Post(document, entries, override) ==
    /\ override <=> ~Covered(entries)
    /\ Record(document, entries, override)

(* Bound: one of the budgeted steps is spent.                               *)
Spend(kind) ==
    /\ budget[kind] > 0
    /\ budget' = [budget EXCEPT ![kind] = @ - 1]

-----------------------------------------------------------------------------
(* postAdjustment: waste decreases, an opening balance does not, a          *)
(* correction may do either.                                                *)
PostAdjustment(place, delta, override) ==
    /\ Spend("manual")
    /\ Post(Manual, {[line |-> Manual, place |-> place, delta |-> delta]}, override)
    /\ UNCHANGED count

(* postTransfer: out of one location and into another, both or neither.     *)
PostTransfer(item, from, to, quantity, override) ==
    /\ Spend("manual") /\ from # to
    /\ Post(Manual,
            {[line |-> Manual, place |-> <<from, item>>, delta |-> -quantity],
             [line |-> Manual, place |-> <<to, item>>, delta |-> quantity]}, override)
    /\ UNCHANGED count

(* createCount: what was counted is stored, nothing is posted.              *)
CreateCount(c, place, counted) ==
    /\ count[c].status = "NONE"
    /\ count' = [count EXCEPT ![c] =
            [status |-> "DRAFT", place |-> place, counted |-> counted]]
    /\ Spend("manual")
    /\ UNCHANGED <<ledger, authorised>>

(* postCount: the difference is taken against the balance at posting time,  *)
(* whatever has moved since the shelf was counted, and nothing is asked     *)
(* about a shortage.                                                        *)
PostCount(c) ==
    /\ count[c].status = "DRAFT"
    /\ LET place == count[c].place
           delta == count[c].counted - Balance(place)
       IN Record(Manual,
            IF delta = 0 THEN {}
            ELSE {[line |-> Manual, place |-> place, delta |-> delta]}, FALSE)
    /\ count' = [count EXCEPT ![c].status = "POSTED"]
    /\ UNCHANGED budget

-----------------------------------------------------------------------------
NoCount == [status |-> "NONE", place |-> CHOOSE p \in Places : TRUE, counted |-> 0]

LedgerInit ==
    /\ ledger = [d \in Documents \cup {Manual} |-> IF d = Manual THEN Opening ELSE Empty]
    /\ authorised = [p \in Places |-> FALSE]
    /\ count = [c \in Counts |-> NoCount]
    /\ budget \in Budgets

LedgerNext ==
    \/ \E place \in Places, override \in BOOLEAN,
          delta \in (-MaxQuantity..MaxQuantity) \ {0} :
            PostAdjustment(place, delta, override)
    \/ \E item \in Items, from, to \in Locations,
          quantity \in 1..MaxQuantity, override \in BOOLEAN :
            PostTransfer(item, from, to, quantity, override)
    \/ \E c \in Counts :
          \/ \E place \in Places, counted \in 0..MaxQuantity : CreateCount(c, place, counted)
          \/ PostCount(c)

=============================================================================
