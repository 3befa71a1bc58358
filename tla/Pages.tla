------------------------------- MODULE Pages -------------------------------
(***************************************************************************)
(* The pages at which staff change things (admin-web, and the workspaces   *)
(* of pos-web and kds-web), all built alike: a page loads lists, a control *)
(* sends a command made from what is on screen, and the page loads again   *)
(* before it tells of success.  Loads may overlap and answer out of order, *)
(* answers get lost, others change the same rows, and each click carries a *)
(* new idempotency key, so that only the server's own guard stands between *)
(* a repeated click and a repeated effect.  A behaviour follows one call   *)
(* from one page, to one row; the tables say how each page conducts itself *)
(* and what the server compares.                                           *)
(***************************************************************************)
EXTENDS Naturals, FiniteSets

CONSTANTS
    Clicks, LoadSlots,  \* uses of the control, loads that may be in flight
    LastRow,            \* bound: version of the row (0: there is none)
    Nobody

ASSUME PageAssumption == LastRow \in Nat \ {0} /\ Nobody \notin Clicks

----------------------------------------------------------------------------
(* What a call asks of the server.  A CHANGE names a row that the page      *)
(* shows; a CREATE makes one, with ids that the client mints at each click. *)
(* REVISION: the body carries the row's revision and the server compares    *)
(* it in the serializable transaction that changes the row; EARLIER: it     *)
(* compares before that transaction, which goes by the row's id alone;      *)
(* UNIQUE: a name, code, period or number that the person chose is refused  *)
(* when it is there already; NONE: none of these.                           *)

Changes(names)  == {[name |-> n, kind |-> "CHANGE", guard |-> "REVISION"] : n \in names}
LateChanges(names) == {[name |-> n, kind |-> "CHANGE", guard |-> "EARLIER"] : n \in names}
Entries(names)  == {[name |-> n, kind |-> "CREATE", guard |-> "UNIQUE"] : n \in names}
Postings(names) == {[name |-> n, kind |-> "CREATE", guard |-> "NONE"] : n \in names}

FactorCalls == Entries({"enrollMfa"})
    \union LateChanges({"activateMfa", "disableMfa", "resetPendingMfa"})
StaffCalls == Entries({"createRole", "createStaff", "createDevice"})
    \union Changes({"assignStaffRole", "removeStaffRole", "changeStaffStatus",
                    "changeDeviceStatus"})
PlaceCalls == Entries({"createStation", "createDiningArea", "createDiningTable"})
    \union Changes({"changeDiningAreaStatus", "changeDiningTableStatus"})
HoursCalls == Postings({"createBranchSchedule", "createSpecialDay"})
    \union Changes({"changeBranchScheduleStatus", "changeSpecialDayStatus"})
TaxCalls == Entries({"createTaxProfile"})
    \union Changes({"updateTaxProfile", "confirmTaxProfile", "activateTaxProfile"})
CategoryCalls == Entries({"createCategory", "createTaxClass"})
    \union Changes({"activateTaxClass"})
ItemCalls == Entries({"createMenuItem", "createMenuVariant", "createMenuPrice"})
    \union Changes({"updateMenuItemName", "changeMenuItemStatus", "activateMenuVariant"})
ModifierCalls == Entries({"createModifierGroup", "attachModifierGroup"})
    \union Postings({"applyMenuImport"})
PolicyCalls == Postings({"createInventoryDeductionPolicy",
                         "createInventoryConsumptionRoute"})
RuleCalls == Postings({"createCriticalIngredientRule"})
UnitCalls == Entries({"createInventoryUnit", "createInventoryUnitConversion",
                      "createStockLocation", "createInventoryItem"})
StockCalls == Postings({"postStockAdjustment", "postInventoryTransfer", "createStockCount"})
    \union Changes({"postStockCount"})
RecipeCalls == Postings({"createRecipeVersion", "createModifierRecipeEffect"})
    \union Changes({"activateRecipeVersion", "activateModifierRecipeEffect"})
BatchCalls == Postings({"createBatchRecipeVersion", "postBatchProduction"})
    \union Changes({"activateBatchRecipeVersion", "reverseBatchProduction"})
SupplierCalls == Entries({"createSupplier", "createSupplierItem", "createPurchaseOrder"})
    \union Changes({"transitionPurchaseOrder"})
IntakeCalls == Changes({"postGoodsReceipt"}) \union Postings({"postPurchaseReturn"})
CustomerCalls == Postings({"createCustomerProfile", "recordCustomerConsent"})
RequestCalls == Postings({"createCustomerPrivacyRequest"})
    \union Entries({"createRetentionPolicy"})
    \union Changes({"transitionCustomerPrivacyRequest"})
AlertCalls == Changes({"revokeSession", "acknowledgeAlert", "resolveAlert"})
EvidenceCalls == Postings({"recordEvidence", "recordReview"})
OrderCalls == Changes({"moveOrderTable", "transferOrderResponsibility", "mergeOrder",
                       "splitOrderLine"})
RefundCalls == Postings({"requestRefund"}) \union Changes({"approveRefund", "resolveRefund"})
CashCalls == Postings({"requestCashMovement"}) \union Changes({"approveCashMovement"})
PrintCalls == Postings({"queueReceiptReprint"}) \union Changes({"retryPrintJob"})
RecoveryCalls == Entries({"acknowledgeServerCommand"})
TicketCalls == Changes({"advanceKdsTicket"})

----------------------------------------------------------------------------
(* How a page conducts itself.                                              *)
(*   editor    ROW: the control stands by the row and sends what the list   *)
(*             shows; COPY: a dialog keeps the row it was opened on;        *)
(*             FIELDS: a form keeps the row's fields and takes the revision *)
(*             from the list when it is sent                                *)
(*   locks     controls are disabled while a command or its reload runs     *)
(*   refresh   when the person may load again: ALWAYS, IDLE (no command     *)
(*             running), ALONE (no load running) or NEVER                   *)
(*   loading   SHOWS the old rows or HIDES them                             *)
(*   failing   a failed load KEEPS the rows or CLEARS them                  *)
(*   refused   a refused command RELOADS or not (TELLS)                     *)

StaffPage == [calls |-> StaffCalls, editor |-> "ROW", locks |-> FALSE,
    refresh |-> "NEVER", loading |-> "HIDES", failing |-> "CLEARS", refused |-> "TELLS"]
FactorPage == [calls |-> FactorCalls, editor |-> "ROW", locks |-> TRUE,
    refresh |-> "NEVER", loading |-> "SHOWS", failing |-> "KEEPS", refused |-> "TELLS"]
OperationalPage == [calls |-> PlaceCalls \union HoursCalls, editor |-> "ROW", locks |-> TRUE,
    refresh |-> "IDLE", loading |-> "SHOWS", failing |-> "CLEARS", refused |-> "TELLS"]
TaxPage == [calls |-> TaxCalls, editor |-> "FIELDS", locks |-> TRUE,
    refresh |-> "IDLE", loading |-> "SHOWS", failing |-> "KEEPS", refused |-> "TELLS"]
CatalogPage == [calls |-> CategoryCalls \union ItemCalls \union ModifierCalls,
    editor |-> "ROW", locks |-> FALSE,
    refresh |-> "NEVER", loading |-> "SHOWS", failing |-> "KEEPS", refused |-> "TELLS"]
PoliciesPage == [calls |-> PolicyCalls \union RuleCalls, editor |-> "ROW", locks |-> TRUE,
    refresh |-> "NEVER", loading |-> "SHOWS", failing |-> "CLEARS", refused |-> "TELLS"]
InventoryPage == [calls |-> UnitCalls \union RecipeCalls \union StockCalls,
    editor |-> "ROW", locks |-> TRUE,
    refresh |-> "ALWAYS", loading |-> "SHOWS", failing |-> "CLEARS", refused |-> "TELLS"]
OperationsPage == [calls |-> StockCalls \union BatchCalls, editor |-> "ROW", locks |-> TRUE,
    refresh |-> "NEVER", loading |-> "SHOWS", failing |-> "CLEARS", refused |-> "TELLS"]
ProcurementPage == [calls |-> SupplierCalls \union IntakeCalls, editor |-> "ROW", locks |-> TRUE,
    refresh |-> "IDLE", loading |-> "HIDES", failing |-> "CLEARS", refused |-> "TELLS"]
PrivacyPage == [calls |-> CustomerCalls \union RequestCalls, editor |-> "ROW", locks |-> TRUE,
    refresh |-> "IDLE", loading |-> "HIDES", failing |-> "CLEARS", refused |-> "TELLS"]
SecurityPage == [calls |-> AlertCalls, editor |-> "COPY", locks |-> FALSE,
    refresh |-> "ALWAYS", loading |-> "SHOWS", failing |-> "CLEARS", refused |-> "TELLS"]
ReadinessPage == [calls |-> EvidenceCalls, editor |-> "ROW", locks |-> FALSE,
    refresh |-> "ALWAYS", loading |-> "SHOWS", failing |-> "CLEARS", refused |-> "TELLS"]
OrderWorkspace == [calls |-> OrderCalls, editor |-> "ROW", locks |-> TRUE,
    refresh |-> "ALONE", loading |-> "SHOWS", failing |-> "KEEPS", refused |-> "TELLS"]
RefundWorkspace == [calls |-> RefundCalls, editor |-> "ROW", locks |-> TRUE,
    refresh |-> "ALONE", loading |-> "SHOWS", failing |-> "KEEPS", refused |-> "TELLS"]
CashWorkspace == [calls |-> CashCalls, editor |-> "ROW", locks |-> TRUE,
    refresh |-> "ALONE", loading |-> "SHOWS", failing |-> "KEEPS", refused |-> "TELLS"]
ReceiptWorkspace == [calls |-> PrintCalls, editor |-> "COPY", locks |-> TRUE,
    refresh |-> "ALONE", loading |-> "SHOWS", failing |-> "KEEPS", refused |-> "TELLS"]
RecoveryWorkspace == [calls |-> RecoveryCalls, editor |-> "COPY", locks |-> TRUE,
    refresh |-> "ALONE", loading |-> "SHOWS", failing |-> "KEEPS", refused |-> "RELOADS"]
KitchenPage == [calls |-> TicketCalls, editor |-> "ROW", locks |-> TRUE,
    refresh |-> "ALWAYS", loading |-> "SHOWS", failing |-> "KEEPS", refused |-> "RELOADS"]

SitePages == {StaffPage, FactorPage, OperationalPage, TaxPage, CatalogPage, PoliciesPage,
    InventoryPage, OperationsPage, ProcurementPage, PrivacyPage, SecurityPage,
    ReadinessPage, OrderWorkspace, RefundWorkspace, CashWorkspace, ReceiptWorkspace,
    RecoveryWorkspace, KitchenPage}

\* What a page and a call come to, without their names: equal ones behave alike.
Conduct(p, c) ==
    [editor |-> IF c.kind = "CREATE" THEN "ROW" ELSE p.editor, locks |-> p.locks,
     refresh |-> p.refresh, loading |-> p.loading, failing |-> p.failing,
     refused |-> p.refused, kind |-> c.kind, guard |-> c.guard]
Conducts == UNION {{Conduct(p, c) : c \in p.calls} : p \in SitePages}

----------------------------------------------------------------------------

VARIABLES
    conduct,    \* of the page and the call followed here
    stands,     \* the server's version of the row
    listed,      \* the version in the page's state, and whether it is on screen
    editing,    \* the version a dialog or form was opened on, or Nobody
    loads,      \* of each slot: where its load is, what it read, for which click
    clicks      \* of each click: where it is, what the person saw, what it carries,
                \* and whether an EARLIER guard has let it through
pageVars == <<conduct, stands, listed, editing, loads, clicks>>

Versions == 0..LastRow
NoLoad   == [at |-> "NONE", read |-> 0, by |-> Nobody]
NoClick  == [at |-> "NONE", saw |-> 0, carries |-> 0, compared |-> FALSE]
Over     == [NoClick EXCEPT !.at = "OVER"]
Hidden   == [version |-> 0, visible |-> FALSE]

PageTypeOK ==
    /\ conduct \in Conducts
    /\ stands \in Versions
    /\ listed \in [version: Versions, visible: BOOLEAN]
    /\ editing \in Versions \union {Nobody}
    /\ loads \in [LoadSlots -> [at: {"NONE", "ASKED", "ANSWERED"}, read: Versions,
                                by: Clicks \union {Nobody}]]
    /\ clicks \in [Clicks ->
          [at: {"NONE", "SENT", "ADRIFT", "TAKEN", "REFUSED", "RELOADING", "OVER"},
           saw: Versions, carries: Versions, compared: BOOLEAN]]

\* The page has mounted and its first load is under way.
PageInit ==
    /\ conduct \in Conducts
    /\ stands = IF conduct.kind = "CHANGE" THEN 1 ELSE 0
    /\ listed = Hidden
    /\ editing = Nobody
    /\ loads = [l \in LoadSlots |->
          IF l = CHOOSE s \in LoadSlots : TRUE THEN [NoLoad EXCEPT !.at = "ASKED"] ELSE NoLoad]
    /\ clicks = [c \in Clicks |-> NoClick]

Busy == \E c \in Clicks : clicks[c].at \in {"SENT", "TAKEN", "REFUSED", "RELOADING"}
Loading == \E l \in LoadSlots : loads[l].at # "NONE"

----------------------------------------------------------------------------
(* Loading.                                                                 *)

StartLoad(l, by) ==
    /\ loads[l].at = "NONE"
    /\ loads' = [loads EXCEPT ![l] = [at |-> "ASKED", read |-> 0, by |-> by]]
    /\ listed' = IF conduct.loading = "HIDES" THEN Hidden ELSE listed

MayRefresh ==
    CASE conduct.refresh = "ALWAYS" -> TRUE
      [] conduct.refresh = "IDLE"   -> ~Busy
      [] conduct.refresh = "ALONE"  -> ~Loading
      [] conduct.refresh = "NEVER"  -> ~Loading /\ ~Busy /\ ~listed.visible  \* opened anew

LoadAgain(l) ==
    /\ MayRefresh
    /\ StartLoad(l, Nobody)
    /\ UNCHANGED <<conduct, stands, editing, clicks>>

AnswerLoad(l) ==
    /\ loads[l].at = "ASKED"
    /\ loads' = [loads EXCEPT ![l].at = "ANSWERED", ![l].read = stands]
    /\ UNCHANGED <<conduct, stands, listed, editing, clicks>>

\* A load that ends frees its slot and the command that waited for it.
EndLoad(l) ==
    /\ loads' = [loads EXCEPT ![l] = NoLoad]
    /\ clicks' = [c \in Clicks |->
          IF loads[l].by = c THEN Over ELSE clicks[c]]
    /\ UNCHANGED <<conduct, stands, editing>>

\* Whichever answer comes last is listed, older or not.
ShowLoad(l) ==
    /\ loads[l].at = "ANSWERED"
    /\ listed' = [version |-> loads[l].read, visible |-> TRUE]
    /\ EndLoad(l)

FailLoad(l) ==
    /\ loads[l].at = "ASKED"
    /\ listed' = IF conduct.failing = "CLEARS" THEN Hidden ELSE listed
    /\ EndLoad(l)

----------------------------------------------------------------------------
(* Commands.                                                                *)

OpenEditor ==
    /\ conduct.editor # "ROW" /\ listed.visible
    /\ conduct.locks => ~Busy
    /\ editing' = listed.version
    /\ UNCHANGED <<conduct, stands, listed, loads, clicks>>

Seen == IF conduct.editor = "ROW" THEN listed.version ELSE editing

Carries == IF conduct.editor = "COPY" THEN editing ELSE listed.version

Press(c) ==
    /\ clicks[c].at = "NONE" /\ listed.visible
    /\ conduct.locks => ~Busy
    /\ conduct.editor # "ROW" => editing # Nobody
    /\ clicks' = [clicks EXCEPT ![c] =
          [NoClick EXCEPT !.at = "SENT", !.saw = Seen, !.carries = Carries]]
    /\ UNCHANGED <<conduct, stands, listed, editing, loads>>

\* Mutant: the server looks at the row's status only.
IsAcceptedAnyway(c) == TRUE

IsAccepted(c) ==
    CASE conduct.guard = "REVISION" -> clicks[c].carries = stands
      [] conduct.guard = "EARLIER"  -> clicks[c].compared
      [] conduct.guard = "UNIQUE"   -> stands = 0
      [] conduct.guard = "NONE"     -> TRUE

\* What was compared earlier may be refused still: the row's triggers look at
\* the status that it has by then.
IsRefused(c) ==
    IF conduct.guard = "EARLIER" THEN clicks[c].carries # stands ELSE ~IsAccepted(c)

AtServer(c) == clicks[c].at \in {"SENT", "ADRIFT"}

\* The server compares, and has awaits before it changes the row.
Compare(c) ==
    /\ AtServer(c) /\ conduct.guard = "EARLIER"
    /\ ~clicks[c].compared /\ clicks[c].carries = stands
    /\ clicks' = [clicks EXCEPT ![c].compared = TRUE]
    /\ UNCHANGED <<conduct, stands, listed, editing, loads>>

\* The idempotency key is new at each click, so it stops none of them.
TakeHold(c) ==
    /\ AtServer(c) /\ IsAccepted(c)
    /\ stands < LastRow
    /\ stands' = stands + 1
    /\ clicks' = [clicks EXCEPT ![c] = IF @.at = "SENT" THEN [@ EXCEPT !.at = "TAKEN"] ELSE Over]
    /\ UNCHANGED <<conduct, listed, editing, loads>>

TurnDown(c) ==
    /\ AtServer(c) /\ IsRefused(c)
    /\ clicks' = [clicks EXCEPT ![c] = IF @.at = "SENT" THEN [@ EXCEPT !.at = "REFUSED"] ELSE Over]
    /\ UNCHANGED <<conduct, stands, listed, editing, loads>>

\* perform: after the answer the page closes its editor and loads again.
HearSuccess(c, l) ==
    /\ clicks[c].at = "TAKEN"
    /\ clicks' = [clicks EXCEPT ![c].at = "RELOADING"]
    /\ editing' = Nobody
    /\ StartLoad(l, c)
    /\ UNCHANGED <<conduct, stands>>

HearRefusal(c, l) ==
    /\ clicks[c].at = "REFUSED"
    /\ IF conduct.refused = "RELOADS"
       THEN /\ clicks' = [clicks EXCEPT ![c].at = "RELOADING"]
            /\ StartLoad(l, c)
       ELSE /\ clicks' = [clicks EXCEPT ![c] = Over]
            /\ UNCHANGED <<listed, loads>>
    /\ UNCHANGED <<conduct, stands, editing>>

\* The page is told that the request failed: its answer was lost, or it is
\* still on its way.  The form stays as it is.
HearNothing(c) ==
    /\ clicks[c].at \in {"SENT", "TAKEN", "REFUSED"}
    /\ clicks' = [clicks EXCEPT ![c] = IF @.at = "SENT" THEN [@ EXCEPT !.at = "ADRIFT"] ELSE Over]
    /\ UNCHANGED <<conduct, stands, listed, editing, loads>>

OthersChange ==     \* another person, at another page
    /\ stands < LastRow
    /\ stands' = stands + 1
    /\ UNCHANGED <<conduct, listed, editing, loads, clicks>>

PageNext ==
    \/ \E l \in LoadSlots : LoadAgain(l) \/ AnswerLoad(l) \/ ShowLoad(l) \/ FailLoad(l)
    \/ \E c \in Clicks :
          \/ Press(c) \/ Compare(c) \/ TakeHold(c) \/ TurnDown(c) \/ HearNothing(c)
          \/ \E l \in LoadSlots : HearSuccess(c, l) \/ HearRefusal(c, l)
    \/ OpenEditor
    \/ OthersChange

----------------------------------------------------------------------------
(* Property.                                                                *)

\* The tax form takes the revision from the list, not from what it was opened on.
Protected == conduct.guard \in {"REVISION", "UNIQUE"} /\ conduct.editor # "FIELDS"

\* The click is taking effect, or its reload has come on screen, in this step.
TakesEffect(c) == AtServer(c) /\ clicks'[c] # clicks[c] /\ stands' # stands
ReloadShows(c) == clicks[c].at = "RELOADING" /\ clicks'[c].at = "OVER" /\ listed' # listed

(* A command that takes effect was given by someone who had before them what *)
(* it takes effect on: the content that stood on the server, the results of  *)
(* their own earlier clicks included.  So no click writes over a change its  *)
(* author had not seen, and a click repeated after a lost answer, or doubled, *)
(* has no second effect.  And once the page has answered a click with a new  *)
(* list, that list is newer than what the click was decided on, so that the  *)
(* next click is not doomed to be refused for the same reason.  It rests on  *)
(* the pages and the server together: which revision a control sends, when   *)
(* the page loads again and what the server compares.  Three groups do not   *)
(* have the first half: the calls in Postings; the form of the tax page,     *)
(* which takes the revision from the list; and activateMfa, disableMfa and   *)
(* resetPendingMfa, whose revision is compared before the transaction and    *)
(* which may change a row that has moved on since (perform and load of each  *)
(* page of admin-web, assertRevision on the server, MfaService).             *)
DecidedOnWhatStands ==
    [][\A c \in Clicks :
          /\ TakesEffect(c) /\ Protected => clicks[c].saw = stands
          /\ ReloadShows(c) /\ listed'.visible /\ conduct.guard # "UNIQUE"
                => listed'.version > clicks[c].saw]_pageVars

=============================================================================
