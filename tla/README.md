# Base Cafe POS: verification project

This directory holds TLA+ models of the Base Cafe point of sale, the TLC
configurations that model-check them, and TLAPS proofs about them. It is read
beside the repository; paths below are relative to the repository root.

Contents: 1 inventory, 2 the modules and what is left, 3 the offline command
queue, 4 the sale, 5 the stock, 6 the back office, 7 what is proved, 8 what is
only model-checked, 9 what is not modelled, 10 disagreements between the code and
what it says of itself.

## 1. Inventory

The system is a NestJS API over PostgreSQL (`apps/api`), four Next.js front
ends (`apps/pos-web`, `kds-web`, `admin-web`, and the shared packages), and a
queue between the POS page and the API that lets the till work offline.

| Component | State it keeps | Operations | Properties that make it correct |
|---|---|---|---|
| Offline outbox (`pos-web/app/offline/indexeddb-sync-store.ts`, `sync-engine.ts`) | IndexedDB, one database per branch, device and user: commands with sequence number, state, backoff, last error | `enqueue`, `ready`, `markSending`, `applyResults`, `markTransportFailure`, `recoverInterrupted`, `resolve`, `retryPendingNow`; the flush loop around them | a command is never lost, never shown as done before it is; commands of one order take effect in order, unless one is overtaken while its outcome is open; every command settles |
| Sync API (`sync/sync.service.ts`, `sync-recovery.service.ts`) | receipts per (device, sequence), resolutions, idempotency records | `batch`, `process`, `persist`, `resolve` | a command commits at most once however often it is sent; a receipt tells the truth |
| Orders (`orders/orders.service.ts`, `order-operations.service.ts`) | orders, lines with state, snapshots, totals, revisions, merge and split links | create, add/replace/remove line, hold, resume, cancel, move table, transfer, merge, split | the stored total is that of the lines; what is live belongs to an open shift; an order can always be brought to an end |
| Kitchen (`orders/order-sending.service.ts`, `kds/`) | tickets and ticket entries, status timestamps | send, cancel a sent line, transition | what was sent is on a live ticket exactly as long as it is wanted |
| Payments (`payments/payments.service.ts`) | payments, allocations to orders | create, verify, cancel, complete the order | a bill is completed only when paid exactly, and nothing about it changes later |
| Refunds (`refunds/refunds.service.ts`) | refunds with maker, approver, resolver | request, approve, resolve | refunds never exceed the payment; nobody approves their own |
| Shifts and drawer (`shifts/`, `cash-movements/`) | shifts, cashier, opening float, expected cash; movements | open, hand over, close; request and approve a movement | one open shift per device and cashier; the drawer figure of a closed shift stays true |
| Inventory (`inventory*/`) | movements, stock lots, recipes, consumptions | post, reverse, produce, stocktake | a sold line is deducted at most once, reversed at most once |
| Availability (`inventory-availability/`) | rule versions, manual withdrawals | create, confirm, activate, cancel a rule; withdraw; preview; check an order's line | what a preview offers is what an order may take |
| Reports and receipts (`reports/`, `receipts/`) | receipt snapshots | issue a receipt; daily summary, breakdowns, tenders, shift reconciliation | every figure of a day comes to the same money |
| The till's runtime (`cashier-runtime.ts`, `pos-shell.tsx`) | the order on screen, snapshots in IndexedDB | edit offline, pay, refresh from the bootstrap, complete | the screen is what the server and the queue come to |
| Pages (`admin-web/app`, workspaces of `pos-web`, `kds-web`) | the lists a page has loaded, dialogs, busy flags | load, refresh, click, hear the answer | a click takes effect on what its author saw, and once |
| Procurement, catalogue, layout, branch hours, privacy, operations | revision-guarded rows with a status | request, approve, publish, archive | maker and checker differ; only published rows are sold |
| Audit trail (`audit/`) | append-only events, hash chain | append, verify | no event is lost or altered unnoticed |
| Authentication (`auth/`) | users, sessions, MFA challenges, login throttle buckets | log in, step up, revoke | a code is used once; the throttle counts every failure |
| Pure algorithms (`order-calculator.ts`, `tax-calculator.ts`, `packages/domain/src/order-tax.ts`, `business-date-resolver.ts`) | none | price, tax, resolve the business date | sums agree with the parts, whatever is rounded |

How they interact. The cashier's page enqueues `CREATE_ORDER`, `ADD_LINE`,
`SEND_ORDER` and similar commands in its outbox; the flush posts the due ones to
`/sync/batch`; the sync service calls the same domain services the online
controllers call (orders, order sending, KDS, payments). Every
domain command is one serializable transaction that reads the rows it needs,
compares revisions, writes, inserts an idempotency record (unique on key,
operation and scope), the audit event and returns. The shared state is
the database; its unique indexes and triggers (`packages/database/prisma/migrations`)
are a second line of guards. The page reads its outbox counters before it
completes an order or closes a shift.

What is hard: the queue is a distributed protocol with lost calls, resends,
abandoned requests, page crashes and several tabs; each command of a batch is
four transactions on the server; the sale is a state machine spread over six
services whose handlers each check part of a condition that the others can
change afterwards (a payment is confirmed and then a line is removed; an order is
merged and then paid; a shift is closed while a refund waits).

## 2. The modules and what is left

1. `OfflineSync`, `CommandLedger`: the outbox, the sync API and the promise the
   two make together: section 3.
2. `SaleState`, `OrderFloor`, `Till`, `Sale`, `Settlement`: orders, kitchen,
   payments, refunds, shifts and drawer as one state machine: section 4.
3. `StockLedger`, `Consumption`, `Purchasing`, `Production`, composed by
   `StockRoom`, with `LineStock` as the abstract specification of a line's
   deduction: section 5.
4. `AuditChain`, `BranchHours`, `OrderPricing`, `Menu`, `TaxProfiles`,
   `LoginThrottle`, `MultiFactor`, `Access`, `Privacy`, `SecurityAlerts`, `Layout`,
   `Availability`, `CashierRuntime`, `Commands` and `Pages`, gathered by
   `BackOffice`: section 6.
5. `Reports`: receipts and the day's figures over the state of the sale: section 4.

`SumLemmas` holds what the proofs need of finite sets and sums; `OfflineSyncProofs`,
`SaleProofs`, `SaleTillProofs`, `StockProofs`, `AdministrationProofs`, `BranchProofs`
and `OfficeProofs` hold the theorems: section 7. Left to prove: section 8.
Left to model: section 9.

## 3. The offline command queue: `OfflineSync`

### State and code

| Variable | Code |
|---|---|
| `state`, `agg`, `due`, `nextSequence` | the `commands` and `meta` stores of `indexeddb-sync-store.ts`: `LocalSyncCommand.state`, `aggregateId`, `nextAttemptAt <= now`, `SyncMeta.nextSequence` |
| `page` | per runtime (a tab, or a session that signed in again): where its flush stands (`SyncEngine.activeFlush`), the batch it holds in memory, the interrupted commands that `recoverInterrupted` has listed and not yet written back, the command whose resolution dialog waits for the API |
| `request` | per slot one `POST /sync/batch` being served by `SyncService.batch`: commands to do, blocked aggregates, answers so far, and whether a client still waits |
| `applied` | how often the command's domain transaction has committed |
| `receipt`, `resolution` | rows of `sync_command_receipts` and `sync_command_resolutions` |
| `active` | `Device.status = ACTIVE` |
| `faults` | failures so far, bounded by `MaxFaults` |
| `passed` | no code: history of the pairs (c, d) of one order where d was read to be sent while c, queued before it, was SENDING |

A command is the pair (outbox, local sequence number). Every IndexedDB transaction
is one action: `ready` and `markSending` are two, `recoverInterrupted` is a list
(in `OpenPage`) and then a write that looks at no state again, `applyResults` a write and then the sync time. On the server,
each command of a batch goes through the prior-receipt lookup, the idempotency
lookup, the domain commit and the receipt insert, each its own action, so that
any two attempts of the same command interleave between them. `SequenceTaken`
and `PersistTaken` are the paths on which the unique index (device, local
sequence) throws out of the batch; `PersistOutOfScope` is the scope trigger on a
device revoked in the meantime.

Abstractions. Payloads, hashes, error codes and clocks are left out; what the
domain decides (commit, 409, other 4xx, 5xx) is a free choice at `COMMIT`, which
over-approximates the services. A batch is a set because both sides keep it in
sequence order.

Nothing makes a flush wait for `recoverInterrupted`: a click, the `online` event or
the interval may flush before its write, and the write may come while that flush is
under way. Only its list comes first, because the effect of `sync-indicator.tsx`
starts it when the engine appears, on the connection that every later transaction
uses; so opening a page and listing are one action. Several runtimes may share an
outbox: tabs, or a session that is locked while its engine finishes a flush and signs
in again, which creates a second `CashierRuntime` over the same database. The model
keeps all of it, and so commands of one order can be overtaken: `ready` looks at the
PENDING ones only, and a command that is SENDING holds nothing back (section 10,
`overtaken`). What the queue does keep is `OvertakesOnlySending`: a later command
takes effect first only where the earlier one was SENDING when the later one was
read. `CommandLedger` says the same without pages or batches: later commands may be
chosen past those in doubt, are sent together with all they still have to wait
for, and wait for these.

### Runs

| Run | Question | Bounds, and why they are enough |
|---|---|---|
| `outboxes` | does a command commit twice or show as done what was another's; what can overtake a command; is what a drained outbox held accounted for; and does the queue implement `CommandLedger`? | two tabs of one cashier, a second cashier on the same till, 2 commands an outbox, 2 orders, 2 slots, 2 faults, within the constraint `Scope` (below) |
| `one_tab_live` | does every command settle? | 2 commands of one order, 2 slots, 1 fault |
| `overtaken` (violation) | do commands of one order take effect in the order they were queued? | two tabs, 2 commands, no fault at all |
| `shared_till` (violation) | does every command settle on a shared till? | 2 outboxes, 1 device, 1 command each (they collide), no fault at all |
| `lost_acknowledgement` (violation) | does a resolution on the server unblock the till? | 1 command, no fault |
| `duplicate_in_flight` (violation) | is a command acknowledged as without effect really without effect? | 1 command, 2 slots, 1 fault |

`Scope` keeps `outboxes` to the states in which one thing is stretched at a time: one
tab with two orders and one failure, or one order and two failures (both attempts of
a resent command and a crash can be combined); two tabs at once on one order, each
opening, recovering and flushing while the other sends; and the two cashiers with one
command each and one failure. Every state outside is reached by combining these, and
the theorems of section 7 hold of all of them.

`CHECK_DEADLOCK FALSE` in these runs: when all `MaxSequence` commands have been
queued and settled and the device is revoked, the bounded system really stops.

### Fairness

`FairSpec` assumes weak fairness of each page's flush (`sync-indicator.tsx` runs
it every 30 s, on the `online` event and after every click), of the API
working through a request it has accepted, of backoffs running out, of a closed
page being opened again, of the write of `recoverInterrupted` that follows its list
(a transaction that IndexedDB runs), and of an answer to a resolution call. Nothing is
assumed of cashiers, managers or administrators. `ManagerSpec`, used only in a
violation run, adds a manager who tries again and again: even that does not help.
Faults are finite (`MaxFaults`), as liveness requires.

## 4. The sale: `SaleState`, `OrderFloor`, `Till`, `Sale`

### State and code

| Variable | Rows |
|---|---|
| `shift` | `staff_shifts` (device, current cashier, status) and the `expectedCashMinor` of `shift_closes` |
| `order` | `orders` (status, shift, stored `grossTotalMinor`) and, as `into`, `order_merges` |
| `line` | `order_lines` (status, order, quantity, whether `sentAt` is set) |
| `ticket` | `preparation_tickets` with the lines of their uncancelled entries |
| `payment` | `payments` with their `payment_allocations` |
| `refund`, `movement` | `refunds`, `cash_movements` with their approvals |

`SaleState` declares the rows, `Init` and the sums the handlers take over them;
`OrderFloor` has one action per handler that changes orders, lines or tickets;
`Till` those of shifts, payments, completion, refunds and movements; `Sale`
is their disjunction and states the properties; `Reports` reads that state the way
`receipts.service.ts` and `reports.service.ts` query it. Every handler runs in one
serializable transaction behind an idempotency record, so a handler is one
action and a replay none. What two clients can do to each other is therefore
not a torn write but an order of whole handlers that nobody thought of: each
handler checks part of a condition that later handlers of other services can
change.

A status `NONE` means that the row does not exist. Identifiers are chosen by the
client; they are numbers here, and a new row takes the lowest one left, which only
removes renamings of the same state.

Abstractions. One unit of quantity costs one, without tax, modifiers or discount,
so an order's total is its quantity; a line of price zero is not modelled. A tax
profile is pinned by the first line; that the active profile changes between the first lines of
two orders is left out. Permissions decide who may call a handler and are left
out, but who may not approve their own request is kept, and so is the rule that a
payment, refund or movement is made in the cashier's own open shift. Revisions are
left out: a request with a stale one changes nothing. So are the opening float
(a constant of a shift), tables, stations' names and the assigned server. The
stock deduction in `send`, `ready` and `completeOrder` belongs to `Consumption`
(section 5), prices and tax to `OrderPricing` (section 6).

### Properties

- `GrossIsCurrent`: three services (orders, order operations, order sending) each
  have their own recalculation of the stored total, and all other handlers leave it;
  payments and completion trust it.
- `KitchenServes`: lines and tickets are many-to-many (a line with a modifier of
  another station is on two tickets), and tickets advance by themselves.
- `MergedIntoLiving`, `LiveOrdersHaveShift`: an order that guests still have to
  pay is never left without its bill or without its shift.
- `CompletedIsSettled`: relates a completed order to the payments, lines and
  tickets of all orders merged into it, also after completion.
- `OneOpenShift`, `ClosedShiftStands`: a cashier receives a shift while opening
  another; nothing decided later changes what a closed shift was counted against.
- `BooksAgree`: the receipt of a completed order, sales by order, by item and by
  channel, the tenders and the reconciliation of shifts are six queries over different
  rows, with merged and split orders; they come to the same money.
- `ImplementsSettlement`: the refinement of `Settlement`, the abstract specification.
  A bill is settled when its order is completed, at what was confirmed for it; it is
  returned what confirmed refunds of payments anchored at it come to, never more
  than it was settled for: two requests that race must count each other.

### Runs

| Run | Bounds, and why they are enough |
|---|---|
| `sale_floor` | 2 users, one device and shift; 2 orders, 3 units in up to 3 lines, 1 ticket, 2 payments. Two orders are merged or split, a line is split in two and moved, a sent one cancelled while its ticket is at any stage. The constraint `BillBound` keeps, once somebody has paid, to two lines of one unit, one payment that is not in cash and a shift that is not handed over: each bill is then paid in parts, across a merge, one payment racing the other or the completion. A line on tickets of two stations needs two tickets: that instance is ten times as large and passes too, and the theorems cover it |
| `sale_money` | 3 users (request, approve, resolve), 2 devices, 2 shifts, 2 orders, 1 line of at most 2 units, 1 payment, 2 refunds, 1 movement in either direction. The constraint `MoneyBound` allows two refunds to race within one shift; or, with one unit sold, both shifts open at once on two tills and handed over, with one refund or a movement (one that waits or is rejected only before the order is sent); or the paid order merged into another |
| `merged_draft` (violation), `overpaid` (violation) | one user; 2 orders and 2 lines, or 1 order, 2 lines and 1 payment |

The two constraints bound the sum of two instances that are each closed under the
actions they leave in; a state just outside is checked, but not continued.
`CHECK_DEADLOCK FALSE` everywhere: when the bounded identifiers are used up and
the shifts closed, nothing can be done any more. The users and devices
are symmetric. There is no fairness: nobody is obliged to serve, pay or refund.

## 5. The stock: `StockLedger`, `Consumption`, `Purchasing`, `Production`, `StockRoom`

### State and code

| Variable | Rows |
|---|---|
| `ledger` | `inventory_movements`, grouped by the document they belong to; no quantity on hand is stored in the code either, it is the sum of the entries |
| `authorised` | not stored: whether a shortage of a place was allowed by an override since its balance was last at zero or above |
| `count` | `stock_counts` with their lines |
| `clock`, `policy`, `version` | deduction policies; recipe, route and modifier effect versions with the moment they count from |
| `sentAt`, `readyAt`, `completedAt`, `cancelled` | the time stamps of lines, tickets and the order that consumption reads |
| `consumption` | `order_line_consumptions`: status and the entries it was posted with |
| `purchase`, `received`, `returned` | one purchase order with its receipts and returns |
| `batch` | production batches |

`StockLedger` holds the entries and the commands that write them directly
(adjustment, transfer, count); `Consumption` is the consumption service with the
events of the sale that call it; `Purchasing` is `procurement.service.ts`,
`Production` the batches. `StockRoom` runs all four on one ledger, because each
checks its own shortage against a balance that the others change. Every handler is
one serializable transaction, hence one action.

### Properties

- `ShortageIsAuthorised`: the checks are made entry by entry, by five services,
  and some directions are not checked at all (a reversal of a purchase's shortage, the
  output of a batch).
- `ReversedIsNeutral`, `CancelledIsPutBack`: recipes, routes, policies and effects
  change between a posting and its reversal, and a manager may post by hand while
  the waiter cancels.
- `PurchaseWithinOrder`: several receipts and returns against one order line, in the
  supplier's unit and the item's.
- `ImplementsLineStock`: whatever event posts a line, under whatever policy, its
  goods leave once and come back once.

### Run

`stock`: two shelves, two items, two lines of which one carries a modifier, two
tickets, two policies (sent, prepared), two recipe versions, three route versions,
two effect versions, two purchase order lines with two receipts and two returns,
one batch, one count. `Budgets` bounds how many steps of each kind one behaviour may
hold; five budgets each favour one pair of services (sales with changes of policy;
purchases; manual commands with purchases; with production; alone), so that every two
services meet, but not all five in full length.

## 6. Beside the sale and the stock: fifteen modules and `BackOffice`

These parts share no rows that matter to their properties. `BackOffice` is
their sum: the variable `office` says which part moves in a behaviour, and
all behaviours of every part are among those of the sum. Nothing is lost by it:
an interleaving of two parts without common state shows nothing that the parts
do not show alone. One run then checks them all.

| Module | Code | State and actions | Properties |
|---|---|---|---|
| `AuditChain` | `audit/` | audit rows get their time stamp inside a transaction and appear at its commit, perhaps after rows with later stamps have been chained; a batch chains what is past the end; a verification recomputes; a row may be altered or lost behind the API's back | `ChainIsReliable`: a verification that says VALID is right, and one that says INVALID is right unless a row has appeared behind the end; and a row that could be chained is never jumped over, whatever the limits and ties of time stamps |
| `BranchHours` | `branch-hours/` | weekly schedules and special hours from draft to cancellation; the resolver's segments, by minutes of the model's day and week | `ResolutionIsTimetable`: the resolver agrees with a timetable written out minute by minute, past midnight, past the week, across a holiday and a change of cutoff, and what applied yesterday is not rewritten |
| `OrderPricing` | `orders/order-calculator.ts`, `tax/tax-calculator.ts`, `packages/domain/src/order-tax.ts` | an order grows line by line under one kind of profile | `TillAgreesWithServer`: two implementations, one result. `TaxReconciles`: components, lines and total agree whatever is rounded |
| `TaxProfiles` | `tax/tax.service.ts` | draft, edit, confirm, activate; a page shows what it read | `TaxIsAsApproved`: what is in force is what its accountant saw, and the intervals of profiles in force do not overlap |
| `Menu` | `catalog/` | one item with variants, stations, tax classes and price rows; the commands and the import of a file | `PricesStand`: one price holds at a time, and those of the past are not rewritten. `ActiveItemIsComplete` |
| `LoginThrottle` | `auth/login-throttle*.ts` | counters per account, device and address; logins that check, verify the password, then count or reset, each step a transaction | `LocksHold`: a lock is not cut short by a failure that arrives late |
| `MultiFactor` | `auth/mfa.service.ts`, `auth.service.ts` | enrolment, activation, reset, disabling; a code is found in one statement and spent in another | `CodesAreSpentOnce` |
| `Access` | `auth/`, `administration/`, `security-operations/` | staff, roles, devices and sessions; a login is three steps and may be overtaken | `WithdrawnAccessStays`: no session opened before access was withdrawn works after it was given back, and an ended session stays ended |
| `Privacy` | `privacy/` | one customer, the contacts orders keep, requests, restriction, legal hold, anonymisation, key rotation and rewrapping | `ErasedForGood` |
| `SecurityAlerts` | `security-operations/` | evaluations with any window, by hand or timer; alerts, acknowledged and resolved | `EventsCountOnce` |
| `Layout` | `layout/` | areas and tables | `ActiveTablesAreInActiveAreas` |
| `Availability` | `inventory-availability/` | rules on critical ingredients from draft to cancellation, withdrawals by hand, the catalogue's switch; the answer to a question is an operator over the balances of the ledger, any of a set | `QuotesAddUp`: an order passes exactly up to the number a preview offers, its goods leave the safety stock alone, and what is offered next is lower by what was ordered |
| `CashierRuntime` | `cashier-runtime.ts`, `pos-shell.tsx`, `sync-bootstrap.service.ts` | one order on screen, edited offline and online; the queue, the server's order, bootstraps that answer late, another till that changes the order | `ScreenIsBacked`: what is on screen is what the server has and the queue will make of it |
| `Commands` | the idempotent wrapper, of which 28 services have a copy | requests with a key and a version; look the key up, work, commit with the record, or run into a constraint; one constant per copy, with its isolation and the errors it answers 409 | `CommandsTakeEffectOnce` |
| `Pages` | `admin-client.ts` and the pages of `admin-web`; workspaces of `pos-web`; `kitchen-shell.tsx`; `web-client` | a page's list with its version, loads in flight, a dialog or form, clicks under way; tables say how each of 18 pages conducts itself, and of each of its calls what the server compares, and when | `DecidedOnWhatStands`: a command that the server compares takes effect on what its author had on screen, whatever was lost, doubled or overtaken; and after it is answered the page shows something newer |

What the models show besides, and no property forbids because nothing in the
repository says otherwise:

- A row of the audit trail that commits after a later one has been chained makes
  the verification say INVALID although nothing was altered.
- An active tax profile without an end can never be ended, and then no later one
  can be activated.
- A login that succeeds between another's failure and its lock resets the counter
  and the lock with it.
- A reset of a pending second factor may disable one that was activated meanwhile:
  `mfa.service.ts` compares revision and status before the transaction (184, 237,
  318), which then updates the row by its id alone. `Pages` has a guard of its own for
  the three calls (EARLIER: `Compare` and `TakeHold` are two steps), and
  `DecidedOnWhatStands` promises only its second half of them.
- An alert does not count an event that commits late, or within the millisecond of the
  last one seen.
- A contact with a phone number can never be anonymised: the trigger of migration
  202608080003 (line 180) refuses to change `phone_blind_index`, the CHECK of
  202608080002 and `privacy.service.ts:640` require it to be NULL. The contacts of a
  customer that are not linked to the profile are never anonymised.
- A table is deactivated without a look at the orders it has.
- A count that is posted late counts away what has moved since.
- The form of a tax profile (`tax-configuration.tsx`, `edit` and `submit`) keeps
  its fields while the list is loaded again, and sends the revision of the list: the
  change of another person in between is overwritten. `DecidedOnWhatStands` leaves
  this form out.
- Every click makes a new idempotency key and new identifiers, so a call without a
  revision or a natural key takes effect again when it is repeated after a lost answer
  (`Postings` in `Pages`: adjustments, transfers, counts, productions, returns,
  drafts, requests of refunds and of cash, readiness evidence). The administration,
  security and readiness pages and the buttons of the catalogue are not locked while
  a command runs, so that a double click is enough.
- Loads of a page overlap, and the last answer is shown, older or not; a load of one
  kitchen station that answers after another was chosen goes back to the first.
- Of the wrapper's copies, some do not catch a serialization failure, and some
  catch nothing: of two racing requests with one key the loser is answered 500 there,
  and 409 elsewhere, where the till then keeps a conflict. The second factor's
  transactions are not serializable, and `expiresAt` of a record is never looked at.
- `order-workspace.tsx` and `receipt-workspace.tsx` look for `STALE_REVISION` in the
  message of an error, which has it in `code`: the advice to refresh is never shown.
- A bootstrap from the cache shows an older order than the one on screen, and one
  from the server drops an order whose creation is still queued.
- The answer about a dish also requires its stock items to be active
  (`inventory-availability.service.ts:612`); no endpoint makes one inactive, so
  `RuleIsValid` leaves it out.
- The check of an order's availability reserves nothing: two orders may be taken on
  the same stock, and consumption decides. It reads the recipe version a rule is
  pinned to, consumption the newest.
- A later withdrawal by hand supersedes an earlier one without end, and ends it.
- A cash movement rejected days after it was requested is in no day's exceptions.

### Run

`back_office`: two or three of everything. The two schedules, two special
days and three dates of `BranchHours` let windows meet over midnight, the end of
the week and a change of schedule (a day is three units, a week two days); the tax
rules are all combinations of price mode, rounding and scope with one to three
components in tenths; four audit rows give two batches with ties; three requests
race for the codes of two credentials. Three attempts with two keys and two versions
race in each of the wrappers. The availability has two recipes, one of which does
not divide evenly, three rules over one and two shelves, and seven ledgers; a page has two
clicks and two loads, and its row is changed twice. The constraint `SmallOffice`
keeps the till to one queued command while a bootstrap is under way or others change
the order, to one command and no action beside a bootstrap once it shows something else than the
server has, one contact with a phone number or no profile, one withdrawn target beside one rule,
two lines where tax is by the line, and three clicks and loads together; and it takes
names that are used once (attempts, keys, clicks, events, contacts, requests) in one order, the others being the same
behaviours with the names exchanged.
`CHECK_DEADLOCK FALSE`: each part stops at its bounds.

## 7. What is proved

### The queue

`OfflineSyncProofs`, for any number of pages, outboxes, devices, orders, slots,
commands and faults; the proofs use `ConstantsAssumption` only.

- `TypeCorrect`: `Spec => []TypeOK`.
- `SyncedCommandsCommitted`, `DrainedOutboxAccounted`:
  `SyncedOnce` and `DrainedIsAccounted` are invariants, with any number of tabs
  per outbox and cashiers per device. The inductive invariant is `Shape /\ Truth`.
  `Shape` fixes what a request, a page and a sequence number can look like
  together (a command in a request has been queued, one that has been answered is no longer to do, an
  answered slot has an owner). `Truth` says that every place that claims a
  command was applied (an `APPLIED` answer on its way, an `APPLIED` receipt, a
  slot at step `APPLIED`, the outbox's `SYNCED`) is backed by a commit, and that
  `RESOLVED` is backed by a resolution. Neither property is inductive alone:
  `SYNCED` comes from an answer, the answer from a receipt or a commit.
- `OnlySendingIsOvertaken`: `OvertakesOnlySending`, and
  `QueueImplementsLedger`: `Spec => ImplementsLedger`, with any number of tabs per
  outbox. The invariant adds `Order`: for every earlier command of the same order, a
  command that was read to be sent has it in its batch, and one that a server has
  still to process has it in the same request, in front of it or already refused
  there (then the order is blocked for the rest of the request), unless the earlier one
  has taken effect, been dismissed, or was passed over (`Gone`). It holds
  of every batch and every request by itself, so what other tabs, recoveries and
  abandoned requests do to the outbox meanwhile cannot break it: they only enlarge `Gone`.
  For the refinement, `StepKinds` sorts the steps into the six of the ledger and those
  it does not see (`Stutters`).

`AppliedInOrder` itself is no theorem: it is false (section 10). The strengthened
invariants were first checked with TLC on the instance of `outboxes`.

### The sale

These proofs are for any number of users, devices, shifts, orders, lines, tickets,
payments, refunds and movements; they use `SaleAssumption` only. The invariant
is built in three layers, each used by the next.

- `SaleProofs`: `OrderInv`, about shifts and orders. Besides the properties
  themselves it says that a live order has a shift (`Placed`) and that exactly the
  merged orders are part of another (`Joined`): only so does the check that an order
  has no merge sources before it is cancelled protect every merged order. Theorems
  `OneOpenShiftEach`, `LiveOrdersKeepTheirShift`, `MergedOrdersAreBilled`.
- `SaleProofs`, second part: `FloorInv`. For the kitchen, a ticket lists only wanted
  lines that were sent (`OnTickets`), and lists some while it is in preparation
  (`Prepared`): this is what makes it right to cancel a ticket exactly when its last
  line is withdrawn. For the totals, a line belongs to an order that exists
  (`Owned`), so that a new order comes to nothing. Theorems `KitchenServesTheFloor`
  and `StoredTotalsAreCurrent`.
- `SaleTillProofs`: `TillInv`. That a closed shift's figure stands
  (`ClosedShiftsStand`) and a completed bill stays settled
  (`CompletedBillsStaySettled`) have the same argument: a step leaves each row as it
  was or changes one that is no part of the sum. A refund must be backed by a payment
  that exists (`Backed`), because the drawer's figure reads the method of the payment
  of each refund. A payment taken after a bill is completed is for another bill
  because a merged order is part of one order only (`Joined`), and a payment that
  waits for its verification is on no completed bill because completion refused that.
- `SaleTillProofs`, second part: `MoneyInv` says that amounts are natural numbers and
  that a payment's allocation is over orders that exist and comes to something; with
  the layers below it gives `SaleTypes`. `ReturnsFit` says that what is reserved
  for refunds of a payment is within its amount, whatever requests race; so what
  is returned of a bill is within what was confirmed for it, since a payment
  made at an order pays only for it and for what is merged into it (`PaidOnBill`,
  `ReturnsAreFit`). A completed bill's confirmed sum stays (`CompletedStays`), one
  refund moves the returns of one bill (`OneRefundReturns`), and so each step is one of
  `Settlement` or none: `SettlementIsKept`. `BooksAlwaysAgree` sums the same
  confirmed money by order, by line and by payment: a completed order's total is that of
  its lines, its confirmed payments are its total, and each sum over pairs may be
  taken by rows or by columns (`SumSwap`).

### Sums

A sum of the community modules is a fold: the value at a finite set of a function
chosen to satisfy a recursive equation. `SumLemmas` proves what such a definition
needs without induction over an operator: any non-empty collection of subsets of a
finite set has a smallest member (`SmallestSet`, from the well-foundedness of proper
subsets), which serves as induction over sets given as data (`SetInduction`). From it: the
function exists (`AddsExists`), any element may be taken first (`SumSplit`), one
changed term changes the sum by its difference (`SumUpdate`), sums add, compare,
rename, filter and swap. It also has what two parts need of finite sets: the image of
one is finite (`ImageIsFinite`), and a set without two different members counts one at
most (`AtMostOne`).

### The stock

`StockProofs`, for any number of shelves, items, lines, recipes, policies, purchases,
batches and counts, with any quantities; from `LedgerAssumption`,
`ConsumptionAssumption`, `PurchaseAssumption`, `BatchRecipe` and `DocumentsDiffer`. The inductive invariant is
`StockInv`. A balance is the sum of a column of the ledger (`BalanceIsSum`), and
posting a document moves it by what the document holds of that place (`RecordMoves`,
`PostKeepsShortage`); what consumption draws over several deductions of one place
in turn is followed by `DrawAllMoves`. `NoSilentShortage` follows because every direction
that may put a balance below zero is authorised, and the others check each place
against the balance at that moment. `LineKept` and `BatchKept` say of a document
that a reversed one holds nothing and a posted one holds what it drew; so
`ReversalsAreComplete` and `CancelledLinesTakeNothing`, whose cancelled line must have
been reversed by the cancellation itself or never have been due.
`PurchasesStayWithinOrder` needs that what a receipt holds in the ledger is what it
received less what was returned (`NetMoves`), in two units and summed over lines
and papers in both orders. `LinesAreTakenOnce` is the refinement of `LineStock`.

### The administration

`AdministrationProofs`, for any number of rows, requests, codes, prices and instants;
from the named assumptions of `Menu`, `TaxProfiles`, `LoginThrottle`, `MultiFactor`,
`Privacy`, `SecurityAlerts`, `AuditChain` and `CashierRuntime`. The theorems are of `BackOffice`'s `Spec`. A
first lemma per part says that `Spec` implies the part's own specification
(`LayoutRuns`, `PrivacyRuns`, ...): each turn of the office is a step of one part and leaves the
variables of all others alone. Each part then has an invariant of its own:

- `OpenTablesAreInOpenAreas`: a table that exists has an area (`Placed`).
- `ErasedDataStaysErased`: an anonymised profile is empty, as is every contact that
  names it, and only an anonymised profile has a completed request for it (`Erased`).
- `RecoveryCodesAreSpentOnce`: one credential at most counts at any time (`OneCurrent`),
  and a code has been paid for exactly when it is used (`Paid`); a request that found a
  code and lost the race finds it used in the statement that spends it.
- `TaxStaysAsApproved`: a page shows a profile as it is or at a lower revision
  (`ShownOrOlder`), so that a confirmation with the current revision is of what was
  seen; active intervals are apart (`ActiveApart`).
- `LocksLast`: no login is of a later moment than the clock, so that what it reports
  late cannot cut a lock short.
- `AccessStaysWithdrawn`: an active session has not been outlived by a withdrawal
  (`AccessInv`), and no step makes an ended one active (`NothingRevives`).
- `ActiveItemsAreComplete`, `ChargedPricesStand`: rows of one target are apart and each
  stays or ends now (`PricesStay`), for commands and for every row of a file in turn.
- `EventsAreCountedOnce`: what an alert counts is among the events up to the last one
  it has seen (`Counted`), so that those after it are new; the sum an alert shows is
  compared with the number of such events.
- `AuditChainIsReliable`: `ChainInv` ties what a batch recorded to the rows there were. Rows
  are ordered by moment and id (`RowsAreOrdered`), the end of every batch is its last
  row, the ends ascend, and whatever is altered or lost had been chained. So a
  recomputation differs exactly where a batch's rows have changed (`MatchesSo`,
  `VerdictTells`), and a batch taken from what is past the end passes over no row that was
  there (`NothingIsPassed`).
- `ScreenAlwaysBacked`: the forecast of a queue is an iteration, of which the library
  has no induction: `CountingUp` takes the greatest number that a set of numbers
  holds up to, and with it two queues that end alike come to the same but for what is
  paid (`SameEnd`), and a command that is refused or has stopped is never passed
  (`RefusedForGood`). `RuntimeInv` adds to the property what it needs: an action under way
  keeps the page busy and none is under way while a sale is completed (`OneThing`), so that
  what is shown, or about to be, fits the forecast (`ScreenInStep`); and nothing the page
  has seen, the document and the answer under way included, is paid beyond the server's
  order (`RuntimeOrders`). A tender in the queue does not count; a refused edit makes
  the hypothesis false for as long as it stands.

### What a branch computes

`BranchProofs`, for any number of lines, components, ingredients, shelves, rules,
schedules and days, and any amounts, rates, recipes, balances and hours; from
`PricingAssumption`, `AvailabilityAssumption` and `HoursAssumption`. These say what the
database and the request schemas admit: rates between nothing and the whole, at least one
component, quantities of a recipe above zero, a shelf for each critical ingredient,
windows that begin within a day and last a day at most. The theorems are of `BackOffice`'s `Spec`. The
solver has no nonlinear arithmetic, so products and quotients go through a few lemmas
(`Larger`, `Smaller`, `Divided`, `DividedOnce`), and every sum through `SumLemmas`.

- `TillAlwaysAgrees`: the server and the till decide in different ways when to round up;
  both give the same number (`RoundedSo`), from there on the same operations follow
  (`TillTaxSo`).
- `TaxAlwaysReconciles`: dealing a total out gives every part its quotient and one unit
  more to as many as the remainders come to, the greatest first. Who has fewer than k ahead
  of them are exactly k (`Ranked`, `PrecedingRanks`), and the remainders come
  to less than one unit for each part that has one (`RemaindersSum`); so the parts come to
  the total, none is off its share by a unit, and a part of weight nothing gets nothing
  (`ApportionSo`). The tax of an amount is off the exact one by less than one unit for each
  rounding (`ExclusiveSo`, `InclusiveSo`), and these facts are put together for profiles
  that tax each line and for those that tax the invoice (`LineScope`, `InvoiceScope`,
  `OrderSo`), the inclusive price never being below the tax in it.
- `QuotesAlwaysAddUp`: what is usable of an ingredient is enough for q portions exactly
  when the rounded quotient is at least q, and taking them lowers the quotient by q,
  also if the recipe does not divide evenly (`QuoteSo`); the offer is the least of the
  ingredients' (`OfferSo`, `MinFalls`). That no rule in effect turns out invalid rests on
  `AvailabilityInv`: a rule that exists names a recipe in use, which began before it and
  holds its ingredients.
- `TimetableIsKept`: an active schedule has no two windows that meet, and active rows of one
  start or one day are one (`HoursInv`). The windows of the overlap check are laid
  out along a week, those of the resolver along days: both cover the same place
  (`Place`, `SegmentCovers`), also when a window runs past midnight and past the end of
  the week (`PlaceAtMidnight`). So one window at most is open
  (`OneIsOpen`, `OneOverMidnight`), and none that opened earlier than yesterday. Each
  operation on a schedule or on special hours starts today or later (`PastSo`), hence
  what applied on a past date stays.

### The wrapper and the pages

For any number of requests, keys and versions, and of clicks, loads and versions;
the theorems of `OfficeProofs` use `CommandAssumption` (no record is taken for the absence of one) and
`PageAssumption` (nobody is no click, and the row a page shows has a version). Both are of
`BackOffice`'s `Spec`, which implies the specifications of its parts (`CommandRuns`, `PageRuns`).

- `CommandsHaveOneEffect`: `Spec => []CommandsTakeEffectOnce`.
  The invariant ties three places together: each record is backed by an edit and
  each edit by a record (`Backed`), an attempt that edited is answered "ok" or lost
  (`Committed`), and whoever is told "ok" is told of an edit of the very request
  (`Answered`). That an edit is committed only while its key has no record makes it
  the only one of its key; that serializable edits are of versions below the current
  one (`InOrder`) makes each the only one of its version.
- `ClicksAreDecidedOnWhatStands`: `Spec => DecidedOnWhatStands`, for the
  conduct of every page; its first half is of the calls that the server compares in the
  transaction that changes the row, its second half of all. Nothing listed, loading or in a click is newer than what stands
  (`NotAhead`), so a name that the server finds free was
  not on the person's screen;
  a click carries the version that was on screen, except on the tax page (`Faithful`);
  what has been answered was decided on something older than what stands by then
  (`Outdated`), so that the load begun afterwards reads something newer (`Renewed`).
  The last needs that the tax page does not load again after a refusal
  (`FieldsAreKept`).

### The types of the office

`BackOfficeTypes`: `Spec => []BackOfficeTypeOK`, of all the parts of `BackOffice` at once
(`OfficeProofs`). The invariants above already hold most of the types; what is
left is that counters, revisions and queues stay within their bounds. Each part has its own
fact: `CountersFit` and `RevisionsFit` (login throttle, tax), `AccessFits`, `MenuFits`, `GaugeFits`,
`VersionsFit`, `ChainFits`, `EditsFit` and `ClicksFit`. The one that takes an argument is `OrdersFit`,
of the order a cashier's page sends its commands about: a queued edit quotes a revision below
the last, and a payment is accepted only within what is due, which no
order exceeds (`DueIsBounded`, from `SumTimes` and `SumMonotone`). Besides the assumptions
above it uses `AccessAssumption`, that an order has finitely many lines of a positive greatest
quantity, and that the greatest revision of a tax profile is positive.

## 8. What is only model-checked

- `EveryCommandSettles`: liveness under fairness is out of the proof system's reach.
  Every invariant and action property of the passing runs is a theorem of section 7.

## 9. What is not modelled

PROJECT.json lists every component with its status. Left out for good: rendering,
forms and their validation; the text of receipts and of spreadsheets; the tax summary
and the exceptions of the reports; master data nothing else depends on (suppliers,
categories, modifier groups, role definitions); what readiness evidence says;
deployment scripts, backup tools, and integrations (declared interfaces without code
behind them). The offline unlock is a key derivation and an expiry test. Within the
modelled parts: time zones (local time is the model's), permissions where they only
decide who may call, and in the domain modules the revisions a client quotes and the
idempotency records, which `Pages`, `Commands` and `OfflineSync` are about.

## 10. Disagreements between the code and what it says of itself

Each has a run in which TLC finds the violation; PROJECT.json quotes the line.

- `shared_till`: two cashiers on one till number their commands from 1 each, but the
  server keeps one sequence per device: the second one's queue is answered 409 for ever.
- `overtaken`: `ready` passes over a command that is SENDING and takes the later ones
  of its order. A second tab, a session that signs in again while the locked one still
  flushes, or a click before `recoverInterrupted` has written sends them in a request of
  their own, and the server may apply them first. Most commands quote a revision and are
  then refused; a cash payment does not.
- `lost_acknowledgement`: a command resolved by a manager on the server's list stays
  terminal on the till, and blocks its order there.
- `duplicate_in_flight`: a resend that races the first attempt leaves a CONFLICT
  receipt for a command that has taken effect.
- `merged_draft`: merging an order with an unsent line makes a bill that can never
  be completed or cancelled, and a shift that can never be closed.
- `overpaid`: lines may be taken off an order after it was paid; the confirmed sum
  then exceeds the total, and the money cannot be refunded before completion.

Without a run, because nothing in the repository says what should happen: a
payment anchored at an order that is afterwards merged or cancelled can never be
refunded (`refunds.service.ts:171` requires that very order to be completed).
Section 6 lists what else the models show.
