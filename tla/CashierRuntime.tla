--------------------------- MODULE CashierRuntime ---------------------------
(***************************************************************************)
(* The order on the screen of a till, and the one on the server (apps/      *)
(* pos-web/app: pos-shell.tsx, offline/cashier-runtime.ts; apps/api/src/    *)
(* sync/sync-bootstrap.service.ts).  An edit is queued as a command, then   *)
(* the order it will lead to is stored and shown before the server has      *)
(* seen it.  The bootstrap document replaces what is shown by the server's  *)
(* version, or offline by that of the last document.                        *)
(*                                                                          *)
(* One order of one till.  The outbox is that of OfflineSync, reduced to    *)
(* what the page can tell: commands leave it in order, or stop it.          *)
(* Abstracted: prices (a unit costs one), tables, guests, tickets; whether  *)
(* the page is online is chosen at each step.                               *)
(***************************************************************************)
EXTENDS Integers, Sequences, FiniteSets, FiniteSetsExt

CONSTANTS
    LineIds,      \* numbers from 1; an id is used again when nothing names it
    MostUnits,    \* bound of a line's quantity
    LastRevision, \* bound of an order's revision
    QueueLength,  \* bound of the commands in the outbox
    MaxForeign    \* bound of what others do to the order

ASSUME RuntimeAssumption ==
    /\ LineIds \subseteq Nat \ {0} /\ IsFiniteSet(LineIds) /\ MostUnits \in Nat \ {0}
    /\ LastRevision \in Nat /\ QueueLength \in Nat /\ MaxForeign \in Nat

VARIABLES
    server,     \* the order's row, its lines and confirmed payments
    queue,      \* the commands in the outbox, oldest first
    document,   \* the order in the bootstrap document of the page and the cache
    working,    \* the order stored as the working snapshot
    shown,      \* the order on the screen
    action,     \* the order an action under way will store and show
    refresh,    \* how far a bootstrap under way is, and what it has read
    busy,       \* whether most buttons are disabled
    foreign,    \* how much others may still do
    apart       \* not in the code: others have changed the order, or the page has
                \* shown a version that is not the server's and the queue's

orderVars   == <<working, shown, action, refresh, document, busy>>
runtimeVars == <<server, queue, foreign, apart, orderVars>>

Ordered == [status: {"NONE", "OPEN", "HELD", "PAYMENT_QUEUED", "COMPLETED"},
            revision: 0..LastRevision, lines: [LineIds -> 0..MostUnits],
            sent: SUBSET LineIds, paid: 0..(MostUnits * Cardinality(LineIds))]
NoOrder == [status |-> "NONE", revision |-> 0, lines |-> [l \in LineIds |-> 0],
            sent |-> {}, paid |-> 0]
NoRefresh    == [step |-> "none", order |-> NoOrder]

Standing(o)   == {l \in LineIds : o.lines[l] > 0}
LineDrafts(o) == Standing(o) \ o.sent
Due(o)        == MapThenSumSet(LAMBDA l : o.lines[l], LineIds)
OnServer(o)   == o.status \in {"OPEN", "HELD"}

RuntimeTypeOK ==
    /\ {server, document, working, shown, action} \subseteq Ordered
    /\ refresh.step \in {"none", "asked", "synchronizing", "completing", "read", "ending"}
    /\ refresh.order \in Ordered
    /\ busy \in BOOLEAN /\ apart \in BOOLEAN
    /\ Len(queue) <= QueueLength

RuntimeInit ==
    /\ server = NoOrder /\ document = NoOrder /\ working = NoOrder
    /\ shown = NoOrder /\ action = NoOrder /\ refresh = NoRefresh
    /\ queue = <<>> /\ busy = FALSE
    /\ foreign = MaxForeign /\ apart = FALSE

-----------------------------------------------------------------------------
(* Commands.  wave is what a send wave holds; units a quantity or an amount. *)
NewCommand(type, line, wave, units) ==
    [type |-> type, revision |-> shown.revision, line |-> line, wave |-> wave,
     units |-> units, stopped |-> FALSE]

Edits(c) == c.type \notin {"CREATE", "PAY"}

(* What the services require of the order as it is by now.                  *)
Accepts(o, c) ==
    \/ c.type = "CREATE" /\ o.status = "NONE"
    \/ c.type = "PAY" /\ OnServer(o) /\ o.paid + c.units <= Due(o)
    \/ /\ Edits(c) /\ o.revision = c.revision
       /\ o.status = IF c.type = "RESUME" THEN "HELD" ELSE "OPEN"
       /\ c.type \in {"REPLACE", "REMOVE"} => c.line \in LineDrafts(o)
       /\ c.wave \subseteq LineDrafts(o)

(* A replacement is a new line; it takes the id of the old one here.        *)
Outcome(o, c) ==
    LET edited ==
          CASE c.type \in {"ADD", "REPLACE"} -> [o EXCEPT !.lines[c.line] = c.units]
            [] c.type = "REMOVE" -> [o EXCEPT !.lines[c.line] = 0]
            [] c.type = "SEND"   -> [o EXCEPT !.sent = @ \cup c.wave]
            [] c.type = "HOLD"   -> [o EXCEPT !.status = "HELD"]
            [] c.type = "RESUME" -> [o EXCEPT !.status = "OPEN"]
    IN CASE c.type = "CREATE" -> [o EXCEPT !.status = "OPEN", !.revision = 1]
         [] c.type = "PAY"    -> [o EXCEPT !.paid = @ + c.units]
         [] OTHER             -> [edited EXCEPT !.revision = @ + 1]

(* The server's order once the queue has been applied, all of it accepted;   *)
(* and whether a page shows just that: payments aside, which are only shown  *)
(* when confirmed.                                                           *)
Advanced(a, c) ==
    IF c.type = "PAY" THEN a
    ELSE [order |-> Outcome(a.order, c),
          accepted |-> a.accepted /\ ~c.stopped /\ Accepts(a.order, c)]
AheadOf(o, commands) ==
    LET after[n \in 0..Len(commands)] ==
          IF n = 0 THEN [order |-> o, accepted |-> TRUE]
          ELSE Advanced(after[n - 1], commands[n])
    IN after[Len(commands)]
Ahead == AheadOf(server, queue)
InStep(o) ==
    /\ Ahead.accepted
    /\ \A n \in {"revision", "lines", "sent"} : o[n] = Ahead.order[n]
    /\ (IF o.status = "PAYMENT_QUEUED" THEN "OPEN" ELSE o.status) = Ahead.order.status

-----------------------------------------------------------------------------
(* The cashier.  An action enqueues its command, then stores and shows the   *)
(* order.                                                                    *)
Mentioned ==
    UNION {Standing(o) : o \in {server, document, working, shown, action, refresh.order}}
        \cup {queue[n].line : n \in DOMAIN queue}

Perform(command, next) ==
    /\ ~busy /\ action = NoOrder /\ Len(queue) < QueueLength
    /\ next.revision <= LastRevision
    /\ queue' = Append(queue, command) /\ action' = next /\ busy' = TRUE
    /\ UNCHANGED <<server, foreign, apart, document, working, shown, refresh>>

(* Faulty variant: the order shown keeps its revision.                       *)
EditSameRevision(command, next) == Perform(command, next)

Edit(command, next) == Perform(command, [next EXCEPT !.revision = @ + 1])

StartOrder ==
    /\ shown = NoOrder /\ document.status \notin {"OPEN", "HELD"}
    /\ server = NoOrder /\ queue = <<>>
    /\ Perform(NewCommand("CREATE", 0, {}, 0),
               [NoOrder EXCEPT !.status = "OPEN", !.revision = 1])

Writable == shown.status = "OPEN"

AddOrderLine(l) ==
    /\ Writable /\ l \notin Mentioned /\ \A k \in LineIds : k < l => k \in Mentioned
    /\ Edit(NewCommand("ADD", l, {}, 1), [shown EXCEPT !.lines[l] = 1])

ReplaceQuantity(l, quantity) ==
    /\ Writable /\ l \in LineDrafts(shown) /\ quantity \in 1..MostUnits
    /\ quantity - shown.lines[l] \in {-1, 1}
    /\ Edit(NewCommand("REPLACE", l, {}, quantity), [shown EXCEPT !.lines[l] = quantity])

RemoveOrderLine(l) ==
    /\ Writable /\ l \in LineDrafts(shown)
    /\ Edit(NewCommand("REMOVE", l, {}, 0), [shown EXCEPT !.lines[l] = 0])

HoldOrder ==
    /\ Writable
    /\ Edit(NewCommand("HOLD", 0, {}, 0), [shown EXCEPT !.status = "HELD"])

ResumeOrder ==
    /\ shown.status = "HELD"
    /\ Edit(NewCommand("RESUME", 0, {}, 0), [shown EXCEPT !.status = "OPEN"])

SendOrder ==
    /\ Writable /\ LineDrafts(shown) # {}
    /\ Edit(NewCommand("SEND", 0, LineDrafts(shown), 0), [shown EXCEPT !.sent = Standing(shown)])

(* A tender within what the dialog calls available.  Offline it is queued,   *)
(* and does not count as confirmed; the dialog stays open.                   *)
Tender(amount) ==
    /\ shown.status \in {"OPEN", "PAYMENT_QUEUED"} /\ shown.paid + amount <= Due(shown)

(* Faulty variant: what was queued is shown as paid.                         *)
QueuedAsPaid(amount) == [shown EXCEPT !.paid = @ + amount]

Queued(amount) ==
    IF shown.paid + amount >= Due(shown) THEN [shown EXCEPT !.status = "PAYMENT_QUEUED"] ELSE shown

PayOffline(amount) ==
    Tender(amount) /\ Perform(NewCommand("PAY", 0, {}, amount), Queued(amount))

(* Online the answer may be lost.                                            *)
PayOnline(amount) ==
    /\ Tender(amount) /\ ~busy /\ action = NoOrder
    /\ Accepts(server, NewCommand("PAY", 0, {}, amount))
    /\ server' = [server EXCEPT !.paid = @ + amount]
    /\ \/ action' = [shown EXCEPT !.paid = @ + amount] /\ busy' = TRUE
       \/ UNCHANGED <<action, busy>>
    /\ UNCHANGED <<queue, foreign, apart, document, working, shown, refresh>>

Persist ==
    /\ action # NoOrder
    /\ working' = action /\ shown' = action /\ action' = NoOrder /\ busy' = FALSE
    /\ UNCHANGED <<server, queue, foreign, apart, document, refresh>>

-----------------------------------------------------------------------------
(* The bootstrap document.  The button in the head of the page is never      *)
(* disabled.  Synchronizing asks for it once the queue is drained.           *)
AskFor(step) ==
    /\ refresh = NoRefresh /\ refresh' = [NoRefresh EXCEPT !.step = step] /\ busy' = TRUE
    /\ UNCHANGED <<server, queue, foreign, apart, document, working, shown, action>>

Refresh     == AskFor("asked")
Synchronize == ~busy /\ shown # NoOrder /\ queue = <<>> /\ AskFor("synchronizing")
CompleteSale ==
    /\ ~busy /\ shown # NoOrder /\ queue = <<>>
    /\ shown.paid >= Due(shown) /\ LineDrafts(shown) = {}
    /\ AskFor("completing")

(* The server's answer, also kept in the cache.                              *)
Fetch ==
    /\ refresh.step \in {"asked", "synchronizing", "completing"}
    /\ document' = server
    /\ refresh' = [step |-> IF refresh.step = "completing" THEN "ending" ELSE "read",
                   order |-> IF OnServer(server) THEN server ELSE NoOrder]
    /\ UNCHANGED <<server, queue, foreign, apart, working, shown, action, busy>>

(* Without one, the cached document; then the working snapshot if the order  *)
(* is not in it.                                                             *)
FetchFails ==
    /\ refresh.step \in {"asked", "synchronizing", "completing"}
    /\ refresh' = IF OnServer(document) THEN [step |-> "read", order |-> document]
                  ELSE [step |-> "read", order |-> working]
    /\ UNCHANGED <<server, queue, foreign, apart, document, working, shown, action, busy>>

Show(order) ==
    /\ working' = order /\ shown' = order
    /\ apart' = ~(InStep(order) /\ action = NoOrder)

ShowBootstrap ==
    /\ refresh.step = "read" /\ Show(refresh.order)
    /\ refresh' = NoRefresh /\ busy' = FALSE
    /\ UNCHANGED <<server, queue, foreign, document, action>>

(* complete: with the revision just read, and the outbox still drained.      *)
Complete ==
    /\ refresh.step = "ending" /\ refresh' = NoRefresh /\ busy' = FALSE
    /\ \/ /\ queue = <<>> /\ server.status = "OPEN"
          /\ server.revision = refresh.order.revision
          /\ server.paid = Due(server) /\ LineDrafts(server) = {} /\ Standing(server) # {}
          /\ server' = [server EXCEPT !.status = "COMPLETED"]
          /\ working' = NoOrder /\ shown' = NoOrder /\ document' = server' /\ UNCHANGED apart
       \/ /\ working' = refresh.order /\ apart' = TRUE
          /\ UNCHANGED <<server, shown, document>>
    /\ UNCHANGED <<queue, foreign, action>>

(* The list of open orders holds those of the document.                      *)
SelectOrder ==
    /\ OnServer(document) /\ refresh = NoRefresh /\ Show(document)
    /\ UNCHANGED <<server, queue, foreign, document, action, refresh, busy>>

(* The page is closed, locked or crashes, and opens again: it shows nothing  *)
(* until it has a document.                                                  *)
Reload ==
    /\ action' = NoOrder /\ shown' = NoOrder /\ busy' = TRUE
    /\ refresh' = [NoRefresh EXCEPT !.step = "asked"]
    /\ UNCHANGED <<server, queue, foreign, apart, document, working>>

-----------------------------------------------------------------------------
(* The outbox: the flush sends its first command, unless that has stopped    *)
(* the order; a line may be refused because its item is no longer sold.      *)
Deliver ==
    /\ queue # <<>> /\ ~Head(queue).stopped
    /\ IF Accepts(server, Head(queue))
       THEN server' = Outcome(server, Head(queue)) /\ queue' = Tail(queue)
       ELSE queue' = [queue EXCEPT ![1].stopped = TRUE] /\ UNCHANGED server
    /\ UNCHANGED <<foreign, apart, orderVars>>

RefuseLine ==
    /\ queue # <<>> /\ ~Head(queue).stopped /\ Head(queue).type = "ADD"
    /\ queue' = [queue EXCEPT ![1].stopped = TRUE] /\ apart' = TRUE
    /\ UNCHANGED <<server, foreign, orderVars>>

(* A manager settles a stopped command.                                      *)
Resolve ==
    /\ queue # <<>> /\ Head(queue).stopped
    /\ queue' = Tail(queue)
    /\ UNCHANGED <<server, foreign, apart, orderVars>>

(* Others edit or pay the order.                                             *)
Foreign(c) ==
    /\ foreign > 0 /\ foreign' = foreign - 1 /\ Accepts(server, c)
    /\ server' = Outcome(server, c) /\ server'.revision <= LastRevision
    /\ apart' = (apart \/ Edits(c))
    /\ UNCHANGED <<queue, orderVars>>

ForeignCommand(type, line, wave, units) ==
    [NewCommand(type, line, wave, units) EXCEPT !.revision = server.revision]

RuntimeNext ==
    \/ StartOrder \/ HoldOrder \/ ResumeOrder \/ SendOrder \/ Persist
    \/ \E l \in LineIds :
          AddOrderLine(l) \/ RemoveOrderLine(l) \/ \E n \in 1..MostUnits : ReplaceQuantity(l, n)
    \/ \E n \in 1..MostUnits : PayOffline(n) \/ PayOnline(n)
    \/ Refresh \/ Synchronize \/ CompleteSale \/ Fetch \/ FetchFails \/ ShowBootstrap
    \/ Complete \/ SelectOrder \/ Reload \/ Deliver \/ RefuseLine \/ Resolve
    \/ \E l \in LineIds \ Mentioned : Foreign(ForeignCommand("ADD", l, {}, 1))
    \/ \E type \in {"HOLD", "RESUME"} : Foreign(ForeignCommand(type, 0, {}, 0))
    \/ Foreign(ForeignCommand("PAY", 0, {}, 1))

-----------------------------------------------------------------------------
\* The screen does not promise what the server has not got.  Money is shown as
\* paid only when it is confirmed, whatever is queued, lost or shown again.  As
\* long as nobody else edits the order, and the page has not gone back to an older
\* version of it, it shows exactly what the server will have when the queue has
\* been applied, and the queue is not stopped but by a tender
\* (CashierRuntime.persisted, cashPayment, currentOrder).
ScreenIsBacked ==
    /\ \A o \in {shown, working, action} : o.status # "NONE" => o.paid <= server.paid
    /\ (~apart /\ shown # NoOrder) => InStep(IF action = NoOrder THEN shown ELSE action)
=============================================================================
