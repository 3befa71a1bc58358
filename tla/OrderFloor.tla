----------------------------- MODULE OrderFloor -----------------------------
(***************************************************************************)
(* Orders on the floor and their tickets in the kitchen: the handlers of    *)
(* the order, order-operations, order-sending and KDS services that change  *)
(* orders, lines and tickets.                                               *)
(***************************************************************************)
EXTENDS SaleState

moneyVars == <<shift, payment, refund, movement>>

(* recalculate stores the total of the draft lines with the order.          *)
Recalculate(os) ==
    order' = [o \in Orders |->
        IF o \in os THEN [order[o] EXCEPT !.gross = DraftTotal(o)'] ELSE order[o]]

CreateOrder(o, s) ==
    /\ Fresh(order, {o}) /\ shift[s].status = "OPEN"
    /\ order' = [order EXCEPT ![o] = [NoOrder EXCEPT !.status = "OPEN", !.shift = s]]
    /\ UNCHANGED <<line, ticket, moneyVars>>

(* Faulty variant: an order with merge sources may be cancelled.            *)
TransitionComposed(o, to) ==
    /\ order[o].status \in Live /\ order[o].status # to
    /\ order' = [order EXCEPT ![o].status = to]
    /\ UNCHANGED <<line, ticket, moneyVars>>

(* hold, resume and cancel.  The lines, tickets and payments of a cancelled *)
(* order stay as they are.                                                  *)
Transition(o, to) ==
    /\ order[o].status \in Live /\ order[o].status # to
    /\ to = "CANCELLED" => ~Composed(o)
    /\ order' = [order EXCEPT ![o].status = to]
    /\ UNCHANGED <<line, ticket, moneyVars>>

NewLine(o, n) ==
    [NoLine EXCEPT !.status = "DRAFT", !.order = o, !.quantity = n]

AddLine(o, l, n) ==
    /\ order[o].status = "OPEN" /\ Fresh(line, {l})
    /\ line' = [line EXCEPT ![l] = NewLine(o, n)]
    /\ Recalculate({o})
    /\ UNCHANGED <<ticket, moneyVars>>

(* A line may be changed or moved until it is sent.                         *)
Editable(o, l) == order[o].status = "OPEN" /\ l \in UnsentDrafts(o)

ReplaceLine(o, l, new, n) ==
    /\ Editable(o, l) /\ Fresh(line, {new})
    /\ line' = [line EXCEPT ![l].status = "REPLACED", ![new] = NewLine(o, n)]
    /\ Recalculate({o})
    /\ UNCHANGED <<ticket, moneyVars>>

RemoveLine(o, l) ==
    /\ Editable(o, l)
    /\ line' = [line EXCEPT ![l].status = "REMOVED"]
    /\ Recalculate({o})
    /\ UNCHANGED <<ticket, moneyVars>>

(* The first line pins the tax profile of an order.                         *)
Pinned(o) == \E l \in Lines : line[l].order = o

(* source becomes part of the bill of target; its lines stay its own.       *)
Merge(target, source) ==
    /\ target # source
    /\ order[target].status = "OPEN" /\ order[source].status = "OPEN"
    /\ ~Composed(source)
    /\ order[target].shift = order[source].shift
    /\ shift[order[target].shift].status = "OPEN"
    /\ Pinned(target) <=> Pinned(source)
    /\ order' = [order EXCEPT ![source].status = "MERGED", ![source].into = target]
    /\ UNCHANGED <<line, ticket, moneyVars>>

(* The lines that give only part of their quantity away.                    *)
Cut(moved) == {l \in DOMAIN moved : moved[l] < line[l].quantity}

(* Faulty variant: subtracted the wrong way round.                          *)
LeftReversed(l, n) == n - line[l].quantity

(* What is left of line l when n of it have moved.                          *)
Left(l, n) == line[l].quantity - n

(* Lines of a split: moved gives the quantity that each chosen line gives   *)
(* to the child, target the line that takes it there, rest the line that    *)
(* keeps what is left.                                                      *)
SplitLines(o, child, moved, target, rest) ==
    [l \in Lines |->
        IF l \in DOMAIN moved THEN [line[l] EXCEPT !.status = "REPLACED"]
        ELSE IF \E k \in DOMAIN moved : target[k] = l
        THEN NewLine(child, moved[CHOOSE k \in DOMAIN moved : target[k] = l])
        ELSE IF \E k \in Cut(moved) : rest[k] = l
        THEN LET k == CHOOSE k \in Cut(moved) : rest[k] = l
             IN  NewLine(o, Left(k, moved[k]))
        ELSE line[l]]

(* A child order of the same shift takes chosen unsent lines, or part of    *)
(* their quantity; both totals are recalculated.                            *)
Split(o, child) ==
    /\ order[o].status = "OPEN" /\ shift[order[o].shift].status = "OPEN"
    /\ ~Composed(o) /\ Fresh(order, {child})
    /\ \E chosen \in (SUBSET UnsentDrafts(o)) \ {{}} :
       \E moved \in [chosen -> 1..MaxQuantity] :
          /\ \A l \in chosen : moved[l] <= line[l].quantity
          /\ \E target \in Injection(chosen, Unused(line)),
                rest \in Injection(Cut(moved), Unused(line)) :
                /\ Range(target) \cap Range(rest) = {}
                /\ Fresh(line, Range(target) \cup Range(rest))
                /\ line' = SplitLines(o, child, moved, target, rest)
    /\ order' = [order EXCEPT
          ![o].gross = DraftTotal(o)',
          ![child] = [NoOrder EXCEPT !.status = "OPEN", !.shift = order[o].shift,
                                     !.gross = DraftTotal(child)']]
    /\ UNCHANGED <<ticket, moneyVars>>

(* A wave: a new ticket per station, each line on the ticket of its own     *)
(* station and of its modifiers' stations.                                  *)
Send(o, wave, tickets) ==
    /\ order[o].status = "OPEN" /\ shift[order[o].shift].status = "OPEN"
    /\ wave # {} /\ wave \subseteq UnsentDrafts(o)
    /\ tickets # {} /\ Fresh(ticket, tickets)
    /\ \E entries \in [tickets -> (SUBSET wave) \ {{}}] :
          /\ UNION Range(entries) = wave
          /\ ticket' = [t \in Tickets |->
                IF t \in tickets
                THEN [status |-> "QUEUED", order |-> o, lines |-> entries[t]]
                ELSE ticket[t]]
    /\ line' = [l \in Lines |->
          IF l \in wave THEN [line[l] EXCEPT !.sent = TRUE] ELSE line[l]]
    /\ UNCHANGED <<order, moneyVars>>

(* Faulty variant: every ticket the line is on is withdrawn.                *)
WithdrawAll(t, l) ==
    IF l \in ticket[t].lines /\ ticket[t].status \in InPreparation
    THEN [ticket[t] EXCEPT !.lines = @ \ {l}, !.status = "CANCELLED"]
    ELSE [ticket[t] EXCEPT !.lines = @ \ {l}]

(* A ticket from which the last line is withdrawn is cancelled, unless it   *)
(* is done.                                                                 *)
Withdraw(t, l) ==
    IF ticket[t].lines = {l} /\ ticket[t].status \in InPreparation
    THEN [ticket[t] EXCEPT !.lines = {}, !.status = "CANCELLED"]
    ELSE [ticket[t] EXCEPT !.lines = @ \ {l}]

(* Faulty variant: the total is not recalculated.                           *)
CancelSentLineOnly(o, l) ==
    /\ order[o].status = "OPEN" /\ l \in Drafts(o) /\ line[l].sent
    /\ line' = [line EXCEPT ![l].status = "CANCELLED"]
    /\ ticket' = [t \in Tickets |-> Withdraw(t, l)]
    /\ UNCHANGED <<order, moneyVars>>

CancelSentLine(o, l) ==
    /\ order[o].status = "OPEN" /\ l \in Drafts(o) /\ line[l].sent
    /\ line' = [line EXCEPT ![l].status = "CANCELLED"]
    /\ ticket' = [t \in Tickets |-> Withdraw(t, l)]
    /\ Recalculate({o})
    /\ UNCHANGED moneyVars

NextTicketStatus ==
    [QUEUED |-> "PREPARING", PREPARING |-> "READY", READY |-> "COMPLETED"]

(* The kitchen moves a ticket on, whatever has become of its order.         *)
AdvanceTicket(t) ==
    /\ ticket[t].status \in InPreparation
    /\ ticket' = [ticket EXCEPT ![t].status = NextTicketStatus[@]]
    /\ UNCHANGED <<order, line, moneyVars>>

-----------------------------------------------------------------------------
Floor(o) ==
    \/ \E s \in Shifts : CreateOrder(o, s)
    \/ \E to \in {"OPEN", "HELD", "CANCELLED"} : Transition(o, to)
    \/ \E l \in Lines, n \in 1..MaxQuantity :
          \/ AddLine(o, l, n)
          \/ \E new \in Lines : ReplaceLine(o, l, new, n)
    \/ \E l \in Lines : RemoveLine(o, l) \/ CancelSentLine(o, l)
    \/ \E other \in Orders : Merge(o, other) \/ Split(o, other)
    \/ \E wave \in SUBSET UnsentDrafts(o), tickets \in SUBSET Tickets : Send(o, wave, tickets)

=============================================================================
