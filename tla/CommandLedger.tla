---------------------------- MODULE CommandLedger ----------------------------
(***************************************************************************)
(* What the offline queue promises the till, without pages, batches,        *)
(* receipts or failures: every queued command takes effect at most once,    *)
(* and the commands one outbox queues for one order take effect in the      *)
(* order they were queued, except those a manager has dismissed, and those  *)
(* in doubt: a command that has been sent and whose answer is not known can *)
(* be overtaken, by the later commands that are chosen meanwhile and by no  *)
(* others.                                                                  *)
(***************************************************************************)
EXTENDS Naturals

CONSTANTS Outboxes, MaxSequence, Aggregates, None

Commands == Outboxes \X (1..MaxSequence)

VARIABLES
    order,       \* the order a queued command is about, None before it is queued
    doubtful,    \* the commands that have been sent and not answered
    overtakes,   \* <<c, d>> when d may take effect before c, queued before it
    effective,   \* the commands that have taken effect
    dismissed    \* the commands a manager has dismissed

ledgerVars == <<order, doubtful, overtakes, effective, dismissed>>

Init ==
    /\ order = [c \in Commands |-> None]
    /\ doubtful = {} /\ overtakes = {}
    /\ effective = {} /\ dismissed = {}

Earlier(c, d) == c[1] = d[1] /\ c[2] < d[2] /\ order[c] = order[d]

(* d need not wait for c, or not any more.                                  *)
Free(c, d) == c \in effective \cup dismissed \/ <<c, d>> \in overtakes

(* The next command of an outbox is queued for order a.                     *)
Queue(c, a) ==
    /\ order[c] = None
    /\ \A d \in Commands : d[1] = c[1] /\ d[2] < c[2] => order[d] # None
    /\ order' = [order EXCEPT ![c] = a]
    /\ UNCHANGED <<doubtful, overtakes, effective, dismissed>>

(* Commands are chosen to be sent past the earlier ones that are in doubt.  *)
Choose(S) ==
    /\ \A d \in S : order[d] # None
    /\ overtakes' = overtakes \cup {p \in doubtful \X S : Earlier(p[1], p[2])}
    /\ UNCHANGED <<order, doubtful, effective, dismissed>>

(* They are sent, with every earlier command they have to wait for.         *)
Send(S) ==
    /\ \A d \in S : order[d] # None
    /\ \A d \in S, c \in Commands : Earlier(c, d) => c \in S \/ Free(c, d)
    /\ doubtful' = doubtful \cup S
    /\ UNCHANGED <<order, overtakes, effective, dismissed>>

(* The doubt ends: answered, failed on the way, or taken back.              *)
Hear(S) ==
    /\ doubtful' = doubtful \ S
    /\ UNCHANGED <<order, overtakes, effective, dismissed>>

(* A command takes effect once nothing holds it back.                       *)
TakeEffect(c) ==
    /\ order[c] # None /\ c \notin effective
    /\ \A d \in Commands : Earlier(d, c) => Free(d, c)
    /\ effective' = effective \cup {c}
    /\ UNCHANGED <<order, doubtful, overtakes, dismissed>>

Dismiss(c) ==
    /\ order[c] # None /\ c \notin dismissed
    /\ dismissed' = dismissed \cup {c}
    /\ UNCHANGED <<order, doubtful, overtakes, effective>>

Next ==
    \/ \E c \in Commands :
          \/ \E a \in Aggregates : Queue(c, a)
          \/ TakeEffect(c) \/ Dismiss(c)
    \/ \E S \in SUBSET Commands : Choose(S) \/ Send(S) \/ Hear(S)

LedgerSpec == Init /\ [][Next]_ledgerVars

=============================================================================
