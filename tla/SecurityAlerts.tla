---------------------------- MODULE SecurityAlerts ----------------------------
(***************************************************************************)
(* The alerts a security evaluation raises: those of one subject, counted  *)
(* from recorded events, and the one for sync commands that wait for a     *)
(* manager, a gauge (apps/api/src/security-operations/                     *)
(* security-operations.service.ts, migration 202608080003).                *)
(*                                                                         *)
(* Whoever asks for an evaluation chooses the end and the length of its    *)
(* window, so windows overlap, repeat and go back.  Severity, which never  *)
(* differs between events of one subject, and the wording are left out.    *)
(***************************************************************************)
EXTENDS Naturals, FiniteSets, FiniteSetsExt

CONSTANTS
    Happenings,     \* audit rows, exports or failed evidence about the subject
    LastMoment,     \* bound of the time stamps
    MaxUnresolved   \* bound of the sync commands that wait

ASSUME AlertAssumption ==
    IsFiniteSet(Happenings) /\ LastMoment \in Nat /\ MaxUnresolved \in Nat

VARIABLES
    occurred,       \* occurred[e]: when e happened, or Unrecorded
    unresolved,     \* sync receipts in conflict or rejected, and not resolved
    alert           \* alert[k]: the alert raised from "events" or from "sync"

alertVars == <<occurred, unresolved, alert>>

Moments    == 0..LastMoment
Unrecorded == LastMoment + 1
NoAlert    == [status |-> "none", count |-> 0, last |-> 0]

AlertTypeOK ==
    /\ occurred \in [Happenings -> Moments \cup {Unrecorded}]
    /\ unresolved \in 0..MaxUnresolved
    /\ alert \in [{"events", "sync"} -> [status: {"none", "OPEN", "ACKNOWLEDGED", "RESOLVED"},
                                         count: 0..(Cardinality(Happenings) + MaxUnresolved),
                                         last: Moments]]

AlertInit ==
    /\ occurred = [e \in Happenings |-> Unrecorded]
    /\ unresolved = 0
    /\ alert = [k \in {"events", "sync"} |-> NoAlert]

-----------------------------------------------------------------------------
Recorded == {e \in Happenings : occurred[e] # Unrecorded}

\* A transaction stamps its row before it commits: an older row may become
\* visible after a newer one.
RecordHappening(e, t) ==
    /\ occurred[e] = Unrecorded
    /\ occurred' = [occurred EXCEPT ![e] = t]
    /\ UNCHANGED <<unresolved, alert>>

\* Sync commands conflict, and are resolved by a manager (SyncRecoveryService).
SyncConflicts ==
    /\ unresolved < MaxUnresolved
    /\ unresolved' = unresolved + 1
    /\ UNCHANGED <<occurred, alert>>

SyncIsResolved ==
    /\ unresolved > 0
    /\ unresolved' = unresolved - 1
    /\ UNCHANGED <<occurred, alert>>

Observed(from, to) == {e \in Recorded : occurred[e] \in from..to}
NewestOf(S) == Max({occurred[e] : e \in S})

Reopened(status) == IF status \in {"none", "RESOLVED"} THEN "OPEN" ELSE status

\* What an evaluation makes of the events in its window: those up to the last one
\* seen are taken for counted.
EventAlertOverlapping(from, to) ==
    LET seen == Observed(from, to)
        a    == alert["events"]
        news == {e \in seen : occurred[e] >= a.last}
    IN  IF news = {} THEN a
        ELSE [status |-> Reopened(a.status), count |-> a.count + Cardinality(news),
              last |-> Max({a.last, NewestOf(seen)})]

EventAlert(from, to) ==
    LET seen == Observed(from, to)
        a    == alert["events"]
        news == IF a = NoAlert THEN seen ELSE {e \in seen : occurred[e] > a.last}
    IN  IF news = {} THEN a
        ELSE [status |-> Reopened(a.status), count |-> a.count + Cardinality(news),
              last |-> Max({a.last, NewestOf(seen)})]

\* A gauge only rises, and reopens its alert as long as anything waits.
SyncAlert(to) ==
    LET a == alert["sync"]
    IN  IF unresolved = 0 THEN a
        ELSE [status |-> Reopened(a.status), count |-> Max({a.count, unresolved}),
              last |-> Max({a.last, to})]

Evaluate(from, to) ==
    /\ alert' = [k \in {"events", "sync"} |->
                    IF k = "events" THEN EventAlert(from, to) ELSE SyncAlert(to)]
    /\ UNCHANGED <<occurred, unresolved>>

AcknowledgeAlert(k) ==
    /\ alert[k].status = "OPEN"
    /\ alert' = [alert EXCEPT ![k].status = "ACKNOWLEDGED"]
    /\ UNCHANGED <<occurred, unresolved>>

ResolveAlert(k) ==
    /\ alert[k].status = "ACKNOWLEDGED"
    /\ alert' = [alert EXCEPT ![k].status = "RESOLVED"]
    /\ UNCHANGED <<occurred, unresolved>>

AlertNext ==
    \/ SyncConflicts \/ SyncIsResolved
    \/ \E e \in Happenings, t \in Moments : RecordHappening(e, t)
    \/ \E from, to \in Moments : from <= to /\ Evaluate(from, to)
    \/ \E k \in {"events", "sync"} : AcknowledgeAlert(k) \/ ResolveAlert(k)

-----------------------------------------------------------------------------
\* However windows overlap, repeat or go back, an event is counted at most once:
\* an alert never claims more events than there are, and is never reopened by
\* events it has counted (SecurityOperationsService.applySignals).
EventsCountOnce == alert["events"].count <= Cardinality(Recorded)
=============================================================================
