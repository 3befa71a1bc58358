------------------------------ MODULE Commands ------------------------------
(***************************************************************************)
(* What surrounds every operation of the server that changes something: a   *)
(* command carries a key, and a record of (actor, scope, key) with the hash *)
(* of the request and its response is written in the transaction of the     *)
(* command.  A request whose key has a record is answered from it.          *)
(*                                                                          *)
(* Each service has a copy of this wrapper.  The copies differ in the       *)
(* isolation of the transaction and in the errors of the database they turn *)
(* into 409 "conflict"; what they let through is answered 500 "failed".     *)
(* The operation itself is an edit of one row, based on the version of it   *)
(* that the page showed.  One actor, one scope and one row.                 *)
(***************************************************************************)
EXTENDS Naturals, FiniteSets

CONSTANTS
    Keys,         \* keys of one actor and scope
    Attempts,     \* requests that reach the server
    LastVersion,  \* bound of the row's version
    NoRecord

ASSUME CommandAssumption ==
    /\ LastVersion \in Nat
    /\ NoRecord \notin [based: 0..LastVersion, response: 1..LastVersion]

VARIABLES
    wrapper,   \* the copy that is used
    version,   \* version of the row
    record,    \* record[k]: the request and the response stored, or NoRecord
    attempt,   \* attempt[a]: a request and how far it is handled
    edits      \* not in the code: the edits that were committed

commandVars == <<wrapper, version, record, attempt, edits>>

-----------------------------------------------------------------------------
(* The wrappers.  P2002 is a unique index, P2003 a foreign key, P2004 a      *)
(* constraint or trigger, P2034 a transaction that could not be serialized.  *)
Serializable(errors) == [serializable |-> TRUE, catches |-> errors]

OrdersWrapper        == Serializable({"P2002", "P2003", "P2004", "P2034"})
OrderOpsWrapper      == Serializable({"P2002", "P2003", "P2004", "P2034"})
SendingWrapper       == Serializable({"P2002", "P2003", "P2004", "P2034"})
PaymentsWrapper      == Serializable({"P2002", "P2003", "P2004", "P2034"})
ShiftsWrapper        == Serializable({"P2002", "P2003", "P2004", "P2034"})
MovementsWrapper     == Serializable({"P2002", "P2003", "P2004", "P2034"})
InventoryWrapper     == Serializable({"P2002", "P2003", "P2004", "P2034"})
ConsumptionWrapper   == Serializable({"P2002", "P2003", "P2004", "P2034"})
ProductionWrapper    == Serializable({"P2002", "P2003", "P2004", "P2034"})
ProcurementWrapper   == Serializable({"P2002", "P2003", "P2004", "P2034"})
AuditWrapper         == Serializable({"P2002", "P2004", "P2034"})
HoursWrapper         == Serializable({"P2002", "P2004", "P2034"})
ReadinessWrapper     == Serializable({"P2002", "P2004", "P2034"})
TaxWrapper           == Serializable({"P2002", "P2004", "P2034"})
SecurityWrapper      == Serializable({"P2002", "P2034"})
StaffWrapper         == Serializable({"P2002"})
CatalogWrapper       == Serializable({"P2002"})
CategoryWrapper      == Serializable({"P2002"})
LayoutWrapper        == Serializable({"P2002"})
EvidenceWrapper      == Serializable({"P2002"})
PrivacyWrapper       == Serializable({"P2002"})
PasswordWrapper      == Serializable({"P2002"})
AvailabilityWrapper  == Serializable({})
KitchenWrapper       == Serializable({})
ReceiptsWrapper      == Serializable({})
RefundsWrapper       == Serializable({})
OfflineUnlockWrapper == Serializable({})
MfaWrapper           == [serializable |-> FALSE, catches |-> {}]

Wrappers ==
    {OrdersWrapper, OrderOpsWrapper, SendingWrapper, PaymentsWrapper, ShiftsWrapper,
     MovementsWrapper, InventoryWrapper, ConsumptionWrapper, ProductionWrapper,
     ProcurementWrapper, AuditWrapper, HoursWrapper, ReadinessWrapper, TaxWrapper,
     SecurityWrapper, StaffWrapper, CatalogWrapper, CategoryWrapper, LayoutWrapper,
     EvidenceWrapper, PrivacyWrapper, PasswordWrapper, AvailabilityWrapper,
     KitchenWrapper, ReceiptsWrapper, RefundsWrapper, OfflineUnlockWrapper, MfaWrapper}

-----------------------------------------------------------------------------
(* A request is a key and what it asks for: an edit of a version of the row. *)
KeyedRequests == [key: Keys, based: 0..LastVersion]
Phases   == {"looking", "working", "ok", "conflict", "failed", "lost"}
NoAttempt == [phase |-> "none"]

CommandTypeOK ==
    /\ wrapper \in Wrappers
    /\ version \in 0..LastVersion
    /\ \A k \in Keys :
          record[k] # NoRecord => record[k] \in [based: 0..LastVersion, response: 1..LastVersion]
    /\ \A a \in Attempts : attempt[a] # NoAttempt =>
          attempt[a].request \in KeyedRequests /\ attempt[a].phase \in Phases

CommandInit ==
    /\ wrapper \in Wrappers
    /\ version = 0
    /\ record = [k \in Keys |-> NoRecord]
    /\ attempt = [a \in Attempts |-> NoAttempt]
    /\ edits = {}

(* A request arrives.  A page makes a key for every click and asks for an    *)
(* edit of the version it has shown, which others may have edited; a queued  *)
(* command is sent again with its key while the first request may be under   *)
(* way; and a key may be used for something else by mistake.                 *)
Arrive(a, k, based) ==
    /\ attempt[a] = NoAttempt /\ based <= version
    /\ attempt' = [attempt EXCEPT ![a] =
                      [phase |-> "looking", request |-> [key |-> k, based |-> based]]]
    /\ UNCHANGED <<wrapper, version, record, edits>>

Close(a, phase, response) ==
    attempt' = [attempt EXCEPT ![a] = [phase |-> phase, request |-> @.request,
                                       response |-> response]]

Raise(a, error) ==
    /\ Close(a, IF error \in wrapper.catches THEN "conflict" ELSE "failed", 0)
    /\ UNCHANGED <<wrapper, version, record, edits>>

(* Faulty variant: the record is returned whatever the request is.           *)
SameKey(a) == TRUE

SameRequest(a) == record[attempt[a].request.key].based = attempt[a].request.based

(* Before the transaction: is the key known?                                 *)
Look(a) ==
    LET known == record[attempt[a].request.key] IN
    /\ attempt[a].phase = "looking"
    /\ \/ known = NoRecord
          /\ attempt' = [attempt EXCEPT ![a] =
                            [phase |-> "working", request |-> @.request, read |-> version]]
       \/ known # NoRecord /\ SameRequest(a) /\ Close(a, "ok", known.response)
       \/ known # NoRecord /\ ~SameRequest(a) /\ Close(a, "conflict", 0)
    /\ UNCHANGED <<wrapper, version, record, edits>>

(* The work refuses what is based on another version than it has read.       *)
Refuse(a) ==
    /\ attempt[a].phase = "working" /\ attempt[a].read # attempt[a].request.based
    /\ Close(a, "conflict", 0)
    /\ UNCHANGED <<wrapper, version, record, edits>>

(* Faulty variant: nobody looks again at what was read.                      *)
NotSerialized(a) == TRUE

(* What was read is still true when the transaction commits, if it is        *)
(* serializable.                                                             *)
Serialized(a) == wrapper.serializable => attempt[a].read = version

CommitEdit(a) ==
    LET r == attempt[a].request IN
    /\ attempt[a].phase = "working" /\ attempt[a].read = r.based /\ version < LastVersion
    /\ record[r.key] = NoRecord /\ Serialized(a)
    /\ version' = version + 1
    /\ record' = [record EXCEPT ![r.key] = [based |-> r.based, response |-> version + 1]]
    /\ edits' = edits \cup {[by |-> a, request |-> r, on |-> version]}
    /\ Close(a, "ok", version + 1)
    /\ UNCHANGED wrapper

(* The work or the record runs into the database: the key has been used in   *)
(* the meantime, the row was edited, or something else of the operation.     *)
RecordTaken(a) ==
    /\ attempt[a].phase = "working" /\ record[attempt[a].request.key] # NoRecord
    /\ Raise(a, "P2002")

NotSerializable(a) ==
    /\ attempt[a].phase = "working" /\ wrapper.serializable
    /\ \E b \in Attempts \ {a} : attempt[b] # NoAttempt
    /\ Raise(a, "P2034")

Violation(a) ==
    /\ attempt[a].phase = "working" /\ attempt[a].read = attempt[a].request.based
    /\ \E error \in {"P2002", "P2003", "P2004"} : Raise(a, error)

(* The server stops, or the answer is lost.                                  *)
Lose(a) ==
    /\ attempt[a].phase \in {"looking", "working", "ok", "conflict", "failed"}
    /\ Close(a, "lost", 0)
    /\ UNCHANGED <<wrapper, version, record, edits>>

CommandNext ==
    \E a \in Attempts :
        \/ \E k \in Keys, based \in 0..LastVersion : Arrive(a, k, based)
        \/ Look(a) \/ Refuse(a) \/ CommitEdit(a) \/ Lose(a)
        \/ RecordTaken(a) \/ NotSerializable(a) \/ Violation(a)

-----------------------------------------------------------------------------
\* A command takes effect once.  Whatever is sent again, raced or lost, a key has
\* at most one edit; who is told "ok" is told what that edit, of the very request,
\* came to; who is told anything else has changed nothing; and where transactions
\* are serializable no version is edited twice, so that what somebody else has
\* changed since a page showed it is never overwritten (the idempotent wrapper of
\* each service).
CommandsTakeEffectOnce ==
    /\ \A e, f \in edits : e.request.key = f.request.key => e = f
    /\ \A a \in Attempts : attempt[a] # NoAttempt =>
          /\ attempt[a].phase = "ok" =>
                \E e \in edits : e.request = attempt[a].request /\ attempt[a].response = e.on + 1
          /\ attempt[a].phase \in {"conflict", "failed"} => \A e \in edits : e.by # a
    /\ wrapper.serializable =>
          \A e, f \in edits : e.request.based = e.on /\ (e.on = f.on => e = f)
=============================================================================
