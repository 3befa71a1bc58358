---------------------------- MODULE OfflineSync ----------------------------
(***************************************************************************)
(* The offline command outbox of the POS and the server side it replays    *)
(* to.  A POS page queues domain commands in IndexedDB, a flush sends the   *)
(* due ones in one HTTP batch, the API processes the batch one command at  *)
(* a time (receipt lookup, idempotent domain transaction, receipt insert,   *)
(* each a database transaction of its own), and the page writes the         *)
(* results back.  Terminal refusals wait for a manager's resolution.        *)
(*                                                                          *)
(* Abstracted: payloads, hashes, error codes and clocks.  What a domain     *)
(* transaction decides (apply, 409, 4xx, 5xx) is a nondeterministic choice; *)
(* only its idempotency key is kept.  A command is the pair of its outbox   *)
(* and its local sequence number; batches are sets, because every batch is  *)
(* ordered by local sequence (packages/contracts/src/sync.ts:127-160).      *)
(***************************************************************************)
EXTENDS Naturals, FiniteSets

CONSTANTS
    Runtimes,     \* browser pages (tabs) that may run a CashierRuntime
    Outboxes,     \* IndexedDB databases: one per branch, device AND user
    Devices,      \* enrolled devices
    Aggregates,   \* orders the queued commands are about
    StoreOf,      \* the outbox a runtime opens
    DeviceOf,     \* the device an outbox stamps on its commands
    Slots,        \* bound: batches the API holds at once, orphans included
    MaxSequence,  \* bound: commands queued per outbox
    BatchLimit,   \* commands per batch (25 in the code)
    MaxFaults,    \* bound: crashes, lost calls, 5xx answers
    None          \* no runtime, no aggregate, no command

Commands == Outboxes \X (1..MaxSequence)

ASSUME ConstantsAssumption ==
    /\ StoreOf \in [Runtimes -> Outboxes]
    /\ DeviceOf \in [Outboxes -> Devices]
    /\ MaxSequence \in Nat /\ BatchLimit \in Nat \ {0} /\ MaxFaults \in Nat
    /\ None \notin Runtimes \cup Aggregates \cup Commands

VARIABLES
    state,         \* LocalSyncCommand.state, "ABSENT" before enqueue
    agg,           \* LocalSyncCommand.aggregateId
    due,           \* nextAttemptAt <= now
    nextSequence,  \* SyncMeta.nextSequence
    page,          \* per runtime: the flush and the resolution dialog
    request,       \* per slot: one POST /sync/batch being served
    applied,       \* times the command's domain transaction committed
    receipt,       \* SyncCommandReceipt.status, "NONE" when there is no row
    resolution,    \* SyncCommandResolution.action, "NONE" when there is no row
    active,        \* Device.status = ACTIVE
    faults,        \* failures so far
    passed         \* history: <<c, d>> when d was read past c, still SENDING

outboxVars == <<state, agg, due, nextSequence>>
serverVars == <<applied, receipt, resolution, active>>
vars == <<state, agg, due, nextSequence, page, request,
          applied, receipt, resolution, active, faults, passed>>

-----------------------------------------------------------------------------
(* Types.                                                                   *)

LocalStates == {"ABSENT", "PENDING", "SENDING", "SYNCED", "CONFLICT",
                "FAILED", "RESOLVED"}
Terminal == {"CONFLICT", "FAILED"}
Phases == {"CLOSED", "IDLE", "READ", "WAITING", "STORED"}
Answers == {"NONE", "APPLIED", "REPLAYED", "CONFLICT", "REJECTED",
            "RETRYABLE", "DEPENDENCY_BLOCKED"}
ReceiptStates == {"NONE", "APPLIED", "CONFLICT", "REJECTED"}
Steps == {"PRIOR", "LOOKUP", "COMMIT", "APPLIED", "CONFLICT", "REJECTED"}
Actions == {"ACKNOWLEDGED_NO_ACTION", "SUPERSEDED_BY_COMMAND"}

Pages == [phase: Phases, batch: SUBSET Commands, interrupted: SUBSET Commands,
          resolving: Commands \cup {None}, granted: BOOLEAN]

Requests == [status: {"FREE", "RUNNING", "DONE", "ABORTED"},
             owner: Runtimes \cup {None}, todo: SUBSET Commands, step: Steps,
             blocked: SUBSET Aggregates, result: [Commands -> Answers]]

(* Every record, phase and counter ranges over the values the code gives it. *)
TypeOK ==
    /\ state \in [Commands -> LocalStates]
    /\ agg \in [Commands -> Aggregates \cup {None}]
    /\ due \in [Commands -> BOOLEAN]
    /\ nextSequence \in [Outboxes -> 1..(MaxSequence + 1)]
    /\ page \in [Runtimes -> Pages]
    /\ request \in [Slots -> Requests]
    /\ applied \in [Commands -> Nat]
    /\ receipt \in [Commands -> ReceiptStates]
    /\ resolution \in [Commands -> Actions \cup {"NONE"}]
    /\ active \in [Devices -> BOOLEAN]
    /\ faults \in 0..MaxFaults
    /\ passed \in SUBSET (Commands \X Commands)

NoAnswers == [c \in Commands |-> "NONE"]

FreeRequest ==
    [status |-> "FREE", owner |-> None, todo |-> {}, step |-> "PRIOR",
     blocked |-> {}, result |-> NoAnswers]

ClosedPage ==
    [phase |-> "CLOSED", batch |-> {}, interrupted |-> {}, resolving |-> None,
     granted |-> FALSE]

Init ==
    /\ state = [c \in Commands |-> "ABSENT"]
    /\ agg = [c \in Commands |-> None]
    /\ due = [c \in Commands |-> FALSE]
    /\ nextSequence = [o \in Outboxes |-> 1]
    /\ page = [r \in Runtimes |-> ClosedPage]
    /\ request = [q \in Slots |-> FreeRequest]
    /\ applied = [c \in Commands |-> 0]
    /\ receipt = [c \in Commands |-> "NONE"]
    /\ resolution = [c \in Commands |-> "NONE"]
    /\ active = [d \in Devices |-> TRUE]
    /\ faults = 0
    /\ passed = {}

(* One more failure, within the bound.                                      *)
Fault == faults < MaxFaults /\ faults' = faults + 1

Queued(o) == {c \in Commands : c[1] = o /\ state[c] # "ABSENT"}
Pending(o) == {c \in Queued(o) : state[c] = "PENDING"}

(* c was queued before d by the same outbox, for the same aggregate.        *)
Precedes(c, d) == c[1] = d[1] /\ c[2] < d[2] /\ agg[c] = agg[d]

-----------------------------------------------------------------------------
(* The outbox of a page.                                                    *)

(* A click on the till: the command gets the outbox's next number and waits. *)
Enqueue(r, a) ==
    LET o == StoreOf[r]
        c == <<o, nextSequence[o]>>
    IN  /\ page[r].phase # "CLOSED"
        /\ nextSequence[o] <= MaxSequence
        /\ state' = [state EXCEPT ![c] = "PENDING"]
        /\ agg' = [agg EXCEPT ![c] = a]
        /\ due' = [due EXCEPT ![c] = TRUE]
        /\ nextSequence' = [nextSequence EXCEPT ![o] = @ + 1]
        /\ UNCHANGED <<page, request, serverVars, faults, passed>>

(* A page is loaded, or a session signs in again, and its engine is          *)
(* initialized: recoverInterrupted lists the commands left SENDING.          *)
(* Nothing awaits initialize, so the page is ready to flush at once.         *)
OpenPage(r) ==
    /\ page[r].phase = "CLOSED"
    /\ page' = [page EXCEPT ![r] =
          [ClosedPage EXCEPT
              !.phase = "IDLE",
              !.interrupted = {c \in Queued(StoreOf[r]) : state[c] = "SENDING"}]]
    /\ UNCHANGED <<outboxVars, request, serverVars, faults, passed>>

(* Faulty variant: the interrupted commands are not written back.            *)
RecoverNothing(r) ==
    /\ page[r].interrupted # {}
    /\ page' = [page EXCEPT ![r].interrupted = {}]
    /\ UNCHANGED <<outboxVars, request, serverVars, faults, passed>>

(* ... and, in a second transaction that does not look at the state again,  *)
(* makes each of them PENDING and due, whatever the flush is doing.         *)
RecoverInterrupted(r) ==
    /\ page[r].interrupted # {}
    /\ state' = [c \in Commands |->
          IF c \in page[r].interrupted THEN "PENDING" ELSE state[c]]
    /\ due' = [c \in Commands |-> c \in page[r].interrupted \/ due[c]]
    /\ page' = [page EXCEPT ![r].interrupted = {}]
    /\ UNCHANGED <<agg, nextSequence, request, serverVars, faults, passed>>

(* The backoff of a PENDING command runs out, or the cashier presses Retry. *)
BecomeDue(c) ==
    /\ state[c] = "PENDING" /\ ~due[c]
    /\ due' = [due EXCEPT ![c] = TRUE]
    /\ UNCHANGED <<state, agg, nextSequence, page, request, serverVars, faults, passed>>

(* Faulty variant: a command that is not due is passed over, not waited for. *)
SendableSkippingLate(o) ==
    {c \in Pending(o) :
        /\ due[c]
        /\ \A d \in Queued(o) : agg[d] = agg[c] => state[d] \notin Terminal}

(* SyncStore.ready: the pending commands by sequence number up to the first *)
(* that is not due, without those of an aggregate with a terminal command.  *)
(* A command that is SENDING holds nothing back.                            *)
Sendable(o) ==
    {c \in Pending(o) :
        /\ \A d \in Pending(o) : d[2] <= c[2] => due[d]
        /\ \A d \in Queued(o) : agg[d] = agg[c] => state[d] \notin Terminal}

(* The first BatchLimit commands of a set.                                  *)
IsBatch(b, sendable) ==
    /\ \A c \in b, d \in sendable : d[2] <= c[2] => d \in b
    /\ Cardinality(b) <= BatchLimit
    /\ b = sendable \/ Cardinality(b) = BatchLimit

(* What a batch leaves behind whose outcome is still open.                  *)
PassedOver(b) ==
    {p \in Commands \X b : Precedes(p[1], p[2]) /\ state[p[1]] = "SENDING"}

(* A flush, of a click, the online event or the interval, reads its batch.  *)
ReadReady(r) ==
    /\ page[r].phase = "IDLE"
    /\ \E b \in SUBSET Sendable(StoreOf[r]) :
          /\ b # {} /\ IsBatch(b, Sendable(StoreOf[r]))
          /\ page' = [page EXCEPT ![r].phase = "READ", ![r].batch = b]
          /\ passed' = passed \cup PassedOver(b)
    /\ UNCHANGED <<outboxVars, request, serverVars, faults>>

(* The batch a page posts; the session guard turns a revoked device away.   *)
Posted(r) ==
    [FreeRequest EXCEPT
        !.status = IF active[DeviceOf[StoreOf[r]]] THEN "RUNNING" ELSE "ABORTED",
        !.owner = r, !.todo = page[r].batch]

(* markSending overwrites whatever state the commands have, then the batch  *)
(* is posted.                                                               *)
MarkSending(r, q) ==
    /\ page[r].phase = "READ" /\ request[q].status = "FREE"
    /\ state' = [c \in Commands |->
          IF c \in page[r].batch THEN "SENDING" ELSE state[c]]
    /\ page' = [page EXCEPT ![r].phase = "WAITING"]
    /\ request' = [request EXCEPT ![q] = Posted(r)]
    /\ UNCHANGED <<agg, due, nextSequence, serverVars, faults, passed>>

(* Faulty variant: terminal answers are stored as they come.                *)
StateForUnmapped(answer) ==
    CASE answer \in {"APPLIED", "REPLAYED"} -> "SYNCED"
      [] answer \in {"RETRYABLE", "DEPENDENCY_BLOCKED"} -> "PENDING"
      [] OTHER -> answer

(* stateFor of sync-store.ts.                                               *)
StateFor(answer) ==
    CASE answer \in {"APPLIED", "REPLAYED"} -> "SYNCED"
      [] answer = "CONFLICT" -> "CONFLICT"
      [] answer = "REJECTED" -> "FAILED"
      [] OTHER -> "PENDING"

(* The first transaction of applyResults; a retryable answer backs off.     *)
ApplyResults(r, q) ==
    /\ page[r].phase = "WAITING"
    /\ request[q].owner = r /\ request[q].status = "DONE"
    /\ state' = [c \in Commands |->
          IF c \in page[r].batch THEN StateFor(request[q].result[c]) ELSE state[c]]
    /\ due' = [c \in Commands |->
          IF c \in page[r].batch /\ StateFor(request[q].result[c]) = "PENDING"
          THEN FALSE ELSE due[c]]
    /\ page' = [page EXCEPT ![r].phase = "STORED"]
    /\ request' = [request EXCEPT ![q] = FreeRequest]
    /\ UNCHANGED <<agg, nextSequence, serverVars, faults, passed>>

(* The second one, lastSuccessfulSyncAt; the flush loops.                   *)
RecordSync(r) ==
    /\ page[r].phase = "STORED"
    /\ page' = [page EXCEPT ![r].phase = "IDLE", ![r].batch = {}]
    /\ UNCHANGED <<outboxVars, request, serverVars, faults, passed>>

(* A request nobody waits for leaves its slot once it has ended.            *)
Settled(req) ==
    IF req.owner = None /\ req.status \in {"DONE", "ABORTED"}
    THEN FreeRequest ELSE req

(* The client stops waiting for the slots of a runtime; the API does not.   *)
Abandoned(r) ==
    [q \in Slots |-> IF request[q].owner = r
                     THEN Settled([request[q] EXCEPT !.owner = None])
                     ELSE request[q]]

(* markTransportFailure: every command of the batch becomes PENDING again,  *)
(* whatever its state, and backs off.                                       *)
MarkTransportFailure(r) ==
    /\ state' = [c \in Commands |->
          IF c \in page[r].batch THEN "PENDING" ELSE state[c]]
    /\ due' = [c \in Commands |-> c \notin page[r].batch /\ due[c]]
    /\ page' = [page EXCEPT ![r].phase = "IDLE", ![r].batch = {}]
    /\ request' = Abandoned(r)
    /\ UNCHANGED <<agg, nextSequence, serverVars, passed>>

(* The batch was answered with an HTTP error.                               *)
BatchRefused(r, q) ==
    /\ page[r].phase = "WAITING"
    /\ request[q].owner = r /\ request[q].status = "ABORTED"
    /\ MarkTransportFailure(r)
    /\ UNCHANGED faults

(* The call fails on the way, in either direction, or the transaction that  *)
(* records the sync time fails after the results were stored.               *)
TransportLost(r) ==
    /\ page[r].phase \in {"WAITING", "STORED"}
    /\ Fault
    /\ MarkTransportFailure(r)

(* The tab is closed, reloaded or killed; IndexedDB and the API keep going. *)
ClosePage(r) ==
    /\ page[r].phase # "CLOSED"
    /\ Fault
    /\ page' = [page EXCEPT ![r] = ClosedPage]
    /\ request' = Abandoned(r)
    /\ UNCHANGED <<outboxVars, serverVars, passed>>

-----------------------------------------------------------------------------
(* The API: one command of a batch at a time, lowest sequence first.        *)

IsCurrent(c, q) ==
    /\ request[q].status = "RUNNING" /\ c \in request[q].todo
    /\ \A d \in request[q].todo : c[2] <= d[2]

AtStep(c, q, step) == IsCurrent(c, q) /\ request[q].step = step

IsActive(c) == active[DeviceOf[c[1]]]

(* Another command holds the receipt row of c's (device, local sequence).   *)
Taken(c) ==
    \E d \in Commands \ {c} :
        /\ receipt[d] # "NONE"
        /\ DeviceOf[d[1]] = DeviceOf[c[1]] /\ d[2] = c[2]

(* The batch loop records an answer and goes on; any answer but success     *)
(* blocks the aggregate for the rest of the batch.                          *)
Recorded(req, c, answer) ==
    [req EXCEPT
        !.todo = req.todo \ {c},
        !.step = "PRIOR",
        !.result = [req.result EXCEPT ![c] = answer],
        !.status = IF req.todo = {c} THEN "DONE" ELSE req.status,
        !.blocked = IF answer \in {"APPLIED", "REPLAYED"}
                    THEN req.blocked ELSE req.blocked \cup {agg[c]}]

(* Faulty variant: a retryable answer does not block its aggregate.         *)
AnswerUnblocked(c, q, answer) ==
    request' = [request EXCEPT ![q] = Settled(
        [Recorded(request[q], c, answer) EXCEPT
            !.blocked = IF answer \in {"APPLIED", "REPLAYED", "RETRYABLE"}
                        THEN request[q].blocked
                        ELSE request[q].blocked \cup {agg[c]}])]

Answer(c, q, answer) ==
    request' = [request EXCEPT ![q] = Settled(Recorded(request[q], c, answer))]

GoTo(q, step) == request' = [request EXCEPT ![q].step = step]

(* An exception leaves batch(): the client sees one HTTP error.             *)
Abort(q) ==
    request' = [request EXCEPT ![q] =
        Settled([request[q] EXCEPT !.status = "ABORTED"])]

Blocked(c, q) == agg[c] \in request[q].blocked

(* A later command of an aggregate that failed in this batch.               *)
SkipBlocked(c, q) ==
    /\ AtStep(c, q, "PRIOR") /\ Blocked(c, q)
    /\ Answer(c, q, "DEPENDENCY_BLOCKED")
    /\ UNCHANGED <<outboxVars, page, serverVars, faults, passed>>

(* assertDevice refuses, and no receipt is kept: the origin is not trusted. *)
RejectOrigin(c, q) ==
    /\ AtStep(c, q, "PRIOR") /\ ~Blocked(c, q) /\ ~IsActive(c)
    /\ Answer(c, q, "REJECTED")
    /\ UNCHANGED <<outboxVars, page, serverVars, faults, passed>>

(* The receipt of an earlier attempt is the answer.                         *)
ReplayReceipt(c, q) ==
    /\ AtStep(c, q, "PRIOR") /\ ~Blocked(c, q) /\ IsActive(c)
    /\ receipt[c] # "NONE"
    /\ Answer(c, q, IF receipt[c] = "APPLIED" THEN "REPLAYED" ELSE receipt[c])
    /\ UNCHANGED <<outboxVars, page, serverVars, faults, passed>>

(* The row of c's sequence number belongs to another command: process throws *)
(* SYNC_COMMAND_ID_CONFLICT, its catch block tries to persist CONFLICT, and *)
(* the unique index throws again, out of the batch.                         *)
SequenceTaken(c, q) ==
    /\ AtStep(c, q, "PRIOR") /\ ~Blocked(c, q) /\ IsActive(c) /\ Taken(c)
    /\ receipt[c] = "NONE"
    /\ Abort(q)
    /\ UNCHANGED <<outboxVars, page, serverVars, faults, passed>>

NoPrior(c, q) ==
    /\ AtStep(c, q, "PRIOR") /\ ~Blocked(c, q) /\ IsActive(c) /\ ~Taken(c)
    /\ receipt[c] = "NONE"
    /\ GoTo(q, "LOOKUP")
    /\ UNCHANGED <<outboxVars, page, serverVars, faults, passed>>

(* The domain service reads the idempotency record of the command's key,    *)
(* which exists once its transaction has committed, and replays it.         *)
LookupIdempotency(c, q) ==
    /\ AtStep(c, q, "LOOKUP")
    /\ GoTo(q, IF applied[c] > 0 THEN "APPLIED" ELSE "COMMIT")
    /\ UNCHANGED <<outboxVars, page, serverVars, faults, passed>>

(* Faulty variant: the idempotency key is not unique.                       *)
CommitAgain(c, q) ==
    /\ AtStep(c, q, "COMMIT")
    /\ applied' = [applied EXCEPT ![c] = @ + 1]
    /\ GoTo(q, "APPLIED")
    /\ UNCHANGED <<outboxVars, page, receipt, resolution, active, faults, passed>>

(* The serializable domain transaction commits, idempotency record and all; *)
(* the key's unique index lets only one attempt do so.                      *)
CommitDomain(c, q) ==
    /\ AtStep(c, q, "COMMIT") /\ applied[c] = 0
    /\ applied' = [applied EXCEPT ![c] = @ + 1]
    /\ GoTo(q, "APPLIED")
    /\ UNCHANGED <<outboxVars, page, receipt, resolution, active, faults, passed>>

(* The domain refuses: 409 (a stale revision, a unique violation, a         *)
(* serialization failure) or another 4xx.                                   *)
RefuseDomain(c, q) ==
    /\ AtStep(c, q, "COMMIT")
    /\ \E answer \in {"CONFLICT", "REJECTED"} : GoTo(q, answer)
    /\ UNCHANGED <<outboxVars, page, serverVars, faults, passed>>

(* A 5xx, a timeout or an unknown error: nothing is kept, the client retries. *)
FailDomain(c, q) ==
    /\ AtStep(c, q, "COMMIT")
    /\ Fault
    /\ Answer(c, q, "RETRYABLE")
    /\ UNCHANGED <<outboxVars, page, serverVars, passed>>

(* persist inserts the receipt, in a transaction of its own.  A row of the   *)
(* same command is accepted without looking at its status.                  *)
PersistReceipt(c, q) ==
    /\ IsCurrent(c, q) /\ request[q].step \in ReceiptStates
    /\ IsActive(c) /\ ~Taken(c)
    /\ receipt' = [receipt EXCEPT ![c] = IF @ = "NONE" THEN request[q].step ELSE @]
    /\ Answer(c, q, request[q].step)
    /\ UNCHANGED <<outboxVars, page, applied, resolution, active, faults, passed>>

(* The unique index (device, local sequence) refuses the receipt: the error  *)
(* leaves the batch, from the catch block at the latest.                    *)
PersistTaken(c, q) ==
    /\ IsCurrent(c, q) /\ request[q].step \in ReceiptStates
    /\ IsActive(c) /\ Taken(c)
    /\ Abort(q)
    /\ UNCHANGED <<outboxVars, page, serverVars, faults, passed>>

(* The scope trigger refuses the receipt of an inactive device: a retryable  *)
(* answer after a commit, an exception out of the batch after a refusal.    *)
PersistOutOfScope(c, q) ==
    /\ IsCurrent(c, q) /\ request[q].step \in ReceiptStates
    /\ ~IsActive(c)
    /\ IF request[q].step = "APPLIED" THEN Answer(c, q, "RETRYABLE") ELSE Abort(q)
    /\ UNCHANGED <<outboxVars, page, serverVars, faults, passed>>

(* The API process dies or the request is lost before it is answered.       *)
AbortRequest(q) ==
    /\ request[q].status = "RUNNING"
    /\ Fault
    /\ Abort(q)
    /\ UNCHANGED <<outboxVars, page, serverVars, passed>>

(* An administrator revokes a device, which is final: only a new device can  *)
(* be activated.  Its sessions end with it; a request that has already been  *)
(* let in runs on.                                                          *)
RevokeDevice(d) ==
    /\ active[d]
    /\ active' = [active EXCEPT ![d] = FALSE]
    /\ UNCHANGED <<outboxVars, page, request, applied, receipt, resolution, faults, passed>>

-----------------------------------------------------------------------------
(* Manager recovery.                                                        *)

(* SyncRecoveryService.resolve and the trigger behind it.                   *)
Resolvable(c, action) ==
    /\ receipt[c] \in {"CONFLICT", "REJECTED"} /\ resolution[c] = "NONE"
    /\ action = "SUPERSEDED_BY_COMMAND" =>
          \E d \in Commands : Precedes(c, d) /\ receipt[d] = "APPLIED"

(* resolveTerminal starts: the command is terminal on this device.          *)
RequestResolution(r, c) ==
    /\ page[r].phase # "CLOSED" /\ page[r].resolving = None
    /\ c \in Queued(StoreOf[r]) /\ state[c] \in Terminal
    /\ page' = [page EXCEPT ![r].resolving = c]
    /\ UNCHANGED <<outboxVars, request, serverVars, faults, passed>>

(* The API appends the resolution.                                          *)
GrantResolution(r, action) ==
    LET c == page[r].resolving IN
    /\ c # None /\ ~page[r].granted
    /\ IsActive(c) /\ Resolvable(c, action)
    /\ resolution' = [resolution EXCEPT ![c] = action]
    /\ page' = [page EXCEPT ![r].granted = TRUE]
    /\ UNCHANGED <<outboxVars, request, applied, receipt, active, faults, passed>>

(* Faulty variant: the till takes a refusal for a success.                  *)
ResolveRefused(r) ==
    LET c == page[r].resolving IN
    /\ c # None /\ ~page[r].granted
    /\ \E action \in Actions : ~Resolvable(c, action)
    /\ state' = [state EXCEPT ![c] = "RESOLVED"]
    /\ page' = [page EXCEPT ![r].resolving = None]
    /\ UNCHANGED <<agg, due, nextSequence, request, serverVars, faults, passed>>

(* The API answers 401 (device revoked), 404 (no receipt) or 409 (already    *)
(* resolved, or applied).                                                   *)
RefuseResolution(r) ==
    LET c == page[r].resolving IN
    /\ c # None /\ ~page[r].granted
    /\ \E action \in Actions : ~(IsActive(c) /\ Resolvable(c, action))
    /\ page' = [page EXCEPT ![r].resolving = None]
    /\ UNCHANGED <<outboxVars, request, serverVars, faults, passed>>

(* The answer of the resolution call is lost.                               *)
LoseResolution(r) ==
    /\ page[r].resolving # None
    /\ Fault
    /\ page' = [page EXCEPT ![r].resolving = None, ![r].granted = FALSE]
    /\ UNCHANGED <<outboxVars, request, serverVars, passed>>

(* The answer arrives: SyncStore.resolve, which leaves any state but        *)
(* CONFLICT and FAILED alone.                                               *)
StoreResolution(r) ==
    LET c == page[r].resolving IN
    /\ c # None /\ page[r].granted
    /\ state' = [state EXCEPT ![c] = IF @ \in Terminal THEN "RESOLVED" ELSE @]
    /\ page' = [page EXCEPT ![r].resolving = None, ![r].granted = FALSE]
    /\ UNCHANGED <<agg, due, nextSequence, request, serverVars, faults, passed>>

(* A manager resolves from the server's list (the SERVER rows of            *)
(* recovery-workspace.tsx): no outbox hears of it.                          *)
WorkspaceResolution(c) ==
    /\ Resolvable(c, "ACKNOWLEDGED_NO_ACTION")
    /\ resolution' = [resolution EXCEPT ![c] = "ACKNOWLEDGED_NO_ACTION"]
    /\ UNCHANGED <<outboxVars, page, request, applied, receipt, active, faults, passed>>

-----------------------------------------------------------------------------
Flush(r) ==
    \/ ReadReady(r) \/ RecordSync(r)
    \/ \E q \in Slots : MarkSending(r, q) \/ ApplyResults(r, q) \/ BatchRefused(r, q)

Process(q) ==
    \E c \in Commands :
        \/ SkipBlocked(c, q) \/ RejectOrigin(c, q) \/ ReplayReceipt(c, q)
        \/ SequenceTaken(c, q) \/ NoPrior(c, q) \/ LookupIdempotency(c, q)
        \/ CommitDomain(c, q) \/ RefuseDomain(c, q) \/ FailDomain(c, q)
        \/ PersistReceipt(c, q) \/ PersistTaken(c, q) \/ PersistOutOfScope(c, q)

Cashier(r) ==
    \/ \E a \in Aggregates : Enqueue(r, a)
    \/ OpenPage(r) \/ RecoverInterrupted(r) \/ ClosePage(r) \/ TransportLost(r)

Recovery(r) ==
    \/ \E c \in Commands : RequestResolution(r, c)
    \/ \E action \in Actions : GrantResolution(r, action)
    \/ RefuseResolution(r) \/ LoseResolution(r) \/ StoreResolution(r)

Next ==
    \/ \E r \in Runtimes : Flush(r) \/ Cashier(r) \/ Recovery(r)
    \/ \E q \in Slots : Process(q) \/ AbortRequest(q)
    \/ \E c \in Commands : BecomeDue(c) \/ WorkspaceResolution(c)
    \/ \E d \in Devices : RevokeDevice(d)

Spec == Init /\ [][Next]_vars

(* The flush is driven by the 30 s interval of sync-indicator.tsx, by the   *)
(* online event and by every click; the API runs each request to its end;   *)
(* backoffs run out; a page is opened again; a resolution call gets an      *)
(* answer.  A cashier or manager need not act.                              *)
Fairness ==
    /\ \A r \in Runtimes : WF_vars(Flush(r)) /\ WF_vars(OpenPage(r))
    /\ \A r \in Runtimes : WF_vars(RecoverInterrupted(r))
    /\ \A r \in Runtimes : WF_vars(StoreResolution(r)) /\ WF_vars(RefuseResolution(r))
    /\ \A q \in Slots : WF_vars(Process(q))
    /\ \A c \in Commands : WF_vars(BecomeDue(c))

FairSpec == Spec /\ Fairness

(* A manager who keeps trying to resolve what the till shows as terminal.   *)
ManagerSpec ==
    FairSpec /\ \A r \in Runtimes, c \in Commands : SF_vars(RequestResolution(r, c))

-----------------------------------------------------------------------------
(* Safety.                                                                  *)

(* However often a command is sent, its domain transaction commits at most  *)
(* once, and what the till shows as SYNCED has been committed.              *)
SyncedOnce ==
    \A c \in Commands :
        /\ applied[c] <= 1
        /\ state[c] = "SYNCED" => applied[c] = 1

(* A command takes effect only after every earlier command of the same      *)
(* outbox and order has taken effect or has been dismissed by a manager.    *)
AppliedInOrder ==
    \A c, d \in Commands :
        Precedes(c, d) /\ applied[d] > 0 =>
            applied[c] > 0 \/ resolution[c] # "NONE"

(* What the code keeps of it, across crashes, resends, abandoned requests   *)
(* that still run and any number of pages over one outbox: a command whose  *)
(* outcome is known to be open is never overtaken.  Only a command that was *)
(* SENDING when a later one was read can be, and only by that later one.    *)
OvertakesOnlySending ==
    \A c, d \in Commands :
        Precedes(c, d) /\ applied[d] > 0 =>
            applied[c] > 0 \/ resolution[c] # "NONE" \/ <<c, d>> \in passed

(* closeShift and complete require an outbox without PENDING, SENDING,      *)
(* CONFLICT and FAILED commands: then the server has committed everything   *)
(* the outbox ever queued, but for what a manager has dismissed.            *)
Drained(o) == \A c \in Queued(o) : state[c] \in {"SYNCED", "RESOLVED"}

DrainedIsAccounted ==
    \A o \in Outboxes : Drained(o) =>
        \A c \in Queued(o) : applied[c] = 1 \/ resolution[c] # "NONE"

(* The queue implements the command ledger: what has committed on the server *)
(* is what has taken effect, whatever the till still believes.              *)
Ledger == INSTANCE CommandLedger WITH
    order <- agg,
    doubtful <- {c \in Commands : state[c] = "SENDING"},
    overtakes <- passed,
    effective <- {c \in Commands : applied[c] > 0},
    dismissed <- {c \in Commands : resolution[c] # "NONE"}

ImplementsLedger == Ledger!LedgerSpec

(* A command a manager acknowledged as without server action has none.      *)
AcknowledgedHasNoEffect ==
    \A c \in Commands :
        resolution[c] = "ACKNOWLEDGED_NO_ACTION" => applied[c] = 0

-----------------------------------------------------------------------------
(* Liveness.                                                                *)

Waiting(c) == state[c] \in {"PENDING", "SENDING"}

(* c waits behind a terminal command of its own aggregate.                  *)
Held(c) ==
    \E d \in Commands :
        d[1] = c[1] /\ agg[d] = agg[c] /\ state[d] \in Terminal

(* With finitely many faults every queued command reaches a final state,    *)
(* waits behind a terminal command of its order, or is left on a device     *)
(* that has been revoked.                                                   *)
EveryCommandSettles ==
    \A c \in Commands : Waiting(c) ~> (~Waiting(c) \/ Held(c) \/ ~IsActive(c))

(* Once a manager has resolved a command on the server, a till that is not  *)
(* revoked lets go of it and of the commands behind it.                     *)
ResolutionUnblocks ==
    \A c \in Commands :
        (resolution[c] # "NONE") ~> (state[c] \notin Terminal \/ ~IsActive(c))

=============================================================================
