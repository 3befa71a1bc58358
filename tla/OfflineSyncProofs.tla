-------------------------- MODULE OfflineSyncProofs --------------------------
(***************************************************************************)
(* Proofs about the offline outbox and its server, for every number of tabs, *)
(* tills, commands, slots and faults.  First what one row, one lock and one *)
(* request can look like and that a command takes effect once; then what the *)
(* outbox and the server agree on: no success is shown or answered that was *)
(* not committed; last, the order in which commands take effect, that of    *)
(* the queue but for those that were SENDING when a later one was read, and *)
(* that the queue implements the command ledger.                            *)
(***************************************************************************)
EXTENDS OfflineSync, TLAPS

(* The local sequence numbers in use are exactly those below nextSequence,  *)
(* a command has an aggregate iff it is queued, and nothing but a queued    *)
(* command is sent, applied, receipted or resolved.                         *)
QueueShape ==
    /\ \A c \in Commands :
          /\ state[c] = "ABSENT" <=> nextSequence[c[1]] <= c[2]
          /\ state[c] = "ABSENT" <=> agg[c] = None
          /\ applied[c] > 0 \/ receipt[c] # "NONE" \/ resolution[c] # "NONE"
                => state[c] # "ABSENT"
    /\ \A r \in Runtimes :
          /\ \A c \in page[r].batch \cup page[r].interrupted :
                c[1] = StoreOf[r] /\ state[c] # "ABSENT"
          /\ page[r].resolving # None => state[page[r].resolving] # "ABSENT"
    /\ \A q \in Slots : \A c \in request[q].todo : state[c] # "ABSENT"

Shape == TypeOK /\ QueueShape

LEMMA FreeRequestType == FreeRequest \in Requests
  BY DEF FreeRequest, Requests, NoAnswers, Answers, Steps

(* What recording an answer does to the slots.                              *)
LEMMA AnswerEffect ==
    ASSUME TypeOK, NEW c \in Commands, NEW q \in Slots, NEW answer \in Answers,
           agg[c] \in Aggregates, Answer(c, q, answer)
    PROVE  /\ request' \in [Slots -> Requests]
           /\ \A p \in Slots : p # q => request'[p] = request[p]
           /\ \/ request'[q] = FreeRequest
              \/ /\ request'[q].todo = request[q].todo \ {c}
                 /\ request'[q].step = "PRIOR"
                 /\ request'[q].result = [request[q].result EXCEPT ![c] = answer]
                 /\ request'[q].blocked = IF answer \in {"APPLIED", "REPLAYED"}
                                          THEN request[q].blocked
                                          ELSE request[q].blocked \cup {agg[c]}
           /\ request'[q].todo = request[q].todo \ {c} \/ request'[q].todo = {}
<1> DEFINE new == Recorded(request[q], c, answer)
<1>1. request[q] \in Requests
  BY DEF TypeOK
<1>2. new \in Requests
  BY <1>1 DEF Requests, Steps, Answers, Recorded
<1>3. /\ new.todo = request[q].todo \ {c}
      /\ new.step = "PRIOR"
      /\ new.result = [request[q].result EXCEPT ![c] = answer]
      /\ new.blocked = IF answer \in {"APPLIED", "REPLAYED"}
                       THEN request[q].blocked
                       ELSE request[q].blocked \cup {agg[c]}
  BY <1>1 DEF Requests, Recorded
<1>4. request' = [request EXCEPT ![q] = Settled(new)]
  BY DEF Answer
<1>5. Settled(new) = new \/ Settled(new) = FreeRequest
  BY DEF Settled
<1>6. Settled(new) \in Requests
  BY <1>2, <1>5, FreeRequestType
<1> HIDE DEF new
<1>7. request \in [Slots -> Requests]
  BY DEF TypeOK
<1>8. request'[q] = Settled(new) /\ \A p \in Slots : p # q => request'[p] = request[p]
  BY <1>4, <1>7
<1>9. request' \in [Slots -> Requests]
  BY <1>4, <1>6, <1>7
<1> QED
  BY <1>3, <1>5, <1>8, <1>9 DEF FreeRequest

(* A slot that is aborted or abandoned is freed or keeps its work.          *)
LEMMA SettledKeeps ==
    ASSUME NEW req \in Requests
    PROVE  /\ Settled(req) \in Requests
           /\ Settled(req) = req \/ Settled(req) = FreeRequest
  BY FreeRequestType DEF Settled

LEMMA AbortEffect ==
    ASSUME TypeOK, NEW q \in Slots, Abort(q)
    PROVE  /\ request' \in [Slots -> Requests]
           /\ \A p \in Slots : p # q => request'[p] = request[p]
           /\ \/ request'[q] = FreeRequest
              \/ request'[q] = [request[q] EXCEPT !.status = "ABORTED"]
           /\ request'[q].todo = request[q].todo \/ request'[q].todo = {}
<1> DEFINE new == [request[q] EXCEPT !.status = "ABORTED"]
<1>1. request \in [Slots -> Requests] /\ request[q] \in Requests
  BY DEF TypeOK
<1>2. new \in Requests
  BY <1>1 DEF Requests
<1>3. request' = [request EXCEPT ![q] = Settled(new)]
  BY DEF Abort
<1> HIDE DEF new
<1>4. Settled(new) \in Requests /\ (Settled(new) = new \/ Settled(new) = FreeRequest)
  BY <1>2, SettledKeeps
<1>5. new.todo = request[q].todo
  BY <1>1 DEF new, Requests
<1>6. /\ request' \in [Slots -> Requests] /\ request'[q] = Settled(new)
      /\ \A p \in Slots : p # q => request'[p] = request[p]
  BY <1>1, <1>3, <1>4
<1>7. FreeRequest.todo = {}
  BY DEF FreeRequest
<1> QED
  BY <1>4, <1>5, <1>6, <1>7 DEF new

LEMMA AbandonedEffect ==
    ASSUME TypeOK, NEW r \in Runtimes, request' = Abandoned(r)
    PROVE  /\ request' \in [Slots -> Requests]
           /\ \A q \in Slots :
                 \/ request'[q] = request[q]
                 \/ request'[q] = FreeRequest
                 \/ request'[q] = [request[q] EXCEPT !.owner = None]
           /\ \A q \in Slots : request'[q].todo \subseteq request[q].todo
<1> DEFINE new(q) == [request[q] EXCEPT !.owner = None]
<1>1. \A q \in Slots : request[q] \in Requests
  BY DEF TypeOK
<1>2. \A q \in Slots : new(q) \in Requests
  BY <1>1 DEF Requests
<1>3. request' = [q \in Slots |-> IF request[q].owner = r
                                  THEN Settled(new(q)) ELSE request[q]]
  BY DEF Abandoned
<1> HIDE DEF new
<1>4. \A q \in Slots : /\ Settled(new(q)) \in Requests
                       /\ Settled(new(q)) = new(q) \/ Settled(new(q)) = FreeRequest
  BY <1>2, SettledKeeps
<1>5. \A q \in Slots : new(q).todo = request[q].todo
  BY <1>1 DEF new, Requests
<1>6. FreeRequest.todo = {}
  BY DEF FreeRequest
<1>7. \A q \in Slots : request'[q].todo = request[q].todo \/ request'[q].todo = {}
  BY <1>1, <1>3, <1>4, <1>5, <1>6
<1> QED
  BY <1>1, <1>3, <1>4, <1>7 DEF new

LEMMA GoToEffect ==
    ASSUME TypeOK, NEW q \in Slots, NEW step \in Steps, GoTo(q, step)
    PROVE  /\ request' \in [Slots -> Requests]
           /\ \A p \in Slots : p # q => request'[p] = request[p]
           /\ request'[q] = [request[q] EXCEPT !.step = step]
<1>1. request \in [Slots -> Requests] /\ request[q] \in Requests
  BY DEF TypeOK
<1>2. [request[q] EXCEPT !.step = step] \in Requests
  BY <1>1 DEF Requests
<1>3. request' = [request EXCEPT ![q] = [request[q] EXCEPT !.step = step]]
  BY <1>1 DEF GoTo, Requests
<1> QED
  BY <1>1, <1>2, <1>3

-----------------------------------------------------------------------------
(* Type correctness and the shape of the queue.                             *)

LEMMA ShapeInit == Init => Shape
  BY ConstantsAssumption, FreeRequestType
     DEF Init, Shape, TypeOK, QueueShape, Commands, LocalStates, Pages, ClosedPage,
         Phases, ReceiptStates, Actions, FreeRequest, NoAnswers

(* Shape is kept by a step that queues nothing, provided what it puts in a  *)
(* batch, a request or a receipt is queued.                                 *)
LEMMA ShapeFrame ==
    ASSUME Shape, TypeOK',
           nextSequence' = nextSequence, agg' = agg,
           \A c \in Commands : state'[c] = "ABSENT" <=> state[c] = "ABSENT",
           \A c \in Commands :
               applied'[c] > 0 \/ receipt'[c] # "NONE" \/ resolution'[c] # "NONE"
                   => state[c] # "ABSENT",
           \A r \in Runtimes :
               /\ \A c \in page'[r].batch \cup page'[r].interrupted :
                     c[1] = StoreOf[r] /\ state[c] # "ABSENT"
               /\ page'[r].resolving # None => state[page'[r].resolving] # "ABSENT",
           \A q \in Slots : \A c \in request'[q].todo : state[c] # "ABSENT"
    PROVE  Shape'
<1>1. \A r \in Runtimes : page'[r].batch \cup page'[r].interrupted \subseteq Commands
                         /\ page'[r].resolving \in Commands \cup {None}
  BY DEF TypeOK, Pages
<1>2. \A q \in Slots : request'[q].todo \subseteq Commands
  BY DEF TypeOK, Requests
<1> QED
  BY <1>1, <1>2 DEF Shape, QueueShape

LEMMA RecoverInterruptedShape ==
    ASSUME Shape, NEW r \in Runtimes, RecoverInterrupted(r)
    PROVE  Shape'
<1> USE ConstantsAssumption
<1>1. /\ page \in [Runtimes -> Pages] /\ page[r] \in Pages
      /\ state \in [Commands -> LocalStates] /\ due \in [Commands -> BOOLEAN]
      /\ page[r].batch \cup page[r].interrupted \subseteq Commands
  BY DEF Shape, TypeOK, Pages
<1>2. /\ page' \in [Runtimes -> Pages]
      /\ \A s \in Runtimes : s # r => page'[s] = page[s]
      /\ page'[r].batch = page[r].batch /\ page'[r].interrupted = {}
      /\ page'[r].resolving = page[r].resolving
  BY <1>1 DEF RecoverInterrupted, Pages, Phases
<1>3. /\ state' \in [Commands -> LocalStates] /\ due' \in [Commands -> BOOLEAN]
      /\ \A c \in Commands : state'[c] = "ABSENT" <=> state[c] = "ABSENT"
  BY <1>1 DEF RecoverInterrupted, LocalStates, Shape, QueueShape, outboxVars
<1>5. TypeOK'
  BY <1>1, <1>2, <1>3 DEF RecoverInterrupted, Shape, TypeOK, outboxVars, serverVars
<1>6. UNCHANGED <<agg, nextSequence, request, applied, receipt, resolution>>
  BY DEF RecoverInterrupted, serverVars
<1> QED
  BY <1>1, <1>2, <1>3, <1>5, <1>6, ShapeFrame DEF Shape, QueueShape

LEMMA ReadReadyShape ==
    ASSUME Shape, NEW r \in Runtimes, ReadReady(r)
    PROVE  Shape'
<1> USE ConstantsAssumption
<1>1. /\ page \in [Runtimes -> Pages] /\ page[r] \in Pages
      /\ state \in [Commands -> LocalStates] /\ due \in [Commands -> BOOLEAN]
      /\ page[r].batch \cup page[r].interrupted \subseteq Commands
  BY DEF Shape, TypeOK, Pages
<1>2. /\ page' \in [Runtimes -> Pages]
      /\ \A s \in Runtimes : s # r => page'[s] = page[s]
      /\ \A c \in page'[r].batch : c \in Queued(StoreOf[r])
      /\ page'[r].resolving = page[r].resolving
      /\ page'[r].interrupted = page[r].interrupted
  <2>1. PICK b \in SUBSET Sendable(StoreOf[r]) :
          page' = [page EXCEPT ![r].phase = "READ", ![r].batch = b]
    BY DEF ReadReady
  <2>2. b \subseteq Queued(StoreOf[r]) /\ b \subseteq Commands
    BY DEF Sendable, Pending, Queued
  <2> QED
    BY <1>1, <2>1, <2>2 DEF Pages, Phases
<1>3. passed' \in SUBSET (Commands \X Commands)
  <2>1. PICK b \in SUBSET Sendable(StoreOf[r]) : passed' = passed \cup PassedOver(b)
    BY DEF ReadReady
  <2>2. b \subseteq Commands
    BY DEF Sendable, Pending, Queued
  <2> QED
    BY <2>1, <2>2 DEF PassedOver, Shape, TypeOK
<1>5. TypeOK'
  <2>1. UNCHANGED <<outboxVars, request, serverVars, faults>>
    BY DEF ReadReady
  <2> QED
    BY <1>1, <1>2, <1>3, <2>1 DEF Shape, TypeOK, outboxVars, serverVars
<1>6. UNCHANGED <<outboxVars, request, serverVars, faults>>
  BY DEF ReadReady
<1>7. \A s \in Runtimes :
         /\ \A c \in page'[s].batch \cup page'[s].interrupted :
               c[1] = StoreOf[s] /\ state[c] # "ABSENT"
         /\ page'[s].resolving # None => state[page'[s].resolving] # "ABSENT"
  BY <1>1, <1>2 DEF Shape, QueueShape, Queued
<1> QED
  BY <1>1, <1>2, <1>5, <1>6, <1>7, ShapeFrame
     DEF Shape, QueueShape, outboxVars, serverVars, Queued

LEMMA RecordSyncShape ==
    ASSUME Shape, NEW r \in Runtimes, RecordSync(r)
    PROVE  Shape'
<1> USE ConstantsAssumption
<1>1. /\ page \in [Runtimes -> Pages] /\ page[r] \in Pages
      /\ state \in [Commands -> LocalStates] /\ due \in [Commands -> BOOLEAN]
      /\ page[r].batch \cup page[r].interrupted \subseteq Commands
  BY DEF Shape, TypeOK, Pages
<1>2. /\ page' \in [Runtimes -> Pages]
      /\ \A s \in Runtimes : s # r => page'[s] = page[s]
      /\ page'[r].batch = {}
      /\ page'[r].resolving = page[r].resolving
      /\ page'[r].interrupted = page[r].interrupted
  BY <1>1 DEF RecordSync, Pages, Phases
<1>5. TypeOK'
  BY <1>1, <1>2 DEF RecordSync, Shape, TypeOK, outboxVars, serverVars
<1> QED
  BY <1>1, <1>2, <1>5, ShapeFrame
     DEF RecordSync, Shape, QueueShape, outboxVars, serverVars

LEMMA MarkSendingShape ==
    ASSUME Shape, NEW r \in Runtimes, NEW q \in Slots, MarkSending(r, q)
    PROVE  Shape'
<1> USE ConstantsAssumption
<1>1. /\ page \in [Runtimes -> Pages] /\ page[r] \in Pages
      /\ state \in [Commands -> LocalStates] /\ due \in [Commands -> BOOLEAN]
      /\ page[r].batch \cup page[r].interrupted \subseteq Commands
  BY DEF Shape, TypeOK, Pages
<1>2. /\ page' \in [Runtimes -> Pages]
      /\ \A s \in Runtimes : s # r => page'[s] = page[s]
      /\ page'[r].batch = page[r].batch
      /\ page'[r].resolving = page[r].resolving
      /\ page'[r].interrupted = page[r].interrupted
  BY <1>1 DEF MarkSending, Pages, Phases
<1>3. /\ state' \in [Commands -> LocalStates] /\ due' \in [Commands -> BOOLEAN]
      /\ \A c \in Commands : state'[c] = "ABSENT" <=> state[c] = "ABSENT"
  BY <1>1 DEF MarkSending, LocalStates, Shape, QueueShape, outboxVars
<1>4. /\ request' \in [Slots -> Requests]
      /\ \A p \in Slots : \A c \in request'[p].todo : state[c] # "ABSENT"
  <2>1. request \in [Slots -> Requests]
    BY DEF Shape, TypeOK
  <2>2. Posted(r) \in Requests
    BY <1>1 DEF Posted, Requests, FreeRequest, NoAnswers, Answers, Steps
  <2>3. request'[q].todo = page[r].batch
        /\ \A p \in Slots : p # q => request'[p] = request[p]
    BY <2>1 DEF MarkSending, Posted, FreeRequest
  <2> QED
    BY <2>1, <2>2, <2>3 DEF MarkSending, Shape, QueueShape
<1>5. TypeOK'
  BY <1>1, <1>2, <1>3, <1>4 DEF MarkSending, Shape, TypeOK, outboxVars, serverVars
<1> QED
  BY <1>1, <1>2, <1>3, <1>4, <1>5, ShapeFrame
     DEF MarkSending, Shape, QueueShape, outboxVars, serverVars

LEMMA ApplyResultsShape ==
    ASSUME Shape, NEW r \in Runtimes, NEW q \in Slots, ApplyResults(r, q)
    PROVE  Shape'
<1> USE ConstantsAssumption
<1>1. /\ page \in [Runtimes -> Pages] /\ page[r] \in Pages
      /\ state \in [Commands -> LocalStates] /\ due \in [Commands -> BOOLEAN]
      /\ page[r].batch \cup page[r].interrupted \subseteq Commands
  BY DEF Shape, TypeOK, Pages
<1>2. /\ page' \in [Runtimes -> Pages]
      /\ \A s \in Runtimes : s # r => page'[s] = page[s]
      /\ page'[r].batch = page[r].batch
      /\ page'[r].resolving = page[r].resolving
      /\ page'[r].interrupted = page[r].interrupted
  BY <1>1 DEF ApplyResults, Pages, Phases
<1>3. /\ state' \in [Commands -> LocalStates] /\ due' \in [Commands -> BOOLEAN]
      /\ \A c \in Commands : state'[c] = "ABSENT" <=> state[c] = "ABSENT"
  BY <1>1 DEF ApplyResults, StateFor, LocalStates, Shape, QueueShape, outboxVars
<1>4. /\ request' \in [Slots -> Requests]
      /\ \A p \in Slots : \A c \in request'[p].todo : state[c] # "ABSENT"
  <2>1. request \in [Slots -> Requests]
    BY DEF Shape, TypeOK
  <2> QED
    BY <2>1, FreeRequestType DEF ApplyResults, FreeRequest, Shape, QueueShape
<1>5. TypeOK'
  BY <1>1, <1>2, <1>3, <1>4 DEF ApplyResults, Shape, TypeOK, outboxVars, serverVars
<1> QED
  BY <1>1, <1>2, <1>3, <1>4, <1>5, ShapeFrame
     DEF ApplyResults, Shape, QueueShape, outboxVars, serverVars

LEMMA MarkTransportFailureShape ==
    ASSUME Shape, NEW r \in Runtimes, MarkTransportFailure(r), faults' \in 0..MaxFaults
    PROVE  Shape'
<1> USE ConstantsAssumption
<1>1. /\ page \in [Runtimes -> Pages] /\ page[r] \in Pages
      /\ state \in [Commands -> LocalStates] /\ due \in [Commands -> BOOLEAN]
      /\ page[r].batch \cup page[r].interrupted \subseteq Commands
  BY DEF Shape, TypeOK, Pages
<1>2. /\ page' \in [Runtimes -> Pages]
      /\ \A s \in Runtimes : s # r => page'[s] = page[s]
      /\ page'[r].batch = {}
      /\ page'[r].resolving = page[r].resolving
      /\ page'[r].interrupted = page[r].interrupted
  BY <1>1 DEF MarkTransportFailure, Pages, Phases
<1>3. /\ state' \in [Commands -> LocalStates] /\ due' \in [Commands -> BOOLEAN]
      /\ \A c \in Commands : state'[c] = "ABSENT" <=> state[c] = "ABSENT"
  BY <1>1 DEF MarkTransportFailure, LocalStates, Shape, QueueShape, outboxVars
<1>4. /\ request' \in [Slots -> Requests]
      /\ \A q \in Slots : \A c \in request'[q].todo : state[c] # "ABSENT"
  <2>1. TypeOK /\ request' = Abandoned(r)
    BY DEF MarkTransportFailure, Shape
  <2> QED
    BY <2>1, AbandonedEffect DEF Shape, QueueShape, TypeOK
<1>5. TypeOK'
  <2>1. UNCHANGED <<agg, nextSequence, serverVars, passed>>
    BY DEF MarkTransportFailure
  <2> QED
    BY <1>1, <1>2, <1>3, <1>4, <2>1 DEF Shape, TypeOK, outboxVars, serverVars
<1>6. UNCHANGED <<agg, nextSequence, serverVars, passed>>
  BY DEF MarkTransportFailure
<1>7. \A s \in Runtimes :
         /\ \A c \in page'[s].batch \cup page'[s].interrupted :
               c[1] = StoreOf[s] /\ state[c] # "ABSENT"
         /\ page'[s].resolving # None => state[page'[s].resolving] # "ABSENT"
  BY <1>1, <1>2 DEF Shape, QueueShape
<1> QED
  BY <1>1, <1>2, <1>3, <1>4, <1>5, <1>6, <1>7, ShapeFrame
     DEF Shape, QueueShape, outboxVars, serverVars

LEMMA OpenPageShape ==
    ASSUME Shape, NEW r \in Runtimes, OpenPage(r)
    PROVE  Shape'
<1> USE ConstantsAssumption
<1>1. /\ page \in [Runtimes -> Pages] /\ page[r] \in Pages
      /\ state \in [Commands -> LocalStates] /\ due \in [Commands -> BOOLEAN]
      /\ page[r].batch \cup page[r].interrupted \subseteq Commands
  BY DEF Shape, TypeOK, Pages
<1>2. /\ page' \in [Runtimes -> Pages]
      /\ \A s \in Runtimes : s # r => page'[s] = page[s]
      /\ page'[r].batch = {} /\ \A c \in page'[r].interrupted : c \in Queued(StoreOf[r])
      /\ page'[r].resolving = None
  BY <1>1 DEF OpenPage, ClosedPage, Queued, Pages, Phases
<1>5. TypeOK'
  BY <1>1, <1>2 DEF OpenPage, ClosedPage, Queued, Shape, TypeOK, outboxVars, serverVars
<1> QED
  BY <1>1, <1>2, <1>5, ShapeFrame
     DEF OpenPage, ClosedPage, Queued, Shape, QueueShape, outboxVars, serverVars

LEMMA ClosePageShape ==
    ASSUME Shape, NEW r \in Runtimes, ClosePage(r)
    PROVE  Shape'
<1> USE ConstantsAssumption
<1>1. /\ page \in [Runtimes -> Pages] /\ page[r] \in Pages
      /\ state \in [Commands -> LocalStates] /\ due \in [Commands -> BOOLEAN]
      /\ page[r].batch \cup page[r].interrupted \subseteq Commands
  BY DEF Shape, TypeOK, Pages
<1>2. /\ page' \in [Runtimes -> Pages]
      /\ \A s \in Runtimes : s # r => page'[s] = page[s]
      /\ page'[r].batch = {}
      /\ page'[r].resolving = None
      /\ page'[r].interrupted = {}
  BY <1>1 DEF ClosePage, ClosedPage, Fault, Pages, Phases
<1>4. /\ request' \in [Slots -> Requests]
      /\ \A q \in Slots : \A c \in request'[q].todo : state[c] # "ABSENT"
  <2>1. TypeOK /\ request' = Abandoned(r)
    BY DEF ClosePage, Shape
  <2> QED
    BY <2>1, AbandonedEffect DEF Shape, QueueShape, TypeOK
<1>5. TypeOK'
  BY <1>1, <1>2, <1>4 DEF ClosePage, ClosedPage, Fault, Shape, TypeOK, outboxVars, serverVars
<1> QED
  BY <1>1, <1>2, <1>4, <1>5, ShapeFrame
     DEF ClosePage, ClosedPage, Fault, Shape, QueueShape, outboxVars, serverVars

LEMMA RequestResolutionShape ==
    ASSUME Shape, NEW r \in Runtimes, NEW d \in Commands, RequestResolution(r, d)
    PROVE  Shape'
<1> USE ConstantsAssumption
<1>1. /\ page \in [Runtimes -> Pages] /\ page[r] \in Pages
      /\ state \in [Commands -> LocalStates] /\ due \in [Commands -> BOOLEAN]
      /\ page[r].batch \cup page[r].interrupted \subseteq Commands
  BY DEF Shape, TypeOK, Pages
<1>2. /\ page' \in [Runtimes -> Pages]
      /\ \A s \in Runtimes : s # r => page'[s] = page[s]
      /\ page'[r].batch = page[r].batch
      /\ page'[r].resolving = d
      /\ page'[r].interrupted = page[r].interrupted
  BY <1>1 DEF RequestResolution, Queued, Pages, Phases
<1>5. TypeOK'
  BY <1>1, <1>2 DEF RequestResolution, Queued, Shape, TypeOK, outboxVars, serverVars
<1> QED
  BY <1>1, <1>2, <1>5, ShapeFrame
     DEF RequestResolution, Queued, Shape, QueueShape, outboxVars, serverVars

LEMMA GrantResolutionShape ==
    ASSUME Shape, NEW r \in Runtimes, NEW action \in Actions, GrantResolution(r, action)
    PROVE  Shape'
<1> USE ConstantsAssumption
<1>1. /\ page \in [Runtimes -> Pages] /\ page[r] \in Pages
      /\ state \in [Commands -> LocalStates] /\ due \in [Commands -> BOOLEAN]
      /\ page[r].batch \cup page[r].interrupted \subseteq Commands
  BY DEF Shape, TypeOK, Pages
<1>2. /\ page' \in [Runtimes -> Pages]
      /\ \A s \in Runtimes : s # r => page'[s] = page[s]
      /\ page'[r].batch = page[r].batch
      /\ page'[r].resolving = page[r].resolving
      /\ page'[r].interrupted = page[r].interrupted
  BY <1>1 DEF GrantResolution, IsActive, Resolvable, Pages, Phases
<1>5. TypeOK'
  BY <1>1, <1>2 DEF GrantResolution, IsActive, Resolvable, Shape, TypeOK, outboxVars, serverVars
<1> QED
  BY <1>1, <1>2, <1>5, ShapeFrame
     DEF GrantResolution, IsActive, Resolvable, Shape, QueueShape, outboxVars, serverVars

LEMMA RefuseResolutionShape ==
    ASSUME Shape, NEW r \in Runtimes, RefuseResolution(r)
    PROVE  Shape'
<1> USE ConstantsAssumption
<1>1. /\ page \in [Runtimes -> Pages] /\ page[r] \in Pages
      /\ state \in [Commands -> LocalStates] /\ due \in [Commands -> BOOLEAN]
      /\ page[r].batch \cup page[r].interrupted \subseteq Commands
  BY DEF Shape, TypeOK, Pages
<1>2. /\ page' \in [Runtimes -> Pages]
      /\ \A s \in Runtimes : s # r => page'[s] = page[s]
      /\ page'[r].batch = page[r].batch
      /\ page'[r].resolving = None
      /\ page'[r].interrupted = page[r].interrupted
  BY <1>1 DEF RefuseResolution, Pages, Phases
<1>5. TypeOK'
  BY <1>1, <1>2 DEF RefuseResolution, Shape, TypeOK, outboxVars, serverVars
<1> QED
  BY <1>1, <1>2, <1>5, ShapeFrame
     DEF RefuseResolution, Shape, QueueShape, outboxVars, serverVars

LEMMA LoseResolutionShape ==
    ASSUME Shape, NEW r \in Runtimes, LoseResolution(r)
    PROVE  Shape'
<1> USE ConstantsAssumption
<1>1. /\ page \in [Runtimes -> Pages] /\ page[r] \in Pages
      /\ state \in [Commands -> LocalStates] /\ due \in [Commands -> BOOLEAN]
      /\ page[r].batch \cup page[r].interrupted \subseteq Commands
  BY DEF Shape, TypeOK, Pages
<1>2. /\ page' \in [Runtimes -> Pages]
      /\ \A s \in Runtimes : s # r => page'[s] = page[s]
      /\ page'[r].batch = page[r].batch
      /\ page'[r].resolving = None
      /\ page'[r].interrupted = page[r].interrupted
  BY <1>1 DEF LoseResolution, Fault, Pages, Phases
<1>5. TypeOK'
  BY <1>1, <1>2 DEF LoseResolution, Fault, Shape, TypeOK, outboxVars, serverVars
<1> QED
  BY <1>1, <1>2, <1>5, ShapeFrame
     DEF LoseResolution, Fault, Shape, QueueShape, outboxVars, serverVars

LEMMA StoreResolutionShape ==
    ASSUME Shape, NEW r \in Runtimes, StoreResolution(r)
    PROVE  Shape'
<1> USE ConstantsAssumption
<1>1. /\ page \in [Runtimes -> Pages] /\ page[r] \in Pages
      /\ state \in [Commands -> LocalStates] /\ due \in [Commands -> BOOLEAN]
      /\ page[r].batch \cup page[r].interrupted \subseteq Commands
  BY DEF Shape, TypeOK, Pages
<1>2. /\ page' \in [Runtimes -> Pages]
      /\ \A s \in Runtimes : s # r => page'[s] = page[s]
      /\ page'[r].batch = page[r].batch
      /\ page'[r].resolving = None
      /\ page'[r].interrupted = page[r].interrupted
  BY <1>1 DEF StoreResolution, Pages, Phases
<1>3. /\ state' \in [Commands -> LocalStates] /\ due' \in [Commands -> BOOLEAN]
      /\ \A c \in Commands : state'[c] = "ABSENT" <=> state[c] = "ABSENT"
  <2> DEFINE n == page[r].resolving
  <2>1. /\ state' = [state EXCEPT ![n] = IF state[n] \in Terminal THEN "RESOLVED" ELSE state[n]]
        /\ due' = due
    BY DEF StoreResolution
  <2>2. state[n] \in Terminal => state[n] # "ABSENT"
    BY DEF Terminal
  <2> HIDE DEF n
  <2>3. \A c \in Commands :
            state'[c] = state[c] \/ (state'[c] = "RESOLVED" /\ state[c] # "ABSENT")
    BY <1>1, <2>1, <2>2
  <2>4. state' = [c \in Commands |-> state'[c]]
    BY <1>1, <2>1
  <2>5. \A c \in Commands : state'[c] \in LocalStates
    BY <1>1, <2>3 DEF LocalStates
  <2> QED
    BY <1>1, <2>1, <2>3, <2>4, <2>5
<1>5. TypeOK'
  BY <1>1, <1>2, <1>3 DEF StoreResolution, Shape, TypeOK, outboxVars, serverVars
<1>6. UNCHANGED <<agg, nextSequence, request, applied, receipt, resolution>>
  BY DEF StoreResolution, serverVars
<1> QED
  BY <1>1, <1>2, <1>3, <1>5, <1>6, ShapeFrame DEF Shape, QueueShape

LEMMA EnqueueShape ==
    ASSUME Shape, NEW r \in Runtimes, NEW a \in Aggregates, Enqueue(r, a)
    PROVE  Shape'
<1> DEFINE o == StoreOf[r]
           n == <<o, nextSequence[o]>>
<1> USE ConstantsAssumption
<1>1. /\ o \in Outboxes /\ nextSequence[o] \in 1..MaxSequence /\ n \in Commands
      /\ n[1] = o /\ n[2] = nextSequence[o]
  BY DEF Enqueue, Shape, TypeOK, Commands
<1>2. /\ state' = [state EXCEPT ![n] = "PENDING"] /\ agg' = [agg EXCEPT ![n] = a]
      /\ due' = [due EXCEPT ![n] = TRUE]
      /\ nextSequence' = [nextSequence EXCEPT ![o] = nextSequence[o] + 1]
      /\ UNCHANGED <<page, request, serverVars, faults, passed>>
  BY DEF Enqueue
<1> HIDE DEF n, o
<1>3. /\ state \in [Commands -> LocalStates] /\ agg \in [Commands -> Aggregates \cup {None}]
      /\ nextSequence \in [Outboxes -> 1..(MaxSequence + 1)]
      /\ \A c \in Commands : c = <<c[1], c[2]>> /\ c[1] \in Outboxes /\ c[2] \in 1..MaxSequence
  BY DEF Shape, TypeOK, Commands
<1>4. TypeOK'
  BY <1>1, <1>2, <1>3 DEF Shape, TypeOK, LocalStates, serverVars
<1>5. \A c \in Commands :
          IF c = n
          THEN state'[c] = "PENDING" /\ agg'[c] = a
          ELSE state'[c] = state[c] /\ agg'[c] = agg[c]
  BY <1>1, <1>2, <1>3
<1>6. \A c \in Commands :
          nextSequence'[c[1]] = IF c[1] = o THEN n[2] + 1 ELSE nextSequence[c[1]]
  BY <1>1, <1>2, <1>3
<1>7. \A c \in Commands : c = n <=> c[1] = o /\ c[2] = n[2]
  BY <1>1, <1>3 DEF n
<1>8. \A c \in Commands :
          /\ state'[c] = "ABSENT" <=> nextSequence'[c[1]] <= c[2]
          /\ state'[c] = "ABSENT" <=> agg'[c] = None
          /\ state'[c] = "ABSENT" => state[c] = "ABSENT"
  <2> TAKE c \in Commands
  <2>1. /\ state[c] = "ABSENT" <=> nextSequence[c[1]] <= c[2]
        /\ state[c] = "ABSENT" <=> agg[c] = None
    BY DEF Shape, QueueShape
  <2>2. c[2] \in Nat /\ nextSequence[c[1]] \in Nat /\ n[2] \in Nat
    BY <1>1, <1>3
  <2>3. CASE c = n
    <3>1. state'[c] = "PENDING" /\ agg'[c] = a /\ nextSequence'[c[1]] = c[2] + 1
      BY <1>1, <1>5, <1>6, <2>3
    <3>2. state[c] = "ABSENT" /\ a # None
      BY <1>1, <2>1, <2>2, <2>3
    <3> QED
      BY <2>2, <3>1, <3>2
  <2>4. CASE c # n
    <3>1. state'[c] = state[c] /\ agg'[c] = agg[c]
      BY <1>5, <2>4
    <3>2. nextSequence'[c[1]] <= c[2] <=> nextSequence[c[1]] <= c[2]
      <4>1. CASE c[1] = o
        <5>1. c[2] # nextSequence[c[1]] /\ nextSequence'[c[1]] = nextSequence[c[1]] + 1
          BY <1>1, <1>6, <1>7, <2>4, <4>1
        <5> QED
          BY <2>2, <5>1
      <4>2. CASE c[1] # o
        BY <1>6, <4>2
      <4> QED
        BY <4>1, <4>2
    <3> QED
      BY <2>1, <3>1, <3>2
  <2> QED
    BY <2>3, <2>4
<1>9. /\ \A s \in Runtimes : page[s].batch \subseteq Commands
                            /\ page[s].resolving \in Commands \cup {None}
      /\ \A q \in Slots : request[q].todo \subseteq Commands
  BY DEF Shape, TypeOK, Pages, Requests
<1> QED
  BY <1>2, <1>4, <1>8, <1>9 DEF Shape, QueueShape, serverVars

(* The command being processed is queued.                                   *)
LEMMA CurrentQueued ==
    ASSUME Shape, NEW c \in Commands, NEW q \in Slots, IsCurrent(c, q)
    PROVE  state[c] # "ABSENT" /\ agg[c] \in Aggregates
  BY DEF Shape, TypeOK, QueueShape, IsCurrent

(* A step of the API keeps the shape of the queue: it only takes work off a *)
(* slot, and only commits and receipts the command it is processing.        *)
LEMMA ServerFrame ==
    ASSUME Shape, NEW q \in Slots, UNCHANGED <<outboxVars, page, resolution, active, passed>>,
           request' \in [Slots -> Requests],
           \A p \in Slots : p # q => request'[p] = request[p],
           request'[q].todo \subseteq request[q].todo,
           applied' \in [Commands -> Nat], receipt' \in [Commands -> ReceiptStates],
           faults' \in 0..MaxFaults,
           \A c \in Commands : state[c] = "ABSENT" =>
               applied'[c] = applied[c] /\ receipt'[c] = receipt[c]
    PROVE  Shape'
<1>1. TypeOK'
  BY DEF Shape, TypeOK, outboxVars
<1> QED
  BY <1>1, ShapeFrame DEF Shape, QueueShape, outboxVars

LEMMA ProcessShape ==
    ASSUME Shape, NEW q \in Slots, Process(q)
    PROVE  Shape'
<1> USE ConstantsAssumption
<1>1. TypeOK /\ request \in [Slots -> Requests] /\ request[q] \in Requests
      /\ applied \in [Commands -> Nat] /\ receipt \in [Commands -> ReceiptStates]
      /\ faults \in 0..MaxFaults
  BY DEF Shape, TypeOK
<1>2. ASSUME NEW c \in Commands, NEW answer \in Answers, IsCurrent(c, q),
             Answer(c, q, answer), UNCHANGED <<outboxVars, page, resolution, active, passed>>,
             applied' = applied, faults' \in 0..MaxFaults,
             receipt' \in [Commands -> ReceiptStates],
             \A d \in Commands : d # c => receipt'[d] = receipt[d]
      PROVE  Shape'
  <2>1. state[c] # "ABSENT" /\ agg[c] \in Aggregates
    BY <1>2, CurrentQueued
  <2>2. /\ request' \in [Slots -> Requests]
        /\ \A p \in Slots : p # q => request'[p] = request[p]
        /\ request'[q].todo = request[q].todo \ {c} \/ request'[q].todo = {}
    <3>1. TypeOK /\ c \in Commands /\ answer \in Answers /\ agg[c] \in Aggregates
          /\ Answer(c, q, answer)
      BY <1>1, <1>2, <2>1
    <3> QED
      BY <3>1, AnswerEffect
  <2> QED
    BY <1>1, <1>2, <2>1, <2>2, ServerFrame
<1>3. ASSUME NEW c \in Commands, NEW step \in Steps, IsCurrent(c, q), GoTo(q, step),
             UNCHANGED <<outboxVars, page, resolution, active, receipt, faults, passed>>,
             applied' \in [Commands -> Nat],
             \A d \in Commands : d # c => applied'[d] = applied[d]
      PROVE  Shape'
  <2>1. state[c] # "ABSENT"
    BY <1>3, CurrentQueued
  <2>2. /\ request' \in [Slots -> Requests]
        /\ \A p \in Slots : p # q => request'[p] = request[p]
        /\ request'[q] = [request[q] EXCEPT !.step = step]
    BY <1>1, <1>3, GoToEffect
  <2>3. request'[q].todo = request[q].todo
    BY <1>1, <2>2 DEF Requests
  <2> QED
    BY <1>1, <1>3, <2>1, <2>2, <2>3, ServerFrame
<1>4. ASSUME Abort(q), UNCHANGED <<outboxVars, page, serverVars, passed>>, faults' \in 0..MaxFaults
      PROVE  Shape'
  <2>1. /\ request' \in [Slots -> Requests]
        /\ \A p \in Slots : p # q => request'[p] = request[p]
        /\ request'[q].todo \subseteq request[q].todo
    BY <1>1, <1>4, AbortEffect
  <2> QED
    BY <1>1, <1>4, <2>1, ServerFrame DEF serverVars
<1>5. PICK c \in Commands :
        \/ SkipBlocked(c, q) \/ RejectOrigin(c, q) \/ ReplayReceipt(c, q)
        \/ SequenceTaken(c, q) \/ NoPrior(c, q) \/ LookupIdempotency(c, q)
        \/ CommitDomain(c, q) \/ RefuseDomain(c, q) \/ FailDomain(c, q)
        \/ PersistReceipt(c, q) \/ PersistTaken(c, q) \/ PersistOutOfScope(c, q)
  BY DEF Process
<1>6. CASE SkipBlocked(c, q)
  BY <1>1, <1>2, <1>6 DEF SkipBlocked, AtStep, Answers, serverVars
<1>7. CASE RejectOrigin(c, q)
  BY <1>1, <1>2, <1>7 DEF RejectOrigin, AtStep, Answers, serverVars
<1>8. CASE ReplayReceipt(c, q)
  <2>1. (IF receipt[c] = "APPLIED" THEN "REPLAYED" ELSE receipt[c]) \in Answers
    BY <1>1 DEF Answers, ReceiptStates
  <2> QED
    BY <1>1, <1>2, <1>8, <2>1 DEF ReplayReceipt, AtStep, serverVars
<1>9. CASE SequenceTaken(c, q)
  BY <1>1, <1>4, <1>9 DEF SequenceTaken
<1>10. CASE NoPrior(c, q)
  BY <1>1, <1>3, <1>10 DEF NoPrior, AtStep, Steps, serverVars
<1>11. CASE LookupIdempotency(c, q)
  <2>1. (IF applied[c] > 0 THEN "APPLIED" ELSE "COMMIT") \in Steps
    BY DEF Steps
  <2> QED
    BY <1>1, <1>3, <1>11, <2>1 DEF LookupIdempotency, AtStep, serverVars
<1>12. CASE CommitDomain(c, q)
  BY <1>1, <1>3, <1>12 DEF CommitDomain, AtStep, Steps
<1>13. CASE RefuseDomain(c, q)
  BY <1>1, <1>3, <1>13 DEF RefuseDomain, AtStep, Steps, serverVars
<1>14. CASE FailDomain(c, q)
  BY <1>1, <1>2, <1>14 DEF FailDomain, AtStep, Fault, Answers, serverVars
<1>15. CASE PersistReceipt(c, q)
  <2>1. request[q].step \in Answers /\ request[q].step \in ReceiptStates
    BY <1>15 DEF PersistReceipt, ReceiptStates, Answers
  <2>2. receipt' \in [Commands -> ReceiptStates]
        /\ \A d \in Commands : d # c => receipt'[d] = receipt[d]
    BY <1>1, <1>15, <2>1 DEF PersistReceipt
  <2> QED
    BY <1>1, <1>2, <1>15, <2>1, <2>2 DEF PersistReceipt
<1>16. CASE PersistTaken(c, q)
  BY <1>1, <1>4, <1>16 DEF PersistTaken
<1>17. CASE PersistOutOfScope(c, q)
  BY <1>1, <1>2, <1>4, <1>17 DEF PersistOutOfScope, Answers, serverVars
<1> QED
  BY <1>5, <1>6, <1>7, <1>8, <1>9, <1>10, <1>11, <1>12, <1>13, <1>14, <1>15, <1>16, <1>17

LEMMA ShapeNext == Shape /\ [Next]_vars => Shape'
<1> SUFFICES ASSUME Shape, [Next]_vars PROVE Shape'
  OBVIOUS
<1> USE ConstantsAssumption
<1>1. TypeOK
  BY DEF Shape
<1>2. ASSUME NEW r \in Runtimes, Flush(r) PROVE Shape'
  <2>1. ASSUME NEW q \in Slots, BatchRefused(r, q) PROVE Shape'
    BY <1>1, <2>1, MarkTransportFailureShape DEF BatchRefused, TypeOK
  <2> QED
    BY <1>2, <2>1, ReadReadyShape, RecordSyncShape, MarkSendingShape, ApplyResultsShape
       DEF Flush
<1>3. ASSUME NEW r \in Runtimes, Cashier(r) PROVE Shape'
  <2>1. ASSUME TransportLost(r) PROVE Shape'
    BY <1>1, <2>1, MarkTransportFailureShape DEF TransportLost, Fault, TypeOK
  <2> QED
    BY <1>3, <2>1, EnqueueShape, OpenPageShape, RecoverInterruptedShape, ClosePageShape
       DEF Cashier
<1>4. ASSUME NEW r \in Runtimes, Recovery(r) PROVE Shape'
  BY <1>4, RequestResolutionShape, GrantResolutionShape, RefuseResolutionShape,
     LoseResolutionShape, StoreResolutionShape DEF Recovery
<1>5. ASSUME NEW q \in Slots, AbortRequest(q) PROVE Shape'
  <2>1. /\ request' \in [Slots -> Requests]
        /\ \A p \in Slots : p # q => request'[p] = request[p]
        /\ request'[q].todo \subseteq request[q].todo
    BY <1>1, <1>5, AbortEffect DEF AbortRequest
  <2> QED
    BY <1>1, <1>5, <2>1, ServerFrame DEF AbortRequest, Fault, TypeOK, serverVars
<1>6. ASSUME NEW c \in Commands, BecomeDue(c) PROVE Shape'
  <2>1. TypeOK'
    BY <1>1, <1>6 DEF BecomeDue, TypeOK, serverVars
  <2> QED
    BY <1>6, <2>1, ShapeFrame DEF BecomeDue, Shape, QueueShape, serverVars
<1>7. ASSUME NEW c \in Commands, WorkspaceResolution(c) PROVE Shape'
  <2>1. TypeOK'
    BY <1>1, <1>7 DEF WorkspaceResolution, TypeOK, Actions, outboxVars
  <2> QED
    BY <1>7, <2>1, ShapeFrame
       DEF WorkspaceResolution, Resolvable, Shape, QueueShape, TypeOK, outboxVars
<1>8. ASSUME NEW d \in Devices, RevokeDevice(d) PROVE Shape'
  <2>1. active' \in [Devices -> BOOLEAN] /\ faults' \in 0..MaxFaults
    BY <1>1, <1>8 DEF RevokeDevice, TypeOK
  <2>2. UNCHANGED <<outboxVars, page, request, applied, receipt, resolution, passed>>
    BY <1>8 DEF RevokeDevice
  <2>3. TypeOK'
    BY <1>1, <2>1, <2>2 DEF TypeOK, outboxVars
  <2> QED
    BY <2>2, <2>3, ShapeFrame
       DEF Shape, QueueShape, outboxVars
<1>9. CASE UNCHANGED vars
  BY <1>9, <1>1 DEF vars, Shape, TypeOK, QueueShape
<1> QED
  BY <1>2, <1>3, <1>4, <1>5, <1>6, <1>7, <1>8, <1>9, ProcessShape DEF Next

LEMMA ShapeInvariant == Spec => []Shape
  BY ShapeInit, ShapeNext, PTL DEF Spec

(* Every variable keeps its type, whatever the size of the system.          *)
THEOREM TypeCorrect == Spec => []TypeOK
<1>1. Shape => TypeOK
  BY DEF Shape
<1> QED
  BY <1>1, ShapeInvariant, PTL

-----------------------------------------------------------------------------
(***************************************************************************)
(* What the outbox and the server agree on.                                 *)
(***************************************************************************)

Done == {c \in Commands : applied[c] = 1}

(* A request serves one outbox, and claims success, in its results and for  *)
(* the command it is processing, only for commands in done.                 *)
HonestRequest(req, done) ==
    /\ \A c, d \in req.todo : c[1] = d[1]
    /\ \A c \in Commands : req.result[c] \in {"APPLIED", "REPLAYED"} => c \in done
    /\ req.status = "RUNNING" /\ req.step = "APPLIED" =>
          \A c \in req.todo : (\A d \in req.todo : c[2] <= d[2]) => c \in done

Truth ==
    /\ \A c \in Commands :
          /\ applied[c] <= 1
          /\ state[c] = "SYNCED" => applied[c] = 1
          /\ receipt[c] = "APPLIED" => applied[c] = 1
          /\ state[c] = "RESOLVED" => resolution[c] # "NONE"
    /\ \A r \in Runtimes : page[r].granted =>
          /\ page[r].resolving # None
          /\ resolution[page[r].resolving] # "NONE"
    /\ \A q \in Slots : HonestRequest(request[q], Done)

-----------------------------------------------------------------------------
(* What happens to an honest request.                                       *)

LEMMA HonestFree == ASSUME NEW done PROVE HonestRequest(FreeRequest, done)
  BY DEF HonestRequest, FreeRequest, NoAnswers

LEMMA HonestMore ==
    ASSUME NEW req, NEW done, NEW more, done \subseteq more, HonestRequest(req, done)
    PROVE  HonestRequest(req, more)
  BY DEF HonestRequest

LEMMA HonestSettled ==
    ASSUME NEW req \in Requests, NEW done, HonestRequest(req, done)
    PROVE  HonestRequest(Settled(req), done)
  BY HonestFree DEF Settled

LEMMA HonestUnowned ==
    ASSUME NEW req \in Requests, NEW done, HonestRequest(req, done)
    PROVE  HonestRequest([req EXCEPT !.owner = None], done)
  BY DEF HonestRequest, Requests

LEMMA HonestAborted ==
    ASSUME NEW req \in Requests, NEW done, HonestRequest(req, done)
    PROVE  HonestRequest([req EXCEPT !.status = "ABORTED"], done)
  BY DEF HonestRequest, Requests

(* A step other than APPLIED claims nothing; APPLIED is claimed of the      *)
(* lowest command of the request, the only one with its number.             *)
LEMMA HonestStep ==
    ASSUME NEW req \in Requests, NEW done, HonestRequest(req, done), NEW step \in Steps,
           NEW c \in req.todo, \A d \in req.todo : c[2] <= d[2],
           step = "APPLIED" => c \in done
    PROVE  HonestRequest([req EXCEPT !.step = step], done)
<1>1. req.todo \subseteq Outboxes \X (1..MaxSequence) /\ MaxSequence \in Nat
  BY ConstantsAssumption DEF Requests, Commands
<1>2. \A d \in req.todo : (\A e \in req.todo : d[2] <= e[2]) => d[2] = c[2]
  BY <1>1
<1>3. \A d \in req.todo : d[2] = c[2] => d = c
  BY <1>1 DEF HonestRequest
<1> QED
  BY <1>2, <1>3 DEF HonestRequest, Requests

LEMMA HonestAnswer ==
    ASSUME TypeOK, NEW c \in Commands, NEW q \in Slots, NEW answer \in Answers,
           agg[c] \in Aggregates, Answer(c, q, answer), NEW done,
           \A p \in Slots : HonestRequest(request[p], done),
           answer \in {"APPLIED", "REPLAYED"} => c \in done
    PROVE  \A p \in Slots : HonestRequest(request'[p], done)
<1>1. /\ \A p \in Slots : p # q => request'[p] = request[p]
      /\ \/ request'[q] = FreeRequest
         \/ /\ request'[q].todo = request[q].todo \ {c}
            /\ request'[q].step = "PRIOR"
            /\ request'[q].result = [request[q].result EXCEPT ![c] = answer]
            /\ request'[q].blocked = IF answer \in {"APPLIED", "REPLAYED"}
                                     THEN request[q].blocked
                                     ELSE request[q].blocked \cup {agg[c]}
  <2> HIDE DEF Answers
  <2> QED
    BY AnswerEffect
<1>2. request[q].result \in [Commands -> Answers]
  BY DEF TypeOK, Requests
<1>3. HonestRequest(request'[q], done)
  <2>1. CASE request'[q] = FreeRequest
    BY <2>1, HonestFree
  <2>2. CASE /\ request'[q].todo = request[q].todo \ {c}
             /\ request'[q].step = "PRIOR"
             /\ request'[q].result = [request[q].result EXCEPT ![c] = answer]
    BY <1>2, <2>2 DEF HonestRequest
  <2> QED
    BY <1>1, <2>1, <2>2
<1> QED
  BY <1>1, <1>3

LEMMA HonestAbort ==
    ASSUME TypeOK, NEW q \in Slots, Abort(q), NEW done,
           \A p \in Slots : HonestRequest(request[p], done)
    PROVE  \A p \in Slots : HonestRequest(request'[p], done)
<1>1. /\ \A p \in Slots : p # q => request'[p] = request[p]
      /\ \/ request'[q] = FreeRequest
         \/ request'[q] = [request[q] EXCEPT !.status = "ABORTED"]
  BY AbortEffect
<1>2. request[q] \in Requests
  BY DEF TypeOK
<1> QED
  BY <1>1, <1>2, HonestFree, HonestAborted

LEMMA HonestAbandoned ==
    ASSUME TypeOK, NEW r \in Runtimes, request' = Abandoned(r), NEW done,
           \A p \in Slots : HonestRequest(request[p], done)
    PROVE  \A p \in Slots : HonestRequest(request'[p], done)
<1>1. TAKE q \in Slots
<1>2. request[q] \in Requests /\ HonestRequest(request[q], done)
  BY DEF TypeOK
<1>3. \/ request'[q] = request[q]
      \/ request'[q] = FreeRequest
      \/ request'[q] = [request[q] EXCEPT !.owner = None]
  BY AbandonedEffect
<1>4. HonestRequest([request[q] EXCEPT !.owner = None], done)
  BY <1>2, HonestUnowned
<1> QED
  BY <1>2, <1>3, <1>4, HonestFree

-----------------------------------------------------------------------------
(* Truth is inductive.                                                      *)

LEMMA TruthInit == Init => Truth
  BY HonestFree DEF Init, Truth, ClosedPage

(* A step that commits nothing keeps Truth when what it newly shows, claims *)
(* or stores is backed by the server's tables.                              *)
LEMMA TruthFrame ==
    ASSUME Truth, applied' = applied,
           \A c \in Commands :
               /\ resolution[c] # "NONE" => resolution'[c] # "NONE"
               /\ state'[c] = "SYNCED" => state[c] = "SYNCED" \/ c \in Done
               /\ receipt'[c] = "APPLIED" => receipt[c] = "APPLIED" \/ c \in Done
               /\ state'[c] = "RESOLVED" => state[c] = "RESOLVED" \/ resolution[c] # "NONE",
           \A r \in Runtimes : page'[r].granted =>
               /\ page'[r].resolving # None
               /\ resolution'[page'[r].resolving] # "NONE",
           \A q \in Slots : HonestRequest(request'[q], Done)
    PROVE  Truth'
<1>1. Done' = Done
  BY DEF Done
<1> QED
  BY <1>1 DEF Truth, Done

(* The outbox alone changes.                                                *)
LEMMA TruthOutbox ==
    ASSUME Shape, Truth, UNCHANGED serverVars,
           \A c \in Commands :
               state'[c] = state[c] \/ state'[c] \notin {"SYNCED", "RESOLVED"},
           \A r \in Runtimes : page'[r].granted =>
               page[r].granted /\ page'[r].resolving = page[r].resolving,
           \A q \in Slots : HonestRequest(request'[q], Done)
    PROVE  Truth'
<1>1. \A r \in Runtimes : page'[r].granted =>
          page'[r].resolving # None /\ resolution'[page'[r].resolving] # "NONE"
  BY DEF Truth, serverVars
<1> QED
  BY <1>1, TruthFrame DEF serverVars

LEMMA TruthFlush ==
    ASSUME Shape, Truth, NEW r \in Runtimes, Flush(r)
    PROVE  Truth'
<1>1. /\ TypeOK /\ page \in [Runtimes -> Pages] /\ page[r] \in Pages
      /\ state \in [Commands -> LocalStates]
      /\ request \in [Slots -> Requests]
  BY DEF Shape, TypeOK
<1>2. \A q \in Slots : HonestRequest(request[q], Done)
  BY DEF Truth
<1>3. CASE ReadReady(r)
  <2>1. PICK b \in SUBSET Sendable(StoreOf[r]) :
          page' = [page EXCEPT ![r].phase = "READ", ![r].batch = b]
    BY <1>3 DEF ReadReady
  <2>2. UNCHANGED <<outboxVars, request, serverVars, faults>>
    BY <1>3 DEF ReadReady
  <2> QED
    BY <1>1, <1>2, <2>1, <2>2, TruthOutbox DEF Pages, outboxVars
<1>4. CASE RecordSync(r)
  BY <1>1, <1>2, <1>4, TruthOutbox DEF RecordSync, Pages, outboxVars
<1>5. ASSUME NEW q \in Slots, MarkSending(r, q) PROVE Truth'
  <2>1. page[r].batch \subseteq Commands /\ \A c \in page[r].batch : c[1] = StoreOf[r]
    BY <1>1 DEF Pages, Shape, QueueShape
  <2>2. HonestRequest(Posted(r), Done)
    BY <2>1 DEF HonestRequest, Posted, FreeRequest, NoAnswers
  <2>3. \A p \in Slots : HonestRequest(request'[p], Done)
    BY <1>1, <1>2, <1>5, <2>2 DEF MarkSending
  <2>4. \A s \in Runtimes : page'[s].granted =>
            page[s].granted /\ page'[s].resolving = page[s].resolving
    BY <1>1, <1>5 DEF MarkSending, Pages
  <2>5. UNCHANGED serverVars /\ \A c \in Commands : state'[c] \in {state[c], "SENDING"}
    BY <1>1, <1>5 DEF MarkSending
  <2> QED
    BY <2>3, <2>4, <2>5, TruthOutbox
<1>6. ASSUME NEW q \in Slots, ApplyResults(r, q) PROVE Truth'
  <2>1. UNCHANGED serverVars
    BY <1>6 DEF ApplyResults
  <2>2. \A c \in Commands : state'[c] = state[c] \/ state'[c] = StateFor(request[q].result[c])
    BY <1>6 DEF ApplyResults
  <2>3. \A c \in Commands : StateFor(request[q].result[c]) = "SYNCED" => c \in Done
    BY <1>2 DEF StateFor, HonestRequest
  <2>4. \A c \in Commands : StateFor(request[q].result[c]) # "RESOLVED"
    BY DEF StateFor
  <2>5. \A s \in Runtimes : page'[s].granted =>
            page[s].granted /\ page'[s].resolving = page[s].resolving
    BY <1>1, <1>6 DEF ApplyResults, Pages
  <2>6. \A p \in Slots : HonestRequest(request'[p], Done)
    BY <1>1, <1>2, <1>6, HonestFree DEF ApplyResults
  <2>7. \A s \in Runtimes : page'[s].granted =>
            page'[s].resolving # None /\ resolution'[page'[s].resolving] # "NONE"
    BY <2>1, <2>5 DEF Truth, serverVars
  <2> QED
    BY <2>1, <2>2, <2>3, <2>4, <2>6, <2>7, TruthFrame DEF serverVars
<1>7. ASSUME NEW q \in Slots, BatchRefused(r, q) PROVE Truth'
  <2>1. \A p \in Slots : HonestRequest(request'[p], Done)
    BY <1>1, <1>2, <1>7, HonestAbandoned DEF BatchRefused, MarkTransportFailure
  <2> QED
    BY <1>1, <1>7, <2>1, TruthOutbox DEF BatchRefused, MarkTransportFailure, Pages
<1> QED
  BY Flush(r), <1>3, <1>4, <1>5, <1>6, <1>7 DEF Flush

LEMMA TruthCashier ==
    ASSUME Shape, Truth, NEW r \in Runtimes, Cashier(r)
    PROVE  Truth'
<1>1. /\ TypeOK /\ page \in [Runtimes -> Pages] /\ page[r] \in Pages
      /\ state \in [Commands -> LocalStates]
  BY DEF Shape, TypeOK
<1>2. \A q \in Slots : HonestRequest(request[q], Done)
  BY DEF Truth
<1>3. ASSUME NEW a \in Aggregates, Enqueue(r, a) PROVE Truth'
  BY <1>1, <1>2, <1>3, TruthOutbox DEF Enqueue
<1>4. CASE OpenPage(r)
  BY <1>1, <1>2, <1>4, TruthOutbox DEF OpenPage, ClosedPage, Pages, outboxVars
<1>5. CASE ClosePage(r)
  <2>1. \A p \in Slots : HonestRequest(request'[p], Done)
    BY <1>1, <1>2, <1>5, HonestAbandoned DEF ClosePage
  <2> QED
    BY <1>1, <1>5, <2>1, TruthOutbox DEF ClosePage, ClosedPage, Pages, outboxVars
<1>6. CASE TransportLost(r)
  <2>1. \A p \in Slots : HonestRequest(request'[p], Done)
    BY <1>1, <1>2, <1>6, HonestAbandoned DEF TransportLost, MarkTransportFailure
  <2> QED
    BY <1>1, <1>6, <2>1, TruthOutbox DEF TransportLost, MarkTransportFailure, Pages
<1>7. CASE RecoverInterrupted(r)
  BY <1>1, <1>2, <1>7, TruthOutbox DEF RecoverInterrupted, Pages
<1> QED
  BY Cashier(r), <1>3, <1>4, <1>5, <1>6, <1>7 DEF Cashier

LEMMA TruthRecovery ==
    ASSUME Shape, Truth, NEW r \in Runtimes, Recovery(r)
    PROVE  Truth'
<1>1. /\ TypeOK /\ page \in [Runtimes -> Pages] /\ page[r] \in Pages
      /\ state \in [Commands -> LocalStates]
      /\ resolution \in [Commands -> Actions \cup {"NONE"}]
      /\ \A s \in Runtimes : page[s].resolving \in Commands \cup {None}
  BY DEF Shape, TypeOK, Pages
<1>2. \A q \in Slots : HonestRequest(request[q], Done)
  BY DEF Truth
<1>3. ASSUME NEW c \in Commands, RequestResolution(r, c) PROVE Truth'
  <2>1. ~page[r].granted
    BY <1>3 DEF RequestResolution, Truth
  <2> QED
    BY <1>1, <1>2, <1>3, <2>1, TruthOutbox DEF RequestResolution, Pages, outboxVars
<1>4. ASSUME NEW action \in Actions, GrantResolution(r, action) PROVE Truth'
  <2>1. \A s \in Runtimes : page'[s].granted =>
            page'[s].resolving # None /\ resolution'[page'[s].resolving] # "NONE"
    BY <1>1, <1>4 DEF GrantResolution, Truth, Pages, Actions
  <2>2. \A c \in Commands : resolution[c] # "NONE" => resolution'[c] # "NONE"
    BY <1>1, <1>4 DEF GrantResolution, Actions
  <2> QED
    BY <1>2, <1>4, <2>1, <2>2, TruthFrame DEF GrantResolution, outboxVars
<1>5. CASE RefuseResolution(r)
  BY <1>1, <1>2, <1>5, TruthOutbox DEF RefuseResolution, Pages, outboxVars
<1>6. CASE LoseResolution(r)
  BY <1>1, <1>2, <1>6, TruthOutbox DEF LoseResolution, Pages, outboxVars
<1>7. CASE StoreResolution(r)
  <2>1. UNCHANGED <<request, serverVars>>
    BY <1>7 DEF StoreResolution
  <2>2. \A c \in Commands : \/ state'[c] = state[c]
                            \/ state'[c] = "RESOLVED" /\ resolution[c] # "NONE"
    BY <1>1, <1>7 DEF StoreResolution, Truth
  <2>3. \A s \in Runtimes : page'[s].granted =>
            page'[s].resolving # None /\ resolution'[page'[s].resolving] # "NONE"
    BY <1>1, <1>7 DEF StoreResolution, Truth, Pages, serverVars
  <2> QED
    BY <1>2, <2>1, <2>2, <2>3, TruthFrame DEF serverVars
<1> QED
  BY Recovery(r), <1>3, <1>4, <1>5, <1>6, <1>7 DEF Recovery

(* The API answers success only for what it committed, or found committed.  *)
LEMMA TruthProcess ==
    ASSUME Shape, Truth, NEW q \in Slots, Process(q)
    PROVE  Truth'
<1>1. /\ TypeOK /\ request \in [Slots -> Requests] /\ request[q] \in Requests
      /\ applied \in [Commands -> Nat] /\ receipt \in [Commands -> ReceiptStates]
  BY DEF Shape, TypeOK
<1>2. \A p \in Slots : HonestRequest(request[p], Done)
  BY DEF Truth
<1>3. \A r \in Runtimes : page[r].granted =>
          page[r].resolving # None /\ resolution[page[r].resolving] # "NONE"
  BY DEF Truth
<1>4. ASSUME NEW c \in Commands, NEW answer \in Answers, IsCurrent(c, q),
             Answer(c, q, answer), UNCHANGED <<outboxVars, page, applied, resolution>>,
             answer \in {"APPLIED", "REPLAYED"} => c \in Done,
             \A d \in Commands : receipt'[d] = "APPLIED" => receipt[d] = "APPLIED" \/ d \in Done
      PROVE  Truth'
  <2>1. agg[c] \in Aggregates
    BY <1>4, CurrentQueued
  <2>2. \A p \in Slots : HonestRequest(request'[p], Done)
    BY <1>1, <1>2, <1>4, <2>1, HonestAnswer
  <2> QED
    BY <1>3, <1>4, <2>2, TruthFrame DEF outboxVars
<1>5. ASSUME NEW c \in Commands, NEW step \in Steps, IsCurrent(c, q), GoTo(q, step),
             UNCHANGED <<outboxVars, page, serverVars>>,
             step = "APPLIED" => c \in Done
      PROVE  Truth'
  <2>1. c \in request[q].todo /\ \A d \in request[q].todo : c[2] <= d[2]
    BY <1>5 DEF IsCurrent
  <2>2. HonestRequest([request[q] EXCEPT !.step = step], Done)
    BY <1>1, <1>2, <1>5, <2>1, HonestStep
  <2>3. \A p \in Slots : HonestRequest(request'[p], Done)
    BY <1>1, <1>2, <1>5, <2>2, GoToEffect
  <2> QED
    BY <1>3, <1>5, <2>3, TruthFrame DEF outboxVars, serverVars
<1>6. ASSUME Abort(q), UNCHANGED <<outboxVars, page, serverVars>> PROVE Truth'
  <2>1. \A p \in Slots : HonestRequest(request'[p], Done)
    BY <1>1, <1>2, <1>6, HonestAbort
  <2> QED
    BY <1>3, <1>6, <2>1, TruthFrame DEF outboxVars, serverVars
<1>7. \A c \in Commands : IsCurrent(c, q) /\ request[q].step = "APPLIED" => c \in Done
  BY <1>2 DEF HonestRequest, IsCurrent
<1>8. PICK c \in Commands :
        \/ SkipBlocked(c, q) \/ RejectOrigin(c, q) \/ ReplayReceipt(c, q)
        \/ SequenceTaken(c, q) \/ NoPrior(c, q) \/ LookupIdempotency(c, q)
        \/ CommitDomain(c, q) \/ RefuseDomain(c, q) \/ FailDomain(c, q)
        \/ PersistReceipt(c, q) \/ PersistTaken(c, q) \/ PersistOutOfScope(c, q)
  BY DEF Process
<1>9. CASE SkipBlocked(c, q)
  BY <1>4, <1>9 DEF SkipBlocked, AtStep, Answers, serverVars
<1>10. CASE RejectOrigin(c, q)
  BY <1>4, <1>10 DEF RejectOrigin, AtStep, Answers, serverVars
<1>11. CASE ReplayReceipt(c, q)
  <2> DEFINE answer == IF receipt[c] = "APPLIED" THEN "REPLAYED" ELSE receipt[c]
  <2>1. answer \in Answers
    BY <1>1 DEF Answers, ReceiptStates
  <2>2. answer \in {"APPLIED", "REPLAYED"} => c \in Done
    BY <1>1 DEF ReceiptStates, Truth, Done
  <2>3. IsCurrent(c, q) /\ Answer(c, q, answer)
        /\ UNCHANGED <<outboxVars, page, serverVars, faults>>
    BY <1>11 DEF ReplayReceipt, AtStep
  <2> HIDE DEF answer
  <2> QED
    BY <1>4, <2>1, <2>2, <2>3 DEF serverVars
<1>12. CASE SequenceTaken(c, q)
  BY <1>6, <1>12 DEF SequenceTaken
<1>13. CASE NoPrior(c, q)
  BY <1>5, <1>13 DEF NoPrior, AtStep, Steps
<1>14. CASE LookupIdempotency(c, q)
  <2> DEFINE step == IF applied[c] > 0 THEN "APPLIED" ELSE "COMMIT"
  <2>1. step \in Steps
    BY DEF Steps
  <2>2. step = "APPLIED" => c \in Done
    BY <1>1 DEF Truth, Done
  <2>3. IsCurrent(c, q) /\ GoTo(q, step) /\ UNCHANGED <<outboxVars, page, serverVars, faults>>
    BY <1>14 DEF LookupIdempotency, AtStep
  <2> HIDE DEF step
  <2> QED
    BY <1>5, <2>1, <2>2, <2>3
<1>15. CASE CommitDomain(c, q)
  <2>1. /\ c \in request[q].todo /\ \A d \in request[q].todo : c[2] <= d[2]
        /\ applied' = [applied EXCEPT ![c] = applied[c] + 1] /\ applied[c] = 0
        /\ GoTo(q, "APPLIED")
        /\ UNCHANGED <<outboxVars, page, receipt, resolution, active, faults>>
    BY <1>15 DEF CommitDomain, AtStep, IsCurrent
  <2>2. \A d \in Commands : applied'[d] = IF d = c THEN 1 ELSE applied[d]
    BY <1>1, <2>1
  <2>3. Done' = Done \cup {c}
    BY <2>1, <2>2 DEF Done
  <2>4. "APPLIED" \in Steps
    BY DEF Steps
  <2>5. \A p \in Slots : HonestRequest(request[p], Done')
    BY <1>2, <2>3, HonestMore
  <2>6. HonestRequest([request[q] EXCEPT !.step = "APPLIED"], Done')
    BY <1>1, <2>1, <2>3, <2>4, <2>5, HonestStep
  <2>7. \A p \in Slots : HonestRequest(request'[p], Done')
    BY <1>1, <2>1, <2>4, <2>5, <2>6, GoToEffect
  <2> QED
    BY <2>1, <2>2, <2>7 DEF Truth, outboxVars
<1>16. CASE RefuseDomain(c, q)
  BY <1>5, <1>16 DEF RefuseDomain, AtStep, Steps
<1>17. CASE FailDomain(c, q)
  BY <1>4, <1>17 DEF FailDomain, AtStep, Answers, serverVars
<1>18. CASE PersistReceipt(c, q)
  <2>1. /\ IsCurrent(c, q) /\ Answer(c, q, request[q].step)
        /\ UNCHANGED <<outboxVars, page, applied, resolution>>
        /\ receipt' = [receipt EXCEPT ![c] = IF receipt[c] = "NONE"
                                            THEN request[q].step ELSE receipt[c]]
        /\ request[q].step \in ReceiptStates
    BY <1>18 DEF PersistReceipt
  <2>2. request[q].step \in Answers
    BY <2>1 DEF ReceiptStates, Answers
  <2>3. request[q].step \in {"APPLIED", "REPLAYED"} => c \in Done
    BY <1>7, <2>1 DEF ReceiptStates
  <2>4. \A d \in Commands : receipt'[d] = "APPLIED" => receipt[d] = "APPLIED" \/ d \in Done
    BY <1>1, <2>1, <2>3
  <2> QED
    BY <1>4, <2>1, <2>2, <2>3, <2>4
<1>19. CASE PersistTaken(c, q)
  BY <1>6, <1>19 DEF PersistTaken
<1>20. CASE PersistOutOfScope(c, q)
  BY <1>4, <1>6, <1>20 DEF PersistOutOfScope, Answers, serverVars
<1> QED
  BY <1>8, <1>9, <1>10, <1>11, <1>12, <1>13, <1>14, <1>15, <1>16, <1>17, <1>18, <1>19, <1>20

LEMMA TruthNext == Shape /\ Truth /\ [Next]_vars => Truth'
<1> SUFFICES ASSUME Shape, Truth, [Next]_vars PROVE Truth'
  OBVIOUS
<1>1. /\ TypeOK /\ resolution \in [Commands -> Actions \cup {"NONE"}]
      /\ \A r \in Runtimes : page[r].resolving \in Commands \cup {None}
  BY DEF Shape, TypeOK, Pages
<1>2. /\ \A q \in Slots : HonestRequest(request[q], Done)
      /\ \A r \in Runtimes : page[r].granted =>
            page[r].resolving # None /\ resolution[page[r].resolving] # "NONE"
  BY DEF Truth
<1>3. ASSUME NEW q \in Slots, AbortRequest(q) PROVE Truth'
  <2>1. \A p \in Slots : HonestRequest(request'[p], Done)
    BY <1>1, <1>2, <1>3, HonestAbort DEF AbortRequest
  <2> QED
    BY <1>2, <1>3, <2>1, TruthFrame DEF AbortRequest, outboxVars, serverVars
<1>4. ASSUME NEW c \in Commands, BecomeDue(c) PROVE Truth'
  BY <1>2, <1>4, TruthFrame DEF BecomeDue, serverVars
<1>5. ASSUME NEW c \in Commands, WorkspaceResolution(c) PROVE Truth'
  <2>1. \A d \in Commands : resolution[d] # "NONE" => resolution'[d] # "NONE"
    BY <1>1, <1>5 DEF WorkspaceResolution, Resolvable
  <2>2. UNCHANGED <<outboxVars, page, request, applied, receipt>>
    BY <1>5 DEF WorkspaceResolution
  <2> QED
    BY <1>1, <1>2, <2>1, <2>2, TruthFrame, ConstantsAssumption DEF outboxVars
<1>6. ASSUME NEW d \in Devices, RevokeDevice(d) PROVE Truth'
  BY <1>2, <1>6, TruthFrame DEF RevokeDevice, outboxVars
<1>7. CASE UNCHANGED vars
  BY <1>2, <1>7, TruthFrame DEF vars
<1> QED
  BY <1>3, <1>4, <1>5, <1>6, <1>7, TruthFlush, TruthCashier, TruthRecovery, TruthProcess
     DEF Next

LEMMA TruthInvariant == Spec => [](Shape /\ Truth)
<1>1. Shape /\ Truth /\ [Next]_vars => Shape' /\ Truth'
  BY ShapeNext, TruthNext
<1> QED
  BY <1>1, ShapeInit, TruthInit, PTL DEF Spec

(* A command commits at most once, and the till shows SYNCED only for what  *)
(* has committed: sync-engine.ts, sync.service.ts.                          *)
THEOREM SyncedCommandsCommitted == Spec => []SyncedOnce
<1>1. Truth => SyncedOnce
  BY DEF Truth, SyncedOnce
<1> QED
  BY <1>1, TruthInvariant, PTL

(* A drained outbox, which closing a shift requires, is accounted for on    *)
(* the server: every command committed, or was dismissed by a manager.      *)
THEOREM DrainedOutboxAccounted == Spec => []DrainedIsAccounted
<1>1. Truth => DrainedIsAccounted
  BY DEF Truth, DrainedIsAccounted, Drained, Queued
<1> QED
  BY <1>1, TruthInvariant, PTL

-----------------------------------------------------------------------------
(***************************************************************************)
(* The order of the commands, and the ledger they implement.                *)
(***************************************************************************)

(* <<c, d>> when d need not wait for c, or not any more.                    *)
Gone ==
    {p \in Commands \X Commands :
        applied[p[1]] > 0 \/ resolution[p[1]] # "NONE" \/ p \in passed}

Before(d, c, ord) == d[1] = c[1] /\ d[2] < c[2] /\ ord[d] = ord[c]

(* c need not wait for whatever precedes it, but for what is ahead.         *)
Clear(c, ahead, ord, gone) ==
    \A d \in Commands : Before(d, c, ord) => d \in ahead \/ <<d, c>> \in gone

(* A batch that was read leaves no predecessor of its commands behind.      *)
ClearBatch(r) ==
    page[r].phase = "READ" =>
        \A c \in page[r].batch : Clear(c, page[r].batch, agg, Gone)

(* What a running request has left to process is blocked, or clear once the *)
(* request's own earlier commands are; what it processes is not blocked.    *)
OrderedRequest(req, ord, gone) ==
    req.status = "RUNNING" => \A c \in req.todo :
        /\ ord[c] \in req.blocked \/ Clear(c, req.todo, ord, gone)
        /\ req.step # "PRIOR" /\ (\A d \in req.todo : c[2] <= d[2])
              => ord[c] \notin req.blocked

Order ==
    /\ \A r \in Runtimes : ClearBatch(r)
    /\ \A q \in Slots : OrderedRequest(request[q], agg, Gone)
    /\ OvertakesOnlySending

Inv == Shape /\ Truth /\ Order

-----------------------------------------------------------------------------
(* What happens to an ordered request.                                      *)

LEMMA OrderedFree ==
    ASSUME NEW ord, NEW gone PROVE OrderedRequest(FreeRequest, ord, gone)
  BY DEF OrderedRequest, FreeRequest

LEMMA OrderedMore ==
    ASSUME NEW req, NEW ord, NEW gone, NEW more, gone \subseteq more,
           OrderedRequest(req, ord, gone)
    PROVE  OrderedRequest(req, ord, more)
  BY DEF OrderedRequest, Clear

LEMMA OrderedUnowned ==
    ASSUME NEW req \in Requests, NEW ord, NEW gone, OrderedRequest(req, ord, gone)
    PROVE  OrderedRequest([req EXCEPT !.owner = None], ord, gone)
  BY DEF OrderedRequest, Requests

LEMMA OrderedAborted ==
    ASSUME NEW req \in Requests, NEW ord, NEW gone
    PROVE  OrderedRequest([req EXCEPT !.status = "ABORTED"], ord, gone)
  BY DEF OrderedRequest, Requests

LEMMA OrderedStep ==
    ASSUME NEW req \in Requests, NEW ord, NEW gone, OrderedRequest(req, ord, gone),
           NEW step \in Steps, NEW c \in req.todo, \A d \in req.todo : c[2] <= d[2],
           \A d, e \in req.todo : d[1] = e[1],
           ord[c] \notin req.blocked
    PROVE  OrderedRequest([req EXCEPT !.step = step], ord, gone)
<1>1. req.todo \subseteq Outboxes \X (1..MaxSequence) /\ MaxSequence \in Nat
  BY ConstantsAssumption DEF Requests, Commands
<1>2. \A d \in req.todo : (\A e \in req.todo : d[2] <= e[2]) => d[2] = c[2]
  BY <1>1
<1>3. \A d \in req.todo : d[2] = c[2] => d = c
  BY <1>1
<1> QED
  BY <1>2, <1>3 DEF OrderedRequest, Requests

LEMMA OrderedAnswer ==
    ASSUME TypeOK, NEW c \in Commands, NEW q \in Slots, NEW answer \in Answers,
           agg[c] \in Aggregates, IsCurrent(c, q), Answer(c, q, answer), NEW gone,
           \A p \in Slots : OrderedRequest(request[p], agg, gone),
           answer \in {"APPLIED", "REPLAYED"} => \A e \in Commands : <<c, e>> \in gone
    PROVE  \A p \in Slots : OrderedRequest(request'[p], agg, gone)
<1>1. /\ \A p \in Slots : p # q => request'[p] = request[p]
      /\ \/ request'[q] = FreeRequest
         \/ /\ request'[q].todo = request[q].todo \ {c}
            /\ request'[q].step = "PRIOR"
            /\ request'[q].result = [request[q].result EXCEPT ![c] = answer]
            /\ request'[q].blocked = IF answer \in {"APPLIED", "REPLAYED"}
                                     THEN request[q].blocked
                                     ELSE request[q].blocked \cup {agg[c]}
  <2> HIDE DEF Answers
  <2> QED
    BY AnswerEffect
<1>2. \A e \in request[q].todo :
          agg[e] \in request[q].blocked \/ Clear(e, request[q].todo, agg, gone)
  BY DEF OrderedRequest, IsCurrent
<1>3. CASE request'[q] = FreeRequest
  BY <1>1, <1>3, OrderedFree
<1>4. CASE /\ request'[q].todo = request[q].todo \ {c}
           /\ request'[q].step = "PRIOR"
           /\ request'[q].blocked = IF answer \in {"APPLIED", "REPLAYED"}
                                    THEN request[q].blocked
                                    ELSE request[q].blocked \cup {agg[c]}
  <2>1. ASSUME NEW e \in request'[q].todo
        PROVE  agg[e] \in request'[q].blocked \/ Clear(e, request'[q].todo, agg, gone)
    <3>1. e \in request[q].todo
      BY <1>4
    <3>2. CASE agg[e] \in request[q].blocked
      BY <1>4, <3>2
    <3>3. CASE Clear(e, request[q].todo, agg, gone) /\ Before(c, e, agg)
      <4>1. CASE answer \in {"APPLIED", "REPLAYED"}
        <5>1. e \in Commands
          BY <3>1 DEF TypeOK, Requests
        <5>2. <<c, e>> \in gone
          BY <4>1, <5>1
        <5> QED
          BY <1>4, <3>3, <5>2 DEF Clear
      <4>2. CASE answer \notin {"APPLIED", "REPLAYED"}
        BY <1>4, <3>3, <4>2 DEF Before
      <4> QED
        BY <4>1, <4>2
    <3>4. CASE Clear(e, request[q].todo, agg, gone) /\ ~Before(c, e, agg)
      BY <1>4, <3>4 DEF Clear
    <3> QED
      BY <1>2, <3>1, <3>2, <3>3, <3>4
  <2> QED
    BY <1>1, <1>4, <2>1 DEF OrderedRequest
<1> QED
  BY <1>1, <1>3, <1>4

LEMMA OrderedAbort ==
    ASSUME TypeOK, NEW q \in Slots, Abort(q), NEW gone,
           \A p \in Slots : OrderedRequest(request[p], agg, gone)
    PROVE  \A p \in Slots : OrderedRequest(request'[p], agg, gone)
<1>1. /\ \A p \in Slots : p # q => request'[p] = request[p]
      /\ \/ request'[q] = FreeRequest
         \/ request'[q] = [request[q] EXCEPT !.status = "ABORTED"]
  BY AbortEffect
<1>2. request[q] \in Requests
  BY DEF TypeOK
<1> QED
  BY <1>1, <1>2, OrderedFree, OrderedAborted

LEMMA OrderedAbandoned ==
    ASSUME TypeOK, NEW r \in Runtimes, request' = Abandoned(r), NEW gone,
           \A p \in Slots : OrderedRequest(request[p], agg, gone)
    PROVE  \A p \in Slots : OrderedRequest(request'[p], agg, gone)
<1>1. TAKE q \in Slots
<1>2. request[q] \in Requests /\ OrderedRequest(request[q], agg, gone)
  BY DEF TypeOK
<1>3. \/ request'[q] = request[q]
      \/ request'[q] = FreeRequest
      \/ request'[q] = [request[q] EXCEPT !.owner = None]
  BY AbandonedEffect
<1>4. OrderedRequest([request[q] EXCEPT !.owner = None], agg, gone)
  BY <1>2, OrderedUnowned
<1> QED
  BY <1>2, <1>3, <1>4, OrderedFree

-----------------------------------------------------------------------------
(* Order is inductive, however many pages share an outbox.                  *)

LEMMA OrderInit == Init => Order
<1> SUFFICES ASSUME Init PROVE Order
  OBVIOUS
<1>1. \A q \in Slots : OrderedRequest(request[q], agg, Gone)
  BY OrderedFree DEF Init
<1>2. \A r \in Runtimes : ClearBatch(r)
  BY DEF Init, ClearBatch, ClosedPage
<1>3. OvertakesOnlySending
  BY DEF Init, OvertakesOnlySending
<1> QED
  BY <1>1, <1>2, <1>3 DEF Order

(* A step of one page: whatever it does to the outbox, the batches of the    *)
(* other pages stay clear.                                                  *)
LEMMA OrderOfPage ==
    ASSUME Order, NEW r \in Runtimes,
           agg' = agg, applied' = applied, Gone \subseteq Gone',
           \A s \in Runtimes : s # r => page'[s] = page[s],
           ClearBatch(r)',
           \A q \in Slots : OrderedRequest(request'[q], agg, Gone)
    PROVE  Order'
<1>1. ASSUME NEW s \in Runtimes, s # r PROVE ClearBatch(s)'
  <2>1. page'[s] = page[s] /\ ClearBatch(s)
    BY <1>1 DEF Order
  <2> QED
    BY <2>1 DEF ClearBatch, Clear
<1>2. \A q \in Slots : OrderedRequest(request'[q], agg', Gone')
  BY OrderedMore
<1>3. OvertakesOnlySending'
  BY DEF Order, OvertakesOnlySending, Precedes, Gone
<1> QED
  BY <1>1, <1>2, <1>3 DEF Order

(* The batch a flush reads is clear: what precedes a sendable command is    *)
(* sendable too, has committed, was dismissed, or is passed over.           *)
LEMMA SendableIsClear ==
    ASSUME Shape, Truth, NEW r \in Runtimes,
           NEW b \in SUBSET Sendable(StoreOf[r]), IsBatch(b, Sendable(StoreOf[r])),
           NEW c \in b
    PROVE  Clear(c, b, agg, Gone \cup PassedOver(b))
<1> DEFINE o == StoreOf[r]
<1>1. /\ state \in [Commands -> LocalStates] /\ applied \in [Commands -> Nat]
      /\ Commands \subseteq Outboxes \X (1..MaxSequence) /\ MaxSequence \in Nat
      /\ \A d \in Commands : d[2] \in Nat
  BY ConstantsAssumption DEF Shape, TypeOK, Commands
<1>2. c \in Sendable(o) /\ c \in Pending(o) /\ c \in Queued(o) /\ c \in Commands
      /\ c[1] = o /\ state[c] # "ABSENT" /\ agg[c] # None
  BY DEF Sendable, Pending, Queued, Shape, QueueShape
<1>3. SUFFICES ASSUME NEW d \in Commands, Before(d, c, agg)
               PROVE  d \in b \/ <<d, c>> \in Gone \cup PassedOver(b)
  BY DEF Clear
<1>4. d \in Queued(o) /\ d[2] < c[2] /\ agg[d] = agg[c]
  BY <1>2, <1>3 DEF Before, Queued, Shape, QueueShape
<1>5. state[d] \in {"PENDING", "SENDING", "SYNCED", "RESOLVED"}
  BY <1>1, <1>2, <1>4 DEF Sendable, Terminal, LocalStates, Queued
<1>6. CASE state[d] = "PENDING"
  <2>1. d \in Pending(o)
    BY <1>4, <1>6 DEF Pending
  <2>2. ASSUME NEW e \in Pending(o), e[2] <= d[2] PROVE e[2] <= c[2]
    <3>1. e[2] \in Nat /\ d[2] \in Nat /\ c[2] \in Nat /\ d[2] < c[2]
      BY <1>1, <1>2, <1>4 DEF Pending, Queued
    <3> QED
      BY <2>2, <3>1
  <2>3. d \in Sendable(o)
    BY <1>2, <1>4, <2>1, <2>2 DEF Sendable
  <2>4. d[2] <= c[2]
    BY <1>1, <1>2, <1>4
  <2> QED
    BY <2>3, <2>4 DEF IsBatch
<1>7. CASE state[d] = "SENDING"
  BY <1>2, <1>3, <1>7 DEF Before, Precedes, PassedOver
<1>8. CASE state[d] \in {"SYNCED", "RESOLVED"}
  BY <1>2, <1>8 DEF Truth, Gone
<1> QED
  BY <1>5, <1>6, <1>7, <1>8

(* The pages and requests of an Order state, as the lemmas below use them.  *)
LEMMA OrderFacts ==
    ASSUME Shape, Order, NEW r \in Runtimes
    PROVE  /\ TypeOK /\ page \in [Runtimes -> Pages] /\ page[r] \in Pages
           /\ page[r].batch \subseteq Commands
           /\ \A c \in page[r].batch : c[1] = StoreOf[r]
           /\ state \in [Commands -> LocalStates]
           /\ request \in [Slots -> Requests]
           /\ ClearBatch(r)
           /\ \A q \in Slots : OrderedRequest(request[q], agg, Gone)
  BY DEF Shape, QueueShape, TypeOK, Pages, Order

LEMMA OrderTransportFailure ==
    ASSUME Inv, NEW r \in Runtimes,
           page[r].phase \in {"WAITING", "STORED"}, MarkTransportFailure(r)
    PROVE  Order'
<1> USE DEF Inv
<1>1. /\ TypeOK /\ page \in [Runtimes -> Pages] /\ page[r] \in Pages
      /\ page[r].batch \subseteq Commands
      /\ \A c \in page[r].batch : c[1] = StoreOf[r]
      /\ state \in [Commands -> LocalStates]
      /\ ClearBatch(r)
      /\ \A q \in Slots : OrderedRequest(request[q], agg, Gone)
  BY OrderFacts
<1>2. /\ page' = [page EXCEPT ![r].phase = "IDLE", ![r].batch = {}]
      /\ \A c \in Commands : state'[c] = IF c \in page[r].batch THEN "PENDING" ELSE state[c]
      /\ request' = Abandoned(r)
      /\ UNCHANGED <<agg, applied, resolution, passed>>
  BY DEF MarkTransportFailure, serverVars
<1>3. page'[r].phase = "IDLE" /\ \A s \in Runtimes : s # r => page'[s] = page[s]
  BY <1>1, <1>2 DEF Pages
<1>4. ClearBatch(r)'
  BY <1>1, <1>2, <1>3 DEF ClearBatch
<1>5. \A q \in Slots : OrderedRequest(request'[q], agg, Gone)
  BY <1>1, <1>2, OrderedAbandoned
<1> QED
  BY <1>1, <1>2, <1>3, <1>4, <1>5, OrderOfPage DEF Gone

LEMMA OrderFlush ==
    ASSUME Inv, NEW r \in Runtimes, Flush(r)
    PROVE  Order'
<1> USE DEF Inv
<1>1. /\ TypeOK /\ page \in [Runtimes -> Pages] /\ page[r] \in Pages
      /\ page[r].batch \subseteq Commands
      /\ \A c \in page[r].batch : c[1] = StoreOf[r]
      /\ state \in [Commands -> LocalStates]
      /\ request \in [Slots -> Requests]
      /\ ClearBatch(r)
      /\ \A q \in Slots : OrderedRequest(request[q], agg, Gone)
  BY OrderFacts
<1>2. CASE ReadReady(r)
  <2>1. PICK b \in SUBSET Sendable(StoreOf[r]) :
          /\ IsBatch(b, Sendable(StoreOf[r]))
          /\ page' = [page EXCEPT ![r].phase = "READ", ![r].batch = b]
          /\ passed' = passed \cup PassedOver(b)
    BY <1>2 DEF ReadReady
  <2>2. UNCHANGED <<state, agg, request, applied, resolution>>
    BY <1>2 DEF ReadReady, outboxVars, serverVars
  <2>3. /\ page'[r].phase = "READ" /\ page'[r].batch = b
        /\ \A s \in Runtimes : s # r => page'[s] = page[s]
    BY <1>1, <2>1 DEF Pages
  <2>4. \A c \in b : Clear(c, b, agg, Gone \cup PassedOver(b))
    BY <2>1, SendableIsClear
  <2>5. b \subseteq Commands
    BY DEF Sendable, Pending, Queued
  <2>6. Gone' = Gone \cup PassedOver(b)
    BY <2>1, <2>2, <2>5 DEF Gone, PassedOver
  <2>7. ClearBatch(r)'
    BY <2>2, <2>3, <2>4, <2>6 DEF ClearBatch
  <2> QED
    BY <1>1, <2>2, <2>3, <2>6, <2>7, OrderOfPage
<1>3. CASE RecordSync(r)
  <2>1. /\ page' = [page EXCEPT ![r].phase = "IDLE", ![r].batch = {}]
        /\ page[r].phase = "STORED"
        /\ UNCHANGED <<state, agg, request, applied, resolution, passed>>
    BY <1>3 DEF RecordSync, outboxVars, serverVars
  <2>2. page'[r].phase = "IDLE" /\ \A s \in Runtimes : s # r => page'[s] = page[s]
    BY <1>1, <2>1 DEF Pages
  <2>3. ClearBatch(r)'
    BY <1>1, <2>1, <2>2 DEF ClearBatch
  <2> QED
    BY <1>1, <2>1, <2>2, <2>3, OrderOfPage DEF Gone
<1>4. ASSUME NEW q \in Slots, MarkSending(r, q) PROVE Order'
  <2> DEFINE new == Posted(r)
  <2>1. /\ page[r].phase = "READ"
        /\ page' = [page EXCEPT ![r].phase = "WAITING"]
        /\ request' = [request EXCEPT ![q] = new]
        /\ \A c \in Commands : state'[c] = IF c \in page[r].batch THEN "SENDING" ELSE state[c]
        /\ UNCHANGED <<agg, applied, resolution, passed>>
    BY <1>4 DEF MarkSending, serverVars
  <2>2. /\ page'[r].phase = "WAITING" /\ page'[r].batch = page[r].batch
        /\ \A s \in Runtimes : s # r => page'[s] = page[s]
    BY <1>1, <2>1 DEF Pages
  <2>3. ClearBatch(r)'
    BY <1>1, <2>1, <2>2 DEF ClearBatch
  <2>4. new.todo = page[r].batch /\ new.step = "PRIOR"
    BY DEF Posted, FreeRequest
  <2>5. OrderedRequest(new, agg, Gone)
    BY <1>1, <2>1, <2>4 DEF OrderedRequest, ClearBatch
  <2> HIDE DEF new
  <2>6. \A p \in Slots : OrderedRequest(request'[p], agg, Gone)
    BY <1>1, <2>1, <2>5
  <2> QED
    BY <1>1, <2>1, <2>2, <2>3, <2>6, OrderOfPage DEF Gone
<1>5. ASSUME NEW q \in Slots, ApplyResults(r, q) PROVE Order'
  <2>1. /\ page[r].phase = "WAITING"
        /\ page' = [page EXCEPT ![r].phase = "STORED"]
        /\ request' = [request EXCEPT ![q] = FreeRequest]
        /\ \A c \in Commands : state'[c] = IF c \in page[r].batch
                                           THEN StateFor(request[q].result[c]) ELSE state[c]
        /\ UNCHANGED <<agg, applied, resolution, passed>>
    BY <1>5 DEF ApplyResults, serverVars
  <2>2. \A answer : StateFor(answer) # "SENDING"
    BY DEF StateFor
  <2>3. page'[r].phase = "STORED" /\ \A s \in Runtimes : s # r => page'[s] = page[s]
    BY <1>1, <2>1 DEF Pages
  <2>4. ClearBatch(r)'
    BY <1>1, <2>1, <2>2, <2>3 DEF ClearBatch
  <2>5. \A p \in Slots : OrderedRequest(request'[p], agg, Gone)
    BY <1>1, <2>1, OrderedFree
  <2> QED
    BY <1>1, <2>1, <2>2, <2>3, <2>4, <2>5, OrderOfPage DEF Gone
<1>6. ASSUME NEW q \in Slots, BatchRefused(r, q) PROVE Order'
  <2>1. page[r].phase = "WAITING" /\ MarkTransportFailure(r)
    BY <1>6 DEF BatchRefused
  <2> QED
    BY <2>1, OrderTransportFailure
<1> QED
  BY Flush(r), <1>2, <1>3, <1>4, <1>5, <1>6 DEF Flush

(* A new command follows every queued one: nothing that was clear loses it. *)
LEMMA OrderEnqueue ==
    ASSUME Inv, NEW r \in Runtimes, NEW a \in Aggregates, Enqueue(r, a)
    PROVE  Order'
<1> USE DEF Inv
<1> DEFINE n == <<StoreOf[r], nextSequence[StoreOf[r]]>>
<1>1. /\ n \in Commands /\ n[1] = StoreOf[r] /\ n[2] = nextSequence[StoreOf[r]]
      /\ state' = [state EXCEPT ![n] = "PENDING"] /\ agg' = [agg EXCEPT ![n] = a]
      /\ UNCHANGED <<page, request, applied, receipt, resolution, passed>>
  BY ConstantsAssumption DEF Enqueue, Shape, TypeOK, Commands, serverVars
<1> HIDE DEF n
<1>2. /\ state \in [Commands -> LocalStates] /\ agg \in [Commands -> Aggregates \cup {None}]
      /\ \A c \in Commands : c[2] \in Nat /\ nextSequence[c[1]] \in Nat
  BY ConstantsAssumption DEF Shape, TypeOK, Commands
<1>3. state[n] = "ABSENT"
  BY <1>1, <1>2 DEF Shape, QueueShape
<1>4. \A c \in Commands : c # n => state'[c] = state[c] /\ agg'[c] = agg[c]
  BY <1>1, <1>2
<1>5. \A c \in Commands : state[c] # "ABSENT" => ~Before(n, c, agg')
  BY <1>1, <1>2 DEF Before, Shape, QueueShape
<1>6. \A c \in Commands, d \in Commands :
          state[c] # "ABSENT" /\ Before(d, c, agg') => Before(d, c, agg)
  BY <1>3, <1>4, <1>5 DEF Before
<1>7. Gone' = Gone
  BY <1>1 DEF Gone
<1>8. ASSUME NEW c \in Commands, state[c] # "ABSENT", NEW ahead, Clear(c, ahead, agg, Gone)
      PROVE  Clear(c, ahead, agg', Gone')
  BY <1>6, <1>7, <1>8 DEF Clear
<1>9. ASSUME NEW s \in Runtimes PROVE ClearBatch(s)'
  <2>1. page'[s] = page[s] /\ ClearBatch(s)
        /\ \A c \in page[s].batch : c \in Commands /\ state[c] # "ABSENT"
    BY <1>1 DEF Order, Shape, TypeOK, Pages, QueueShape
  <2> QED
    BY <1>8, <2>1 DEF ClearBatch
<1>10. ASSUME NEW q \in Slots PROVE OrderedRequest(request'[q], agg', Gone')
  <2>1. OrderedRequest(request[q], agg, Gone) /\ request'[q] = request[q]
        /\ \A c \in request[q].todo : c \in Commands /\ state[c] # "ABSENT"
    BY <1>1 DEF Order, Shape, TypeOK, Requests, QueueShape
  <2>2. \A c \in request[q].todo : agg'[c] = agg[c]
    BY <1>3, <1>4, <2>1
  <2> QED
    BY <1>8, <2>1, <2>2 DEF OrderedRequest
<1>11. OvertakesOnlySending'
  <2>1. \A c \in Commands : applied[c] > 0 => state[c] # "ABSENT"
    BY DEF Shape, QueueShape
  <2>2. \A c, d \in Commands : state[c] # "ABSENT" /\ Precedes(d, c)' => Precedes(d, c)
    BY <1>6 DEF Precedes, Before
  <2> QED
    BY <1>1, <2>1, <2>2 DEF Order, OvertakesOnlySending
<1> QED
  BY <1>9, <1>10, <1>11 DEF Order

LEMMA OrderCashier ==
    ASSUME Inv, NEW r \in Runtimes, Cashier(r)
    PROVE  Order'
<1> USE DEF Inv
<1>1. /\ TypeOK /\ page \in [Runtimes -> Pages]
      /\ \A q \in Slots : OrderedRequest(request[q], agg, Gone)
  BY OrderFacts
<1>2. CASE OpenPage(r)
  <2>1. /\ page' = [page EXCEPT ![r] = [ClosedPage EXCEPT
                !.phase = "IDLE",
                !.interrupted = {c \in Queued(StoreOf[r]) : state[c] = "SENDING"}]]
        /\ UNCHANGED <<agg, request, applied, resolution, passed>>
    BY <1>2 DEF OpenPage, outboxVars, serverVars
  <2>2. page'[r].phase = "IDLE" /\ \A s \in Runtimes : s # r => page'[s] = page[s]
    BY <1>1, <2>1 DEF ClosedPage
  <2>3. ClearBatch(r)'
    BY <2>2 DEF ClearBatch
  <2> QED
    BY <1>1, <2>1, <2>2, <2>3, OrderOfPage DEF Gone
<1>3. CASE ClosePage(r)
  <2>1. /\ page' = [page EXCEPT ![r] = ClosedPage] /\ request' = Abandoned(r)
        /\ UNCHANGED <<state, agg, applied, resolution, passed>>
    BY <1>3 DEF ClosePage, outboxVars, serverVars
  <2>2. page'[r].phase = "CLOSED" /\ \A s \in Runtimes : s # r => page'[s] = page[s]
    BY <1>1, <2>1 DEF ClosedPage
  <2>3. ClearBatch(r)'
    BY <2>2 DEF ClearBatch
  <2>4. \A q \in Slots : OrderedRequest(request'[q], agg, Gone)
    BY <1>1, <2>1, OrderedAbandoned
  <2> QED
    BY <1>1, <2>1, <2>2, <2>3, <2>4, OrderOfPage DEF Gone
<1>4. CASE TransportLost(r)
  BY <1>4, OrderTransportFailure DEF TransportLost
<1>5. CASE RecoverInterrupted(r)
  <2>1. /\ page' = [page EXCEPT ![r].interrupted = {}]
        /\ UNCHANGED <<agg, request, applied, resolution, passed>>
    BY <1>5 DEF RecoverInterrupted, serverVars
  <2>2. /\ page'[r].phase = page[r].phase /\ page'[r].batch = page[r].batch
        /\ \A s \in Runtimes : s # r => page'[s] = page[s]
    BY <1>1, <2>1 DEF TypeOK, Pages
  <2>3. Gone' = Gone
    BY <2>1 DEF Gone
  <2>4. ClearBatch(r)'
    BY <2>1, <2>2, <2>3 DEF Order, ClearBatch
  <2> QED
    BY <1>1, <2>1, <2>2, <2>3, <2>4, OrderOfPage
<1> QED
  BY Cashier(r), <1>2, <1>3, <1>4, <1>5, OrderEnqueue DEF Cashier

LEMMA OrderRecovery ==
    ASSUME Inv, NEW r \in Runtimes, Recovery(r)
    PROVE  Order'
<1> USE DEF Inv
<1>1. /\ TypeOK /\ page \in [Runtimes -> Pages] /\ page[r] \in Pages
      /\ state \in [Commands -> LocalStates]
      /\ resolution \in [Commands -> Actions \cup {"NONE"}]
      /\ ClearBatch(r)
      /\ \A q \in Slots : OrderedRequest(request[q], agg, Gone)
  BY OrderFacts DEF TypeOK
<1>2. SUFFICES
        /\ page'[r].phase = page[r].phase /\ page'[r].batch = page[r].batch
        /\ \A s \in Runtimes : s # r => page'[s] = page[s]
        /\ \A c \in Commands : state'[c] = state[c] \/ state'[c] = "RESOLVED"
        /\ \A c \in Commands : resolution[c] # "NONE" => resolution'[c] # "NONE"
        /\ UNCHANGED <<agg, request, applied, passed>>
  <2>1. Gone \subseteq Gone'
    BY <1>2 DEF Gone
  <2>2. ClearBatch(r)'
    BY <1>1, <1>2, <2>1 DEF ClearBatch, Clear
  <2>3. \A c \in Commands : state'[c] = "SENDING" => state[c] = "SENDING"
    BY <1>2
  <2> QED
    BY <1>1, <1>2, <2>1, <2>2, <2>3, OrderOfPage
<1>3. ASSUME NEW c \in Commands, RequestResolution(r, c)
      PROVE  page' = [page EXCEPT ![r].resolving = c] /\ UNCHANGED <<outboxVars, request, serverVars, passed>>
  BY <1>3 DEF RequestResolution
<1>4. CASE \E c \in Commands : RequestResolution(r, c)
  BY <1>1, <1>3, <1>4 DEF Pages, outboxVars, serverVars
<1>5. ASSUME NEW action \in Actions, GrantResolution(r, action)
      PROVE  /\ page' = [page EXCEPT ![r].granted = TRUE]
             /\ resolution' = [resolution EXCEPT ![page[r].resolving] = action]
             /\ action # "NONE"
             /\ UNCHANGED <<outboxVars, request, applied, passed>>
  BY <1>5 DEF GrantResolution, Actions
<1>6. CASE \E action \in Actions : GrantResolution(r, action)
  BY <1>1, <1>5, <1>6 DEF Pages, outboxVars
<1>7. CASE RefuseResolution(r)
  BY <1>1, <1>7 DEF RefuseResolution, Pages, outboxVars, serverVars
<1>8. CASE LoseResolution(r)
  BY <1>1, <1>8 DEF LoseResolution, Pages, outboxVars, serverVars
<1>9. CASE StoreResolution(r)
  <2>1. /\ page' = [page EXCEPT ![r].resolving = None, ![r].granted = FALSE]
        /\ UNCHANGED <<agg, request, applied, resolution, passed>>
    BY <1>9 DEF StoreResolution, serverVars
  <2>2. \A c \in Commands : state'[c] = state[c] \/ state'[c] = "RESOLVED"
    BY <1>1, <1>9 DEF StoreResolution
  <2> QED
    BY <1>1, <2>1, <2>2 DEF Pages
<1> QED
  BY Recovery(r), <1>4, <1>6, <1>7, <1>8, <1>9 DEF Recovery

(* A step of the API on one request: pages and outboxes do not change.      *)
LEMMA OrderOfServer ==
    ASSUME Order, UNCHANGED <<state, agg, page>>, Gone \subseteq Gone', OvertakesOnlySending',
           \A q \in Slots : OrderedRequest(request'[q], agg, Gone')
    PROVE  Order'
<1>1. ASSUME NEW r \in Runtimes PROVE ClearBatch(r)'
  BY DEF Order, ClearBatch, Clear
<1> QED
  BY <1>1 DEF Order

LEMMA SameEffects ==
    ASSUME Order, UNCHANGED <<agg, applied, passed>>,
           \A c \in Commands : resolution[c] # "NONE" => resolution'[c] # "NONE"
    PROVE  Gone \subseteq Gone' /\ OvertakesOnlySending'
  BY DEF Order, OvertakesOnlySending, Precedes, Gone

(* The command a request processes past the dependency check is clear: its  *)
(* domain transaction may commit.                                           *)
LEMMA CurrentIsClear ==
    ASSUME Shape, Order, NEW c \in Commands, NEW q \in Slots, IsCurrent(c, q),
           request[q].step # "PRIOR"
    PROVE  /\ agg[c] \notin request[q].blocked
           /\ \A d \in Commands : Before(d, c, agg) => <<d, c>> \in Gone
<1>1. /\ agg[c] \in request[q].blocked \/ Clear(c, request[q].todo, agg, Gone)
      /\ agg[c] \notin request[q].blocked
  BY DEF Order, OrderedRequest, IsCurrent
<1>2. \A d \in Commands : d[2] \in Nat
  BY ConstantsAssumption DEF Commands
<1>3. \A d \in request[q].todo : ~(d[2] < c[2])
  <2>1. \A d \in request[q].todo : d \in Commands /\ c[2] <= d[2]
    BY DEF IsCurrent, Shape, TypeOK, Requests
  <2> QED
    BY <1>2, <2>1
<1> QED
  BY <1>1, <1>3 DEF Clear, Before

LEMMA OrderProcess ==
    ASSUME Inv, NEW q \in Slots, Process(q)
    PROVE  Order'
<1> USE DEF Inv
<1>1. /\ TypeOK /\ request \in [Slots -> Requests] /\ request[q] \in Requests
      /\ applied \in [Commands -> Nat] /\ receipt \in [Commands -> ReceiptStates]
      /\ \A c, e \in Commands : applied[c] = 1 => <<c, e>> \in Gone
  BY DEF Shape, TypeOK, Gone
<1>2. \A p \in Slots : OrderedRequest(request[p], agg, Gone)
  BY DEF Order
<1>3. ASSUME NEW c \in Commands, NEW answer \in Answers, IsCurrent(c, q),
             Answer(c, q, answer), UNCHANGED <<outboxVars, page, applied, resolution, passed>>,
             answer \in {"APPLIED", "REPLAYED"} => \A e \in Commands : <<c, e>> \in Gone
      PROVE  Order'
  <2>1. agg[c] \in Aggregates
    BY <1>3, CurrentQueued
  <2>2. \A p \in Slots : OrderedRequest(request'[p], agg, Gone)
    BY <1>1, <1>2, <1>3, <2>1, OrderedAnswer
  <2>3. UNCHANGED <<state, agg, page, applied, resolution, passed>>
    BY <1>3 DEF outboxVars
  <2>4. Gone' = Gone
    BY <2>3 DEF Gone
  <2> QED
    BY <2>2, <2>3, <2>4, SameEffects, OrderOfServer
<1>4. ASSUME NEW c \in Commands, NEW step \in Steps, IsCurrent(c, q), GoTo(q, step),
             UNCHANGED <<outboxVars, page, serverVars, passed>>,
             agg[c] \notin request[q].blocked
      PROVE  Order'
  <2>1. c \in request[q].todo /\ \A d \in request[q].todo : c[2] <= d[2]
    BY <1>4 DEF IsCurrent
  <2>2. \A d, e \in request[q].todo : d[1] = e[1]
    BY DEF Truth, HonestRequest
  <2>3. OrderedRequest([request[q] EXCEPT !.step = step], agg, Gone)
    BY <1>1, <1>2, <1>4, <2>1, <2>2, OrderedStep
  <2>4. \A p \in Slots : OrderedRequest(request'[p], agg, Gone)
    BY <1>1, <1>2, <1>4, <2>3, GoToEffect
  <2>5. UNCHANGED <<state, agg, page, applied, resolution, passed>>
    BY <1>4 DEF outboxVars, serverVars
  <2>6. Gone' = Gone
    BY <2>5 DEF Gone
  <2> QED
    BY <2>4, <2>5, <2>6, SameEffects, OrderOfServer
<1>5. ASSUME Abort(q), UNCHANGED <<outboxVars, page, serverVars, passed>> PROVE Order'
  <2>1. \A p \in Slots : OrderedRequest(request'[p], agg, Gone)
    BY <1>1, <1>2, <1>5, OrderedAbort
  <2>2. UNCHANGED <<state, agg, page, applied, resolution, passed>>
    BY <1>5 DEF outboxVars, serverVars
  <2>3. Gone' = Gone
    BY <2>2 DEF Gone
  <2> QED
    BY <2>1, <2>2, <2>3, SameEffects, OrderOfServer
<1>6. PICK c \in Commands :
        \/ SkipBlocked(c, q) \/ RejectOrigin(c, q) \/ ReplayReceipt(c, q)
        \/ SequenceTaken(c, q) \/ NoPrior(c, q) \/ LookupIdempotency(c, q)
        \/ CommitDomain(c, q) \/ RefuseDomain(c, q) \/ FailDomain(c, q)
        \/ PersistReceipt(c, q) \/ PersistTaken(c, q) \/ PersistOutOfScope(c, q)
  BY DEF Process
<1>7. IsCurrent(c, q) /\ request[q].step # "PRIOR" => agg[c] \notin request[q].blocked
  BY CurrentIsClear
<1>8. CASE SkipBlocked(c, q)
  BY <1>3, <1>8 DEF SkipBlocked, AtStep, Answers, serverVars
<1>9. CASE RejectOrigin(c, q)
  BY <1>3, <1>9 DEF RejectOrigin, AtStep, Answers, serverVars
<1>10. CASE ReplayReceipt(c, q)
  <2> DEFINE answer == IF receipt[c] = "APPLIED" THEN "REPLAYED" ELSE receipt[c]
  <2>1. answer \in Answers
    BY <1>1 DEF Answers, ReceiptStates
  <2>2. answer \in {"APPLIED", "REPLAYED"} => \A e \in Commands : <<c, e>> \in Gone
    BY <1>1 DEF ReceiptStates, Truth
  <2>3. IsCurrent(c, q) /\ Answer(c, q, answer)
        /\ UNCHANGED <<outboxVars, page, serverVars, faults, passed>>
    BY <1>10 DEF ReplayReceipt, AtStep
  <2> HIDE DEF answer
  <2> QED
    BY <1>3, <2>1, <2>2, <2>3 DEF serverVars
<1>11. CASE SequenceTaken(c, q)
  BY <1>5, <1>11 DEF SequenceTaken
<1>12. CASE NoPrior(c, q)
  BY <1>4, <1>12 DEF NoPrior, AtStep, Steps, Blocked
<1>13. CASE LookupIdempotency(c, q)
  <2> DEFINE step == IF applied[c] > 0 THEN "APPLIED" ELSE "COMMIT"
  <2>1. step \in Steps
    BY DEF Steps
  <2>2. /\ IsCurrent(c, q) /\ request[q].step # "PRIOR" /\ GoTo(q, step)
        /\ UNCHANGED <<outboxVars, page, serverVars, faults, passed>>
    BY <1>13 DEF LookupIdempotency, AtStep
  <2> HIDE DEF step
  <2> QED
    BY <1>4, <1>7, <2>1, <2>2
<1>14. CASE CommitDomain(c, q)
  <2>1. /\ IsCurrent(c, q) /\ request[q].step # "PRIOR"
        /\ c \in request[q].todo /\ \A d \in request[q].todo : c[2] <= d[2]
        /\ applied' = [applied EXCEPT ![c] = applied[c] + 1] /\ applied[c] = 0
        /\ GoTo(q, "APPLIED")
        /\ UNCHANGED <<state, agg, page, resolution, passed>>
    BY <1>14 DEF CommitDomain, AtStep, IsCurrent, outboxVars
  <2>2. \A d \in Commands : applied'[d] = IF d = c THEN 1 ELSE applied[d]
    BY <1>1, <2>1
  <2>3. Gone \subseteq Gone'
    BY <2>1, <2>2 DEF Gone
  <2>4. \A d \in Commands : Before(d, c, agg) => <<d, c>> \in Gone
    BY <2>1, CurrentIsClear
  <2>5. OvertakesOnlySending'
    <3>1. ASSUME NEW d \in Commands, NEW e \in Commands, Before(d, e, agg), applied'[e] > 0
          PROVE  <<d, e>> \in Gone
      <4>1. CASE e = c
        BY <2>4, <3>1, <4>1
      <4>2. CASE e # c
        BY <2>2, <3>1, <4>2 DEF Order, OvertakesOnlySending, Precedes, Before, Gone
      <4> QED
        BY <4>1, <4>2
    <3> QED
      BY <2>1, <2>3, <3>1 DEF OvertakesOnlySending, Precedes, Before, Gone
  <2>6. \A d, e \in request[q].todo : d[1] = e[1]
    BY DEF Truth, HonestRequest
  <2>7. "APPLIED" \in Steps
    BY DEF Steps
  <2>8. OrderedRequest([request[q] EXCEPT !.step = "APPLIED"], agg, Gone)
    BY <1>1, <1>2, <1>7, <2>1, <2>6, <2>7, OrderedStep
  <2>9. \A p \in Slots : OrderedRequest(request'[p], agg, Gone)
    BY <1>1, <1>2, <2>1, <2>7, <2>8, GoToEffect
  <2> QED
    BY <2>1, <2>3, <2>5, <2>9, OrderedMore, OrderOfServer
<1>15. CASE RefuseDomain(c, q)
  <2>1. PICK answer \in {"CONFLICT", "REJECTED"} : GoTo(q, answer)
    BY <1>15 DEF RefuseDomain
  <2>2. IsCurrent(c, q) /\ request[q].step # "PRIOR"
        /\ UNCHANGED <<outboxVars, page, serverVars, faults, passed>>
    BY <1>15 DEF RefuseDomain, AtStep
  <2> QED
    BY <1>4, <1>7, <2>1, <2>2 DEF Steps
<1>16. CASE FailDomain(c, q)
  BY <1>3, <1>16 DEF FailDomain, AtStep, Answers, serverVars
<1>17. CASE PersistReceipt(c, q)
  <2>1. /\ IsCurrent(c, q) /\ Answer(c, q, request[q].step)
        /\ UNCHANGED <<outboxVars, page, applied, resolution, passed>>
        /\ request[q].step \in ReceiptStates
    BY <1>17 DEF PersistReceipt
  <2>2. request[q].step \in Answers
    BY <2>1 DEF ReceiptStates, Answers
  <2>3. request[q].step \in {"APPLIED", "REPLAYED"} => \A e \in Commands : <<c, e>> \in Gone
    BY <1>1, <2>1 DEF ReceiptStates, Truth, HonestRequest, IsCurrent, Done
  <2> QED
    BY <1>3, <2>1, <2>2, <2>3
<1>18. CASE PersistTaken(c, q)
  BY <1>5, <1>18 DEF PersistTaken
<1>19. CASE PersistOutOfScope(c, q)
  <2>1. CASE request[q].step = "APPLIED"
    <3>1. IsCurrent(c, q) /\ Answer(c, q, "RETRYABLE")
          /\ UNCHANGED <<outboxVars, page, serverVars, faults, passed>>
      BY <1>19, <2>1 DEF PersistOutOfScope
    <3> QED
      BY <1>3, <3>1 DEF Answers, serverVars
  <2>2. CASE request[q].step # "APPLIED"
    BY <1>5, <1>19, <2>2 DEF PersistOutOfScope
  <2> QED
    BY <2>1, <2>2
<1> QED
  BY <1>6, <1>8, <1>9, <1>10, <1>11, <1>12, <1>13, <1>14, <1>15, <1>16, <1>17, <1>18, <1>19

LEMMA OrderNext == Inv /\ [Next]_vars => Order'
<1> SUFFICES ASSUME Inv, [Next]_vars PROVE Order'
  OBVIOUS
<1> USE DEF Inv
<1>1. /\ TypeOK /\ resolution \in [Commands -> Actions \cup {"NONE"}]
      /\ \A q \in Slots : OrderedRequest(request[q], agg, Gone)
  BY DEF Shape, TypeOK, Order
<1>2. ASSUME UNCHANGED <<state, agg, page, applied, passed>>,
             \A c \in Commands : resolution[c] # "NONE" => resolution'[c] # "NONE",
             \A q \in Slots : OrderedRequest(request'[q], agg, Gone)
      PROVE  Order'
  BY <1>2, SameEffects, OrderedMore, OrderOfServer
<1>3. ASSUME NEW q \in Slots, AbortRequest(q) PROVE Order'
  <2>1. Abort(q) /\ UNCHANGED <<state, agg, page, applied, resolution, passed>>
    BY <1>3 DEF AbortRequest, outboxVars, serverVars
  <2>2. \A p \in Slots : OrderedRequest(request'[p], agg, Gone)
    BY <1>1, <2>1, OrderedAbort
  <2> QED
    BY <1>2, <2>1, <2>2
<1>4. ASSUME NEW c \in Commands, BecomeDue(c) PROVE Order'
  BY <1>1, <1>2, <1>4 DEF BecomeDue, serverVars
<1>5. ASSUME NEW c \in Commands, WorkspaceResolution(c) PROVE Order'
  <2>1. /\ UNCHANGED <<state, agg, page, request, applied, passed>>
        /\ resolution' = [resolution EXCEPT ![c] = "ACKNOWLEDGED_NO_ACTION"]
    BY <1>5 DEF WorkspaceResolution, outboxVars
  <2>2. \A d \in Commands : resolution[d] # "NONE" => resolution'[d] # "NONE"
    BY <1>1, <2>1
  <2> QED
    BY <1>1, <1>2, <2>1, <2>2
<1>6. ASSUME NEW d \in Devices, RevokeDevice(d) PROVE Order'
  <2>1. UNCHANGED <<state, agg, page, request, applied, resolution, passed>>
    BY <1>6 DEF RevokeDevice, outboxVars
  <2> QED
    BY <1>1, <1>2, <2>1
<1>7. CASE UNCHANGED vars
  BY <1>1, <1>2, <1>7 DEF vars
<1> QED
  BY <1>3, <1>4, <1>5, <1>6, <1>7, OrderFlush, OrderCashier, OrderRecovery, OrderProcess
     DEF Next

LEMMA OrderInvariant == Spec => []Inv
<1>1. Init => Inv
  BY ShapeInit, TruthInit, OrderInit DEF Inv
<1>2. Inv /\ [Next]_vars => Inv'
  BY ShapeNext, TruthNext, OrderNext DEF Inv
<1> QED
  BY <1>1, <1>2, PTL DEF Spec

(* A command takes effect only after every earlier command of its outbox    *)
(* and order has, or was dismissed by a manager, or was SENDING when it was  *)
(* read: SyncStore.ready, markSending and the batch loop of sync.service.   *)
(* However many pages share the outbox, and whenever they recover it.       *)
THEOREM OnlySendingIsOvertaken == Spec => []OvertakesOnlySending
<1>1. Inv => OvertakesOnlySending
  BY DEF Inv, Order
<1> QED
  BY <1>1, OrderInvariant, PTL

-----------------------------------------------------------------------------
(* The queue implements the command ledger.                                 *)

(* The commands in doubt.                                                   *)
Sending == {c \in Commands : state[c] = "SENDING"}

(* A step that ends the doubt about S.                                      *)
Forgets(S) ==
    /\ Sending' = Sending \ S
    /\ UNCHANGED <<agg, applied, resolution, passed>>

(* A step that dismisses c: a manager's resolution, from either screen.     *)
Dismisses(c) ==
    /\ receipt[c] # "NONE" /\ resolution[c] = "NONE"
    /\ \E action \in Actions : resolution' = [resolution EXCEPT ![c] = action]
    /\ UNCHANGED <<state, agg, applied, passed>>

Stutters == UNCHANGED <<agg, applied, resolution, passed, Sending>>

LEMMA TransportFailureForgets ==
    ASSUME Shape, NEW r \in Runtimes, MarkTransportFailure(r)
    PROVE  \E S \in SUBSET Commands : Forgets(S)
<1>1. page[r].batch \in SUBSET Commands
  BY DEF Shape, TypeOK, Pages
<1>2. Forgets(page[r].batch)
  BY DEF MarkTransportFailure, Forgets, Sending, serverVars
<1> QED
  BY <1>1, <1>2

(* The ledger sees six kinds of steps; all others stutter.                  *)
LEMMA StepKinds ==
    ASSUME Shape, [Next]_vars
    PROVE  \/ Stutters
           \/ \E r \in Runtimes, a \in Aggregates : Enqueue(r, a)
           \/ \E r \in Runtimes : ReadReady(r)
           \/ \E r \in Runtimes, q \in Slots : MarkSending(r, q)
           \/ \E S \in SUBSET Commands : Forgets(S)
           \/ \E c \in Commands, q \in Slots : CommitDomain(c, q)
           \/ \E c \in Commands : Dismisses(c)
<1>1. ASSUME NEW r \in Runtimes, Flush(r)
      PROVE  \/ Stutters \/ ReadReady(r) \/ \E q \in Slots : MarkSending(r, q)
             \/ \E S \in SUBSET Commands : Forgets(S)
  <2>1. CASE RecordSync(r)
    BY <2>1 DEF RecordSync, Stutters, Sending, outboxVars, serverVars
  <2>2. ASSUME NEW q \in Slots, ApplyResults(r, q)
        PROVE  \E S \in SUBSET Commands : Forgets(S)
    <3>1. page[r].batch \in SUBSET Commands
      BY DEF Shape, TypeOK, Pages
    <3>2. \A answer : StateFor(answer) # "SENDING"
      BY DEF StateFor
    <3>3. Forgets(page[r].batch)
      BY <2>2, <3>2 DEF ApplyResults, Forgets, Sending, serverVars
    <3> QED
      BY <3>1, <3>3
  <2>3. ASSUME NEW q \in Slots, BatchRefused(r, q)
        PROVE  \E S \in SUBSET Commands : Forgets(S)
    BY <2>3, TransportFailureForgets DEF BatchRefused
  <2> QED
    BY <1>1, <2>1, <2>2, <2>3 DEF Flush
<1>2. ASSUME NEW r \in Runtimes, Cashier(r)
      PROVE  \/ Stutters \/ \E a \in Aggregates : Enqueue(r, a)
             \/ \E S \in SUBSET Commands : Forgets(S)
  <2>1. CASE OpenPage(r) \/ ClosePage(r)
    BY <2>1 DEF OpenPage, ClosePage, Stutters, Sending, outboxVars, serverVars
  <2>2. CASE RecoverInterrupted(r)
    <3>1. page[r].interrupted \in SUBSET Commands
      BY DEF Shape, TypeOK, Pages
    <3>2. Forgets(page[r].interrupted)
      BY <2>2 DEF RecoverInterrupted, Forgets, Sending, serverVars
    <3> QED
      BY <3>1, <3>2
  <2>3. CASE TransportLost(r)
    BY <2>3, TransportFailureForgets DEF TransportLost
  <2> QED
    BY <1>2, <2>1, <2>2, <2>3 DEF Cashier
<1>3. ASSUME NEW r \in Runtimes, Recovery(r)
      PROVE  Stutters \/ \E c \in Commands : Dismisses(c)
  <2>1. ASSUME NEW action \in Actions, GrantResolution(r, action)
        PROVE  \E c \in Commands : Dismisses(c)
    <3>1. page[r].resolving \in Commands
      BY <2>1 DEF GrantResolution, Shape, TypeOK, Pages
    <3>2. Dismisses(page[r].resolving)
      BY <2>1 DEF GrantResolution, IsActive, Resolvable, Dismisses, outboxVars
    <3> QED
      BY <3>1, <3>2
  <2>2. ASSUME \/ \E c \in Commands : RequestResolution(r, c)
               \/ RefuseResolution(r) \/ LoseResolution(r)
        PROVE  Stutters
    BY <2>2 DEF RequestResolution, RefuseResolution, LoseResolution, Stutters, Sending,
                outboxVars, serverVars
  <2>3. CASE StoreResolution(r)
    <3> DEFINE n == page[r].resolving
    <3>1. /\ state' = [state EXCEPT ![n] = IF state[n] \in Terminal THEN "RESOLVED" ELSE state[n]]
          /\ UNCHANGED <<agg, applied, resolution, passed>>
      BY <2>3 DEF StoreResolution, serverVars
    <3> HIDE DEF n
    <3>2. \A c \in Commands : state'[c] = "SENDING" <=> state[c] = "SENDING"
      BY <3>1 DEF Terminal, Shape, TypeOK
    <3> QED
      BY <3>1, <3>2 DEF Stutters, Sending
  <2> QED
    BY <1>3, <2>1, <2>2, <2>3 DEF Recovery
<1>4. ASSUME NEW q \in Slots, Process(q)
      PROVE  Stutters \/ \E c \in Commands : CommitDomain(c, q)
  BY <1>4 DEF Process, SkipBlocked, RejectOrigin, ReplayReceipt, SequenceTaken, NoPrior,
              LookupIdempotency, RefuseDomain, FailDomain, PersistReceipt, PersistTaken,
              PersistOutOfScope, Stutters, Sending, outboxVars, serverVars
<1>5. ASSUME NEW q \in Slots, AbortRequest(q) PROVE Stutters
  BY <1>5 DEF AbortRequest, Stutters, Sending, outboxVars, serverVars
<1>6. ASSUME NEW c \in Commands, BecomeDue(c) PROVE Stutters
  BY <1>6 DEF BecomeDue, Stutters, Sending, serverVars
<1>7. ASSUME NEW c \in Commands, WorkspaceResolution(c) PROVE Dismisses(c)
  BY <1>7 DEF WorkspaceResolution, Resolvable, Dismisses, Actions, outboxVars
<1>8. ASSUME NEW d \in Devices, RevokeDevice(d) PROVE Stutters
  BY <1>8 DEF RevokeDevice, Stutters, Sending, outboxVars
<1>9. CASE UNCHANGED vars
  BY <1>9 DEF vars, Stutters, Sending
<1> QED
  BY <1>1, <1>2, <1>3, <1>4, <1>5, <1>6, <1>7, <1>8, <1>9 DEF Next

LEMMA LedgerInit == Init => Ledger!Init
  BY DEF Init, Ledger!Init, Commands, Ledger!Commands

LEMMA LedgerNext ==
    ASSUME Inv, [Next]_vars PROVE [Ledger!Next]_(Ledger!ledgerVars)
<1> USE DEF Inv
<1>1. /\ Ledger!Commands = Commands
      /\ state \in [Commands -> LocalStates]
      /\ agg \in [Commands -> Aggregates \cup {None}] /\ None \notin Aggregates
      /\ applied \in [Commands -> Nat]
      /\ resolution \in [Commands -> Actions \cup {"NONE"}] /\ "NONE" \notin Actions
  BY ConstantsAssumption DEF Commands, Ledger!Commands, Shape, TypeOK, Actions
<1>2. ASSUME Stutters PROVE UNCHANGED Ledger!ledgerVars
  BY <1>2 DEF Stutters, Sending, Ledger!ledgerVars
<1>3. ASSUME NEW r \in Runtimes, NEW a \in Aggregates, Enqueue(r, a)
      PROVE  \E c \in Commands : Ledger!Queue(c, a)
  <2> DEFINE n == <<StoreOf[r], nextSequence[StoreOf[r]]>>
  <2>1. /\ n \in Commands /\ n[1] = StoreOf[r] /\ n[2] = nextSequence[StoreOf[r]]
        /\ state' = [state EXCEPT ![n] = "PENDING"] /\ agg' = [agg EXCEPT ![n] = a]
        /\ UNCHANGED <<applied, resolution, passed>>
    BY <1>3, ConstantsAssumption DEF Enqueue, Shape, TypeOK, Commands, serverVars
  <2>2. nextSequence[StoreOf[r]] \in Nat /\ \A c \in Commands : c[2] \in Nat
    BY ConstantsAssumption DEF Shape, TypeOK, Commands
  <2> HIDE DEF n
  <2>3. \A c \in Commands :
            /\ agg[c] = None <=> nextSequence[c[1]] <= c[2]
            /\ agg[c] = None <=> state[c] = "ABSENT"
    BY DEF Shape, QueueShape
  <2>4. agg[n] = None /\ state[n] = "ABSENT"
    BY <2>1, <2>2, <2>3
  <2>5. \A d \in Commands : d[1] = n[1] /\ d[2] < n[2] => agg[d] # None
    <3>1. TAKE d \in Commands
    <3>2. HAVE d[1] = n[1] /\ d[2] < n[2]
    <3>3. d[2] \in Nat /\ nextSequence[d[1]] = n[2] /\ n[2] \in Nat
      BY <2>1, <2>2, <3>2
    <3> QED
      BY <2>3, <3>2, <3>3
  <2>6. Sending' = Sending
    BY <1>1, <2>1, <2>4 DEF Sending
  <2> QED
    BY <1>1, <2>1, <2>4, <2>5, <2>6 DEF Ledger!Queue, Sending
<1>4. ASSUME NEW c \in Commands, NEW q \in Slots, CommitDomain(c, q)
      PROVE  Ledger!TakeEffect(c)
  <2>1. /\ IsCurrent(c, q) /\ request[q].step # "PRIOR" /\ applied[c] = 0
        /\ applied' = [applied EXCEPT ![c] = applied[c] + 1]
        /\ UNCHANGED <<state, agg, resolution, passed>>
    BY <1>4 DEF CommitDomain, AtStep, outboxVars
  <2>2. \A d \in Commands : applied'[d] = IF d = c THEN 1 ELSE applied[d]
    BY <1>1, <2>1
  <2>3. agg[c] # None
    BY <1>1, <2>1, CurrentQueued
  <2>4. \A d \in Commands : Before(d, c, agg) => <<d, c>> \in Gone
    BY <2>1, CurrentIsClear
  <2>5. {d \in Commands : applied'[d] > 0} = {d \in Commands : applied[d] > 0} \cup {c}
    BY <1>1, <2>2
  <2> QED
    BY <1>1, <2>1, <2>3, <2>4, <2>5
       DEF Ledger!TakeEffect, Ledger!Earlier, Ledger!Free, Before, Gone
<1>5. ASSUME NEW c \in Commands, Dismisses(c) PROVE Ledger!Dismiss(c)
  <2>1. PICK action \in Actions : resolution' = [resolution EXCEPT ![c] = action]
    BY <1>5 DEF Dismisses
  <2>2. agg[c] # None
    BY <1>5 DEF Dismisses, Shape, QueueShape
  <2>3. {d \in Commands : resolution'[d] # "NONE"}
          = {d \in Commands : resolution[d] # "NONE"} \cup {c}
    BY <1>1, <2>1
  <2> QED
    BY <1>1, <1>5, <2>2, <2>3 DEF Ledger!Dismiss, Dismisses
<1>6. ASSUME NEW r \in Runtimes, ReadReady(r)
      PROVE  \E S \in SUBSET Commands : Ledger!Choose(S)
  <2>1. PICK b \in SUBSET Sendable(StoreOf[r]) : passed' = passed \cup PassedOver(b)
    BY <1>6 DEF ReadReady
  <2>2. UNCHANGED <<state, agg, applied, resolution>>
    BY <1>6 DEF ReadReady, outboxVars, serverVars
  <2>3. b \in SUBSET Commands /\ \A d \in b : agg[d] # None
    BY DEF Sendable, Pending, Queued, Shape, QueueShape
  <2>4. PassedOver(b) = {p \in Sending \X b : Ledger!Earlier(p[1], p[2])}
    BY <2>3 DEF PassedOver, Precedes, Sending, Ledger!Earlier
  <2>5. Ledger!Choose(b)
    BY <2>1, <2>2, <2>3, <2>4 DEF Ledger!Choose, Sending
  <2> QED
    BY <2>3, <2>5
<1>7. ASSUME NEW r \in Runtimes, NEW q \in Slots, MarkSending(r, q)
      PROVE  \E S \in SUBSET Commands : Ledger!Send(S)
  <2>0. PICK b \in SUBSET Commands : b = page[r].batch
    BY <1>7 DEF MarkSending, Shape, TypeOK, Pages
  <2>1. (\A d \in b : agg[d] # None) /\ page[r].phase = "READ"
    BY <1>7, <2>0 DEF MarkSending, Shape, TypeOK, Pages, QueueShape
  <2>2. /\ \A c \in Commands : state'[c] = IF c \in b THEN "SENDING" ELSE state[c]
        /\ UNCHANGED <<agg, applied, resolution, passed>>
    BY <1>7, <2>0, <1>1 DEF MarkSending, serverVars
  <2>3. \A d \in b : Clear(d, b, agg, Gone)
    BY <2>0, <2>1 DEF Order, ClearBatch
  <2>4. \A d \in b, c \in Commands : Ledger!Earlier(c, d) => c \in b \/ Ledger!Free(c, d)
    BY <2>1, <2>3 DEF Clear, Before, Gone, Ledger!Earlier, Ledger!Free
  <2>5. Sending' = Sending \cup b
    BY <2>1, <2>2 DEF Sending
  <2>6. Ledger!Send(b)
    BY <1>1, <2>1, <2>2, <2>4, <2>5 DEF Ledger!Send, Sending
  <2> QED
    BY <2>6
<1>8. ASSUME NEW S \in SUBSET Commands, Forgets(S) PROVE Ledger!Hear(S)
  BY <1>8 DEF Forgets, Sending, Ledger!Hear
<1> QED
  BY <1>1, <1>2, <1>3, <1>4, <1>5, <1>6, <1>7, <1>8, StepKinds DEF Ledger!Next

(* The offline queue implements CommandLedger: each queued command takes    *)
(* effect at most once, and in order but for what is passed over while its  *)
(* outcome is open, whatever is lost, resent, abandoned or refused on the   *)
(* way and however many pages share the outbox.                             *)
THEOREM QueueImplementsLedger == Spec => ImplementsLedger
<1>1. Inv /\ [Next]_vars => [Ledger!Next]_(Ledger!ledgerVars)
  BY LedgerNext
<1> QED
  BY <1>1, LedgerInit, OrderInvariant, PTL
     DEF Spec, ImplementsLedger, Ledger!LedgerSpec

=============================================================================
