---------------------------- MODULE OfficeProofs ----------------------------
(***************************************************************************)
(* What becomes of one request, from the click to the row, and the types   *)
(* of the whole office.  The wrapper: a command takes effect once, for any *)
(* number of attempts, keys and versions, and whichever copy of the wrapper *)
(* surrounds it.  The pages: what staff decide on is what their command    *)
(* meets, for any number of clicks, loads and versions and for the conduct *)
(* of every page.  The types: no part leaves its bounds, whatever the      *)
(* values of those that keep the model finite.                             *)
(***************************************************************************)
EXTENDS AdministrationProofs, BranchProofs

(* Both run as their own modules say while the other parts move.             *)
LEMMA CommandRuns == Spec => CommandInit /\ [][CommandNext]_commandVars
<1>1. Init => CommandInit
  BY DEF Init
<1>2. [Next]_backOfficeVars => [CommandNext]_commandVars
  BY DEF Next, backOfficeVars, AuditTurn, HoursTurn, PricingTurn, MenuTurn, TaxTurn,
         ThrottleTurn, FactorTurn, AccessTurn, PrivacyTurn, AlertTurn, LayoutTurn,
         RuntimeTurn, CommandTurn, AvailabilityTurn, PageTurn
<1>. QED BY <1>1, <1>2, PTL DEF Spec

LEMMA PageRuns == Spec => PageInit /\ [][PageNext]_pageVars
<1>1. Init => PageInit
  BY DEF Init
<1>2. [Next]_backOfficeVars => [PageNext]_pageVars
  BY DEF Next, backOfficeVars, AuditTurn, HoursTurn, PricingTurn, MenuTurn, TaxTurn,
         ThrottleTurn, FactorTurn, AccessTurn, PrivacyTurn, AlertTurn, LayoutTurn,
         RuntimeTurn, CommandTurn, AvailabilityTurn, PageTurn
<1>. QED BY <1>1, <1>2, PTL DEF Spec

(***************************************************************************)
(* The wrapper.                                                            *)
(***************************************************************************)

(* What rows and requests look like, as far as the argument needs it.       *)
Shape ==
    /\ version \in Nat
    /\ record = [k \in Keys |-> record[k]]
    /\ attempt = [a \in Attempts |-> attempt[a]]
    /\ \A a \in Attempts : attempt[a] # NoAttempt =>
          attempt[a].request \in KeyedRequests /\ attempt[a].phase \in Phases

(* An attempt that has edited has been answered "ok", or its answer is lost. *)
Committed ==
    \A e \in edits :
        /\ e.by \in Attempts /\ attempt[e.by] # NoAttempt
        /\ attempt[e.by].phase \in {"ok", "lost"}

(* Records and edits tell of each other.                                    *)
Backed ==
    /\ \A k \in Keys : record[k] # NoRecord =>
          \E e \in edits : /\ e.request = [key |-> k, based |-> record[k].based]
                           /\ record[k].response = e.on + 1
    /\ \A e \in edits : e.request.key \in Keys /\ record[e.request.key] # NoRecord

(* Who is told "ok" is told what an edit of the very request came to.       *)
ToldTrue(r) ==
    r.phase = "ok" => \E e \in edits : e.request = r.request /\ r.response = e.on + 1
Answered == \A a \in Attempts : attempt[a] # NoAttempt => ToldTrue(attempt[a])

OneEach == \A e, f \in edits : e.request.key = f.request.key => e = f

(* Serializable edits are of versions gone by, each of one of its own.      *)
InOrder ==
    wrapper.serializable =>
        /\ \A e \in edits : e.on \in Nat /\ e.on < version /\ e.request.based = e.on
        /\ \A e, f \in edits : e.on = f.on => e = f

CommandInv == Shape /\ Committed /\ Backed /\ Answered /\ OneEach /\ InOrder

-----------------------------------------------------------------------------
(* An attempt moves on without an edit.                                     *)
LEMMA AttemptMoves ==
    ASSUME CommandInv, NEW a \in Attempts, NEW r,
           r # NoAttempt, r.request \in KeyedRequests, r.phase \in Phases, ToldTrue(r),
           \A e \in edits : e.by = a => r.phase \in {"ok", "lost"},
           attempt' = [attempt EXCEPT ![a] = r],
           UNCHANGED <<wrapper, version, record, edits>>
    PROVE  CommandInv'
<1>1. \A b \in Attempts : attempt'[b] = IF b = a THEN r ELSE attempt[b]
  BY DEF CommandInv, Shape
<1>2. Shape'
  <2>1. attempt' = [b \in Attempts |-> attempt'[b]]
    BY DEF CommandInv, Shape
  <2>. QED BY <1>1, <2>1 DEF CommandInv, Shape
<1>3. Committed'
  BY <1>1 DEF CommandInv, Committed
<1>4. Backed' /\ OneEach' /\ InOrder'
  BY DEF CommandInv, Backed, OneEach, InOrder
<1>5. Answered'
  BY <1>1 DEF CommandInv, Answered, ToldTrue
<1>. QED BY <1>2, <1>3, <1>4, <1>5 DEF CommandInv

(* An attempt under way has not edited.                                     *)
LEMMA NotYet ==
    ASSUME CommandInv, NEW a \in Attempts, attempt[a].phase \in {"looking", "working"}
    PROVE  /\ attempt[a] # NoAttempt
           /\ attempt[a].request \in KeyedRequests
           /\ \A e \in edits : e.by # a
<1>1. attempt[a] # NoAttempt
  BY DEF NoAttempt
<1>. QED BY <1>1 DEF CommandInv, Shape, Committed

(* It is answered with a refusal.                                           *)
LEMMA Refused ==
    ASSUME CommandInv, NEW a \in Attempts, attempt[a].phase \in {"looking", "working"},
           NEW phase \in {"conflict", "failed"}, Close(a, phase, 0),
           UNCHANGED <<wrapper, version, record, edits>>
    PROVE  CommandInv'
<1>. DEFINE r == [phase |-> phase, request |-> attempt[a].request, response |-> 0]
<1>1. attempt' = [attempt EXCEPT ![a] = r]
  BY DEF Close
<1>2. r # NoAttempt /\ r.phase \in Phases /\ ToldTrue(r)
  BY DEF NoAttempt, Phases, ToldTrue
<1>3. r.request \in KeyedRequests /\ \A e \in edits : e.by # a
  BY NotYet
<1>. HIDE DEF r
<1>. QED BY <1>1, <1>2, <1>3, AttemptMoves

(* The commit: the only step that edits.                                    *)
LEMMA EditIsMade ==
    ASSUME CommandInv, NEW a \in Attempts, CommitEdit(a)
    PROVE  CommandInv'
<1>. DEFINE q == attempt[a].request
            new == [by |-> a, request |-> q, on |-> version]
            r == [phase |-> "ok", request |-> q, response |-> version + 1]
            entry == [based |-> q.based, response |-> version + 1]
<1>1. /\ attempt[a] # NoAttempt /\ q \in KeyedRequests
      /\ \A e \in edits : e.by # a
  BY NotYet DEF CommitEdit
<1>2. /\ q.key \in Keys /\ q.based \in 0..LastVersion
      /\ q = [key |-> q.key, based |-> q.based]
  BY <1>1 DEF KeyedRequests
<1>3. /\ attempt[a].read = q.based /\ version < LastVersion
      /\ record[q.key] = NoRecord
      /\ wrapper.serializable => attempt[a].read = version
      /\ version' = version + 1 /\ record' = [record EXCEPT ![q.key] = entry]
      /\ edits' = edits \cup {new} /\ attempt' = [attempt EXCEPT ![a] = r]
      /\ wrapper' = wrapper
  BY DEF CommitEdit, Close, Serialized
<1>4. version \in Nat
  BY DEF CommandInv, Shape
<1>5. entry # NoRecord
  <2>1. entry \in [based: 0..LastVersion, response: 1..LastVersion]
    BY <1>2, <1>3, <1>4, CommandAssumption
  <2>. QED BY <2>1, CommandAssumption
<1>6. /\ \A b \in Attempts : attempt'[b] = IF b = a THEN r ELSE attempt[b]
      /\ attempt' = [b \in Attempts |-> attempt'[b]]
  BY <1>3 DEF CommandInv, Shape
<1>7. /\ \A k \in Keys : record'[k] = IF k = q.key THEN entry ELSE record[k]
      /\ record' = [k \in Keys |-> record'[k]]
  BY <1>3 DEF CommandInv, Shape
<1>8. new.by = a /\ new.request = q /\ new.on = version
  OBVIOUS
<1>9. r # NoAttempt /\ r.phase = "ok" /\ r.request = q /\ r.response = version + 1
  BY DEF NoAttempt
<1>10. entry.based = q.based /\ entry.response = version + 1
  OBVIOUS
<1>. HIDE DEF new, r, entry, q
<1>11. Shape'
  <2>1. \A b \in Attempts : attempt'[b] # NoAttempt =>
            attempt'[b].request \in KeyedRequests /\ attempt'[b].phase \in Phases
    BY <1>1, <1>6, <1>9 DEF CommandInv, Shape, Phases
  <2>. QED BY <1>3, <1>4, <1>6, <1>7, <2>1 DEF Shape
<1>12. Committed'
  BY <1>3, <1>6, <1>8, <1>9 DEF CommandInv, Committed
<1>13. Backed'
  <2>1. ASSUME NEW k \in Keys, record'[k] # NoRecord
        PROVE  \E e \in edits' : /\ e.request = [key |-> k, based |-> record'[k].based]
                                 /\ record'[k].response = e.on + 1
    <3>1. CASE k = q.key
      BY <3>1, <1>2, <1>3, <1>7, <1>8, <1>10
    <3>2. CASE k # q.key
      BY <3>2, <2>1, <1>3, <1>7 DEF CommandInv, Backed
    <3>. QED BY <3>1, <3>2
  <2>2. ASSUME NEW e \in edits'
        PROVE  e.request.key \in Keys /\ record'[e.request.key] # NoRecord
    BY <1>2, <1>3, <1>5, <1>7, <1>8 DEF CommandInv, Backed
  <2>. QED BY <2>1, <2>2 DEF Backed
<1>14. Answered'
  <2>1. ASSUME NEW b \in Attempts, b # a, attempt'[b] # NoAttempt
        PROVE  ToldTrue(attempt[b])'
    BY <2>1, <1>3, <1>6 DEF CommandInv, Answered, ToldTrue
  <2>. QED BY <1>3, <1>6, <1>8, <1>9, <2>1 DEF CommandInv, Answered, ToldTrue
<1>15. OneEach'
  <2>1. \A e \in edits : e.request.key # q.key
    BY <1>3 DEF CommandInv, Backed
  <2>. QED BY <1>3, <1>8, <2>1 DEF CommandInv, OneEach
<1>16. InOrder'
  BY <1>3, <1>4, <1>8 DEF CommandInv, InOrder
<1>. QED BY <1>11, <1>12, <1>13, <1>14, <1>15, <1>16 DEF CommandInv

LEMMA CommandStep ==
    ASSUME CommandInv, [CommandNext]_commandVars
    PROVE  CommandInv'
<1>1. CASE UNCHANGED commandVars
  BY <1>1 DEF commandVars, CommandInv, Shape, Committed, Backed, Answered, ToldTrue,
              OneEach, InOrder
<1>2. ASSUME NEW a \in Attempts, NEW k \in Keys, NEW based \in 0..LastVersion,
             Arrive(a, k, based)
      PROVE  CommandInv'
  <2>. DEFINE r == [phase |-> "looking", request |-> [key |-> k, based |-> based]]
  <2>1. r # NoAttempt /\ r.phase \in Phases /\ r.request \in KeyedRequests /\ ToldTrue(r)
    BY DEF NoAttempt, Phases, KeyedRequests, ToldTrue
  <2>2. \A e \in edits : e.by # a
    BY <1>2 DEF CommandInv, Committed, Arrive
  <2>3. attempt' = [attempt EXCEPT ![a] = r] /\ UNCHANGED <<wrapper, version, record, edits>>
    BY <1>2 DEF Arrive
  <2>. HIDE DEF r
  <2>. QED BY <2>1, <2>2, <2>3, AttemptMoves
<1>3. ASSUME NEW a \in Attempts, Look(a)
      PROVE  CommandInv'
  <2>. DEFINE q == attempt[a].request
              known == record[q.key]
  <2>1. attempt[a].phase = "looking" /\ UNCHANGED <<wrapper, version, record, edits>>
    BY <1>3 DEF Look
  <2>2. q \in KeyedRequests /\ \A e \in edits : e.by # a
    BY <2>1, NotYet
  <2>3. CASE known = NoRecord /\ attempt' = [attempt EXCEPT ![a] =
                 [phase |-> "working", request |-> @.request, read |-> version]]
    <3>. DEFINE r == [phase |-> "working", request |-> q, read |-> version]
    <3>1. r # NoAttempt /\ r.phase \in Phases /\ r.request = q /\ ToldTrue(r)
      BY DEF NoAttempt, Phases, ToldTrue
    <3>2. attempt' = [attempt EXCEPT ![a] = r]
      BY <2>3
    <3>. HIDE DEF r
    <3>. QED BY <3>1, <3>2, <2>1, <2>2, AttemptMoves
  <2>4. CASE known # NoRecord /\ SameRequest(a) /\ Close(a, "ok", known.response)
    <3>. DEFINE r == [phase |-> "ok", request |-> q, response |-> known.response]
    <3>1. r # NoAttempt /\ r.phase \in Phases /\ r.request = q
      BY DEF NoAttempt, Phases
    <3>2. attempt' = [attempt EXCEPT ![a] = r]
      BY <2>4 DEF Close
    <3>3. q.key \in Keys /\ q = [key |-> q.key, based |-> q.based]
      BY <2>2 DEF KeyedRequests
    <3>4. PICK e \in edits : /\ e.request = [key |-> q.key, based |-> known.based]
                             /\ known.response = e.on + 1
      BY <2>4, <3>3 DEF CommandInv, Backed
    <3>5. known.based = q.based
      BY <2>4 DEF SameRequest
    <3>6. ToldTrue(r)
      BY <3>3, <3>4, <3>5 DEF ToldTrue
    <3>. HIDE DEF r
    <3>. QED BY <3>1, <3>2, <3>6, <2>1, <2>2, AttemptMoves
  <2>5. CASE known # NoRecord /\ ~SameRequest(a) /\ Close(a, "conflict", 0)
    BY <2>1, <2>5, Refused
  <2>. QED BY <1>3, <2>3, <2>4, <2>5 DEF Look
<1>4. ASSUME NEW a \in Attempts, Refuse(a)
      PROVE  CommandInv'
  BY <1>4, Refused DEF Refuse
<1>5. ASSUME NEW a \in Attempts, NEW error, attempt[a].phase = "working", Raise(a, error)
      PROVE  CommandInv'
  <2>1. PICK phase \in {"conflict", "failed"} : Close(a, phase, 0)
    BY <1>5 DEF Raise
  <2>. QED BY <1>5, <2>1, Refused DEF Raise
<1>6. ASSUME NEW a \in Attempts, RecordTaken(a) \/ NotSerializable(a) \/ Violation(a)
      PROVE  CommandInv'
  BY <1>5, <1>6 DEF RecordTaken, NotSerializable, Violation
<1>7. ASSUME NEW a \in Attempts, Lose(a)
      PROVE  CommandInv'
  <2>. DEFINE r == [phase |-> "lost", request |-> attempt[a].request, response |-> 0]
  <2>1. attempt[a] # NoAttempt
    BY <1>7 DEF Lose, NoAttempt
  <2>2. r # NoAttempt /\ r.phase = "lost" /\ r.phase \in Phases /\ ToldTrue(r)
    BY DEF NoAttempt, Phases, ToldTrue
  <2>3. r.request \in KeyedRequests
    BY <2>1 DEF CommandInv, Shape
  <2>4. attempt' = [attempt EXCEPT ![a] = r] /\ UNCHANGED <<wrapper, version, record, edits>>
    BY <1>7 DEF Lose, Close
  <2>. HIDE DEF r
  <2>. QED BY <2>2, <2>3, <2>4, AttemptMoves
<1>8. ASSUME NEW a \in Attempts, CommitEdit(a)
      PROVE  CommandInv'
  BY <1>8, EditIsMade
<1>. QED BY <1>1, <1>2, <1>3, <1>4, <1>6, <1>7, <1>8 DEF CommandNext

LEMMA CommandStart == CommandInit => CommandInv
  BY DEF CommandInit, CommandInv, Shape, Committed, Backed, Answered, ToldTrue, OneEach,
         InOrder

(* A command takes effect once: a key has at most one edit, "ok" is the truth about  *)
(* the very request, any other answer means that nothing was changed by it, and      *)
(* serializable wrappers edit no version twice (the idempotent wrapper of each       *)
(* service).                                                                         *)
THEOREM CommandsHaveOneEffect == Spec => []CommandsTakeEffectOnce
<1>1. CommandInv => CommandsTakeEffectOnce
  BY DEF CommandInv, Committed, Answered, ToldTrue, OneEach, InOrder,
         CommandsTakeEffectOnce
<1>. QED BY <1>1, CommandStart, CommandStep, CommandRuns, PTL

(***************************************************************************)
(* The pages.                                                              *)
(***************************************************************************)

(* Rows, loads and clicks.                                                  *)
LoadRecords  == [at: {"NONE", "ASKED", "ANSWERED"}, read: Nat, by: Clicks \union {Nobody}]
ClickRecords == [at: {"NONE", "SENT", "ADRIFT", "TAKEN", "REFUSED", "RELOADING", "OVER"},
                 saw: Nat, carries: Nat, compared: BOOLEAN]
PageShape ==
    /\ stands \in Nat /\ listed \in [version: Nat, visible: BOOLEAN]
    /\ editing \in Nat \union {Nobody}
    /\ loads \in [LoadSlots -> LoadRecords]
    /\ clicks \in [Clicks -> ClickRecords]

(* Nothing on its way to the screen, on it or in a click is from the future. *)
NotAhead ==
    /\ listed.version <= stands
    /\ editing # Nobody => editing <= stands
    /\ \A l \in LoadSlots : loads[l].read <= stands
    /\ \A c \in Clicks : clicks[c].saw <= stands

(* A click carries the version that the person saw, on all pages but one.    *)
Faithful == conduct.editor # "FIELDS" => \A c \in Clicks : clicks[c].saw = clicks[c].carries

(* What has been answered, and matters, was decided on something older than *)
(* what stands now.                                                         *)
Outdated ==
    \A c \in Clicks :
        /\ clicks[c].at = "TAKEN" => clicks[c].saw < stands
        /\ clicks[c].at = "REFUSED" /\ conduct.guard # "UNIQUE" /\ conduct.editor # "FIELDS"
              => clicks[c].saw < stands
        /\ clicks[c].at = "RELOADING" /\ conduct.guard # "UNIQUE" => clicks[c].saw < stands

(* The load that a click waits for was asked for after its answer.           *)
Renewed ==
    \A l \in LoadSlots, c \in Clicks : loads[l].by = c =>
        /\ clicks[c].at \in {"RELOADING", "OVER"}
        /\ clicks[c].at = "RELOADING" /\ loads[l].at = "ANSWERED" /\ conduct.guard # "UNIQUE"
              => loads[l].read > clicks[c].saw

PageInv == conduct \in Conducts /\ PageShape /\ NotAhead /\ Faithful /\ Outdated /\ Renewed

-----------------------------------------------------------------------------
(* The page whose form keeps fields does not load again when it is refused. *)
LEMMA FieldsAreKept ==
    ASSUME conduct \in Conducts, conduct.editor = "FIELDS"
    PROVE  conduct.refused = "TELLS"
<1>1. \A p \in SitePages : p.editor = "FIELDS" => p.refused = "TELLS"
  BY DEF SitePages, StaffPage, FactorPage, OperationalPage, TaxPage, CatalogPage,
         PoliciesPage, InventoryPage, OperationsPage, ProcurementPage, PrivacyPage,
         SecurityPage, ReadinessPage, OrderWorkspace, RefundWorkspace, CashWorkspace,
         ReceiptWorkspace, RecoveryWorkspace, KitchenPage
<1>2. PICK p \in SitePages : \E c \in p.calls : conduct = Conduct(p, c)
  BY DEF Conducts
<1>3. PICK c \in p.calls : conduct = Conduct(p, c)
  BY <1>2
<1>4. conduct.refused = p.refused /\ conduct.editor \in {"ROW", p.editor}
  BY <1>3 DEF Conduct
<1>. QED BY <1>1, <1>4

(* A click moves on: it is over, or what it saw and carries stays.           *)
LEMMA ClickMoves ==
    ASSUME PageInv, NEW c \in Clicks, NEW r \in ClickRecords,
           clicks' = [clicks EXCEPT ![c] = r],
           r.saw <= stands,
           conduct.editor # "FIELDS" => r.saw = r.carries,
           r.at = "TAKEN" => r.saw < stands',
           r.at = "REFUSED" /\ conduct.guard # "UNIQUE" /\ conduct.editor # "FIELDS"
              => r.saw < stands',
           r.at # "RELOADING",
           \A l \in LoadSlots : loads[l].by # c,
           stands' = stands \/ stands' = stands + 1,
           UNCHANGED <<conduct, listed, editing, loads>>
    PROVE  PageInv'
<1>1. \A b \in Clicks : clicks'[b] = IF b = c THEN r ELSE clicks[b]
  BY DEF PageInv, PageShape
<1>2. stands' \in Nat /\ stands <= stands' /\ stands \in Nat
  BY DEF PageInv, PageShape
<1>3. \A b \in Clicks : clicks[b] \in ClickRecords
  BY DEF PageInv, PageShape
<1>4. PageShape'
  BY <1>2 DEF PageInv, PageShape
<1>5. NotAhead'
  BY <1>1, <1>2, <1>3 DEF PageInv, PageShape, NotAhead, ClickRecords, LoadRecords
<1>6. Faithful'
  BY <1>1 DEF PageInv, Faithful
<1>7. Outdated'
  BY <1>1, <1>2, <1>3 DEF PageInv, Outdated, ClickRecords
<1>8. Renewed'
  BY <1>1 DEF PageInv, Renewed
<1>. QED BY <1>4, <1>5, <1>6, <1>7, <1>8 DEF PageInv

(* A load begins, for the person or for a click whose answer has come.       *)
LEMMA LoadBegins ==
    ASSUME PageInv, NEW l \in LoadSlots, NEW by, StartLoad(l, by),
           \/ by = Nobody /\ clicks' = clicks
           \/ /\ by \in Clicks
              /\ clicks' = [clicks EXCEPT ![by].at = "RELOADING"]
              /\ clicks[by].at \in {"TAKEN", "REFUSED"}
              /\ conduct.guard # "UNIQUE" => clicks[by].saw < stands,
           editing' \in {editing, Nobody},
           UNCHANGED <<conduct, stands>>
    PROVE  PageInv'
<1>. DEFINE new == [at |-> "ASKED", read |-> 0, by |-> by]
<1>1. /\ loads' \in [LoadSlots -> LoadRecords]
      /\ \A k \in LoadSlots : loads'[k] = IF k = l THEN new ELSE loads[k]
  BY DEF PageInv, PageShape, StartLoad, LoadRecords
<1>2. new.at = "ASKED" /\ new.read = 0 /\ new.by = by
  OBVIOUS
<1>. HIDE DEF new
<1>3. /\ clicks' \in [Clicks -> ClickRecords]
      /\ \A c \in Clicks :
            /\ clicks'[c].saw = clicks[c].saw /\ clicks'[c].carries = clicks[c].carries
            /\ clicks'[c].at = IF c = by THEN "RELOADING" ELSE clicks[c].at
  BY PageAssumption DEF PageInv, PageShape, ClickRecords
<1>4. stands \in Nat /\ stands' = stands /\ (listed' = Hidden \/ listed' = listed)
  BY DEF PageInv, PageShape, StartLoad
<1>5. PageShape'
  <2>1. listed' \in [version: Nat, visible: BOOLEAN]
    <3>1. Hidden \in [version: Nat, visible: BOOLEAN]
      BY DEF Hidden
    <3>. QED BY <1>4, <3>1 DEF PageInv, PageShape
  <2>2. editing' \in Nat \union {Nobody}
    BY DEF PageInv, PageShape
  <2>. QED BY <1>1, <1>3, <1>4, <2>1, <2>2 DEF PageShape
<1>6. NotAhead'
  BY <1>1, <1>2, <1>3, <1>4 DEF PageInv, NotAhead, Hidden
<1>7. Faithful'
  BY <1>3 DEF PageInv, Faithful
<1>8. Outdated'
  BY <1>3 DEF PageInv, Outdated
<1>9. Renewed'
  BY <1>1, <1>2, <1>3 DEF PageInv, Renewed
<1>. QED BY <1>5, <1>6, <1>7, <1>8, <1>9 DEF PageInv

(* A load ends, and the click that waited for it.                            *)
LEMMA LoadEnds ==
    ASSUME PageInv, NEW l \in LoadSlots, EndLoad(l),
           listed' \in [version: Nat, visible: BOOLEAN], listed'.version <= stands
    PROVE  PageInv'
<1>1. /\ loads' \in [LoadSlots -> LoadRecords]
      /\ \A k \in LoadSlots : loads'[k] = IF k = l THEN NoLoad ELSE loads[k]
  BY DEF PageInv, PageShape, EndLoad, LoadRecords, NoLoad
<1>2. NoLoad.at = "NONE" /\ NoLoad.read = 0 /\ NoLoad.by = Nobody
  BY DEF NoLoad
<1>3. /\ clicks' \in [Clicks -> ClickRecords]
      /\ \A c \in Clicks : clicks'[c] = IF loads[l].by = c THEN Over ELSE clicks[c]
  BY DEF PageInv, PageShape, EndLoad, ClickRecords, Over, NoClick
<1>4. Over.at = "OVER" /\ Over.saw = 0 /\ Over.carries = 0
  BY DEF Over, NoClick
<1>5. UNCHANGED <<conduct, stands, editing>> /\ stands \in Nat
  BY DEF PageInv, PageShape, EndLoad
<1>6. PageShape'
  BY <1>1, <1>3, <1>5 DEF PageInv, PageShape
<1>7. NotAhead'
  BY <1>1, <1>2, <1>3, <1>4, <1>5 DEF PageInv, NotAhead
<1>8. Faithful' /\ Outdated'
  BY <1>3, <1>4, <1>5 DEF PageInv, Faithful, Outdated
<1>9. Renewed'
  BY <1>1, <1>2, <1>3, <1>4, <1>5, PageAssumption DEF PageInv, Renewed
<1>. QED BY <1>5, <1>6, <1>7, <1>8, <1>9 DEF PageInv

(* The pages are of three kinds.                                             *)
LEMMA Editors ==
    ASSUME conduct \in Conducts
    PROVE  conduct.editor \in {"ROW", "COPY", "FIELDS"}
<1>1. \A p \in SitePages : p.editor \in {"ROW", "COPY", "FIELDS"}
  BY DEF SitePages, StaffPage, FactorPage, OperationalPage, TaxPage, CatalogPage,
         PoliciesPage, InventoryPage, OperationsPage, ProcurementPage, PrivacyPage,
         SecurityPage, ReadinessPage, OrderWorkspace, RefundWorkspace, CashWorkspace,
         ReceiptWorkspace, RecoveryWorkspace, KitchenPage
<1>2. PICK p \in SitePages : \E c \in p.calls : conduct = Conduct(p, c)
  BY DEF Conducts
<1>. QED BY <1>1, <1>2 DEF Conduct

(* The server compares the revision, with the change or before it, looks for  *)
(* the name, or does neither.                                                 *)
LEMMA Guards ==
    ASSUME conduct \in Conducts
    PROVE  conduct.guard \in {"REVISION", "EARLIER", "UNIQUE", "NONE"}
<1>. DEFINE Guarded(calls) ==
         \A c \in calls : c.guard \in {"REVISION", "EARLIER", "UNIQUE", "NONE"}
<1>1. \A names : /\ Guarded(Changes(names)) /\ Guarded(LateChanges(names))
                 /\ Guarded(Entries(names)) /\ Guarded(Postings(names))
  BY DEF Changes, LateChanges, Entries, Postings
<1>2. Guarded(FactorCalls) /\ Guarded(StaffCalls) /\ Guarded(PlaceCalls) /\ Guarded(HoursCalls)
  BY <1>1 DEF FactorCalls, StaffCalls, PlaceCalls, HoursCalls
<1>3. /\ Guarded(TaxCalls) /\ Guarded(CategoryCalls) /\ Guarded(ItemCalls)
      /\ Guarded(ModifierCalls) /\ Guarded(PolicyCalls) /\ Guarded(RuleCalls)
  BY <1>1 DEF TaxCalls, CategoryCalls, ItemCalls, ModifierCalls, PolicyCalls, RuleCalls
<1>4. Guarded(UnitCalls) /\ Guarded(StockCalls) /\ Guarded(RecipeCalls) /\ Guarded(BatchCalls)
  BY <1>1 DEF UnitCalls, StockCalls, RecipeCalls, BatchCalls
<1>5. /\ Guarded(SupplierCalls) /\ Guarded(IntakeCalls) /\ Guarded(CustomerCalls)
      /\ Guarded(RequestCalls) /\ Guarded(AlertCalls) /\ Guarded(EvidenceCalls)
  BY <1>1 DEF SupplierCalls, IntakeCalls, CustomerCalls, RequestCalls, AlertCalls,
              EvidenceCalls
<1>6. /\ Guarded(OrderCalls) /\ Guarded(RefundCalls) /\ Guarded(CashCalls)
      /\ Guarded(PrintCalls) /\ Guarded(RecoveryCalls) /\ Guarded(TicketCalls)
  BY <1>1 DEF OrderCalls, RefundCalls, CashCalls, PrintCalls, RecoveryCalls, TicketCalls
<1>7. \A p \in SitePages : Guarded(p.calls)
  BY <1>2, <1>3, <1>4, <1>5, <1>6
     DEF SitePages, StaffPage, FactorPage, OperationalPage, TaxPage, CatalogPage,
         PoliciesPage, InventoryPage, OperationsPage, ProcurementPage, PrivacyPage,
         SecurityPage, ReadinessPage, OrderWorkspace, RefundWorkspace, CashWorkspace,
         ReceiptWorkspace, RecoveryWorkspace, KitchenPage
<1>8. PICK p \in SitePages : \E c \in p.calls : conduct = Conduct(p, c)
  BY DEF Conducts
<1>. QED BY <1>7, <1>8 DEF Conduct

LEMMA PageStep ==
    ASSUME PageInv, [PageNext]_pageVars
    PROVE  PageInv'
<1>0. /\ stands \in Nat /\ listed \in [version: Nat, visible: BOOLEAN]
      /\ \A c \in Clicks : clicks[c] \in ClickRecords
      /\ \A l \in LoadSlots : loads[l] \in LoadRecords
  BY DEF PageInv, PageShape
<1>1. CASE UNCHANGED pageVars
  BY <1>1 DEF pageVars, PageInv, PageShape, NotAhead, Faithful, Outdated, Renewed
<1>2. ASSUME NEW l \in LoadSlots, LoadAgain(l)
      PROVE  PageInv'
  BY <1>2, LoadBegins DEF LoadAgain
<1>3. ASSUME NEW l \in LoadSlots, AnswerLoad(l)
      PROVE  PageInv'
  <2>1. /\ \A k \in LoadSlots :
              /\ loads'[k].by = loads[k].by
              /\ loads'[k].at = IF k = l THEN "ANSWERED" ELSE loads[k].at
              /\ loads'[k].read = IF k = l THEN stands ELSE loads[k].read
        /\ loads' \in [LoadSlots -> LoadRecords]
        /\ UNCHANGED <<conduct, stands, listed, editing, clicks>>
    BY <1>3 DEF PageInv, PageShape, AnswerLoad, LoadRecords
  <2>2. PageShape' /\ NotAhead' /\ Faithful' /\ Outdated'
    BY <2>1 DEF PageInv, PageShape, NotAhead, Faithful, Outdated
  <2>3. Renewed'
    BY <1>0, <2>1 DEF PageInv, Renewed, Outdated, ClickRecords
  <2>. QED BY <2>1, <2>2, <2>3 DEF PageInv
<1>4. ASSUME NEW l \in LoadSlots, ShowLoad(l)
      PROVE  PageInv'
  BY <1>0, <1>4, LoadEnds DEF ShowLoad, PageInv, NotAhead, LoadRecords
<1>5. ASSUME NEW l \in LoadSlots, FailLoad(l)
      PROVE  PageInv'
  <2>1. listed' \in [version: Nat, visible: BOOLEAN] /\ listed'.version <= stands
    BY <1>0, <1>5 DEF FailLoad, Hidden, PageInv, NotAhead
  <2>. QED BY <1>5, <2>1, LoadEnds DEF FailLoad
<1>6. CASE OpenEditor
  BY <1>0, <1>6 DEF OpenEditor, PageInv, PageShape, NotAhead, Faithful, Outdated, Renewed
<1>7. ASSUME NEW c \in Clicks, Press(c)
      PROVE  PageInv'
  <2>. DEFINE r == [NoClick EXCEPT !.at = "SENT", !.saw = Seen, !.carries = Carries]
  <2>1. /\ clicks' = [clicks EXCEPT ![c] = r] /\ clicks[c].at = "NONE"
        /\ UNCHANGED <<conduct, stands, listed, editing, loads>>
    BY <1>7 DEF Press
  <2>2. /\ Seen \in Nat /\ Carries \in Nat /\ Seen <= stands
        /\ conduct.editor # "FIELDS" => Seen = Carries
    BY <1>0, <1>7, Editors DEF Press, Seen, Carries, PageInv, PageShape, NotAhead
  <2>3. r \in ClickRecords /\ r.at = "SENT" /\ r.saw = Seen /\ r.carries = Carries
    BY <2>2 DEF ClickRecords, NoClick
  <2>4. \A l \in LoadSlots : loads[l].by # c
    BY <2>1 DEF PageInv, Renewed
  <2>. HIDE DEF r
  <2>. QED BY <2>1, <2>2, <2>3, <2>4, ClickMoves
<1>8. ASSUME NEW c \in Clicks, NEW at \in {"TAKEN", "REFUSED", "ADRIFT", "OVER"},
             clicks[c].at \in {"SENT", "ADRIFT", "TAKEN", "REFUSED"},
             clicks' = [clicks EXCEPT ![c] = IF at = "OVER" THEN Over ELSE [@ EXCEPT !.at = at]],
             at = "TAKEN" => stands' = stands + 1,
             at = "REFUSED" /\ conduct.guard # "UNIQUE" /\ conduct.editor # "FIELDS"
                => clicks[c].saw < stands,
             stands' = stands \/ stands' = stands + 1,
             UNCHANGED <<conduct, listed, editing, loads>>
      PROVE  PageInv'
  <2>. DEFINE r == IF at = "OVER" THEN Over ELSE [clicks[c] EXCEPT !.at = at]
  <2>1. /\ r \in ClickRecords /\ r.at = at
        /\ \/ r.saw = clicks[c].saw /\ r.carries = clicks[c].carries
           \/ r.saw = 0 /\ r.carries = 0
    BY <1>0 DEF ClickRecords, Over, NoClick
  <2>2. clicks' = [clicks EXCEPT ![c] = r]
    BY <1>8
  <2>3. \A l \in LoadSlots : loads[l].by # c
    BY <1>8 DEF PageInv, Renewed
  <2>4. r.saw <= stands /\ (conduct.editor # "FIELDS" => r.saw = r.carries)
    BY <1>0, <2>1 DEF PageInv, NotAhead, Faithful
  <2>. HIDE DEF r
  <2>5. /\ r.at = "TAKEN" => r.saw < stands'
        /\ r.at = "REFUSED" /\ conduct.guard # "UNIQUE" /\ conduct.editor # "FIELDS"
              => r.saw < stands'
    <3>1. CASE at = "TAKEN"
      BY <3>1, <1>0, <1>8, <2>1, <2>4 DEF ClickRecords
    <3>2. CASE at = "REFUSED"
      BY <3>2, <1>0, <1>8, <2>1 DEF ClickRecords
    <3>. QED BY <3>1, <3>2, <2>1
  <2>. QED BY <1>8, <2>1, <2>2, <2>3, <2>4, <2>5, ClickMoves
<1>9. ASSUME NEW c \in Clicks, TakeHold(c)
      PROVE  PageInv'
  <2>1. CASE clicks[c].at = "SENT"
    BY <1>8, <1>9, <2>1 DEF TakeHold, AtServer
  <2>2. CASE clicks[c].at # "SENT"
    BY <1>8, <1>9, <2>2 DEF TakeHold, AtServer
  <2>. QED BY <2>1, <2>2
<1>10. ASSUME NEW c \in Clicks, TurnDown(c)
       PROVE  PageInv'
  <2>1. CASE clicks[c].at = "SENT"
    <3>1. conduct.guard # "UNIQUE" => clicks[c].carries # stands
      BY <1>10, Guards DEF TurnDown, IsRefused, IsAccepted, PageInv
    <3>2. conduct.guard # "UNIQUE" /\ conduct.editor # "FIELDS" => clicks[c].saw < stands
      BY <1>0, <3>1 DEF PageInv, NotAhead, Faithful, ClickRecords
    <3>. QED BY <1>8, <1>10, <2>1, <3>2 DEF TurnDown, AtServer
  <2>2. CASE clicks[c].at # "SENT"
    BY <1>8, <1>10, <2>2 DEF TurnDown, AtServer
  <2>. QED BY <2>1, <2>2
<1>11. ASSUME NEW c \in Clicks, HearNothing(c)
       PROVE  PageInv'
  <2>1. CASE clicks[c].at = "SENT"
    BY <1>8, <1>11, <2>1 DEF HearNothing
  <2>2. CASE clicks[c].at # "SENT"
    BY <1>8, <1>11, <2>2 DEF HearNothing
  <2>. QED BY <2>1, <2>2
<1>12. ASSUME NEW c \in Clicks, NEW l \in LoadSlots, HearSuccess(c, l)
       PROVE  PageInv'
  <2>1. clicks[c].saw < stands
    BY <1>12 DEF HearSuccess, PageInv, Outdated
  <2>. QED BY <1>12, <2>1, LoadBegins DEF HearSuccess
<1>13. ASSUME NEW c \in Clicks, NEW l \in LoadSlots, HearRefusal(c, l)
       PROVE  PageInv'
  <2>1. CASE conduct.refused = "RELOADS"
    <3>1. conduct.editor # "FIELDS"
      BY <2>1, FieldsAreKept DEF PageInv
    <3>2. conduct.guard # "UNIQUE" => clicks[c].saw < stands
      BY <1>13, <3>1 DEF HearRefusal, PageInv, Outdated
    <3>. QED BY <1>13, <2>1, <3>2, LoadBegins DEF HearRefusal
  <2>2. CASE conduct.refused # "RELOADS"
    BY <1>8, <1>13, <2>2 DEF HearRefusal
  <2>. QED BY <2>1, <2>2
<1>14. CASE OthersChange
  <2>1. stands' = stands + 1 /\ UNCHANGED <<conduct, listed, editing, loads, clicks>>
    BY <1>14 DEF OthersChange
  <2>2. PageShape' /\ NotAhead'
    BY <1>0, <2>1 DEF PageInv, PageShape, NotAhead, ClickRecords, LoadRecords
  <2>3. Faithful' /\ Outdated' /\ Renewed'
    BY <1>0, <2>1 DEF PageInv, Faithful, Outdated, Renewed, ClickRecords
  <2>. QED BY <2>1, <2>2, <2>3 DEF PageInv
<1>15. ASSUME NEW c \in Clicks, Compare(c)
       PROVE  PageInv'
  <2>. DEFINE r == [clicks[c] EXCEPT !.compared = TRUE]
  <2>1. /\ clicks' = [clicks EXCEPT ![c] = r] /\ clicks[c].at \in {"SENT", "ADRIFT"}
        /\ UNCHANGED <<conduct, stands, listed, editing, loads>>
    BY <1>15 DEF Compare, AtServer
  <2>2. /\ r \in ClickRecords /\ r.at = clicks[c].at
        /\ r.saw = clicks[c].saw /\ r.carries = clicks[c].carries
    BY <1>0 DEF ClickRecords
  <2>3. \A l \in LoadSlots : loads[l].by # c
    BY <2>1 DEF PageInv, Renewed
  <2>4. r.saw <= stands /\ (conduct.editor # "FIELDS" => r.saw = r.carries)
    BY <2>2 DEF PageInv, NotAhead, Faithful
  <2>. HIDE DEF r
  <2>. QED BY <2>1, <2>2, <2>3, <2>4, ClickMoves
<1>. QED
  BY <1>1, <1>2, <1>3, <1>4, <1>5, <1>6, <1>7, <1>9, <1>10, <1>11, <1>12, <1>13, <1>14, <1>15
     DEF PageNext

LEMMA PageStart == PageInit => PageInv
<1>. SUFFICES ASSUME PageInit PROVE PageInv
  OBVIOUS
<1>1. PageShape
  BY PageAssumption DEF PageInit, PageShape, Hidden, NoLoad, NoClick, LoadRecords, ClickRecords
<1>2. NotAhead /\ Faithful /\ Outdated
  BY DEF PageInit, NotAhead, Hidden, NoLoad, NoClick, Faithful, Outdated
<1>3. Renewed
  BY PageAssumption DEF PageInit, Renewed, NoLoad, NoClick
<1>. QED BY <1>1, <1>2, <1>3 DEF PageInit, PageInv

(* The steps in which a click takes effect, or its reload comes on screen.   *)
LEMMA EffectOfClick ==
    ASSUME PageInv, [PageNext]_pageVars, NEW c \in Clicks, TakesEffect(c), Protected
    PROVE  clicks[c].saw = stands
<1>1. stands' # stands /\ clicks'[c] # clicks[c]
  BY DEF TakesEffect
<1>2. PICK d \in Clicks : TakeHold(d)
  BY <1>1 DEF PageNext, pageVars, LoadAgain, AnswerLoad, ShowLoad, FailLoad, EndLoad, Press,
              Compare, TurnDown, HearNothing, HearSuccess, HearRefusal, OpenEditor, OthersChange
<1>3. c = d
  BY <1>1, <1>2 DEF TakeHold, PageInv, PageShape
<1>4. /\ stands \in Nat /\ clicks[c] \in ClickRecords
      /\ conduct.guard \in {"REVISION", "UNIQUE"} /\ conduct.editor # "FIELDS"
  BY Guards DEF Protected, PageInv, PageShape
<1>5. CASE conduct.guard = "REVISION"
  BY <1>2, <1>3, <1>4, <1>5 DEF TakeHold, IsAccepted, PageInv, Faithful
<1>6. CASE conduct.guard = "UNIQUE"
  BY <1>2, <1>3, <1>4, <1>6 DEF TakeHold, IsAccepted, PageInv, NotAhead, ClickRecords
<1>. QED BY <1>4, <1>5, <1>6

LEMMA ReloadOfClick ==
    ASSUME PageInv, [PageNext]_pageVars, NEW c \in Clicks, ReloadShows(c),
           listed'.visible, conduct.guard # "UNIQUE"
    PROVE  listed'.version > clicks[c].saw
<1>1. /\ clicks[c].at = "RELOADING" /\ clicks'[c].at = "OVER" /\ listed' # listed
      /\ clicks \in [Clicks -> ClickRecords]
  BY DEF ReloadShows, PageInv, PageShape
<1>2. PICK l \in LoadSlots : ShowLoad(l) \/ FailLoad(l)
  <2>1. ASSUME NEW l \in LoadSlots, LoadAgain(l) \/ AnswerLoad(l)
        PROVE  FALSE
    BY <1>1, <2>1 DEF LoadAgain, AnswerLoad
  <2>2. ASSUME NEW d \in Clicks, NEW l \in LoadSlots, HearSuccess(d, l) \/ HearRefusal(d, l)
        PROVE  FALSE
    BY <1>1, <2>2 DEF HearSuccess, HearRefusal, ClickRecords, Over, NoClick
  <2>3. ASSUME NEW d \in Clicks,
               Press(d) \/ Compare(d) \/ TakeHold(d) \/ TurnDown(d) \/ HearNothing(d)
        PROVE  FALSE
    BY <1>1, <2>3 DEF Press, Compare, TakeHold, TurnDown, HearNothing
  <2>. QED BY <1>1, <2>1, <2>2, <2>3 DEF PageNext, pageVars, OpenEditor, OthersChange
<1>3. loads[l].by = c
  BY <1>1, <1>2 DEF ShowLoad, FailLoad, EndLoad
<1>4. ShowLoad(l)
  BY <1>1, <1>2 DEF FailLoad, Hidden
<1>. QED BY <1>1, <1>3, <1>4 DEF ShowLoad, PageInv, Renewed

(* A command that takes effect was given by someone who had before them what it      *)
(* takes effect on, but for the tax form, the postings and the three commands of the *)
(* second factor that are compared too early; and what the page shows after its      *)
(* answer is newer than what it was decided on, for all of them (perform and load of *)
(* each page, assertRevision on the server, MfaService).                             *)
THEOREM ClicksAreDecidedOnWhatStands == Spec => DecidedOnWhatStands
<1>. DEFINE Decided ==
         \A c \in Clicks :
             /\ TakesEffect(c) /\ Protected => clicks[c].saw = stands
             /\ ReloadShows(c) /\ listed'.visible /\ conduct.guard # "UNIQUE"
                   => listed'.version > clicks[c].saw
<1>1. ASSUME PageInv, [PageNext]_pageVars
      PROVE  Decided
  BY <1>1, EffectOfClick, ReloadOfClick
<1>2. ASSUME PageInv, [PageNext]_pageVars
      PROVE  [Decided]_pageVars
  BY <1>1, <1>2
<1>. HIDE DEF Decided
<1>3. Spec => [][Decided]_pageVars
  BY <1>2, PageStart, PageStep, PageRuns, PTL
<1>. QED BY <1>3 DEF DecidedOnWhatStands, Decided

(***************************************************************************)
(* The types.  Each part stays within the bounds its type invariant names, *)
(* by what its own invariant says and a little more: what a counter, a     *)
(* revision or a queue has room for.                                       *)
(***************************************************************************)

-----------------------------------------------------------------------------
(* Prices, logins and tax profiles.                                         *)

LEMMA PricingTypes ==
    /\ PricingInit => PricingTypeOK
    /\ PricingTypeOK /\ [PricingNext]_pricingVars => PricingTypeOK'
<1>1. PricingInit => PricingTypeOK
  BY DEF PricingInit, PricingTypeOK
<1>2. ASSUME PricingTypeOK, NEW l \in Lines, NEW amount \in LineAmounts, NEW treatment \in Treatments,
             AddLine(l, amount, treatment)
      PROVE  PricingTypeOK'
  BY <1>2 DEF AddLine, PricingTypeOK
<1>3. ASSUME PricingTypeOK, NEW l \in Lines, RemoveLine(l)
      PROVE  PricingTypeOK'
  BY <1>3 DEF RemoveLine, PricingTypeOK
<1>4. PricingTypeOK /\ UNCHANGED pricingVars => PricingTypeOK'
  BY DEF PricingTypeOK, pricingVars
<1>. QED BY <1>1, <1>2, <1>3, <1>4 DEF PricingNext

(* Counters: what has come to the limit is locked, so it begins anew.        *)
CountersFit ==
    /\ tick \in 1..LastTick
    /\ \A k \in Buckets :
          /\ bucket[k].failures \in 0..Limit(k)
          /\ bucket[k].failures = Limit(k) => bucket[k].until # 0
          /\ bucket[k].since \in 0..LastTick /\ bucket[k].until \in 0..(LastTick + Lockout)

LEMMA NextCounterFits ==
    ASSUME NEW b \in [failures: Nat, since: Nat, until: Nat], NEW at \in 0..LastTick,
           NEW limit \in Nat \ {0}, b.failures \in 0..limit, b.failures = limit => b.until # 0,
           b.since \in 0..LastTick, b.until \in 0..(LastTick + Lockout)
    PROVE  LET n == NextState(b, at, limit)
           IN  /\ n.failures \in 0..limit
               /\ n.failures = limit => n.until # 0
               /\ n.since \in 0..LastTick /\ n.until \in 0..(LastTick + Lockout)
  BY ThrottleAssumption DEF NextState, ThrottleAssumption

LEMMA ThrottleTypes ==
    /\ ThrottleInit => CountersFit
    /\ ThrottleInv /\ CountersFit => ThrottleTypeOK
    /\ ThrottleInv /\ CountersFit /\ [ThrottleNext]_throttleVars => CountersFit'
<1>0. \A k \in Buckets : Limit(k) \in Nat \ {0}
  BY ThrottleAssumption DEF ThrottleAssumption, Limit
<1>1. ThrottleInit => CountersFit
  BY <1>0, ThrottleAssumption DEF ThrottleInit, CountersFit, Empty, ThrottleAssumption
<1>2. ASSUME ThrottleInv, CountersFit
      PROVE  ThrottleTypeOK
  <2>1. \A l \in Logins : login[l] \in [step: {"idle", "started", "checked", "passed", "unlocked"},
                                       at: 0..LastTick, account: Accounts]
    BY <1>2, ThrottleAssumption DEF ThrottleInv, ThrottleShape, CountersFit, ThrottleAssumption
  <2>. QED BY <1>2, <2>1 DEF ThrottleInv, ThrottleShape, CountersFit, ThrottleTypeOK
<1>3. ASSUME ThrottleInv, CountersFit, [ThrottleNext]_throttleVars
      PROVE  CountersFit'
  <2>0. /\ tick \in 1..LastTick /\ tick \in Nat
        /\ \A l \in Logins : login[l].at \in 0..LastTick /\ login[l].account \in Buckets
        /\ \A k \in Buckets : bucket[k] \in [failures: Nat, since: Nat, until: Nat]
    BY <1>3, ThrottleAssumption
       DEF ThrottleInv, ThrottleShape, CountersFit, ThrottleAssumption, Buckets
  <2>1. CASE bucket' = bucket /\ tick' = tick
    BY <1>3, <2>1 DEF CountersFit
  <2>2. CASE TickOn
    BY <1>3, <2>0, <2>2, ThrottleAssumption DEF TickOn, CountersFit, ThrottleAssumption
  <2>3. ASSUME NEW l \in Logins, Fail(l)
        PROVE  CountersFit'
    <3>1. /\ tick' = tick
          /\ \A k \in Buckets : bucket'[k] = bucket[k]
                                \/ bucket'[k] = NextState(bucket[k], login[l].at, Limit(k))
      BY <2>3 DEF Fail
    <3>2. \A k \in Buckets : LET n == NextState(bucket[k], login[l].at, Limit(k))
                             IN  /\ n.failures \in 0..Limit(k)
                                 /\ n.failures = Limit(k) => n.until # 0
                                 /\ n.since \in 0..LastTick /\ n.until \in 0..(LastTick + Lockout)
      <4>. TAKE k \in Buckets
      <4>1. /\ bucket[k].failures \in 0..Limit(k)
            /\ bucket[k].failures = Limit(k) => bucket[k].until # 0
            /\ bucket[k].since \in 0..LastTick /\ bucket[k].until \in 0..(LastTick + Lockout)
        BY <1>3 DEF CountersFit
      <4>2. PICK limit \in Nat \ {0}, at \in 0..LastTick : limit = Limit(k) /\ at = login[l].at
        BY <1>0, <2>0
      <4>3. bucket[k] \in [failures: Nat, since: Nat, until: Nat]
        BY <2>0
      <4>4. LET n == NextState(bucket[k], at, limit)
            IN  /\ n.failures \in 0..limit
                /\ n.failures = limit => n.until # 0
                /\ n.since \in 0..LastTick /\ n.until \in 0..(LastTick + Lockout)
        BY <4>1, <4>2, <4>3, NextCounterFits
      <4>. QED BY <4>2, <4>4
    <3>. QED BY <1>3, <3>1, <3>2 DEF CountersFit
  <2>4. ASSUME NEW l \in Logins, Succeed(l)
        PROVE  CountersFit'
    <3>1. /\ tick' = tick
          /\ \A k \in Buckets :
                bucket'[k] = bucket[k]
                \/ bucket'[k] = [failures |-> 0, since |-> login[l].at, until |-> 0]
      BY <2>0, <2>4 DEF Succeed, ThrottleInv, ThrottleShape
    <3>. QED BY <1>0, <1>3, <2>0, <3>1, ThrottleAssumption DEF CountersFit, ThrottleAssumption
  <2>5. ASSUME NEW l \in Logins,
               (\E a \in Accounts : Start(l, a)) \/ CheckAccount(l) \/ Pass(l) \/ Recheck(l)
        PROVE  bucket' = bucket /\ tick' = tick
    BY <2>5 DEF Start, CheckAccount, Pass, Recheck, Goes
  <2>6. UNCHANGED throttleVars => bucket' = bucket /\ tick' = tick
    BY DEF throttleVars
  <2>. QED BY <1>3, <2>1, <2>2, <2>3, <2>4, <2>5, <2>6 DEF ThrottleNext
<1>. QED BY <1>1, <1>2, <1>3

(* Drafts are edited a bounded number of times, then confirmed, then active. *)
RevisionsFit ==
    /\ instant \in 0..MaxInstant
    /\ \A p \in Profiles :
          /\ page[p].revision <= profile[p].revision
          /\ profile[p].revision <= MaxRevision + 2
          /\ profile[p].status \in {"none", "DRAFT"} => profile[p].revision <= MaxRevision
          /\ profile[p].status = "CONFIRMED" => profile[p].revision <= MaxRevision + 1

LEMMA TaxTypes ==
    /\ TaxInit => RevisionsFit
    /\ TaxInv /\ RevisionsFit => TaxTypeOK
    /\ TaxInv /\ RevisionsFit /\ [TaxNext]_taxVars => RevisionsFit'
<1>0. MaxInstant \in Nat /\ MaxRevision \in Nat \ {0}
  BY TaxAssumption DEF TaxAssumption
<1>1. TaxInit => RevisionsFit
  BY <1>0 DEF TaxInit, RevisionsFit
<1>2. ASSUME TaxInv, RevisionsFit
      PROVE  TaxTypeOK
  <2>1. \A p \in Profiles :
           /\ profile[p] \in [status: {"none", "DRAFT", "CONFIRMED", "ACTIVE"},
                              content: Contents, revision: 0..(MaxRevision + 2)]
           /\ page[p] \in [content: Contents, revision: 0..(MaxRevision + 2)]
    BY <1>0, <1>2 DEF TaxInv, TaxShape, TaxRecords, RevisionsFit
  <2>. QED BY <1>2, <2>1 DEF TaxInv, TaxShape, RevisionsFit, TaxTypeOK
<1>3. ASSUME TaxInv, RevisionsFit, [TaxNext]_taxVars
      PROVE  RevisionsFit'
  <2>0. \A p \in Profiles : /\ profile[p] \in TaxRecords /\ profile[p].revision \in Nat
                            /\ page[p] \in [content: Contents, revision: Nat]
    BY <1>3 DEF TaxInv, TaxShape, TaxRecords
  <2>1. CASE UNCHANGED taxVars
    BY <1>3, <2>1 DEF taxVars, RevisionsFit
  <2>2. CASE Advance
    BY <1>0, <1>3, <2>2 DEF Advance, RevisionsFit
  <2>3. ASSUME NEW p \in Profiles, NEW c \in Contents, CreateProfile(p, c) \/ UpdateProfile(p, c)
        PROVE  RevisionsFit'
    <3>1. CASE CreateProfile(p, c)
      <4>1. /\ profile[p].status = "none" /\ page' = page /\ instant' = instant
            /\ \A q \in Profiles : profile'[q] =
                  IF q = p THEN [status |-> "DRAFT", content |-> c, revision |-> 1] ELSE profile[q]
        BY <1>3, <3>1 DEF CreateProfile, TaxInv, TaxShape
      <4>2. page[p].revision <= 1
        BY <1>3, <2>0, <4>1 DEF TaxInv, ShownOrOlder
      <4>. QED BY <1>0, <1>3, <2>0, <4>1, <4>2 DEF RevisionsFit
    <3>2. CASE UpdateProfile(p, c)
      <4>1. /\ profile[p].status = "DRAFT" /\ profile[p].revision < MaxRevision
            /\ page' = page /\ instant' = instant
            /\ profile' = [profile EXCEPT ![p].content = c, ![p].revision = @ + 1]
        BY <3>2 DEF UpdateProfile
      <4>2. \A q \in Profiles :
               /\ profile'[q].status = profile[q].status
               /\ profile'[q].revision = IF q = p THEN profile[p].revision + 1
                                                  ELSE profile[q].revision
        BY <1>3, <2>0, <4>1 DEF TaxInv, TaxShape, TaxRecords
      <4>3. \A q \in Profiles : /\ page'[q].revision = page[q].revision /\ profile[q].revision \in Nat
                                /\ page[q].revision \in Nat
        BY <2>0, <4>1
      <4>4. instant' \in 0..MaxInstant
        BY <1>3, <4>1 DEF RevisionsFit
      <4>5. ASSUME NEW q \in Profiles
            PROVE  /\ page'[q].revision <= profile'[q].revision
                   /\ profile'[q].revision <= MaxRevision + 2
                   /\ profile'[q].status \in {"none", "DRAFT"} => profile'[q].revision <= MaxRevision
                   /\ profile'[q].status = "CONFIRMED" => profile'[q].revision <= MaxRevision + 1
        <5>1. /\ page[q].revision <= profile[q].revision
              /\ profile[q].revision <= MaxRevision + 2
              /\ profile[q].status \in {"none", "DRAFT"} => profile[q].revision <= MaxRevision
              /\ profile[q].status = "CONFIRMED" => profile[q].revision <= MaxRevision + 1
          BY <1>3 DEF RevisionsFit
        <5>2. profile[p].status = "DRAFT" /\ profile[p].revision < MaxRevision
          BY <4>1
        <5>3. PICK m \in Nat \ {0} : m = MaxRevision
          BY <1>0
        <5>4. CASE q = p
          BY <4>2, <4>3, <5>1, <5>2, <5>3, <5>4
        <5>5. CASE q # p
          BY <4>2, <4>3, <5>1, <5>5
        <5>. QED BY <5>4, <5>5
      <4>. QED BY <4>4, <4>5 DEF RevisionsFit
    <3>. QED BY <2>3, <3>1, <3>2
  <2>4. ASSUME NEW p \in Profiles, ReadProfile(p)
        PROVE  RevisionsFit'
    <3>1. /\ profile' = profile /\ instant' = instant
          /\ \A q \in Profiles : page'[q].revision = IF q = p THEN profile[p].revision
                                                              ELSE page[q].revision
      BY <1>3, <2>0, <2>4 DEF ReadProfile, TaxInv, TaxShape
    <3>. QED BY <1>3, <2>0, <3>1 DEF RevisionsFit
  <2>5. ASSUME NEW p \in Profiles, ConfirmProfile(p) \/ ActivateProfile(p)
        PROVE  RevisionsFit'
    <3>1. PICK s \in {"CONFIRMED", "ACTIVE"} :
             /\ profile[p].status = IF s = "CONFIRMED" THEN "DRAFT" ELSE "CONFIRMED"
             /\ page' = page /\ instant' = instant
             /\ profile' = [profile EXCEPT ![p].status = s, ![p].revision = @ + 1]
      BY <2>5 DEF ConfirmProfile, ActivateProfile
    <3>2. \A q \in Profiles :
             /\ profile'[q].status = IF q = p THEN s ELSE profile[q].status
             /\ profile'[q].revision = IF q = p THEN profile[p].revision + 1
                                                ELSE profile[q].revision
      BY <1>3, <2>0, <3>1 DEF TaxInv, TaxShape, TaxRecords
    <3>3. \A q \in Profiles : /\ page'[q].revision = page[q].revision /\ profile[q].revision \in Nat
                              /\ page[q].revision \in Nat
      BY <2>0, <3>1
    <3>4. instant' \in 0..MaxInstant
      BY <1>3, <2>5 DEF RevisionsFit, ConfirmProfile, ActivateProfile
    <3>5. ASSUME NEW q \in Profiles
          PROVE  /\ page'[q].revision <= profile'[q].revision
                 /\ profile'[q].revision <= MaxRevision + 2
                 /\ profile'[q].status \in {"none", "DRAFT"} => profile'[q].revision <= MaxRevision
                 /\ profile'[q].status = "CONFIRMED" => profile'[q].revision <= MaxRevision + 1
      <4>1. /\ page[q].revision <= profile[q].revision
            /\ profile[q].revision <= MaxRevision + 2
            /\ profile[q].status \in {"none", "DRAFT"} => profile[q].revision <= MaxRevision
            /\ profile[q].status = "CONFIRMED" => profile[q].revision <= MaxRevision + 1
        BY <1>3 DEF RevisionsFit
      <4>2. profile[p].status = IF s = "CONFIRMED" THEN "DRAFT" ELSE "CONFIRMED"
        BY <3>1
      <4>3. PICK m \in Nat \ {0} : m = MaxRevision
        BY <1>0
      <4>4. CASE q = p
        BY <3>2, <3>3, <4>1, <4>2, <4>3, <4>4
      <4>5. CASE q # p
        BY <3>2, <3>3, <4>1, <4>5
      <4>. QED BY <4>4, <4>5
    <3>. QED BY <3>4, <3>5 DEF RevisionsFit
  <2>. QED BY <1>3, <2>1, <2>2, <2>3, <2>4, <2>5 DEF TaxNext
<1>. QED BY <1>1, <1>2, <1>3

-----------------------------------------------------------------------------
(* Access, the menu and alerts.                                             *)

(* Staff always have a role, and nothing is of an era to come.               *)
AccessFits ==
    /\ account \in {"ACTIVE", "DISABLED"}
    /\ roles \subseteq Roles /\ roles # {}
    /\ changing \subseteq Sessions
    /\ era \in 0..MaxEra
    /\ \A s \in Sessions : session[s].era <= era

LEMMA AccessTypes ==
    /\ AccessInit => AccessFits
    /\ AccessInv /\ AccessFits => AccessTypeOK
    /\ AccessInv /\ AccessFits /\ [AccessNext]_accessVars => AccessFits'
<1>0. MaxEra \in Nat
  BY AccessAssumption DEF AccessAssumption
<1>1. AccessInit => AccessFits
  BY <1>0 DEF AccessInit, AccessFits
<1>2. ASSUME AccessInv, AccessFits
      PROVE  AccessTypeOK
  <2>1. \A s \in Sessions :
           session[s] \in [status: {"none", "ACTIVE", "REVOKED"}, expired: BOOLEAN,
                           device: Devices \cup {NoDevice}, era: 0..MaxEra]
    BY <1>0, <1>2 DEF AccessInv, AccessShape, SessionRecords, AccessFits
  <2>. QED BY <1>2, <2>1 DEF AccessInv, AccessShape, ArrivalRecords, AccessFits, AccessTypeOK
<1>3. ASSUME AccessInv, AccessFits, [AccessNext]_accessVars
      PROVE  AccessFits'
  <2>0. era \in 0..MaxEra /\ \A s \in Sessions : session[s] \in SessionRecords /\ session[s].era <= era
    BY <1>3 DEF AccessInv, AccessShape, AccessFits
  <2>1. ASSUME NEW S, session' = Revoked(S), era' = era \/ Withdraws
        PROVE  era' \in 0..MaxEra /\ \A s \in Sessions : session'[s].era <= era'
    <3>1. \A s \in Sessions : session'[s].era = session[s].era /\ session[s].era \in Nat
      <4>. TAKE s \in Sessions
      <4>1. session[s] \in SessionRecords
        BY <2>0
      <4>2. session'[s] = session[s] \/ session'[s] = [session[s] EXCEPT !.status = "REVOKED"]
        BY <2>1 DEF Revoked
      <4>. QED BY <4>1, <4>2 DEF SessionRecords
    <3>2. era' \in 0..MaxEra /\ era <= era'
      BY <1>0, <2>0, <2>1 DEF Withdraws
    <3>. QED BY <1>0, <2>0, <3>1, <3>2
  <2>2. CASE DisableStaff
    BY <1>3, <2>1, <2>2 DEF DisableStaff, AccessFits
  <2>3. CASE ReactivateStaff
    BY <1>3, <2>1, <2>3 DEF ReactivateStaff, AccessFits
  <2>4. ASSUME NEW r \in Roles, AssignStaffRole(r)
        PROVE  AccessFits'
    BY <1>3, <2>4 DEF AssignStaffRole, AccessFits
  <2>5. ASSUME NEW r \in Roles, RemoveStaffRole(r)
        PROVE  AccessFits'
    <3>1. roles' # {}
      <4>1. SUFFICES ASSUME roles = {r} PROVE FALSE
        BY <2>5 DEF RemoveStaffRole
      <4>2. Cardinality({r}) = 1
        BY FS_Singleton
      <4>. QED BY <2>5, <4>1, <4>2 DEF RemoveStaffRole
    <3>. QED BY <1>3, <2>1, <2>5, <3>1 DEF RemoveStaffRole, AccessFits
  <2>6. ASSUME NEW d \in Devices, CreateDevice(d) \/ ActivateDevice(d)
        PROVE  AccessFits'
    BY <1>3, <2>6 DEF CreateDevice, ActivateDevice, AccessFits
  <2>7. ASSUME NEW d \in Devices, RevokeDevice(d)
        PROVE  AccessFits'
    BY <1>3, <2>1, <2>7 DEF RevokeDevice, AccessFits
  <2>8. ASSUME NEW a \in Arrivals,
               (\E d \in Devices : CheckDevice(a, d)) \/ CheckUser(a) \/ Reject(a)
        PROVE  AccessFits'
    BY <1>3, <2>8 DEF CheckDevice, CheckUser, Reject, AccessFits
  <2>9. ASSUME NEW a \in Arrivals, NEW s \in Sessions, OpenSession(a, s)
        PROVE  AccessFits'
    <3>1. \A t \in Sessions : session'[t].era = IF t = s THEN era ELSE session[t].era
      BY <1>3, <2>9 DEF OpenSession, AccessInv, AccessShape
    <3>2. /\ account' = account /\ roles' = roles /\ changing' = changing /\ era' = era
      BY <2>9 DEF OpenSession
    <3>. QED BY <1>0, <1>3, <2>0, <3>1, <3>2 DEF AccessFits
  <2>10. ASSUME NEW s \in Sessions, Expire(s)
         PROVE  AccessFits'
    <3>1. \A t \in Sessions : session'[t].era = session[t].era
      BY <1>3, <2>0, <2>10 DEF Expire, AccessInv, AccessShape, SessionRecords
    <3>2. /\ account' = account /\ roles' = roles /\ changing' = changing /\ era' = era
      BY <2>10 DEF Expire
    <3>. QED BY <1>0, <1>3, <2>0, <3>1, <3>2 DEF AccessFits
  <2>11. ASSUME NEW s \in Sessions, Logout(s) \/ RevokeSession(s) \/ ChangePassword(s)
         PROVE  AccessFits'
    BY <1>3, <2>1, <2>11 DEF Logout, RevokeSession, ChangePassword, AccessFits
  <2>12. ASSUME NEW s \in Sessions, AskForPassword(s)
         PROVE  AccessFits'
    BY <1>3, <2>12 DEF AskForPassword, AccessFits
  <2>13. CASE UNCHANGED accessVars
    BY <1>3, <2>13 DEF accessVars, AccessFits
  <2>. QED BY <1>3, <2>2, <2>3, <2>4, <2>5, <2>6, <2>7, <2>8, <2>9, <2>10, <2>11, <2>12, <2>13
           DEF AccessNext
<1>. QED BY <1>1, <1>2, <1>3

(* Prices begin by the end of the clock and end after they begin.            *)
PriceFits(p) == p.from \in 0..LastClock /\ p.to \in (p.from + 1)..Forever
MenuFits ==
    /\ clock \in 0..LastClock
    /\ stations \subseteq Stations
    /\ variant \in [Variants -> States]
    /\ \A t \in Targets : \A p \in prices[t] : PriceFits(p)

LEMMA MenuTypes ==
    /\ MenuInit => MenuFits
    /\ MenuInv /\ MenuFits => MenuTypeOK
    /\ MenuInv /\ MenuFits /\ [MenuNext]_menuVars => MenuFits'
<1>0. LastClock \in Nat /\ Forever = LastClock + 2
  BY MenuAssumption DEF MenuAssumption, Forever
<1>1. MenuInit => MenuFits
  BY <1>0 DEF MenuInit, MenuFits, States
<1>2. MenuInv /\ MenuFits => MenuTypeOK
  BY DEF MenuInv, MenuFits, PriceFits, PriceRows, MenuTypeOK
<1>3. ASSUME MenuInv, MenuFits, [MenuNext]_menuVars
      PROVE  MenuFits'
  <2>0. clock \in 0..LastClock /\ \A t \in Targets : prices[t] \subseteq PriceRows
    BY <1>3 DEF MenuInv, MenuFits
  <2>1. CASE MenuTick
    BY <1>0, <1>3, <2>1 DEF MenuTick, MenuFits
  <2>2. CASE \/ ActivateMenuItem \/ DeactivateMenuItem \/ UNCHANGED menuVars
             \/ \E c \in TaxClasses : CreateTaxClass(c) \/ ActivateTaxClass(c)
             \/ \E s \in Stations \cup {None}, c \in TaxClasses \cup {None} :
                   CreateMenuItem(s, c) \/ UpdateMenuItem(s, c)
    <3>1. clock' = clock /\ stations' = stations /\ variant' = variant /\ prices' = prices
      BY <2>2 DEF ActivateMenuItem, DeactivateMenuItem, menuVars, CreateTaxClass, ActivateTaxClass,
                  CreateMenuItem, UpdateMenuItem
    <3>. QED BY <1>3, <3>1 DEF MenuFits
  <2>3. ASSUME NEW s \in Stations, CreateStation(s)
        PROVE  MenuFits'
    BY <1>3, <2>3 DEF CreateStation, MenuFits
  <2>4. ASSUME NEW v \in Variants, CreateVariant(v) \/ ActivateVariant(v)
        PROVE  MenuFits'
    BY <1>3, <2>4 DEF CreateVariant, ActivateVariant, MenuFits, States
  <2>5. ASSUME NEW t \in Targets, NEW a \in Amounts, NEW from \in 0..LastClock,
               NEW to \in 1..(LastClock + 1) \cup {Forever}, from < to, CreatePrice(t, a, from, to)
        PROVE  MenuFits'
    <3>. DEFINE p == [amount |-> a, from |-> from, to |-> to]
    <3>1. PriceFits(p)
      BY <1>0, <2>5 DEF PriceFits
    <3>2. \A u \in Targets : prices'[u] = IF u = t THEN prices[t] \cup {p} ELSE prices[u]
      BY <1>3, <2>5 DEF CreatePrice, MenuInv
    <3>3. clock' = clock /\ stations' = stations /\ variant' = variant
      BY <2>5 DEF CreatePrice
    <3>. HIDE DEF p
    <3>. QED BY <1>3, <3>1, <3>2, <3>3 DEF MenuFits
  <2>6. ASSUME NEW s \in Stations \cup {None}, NEW c \in TaxClasses \cup {None},
               NEW rows \in Files, Import(rows, s, c)
        PROVE  MenuFits'
    <3>1. PICK D \in (SUBSET Targets) \ {{}} : rows \in [D -> FileRows]
      BY DEF Files
    <3>2. variant' \in [Variants -> States]
      BY <1>3, <2>6 DEF Import, MenuFits, Activity, States
    <3>3. clock' = clock /\ stations' = stations
      BY <2>6 DEF Import
    <3>4. ASSUME NEW t \in D, NEW p \in Repriced(t, rows[t].price)
          PROVE  PriceFits(p)
      <4>1. p.from < p.to
        BY <2>6, <3>1, <3>4 DEF Import
      <4>2. t \in Targets /\ \A q \in prices[t] : q \in PriceRows /\ PriceFits(q)
        BY <1>3, <2>0, <3>1 DEF MenuFits
      <4>3. CASE p \in prices[t]
        BY <4>2, <4>3
      <4>4. ASSUME NEW q \in prices[t], p = [q EXCEPT !.to = clock]
            PROVE  PriceFits(p)
        <5>1. q \in [amount: Amounts, from: Nat, to: Nat] /\ q.from \in 0..LastClock
          BY <4>2, <4>4 DEF PriceFits, PriceRows
        <5>2. p.from = q.from /\ p.to = clock
          BY <4>4, <5>1
        <5>. QED BY <1>0, <2>0, <4>1, <5>1, <5>2 DEF PriceFits
      <4>5. CASE p = [amount |-> rows[t].price, from |-> clock, to |-> Forever]
        BY <1>0, <2>0, <4>5 DEF PriceFits
      <4>. QED BY <3>4, <4>3, <4>4, <4>5 DEF Repriced, EffectiveAt
    <3>5. \A t \in Targets : \A p \in prices'[t] : PriceFits(p)
      BY <1>3, <2>6, <3>1, <3>4 DEF Import, MenuFits
    <3>. QED BY <1>3, <3>2, <3>3, <3>5 DEF MenuFits
  <2>. QED BY <1>3, <2>1, <2>2, <2>3, <2>4, <2>5, <2>6 DEF MenuNext
<1>. QED BY <1>1, <1>2, <1>3

(* The alert of the gauge, and that there are two.                           *)
GaugeFits ==
    /\ unresolved \in 0..MaxUnresolved
    /\ alert = [k \in {"events", "sync"} |-> alert[k]]
    /\ alert["sync"] \in [status: {"none", "OPEN", "ACKNOWLEDGED", "RESOLVED"},
                          count: 0..MaxUnresolved, last: Moments]

LEMMA AlertTypes ==
    /\ AlertInit => GaugeFits
    /\ AlertInv /\ GaugeFits => AlertTypeOK
    /\ AlertInv /\ GaugeFits /\ [AlertNext]_alertVars => GaugeFits'
<1>0. MaxUnresolved \in Nat /\ LastMoment \in Nat /\ IsFiniteSet(Happenings)
  BY AlertAssumption DEF AlertAssumption
<1>1. AlertInit => GaugeFits
  BY <1>0 DEF AlertInit, GaugeFits, NoAlert, Moments
<1>2. ASSUME AlertInv, GaugeFits
      PROVE  AlertTypeOK
  <2>1. PICK n \in Nat : n = Cardinality(Happenings)
    BY <1>0, FS_CardinalityType
  <2>2. alert["events"].count \in Nat /\ alert["events"].count <= n
    <3>1. Counted \subseteq Happenings
      BY DEF Counted
    <3>2. IsFiniteSet(Counted) /\ Cardinality(Counted) <= n
      BY <1>0, <2>1, <3>1, FS_Subset
    <3>3. Cardinality(Counted) \in Nat
      BY <3>2, FS_CardinalityType
    <3>. QED BY <1>2, <3>2, <3>3 DEF AlertInv
  <2>3. \A k \in {"events", "sync"} :
           alert[k] \in [status: {"none", "OPEN", "ACKNOWLEDGED", "RESOLVED"},
                         count: 0..(n + MaxUnresolved), last: Moments]
    BY <1>0, <1>2, <2>2 DEF AlertInv, GaugeFits
  <2>. QED BY <1>2, <2>1, <2>3 DEF AlertInv, GaugeFits, AlertTypeOK
<1>3. ASSUME AlertInv, GaugeFits, [AlertNext]_alertVars
      PROVE  GaugeFits'
  <2>1. CASE UNCHANGED alertVars \/ (\E e \in Happenings, t \in Moments : RecordHappening(e, t))
    BY <1>3, <2>1 DEF alertVars, RecordHappening, GaugeFits
  <2>2. CASE SyncConflicts \/ SyncIsResolved
    BY <1>0, <1>3, <2>2 DEF SyncConflicts, SyncIsResolved, GaugeFits
  <2>3. ASSUME NEW from \in Moments, NEW to \in Moments, Evaluate(from, to)
        PROVE  GaugeFits'
    <3>. DEFINE a == alert["sync"]
    <3>1. /\ a \in [status: {"none", "OPEN", "ACKNOWLEDGED", "RESOLVED"},
                    count: 0..MaxUnresolved, last: Moments]
          /\ unresolved \in 0..MaxUnresolved /\ unresolved' = unresolved
      BY <1>3, <2>3 DEF GaugeFits, Evaluate
    <3>2. Max({a.count, unresolved}) \in 0..MaxUnresolved
      <4>1. PICK x, y \in 0..MaxUnresolved : x = a.count /\ y = unresolved
        BY <3>1
      <4>2. \E m \in {x, y} : \A z \in {x, y} : m >= z
        BY <1>0
      <4>3. Max({x, y}) \in {x, y}
        BY <4>2 DEF Max
      <4>. QED BY <4>1, <4>3
    <3>3. Max({a.last, to}) \in Moments
      <4>1. PICK x, y \in Moments : x = a.last /\ y = to
        BY <3>1
      <4>2. \E m \in {x, y} : \A z \in {x, y} : m >= z
        BY <1>0 DEF Moments
      <4>3. Max({x, y}) \in {x, y}
        BY <4>2 DEF Max
      <4>. QED BY <4>1, <4>3
    <3>4. alert'["sync"] = SyncAlert(to) /\ alert' = [k \in {"events", "sync"} |-> alert'[k]]
      BY <2>3 DEF Evaluate
    <3>5. SyncAlert(to) \in [status: {"none", "OPEN", "ACKNOWLEDGED", "RESOLVED"},
                             count: 0..MaxUnresolved, last: Moments]
      <4>1. SyncAlert(to) = IF unresolved = 0 THEN a
                            ELSE [status |-> Reopened(a.status), count |-> Max({a.count, unresolved}),
                                  last |-> Max({a.last, to})]
        BY DEF SyncAlert
      <4>2. Reopened(a.status) \in {"none", "OPEN", "ACKNOWLEDGED", "RESOLVED"}
        BY <3>1 DEF Reopened
      <4>. HIDE DEF a
      <4>. QED BY <3>1, <3>2, <3>3, <4>1, <4>2
    <3>. QED BY <3>1, <3>4, <3>5 DEF GaugeFits
  <2>4. ASSUME NEW k \in {"events", "sync"}, AcknowledgeAlert(k) \/ ResolveAlert(k)
        PROVE  GaugeFits'
    BY <1>3, <2>4 DEF AcknowledgeAlert, ResolveAlert, GaugeFits
  <2>. QED BY <1>3, <2>1, <2>2, <2>3, <2>4 DEF AlertNext
<1>. QED BY <1>1, <1>2, <1>3

-----------------------------------------------------------------------------
(* Availability and the audit chain.                                        *)

(* A version is the number of a rule drawn up, in turn.                      *)
Drawn == {p \in Proposals : rules[p].status # "NONE"}
VersionsFit ==
    /\ \A p \in Proposals : rules[p].version <= Cardinality(Drawn)
    /\ records \in [Sellables -> Seq(Records)] /\ onMenu \in BOOLEAN

LEMMA AvailabilityTypes ==
    /\ AvailabilityInit => VersionsFit
    /\ AvailabilityInv /\ VersionsFit => AvailabilityTypeOK
    /\ AvailabilityInv /\ VersionsFit /\ [AvailabilityNext]_availabilityVars => VersionsFit'
<1>0. IsFiniteSet(Proposals) /\ IsFiniteSet(Drawn) /\ Cardinality(Drawn) \in Nat
      /\ Cardinality(Proposals) \in Nat /\ Cardinality(Drawn) <= Cardinality(Proposals)
  <2>1. IsFiniteSet(Proposals) /\ Drawn \subseteq Proposals
    BY AvailabilityAssumption DEF AvailabilityAssumption, Drawn
  <2>. QED BY <2>1, FS_Subset, FS_CardinalityType
<1>1. AvailabilityInit => VersionsFit
  <2>. SUFFICES ASSUME AvailabilityInit PROVE VersionsFit
    OBVIOUS
  <2>1. \A p \in Proposals : rules[p].version = 0
    BY DEF AvailabilityInit, NoRules
  <2>. QED BY <1>0, <2>1 DEF AvailabilityInit, VersionsFit
<1>2. ASSUME AvailabilityInv, VersionsFit
      PROVE  AvailabilityTypeOK
  <2>1. \A p \in Proposals :
           rules[p] \in [status: {"NONE", "DRAFT", "CONFIRMED", "ACTIVE", "CANCELLED"},
                         version: 0..Cardinality(Proposals)]
    BY <1>0, <1>2 DEF AvailabilityInv, VersionsFit
  <2>. QED BY <1>2, <2>1 DEF AvailabilityInv, VersionsFit, AvailabilityTypeOK
<1>3. ASSUME AvailabilityInv, VersionsFit, [AvailabilityNext]_availabilityVars
      PROVE  VersionsFit'
  <2>0. \A p \in Proposals : rules[p] \in [status: {"NONE", "DRAFT", "CONFIRMED", "ACTIVE", "CANCELLED"},
                                           version: Nat]
    BY <1>3 DEF AvailabilityInv
  <2>1. CASE rules' = rules /\ onMenu' = onMenu /\ records' = records
    BY <1>3, <2>1 DEF VersionsFit, Drawn
  <2>2. ASSUME NEW p \in Proposals, CreateRule(p)
        PROVE  VersionsFit'
    <3>. DEFINE V == {rules[o].version : o \in Proposals}
    <3>1. PICK m \in Nat : m = Cardinality(Drawn)
      BY <1>0
    <3>2. V # {} /\ \A x \in V : x \in Nat /\ x <= m
      BY <1>3, <2>0, <3>1 DEF VersionsFit
    <3>3. IsFiniteSet(V)
      <4>. DEFINE f == [o \in Proposals |-> rules[o].version]
      <4>1. IsFiniteSet({f[o] : o \in Proposals}) /\ V = {f[o] : o \in Proposals}
        BY <1>0, ImageIsFinite
      <4>. QED BY <4>1
    <3>4. Max(V) \in V
      <4>. HIDE DEF V
      <4>. QED BY <3>2, <3>3, MaxIs
    <3>. HIDE DEF V
    <3>5. PICK n \in Nat : n = 1 + Max(V) /\ n <= m + 1
      BY <3>2, <3>4
    <3>6. /\ rules' = [rules EXCEPT ![p] = [status |-> "DRAFT", version |-> n]]
          /\ rules[p].status = "NONE" /\ records' = records /\ onMenu' = onMenu
      BY <2>2, <3>5 DEF CreateRule, V
    <3>7. \A o \in Proposals : rules'[o] = IF o = p THEN [status |-> "DRAFT", version |-> n] ELSE rules[o]
      BY <1>3, <3>6 DEF AvailabilityInv
    <3>8. Drawn' = Drawn \cup {p} /\ p \notin Drawn
      BY <3>6, <3>7 DEF Drawn
    <3>9. Cardinality(Drawn') = m + 1
      BY <1>0, <3>1, <3>8, FS_AddElement
    <3>10. \A o \in Proposals : rules'[o].version <= m + 1
      <4>1. \A o \in Proposals : rules[o].version \in V
        BY DEF V
      <4>. QED BY <3>2, <3>5, <3>7, <4>1
    <3>. QED BY <1>3, <3>6, <3>9, <3>10 DEF VersionsFit
  <2>3. ASSUME NEW p \in Proposals, ConfirmRule(p) \/ ActivateRule(p) \/ CancelRule(p)
        PROVE  VersionsFit'
    <3>1. PICK s \in {"CONFIRMED", "ACTIVE", "CANCELLED"} :
             rules[p].status # "NONE" /\ SetStatus(p, s)
      BY <2>3 DEF ConfirmRule, ActivateRule, CancelRule
    <3>2. \A o \in Proposals : /\ rules'[o].version = rules[o].version
                               /\ rules'[o].status = IF o = p THEN s ELSE rules[o].status
      BY <1>3, <2>0, <3>1 DEF SetStatus, AvailabilityInv
    <3>3. Drawn' = Drawn
      BY <3>1, <3>2 DEF Drawn
    <3>. QED BY <1>3, <3>1, <3>2, <3>3 DEF VersionsFit, SetStatus
  <2>4. CASE SwitchOnMenu
    BY <1>3, <2>4 DEF SwitchOnMenu, VersionsFit, Drawn
  <2>5. ASSUME NEW t \in Sellables, NEW e \in Records, NEW expected \in 0..MostRecords,
               RecordManual(t, e, expected)
        PROVE  VersionsFit'
    <3>1. rules' = rules /\ onMenu' = onMenu /\ records' \in [Sellables -> Seq(Records)]
      <4>. HIDE DEF Sellables, Records
      <4>1. records \in [Sellables -> Seq(Records)]
        BY <1>3 DEF VersionsFit
      <4>2. Append(records[t], e) \in Seq(Records)
        BY <4>1
      <4>. QED BY <2>5, <4>1, <4>2 DEF RecordManual
    <3>. QED BY <1>3, <3>1 DEF VersionsFit, Drawn
  <2>6. ASSUME NEW r \in RecipeBook, ActivateRecipe(r)
        PROVE  VersionsFit'
    BY <2>1, <2>6 DEF ActivateRecipe
  <2>7. CASE UNCHANGED availabilityVars
    BY <2>1, <2>7 DEF availabilityVars
  <2>. QED BY <1>3, <2>2, <2>3, <2>4, <2>5, <2>6, <2>7 DEF AvailabilityNext
<1>. QED BY <1>1, <1>2, <1>3

(* The chain is as long as it may be, and a verdict is one of four.          *)
ChainFits ==
    /\ Len(batches) <= MaxBatches
    /\ verdict.status \in {"NONE", "EMPTY", "VALID", "PARTIAL", "INVALID"}

LEMMA AuditTypes ==
    /\ AuditInit => ChainFits
    /\ ChainInv /\ ChainFits => AuditTypeOK
    /\ ChainInv /\ ChainFits /\ [AuditNext]_auditVars => ChainFits'
<1>1. AuditInit => ChainFits
  BY AuditAssumption DEF AuditInit, ChainFits, NoVerdict, AuditAssumption
<1>2. ChainInv /\ ChainFits => AuditTypeOK
  BY DEF ChainInv, ChainKept, AuditShape, AuditRows, ChainFits, AuditTypeOK
<1>3. ASSUME ChainInv, ChainFits, [AuditNext]_auditVars
      PROVE  ChainFits'
  <2>1. CASE UNCHANGED auditVars
    BY <1>3, <2>1 DEF auditVars, ChainFits
  <2>2. CASE Tick \/ \E e \in Events : \/ Begin(e) \/ Commit(e) \/ RollBack(e)
                                       \/ Damage(e, "change") \/ Damage(e, "lose")
    <3>1. batches' = batches /\ verdict' = NoVerdict
      BY <2>2 DEF Tick, Begin, Commit, RollBack, Damage
    <3>. QED BY <1>3, <3>1 DEF ChainFits, NoVerdict
  <2>3. ASSUME NEW own \in Events, NEW through \in 0..MaxTime, NEW limit \in Limits,
               CreateBatch(own, through, limit)
        PROVE  ChainFits'
    <3>1. PICK b : batches' = Append(batches, b)
      BY <2>3 DEF CreateBatch
    <3>2. PICK S : batches \in Seq(S)
      BY <1>3 DEF ChainInv, ChainKept, AuditShape
    <3>3. batches \in Seq(S \cup {b})
      BY <3>2
    <3>4. Len(batches') = Len(batches) + 1 /\ Len(batches) \in Nat
      BY <3>1, <3>3
    <3>5. Len(batches) < MaxBatches /\ verdict' = NoVerdict
      BY <2>3 DEF CreateBatch
    <3>. QED BY <3>4, <3>5, AuditAssumption DEF ChainFits, NoVerdict, AuditAssumption
  <2>4. ASSUME NEW own \in Events, NEW from \in 1..(MaxBatches + 1), NEW limit \in Limits,
               Verify(own, from, limit)
        PROVE  ChainFits'
    <3>1. batches' = batches /\ verdict'.status \in {"EMPTY", "VALID", "PARTIAL", "INVALID"}
      BY <2>4 DEF Verify
    <3>. QED BY <1>3, <3>1 DEF ChainFits
  <2>. QED BY <1>3, <2>1, <2>2, <2>3, <2>4 DEF AuditNext
<1>. QED BY <1>1, <1>2, <1>3

-----------------------------------------------------------------------------
(* The order of a till: no tender is taken for more than what is on it, and  *)
(* no edit is queued that the server's revisions have no room for.          *)

(* What is due, and the most it can be.                                     *)
LEMMA DueIsSum == \A o : Due(o) = SumFunctionOnSet(o.lines, LineIds)
  BY Zenon DEF Due, MapThenSumSet, SumFunctionOnSet, FoldFunctionOnSet, MapThenFoldSet

Ceiling == MostUnits * Cardinality(LineIds)

LEMMA DueIsBounded ==
    ASSUME NEW o \in OrderRecords, \A l \in LineIds : o.lines[l] <= MostUnits
    PROVE  Due(o) \in Int /\ Due(o) <= Ceiling /\ Ceiling \in Nat
<1>. DEFINE ones == [l \in LineIds |-> 1]
            most == [l \in LineIds |-> MostUnits]
<1>1. IsFiniteSet(LineIds) /\ MostUnits \in Nat /\ Cardinality(LineIds) \in Nat
  BY RuntimeAssumption, FS_CardinalityType DEF RuntimeAssumption
<1>2. o.lines \in [LineIds -> Nat]
  BY DEF OrderRecords
<1>3. \A l \in LineIds : ones[l] = 1 /\ most[l] = MostUnits
  OBVIOUS
<1>. HIDE DEF ones, most
<1>4. SumFunctionOnSet(ones, LineIds) = Cardinality(LineIds)
  BY <1>1, <1>3, SumOnes
<1>5. SumFunctionOnSet(most, LineIds) = MostUnits * SumFunctionOnSet(ones, LineIds)
  <2>1. MostUnits \in Int /\ \A l \in LineIds : ones[l] \in Int /\ most[l] = MostUnits * ones[l]
    BY <1>1, <1>3
  <2>. QED BY <2>1, <1>1, SumTimes
<1>6. SumFunctionOnSet(o.lines, LineIds) <= SumFunctionOnSet(most, LineIds)
  <2>1. PICK f : f = o.lines
    OBVIOUS
  <2>2. \A l \in LineIds : f[l] \in Int /\ most[l] \in Int /\ f[l] <= most[l]
    BY <2>1, <1>1, <1>2, <1>3
  <2>3. SumFunctionOnSet(f, LineIds) <= SumFunctionOnSet(most, LineIds)
    BY <2>2, <1>1, SumMonotone
  <2>. QED BY <2>1, <2>3
<1>7. SumFunctionOnSet(o.lines, LineIds) \in Int
  <2>1. PICK f : f = o.lines
    OBVIOUS
  <2>2. \A l \in LineIds : f[l] \in Int
    BY <2>1, <1>2
  <2>3. SumFunctionOnSet(f, LineIds) \in Int
    BY <2>2, <1>1, SumType
  <2>. QED BY <2>1, <2>3
<1>8. MostUnits * Cardinality(LineIds) \in Nat
  BY <1>1
<1>9. SumFunctionOnSet(most, LineIds) = MostUnits * Cardinality(LineIds)
  BY <1>4, <1>5
<1>10. Due(o) = SumFunctionOnSet(o.lines, LineIds)
  BY DueIsSum
<1>11. Due(o) \in Int /\ Due(o) <= MostUnits * Cardinality(LineIds)
  BY <1>6, <1>7, <1>9, <1>10
<1>. QED BY <1>8, <1>11 DEF Ceiling

(* What is within the bounds of the model, which the guards of Perform and  *)
(* Foreign keep, and of Ceiling, which the tenders keep.                     *)
Modest(o) ==
    /\ o.revision <= LastRevision /\ o.paid <= Ceiling
    /\ \A l \in LineIds : o.lines[l] <= MostUnits
ModestCommand(c) ==
    /\ c.units <= MostUnits
    /\ c.type = "CREATE" => LastRevision >= 1
    /\ c.type \in Edited => c.revision < LastRevision
OrdersFit ==
    /\ \A o \in Displayed \cup {server} : Modest(o)
    /\ \A n \in DOMAIN queue : ModestCommand(queue[n])
    /\ Len(queue) <= QueueLength

(* An accepted command leaves an order within them, but for its revision.   *)
LEMMA OutcomeIsModest ==
    ASSUME NEW o \in OrderRecords, NEW c \in CommandRecords, Sensible(c), Modest(o),
           c.units <= MostUnits, Accepts(o, c),
           Outcome(o, c).revision <= LastRevision
    PROVE  Modest(Outcome(o, c))
<1>1. PICK p : p = Outcome(o, c)
  OBVIOUS
<1>2. /\ p.paid = (IF c.type = "PAY" THEN o.paid + c.units ELSE o.paid)
      /\ p.lines = IF c.type \in {"ADD", "REPLACE"} THEN [o.lines EXCEPT ![c.line] = c.units]
                   ELSE IF c.type = "REMOVE" THEN [o.lines EXCEPT ![c.line] = 0] ELSE o.lines
  BY <1>1, OutcomeSo
<1>3. /\ o.lines \in [LineIds -> Nat] /\ MostUnits \in Nat /\ c.units \in Nat
      /\ \A l \in LineIds : o.lines[l] <= MostUnits
  BY RuntimeAssumption DEF RuntimeAssumption, OrderRecords, CommandRecords, Modest
<1>4. \A l \in LineIds : p.lines[l] <= MostUnits
  BY <1>2, <1>3
<1>5. p.paid <= Ceiling
  <2>1. CASE c.type = "PAY"
    <3>1. o.paid + c.units <= Due(o)
      BY <2>1 DEF Accepts, Edits
    <3>2. Due(o) \in Int /\ Due(o) <= Ceiling /\ Ceiling \in Nat
      BY <1>3, DueIsBounded
    <3>3. o.paid \in Nat
      BY DEF OrderRecords
    <3>. QED BY <1>2, <1>3, <2>1, <3>1, <3>2, <3>3
  <2>2. CASE c.type # "PAY"
    BY <1>2, <2>2 DEF Modest
  <2>. QED BY <2>1, <2>2
<1>. QED BY <1>1, <1>4, <1>5 DEF Modest

(* What a page puts together is within them.                                *)
LEMMA EnqueuedFits ==
    ASSUME RuntimeInv, OrdersFit, NEW c, NEW next, Enqueued(c, next)
    PROVE  OrdersFit'
<1>0. /\ c \in CommandRecords /\ Sensible(c) /\ c.units <= MostUnits
      /\ next.revision <= LastRevision /\ Len(queue) < QueueLength
      /\ queue' = Append(queue, c) /\ action' = next
      /\ UNCHANGED <<server, document, working, shown, refresh>>
  BY RuntimeAssumption DEF Enqueued, Perform, RuntimeAssumption
<1>1. shown \in OrderRecords /\ Modest(shown) /\ queue \in Seq(CommandRecords)
  BY DEF RuntimeInv, RuntimeShape, AreSensible, Displayed, OrdersFit
<1>2. Modest(next) /\ ModestCommand(c)
  <2>1. CASE c.type = "CREATE" /\ next = Outcome(NoOrder, c)
    <3>1. next = [NoOrder EXCEPT !.status = "OPEN", !.revision = 1]
      BY <2>1 DEF Outcome
    <3>2. /\ next.revision = 1 /\ next.paid = 0 /\ next.lines = [l \in LineIds |-> 0]
      BY <3>1 DEF NoOrder
    <3>3. Ceiling \in Nat /\ MostUnits \in Nat
      BY <1>1, DueIsBounded, RuntimeAssumption DEF Modest, RuntimeAssumption
    <3>. QED BY <1>0, <2>1, <3>2, <3>3 DEF Modest, ModestCommand, Edited
  <2>2. CASE /\ c.type \in Edited /\ c.revision = shown.revision
             /\ Accepts(shown, c) /\ next = Outcome(shown, c)
    <3>1. Modest(next)
      BY <1>0, <1>1, <2>2, OutcomeIsModest
    <3>2. next.revision = shown.revision + 1 /\ shown.revision \in Nat
      BY <1>0, <1>1, <2>2, OutcomeSo DEF Edited, OrderRecords
    <3>. QED BY <1>0, <2>2, <3>1, <3>2, RuntimeAssumption DEF ModestCommand, Edited, RuntimeAssumption
  <2>3. CASE c.type = "PAY" /\ next \in {shown, [shown EXCEPT !.status = "PAYMENT_QUEUED"]}
    <3>1. next.revision = shown.revision /\ next.paid = shown.paid /\ next.lines = shown.lines
      BY <1>1, <2>3 DEF OrderRecords
    <3>. QED BY <1>0, <1>1, <2>3, <3>1 DEF Modest, ModestCommand, Edited
  <2>. QED BY <2>1, <2>2, <2>3 DEF Enqueued
<1>3. \A o \in (Displayed \cup {server})' : Modest(o)
  BY <1>0, <1>2 DEF OrdersFit, Displayed
<1>4. \A n \in DOMAIN queue' : ModestCommand(queue'[n])
  <2>1. /\ DOMAIN queue' = 1..(Len(queue) + 1) /\ Len(queue) \in Nat
        /\ \A n \in 1..Len(queue) : queue'[n] = queue[n]
        /\ queue'[Len(queue) + 1] = c /\ DOMAIN queue = 1..Len(queue)
    BY <1>0, <1>1
  <2>2. ASSUME NEW n \in DOMAIN queue' PROVE ModestCommand(queue'[n])
    <3>1. n \in 1..Len(queue) \/ n = Len(queue) + 1
      BY <2>1, <2>2
    <3>2. CASE n \in 1..Len(queue)
      BY <3>2, <2>1 DEF OrdersFit
    <3>3. CASE n = Len(queue) + 1
      <4>1. queue'[n] = c
        BY Zenon, <3>3, <2>1
      <4>. QED BY <4>1, <1>2
    <3>. QED BY <3>1, <3>2, <3>3
  <2>. QED BY <2>2
<1>5. Len(queue') <= QueueLength
  BY <1>0, <1>1, RuntimeAssumption DEF RuntimeAssumption
<1>. QED BY <1>3, <1>4, <1>5 DEF OrdersFit, Modest

LEMMA NoneIsModest == Modest(NoOrder)
<1>1. NoOrder \in OrderRecords /\ \A l \in LineIds : NoOrder.lines[l] = 0
  BY NoOrderIsOne DEF NoOrder
<1>2. MostUnits \in Nat /\ LastRevision \in Nat
  BY RuntimeAssumption DEF RuntimeAssumption
<1>3. Ceiling \in Nat
  BY <1>1, <1>2, DueIsBounded
<1>. QED BY <1>1, <1>2, <1>3 DEF Modest, NoOrder

(* An order seen before, the server's or none.                              *)
LEMMA SeenBefore ==
    ASSUME OrdersFit, UNCHANGED <<server, queue>>,
           Displayed' \subseteq Displayed \cup {server, NoOrder}
    PROVE  OrdersFit'
<1>1. Modest(NoOrder)
  BY NoneIsModest
<1>2. \A o \in Displayed' \cup {server'} : Modest(o)
  BY <1>1 DEF OrdersFit
<1>. QED BY <1>2 DEF OrdersFit, Modest, ModestCommand

(* The server applies a command, and the queue may lose its first.          *)
LEMMA ServerApplies ==
    ASSUME RuntimeInv, OrdersFit, NEW c \in CommandRecords, Sensible(c), Accepts(server, c),
           c.units <= MostUnits, server' = Outcome(server, c), server'.revision <= LastRevision,
           queue' = queue \/ (queue # <<>> /\ queue' = Tail(queue)), UNCHANGED orderVars
    PROVE  OrdersFit'
<1>1. server \in OrderRecords /\ Modest(server) /\ queue \in Seq(CommandRecords)
  BY DEF RuntimeInv, RuntimeShape, AreSensible, OrdersFit
<1>2. Modest(server')
  BY <1>1, OutcomeIsModest
<1>3. Displayed' = Displayed
  BY DEF orderVars, Displayed
<1>4. \A o \in (Displayed \cup {server})' : Modest(o)
  BY <1>2, <1>3 DEF OrdersFit
<1>5. (\A n \in DOMAIN queue' : ModestCommand(queue'[n])) /\ Len(queue') <= QueueLength
  <2>1. CASE queue' = queue
    BY <2>1 DEF OrdersFit
  <2>2. CASE queue # <<>> /\ queue' = Tail(queue)
    <3>1. /\ Len(queue') = Len(queue) - 1 /\ Len(queue) \in Nat \ {0}
          /\ DOMAIN queue' = 1..(Len(queue) - 1) /\ DOMAIN queue = 1..Len(queue)
          /\ \A n \in 1..(Len(queue) - 1) : queue'[n] = queue[n + 1]
      BY <1>1, <2>2
    <3>. QED BY <3>1, RuntimeAssumption DEF OrdersFit, RuntimeAssumption
  <2>. QED BY <2>1, <2>2
<1>. QED BY <1>4, <1>5 DEF OrdersFit, Modest, ModestCommand

(* The queue stops at its first command, or loses it.                       *)
LEMMA QueueMoves ==
    ASSUME RuntimeInv, OrdersFit, UNCHANGED <<server, orderVars>>, queue # <<>>,
           queue' = [queue EXCEPT ![1].stopped = TRUE] \/ queue' = Tail(queue)
    PROVE  OrdersFit'
<1>1. queue \in Seq(CommandRecords) /\ Len(queue) \in Nat \ {0} /\ DOMAIN queue = 1..Len(queue)
  BY DEF RuntimeInv, RuntimeShape, AreSensible
<1>2. /\ Displayed' = Displayed /\ server' = server
  BY DEF orderVars, Displayed
<1>3. (\A n \in DOMAIN queue' : ModestCommand(queue'[n])) /\ Len(queue') <= QueueLength
  <2>1. CASE queue' = [queue EXCEPT ![1].stopped = TRUE]
    <3>1. PICK d : d = [queue[1] EXCEPT !.stopped = TRUE]
      OBVIOUS
    <3>2. queue[1] \in CommandRecords
      BY <1>1
    <3>3. d.units = queue[1].units /\ d.type = queue[1].type /\ d.revision = queue[1].revision
          /\ d \in CommandRecords
      BY <3>1, <3>2 DEF CommandRecords
    <3>4. queue' = [queue EXCEPT ![1] = d]
      BY <2>1, <3>1
    <3>5. /\ DOMAIN queue' = DOMAIN queue /\ Len(queue') = Len(queue)
          /\ \A n \in DOMAIN queue : queue'[n] = IF n = 1 THEN d ELSE queue[n]
      <4>1. PICK q : q = queue
        OBVIOUS
      <4>2. q \in Seq(CommandRecords) /\ queue' = [q EXCEPT ![1] = d] /\ 1 \in DOMAIN q
        <5>1. 1 \in 1..Len(queue)
          BY <1>1
        <5>. QED BY Zenon, <4>1, <5>1, <1>1, <3>4
      <4>3. queue' \in Seq(CommandRecords) /\ Len(queue') = Len(q) /\ DOMAIN queue' = DOMAIN q
            /\ \A n \in DOMAIN q : queue'[n] = IF n = 1 THEN d ELSE q[n]
        BY <4>2, <3>3
      <4>. QED BY <4>1, <4>3
    <3>6. ModestCommand(d)
      BY <1>1, <3>3 DEF OrdersFit, ModestCommand
    <3>. QED BY <3>5, <3>6 DEF OrdersFit
  <2>2. CASE queue' = Tail(queue)
    <3>1. /\ Len(queue') = Len(queue) - 1 /\ Len(queue) \in Nat \ {0}
          /\ DOMAIN queue' = 1..(Len(queue) - 1) /\ DOMAIN queue = 1..Len(queue)
          /\ \A n \in 1..(Len(queue) - 1) : queue'[n] = queue[n + 1]
      BY <1>1, <2>2
    <3>. QED BY <3>1, RuntimeAssumption DEF OrdersFit, RuntimeAssumption
  <2>. QED BY <2>1, <2>2
<1>. QED BY <1>2, <1>3 DEF OrdersFit, Modest, ModestCommand

(* Money is taken for what is due.                                          *)
LEMMA TakingMoneyFits ==
    ASSUME RuntimeInv, OrdersFit, NEW n \in 1..MostUnits, PayOnline(n)
    PROVE  OrdersFit'
<1>0. /\ server \in OrderRecords /\ Modest(server) /\ shown \in OrderRecords /\ Modest(shown)
      /\ n \in Nat /\ server' = [server EXCEPT !.paid = @ + n]
      /\ UNCHANGED <<queue, document, working, shown, refresh>>
      /\ action' = [shown EXCEPT !.paid = @ + n] \/ action' = action
  BY RuntimeAssumption
     DEF RuntimeAssumption, RuntimeInv, RuntimeShape, OrdersFit, Displayed, PayOnline
<1>1. shown.paid + n <= Due(shown) /\ server.paid + n <= Due(server)
  <2>1. PICK c : c = NewCommand("PAY", 0, {}, n)
    OBVIOUS
  <2>2. c.type = "PAY" /\ c.units = n
    BY <2>1 DEF NewCommand
  <2>3. Accepts(server, c)
    BY <2>1 DEF PayOnline
  <2>4. server.paid + n <= Due(server)
    BY <2>2, <2>3 DEF Accepts, Edits
  <2>. QED BY <2>4 DEF PayOnline, Tender
<1>2. ASSUME NEW o \in OrderRecords, Modest(o), o.paid + n <= Due(o)
      PROVE  Modest([o EXCEPT !.paid = @ + n])
  <2>1. PICK p : p = [o EXCEPT !.paid = @ + n]
    OBVIOUS
  <2>2. p.paid = o.paid + n /\ p.revision = o.revision /\ p.lines = o.lines /\ o.paid \in Nat
    BY <2>1 DEF OrderRecords
  <2>3. Due(o) \in Int /\ Due(o) <= Ceiling /\ Ceiling \in Nat
    BY <1>2, DueIsBounded DEF Modest
  <2>4. p.paid <= Ceiling
    BY <1>0, <1>2, <2>2, <2>3
  <2>. QED BY <1>2, <2>1, <2>2, <2>4 DEF Modest
<1>3. Modest([server EXCEPT !.paid = @ + n]) /\ Modest([shown EXCEPT !.paid = @ + n])
  BY <1>0, <1>1, <1>2
<1>4. \A o \in (Displayed \cup {server})' : Modest(o)
  BY <1>0, <1>3 DEF OrdersFit, Displayed
<1>. QED BY <1>0, <1>4 DEF OrdersFit, Modest, ModestCommand

LEMMA CompletingFits ==
    ASSUME RuntimeInv, OrdersFit, Complete
    PROVE  OrdersFit'
<1>1. server \in OrderRecords /\ Modest(server)
  BY DEF RuntimeInv, RuntimeShape, OrdersFit
<1>2. CASE server' = [server EXCEPT !.status = "COMPLETED"]
  <2>1. server'.revision = server.revision /\ server'.paid = server.paid
        /\ server'.lines = server.lines
    BY <1>1, <1>2 DEF OrderRecords
  <2>2. Modest(server')
    BY <1>1, <2>1 DEF Modest
  <2>3. Displayed' \subseteq Displayed \cup {server', NoOrder}
    BY DEF Complete, Displayed, NoRefresh
  <2>4. Modest(NoOrder)
    BY NoneIsModest
  <2>5. \A o \in (Displayed \cup {server})' : Modest(o)
    BY <2>2, <2>3, <2>4 DEF OrdersFit
  <2>. QED BY <2>5 DEF OrdersFit, Modest, ModestCommand, Complete
<1>3. CASE server' # [server EXCEPT !.status = "COMPLETED"]
  <2>1. UNCHANGED <<server, queue>> /\ Displayed' \subseteq Displayed \cup {server, NoOrder}
    BY <1>3 DEF Complete, Displayed, NoRefresh
  <2>. QED BY <2>1, SeenBefore
<1>. QED BY <1>2, <1>3

LEMMA DeliveryFits ==
    ASSUME RuntimeInv, OrdersFit, Deliver
    PROVE  OrdersFit'
<1>1. PICK c : c = Head(queue)
  OBVIOUS
<1>2. c \in CommandRecords /\ Sensible(c) /\ ModestCommand(c) /\ queue # <<>>
  <2>1. queue \in Seq(CommandRecords) /\ queue # <<>> /\ AreSensible(queue)
    BY DEF RuntimeInv, RuntimeShape, AreSensible, Deliver
  <2>2. c = queue[1] /\ 1 \in DOMAIN queue
    BY <1>1, <2>1
  <2>. QED BY <2>1, <2>2 DEF AreSensible, OrdersFit
<1>3. CASE Accepts(server, c)
  <2>1. server' = Outcome(server, c) /\ queue' = Tail(queue) /\ UNCHANGED orderVars
    BY <1>1, <1>3 DEF Deliver
  <2>2. server \in OrderRecords /\ Modest(server)
    BY DEF RuntimeInv, RuntimeShape, OrdersFit
  <2>3. Outcome(server, c).revision <= LastRevision
    <3>1. Outcome(server, c).revision = IF c.type = "CREATE" THEN 1
                                        ELSE IF c.type = "PAY" THEN server.revision
                                        ELSE server.revision + 1
      BY <1>2, <2>2, OutcomeSo
    <3>2. CASE c.type \in {"CREATE", "PAY"}
      BY <1>2, <2>2, <3>1, <3>2, RuntimeAssumption
         DEF Modest, ModestCommand, RuntimeAssumption
    <3>3. CASE c.type \notin {"CREATE", "PAY"}
      <4>1. c.type \in Edited /\ server.revision = c.revision /\ c.revision \in Nat
        BY <1>2, <1>3, <3>3 DEF Accepts, Edits, CommandRecords
      <4>2. c.revision < LastRevision
        BY <1>2, <4>1 DEF ModestCommand
      <4>. QED BY <3>1, <3>3, <4>1, <4>2, RuntimeAssumption DEF RuntimeAssumption
    <3>. QED BY <3>2, <3>3
  <2>. QED BY <1>2, <1>3, <2>1, <2>3, ServerApplies DEF ModestCommand
<1>4. CASE ~Accepts(server, c)
  <2>1. queue' = [queue EXCEPT ![1].stopped = TRUE] /\ UNCHANGED <<server, orderVars>>
    BY <1>1, <1>4 DEF Deliver
  <2>. QED BY <1>2, <2>1, QueueMoves
<1>. QED BY <1>3, <1>4

LEMMA RuntimeTypes ==
    /\ RuntimeInit => OrdersFit
    /\ RuntimeInv /\ OrdersFit => RuntimeTypeOK
    /\ RuntimeInv /\ OrdersFit /\ [RuntimeNext]_runtimeVars => OrdersFit'
<1>1. ASSUME RuntimeInit PROVE OrdersFit
  <2>1. Displayed \cup {server} = {NoOrder} /\ queue = <<>>
    BY <1>1 DEF RuntimeInit, Displayed, NoRefresh
  <2>2. QueueLength \in Nat
    BY RuntimeAssumption DEF RuntimeAssumption
  <2>. QED BY <2>1, <2>2, NoneIsModest DEF OrdersFit
<1>2. ASSUME RuntimeInv, OrdersFit PROVE RuntimeTypeOK
  <2>1. ASSUME NEW o \in Displayed \cup {server} PROVE o \in Ordered
    <3>1. o \in OrderRecords /\ Modest(o)
      BY <1>2 DEF RuntimeInv, RuntimeShape, OrdersFit
    <3>2. Ceiling \in Nat /\ LastRevision \in Nat /\ MostUnits \in Nat
      BY <3>1, DueIsBounded, RuntimeAssumption DEF Modest, RuntimeAssumption
    <3>3. /\ o.revision \in 0..LastRevision /\ o.paid \in 0..Ceiling
          /\ o.lines \in [LineIds -> 0..MostUnits]
      <4>1. o.lines \in [LineIds -> Nat] /\ \A l \in LineIds : o.lines[l] <= MostUnits
        BY <3>1 DEF OrderRecords, Modest
      <4>2. o.lines \in [LineIds -> 0..MostUnits]
        BY <4>1, <3>2
      <4>3. o.revision \in Nat /\ o.revision <= LastRevision /\ o.paid \in Nat /\ o.paid <= Ceiling
        BY <3>1 DEF OrderRecords, Modest
      <4>. QED BY <4>2, <4>3, <3>2
    <3>. QED BY <3>1, <3>3 DEF OrderRecords, Ordered, Statuses, Ceiling
  <2>. QED BY <1>2, <2>1 DEF RuntimeInv, RuntimeShape, RuntimeTypeOK, Displayed, OrdersFit
<1>3. ASSUME RuntimeInv, OrdersFit, [RuntimeNext]_runtimeVars
      PROVE  OrdersFit'
  <2>1. CASE StartOrder \/ HoldOrder \/ ResumeOrder \/ SendOrder
    BY <1>3, <2>1, ActionsEnqueue, EnqueuedFits
  <2>2. CASE \E l \in LineIds :
               AddOrderLine(l) \/ RemoveOrderLine(l) \/ \E n \in 1..MostUnits : ReplaceQuantity(l, n)
    BY <1>3, <2>2, ActionsEnqueue, EnqueuedFits
  <2>3. CASE \E n \in 1..MostUnits : PayOffline(n)
    BY <1>3, <2>3, ActionsEnqueue, EnqueuedFits
  <2>4. ASSUME NEW n \in 1..MostUnits, PayOnline(n)
        PROVE  OrdersFit'
    BY <1>3, <2>4, TakingMoneyFits
  <2>5. CASE \/ Persist \/ Refresh \/ Synchronize \/ CompleteSale \/ Fetch \/ FetchFails
             \/ ShowBootstrap \/ SelectOrder \/ Reload
    <3>1. Displayed' \subseteq Displayed \cup {server, NoOrder} /\ UNCHANGED <<server, queue>>
      <4>1. CASE Persist
        BY <4>1 DEF Persist, Displayed
      <4>2. CASE Refresh \/ Synchronize \/ CompleteSale
        BY <4>2 DEF Refresh, Synchronize, CompleteSale, AskFor, NoRefresh, Displayed
      <4>3. CASE Fetch \/ FetchFails
        BY <4>3 DEF Fetch, FetchFails, Displayed
      <4>4. CASE ShowBootstrap \/ SelectOrder
        BY <4>4 DEF ShowBootstrap, SelectOrder, Show, NoRefresh, Displayed
      <4>5. CASE Reload
        BY <4>5 DEF Reload, NoRefresh, Displayed
      <4>. QED BY <2>5, <4>1, <4>2, <4>3, <4>4, <4>5
    <3>. QED BY <1>3, <3>1, SeenBefore
  <2>6. CASE Complete
    BY <1>3, <2>6, CompletingFits
  <2>7. CASE Deliver
    BY <1>3, <2>7, DeliveryFits
  <2>8. CASE RefuseLine \/ Resolve
    BY <1>3, <2>8, QueueMoves DEF RefuseLine, Resolve
  <2>9. ASSUME NEW c \in CommandRecords, Sensible(c), c.units <= 1, Foreign(c)
        PROVE  OrdersFit'
    <3>1. c.units <= MostUnits
      BY <2>9, RuntimeAssumption DEF CommandRecords, RuntimeAssumption
    <3>. QED BY <1>3, <2>9, <3>1, ServerApplies DEF Foreign
  <2>10. CASE \/ \E l \in LineIds \ Mentioned : Foreign(ForeignCommand("ADD", l, {}, 1))
              \/ \E type \in {"HOLD", "RESUME"} : Foreign(ForeignCommand(type, 0, {}, 0))
              \/ Foreign(ForeignCommand("PAY", 0, {}, 1))
    <3>1. \A type, l, units : ForeignCommand(type, l, {}, units).units = units
      <4>. SUFFICES ASSUME NEW type, NEW l, NEW units
                    PROVE  ForeignCommand(type, l, {}, units).units = units
        OBVIOUS
      <4>1. PICK k : k = NewCommand(type, l, {}, units)
        OBVIOUS
      <4>2. /\ DOMAIN k = {"type", "revision", "line", "wave", "units", "stopped"}
            /\ k.units = units
        BY <4>1 DEF NewCommand
      <4>3. [k EXCEPT !.revision = server.revision].units = units
        BY <4>2
      <4>. QED BY <4>1, <4>3 DEF ForeignCommand
    <3>. QED BY <1>3, <2>9, <2>10, <3>1, ForeignMade
  <2>11. CASE UNCHANGED runtimeVars
    BY <1>3, <2>11 DEF runtimeVars, orderVars, OrdersFit, Modest, ModestCommand, Displayed
  <2>. QED BY <1>3, <2>1, <2>2, <2>3, <2>4, <2>5, <2>6, <2>7, <2>8, <2>10, <2>11 DEF RuntimeNext
<1>. QED BY <1>1, <1>2, <1>3

-----------------------------------------------------------------------------
(* The wrapper and the pages.                                               *)

(* The row and the records of its edits.                                    *)
EditsFit ==
    /\ wrapper \in Wrappers /\ version <= LastVersion
    /\ \A k \in Keys : record[k] # NoRecord =>
          record[k] \in [based: 0..LastVersion, response: 1..LastVersion]

LEMMA CommandTypes ==
    /\ CommandInit => EditsFit
    /\ CommandInv /\ EditsFit => CommandTypeOK
    /\ CommandInv /\ EditsFit /\ [CommandNext]_commandVars => EditsFit'
<1>1. CommandInit => EditsFit
  BY CommandAssumption DEF CommandInit, EditsFit
<1>2. CommandInv /\ EditsFit => CommandTypeOK
  BY CommandAssumption DEF CommandInv, Shape, EditsFit, CommandTypeOK
<1>3. ASSUME CommandInv, EditsFit, [CommandNext]_commandVars
      PROVE  EditsFit'
  <2>1. CASE UNCHANGED <<wrapper, version, record>>
    BY <1>3, <2>1 DEF EditsFit
  <2>2. ASSUME NEW a \in Attempts, CommitEdit(a)
        PROVE  EditsFit'
    <3>1. PICK q : q = attempt[a].request
      OBVIOUS
    <3>2. q.key \in Keys /\ q.based \in 0..LastVersion
      BY <1>3, <2>2, <3>1, NotYet DEF CommitEdit, KeyedRequests
    <3>3. PICK entry : entry = [based |-> q.based, response |-> version + 1]
      OBVIOUS
    <3>4. /\ wrapper' = wrapper /\ version < LastVersion /\ version' = version + 1
          /\ record' = [record EXCEPT ![q.key] = entry]
      BY <2>2, <3>1, <3>3 DEF CommitEdit
    <3>5. version \in Nat /\ LastVersion \in Nat
      BY <1>3, CommandAssumption DEF CommandInv, Shape
    <3>6. entry \in [based: 0..LastVersion, response: 1..LastVersion]
      BY <3>2, <3>3, <3>4, <3>5
    <3>7. \A k \in Keys : record'[k] = IF k = q.key THEN entry ELSE record[k]
      BY <1>3, <3>4 DEF CommandInv, Shape
    <3>8. version' <= LastVersion
      BY <3>4, <3>5
    <3>. QED BY <1>3, <3>4, <3>6, <3>7, <3>8 DEF EditsFit
  <2>3. ASSUME NEW a \in Attempts,
               \/ \E k \in Keys, based \in 0..LastVersion : Arrive(a, k, based)
               \/ Look(a) \/ Refuse(a) \/ Lose(a)
               \/ RecordTaken(a) \/ NotSerializable(a) \/ Violation(a)
        PROVE  EditsFit'
    BY <2>1, <2>3 DEF Arrive, Look, Refuse, Lose, RecordTaken, NotSerializable, Violation, Raise
  <2>. QED BY <1>3, <2>1, <2>2, <2>3 DEF CommandNext, commandVars
<1>. QED BY <1>1, <1>2, <1>3

(* The server's version, and what the clicks carry of it.                    *)
ClicksFit == stands <= LastRow /\ \A c \in Clicks : clicks[c].carries <= stands

LEMMA PageTypes ==
    /\ PageInit => ClicksFit
    /\ PageInv /\ ClicksFit => PageTypeOK
    /\ PageInv /\ ClicksFit /\ [PageNext]_pageVars => ClicksFit'
<1>1. PageInit => ClicksFit
  BY PageAssumption DEF PageInit, ClicksFit, NoClick
<1>2. ASSUME PageInv, ClicksFit
      PROVE  PageTypeOK
  <2>1. /\ stands \in Versions
        /\ \A n \in Nat : n <= stands => n \in Versions
    BY <1>2, PageAssumption DEF PageInv, PageShape, ClicksFit, Versions
  <2>2. listed \in [version: Versions, visible: BOOLEAN]
    <3>1. listed \in [version: Nat, visible: BOOLEAN] /\ listed.version \in Versions
      BY <1>2, <2>1 DEF PageInv, PageShape, NotAhead
    <3>. QED BY <3>1
  <2>3. editing \in Versions \union {Nobody}
    BY <1>2, <2>1 DEF PageInv, PageShape, NotAhead
  <2>4. \A l \in LoadSlots : loads[l] \in [at: {"NONE", "ASKED", "ANSWERED"}, read: Versions,
                                           by: Clicks \union {Nobody}]
    <3>1. \A l \in LoadSlots : loads[l] \in LoadRecords /\ loads[l].read <= stands
      BY <1>2 DEF PageInv, PageShape, NotAhead
    <3>2. \A l \in LoadSlots : loads[l].read \in Versions
      BY <3>1, <2>1 DEF LoadRecords
    <3>. QED BY <3>1, <3>2 DEF LoadRecords
  <2>5. \A c \in Clicks : clicks[c] \in
           [at: {"NONE", "SENT", "ADRIFT", "TAKEN", "REFUSED", "RELOADING", "OVER"},
            saw: Versions, carries: Versions, compared: BOOLEAN]
    <3>1. \A c \in Clicks : clicks[c] \in ClickRecords /\ clicks[c].saw <= stands
                            /\ clicks[c].carries <= stands
      BY <1>2 DEF PageInv, PageShape, NotAhead, ClicksFit
    <3>2. \A c \in Clicks : clicks[c].saw \in Versions /\ clicks[c].carries \in Versions
      BY <3>1, <2>1 DEF ClickRecords
    <3>. QED BY <3>1, <3>2 DEF ClickRecords
  <2>6. loads = [l \in LoadSlots |-> loads[l]] /\ clicks = [c \in Clicks |-> clicks[c]]
    BY <1>2 DEF PageInv, PageShape
  <2>. QED BY <1>2, <2>1, <2>2, <2>3, <2>4, <2>5, <2>6 DEF PageInv, PageTypeOK
<1>3. ASSUME PageInv, ClicksFit, [PageNext]_pageVars
      PROVE  ClicksFit'
  <2>0. /\ stands \in Nat /\ LastRow \in Nat /\ clicks \in [Clicks -> ClickRecords]
        /\ \A c \in Clicks : clicks[c].carries \in Nat /\ clicks[c].carries <= stands
        /\ stands <= LastRow
    BY <1>3, PageAssumption DEF PageInv, PageShape, ClicksFit, ClickRecords
  <2>1. ASSUME UNCHANGED stands \/ (stands < LastRow /\ stands' = stands + 1),
               \A c \in Clicks : \/ clicks'[c].carries = clicks[c].carries
                                 \/ clicks'[c].carries = 0
                                 \/ clicks'[c].carries <= stands /\ clicks'[c].carries \in Nat
        PROVE  ClicksFit'
    <3>1. stands <= stands' /\ stands' <= LastRow /\ stands' \in Nat
      BY <2>0, <2>1
    <3>2. ASSUME NEW c \in Clicks PROVE clicks'[c].carries <= stands'
      BY <2>0, <2>1, <3>1, <3>2
    <3>. QED BY <3>1, <3>2 DEF ClicksFit
  <2>2. ASSUME NEW c \in Clicks, Press(c)
        PROVE  ClicksFit'
    <3>1. Carries \in Nat /\ Carries <= stands
      BY <1>3, <2>2, <2>0 DEF Press, Carries, PageInv, PageShape, NotAhead
    <3>2. /\ clicks' = [clicks EXCEPT ![c] =
                [NoClick EXCEPT !.at = "SENT", !.saw = Seen, !.carries = Carries]]
          /\ stands' = stands
      BY <2>2 DEF Press
    <3>3. \A d \in Clicks : clicks'[d].carries = IF d = c THEN Carries ELSE clicks[d].carries
      BY <2>0, <3>2 DEF NoClick
    <3>. QED BY <2>1, <3>1, <3>2, <3>3
  <2>3. ASSUME NEW c \in Clicks,
               \/ Compare(c) \/ TakeHold(c) \/ TurnDown(c) \/ HearNothing(c)
               \/ \E l \in LoadSlots : HearSuccess(c, l) \/ HearRefusal(c, l)
        PROVE  ClicksFit'
    <3>1. \A d \in Clicks : clicks'[d].carries = clicks[d].carries \/ clicks'[d].carries = 0
      BY <2>0, <2>3 DEF Compare, TakeHold, TurnDown, HearNothing, HearSuccess, HearRefusal,
                        ClickRecords, Over, NoClick
    <3>2. UNCHANGED stands \/ (stands < LastRow /\ stands' = stands + 1)
      BY <2>3 DEF Compare, TakeHold, TurnDown, HearNothing, HearSuccess, HearRefusal
    <3>. QED BY <2>1, <3>1, <3>2
  <2>4. ASSUME NEW l \in LoadSlots, LoadAgain(l) \/ AnswerLoad(l) \/ ShowLoad(l) \/ FailLoad(l)
        PROVE  ClicksFit'
    <3>1. \A d \in Clicks : clicks'[d].carries = clicks[d].carries \/ clicks'[d].carries = 0
      BY <2>0, <2>4 DEF LoadAgain, AnswerLoad, ShowLoad, FailLoad, EndLoad, Over, NoClick
    <3>2. UNCHANGED stands
      BY <2>4 DEF LoadAgain, AnswerLoad, ShowLoad, FailLoad, EndLoad
    <3>. QED BY <2>1, <3>1, <3>2
  <2>5. CASE OpenEditor \/ OthersChange \/ UNCHANGED pageVars
    BY <2>1, <2>5 DEF OpenEditor, OthersChange, pageVars
  <2>. QED BY <1>3, <2>2, <2>3, <2>4, <2>5 DEF PageNext
<1>. QED BY <1>1, <1>2, <1>3

-----------------------------------------------------------------------------
LEMMA OfficeStays == Spec => [](office \in Offices)
<1>1. Init => office \in Offices
  BY DEF Init
<1>2. office \in Offices /\ [Next]_backOfficeVars => (office \in Offices)'
  BY DEF Next, backOfficeVars, AuditTurn, HoursTurn, PricingTurn, MenuTurn, TaxTurn,
         ThrottleTurn, FactorTurn, AccessTurn, PrivacyTurn, AlertTurn, LayoutTurn,
         RuntimeTurn, CommandTurn, AvailabilityTurn, PageTurn
<1>. QED BY <1>1, <1>2, PTL DEF Spec

(* No part leaves its types, for any bounds: among them that no counter of failed    *)
(* logins passes its limit (nextLoginThrottleState), that no rule has a number beyond *)
(* how many there are (createRule), and that no order of a till is paid for more than *)
(* the most it can come to (cashPayment).                                            *)
THEOREM BackOfficeTypes == Spec => []BackOfficeTypeOK
<1>1. Spec => [](LayoutTypeOK /\ PrivacyTypeOK /\ FactorTypeOK /\ HoursTypeOK)
  <2>1. /\ LayoutInv => LayoutTypeOK
        /\ PrivacyInv => PrivacyTypeOK
        /\ FactorInv => FactorTypeOK
        /\ HoursInv => HoursTypeOK
    BY DEF LayoutInv, PrivacyInv, FactorInv, HoursInv
  <2>. QED BY <2>1, LayoutFirst, LayoutStep, LayoutRuns, PrivacyFirst, PrivacyStep, PrivacyRuns,
              FactorFirst, FactorStep, FactorRuns, HoursFirst, HoursStep, HoursRuns, PTL
<1>2. Spec => []PricingTypeOK
  BY PricingTypes, PricingRuns, PTL
<1>3. Spec => []TaxTypeOK
  BY TaxFirst, TaxStep, TaxTypes, TaxRuns, PTL
<1>4. Spec => []ThrottleTypeOK
  BY ThrottleFirst, ThrottleStep, ThrottleTypes, ThrottleRuns, PTL
<1>5. Spec => []AccessTypeOK
  BY AccessFirst, AccessStep, AccessTypes, AccessRuns, PTL
<1>6. Spec => []MenuTypeOK
  BY MenuStart, MenuStep, MenuTypes, MenuRuns, PTL
<1>7. Spec => []AlertTypeOK
  BY AlertStart, AlertStep, AlertTypes, AlertRuns, PTL
<1>8. Spec => []AvailabilityTypeOK
  BY AvailabilityFirst, AvailabilityStep, AvailabilityTypes, AvailabilityRuns, PTL
<1>9. Spec => []AuditTypeOK
  BY ChainFirst, ChainStep, AuditTypes, AuditRuns, PTL
<1>10. Spec => []RuntimeTypeOK
  BY RuntimeFirst, RuntimeStep, RuntimeTypes, RuntimeRuns, PTL
<1>11. Spec => []CommandTypeOK
  BY CommandStart, CommandStep, CommandTypes, CommandRuns, PTL
<1>12. Spec => []PageTypeOK
  BY PageStart, PageStep, PageTypes, PageRuns, PTL
<1>13. (/\ office \in Offices
        /\ AuditTypeOK /\ HoursTypeOK /\ PricingTypeOK /\ MenuTypeOK
        /\ TaxTypeOK /\ ThrottleTypeOK /\ FactorTypeOK /\ AccessTypeOK
        /\ PrivacyTypeOK /\ AlertTypeOK /\ LayoutTypeOK /\ RuntimeTypeOK
        /\ CommandTypeOK /\ AvailabilityTypeOK /\ PageTypeOK)
       => BackOfficeTypeOK
  BY DEF BackOfficeTypeOK, Offices
<1>. QED BY <1>1, <1>2, <1>3, <1>4, <1>5, <1>6, <1>7, <1>8, <1>9, <1>10, <1>11, <1>12,
            <1>13, OfficeStays, PTL
=============================================================================
