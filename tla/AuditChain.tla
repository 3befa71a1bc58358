----------------------------- MODULE AuditChain -----------------------------
(***************************************************************************)
(* The audit trail and its integrity chain: audit rows written by every    *)
(* other service, batches of rows chained by hash, and their verification  *)
(* (apps/api/src/audit/audit.service.ts, audit-integrity.service.ts).      *)
(*                                                                         *)
(* A row's time is taken when its transaction starts and the row is seen   *)
(* when the transaction commits, so rows need not appear in the order of   *)
(* their times; the ids that break ties are random.  A hash is modelled by *)
(* what it covers: equal hashes cover equal rows after equal predecessors. *)
(***************************************************************************)
EXTENDS Naturals, FiniteSets, Sequences

CONSTANTS
    Events,     \* ids of audit rows, compared as the database compares them
    MaxTime,    \* bound of the clock
    Limits,     \* maxEvents of a batch and maxBatches of a verification
    MaxBatches, \* bound of the chain
    MaxDamage   \* bound of the rows changed or lost behind the API's back

ASSUME AuditAssumption ==
    /\ IsFiniteSet(Events) /\ Events \subseteq Nat
    /\ MaxTime \in Nat /\ MaxBatches \in Nat /\ Limits \subseteq Nat \ {0}

VARIABLES
    now,        \* the clock
    row,        \* row[e]: an audit row
    batches,    \* the chain: audit_integrity_batches in the order of sequence
    damaged,    \* rows changed or lost
    verdict     \* the answer of a verification that has just been made

auditVars == <<now, row, batches, damaged, verdict>>

NoVerdict == [status |-> "NONE", from |-> 0, count |-> 0, own |-> 0]

AuditTypeOK ==
    /\ now \in 0..MaxTime
    /\ row \in [Events -> [state: {"unused", "open", "stored", "lost"},
                           at: 0..MaxTime, text: {"original", "changed"}]]
    /\ Len(batches) <= MaxBatches
    /\ damaged \subseteq Events
    /\ verdict.status \in {"NONE", "EMPTY", "VALID", "PARTIAL", "INVALID"}

AuditInit ==
    /\ now = 0
    /\ row = [e \in Events |-> [state |-> "unused", at |-> 0, text |-> "original"]]
    /\ batches = <<>>
    /\ damaged = {}
    /\ verdict = NoVerdict

-----------------------------------------------------------------------------
Stored == {e \in Events : row[e].state = "stored"}

\* The position of a row: ORDER BY occurred_at, id.
Key(e) == <<row[e].at, e>>
Precedes(k, l) == k[1] < l[1] \/ (k[1] = l[1] /\ k[2] < l[2])
FirstOf(S) == CHOOSE e \in S : \A d \in S : ~Precedes(Key(d), Key(e))
LastOf(S)  == CHOOSE e \in S : \A d \in S : ~Precedes(Key(e), Key(d))
Take(limit, S) == {e \in S : Cardinality({d \in S : Precedes(Key(d), Key(e))}) < limit}

\* Row e follows what has been chained up to batch n.
Past(n, e) == n = 0 \/ Precedes(batches[n].last, Key(e))

\* The rows S after batch n are hashed in their order, which their keys determine.
Hash(n, S) ==
    [previous |-> IF n = 0 THEN "GENESIS" ELSE batches[n].hash,
     rows |-> {<<Key(e), row[e].text>> : e \in S}]

\* A transaction that will write row e starts.
Begin(e) ==
    /\ row[e].state = "unused"
    /\ row' = [row EXCEPT ![e].state = "open", ![e].at = now]
    /\ verdict' = NoVerdict
    /\ UNCHANGED <<now, batches, damaged>>

\* It commits, or it is rolled back and leaves nothing.
Commit(e) ==
    /\ row[e].state = "open"
    /\ row' = [row EXCEPT ![e].state = "stored"]
    /\ verdict' = NoVerdict
    /\ UNCHANGED <<now, batches, damaged>>

RollBack(e) ==
    /\ row[e].state = "open"
    /\ row' = [row EXCEPT ![e].state = "unused", ![e].at = 0]
    /\ verdict' = NoVerdict
    /\ UNCHANGED <<now, batches, damaged>>

Tick ==
    /\ now < MaxTime
    /\ now' = now + 1
    /\ verdict' = NoVerdict
    /\ UNCHANGED <<row, batches, damaged>>

\* The audit row that the integrity service writes of its own command.
Log(own) ==
    /\ row[own].state = "unused"
    /\ row' = [row EXCEPT ![own].state = "stored", ![own].at = now]

UnchainedByTime(through) ==
    {e \in Stored : /\ row[e].at <= through
                    /\ batches # <<>> => row[e].at > batches[Len(batches)].last[1]}

\* The rows a new batch may take: those up to the requested time that follow
\* the last row of the last batch.
Unchained(through) ==
    {e \in Stored : row[e].at <= through /\ Past(Len(batches), e)}

CreateBatch(own, through, limit) ==
    LET taken == Take(limit, Unchained(through))
    IN  /\ Len(batches) < MaxBatches
        /\ through <= now
        /\ taken # {}
        /\ batches' = Append(batches,
                [first |-> Key(FirstOf(taken)), last |-> Key(LastOf(taken)),
                 count |-> Cardinality(taken), hash |-> Hash(Len(batches), taken)])
        /\ Log(own)
        /\ verdict' = NoVerdict
        /\ UNCHANGED <<now, damaged>>

RowsSince(n) ==
    {e \in Stored : /\ n > 1 => row[e].at >= batches[n - 1].last[1]
                    /\ ~Precedes(batches[n].last, Key(e))}

\* The rows that are found for batch n when it is verified.
RowsOf(n) ==
    {e \in Stored : Past(n - 1, e) /\ ~Precedes(batches[n].last, Key(e))}

\* Batch n matches its predecessor and the rows found for it.
Matches(n) ==
    LET found == RowsOf(n)
    IN  /\ Cardinality(found) = batches[n].count
        /\ Key(FirstOf(found)) = batches[n].first
        /\ Key(LastOf(found)) = batches[n].last
        /\ Hash(n - 1, found) = batches[n].hash

\* Verification goes through at most limit batches and stops at the first
\* that does not match.
Verify(own, from, limit) ==
    LET last    == IF from + limit - 1 < Len(batches) THEN from + limit - 1 ELSE Len(batches)
        checked == CHOOSE n \in 0..(last + 1 - from) :
                      /\ \A i \in from..(from + n - 1) : Matches(i)
                      /\ from + n <= last => ~Matches(from + n)
        failed  == from + checked <= last
    IN  /\ from \in 1..(Len(batches) + 1)
        /\ verdict' = [status |-> IF failed THEN "INVALID"
                                  ELSE IF from > Len(batches) THEN "EMPTY"
                                  ELSE IF last < Len(batches) THEN "PARTIAL" ELSE "VALID",
                       from |-> from, count |-> checked, own |-> own]
        /\ Log(own)
        /\ UNCHANGED <<now, batches, damaged>>

Covered(n) == {r[1] : r \in batches[n].hash.rows}

\* Something other than the API changes a row of a batch or loses it: the table
\* is append-only for the API, and this is what the chain is there to show.  Of
\* rows that are in no batch yet it can say nothing.
Damage(e, how) ==
    /\ e \in Stored
    /\ \E n \in DOMAIN batches : Key(e) \in Covered(n)
    /\ Cardinality(damaged) < MaxDamage
    /\ row' = IF how = "change" THEN [row EXCEPT ![e].text = "changed"]
                                ELSE [row EXCEPT ![e].state = "lost"]
    /\ damaged' = damaged \cup {e}
    /\ verdict' = NoVerdict
    /\ UNCHANGED <<now, batches>>

AuditNext ==
    \/ Tick
    \/ \E e \in Events : Begin(e) \/ Commit(e) \/ RollBack(e)
    \/ \E e \in Events, how \in {"change", "lose"} : Damage(e, how)
    \/ \E own \in Events, through \in 0..MaxTime, limit \in Limits :
          CreateBatch(own, through, limit)
    \/ \E own \in Events, from \in 1..(MaxBatches + 1), limit \in Limits :
          Verify(own, from, limit)

-----------------------------------------------------------------------------
InRange(n, k) ==
    /\ ~Precedes(batches[n].last, k)
    /\ n > 1 => Precedes(batches[n - 1].last, k)

\* Rows the chain has passed without taking them: the end of the chain is not
\* before them, and no batch covers them.
Stray ==
    {e \in Stored : /\ batches # <<>>
                    /\ ~Past(Len(batches), e)
                    /\ \A n \in DOMAIN batches : Key(e) \notin Covered(n)}

\* Batch n still has its rows, each as it was written, and there are no others.
Intact(n) ==
    /\ \A d \in damaged : d # verdict.own => Key(d) \notin Covered(n)
    /\ \A e \in Stray \ {verdict.own} : ~InRange(n, Key(e))

VerdictIsTrue ==
    /\ \A n \in verdict.from..(verdict.from + verdict.count - 1) : Intact(n)
    /\ verdict.status = "INVALID" => ~Intact(verdict.from + verdict.count)

\* The chain can be relied on.  A verification (AuditIntegrityService.verify) tells
\* the truth: every batch it passes still has exactly its rows, each as it was
\* written, and a batch it rejects has lost one, has one changed, or has a row
\* between its own that was stored after the batch was made.  And making batches
\* (create) leaves no row behind that it could see, whatever limit it is given and
\* however many rows share a time: a row that falls out of the chain is one stored
\* in this very step.
ChainIsReliable ==
    /\ [](verdict.status # "NONE" => VerdictIsTrue)
    /\ [][\A e \in Stray' \ Stray : row[e].state # "stored"]_auditVars
=============================================================================
