----------------------------- MODULE TaxProfiles -----------------------------
(***************************************************************************)
(* The tax profiles of a branch: drafted, approved and brought into force  *)
(* by people who each read a profile first and send the revision they read *)
(* (apps/api/src/tax/tax.service.ts, tax-profile-policy.ts, and the        *)
(* constraints of migration 202608060006).  Every command is a             *)
(* serializable transaction; a read happens some time before the command   *)
(* it leads to.                                                            *)
(***************************************************************************)
EXTENDS Naturals, FiniteSets

CONSTANTS
    Profiles,
    Rates,        \* the contents of a profile
    MaxInstant,   \* bound of the clock
    MaxRevision   \* bound of the edits of a draft

ASSUME TaxAssumption == MaxInstant \in Nat /\ MaxRevision \in Nat \ {0} /\ Rates # {}

VARIABLES
    instant,   \* the clock
    profile,   \* profile[p]
    page       \* page[p]: what was shown when p was last read for its approval

taxVars == <<instant, profile, page>>

Endless == MaxInstant + 2
Ends    == 1..(MaxInstant + 1) \cup {Endless}

Contents == {c \in [rate: Rates, from: 0..MaxInstant, to: Ends] : c.from < c.to}
Blank == CHOOSE c \in Contents : TRUE

TaxTypeOK ==
    /\ instant \in 0..MaxInstant
    /\ profile \in [Profiles -> [status: {"none", "DRAFT", "CONFIRMED", "ACTIVE"},
                                 content: Contents, revision: 0..(MaxRevision + 2)]]
    /\ page \in [Profiles -> [content: Contents, revision: 0..(MaxRevision + 2)]]

TaxInit ==
    /\ instant = 0
    /\ profile = [p \in Profiles |-> [status |-> "none", content |-> Blank, revision |-> 0]]
    /\ page = [p \in Profiles |-> [content |-> Blank, revision |-> 0]]

-----------------------------------------------------------------------------
Advance ==
    /\ instant < MaxInstant
    /\ instant' = instant + 1
    /\ UNCHANGED <<profile, page>>

CreateProfile(p, content) ==
    /\ profile[p].status = "none"
    /\ profile' = [profile EXCEPT ![p] =
                      [status |-> "DRAFT", content |-> content, revision |-> 1]]
    /\ UNCHANGED <<instant, page>>

UpdateProfile(p, content) ==
    /\ profile[p].status = "DRAFT"
    /\ profile[p].revision < MaxRevision
    /\ profile' = [profile EXCEPT ![p].content = content, ![p].revision = @ + 1]
    /\ UNCHANGED <<instant, page>>

\* The approver opens the profile.
ReadProfile(p) ==
    /\ profile[p].status = "DRAFT"
    /\ page' = [page EXCEPT ![p] = [content |-> profile[p].content,
                                    revision |-> profile[p].revision]]
    /\ UNCHANGED <<instant, profile>>

ConfirmWhateverItSays(p) ==
    /\ profile[p].status = "DRAFT"
    /\ page[p].revision > 0
    /\ profile' = [profile EXCEPT ![p].status = "CONFIRMED", ![p].revision = @ + 1]
    /\ UNCHANGED <<instant, page>>

\* The approver sends the revision of the page.
ConfirmProfile(p) ==
    /\ profile[p].status = "DRAFT"
    /\ page[p].revision = profile[p].revision
    /\ profile' = [profile EXCEPT ![p].status = "CONFIRMED", ![p].revision = @ + 1]
    /\ UNCHANGED <<instant, page>>

\* taxProfileIntervalsOverlap, the query of activateProfile and the exclusion
\* constraint of the table.
IntervalsOverlap(c, d) == d.from < c.to /\ c.from < d.to

\* An active profile is immutable: nothing ends it and nothing replaces it.
ActivateProfile(p) ==
    /\ profile[p].status = "CONFIRMED"
    /\ profile[p].content.to > instant
    /\ \A q \in Profiles \ {p} :
          profile[q].status = "ACTIVE" => ~IntervalsOverlap(profile[q].content, profile[p].content)
    /\ profile' = [profile EXCEPT ![p].status = "ACTIVE", ![p].revision = @ + 1]
    /\ UNCHANGED <<instant, page>>

TaxNext ==
    \/ Advance
    \/ \E p \in Profiles :
          \/ \E c \in Contents : CreateProfile(p, c) \/ UpdateProfile(p, c)
          \/ ReadProfile(p) \/ ConfirmProfile(p) \/ ActivateProfile(p)

InForce(i) ==
    {p \in Profiles : /\ profile[p].status = "ACTIVE"
                      /\ profile[p].content.from <= i /\ i < profile[p].content.to}

-----------------------------------------------------------------------------
\* The tax of every instant is settled and approved: at most one profile is in
\* force, with exactly the contents its approver was shown, although drafts are
\* edited while they are being read (TaxService.confirmProfile, activateProfile).
TaxIsAsApproved ==
    /\ \A i \in 0..(MaxInstant + 1) : Cardinality(InForce(i)) <= 1
    /\ \A p \in Profiles :
          profile[p].status \in {"CONFIRMED", "ACTIVE"} => profile[p].content = page[p].content
=============================================================================
