----------------------------- MODULE MultiFactor -----------------------------
(***************************************************************************)
(* The second factor of one member of staff: enrolment, activation, reset  *)
(* and disabling of a credential, its recovery codes, and the logins that  *)
(* use them (apps/api/src/auth/mfa.service.ts, AuthService.login, and the  *)
(* triggers of migrations 202608100002 and 202608100003).                  *)
(*                                                                         *)
(* Every command reads first and writes in a later transaction, so two     *)
(* commands may both have read what only one of them may use.  Credentials *)
(* are numbered in the order of their enrolment and have one recovery code *)
(* each, known by the number of its credential.                            *)
(***************************************************************************)
EXTENDS Naturals, FiniteSets

CONSTANTS
    Requests,        \* logins and commands under way
    MaxCredentials   \* bound of the enrolments

ASSUME FactorAssumption == MaxCredentials \in Nat

VARIABLES
    credential,   \* credential[n]: its status
    code,         \* code[n]: "unused" or "used"
    request,      \* request[r]: what it does and what it has read
    opened        \* opened[n]: logins and disablings the code of n has paid for

factorVars == <<credential, code, request, opened>>

Numbers == 1..MaxCredentials
Waiting == [does |-> "nothing", reads |-> 0, pays |-> 0]

FactorTypeOK ==
    /\ credential \in [Numbers -> {"none", "PENDING", "ACTIVE", "DISABLED"}]
    /\ code \in [Numbers -> {"unused", "used"}]
    /\ request \in [Requests -> [does: {"nothing", "enroll", "activate", "reset", "disable", "login"},
                                 reads: 0..MaxCredentials, pays: 0..MaxCredentials]]
    /\ opened \in [Numbers -> Nat]

FactorInit ==
    /\ credential = [n \in Numbers |-> "none"]
    /\ code = [n \in Numbers |-> "unused"]
    /\ request = [r \in Requests |-> Waiting]
    /\ opened = [n \in Numbers |-> 0]

-----------------------------------------------------------------------------
Current == {n \in Numbers : credential[n] \in {"PENDING", "ACTIVE"}}
Fresh(n) == n \in Numbers /\ \A m \in Numbers : m < n <=> credential[m] # "none"

Reads(r, what, n, paid) ==
    /\ request[r] = Waiting
    /\ request' = [request EXCEPT ![r] = [does |-> what, reads |-> n, pays |-> paid]]
    /\ UNCHANGED <<credential, code, opened>>

Returns(r) == request' = [request EXCEPT ![r] = Waiting]

\* verifyLoginCredential with a one-time password, or with a recovery code that
\* has not been used so far.
Proof(n) == {0} \cup {c \in {n} : code[c] = "unused"}

\* The code is used up by the transaction that needs it, if it still can be.
RedeemAsRead(paid) ==
    /\ code' = [c \in Numbers |-> IF c = paid THEN "used" ELSE code[c]]
    /\ opened' = [c \in Numbers |-> IF c = paid THEN opened[c] + 1 ELSE opened[c]]

Redeem(paid) ==
    /\ paid # 0 => code[paid] = "unused"
    /\ code' = [c \in Numbers |-> IF c = paid THEN "used" ELSE code[c]]
    /\ opened' = [c \in Numbers |-> IF c = paid THEN opened[c] + 1 ELSE opened[c]]

BeginEnroll(r)   == Current = {} /\ Reads(r, "enroll", 0, 0)
BeginActivate(r) == \E n \in Current : credential[n] = "PENDING" /\ Reads(r, "activate", n, 0)
BeginReset(r)    == \E n \in Current : credential[n] = "PENDING" /\ Reads(r, "reset", n, 0)
BeginDisable(r)  ==
    \E n \in Current : credential[n] = "ACTIVE" /\ \E paid \in Proof(n) : Reads(r, "disable", n, paid)

\* A login without an active credential needs no second factor.
BeginLogin(r) ==
    \/ /\ \A n \in Current : credential[n] # "ACTIVE"
       /\ Reads(r, "login", 0, 0)
    \/ \E n \in Current : /\ credential[n] = "ACTIVE"
                          /\ \E paid \in Proof(n) : Reads(r, "login", n, paid)

\* The table allows one credential per person that is not disabled.
EndEnroll(r) ==
    /\ request[r].does = "enroll"
    /\ Current = {}
    /\ \E n \in Numbers : Fresh(n) /\ credential' = [credential EXCEPT ![n] = "PENDING"]
    /\ Returns(r)
    /\ UNCHANGED <<code, opened>>

\* The trigger knows the status the row has now; it lets an active credential be
\* disabled by a reset that read it as pending.
Allowed(from, to) ==
    <<from, to>> \in {<<"PENDING", "ACTIVE">>, <<"PENDING", "DISABLED">>, <<"ACTIVE", "DISABLED">>}

Becomes(r, status) ==
    /\ Allowed(credential[request[r].reads], status)
    /\ credential' = [credential EXCEPT ![request[r].reads] = status]

EndActivate(r) ==
    /\ request[r].does = "activate"
    /\ Becomes(r, "ACTIVE")
    /\ Returns(r)
    /\ UNCHANGED <<code, opened>>

EndReset(r) ==
    /\ request[r].does = "reset"
    /\ Becomes(r, "DISABLED")
    /\ Returns(r)
    /\ UNCHANGED <<code, opened>>

EndDisable(r) ==
    /\ request[r].does = "disable"
    /\ Redeem(request[r].pays)
    /\ Becomes(r, "DISABLED")
    /\ Returns(r)

\* The session is opened.
EndLogin(r) ==
    /\ request[r].does = "login"
    /\ Redeem(request[r].pays)
    /\ Returns(r)
    /\ UNCHANGED credential

\* A request fails, at the latest because its transaction does.
Fails(r) ==
    /\ request[r] # Waiting
    /\ Returns(r)
    /\ UNCHANGED <<credential, code, opened>>

FactorNext ==
    \E r \in Requests :
        \/ BeginEnroll(r) \/ BeginActivate(r) \/ BeginReset(r) \/ BeginDisable(r) \/ BeginLogin(r)
        \/ EndEnroll(r) \/ EndActivate(r) \/ EndReset(r) \/ EndDisable(r) \/ EndLogin(r)
        \/ Fails(r)

-----------------------------------------------------------------------------
\* A recovery code is worth one login or one disabling, however many requests
\* have found it unused (AuthService.login, MfaService.disable), and a person
\* never has two credentials that count.
CodesAreSpentOnce ==
    /\ \A n \in Numbers : opened[n] <= 1
    /\ Cardinality(Current) <= 1
=============================================================================
