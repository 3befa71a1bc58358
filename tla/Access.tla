------------------------------- MODULE Access -------------------------------
(***************************************************************************)
(* Who is let in: the sessions of one member of staff, the account, its    *)
(* roles and the devices (apps/api/src/auth/auth.service.ts,               *)
(* session-auth.guard.ts, apps/api/src/administration/                     *)
(* administration.service.ts, SecurityOperationsService.revokeSession, and *)
(* the session trigger of migration 202608080003).                         *)
(*                                                                         *)
(* A login reads the device and the user in separate queries and opens its *)
(* session in a transaction that looks at neither again; it may be         *)
(* overtaken by any command of an administrator.  Passwords, the second    *)
(* factor and the locks can only stop it (MultiFactor, LoginThrottle).     *)
(***************************************************************************)
EXTENDS Naturals, FiniteSets

CONSTANTS
    Devices,
    Roles,
    Sessions,
    Arrivals,   \* logins under way
    MaxEra,     \* bound of the withdrawals of access
    NoDevice

ASSUME AccessAssumption == MaxEra \in Nat

VARIABLES
    account,    \* the user: "ACTIVE" or "DISABLED"
    roles,      \* the roles assigned now
    device,     \* device[d]
    session,    \* session[s]: status, device, and the era in which it was opened
    arrival,    \* arrival[a]: how far a login is, and on which device
    changing,   \* sessions that have asked for a change of password
    era         \* how often access was withdrawn or given back: not in the code

accessVars == <<account, roles, device, session, arrival, changing, era>>

Gone == [step |-> "none", device |-> NoDevice]

AccessTypeOK ==
    /\ account \in {"ACTIVE", "DISABLED"}
    /\ roles \subseteq Roles /\ roles # {}
    /\ device \in [Devices -> {"none", "PENDING", "ACTIVE", "REVOKED"}]
    /\ session \in [Sessions -> [status: {"none", "ACTIVE", "REVOKED"}, expired: BOOLEAN,
                                 device: Devices \cup {NoDevice}, era: 0..MaxEra]]
    /\ arrival \in [Arrivals -> [step: {"none", "device", "user"},
                                 device: Devices \cup {NoDevice}]]
    /\ changing \subseteq Sessions
    /\ era \in 0..MaxEra

\* A member of staff is created with a role.
AccessInit ==
    /\ account = "ACTIVE"
    /\ roles \in {{r} : r \in Roles}
    /\ device = [d \in Devices |-> "none"]
    /\ session = [s \in Sessions |-> [status |-> "none", expired |-> FALSE,
                                      device |-> NoDevice, era |-> 0]]
    /\ arrival = [a \in Arrivals |-> Gone]
    /\ changing = {}
    /\ era = 0

-----------------------------------------------------------------------------
\* SessionAuthGuard: the session a request may use.
Served(s) ==
    /\ session[s].status = "ACTIVE" /\ ~session[s].expired
    /\ account = "ACTIVE"
    /\ device[session[s].device] = "ACTIVE"

Revoked(S) ==
    [s \in Sessions |-> IF s \in S /\ session[s].status = "ACTIVE"
                        THEN [session[s] EXCEPT !.status = "REVOKED"] ELSE session[s]]

Expire(s) ==
    /\ session[s].status = "ACTIVE" /\ ~session[s].expired
    /\ session' = [session EXCEPT ![s].expired = TRUE]
    /\ UNCHANGED <<account, roles, device, arrival, changing, era>>

CheckDevice(a, d) ==
    /\ arrival[a] = Gone
    /\ device[d] = "ACTIVE"
    /\ arrival' = [arrival EXCEPT ![a] = [step |-> "device", device |-> d]]
    /\ UNCHANGED <<account, roles, device, session, changing, era>>

CheckUser(a) ==
    /\ arrival[a].step = "device"
    /\ account = "ACTIVE"
    /\ arrival' = [arrival EXCEPT ![a].step = "user"]
    /\ UNCHANGED <<account, roles, device, session, changing, era>>

Reject(a) ==
    /\ arrival[a] # Gone
    /\ arrival' = [arrival EXCEPT ![a] = Gone]
    /\ UNCHANGED <<account, roles, device, session, changing, era>>

OpenSession(a, s) ==
    /\ arrival[a].step = "user"
    /\ session[s].status = "none"
    /\ session' = [session EXCEPT ![s] = [status |-> "ACTIVE", expired |-> FALSE,
                                          device |-> arrival[a].device, era |-> era]]
    /\ arrival' = [arrival EXCEPT ![a] = Gone]
    /\ UNCHANGED <<account, roles, device, changing, era>>

\* The guard has let the request in some time before; the trigger refuses a
\* session that is no longer active.
Logout(s) ==
    /\ session[s].status = "ACTIVE"
    /\ session' = Revoked({s})
    /\ changing' = changing \ {s}
    /\ UNCHANGED <<account, roles, device, arrival, era>>

AskForPassword(s) ==
    /\ Served(s)
    /\ changing' = changing \cup {s}
    /\ UNCHANGED <<account, roles, device, session, arrival, era>>

\* The other sessions end; whether this one still stands is not asked again.
ChangePassword(s) ==
    /\ s \in changing
    /\ session' = Revoked(Sessions \ {s})
    /\ changing' = changing \ {s}
    /\ UNCHANGED <<account, roles, device, arrival, era>>

\* SecurityOperationsService.revokeSession, for an administrator.
RevokeSession(s) ==
    /\ session[s].status = "ACTIVE" /\ ~session[s].expired
    /\ session' = Revoked({s})
    /\ UNCHANGED <<account, roles, device, arrival, changing, era>>

Withdraws == era < MaxEra /\ era' = era + 1

AssignStaffRole(r) ==
    /\ r \notin roles
    /\ roles' = roles \cup {r}
    /\ UNCHANGED <<account, device, session, arrival, changing, era>>

\* A wrong version: the last role may be taken away too.
RemoveAnyRole(r) ==
    /\ r \in roles
    /\ roles' = roles \ {r}
    /\ session' = Revoked(Sessions)
    /\ Withdraws
    /\ UNCHANGED <<account, device, arrival, changing>>

RemoveStaffRole(r) ==
    /\ r \in roles
    /\ Cardinality(roles) > 1
    /\ roles' = roles \ {r}
    /\ session' = Revoked(Sessions)
    /\ Withdraws
    /\ UNCHANGED <<account, device, arrival, changing>>

DisableStaff ==
    /\ account = "ACTIVE"
    /\ account' = "DISABLED"
    /\ session' = Revoked(Sessions)
    /\ Withdraws
    /\ UNCHANGED <<roles, device, arrival, changing>>

ReactivateStaffOnly ==
    /\ account = "DISABLED"
    /\ roles # {}
    /\ account' = "ACTIVE"
    /\ session' = session
    /\ Withdraws
    /\ UNCHANGED <<roles, device, arrival, changing>>

\* A login that was overtaken by the disabling has opened its session since.
ReactivateStaff ==
    /\ account = "DISABLED"
    /\ roles # {}
    /\ account' = "ACTIVE"
    /\ session' = Revoked(Sessions)
    /\ Withdraws
    /\ UNCHANGED <<roles, device, arrival, changing>>

CreateDevice(d) ==
    /\ device[d] = "none"
    /\ device' = [device EXCEPT ![d] = "PENDING"]
    /\ UNCHANGED <<account, roles, session, arrival, changing, era>>

ActivateAnyDevice(d) ==
    /\ device[d] \in {"PENDING", "REVOKED"}
    /\ device' = [device EXCEPT ![d] = "ACTIVE"]
    /\ UNCHANGED <<account, roles, session, arrival, changing, era>>

ActivateDevice(d) ==
    /\ device[d] = "PENDING"
    /\ device' = [device EXCEPT ![d] = "ACTIVE"]
    /\ UNCHANGED <<account, roles, session, arrival, changing, era>>

RevokeDevice(d) ==
    /\ device[d] \in {"PENDING", "ACTIVE"}
    /\ device' = [device EXCEPT ![d] = "REVOKED"]
    /\ session' = Revoked({s \in Sessions : session[s].device = d})
    /\ UNCHANGED <<account, roles, arrival, changing, era>>

AccessNext ==
    \/ DisableStaff \/ ReactivateStaff
    \/ \E r \in Roles : AssignStaffRole(r) \/ RemoveStaffRole(r)
    \/ \E d \in Devices :
          \/ CreateDevice(d) \/ ActivateDevice(d) \/ RevokeDevice(d)
          \/ \E a \in Arrivals : CheckDevice(a, d)
    \/ \E a \in Arrivals :
          CheckUser(a) \/ Reject(a) \/ \E s \in Sessions : OpenSession(a, s)
    \/ \E s \in Sessions :
          \/ Expire(s) \/ Logout(s) \/ RevokeSession(s)
          \/ AskForPassword(s) \/ ChangePassword(s)

-----------------------------------------------------------------------------
\* Whatever access was withdrawn stays withdrawn.  A session that is let in was
\* opened after the last time a role was removed or the account was disabled or
\* reactivated (AdministrationService), also one whose login was overtaken; and one
\* that was refused because it had ended, or because its device had been revoked,
\* is never let in again.
WithdrawnAccessStays ==
    /\ [](\A s \in Sessions : session[s].status # "none" /\ Served(s) => session[s].era = era)
    /\ [][\A s \in Sessions :
             (\/ session[s].status = "REVOKED" \/ session[s].expired
              \/ session[s].status = "ACTIVE" /\ device[session[s].device] = "REVOKED")
             => ~Served(s)']_accessVars
=============================================================================
