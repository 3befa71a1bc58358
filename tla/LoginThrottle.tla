---------------------------- MODULE LoginThrottle ----------------------------
(***************************************************************************)
(* The failed-login counters and their locks, with logins that run side by *)
(* side (apps/api/src/auth/login-throttle.service.ts and -policy.ts, and   *)
(* AuthService.login and rejectLogin in auth.service.ts).  A login takes   *)
(* its time once, when it starts, and every step until its end uses it.    *)
(*                                                                         *)
(* Whether the device, the password and the second factor are right is     *)
(* chosen freely.  The device and the network address have a counter each  *)
(* that behaves alike; Perimeter may hold both.                            *)
(***************************************************************************)
EXTENDS Naturals

CONSTANTS
    Logins,          \* requests under way
    Accounts,        \* the counters of accounts
    Perimeter,       \* the counters of devices and network addresses
    AccountLimit,    \* failures that lock an account
    PerimeterLimit,  \* and a device or an address
    Window, Lockout, \* durations
    LastTick         \* bound of the clock

ASSUME ThrottleAssumption ==
    /\ Accounts # {}
    /\ AccountLimit \in Nat \ {0} /\ PerimeterLimit \in Nat \ {0}
    /\ Window \in Nat \ {0} /\ Lockout \in Nat \ {0} /\ LastTick \in Nat \ {0}

VARIABLES
    tick,     \* the clock
    bucket,   \* bucket[k]: login_throttle_buckets
    login     \* login[l]: where the request is, its time and its account

throttleVars == <<tick, bucket, login>>

Buckets == Accounts \cup Perimeter
Limit(k) == IF k \in Accounts THEN AccountLimit ELSE PerimeterLimit
Idle == [step |-> "idle", at |-> 0, account |-> CHOOSE k \in Accounts : TRUE]
Empty == [failures |-> 0, since |-> 0, until |-> 0]   \* until = 0: no lock

ThrottleTypeOK ==
    /\ tick \in 1..LastTick
    /\ \A k \in Buckets : /\ bucket[k].failures \in 0..Limit(k)
                       /\ bucket[k].since \in 0..LastTick
                       /\ bucket[k].until \in 0..(LastTick + Lockout)
    /\ login \in [Logins -> [step: {"idle", "started", "checked", "passed", "unlocked"},
                             at: 0..LastTick, account: Accounts]]

ThrottleInit ==
    /\ tick = 1
    /\ bucket = [k \in Buckets |-> Empty]
    /\ login = [l \in Logins |-> Idle]

-----------------------------------------------------------------------------
Locked(k, now) == bucket[k].until > now
Mine(l) == {login[l].account} \cup Perimeter

Goes(l, step) ==
    /\ login' = [login EXCEPT ![l].step = step]
    /\ UNCHANGED <<tick, bucket>>

Finished(l) == login' = [login EXCEPT ![l] = Idle]

TickOn ==
    /\ tick < LastTick
    /\ tick' = tick + 1
    /\ UNCHANGED <<bucket, login>>

\* The perimeter is checked before anything else; a locked one ends the login.
Start(l, account) ==
    /\ login[l].step = "idle"
    /\ \A k \in Perimeter : ~Locked(k, tick)
    /\ login' = [login EXCEPT ![l] = [step |-> "started", at |-> tick, account |-> account]]
    /\ UNCHANGED <<tick, bucket>>

CheckAccount(l) ==
    /\ login[l].step = "started"
    /\ IF Locked(login[l].account, login[l].at)
       THEN Finished(l) /\ UNCHANGED <<tick, bucket>>
       ELSE Goes(l, "checked")

\* nextLoginThrottleState.
NextStateWhileLocked(b, now, limit) ==
    LET anew     == b = Empty \/ b.until # 0 \/ now >= b.since + Window
        failures == IF anew THEN 1 ELSE b.failures + 1
    IN  [failures |-> failures, since |-> IF anew THEN now ELSE b.since,
         until |-> IF failures >= limit THEN now + Lockout ELSE 0]

NextState(b, now, limit) ==
    LET anew     == b = Empty \/ b.until # 0 \/ now >= b.since + Window
        failures == IF anew THEN 1 ELSE b.failures + 1
    IN  IF b.until > now THEN b
        ELSE [failures |-> failures, since |-> IF anew THEN now ELSE b.since,
              until |-> IF failures >= limit THEN now + Lockout ELSE 0]

\* recordFailure, one serializable transaction over all counters of the login.
Fail(l) ==
    /\ login[l].step = "checked"
    /\ bucket' = [k \in Buckets |-> IF k \in Mine(l)
                                 THEN NextState(bucket[k], login[l].at, Limit(k))
                                 ELSE bucket[k]]
    /\ Finished(l)
    /\ UNCHANGED tick

Pass(l) == login[l].step = "checked" /\ Goes(l, "passed")

\* The locks are looked at again after the password has been verified.
Recheck(l) ==
    /\ login[l].step = "passed"
    /\ IF \E k \in Mine(l) : Locked(k, login[l].at)
       THEN Finished(l) /\ UNCHANGED <<tick, bucket>>
       ELSE Goes(l, "unlocked")

\* resetAccount; the session follows.
Succeed(l) ==
    /\ login[l].step = "unlocked"
    /\ bucket' = [bucket EXCEPT ![login[l].account] =
                     [failures |-> 0, since |-> login[l].at, until |-> 0]]
    /\ Finished(l)
    /\ UNCHANGED tick

ThrottleNext ==
    \/ TickOn
    \/ \E l \in Logins :
          \/ \E account \in Accounts : Start(l, account)
          \/ CheckAccount(l) \/ Fail(l) \/ Pass(l) \/ Recheck(l) \/ Succeed(l)

-----------------------------------------------------------------------------
\* A lock lasts as long as it was set for, whatever logins that started before it
\* still report (nextLoginThrottleState): only a login that got through ends the
\* lock of its own account early, and nothing that of a device or an address.
LocksHold ==
    [][\A k \in Buckets :
          Locked(k, tick) =>
             \/ bucket'[k].until >= bucket[k].until
             \/ \E l \in Logins : login[l].step = "unlocked" /\ login[l].account = k]_throttleVars
=============================================================================
