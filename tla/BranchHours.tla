----------------------------- MODULE BranchHours -----------------------------
(***************************************************************************)
(* The opening hours of a branch: weekly schedules that take effect from a *)
(* date, special hours of single dates, and the resolution of an instant   *)
(* into an open window and a business date (apps/api/src/branch-hours).    *)
(*                                                                         *)
(* Dates are numbers; date d is weekday (d % Week) + 1.  A day has Day     *)
(* minutes.  The two times at which hours are read are one instant of the  *)
(* branch's local clock; how a timezone maps instants to it is left out.   *)
(***************************************************************************)
EXTENDS Naturals, FiniteSets

CONSTANTS
    Day, Week,      \* minutes of a day, days of a week: 1440 and 7 in the code
    LastDate,       \* bound of the calendar
    Schedules,      \* identities of branch schedule versions
    Specials,       \* identities of special hours versions
    Starts,         \* dates from which somebody wants a schedule
    Holidays,       \* dates for which somebody wants special hours
    WeeklyChoices,  \* cutoff minutes with weekly windows somebody asks for
    SpecialChoices  \* kinds with windows somebody asks for on one date

ASSUME HoursAssumption ==
    /\ Day \in Nat \ {0} /\ Week \in Nat \ {0} /\ LastDate \in Nat \ {0}
    /\ Starts \cup Holidays \subseteq 1..LastDate
    /\ \A c \in WeeklyChoices :
          /\ c.cutoff \in 0..(Day - 1)
          /\ \A w \in c.windows :
                w.weekday \in 1..Week /\ w.opens \in 0..(Day - 1) /\ w.lasts \in 1..Day
    /\ \A c \in SpecialChoices :
          /\ c.kind \in {"CLOSED", "CUSTOM_HOURS"}
          /\ \A w \in c.windows : w.opens \in 0..(Day - 1) /\ w.lasts \in 1..Day

VARIABLES
    today,      \* the branch's local date
    schedule,   \* branch_schedule_versions with their weekly windows
    special     \* branch_special_hours with their windows

hoursVars == <<today, schedule, special>>

Dates == 1..LastDate
NoSchedule == [status |-> "NONE", from |-> 0, choice |-> [cutoff |-> 0, windows |-> {}]]
NoSpecial  == [status |-> "NONE", date |-> 0, choice |-> [kind |-> "CLOSED", windows |-> {}]]

HoursTypeOK ==
    /\ today \in Dates
    /\ schedule \in [Schedules ->
          {NoSchedule} \cup [status: {"DRAFT", "ACTIVE", "CANCELLED"},
                            from: Starts, choice: WeeklyChoices]]
    /\ special \in [Specials ->
          {NoSpecial} \cup [status: {"DRAFT", "ACTIVE", "SUPERSEDED", "CANCELLED"},
                           date: Holidays, choice: SpecialChoices]]

HoursInit ==
    /\ today = 1
    /\ schedule = [s \in Schedules |-> NoSchedule]
    /\ special = [s \in Specials |-> NoSpecial]

-----------------------------------------------------------------------------
(* branch-hours-policy.ts *)

SegmentsUncut(w) ==
    LET start == (w.weekday - 1) * Day + w.opens IN {<<start, start + w.lasts>>}

\* A window as segments of the week, cut in two at its end.
Segments(w) ==
    LET start == (w.weekday - 1) * Day + w.opens
        end   == start + w.lasts
    IN  IF end <= Week * Day THEN {<<start, end>>}
        ELSE {<<start, Week * Day>>, <<0, end - Week * Day>>}

Meet(p, q) == p[1] < q[2] /\ q[1] < p[2]

WeeklyWindowsOverlap(W) ==
    \E v, w \in W : v # w /\ \E p \in Segments(v), q \in Segments(w) : Meet(p, q)

SpecialWindowsOverlap(W) ==
    \E v, w \in W : v # w /\ Meet(<<v.opens, v.opens + v.lasts>>, <<w.opens, w.opens + w.lasts>>)

SpecialIsSound(c) ==
    /\ c.kind = "CLOSED" => c.windows = {}
    /\ c.kind = "CUSTOM_HOURS" => c.windows # {} /\ ~SpecialWindowsOverlap(c.windows)

-----------------------------------------------------------------------------
(* branch-hours.service.ts.  A revision that was overtaken is refused, so   *)
(* each operation reads what it writes.                                     *)

CreateSchedule(s, from, c) ==
    /\ schedule[s].status = "NONE"
    /\ ~WeeklyWindowsOverlap(c.windows)
    /\ schedule' = [schedule EXCEPT ![s] =
                      [status |-> "DRAFT", from |-> from, choice |-> c]]
    /\ UNCHANGED <<today, special>>

UpdateSchedule(s, from, c) ==
    /\ schedule[s].status = "DRAFT"
    /\ ~WeeklyWindowsOverlap(c.windows)
    /\ schedule' = [schedule EXCEPT ![s] = [status |-> "DRAFT", from |-> from, choice |-> c]]
    /\ UNCHANGED <<today, special>>

ActivateSchedule(s) ==
    /\ schedule[s].status = "DRAFT"
    /\ ~WeeklyWindowsOverlap(schedule[s].choice.windows)
    /\ schedule[s].from >= today
    /\ \A r \in Schedules \ {s} :
          ~(schedule[r].status = "ACTIVE" /\ schedule[r].from = schedule[s].from)
    /\ schedule' = [schedule EXCEPT ![s].status = "ACTIVE"]
    /\ UNCHANGED <<today, special>>

CancelScheduleInEffect(s) ==
    /\ schedule[s].status = "ACTIVE"
    /\ schedule' = [schedule EXCEPT ![s].status = "CANCELLED"]
    /\ UNCHANGED <<today, special>>

CancelSchedule(s) ==
    /\ schedule[s].status = "ACTIVE"
    /\ schedule[s].from > today
    /\ schedule' = [schedule EXCEPT ![s].status = "CANCELLED"]
    /\ UNCHANGED <<today, special>>

CreateSpecialHours(s, date, c) ==
    /\ special[s].status = "NONE"
    /\ SpecialIsSound(c)
    /\ special' = [special EXCEPT ![s] =
                     [status |-> "DRAFT", date |-> date, choice |-> c]]
    /\ UNCHANGED <<today, schedule>>

UpdateSpecialHours(s, date, c) ==
    /\ special[s].status = "DRAFT"
    /\ SpecialIsSound(c)
    /\ special' = [special EXCEPT ![s] = [status |-> "DRAFT", date |-> date, choice |-> c]]
    /\ UNCHANGED <<today, schedule>>

\* The version that was active for the date is superseded with it.
ActivateSpecialHours(s) ==
    /\ special[s].status = "DRAFT"
    /\ SpecialIsSound(special[s].choice)
    /\ special[s].date >= today
    /\ special' = [r \in Specials |->
                     IF r = s THEN [special[r] EXCEPT !.status = "ACTIVE"]
                     ELSE IF special[r].status = "ACTIVE" /\ special[r].date = special[s].date
                          THEN [special[r] EXCEPT !.status = "SUPERSEDED"]
                          ELSE special[r]]
    /\ UNCHANGED <<today, schedule>>

CancelSpecialHours(s) ==
    /\ special[s].status = "ACTIVE"
    /\ special[s].date >= today
    /\ special' = [special EXCEPT ![s].status = "CANCELLED"]
    /\ UNCHANGED <<today, schedule>>

Midnight ==
    /\ today < LastDate
    /\ today' = today + 1
    /\ UNCHANGED <<schedule, special>>

HoursNext ==
    \/ Midnight
    \/ \E s \in Schedules :
          \/ \E from \in Starts, c \in WeeklyChoices :
                CreateSchedule(s, from, c) \/ UpdateSchedule(s, from, c)
          \/ ActivateSchedule(s) \/ CancelSchedule(s)
    \/ \E s \in Specials :
          \/ \E date \in Holidays, c \in SpecialChoices :
                CreateSpecialHours(s, date, c) \/ UpdateSpecialHours(s, date, c)
          \/ ActivateSpecialHours(s) \/ CancelSpecialHours(s)

-----------------------------------------------------------------------------
(* business-date-resolver.ts and resolveForTrustedBranch *)

EffectiveSchedules(date) ==
    {s \in Schedules : schedule[s].status = "ACTIVE" /\ schedule[s].from <= date}
EffectiveSchedule(date) ==
    CHOOSE s \in EffectiveSchedules(date) :
        \A r \in EffectiveSchedules(date) : schedule[r].from <= schedule[s].from
ActiveSpecial(date) == {s \in Specials : special[s].status = "ACTIVE" /\ special[s].date = date}

\* The windows that open on a date.
Anchor(date) ==
    IF EffectiveSchedules(date) = {} THEN {}
    ELSE IF ActiveSpecial(date) # {}
         THEN special[CHOOSE s \in ActiveSpecial(date) : TRUE].choice.windows
         ELSE {[opens |-> w.opens, lasts |-> w.lasts] :
                 w \in {v \in schedule[EffectiveSchedule(date)].choice.windows :
                           v.weekday = (date % Week) + 1}}

Holds(w, offset) == w.opens <= offset /\ offset < w.opens + w.lasts

ResolveToday(date, minute) ==
    {<<date, w>> : w \in {v \in Anchor(date) : Holds(v, minute)}}

\* The windows of the day before are looked at first.
ResolveOpenWindow(date, minute) ==
    LET before == {w \in Anchor(date - 1) : Holds(w, Day + minute)}
        now    == {w \in Anchor(date) : Holds(w, minute)}
    IN  IF before # {} THEN {<<date - 1, w>> : w \in before}
                       ELSE {<<date, w>> : w \in now}

BusinessDateFor(date, minute) ==
    IF minute < schedule[EffectiveSchedule(date)].choice.cutoff THEN date - 1 ELSE date

-----------------------------------------------------------------------------
WindowsAreFound ==
    \A minute \in 0..(Day - 1) :
        LET open  == {t \in UNION {{d} \X Anchor(d) : d \in 0..today} :
                        Holds(t[2], (today - t[1]) * Day + minute)}
            found == ResolveOpenWindow(today, minute)
        IN  /\ found = {} <=> open = {}
            /\ found \subseteq open
            /\ Cardinality(found) <= 1
            /\ (/\ Cardinality(EffectiveSchedules(today)) = 1
                /\ \A d \in 0..today : ActiveSpecial(d) = {}) => found = open

BusinessDatesAdvance ==
    \A d \in Dates, m, n \in 0..(Day - 1) :
        EffectiveSchedules(d) # {} =>
            /\ m < n => BusinessDateFor(d, m) <= BusinessDateFor(d, n)
            /\ d < LastDate => BusinessDateFor(d, m) <= BusinessDateFor(d + 1, n)

\* Whatever was planned, edited, superseded and cancelled, resolving an instant
\* (BranchHoursService.resolveForTrustedBranch) finds a window of today exactly
\* when one that opened on this or any earlier date has not closed yet, and only
\* one: two windows of one schedule are never open together, not even at the end
\* of the week.  As time passes, and one schedule follows the other with another
\* cutoff, the business date never goes back.  And no operation changes which
\* schedule and which hours a past date had: what shifts and reports took from
\* them stays explainable.
ResolutionIsTimetable ==
    /\ [](WindowsAreFound /\ BusinessDatesAdvance)
    /\ [][\A d \in 1..(today - 1) : /\ EffectiveSchedules(d)' = EffectiveSchedules(d)
                                    /\ Anchor(d)' = Anchor(d)]_hoursVars
=============================================================================
