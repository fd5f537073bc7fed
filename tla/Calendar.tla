------------------------------ MODULE Calendar ------------------------------
(* The reset calendar of an allowance: internal/allocations/calendar.go and   *)
(* internal/timezone/calendar.go.  Instants are ticks.  A zone has an offset  *)
(* before its first change and one from each change on.  Civil days are       *)
(* numbered, and have DayTicks ticks on the wall clock; the months of a year  *)
(* begin on its days MonthStarts, of which the last is the length of the year *)
(* (daysBefore of package time).                                              *)
(*                                                                            *)
(* A schedule is the part of a Config that sameSchedule compares:             *)
(*   [mode, period, reset (tick of the day), day (of the month, 0 for none),  *)
(*    windows (durations, in ticks)].                                         *)
EXTENDS Integers, FiniteSets, FiniteSetsExt, Sequences, Functions

CONSTANTS
  DayTicks, MonthStarts,
  CivilZones, \* [before, changes]: an offset, and a map from instants to offsets
  Calendars,  \* schedules by day or month
  Horizon     \* bound: the last instant looked at

ASSUME CalendarAssumption ==
  /\ DayTicks \in Nat \ {0}
  /\ MonthStarts \in Seq(Nat) /\ Len(MonthStarts) > 1 /\ MonthStarts[1] = 0
  /\ \A i, j \in DOMAIN MonthStarts : i < j => MonthStarts[i] < MonthStarts[j]

-----------------------------------------------------------------------------
(* The zone database and the civil calendar (package time).                   *)

offset(z, t) ==
  LET past == {c \in DOMAIN z.changes : c <= t} IN IF past = {} THEN z.before ELSE z.changes[Max(past)]
offsets(z) == {z.before} \cup Range(z.changes)
local(z, t) == t + offset(z, t)
civilDay(z, t) == local(z, t) \div DayTicks

months == Len(MonthStarts) - 1
yearDays == MonthStarts[Len(MonthStarts)]
firstOfMonth(mo) == (mo \div months) * yearDays + MonthStarts[(mo % months) + 1]
monthLength(mo) == MonthStarts[(mo % months) + 2] - MonthStarts[(mo % months) + 1]
monthOf(d) ==
  LET day == d % yearDays IN
  (d \div yearDays) * months
    + CHOOSE j \in 0..(months - 1) : MonthStarts[j + 1] <= day /\ day < MonthStarts[j + 2]

-----------------------------------------------------------------------------
\* The least instant of lo..hi at which the civil date has reached d, found
\* by halving.
search(d, z, first, last) ==
  LET f[r \in (first..last) \X (first..last)] ==
        LET mid == r[1] + (r[2] - r[1]) \div 2 IN
        IF r[1] >= r[2] THEN r[1]
        ELSE IF civilDay(z, mid) >= d THEN f[<<r[1], mid>>] ELSE f[<<mid + 1, r[2]>>]
  IN  f[<<first, last>>]

\* One of the instants whose wall clock shows the midnight that opens d: which
\* one time.Date returns when it is repeated is not specified.
midnights(d, z) == {t \in {d * DayTicks - o : o \in offsets(z)} : local(z, t) = d * DayTicks}

\* A midnight that a second of the same date precedes is not its start.
DayStart(d, z) ==
  IF \E t \in midnights(d, z) : civilDay(z, t - 1) # d
  THEN CHOOSE t \in midnights(d, z) : civilDay(z, t - 1) # d
  ELSE search(d, z, (d - 2) * DayTicks, (d + 2) * DayTicks)

\* The stretches of constant offset of [start, end).
segments(z, start, end) ==
  LET begins == {start} \cup {c \in DOMAIN z.changes : start < c /\ c < end} IN
  {<<s, Min({end} \cup {c \in begins : s < c})>> : s \in begins}

\* The first instant from s on whose wall clock would have reached want at the offset of s.
candidate(want, z, s) == Max({want - offset(z, s), s})

\* The first instant of a stretch, starting in [start, end), whose wall clock
\* has reached want; end if there is none.
firstReaching(want, z, start, end) ==
  Min({end} \cup {candidate(want, z, s[1]) : s \in {p \in segments(z, start, end) : candidate(want, z, p[1]) < p[2]}})

mWallTime(d, tick, z) == d * DayTicks + tick - offset(z, DayStart(d, z))

\* A skipped time of day is the next valid instant, a repeated one its first.
wallTime(d, tick, z) == firstReaching(d * DayTicks + tick, z, DayStart(d, z), DayStart(d + 1, z))

mResetOn(d, c, z) == wallTime(IF c.period = "month" THEN d + Max({1, c.day}) - 1 ELSE d, c.reset, z)

\* d is the date, or the first of the month: a day the month lacks is its last.
resetOn(d, c, z) ==
  wallTime(IF c.period = "month" THEN d + Min({Max({1, c.day}), monthLength(monthOf(d))}) - 1 ELSE d,
           c.reset, z)

\* n days, or months, from d.
addDate(d, n, c) == IF c.period = "month" THEN firstOfMonth(monthOf(d) + n) ELSE d + n

windowAt(now, c, z, date, current) ==
  IF now < current
  THEN [start |-> resetOn(addDate(date, -1, c), c, z), end |-> current]
  ELSE [start |-> current, end |-> resetOn(addDate(date, 1, c), c, z)]

dateWindow(now, c, z, date) == windowAt(now, c, z, date, resetOn(date, c, z))

Window(now, c, z) == dateWindow(now, c, z, addDate(civilDay(z, now), 0, c))

durationWindow(now, anchor, len) ==
  LET start == anchor + ((now - anchor) \div len) * len IN
  IF now < anchor THEN [start |-> anchor, end |-> anchor + len] ELSE [start |-> start, end |-> start + len]

validResetSchedule(c) ==
  IF c.period = "durations" THEN c.reset = 0 /\ c.day = 0
  ELSE /\ c.reset \in 0..(DayTicks - 1)
       /\ IF c.period = "day" THEN c.day = 0 ELSE c.day \in 0..31

validPeriod(c) ==
  /\ validResetSchedule(c)
  /\ IF c.period = "durations" THEN c.mode \in {"windows", "ratio"}
     ELSE c.period \in {"day", "month"} /\ c.mode # "windows"

sameSchedule(a, b) ==
  /\ validPeriod(a) /\ validPeriod(b)
  /\ a.mode = b.mode /\ a.period = b.period /\ a.reset = b.reset
  /\ Max({1, a.day}) = Max({1, b.day})
  /\ a.windows = b.windows

-----------------------------------------------------------------------------
(* Every zone, schedule and instant in turn.                                  *)

VARIABLE probes   \* {}, or one of [zone, schedule, now]

calendarVars == <<probes>>

\* A zone whose civil date never goes back: clocks are set back no further
\* than to the midnight before, as in every zone in use.
datesAdvance(z) == \A c \in DOMAIN z.changes : civilDay(z, c - 1) <= civilDay(z, c)

ASSUME ZonesAssumption ==
  \A z \in CivilZones : /\ DOMAIN z.changes \subseteq Int /\ IsFiniteSet(DOMAIN z.changes)
                       /\ offsets(z) \subseteq -DayTicks..DayTicks /\ datesAdvance(z)

ASSUME CalendarsAssumption == \A c \in Calendars : validResetSchedule(c) /\ c.period \in {"day", "month"}

CalendarInit == probes = {}

CalendarNext ==
  \/ probes = {} /\ \E z \in CivilZones, c \in Calendars : probes' = {[zone |-> z, schedule |-> c, now |-> 0]}
  \/ \E p \in probes : p.now < Horizon /\ probes' = {[p EXCEPT !.now = p.now + 1]}

CalendarSpec == CalendarInit /\ [][CalendarNext]_calendarVars

\* DayStart is the first instant of its civil date, also where midnight is
\* skipped or repeated.
DayStartFirst(p) ==
  \A d \in {civilDay(p.zone, p.now)} : \A s \in {DayStart(d, p.zone)} :
    s <= p.now /\ civilDay(p.zone, s) = d /\ civilDay(p.zone, s - 1) < d

\* A reset falls on the first instant of its date at which the wall clock has
\* reached the time of day, or on the end of a date that never reaches it.
WallTimeFirst(p) ==
  \A d \in {civilDay(p.zone, p.now)} :
  \A s \in {DayStart(d, p.zone)}, n \in {DayStart(d + 1, p.zone)} :
    wallTime(d, p.schedule.reset, p.zone) =
      Min({n} \cup {t \in s..(n - 1) : local(p.zone, t) >= d * DayTicks + p.schedule.reset})

\* The window computed for an instant holds that instant.
WindowHolds(p) ==
  \A w \in {Window(p.now, p.schedule, p.zone)} : w.start <= p.now /\ p.now < w.end

\* Every instant of a window has that window, and the next one starts where it
\* ends, across changes of the clock and months that lack the reset day.
WindowsTile(p) ==
  \A w \in {Window(p.now, p.schedule, p.zone)} :
    /\ \A t \in w.start..(w.end - 1) : Window(t, p.schedule, p.zone) = w
    /\ Window(w.end, p.schedule, p.zone).start = w.end

\* The reset calendar is that of the wall clock at every instant, on days that
\* the clock changes too: days and resets begin at the first instant that
\* reaches them, and the windows follow one another without gap or overlap.
CalendarSound == \A p \in probes : DayStartFirst(p) /\ WallTimeFirst(p) /\ WindowHolds(p) /\ WindowsTile(p)
=============================================================================
