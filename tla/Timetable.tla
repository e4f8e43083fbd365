------------------------------ MODULE Timetable ------------------------------
(***************************************************************************)
(* When a scheduled payment is due (server/src/schedules/timetable.ts,     *)
(* and firstToCome of schedules/service.ts): the arithmetic of dates that  *)
(* ScheduledPayments takes as a set of dates.  A schedule is set up at     *)
(* some moment, time passes, and passes of the scheduler pay what is due.  *)
(*                                                                         *)
(* A date is a number of days; the calendar is the lengths of its months   *)
(* and the weekday of its first day, so a small calendar stands for a      *)
(* long one.  A day has two hours, the one before the payments' and theirs.*)
(***************************************************************************)
EXTENDS Integers, FiniteSets, Sequences, FiniteSetsExt

CONSTANTS
  MonthLengths,   \* of each month, in order
  FirstWeekday,   \* of day zero; Monday is 0
  Starts,         \* the days a timetable may start on
  Ends,           \* the days it may end on
  LastSetUp,      \* bound: the last day a schedule is set up on
  LastDay         \* bound: the last day of the clock

\* A month is longer than a weekend.
ASSUME CalendarAssumption ==
  /\ MonthLengths \in Seq(Nat) /\ \A m \in DOMAIN MonthLengths : MonthLengths[m] >= 3
  /\ FirstWeekday \in 0..6 /\ LastSetUp \in Nat /\ LastDay \in Nat
  /\ Starts \subseteq Nat /\ Ends \subseteq Nat

VARIABLES
  timetable,
  created,     \* the moment the schedule was set up
  clock,       \* the moment it is
  next,        \* next_due_on
  paid         \* the nominal dates paid

timetableVars == <<timetable, created, clock, next, paid>>

NoDay == -1

Months == DOMAIN MonthLengths

\* The days before each month.
MonthStart[m \in Months] == IF m = 1 THEN 0 ELSE MonthStart[m - 1] + MonthLengths[m - 1]

CalendarDays == LET last == Cardinality(Months) IN MonthStart[last] + MonthLengths[last]
MonthOf(d) == CHOOSE m \in Months : MonthStart[m] <= d /\ d < MonthStart[m] + MonthLengths[m]

\* The calendar goes on beyond the days the bounds let be asked about: no date
\* is missing because it ends.
Within(d) == d + 14 <= CalendarDays /\ \E m \in Months : d <= MonthStart[m]

ASSUME CalendarGoesOn == \A d \in Starts \cup {LastSetUp + 3, LastDay + 3} : Within(d)

WeekdayOf(d) == (FirstWeekday + d) % 7
IsWeekend(d) == WeekdayOf(d) >= 5

MaxMonth == Max({MonthLengths[m] : m \in Months})

\* The timetables checkTimetable lets through; a field that every does not use is fixed.
AllTimetables ==
  {t \in [every: {"daily", "weekly", "fortnightly", "monthly"}, weekday: 0..6,
          dayOfMonth: 1..MaxMonth, weekendRule: {"on_day", "before", "skip"},
          startOn: Starts, endOn: Ends \cup {NoDay}] :
     /\ t.every = "daily" => t.weekendRule # "before"
     /\ t.weekendRule = "skip" => t.every = "daily"
     /\ t.every \in {"daily", "monthly"} => t.weekday = 0
     /\ t.every # "monthly" => t.dayOfMonth = 1}

(***************************************************************************)
(* The date a payment falls on, and the day it is paid.                    *)
(***************************************************************************)

PayDateOf(t, d) ==
  IF t.weekendRule = "before" /\ IsWeekend(d) THEN d - (WeekdayOf(d) - 4) ELSE d

\* The first such weekday on or after d.
OnWeekday(t, d) == d + ((t.weekday - WeekdayOf(d)) % 7)

Weekday(t, d) == IF t.weekendRule = "skip" /\ IsWeekend(d) THEN d + (7 - WeekdayOf(d)) ELSE d

\* Every fourteen days from the first one on or after the start.
Fortnight(t, d) ==
  LET anchor == OnWeekday(t, t.startOn)
  IN IF d <= anchor THEN anchor ELSE anchor + 14 * ((d - anchor + 13) \div 14)

\* Mutated form: a day the month does not have runs over into the next one.
InMonthOverflowing(t, m) == MonthStart[m] + t.dayOfMonth - 1

\* A day the month does not have means its last day.
InMonth(t, m) == MonthStart[m] + Min({t.dayOfMonth, MonthLengths[m]}) - 1

Monthly(t, d) ==
  LET from[m \in Months] == IF InMonth(t, m) >= d THEN InMonth(t, m) ELSE from[m + 1]
  IN from[MonthOf(d)]

NextOccurrence(t, from) ==
  LET d == Max({from, t.startOn})
      found == CASE t.every = "daily" -> Weekday(t, d)
                 [] t.every = "weekly" -> OnWeekday(t, d)
                 [] t.every = "fortnightly" -> Fortnight(t, d)
                 [] t.every = "monthly" -> Monthly(t, d)
  IN IF t.endOn # NoDay /\ found > t.endOn THEN NoDay ELSE found

\* The moments of a day: two, of which the payments' is the second.
PayMoment(t, d) == 2 * PayDateOf(t, d) + 1
Today(now) == now \div 2
IsDue(t, d, now) == PayMoment(t, d) <= now

FirstToCome(t, now) ==
  LET first[d \in -1..CalendarDays] ==
        IF d # NoDay /\ IsDue(t, d, now) THEN first[NextOccurrence(t, d + 1)] ELSE d
  IN first[NextOccurrence(t, Today(now))]

(***************************************************************************)
(* A schedule under the clock.                                             *)
(***************************************************************************)

\* create, or a resume or an edit after the start.
TimetableInit ==
  /\ timetable \in AllTimetables
  /\ created \in 0..2 * LastSetUp + 1 /\ clock = created
  /\ next = FirstToCome(timetable, created) /\ next # NoDay
  /\ paid = {}

HourPasses ==
  /\ clock < 2 * LastDay + 1
  /\ clock' = clock + 1
  /\ UNCHANGED <<timetable, created, next, paid>>

\* A pass, and its advance(), of one date.
PayDue ==
  /\ next # NoDay /\ IsDue(timetable, next, clock)
  /\ paid' = paid \cup {next}
  /\ next' = NextOccurrence(timetable, next + 1)
  /\ UNCHANGED <<timetable, created, clock>>

TimetableNext == HourPasses \/ PayDue

TimetableSpec == TimetableInit /\ [][TimetableNext]_timetableVars

(***************************************************************************)
(* What a timetable promises.                                              *)
(***************************************************************************)

\* The dates a timetable names, as its owner would list them on a calendar.
Names(t, d) ==
  /\ t.startOn <= d /\ (t.endOn = NoDay \/ d <= t.endOn)
  /\ t.every = "daily" => (t.weekendRule = "skip" => ~IsWeekend(d))
  /\ t.every \in {"weekly", "fortnightly"} => WeekdayOf(d) = t.weekday
  /\ t.every = "fortnightly" =>
       Cardinality({e \in t.startOn..d : WeekdayOf(e) = t.weekday}) % 2 = 1
  /\ t.every = "monthly" =>
       LET m == MonthOf(d)
           day == d - MonthStart[m] + 1
       IN day = t.dayOfMonth \/ (day = MonthLengths[m] /\ day < t.dayOfMonth)

(* From the moment a schedule is set up, every date its timetable names is *)
(* paid once its moment has come and none twice, nothing whose moment was  *)
(* past by then, and with weekends moved earlier nothing on a weekend nor  *)
(* two dates on one day: whatever the lengths of the months, the weekday   *)
(* of the start and how late the passes are.                               *)
PaysItsDates ==
  LET owed == {d \in 0..CalendarDays - 1 : Names(timetable, d) /\ PayMoment(timetable, d) > created}
  IN /\ paid = {d \in owed : next = NoDay \/ d < next}
     /\ next \in owed \cup {NoDay}
     /\ \A d \in paid :
          /\ PayMoment(timetable, d) <= clock
          /\ timetable.weekendRule # "on_day" => ~IsWeekend(PayDateOf(timetable, d))
          /\ \A e \in paid : PayDateOf(timetable, d) = PayDateOf(timetable, e) => d = e
=============================================================================
