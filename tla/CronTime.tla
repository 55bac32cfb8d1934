------------------------------ MODULE CronTime ------------------------------
(***************************************************************************)
(* The schedule arithmetic of cron/cron.go: when does a job run next?      *)
(* Pure operators; ScheduleNextRun checks them against the code's loop and *)
(* Scheduler uses them for every rescheduling.                             *)
(*                                                                         *)
(* An instant is a number of ticks since the Unix epoch.  The lengths of   *)
(* the units are constants, so a small instance can have short days; a     *)
(* Second longer than one tick gives instants their sub-second part.       *)
(***************************************************************************)
EXTENDS Integers

CONSTANTS
  Second, Minute, Hour, Day,  \* ticks in each unit
  MaxDuration,                \* the largest time.Duration, in ticks
  Local                       \* the zone time.Now() reports in

(* A zone has one transition: local clocks jump by dstShift at dstFrom. *)
Zones == [offset : Int, dstFrom : Int, dstShift : Int]

ASSUME TicksAssumption ==
  /\ Second \in Nat \ {0}
  /\ Minute \in Nat \ {0}
  /\ Hour \in Nat \ {0}
  /\ Day \in Nat \ {0}
  /\ MaxDuration \in Nat
  /\ Local \in Zones

Units == {"none", "seconds", "minutes", "hours", "days", "weeks"}

(* What the schedule of a job depends on: the fields the builder methods   *)
(* Every, Seconds .. Weeks, At, Weekday and Loc set.  At takes a time of   *)
(* day and panics on any other.                                            *)
Schedules == [interval : Nat, unit : Units, atTime : 0 .. Day - 1,
              startDay : 0 .. 6, zone : Zones]

-----------------------------------------------------------------------------
(* The time library, as far as cron.go uses it. *)

Epoch == 0                        \* time.Unix(0, 0)

Unix(t) == t \div Second          \* whole seconds

Offset(z, t) == IF t < z.dstFrom THEN z.offset ELSE z.offset + z.dstShift

LocalDate(z, t) == (t + Offset(z, t)) \div Day

LocalClock(z, t) == (t + Offset(z, t)) % Day

Weekday(z, t) == (LocalDate(z, t) + 4) % 7     \* the epoch is a Thursday

(* Mutant: midnight of the date in UTC. *)
MidnightInUTC(z, date) == date * Day

(* time.Date(y, m, d, 0, 0, 0, 0, z): the offset is looked up as if the     *)
(* clock showed UTC, and again at the instant that gives; of a midnight    *)
(* the clocks skip or repeat it is right by those before or after.         *)
MidnightOf(z, date) ==
  LET clock == date * Day
  IN  clock - Offset(z, clock - Offset(z, clock))

(* Arithmetic on time.Duration wraps around. *)
Wrap(n) == ((n + MaxDuration + 1) % (2 * (MaxDuration + 1))) - (MaxDuration + 1)

-----------------------------------------------------------------------------
UnitLength(unit) ==
  CASE unit = "seconds" -> Second
    [] unit = "minutes" -> Minute
    [] unit = "hours"   -> Hour
    [] unit = "days"    -> Day
    [] unit = "weeks"   -> 7 * Day

PeriodDuration(c) == Wrap(c.interval * UnitLength(c.unit))

(* Mutant: the midnight after t instead of the one before. *)
RoundUpToMidnight(c, t) == MidnightOf(c.zone, LocalDate(Local, t) + 1)

(* The calendar date is read in the zone of t, its midnight in the job's. *)
RoundToMidnight(c, t) == MidnightOf(c.zone, LocalDate(Local, t))

(* The switch of scheduleNextRun: the schedule before it is advanced. *)
Base(c, last, next) ==
  CASE c.unit \in {"seconds", "minutes", "hours"} -> last + PeriodDuration(c)
    [] c.unit = "days" -> RoundToMidnight(c, last) + c.atTime
    [] c.unit = "weeks" ->
         LET midnight == RoundToMidnight(c, last)
         IN  midnight + (c.startDay - Weekday(c.zone, midnight)) * Day + c.atTime
    [] OTHER -> next

Later(a, b) == IF a < b THEN b ELSE a

(* The first of base, base + period, ... that is not before limit. *)
Advance(base, period, limit) ==
  IF base >= limit THEN base
  ELSE base + period * ((limit - base + period - 1) \div period)

(* What scheduleNextRun does at now to a job that was last run at last     *)
(* and is due at next: it keeps a schedule that is still ahead, it panics  *)
(* when a job without unit must be advanced, it never returns when the     *)
(* period is not positive, and otherwise it sets NextSchedule.             *)
Outcome(c, last, next, now) ==
  IF next > now THEN "kept"
  ELSE IF Base(c, last, next) >= Later(now, last) THEN "set"
  ELSE IF c.unit = "none" THEN "unit"
  ELSE IF PeriodDuration(c) <= 0 THEN "hang"
  ELSE "set"

NextSchedule(c, last, next, now) ==
  IF next > now THEN next
  ELSE Advance(Base(c, last, next), PeriodDuration(c), Later(now, last))
=============================================================================
