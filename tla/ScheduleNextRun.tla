-------------------------- MODULE ScheduleNextRun ---------------------------
(***************************************************************************)
(* One call of Job.scheduleNextRun (cron/cron.go), statement by statement: *)
(* the early return, the switch that computes the base, and every round of *)
(* the loop that advances it.  The inputs are what Do and run can call it  *)
(* with: a configured job, its last run, its current schedule and the      *)
(* instant of the call.                                                    *)
(***************************************************************************)
EXTENDS CronTime

CONSTANTS
  Configs,   \* the job configurations to try
  Instants,  \* the instants to try
  Lowest     \* bound: a schedule running away into the past stops here

ASSUME InputsAssumption ==
  /\ Configs \subseteq Schedules
  /\ Instants \subseteq Nat
  /\ Lowest \in Int

VARIABLES
  job,     \* the job's configuration
  now,     \* the instant of the call
  due,     \* j.nextRun when the call starts
  last,    \* j.lastRun
  nextRun, \* j.nextRun
  pc       \* where the call is

vars == <<job, now, due, last, nextRun, pc>>

TypeOK ==
  /\ job \in Configs
  /\ now \in Instants
  /\ due \in Instants
  /\ last \in Instants
  /\ nextRun \in Int
  /\ pc \in {"enter", "loop", "kept", "set", "unit"}

Init ==
  /\ job \in Configs
  /\ now \in Instants
  /\ due \in Instants
  /\ last \in {t \in Instants : t <= now}
  /\ nextRun = due
  /\ pc = "enter"

-----------------------------------------------------------------------------
(* The last run, once a job that never ran has been given this instant. *)
LastRun == IF last = Epoch THEN now ELSE last

(* if j.nextRun.After(now) return *)
Keep ==
  /\ pc = "enter"
  /\ nextRun > now
  /\ last' = LastRun
  /\ pc' = "kept"
  /\ UNCHANGED <<job, now, due, nextRun>>

ComputeBase ==
  /\ pc = "enter"
  /\ nextRun <= now
  /\ last' = LastRun
  /\ nextRun' = Base(job, LastRun, nextRun)
  /\ pc' = "loop"
  /\ UNCHANGED <<job, now, due>>

(* Mutants: a schedule for this very instant is skipped; a schedule is     *)
(* only compared with the last run.                                        *)
MustAdvanceFromNow  == nextRun <= now \/ nextRun < last
MustAdvanceFromLast == nextRun < last

MustAdvance == nextRun < now \/ nextRun < last

(* Mutant: every round starts from the old schedule. *)
AdvanceFromDue ==
  /\ pc = "loop"
  /\ MustAdvance
  /\ job.unit # "none"
  /\ nextRun >= Lowest
  /\ nextRun' = due + PeriodDuration(job)
  /\ UNCHANGED <<job, now, due, last, pc>>

AdvanceOnce ==
  /\ pc = "loop"
  /\ MustAdvance
  /\ job.unit # "none"
  /\ nextRun >= Lowest
  /\ nextRun' = nextRun + PeriodDuration(job)
  /\ UNCHANGED <<job, now, due, last, pc>>

(* periodDuration panics: "unspecified job period" *)
UnitPanics ==
  /\ pc = "loop"
  /\ MustAdvance
  /\ job.unit = "none"
  /\ pc' = "unit"
  /\ UNCHANGED <<job, now, due, last, nextRun>>

Return ==
  /\ pc = "loop"
  /\ ~MustAdvance
  /\ pc' = "set"
  /\ UNCHANGED <<job, now, due, last, nextRun>>

Next == Keep \/ ComputeBase \/ AdvanceOnce \/ UnitPanics \/ Return

Spec == Init /\ [][Next]_vars /\ WF_vars(Next)

-----------------------------------------------------------------------------
(* The call ends exactly as Outcome says, and the loop arrives at          *)
(* NextSchedule, the closed form every other module uses (lines 301-324).  *)
LoopComputesNextSchedule ==
  pc \in {"kept", "set", "unit"} =>
    /\ pc = Outcome(job, last, due, now)
    /\ pc # "unit" => nextRun = NextSchedule(job, last, due, now)

(* How much later than the last run of a daily or weekly job its day       *)
(* begins in the zone of the job.                                          *)
ZoneLag ==
  IF job.unit \in {"days", "weeks"} THEN Later(0, RoundToMidnight(job, last) - last) ELSE 0

(* A schedule that was set is not in the past, and not further away than   *)
(* needed: one period earlier it would already have been missed.  A daily  *)
(* or weekly job may have its first slot later in the day or week, and     *)
(* still later where the day begins later (lines 308-324).                 *)
NeverInThePast ==
  pc = "set" /\ job.unit # "none" =>
    /\ nextRun >= now
    /\ nextRun - now <= Later(PeriodDuration(job), UnitLength(job.unit)) + ZoneLag

CanAdvance == job.unit = "none" \/ PeriodDuration(job) > 0

(* The call returns (or panics) for every job whose period is positive;    *)
(* an interval of zero or one whose duration overflows loops forever       *)
(* (lines 273, 322-324).                                                   *)
Returns ==
  CanAdvance ~> pc \in {"kept", "set", "unit"}

(* Daily and weekly slots: "At schedules job at specific time of day"      *)
(* (line 220), Weekday "start job on specific Weekday" (line 413).         *)
IsSlot(t) ==
  /\ LocalClock(job.zone, t) = job.atTime
  /\ job.unit = "weeks" => Weekday(job.zone, t) = job.startDay

Unshifted == job.zone.dstShift = 0

(* The period fits a time.Duration; one that wraps is no number of days.   *)
Representable == job.interval * UnitLength(job.unit) <= MaxDuration

(* The clocks that are d ahead of the standard time of the job's zone. *)
ClocksAhead(d, t) == t + job.zone.offset + d

(* The clocks change at the very midnight the base is computed from, and   *)
(* time.Date answers with an instant of the day before.                    *)
MidnightMoved == LocalDate(job.zone, RoundToMidnight(job, last)) # LocalDate(Local, last)

(* A daily or weekly schedule that was set is at the time of day and on    *)
(* the weekday the job asked for, by the clocks before a change or by      *)
(* those after it: days have 24 hours, and midnight may be on the other    *)
(* side of the change.  Only midnight itself can cost the weekday          *)
(* (lines 282, 286-292, 309-324).                                          *)
AtTimeOfDay ==
  pc = "set" /\ job.unit \in {"days", "weeks"} /\ Representable =>
    /\ Unshifted => IsSlot(nextRun)
    /\ \E d \in {0, job.zone.dstShift} :
         /\ ClocksAhead(d, nextRun) % Day = job.atTime
         /\ job.unit = "weeks" /\ ~MidnightMoved =>
              ((ClocksAhead(d, nextRun) \div Day) + 4) % 7 = job.startDay

(* "advance to next possible schedule" (line 321): no slot of a daily or   *)
(* weekly job lies between the call and the schedule that was set, if the  *)
(* job's zone is the machine's: midnight is that of the machine's date.    *)
NextPossibleSchedule ==
  pc = "set" /\ job.unit \in {"days", "weeks"} /\ job.interval = 1
    /\ Unshifted /\ Representable /\ job.zone = Local =>
    \A t \in now .. nextRun - 1 : ~IsSlot(t)
=============================================================================
