----------------------- MODULE ScheduleNextRunProofs ------------------------
(***************************************************************************)
(* The loop of scheduleNextRun computes NextSchedule, for every job, every *)
(* zone and every instant.                                                 *)
(***************************************************************************)
EXTENDS ScheduleNextRun, CronTimeProofs

Limit == Later(now, last)

(* In the loop the schedule is the base after some number of rounds, none  *)
(* of which was superfluous.                                               *)
OnGrid ==
  \E k \in Nat :
    /\ k = 0 => nextRun = Base(job, last, due)
    /\ k # 0 =>
         /\ job.unit # "none"
         /\ nextRun = Base(job, last, due) + k * PeriodDuration(job)
         /\ Base(job, last, due) + (k - 1) * PeriodDuration(job) < Limit

IInv ==
  /\ TypeOK
  /\ last <= now
  /\ pc = "enter" => nextRun = due
  /\ pc = "loop" => due <= now /\ OnGrid
  /\ pc \in {"kept", "set"} => nextRun = NextSchedule(job, last, due, now)
  /\ pc \in {"kept", "set", "unit"} => pc = Outcome(job, last, due, now)

LEMMA InputTypes ==
  ASSUME TypeOK
  PROVE  /\ job \in Schedules /\ now \in Nat /\ due \in Nat /\ last \in Nat
         /\ LastRun \in Instants /\ LastRun \in Int
         /\ last <= now => LastRun <= now
BY InputsAssumption DEF TypeOK, LastRun, Epoch

LEMMA InitEstablishes == Init => IInv
BY InputsAssumption DEF Init, IInv, TypeOK

LEMMA KeepPreserves == IInv /\ Keep => IInv'
<1> SUFFICES ASSUME IInv, Keep PROVE IInv'
  OBVIOUS
<1>1. LastRun \in Instants /\ LastRun <= now
  BY InputTypes DEF IInv
<1>2. TypeOK' /\ (last <= now)'
  BY <1>1 DEF IInv, TypeOK, Keep
<1>3. due > now /\ nextRun = due
  BY DEF IInv, Keep
<1>4. QED
  BY <1>2, <1>3 DEF Keep, IInv, NextSchedule, Outcome

LEMMA BasePreserves == IInv /\ ComputeBase => IInv'
<1> SUFFICES ASSUME IInv, ComputeBase PROVE IInv'
  OBVIOUS
<1>1. LastRun \in Instants /\ LastRun <= now /\ LastRun \in Int
  BY InputTypes DEF IInv
<1>2. job \in Schedules /\ nextRun \in Int /\ nextRun = due
  BY InputTypes DEF IInv, TypeOK, ComputeBase
<1>3. TypeOK' /\ (last <= now)'
  BY <1>1, <1>2, BaseType DEF IInv, TypeOK, ComputeBase
<1>4. OnGrid'
  <2>1. nextRun' = Base(job', last', due')
    BY <1>2 DEF ComputeBase
  <2>2. QED
    BY <2>1 DEF OnGrid
<1>5. QED
  BY <1>2, <1>3, <1>4 DEF ComputeBase, IInv

LEMMA AdvancePreserves == IInv /\ AdvanceOnce => IInv'
<1> SUFFICES ASSUME IInv, AdvanceOnce PROVE IInv'
  OBVIOUS
<1> DEFINE base == Base(job, last, due)
           period == PeriodDuration(job)
<1>1. /\ job \in Schedules /\ job.unit # "none" /\ nextRun \in Int
      /\ last \in Int /\ due \in Int /\ now \in Int
  BY InputTypes DEF IInv, TypeOK, AdvanceOnce
<1>2. period \in Int /\ base \in Int
  BY <1>1, PeriodType, BaseType
<1>3. nextRun < Limit
  BY <1>1 DEF Limit, Later, AdvanceOnce, MustAdvance
<1>4. PICK k \in Nat :
        /\ k = 0 => nextRun = base
        /\ k # 0 => nextRun = base + k * period
  BY DEF IInv, AdvanceOnce, OnGrid
<1>5. UNCHANGED <<base, period, Limit>>
  BY DEF AdvanceOnce, Limit
<1> HIDE DEF base, period
<1>6. nextRun = base + k * period
  BY <1>2, <1>4
<1>7. nextRun' = nextRun + period
  BY DEF AdvanceOnce, period
<1>8. nextRun' = base + (k + 1) * period
  <2>1. (k + 1) * period = k * period + period /\ k * period \in Int
    BY <1>2
  <2>2. QED
    BY <1>2, <1>6, <1>7, <2>1
<1>9. base + ((k + 1) - 1) * period < Limit
  BY <1>3, <1>6
<1>10. OnGrid'
  <2>1. k + 1 \in Nat /\ k + 1 # 0
    OBVIOUS
  <2>2. job'.unit # "none"
    BY <1>1 DEF AdvanceOnce
  <2>3. /\ nextRun' = base' + (k + 1) * period'
        /\ base' + ((k + 1) - 1) * period' < Limit'
    BY <1>5, <1>8, <1>9
  <2>4. \E m \in Nat :
          /\ m # 0
          /\ nextRun' = base' + m * period'
          /\ base' + (m - 1) * period' < Limit'
    BY <2>1, <2>3
  <2>5. QED
    BY <2>2, <2>4 DEF OnGrid, base, period
<1>11. TypeOK'
  BY <1>1, <1>2, <1>7 DEF IInv, TypeOK, AdvanceOnce
<1>12. QED
  BY <1>10, <1>11 DEF IInv, AdvanceOnce

LEMMA PanicPreserves == IInv /\ UnitPanics => IInv'
<1> SUFFICES ASSUME IInv, UnitPanics PROVE IInv'
  OBVIOUS
<1>1. /\ last \in Int /\ due \in Int /\ now \in Int /\ nextRun \in Int
  BY InputTypes DEF IInv, TypeOK
<1>2. nextRun = Base(job, last, due) /\ due <= now
  BY DEF IInv, UnitPanics, OnGrid
<1>3. Base(job, last, due) < Later(now, last)
  BY <1>1, <1>2 DEF UnitPanics, MustAdvance, Later
<1>4. Outcome(job, last, due, now) = "unit"
  <2>1. Later(now, last) \in Int /\ Base(job, last, due) \in Int
    BY <1>1, <1>2 DEF Later
  <2>2. ~(Base(job, last, due) >= Later(now, last))
    BY <1>3, <2>1
  <2>3. ~(due > now)
    BY <1>1, <1>2
  <2>4. QED
    BY <2>2, <2>3 DEF Outcome, UnitPanics
<1>5. QED
  BY <1>4 DEF UnitPanics, IInv, TypeOK

LEMMA ReturnPreserves == IInv /\ Return => IInv'
<1> SUFFICES ASSUME IInv, Return PROVE IInv'
  OBVIOUS
<1> DEFINE base == Base(job, last, due)
           period == PeriodDuration(job)
<1>1. /\ job \in Schedules /\ nextRun \in Int
      /\ last \in Int /\ due \in Int /\ now \in Int
  BY InputTypes DEF IInv, TypeOK
<1>2. base \in Int /\ Limit \in Int
  BY <1>1, BaseType DEF Limit, Later
<1>3. nextRun >= Limit
  BY <1>1 DEF Limit, Later, Return, MustAdvance
<1>4. ~(due > now)
  BY <1>1 DEF IInv, Return
<1>5. PICK k \in Nat :
        /\ k = 0 => nextRun = base
        /\ k # 0 => /\ job.unit # "none"
                    /\ nextRun = base + k * period
                    /\ base + (k - 1) * period < Limit
  BY DEF IInv, Return, OnGrid
<1>6. /\ nextRun = Advance(base, period, Limit)
      /\ base >= Limit \/ (job.unit # "none" /\ ~(period <= 0))
  <2>1. CASE k = 0
    BY <1>2, <1>3, <1>5, <2>1 DEF Advance
  <2>2. CASE k # 0
    <3>1. period \in Int
      BY <1>1, <1>5, <2>2, PeriodType
    <3>2. /\ job.unit # "none"
          /\ nextRun = base + k * period
          /\ base + k * period >= Limit
          /\ base + (k - 1) * period < Limit
      BY <1>3, <1>5, <2>2
    <3> HIDE DEF base, period
    <3>3. /\ base >= Limit \/ period > 0
          /\ Advance(base, period, Limit) = base + k * period
      BY <1>2, <3>1, <3>2, AdvanceUnique
    <3>4. QED
      BY <3>1, <3>2, <3>3
  <2>3. QED
    BY <2>1, <2>2
<1>7. nextRun = NextSchedule(job, last, due, now)
  BY <1>4, <1>6 DEF NextSchedule, Limit
<1>8. Outcome(job, last, due, now) = "set"
  BY <1>4, <1>6 DEF Outcome, Limit
<1>9. QED
  BY <1>7, <1>8 DEF Return, IInv, TypeOK

LEMMA StepPreserves == IInv /\ [Next]_vars => IInv'
<1>1. IInv /\ UNCHANGED vars => IInv'
  BY DEF IInv, TypeOK, OnGrid, Limit, vars
<1>2. QED
  BY <1>1, KeepPreserves, BasePreserves, AdvancePreserves, PanicPreserves,
     ReturnPreserves DEF Next

(* Every call that returns leaves nextRun at NextSchedule and ends the way *)
(* Outcome says (lines 295-325): the closed form the other modules use is  *)
(* what the code's loop computes.                                          *)
THEOREM LoopIsCorrect == Spec => []LoopComputesNextSchedule
<1>1. IInv => LoopComputesNextSchedule
  BY DEF IInv, LoopComputesNextSchedule
<1>2. QED
  BY <1>1, InitEstablishes, StepPreserves, PTL DEF Spec

(* The variables keep their types; nextRun stays an instant.               *)
THEOREM TypeCorrect == Spec => []TypeOK
<1>1. IInv => TypeOK
  BY DEF IInv
<1>2. QED
  BY <1>1, InitEstablishes, StepPreserves, PTL DEF Spec

-----------------------------------------------------------------------------
(* Slots of daily and weekly jobs: a date of the job's zone, on the job's  *)
(* weekday, and the job's time of day.                                     *)

Slot(d) == d * Day - job.zone.offset + job.atTime

OnWeekday(d) == job.unit = "weeks" => (d + 4) % 7 = job.startDay

LEMMA JobTypes ==
  ASSUME job \in Schedules
  PROVE  /\ job.zone \in Zones /\ job.zone.offset \in Int
         /\ job.atTime \in 0 .. Day - 1 /\ job.atTime \in Int /\ job.atTime >= 0
         /\ job.atTime < Day
         /\ job.startDay \in 0 .. 6 /\ job.interval \in Nat /\ job.unit \in Units
         /\ Day \in Nat \ {0} /\ Local \in Zones
BY TicksAssumption DEF Schedules, Zones

LEMMA SlotIsSlot ==
  ASSUME job \in Schedules, Unshifted, NEW d \in Int, OnWeekday(d)
  PROVE  Slot(d) \in Int /\ IsSlot(Slot(d))
<1>1. /\ job.zone \in Zones /\ job.zone.dstShift = 0 /\ job.atTime \in 0 .. Day - 1
  BY JobTypes DEF Unshifted
<1>2. /\ Slot(d) \in Int
      /\ LocalClock(job.zone, Slot(d)) = job.atTime
      /\ Weekday(job.zone, Slot(d)) = (d + 4) % 7
  BY <1>1, DateAndClock DEF Slot
<1>3. QED
  BY <1>2 DEF IsSlot, OnWeekday

LEMMA SlotHasDate ==
  ASSUME job \in Schedules, Unshifted, NEW t \in Int, IsSlot(t)
  PROVE  \E d \in Int : t = Slot(d) /\ OnWeekday(d)
<1> DEFINE d == LocalDate(job.zone, t)
<1>1. job.zone \in Zones /\ job.zone.dstShift = 0
  BY JobTypes DEF Unshifted
<1>2. d \in Int /\ t = Slot(d)
  BY <1>1, ClockDetermines DEF IsSlot, Slot
<1>3. OnWeekday(d)
  BY DEF IsSlot, OnWeekday, Weekday
<1>4. QED
  BY <1>2, <1>3

(* By clocks that are s ahead, a slot less s is at the time of day and on  *)
(* the weekday of the slot.                                                *)
LEMMA SlotClocks ==
  ASSUME job \in Schedules, NEW d \in Int, NEW s \in Int
  PROVE  /\ ClocksAhead(s, Slot(d) - s) % Day = job.atTime
         /\ ClocksAhead(s, Slot(d) - s) \div Day = d
<1>1. /\ job.zone.offset \in Int /\ job.atTime \in 0 .. Day - 1 /\ job.atTime \in Int
      /\ Day \in Nat \ {0} /\ d * Day \in Int
  BY JobTypes
<1>2. ClocksAhead(s, Slot(d) - s) = d * Day + job.atTime
  BY <1>1 DEF ClocksAhead, Slot
<1>3. QED
  BY <1>1, <1>2, DivMod

(* Where the clocks do not change, midnight does not move. *)
LEMMA MidnightStays ==
  ASSUME job \in Schedules, last \in Int, Unshifted
  PROVE  ~MidnightMoved
<1> DEFINE date == LocalDate(Local, last)
<1>1. /\ date \in Int /\ job.zone \in Zones /\ job.zone.offset \in Int
      /\ job.zone.dstShift = 0 /\ 0 \in 0 .. Day - 1
  <2>1. date \in Int
    BY JobTypes, MidnightType
  <2>2. /\ job.zone \in Zones /\ job.zone.offset \in Int
        /\ job.zone.dstShift = 0 /\ 0 \in 0 .. Day - 1
    BY JobTypes DEF Unshifted
  <2> HIDE DEF date
  <2>3. QED
    BY <2>1, <2>2
<1> HIDE DEF date
<1> DEFINE midnight == date * Day - job.zone.offset
<1>2. midnight \in Int
  BY <1>1, JobTypes
<1>3. PICK s \in {0, job.zone.dstShift} : MidnightOf(job.zone, date) = midnight - s
  BY <1>1, MidnightByClocks
<1>4. LocalDate(job.zone, midnight) = date
  <2>1. Offset(job.zone, midnight) = job.zone.offset
    BY <1>1 DEF Offset
  <2>2. midnight + job.zone.offset = date * Day + 0
    BY <1>1, JobTypes
  <2>3. (date * Day + 0) \div Day = date
    BY <1>1, JobTypes, DivMod
  <2> HIDE DEF midnight
  <2>4. QED
    BY <2>1, <2>2, <2>3 DEF LocalDate
<1> HIDE DEF midnight
<1>5. MidnightOf(job.zone, date) = midnight
  BY <1>1, <1>2, <1>3
<1>6. QED
  BY <1>4, <1>5 DEF MidnightMoved, RoundToMidnight, date

(* The base of a daily job is a slot of the day of its last run, that of a *)
(* weekly job a slot of the week around it, by the clocks of its midnight. *)
LEMMA BaseIsSlot ==
  ASSUME job \in Schedules, job.unit \in {"days", "weeks"}, last \in Int, due \in Int
  PROVE  \E d \in Int, s \in {0, job.zone.dstShift} :
           Base(job, last, due) = Slot(d) - s /\ (~MidnightMoved => OnWeekday(d))
<1> DEFINE date == LocalDate(Local, last)
           midnight == RoundToMidnight(job, last)
<1>1. /\ job.zone \in Zones /\ job.zone.offset \in Int /\ job.zone.dstShift \in Int
      /\ job.atTime \in Int /\ job.startDay \in 0 .. 6 /\ Day \in Nat \ {0}
  BY JobTypes DEF Zones
<1>2. date \in Int
  BY JobTypes, MidnightType
<1>3. PICK s \in {0, job.zone.dstShift} : midnight = date * Day - job.zone.offset - s
  BY <1>1, <1>2, MidnightByClocks DEF RoundToMidnight
<1>4. s \in Int
  BY <1>1
<1>5. LocalDate(job.zone, midnight) \in Int
  BY <1>1, <1>2, MidnightType DEF RoundToMidnight
<1>6. MidnightMoved <=> LocalDate(job.zone, midnight) # date
  BY DEF MidnightMoved
<1>7. Base(job, last, due) =
        IF job.unit = "days" THEN midnight + job.atTime
        ELSE midnight + (job.startDay - Weekday(job.zone, midnight)) * Day + job.atTime
  BY DEF Base
<1> HIDE DEF date, midnight
<1>8. date * Day \in Int
  BY <1>1, <1>2
<1>9. CASE job.unit = "days"
  <2>1. Base(job, last, due) = Slot(date) - s
    BY <1>1, <1>3, <1>4, <1>7, <1>8, <1>9 DEF Slot
  <2>2. QED
    BY <1>2, <1>9, <2>1 DEF OnWeekday
<1>10. CASE job.unit = "weeks"
  <2> DEFINE weekday == Weekday(job.zone, midnight)
             d == date + (job.startDay - weekday)
  <2>1. weekday = (LocalDate(job.zone, midnight) + 4) % 7 /\ weekday \in 0 .. 6
    BY <1>5 DEF Weekday
  <2> HIDE DEF weekday
  <2>2. d \in Int
    BY <1>1, <1>2, <2>1
  <2>3. ~MidnightMoved => OnWeekday(d)
    <3>1. SUFFICES ASSUME ~MidnightMoved PROVE (d + 4) % 7 = job.startDay
      BY DEF OnWeekday
    <3>2. weekday = (date + 4) % 7
      BY <1>6, <2>1, <3>1
    <3>3. QED
      BY <1>1, <1>2, <3>2
  <2>4. d * Day = date * Day + (job.startDay - weekday) * Day
        /\ (job.startDay - weekday) * Day \in Int
    BY <1>1, <1>2, <2>1
  <2>5. Base(job, last, due) = midnight + (job.startDay - weekday) * Day + job.atTime
    BY <1>7, <1>10 DEF weekday
  <2>6. Base(job, last, due) = Slot(d) - s
    BY <1>1, <1>3, <1>4, <1>8, <2>4, <2>5 DEF Slot
  <2>7. QED
    BY <2>2, <2>3, <2>6
<1>11. QED
  BY <1>9, <1>10

(* A whole number of periods away from a slot is a slot, on its weekday. *)
LEMMA PeriodsKeepSlots ==
  ASSUME job \in Schedules, job.unit \in {"days", "weeks"}, Representable,
         NEW d \in Int, NEW k \in Int
  PROVE  \E e \in Int : /\ Slot(d) + PeriodDuration(job) * k = Slot(e)
                        /\ OnWeekday(d) => OnWeekday(e)
<1> DEFINE m == job.interval * k
<1>1. /\ job.zone.offset \in Int /\ job.atTime \in Int /\ job.startDay \in 0 .. 6
      /\ job.interval \in Nat /\ Day \in Nat \ {0}
  BY JobTypes
<1>2. m \in Int
  BY <1>1
<1>3. PeriodDuration(job) = job.interval * UnitLength(job.unit)
  BY PeriodExact DEF Representable
<1>4. CASE job.unit = "days"
  <2>1. PeriodDuration(job) * k = m * Day
    BY <1>1, <1>3, <1>4 DEF UnitLength
  <2> HIDE DEF m
  <2>2. (d + m) * Day = d * Day + m * Day /\ d * Day \in Int /\ m * Day \in Int
    BY <1>1, <1>2
  <2>3. Slot(d) + PeriodDuration(job) * k = Slot(d + m)
    BY <1>1, <2>1, <2>2 DEF Slot
  <2>4. QED
    BY <1>2, <1>4, <2>3 DEF OnWeekday
<1>5. CASE job.unit = "weeks"
  <2>1. PeriodDuration(job) * k = (7 * m) * Day
    BY <1>1, <1>3, <1>5 DEF UnitLength
  <2> HIDE DEF m
  <2>2. /\ (d + 7 * m) * Day = d * Day + (7 * m) * Day
        /\ d * Day \in Int /\ (7 * m) * Day \in Int
    BY <1>1, <1>2
  <2>3. Slot(d) + PeriodDuration(job) * k = Slot(d + 7 * m)
    BY <1>1, <2>1, <2>2 DEF Slot
  <2>4. (d + 7 * m + 4) % 7 = (d + 4) % 7
    BY <1>2
  <2>5. d + 7 * m \in Int /\ (OnWeekday(d) => OnWeekday(d + 7 * m))
    BY <1>2, <2>4 DEF OnWeekday
  <2>6. QED
    BY <2>3, <2>5
<1>6. QED
  BY <1>4, <1>5

(* What is known of a schedule that was set. *)
LEMMA SetFacts ==
  ASSUME IInv, pc = "set"
  PROVE  /\ job \in Schedules /\ now \in Int /\ due \in Int /\ last \in Int /\ last <= now
         /\ Limit = now
         /\ Base(job, last, due) \in Int
         /\ nextRun = Advance(Base(job, last, due), PeriodDuration(job), now)
         /\ nextRun \in Int /\ nextRun >= now
         /\ Base(job, last, due) < now => job.unit # "none" /\ ~(PeriodDuration(job) <= 0)
<1>1. /\ job \in Schedules /\ now \in Int /\ due \in Int /\ last \in Int /\ last <= now
      /\ nextRun \in Int
  BY InputTypes DEF IInv, TypeOK
<1>2. Later(now, last) = now
  BY <1>1 DEF Later
<1>3. Outcome(job, last, due, now) = "set" /\ nextRun = NextSchedule(job, last, due, now)
  BY DEF IInv
<1>4. ~(due > now)
  BY <1>3 DEF Outcome
<1>5. Base(job, last, due) \in Int
  BY <1>1, BaseType
<1>6. Base(job, last, due) < now => job.unit # "none" /\ ~(PeriodDuration(job) <= 0)
  BY <1>1, <1>2, <1>3, <1>4, <1>5 DEF Outcome
<1>7. nextRun >= now
  BY <1>1, <1>3, NextScheduleNotInThePast
<1>8. QED
  BY <1>1, <1>2, <1>3, <1>4, <1>5, <1>6, <1>7 DEF NextSchedule, Limit

LEMMA SetIsSlot ==
  ASSUME IInv, pc = "set", job.unit \in {"days", "weeks"}, Representable
  PROVE  \E d \in Int, s \in {0, job.zone.dstShift} :
           nextRun = Slot(d) - s /\ (~MidnightMoved => OnWeekday(d))
<1> DEFINE base == Base(job, last, due)
           k == (now - base + PeriodDuration(job) - 1) \div PeriodDuration(job)
<1>1. PICK d \in Int, s \in {0, job.zone.dstShift} :
        base = Slot(d) - s /\ (~MidnightMoved => OnWeekday(d))
  BY SetFacts, BaseIsSlot
<1>2. CASE base >= now
  BY <1>1, <1>2, SetFacts DEF Advance
<1>3. CASE base < now
  <2>1. PeriodDuration(job) \in Int /\ PeriodDuration(job) > 0
    BY <1>3, SetFacts, PeriodType
  <2>2. k \in Int
    <3>1. now - base + PeriodDuration(job) - 1 \in Int
      BY <2>1, SetFacts
    <3>2. QED
      BY <2>1, <3>1, DivisionBounds
  <2>3. nextRun = base + PeriodDuration(job) * k
    <3>1. ~(base >= now)
      BY <1>3, SetFacts
    <3>2. QED
      BY <3>1, SetFacts DEF Advance
  <2> HIDE DEF k, base
  <2>4. PICK e \in Int : /\ Slot(d) + PeriodDuration(job) * k = Slot(e)
                         /\ OnWeekday(d) => OnWeekday(e)
    BY <2>2, SetFacts, PeriodsKeepSlots
  <2>5. nextRun = Slot(e) - s
    <3> DEFINE way == PeriodDuration(job) * k
    <3>1. way \in Int /\ Slot(d) \in Int /\ s \in Int
      BY <2>1, <2>2, SetFacts, JobTypes DEF Slot, Zones
    <3>2. nextRun = Slot(d) - s + way /\ Slot(e) = Slot(d) + way
      BY <1>1, <2>3, <2>4
    <3> HIDE DEF way
    <3>3. QED
      BY <3>1, <3>2
  <2>6. ~MidnightMoved => OnWeekday(e)
    BY <1>1, <2>4
  <2>7. QED
    BY <2>5, <2>6
<1>4. base \in Int /\ now \in Int
  BY SetFacts
<1>5. QED
  BY <1>2, <1>3, <1>4

LEMMA UnshiftedIsSlot ==
  ASSUME IInv, pc = "set", job.unit \in {"days", "weeks"}, Representable, Unshifted
  PROVE  \E d \in Int : nextRun = Slot(d) /\ OnWeekday(d)
<1>1. PICK d \in Int, s \in {0, job.zone.dstShift} :
        nextRun = Slot(d) - s /\ (~MidnightMoved => OnWeekday(d))
  BY SetIsSlot
<1>2. s = 0 /\ ~MidnightMoved
  BY SetFacts, MidnightStays DEF Unshifted
<1>3. Slot(d) \in Int
  BY SetFacts, JobTypes DEF Slot
<1>4. QED
  BY <1>1, <1>2, <1>3

(* A daily or weekly schedule that was set is at the asked time of day and *)
(* on the asked weekday, by the clocks before a change or those after it,  *)
(* in every zone and for every interval whose period a Duration can hold   *)
(* (lines 282, 286-292, 309-324).                                          *)
THEOREM SlotsAreKept == Spec => []AtTimeOfDay
<1>1. IInv => AtTimeOfDay
  <2> SUFFICES ASSUME IInv, pc = "set", job.unit \in {"days", "weeks"}, Representable
               PROVE  /\ Unshifted => IsSlot(nextRun)
                      /\ \E s \in {0, job.zone.dstShift} :
                           /\ ClocksAhead(s, nextRun) % Day = job.atTime
                           /\ job.unit = "weeks" /\ ~MidnightMoved =>
                                ((ClocksAhead(s, nextRun) \div Day) + 4) % 7 = job.startDay
    BY DEF AtTimeOfDay
  <2>1. ASSUME Unshifted PROVE IsSlot(nextRun)
    <3>1. PICK d \in Int : nextRun = Slot(d) /\ OnWeekday(d)
      BY <2>1, UnshiftedIsSlot
    <3>2. QED
      BY <2>1, <3>1, SetFacts, SlotIsSlot
  <2>2. PICK d \in Int, s \in {0, job.zone.dstShift} :
          nextRun = Slot(d) - s /\ (~MidnightMoved => OnWeekday(d))
    BY SetIsSlot
  <2>3. s \in Int
    BY SetFacts, JobTypes DEF Zones
  <2>4. ClocksAhead(s, nextRun) % Day = job.atTime /\ ClocksAhead(s, nextRun) \div Day = d
    BY <2>2, <2>3, SetFacts, SlotClocks
  <2>5. QED
    BY <2>1, <2>2, <2>4 DEF OnWeekday
<1>2. QED
  BY <1>1, InitEstablishes, StepPreserves, PTL DEF Spec

-----------------------------------------------------------------------------
(* The base of a daily or weekly job is less than a day or week ahead of   *)
(* the call, but for the lag of the job's zone.                            *)
LEMMA BaseIsNear ==
  ASSUME job \in Schedules, job.unit \in {"days", "weeks"},
         last \in Int, now \in Int, due \in Int, last <= now
  PROVE  /\ ZoneLag \in Nat
         /\ Base(job, last, due) - UnitLength(job.unit) < now + ZoneLag
<1> DEFINE midnight == RoundToMidnight(job, last)
           weekday  == Weekday(job.zone, midnight)
<1>1. /\ job.zone \in Zones /\ Local \in Zones /\ Day \in Nat \ {0}
      /\ job.atTime \in Int /\ job.atTime < Day /\ job.startDay \in 0 .. 6
  BY JobTypes
<1>2. midnight \in Int
  BY <1>1, MidnightType DEF RoundToMidnight
<1>3. weekday \in 0 .. 6
  <2>1. LocalDate(job.zone, midnight) \in Int
    BY <1>1, <1>2, MidnightType
  <2>2. QED
    BY <2>1 DEF Weekday
<1>4. ZoneLag = Later(0, midnight - last)
  BY DEF ZoneLag
<1>5. /\ job.unit = "days" => Base(job, last, due) = midnight + job.atTime
      /\ job.unit = "weeks" =>
           Base(job, last, due) = midnight + (job.startDay - weekday) * Day + job.atTime
  BY DEF Base
<1> HIDE DEF midnight, weekday
<1>6. ZoneLag \in Nat /\ midnight <= now + ZoneLag
  BY <1>2, <1>4 DEF Later
<1>7. CASE job.unit = "days"
  BY <1>1, <1>2, <1>5, <1>6, <1>7 DEF UnitLength
<1>8. CASE job.unit = "weeks"
  <2> DEFINE shift == (job.startDay - weekday) * Day
  <2>1. shift \in Int /\ shift <= 6 * Day
    BY <1>1, <1>3
  <2>2. Base(job, last, due) = midnight + shift + job.atTime
    BY <1>5, <1>8
  <2> HIDE DEF shift
  <2>3. Base(job, last, due) < midnight + 7 * Day
    BY <1>1, <1>2, <2>1, <2>2
  <2>4. UnitLength(job.unit) = 7 * Day
    BY <1>8 DEF UnitLength
  <2>5. QED
    BY <1>1, <1>2, <1>6, <2>1, <2>2, <2>3, <2>4
<1>9. QED
  BY <1>7, <1>8, <1>6

(* A schedule that was advanced is less than one period ahead of the call. *)
LEMMA AdvancedIsNear ==
  ASSUME IInv, pc = "set", Base(job, last, due) < now
  PROVE  /\ PeriodDuration(job) \in Int /\ PeriodDuration(job) > 0
         /\ nextRun - PeriodDuration(job) < now
<1>1. PeriodDuration(job) \in Int /\ PeriodDuration(job) > 0
  BY SetFacts, PeriodType
<1>2. QED
  BY <1>1, SetFacts, AdvanceLeast

(* No schedule that is set lies in the past, and none is further ahead     *)
(* than its period, the rest of its day or week and the lag of its zone    *)
(* (lines 306-324): for every interval, one whose duration wraps included. *)
THEOREM SchedulesAreNear == Spec => []NeverInThePast
<1>1. IInv => NeverInThePast
  <2> SUFFICES ASSUME IInv, pc = "set", job.unit # "none"
               PROVE  /\ nextRun >= now
                      /\ nextRun - now <=
                           Later(PeriodDuration(job), UnitLength(job.unit)) + ZoneLag
    BY DEF NeverInThePast
  <2> DEFINE base   == Base(job, last, due)
             period == PeriodDuration(job)
             unit   == UnitLength(job.unit)
  <2>1. /\ now \in Int /\ last \in Int /\ last <= now /\ nextRun \in Int /\ base \in Int
        /\ nextRun >= now
        /\ base >= now => nextRun = base
    BY SetFacts DEF Advance
  <2>2. period \in Int /\ unit \in Int
    BY SetFacts, PeriodType, UnitLengthType DEF Schedules
  <2>3. ZoneLag \in Nat
    <3>1. CASE job.unit \in {"days", "weeks"}
      BY <3>1, SetFacts, BaseIsNear
    <3>2. CASE job.unit \notin {"days", "weeks"}
      BY <3>2 DEF ZoneLag
    <3>3. QED
      BY <3>1, <3>2
  <2>4. base < now => nextRun - period < now
    BY AdvancedIsNear
  <2>5. base >= now /\ job.unit \in {"days", "weeks"} => base - unit < now + ZoneLag
    BY SetFacts, BaseIsNear
  <2>6. base >= now /\ job.unit \notin {"days", "weeks"} => base = last + period
    BY SetFacts DEF Schedules, Units, Base
  <2>7. nextRun - now <= Later(period, unit) + ZoneLag
    <3> HIDE DEF base, period, unit
    <3>1. QED
      BY <2>1, <2>2, <2>3, <2>4, <2>5, <2>6 DEF Later
  <2>8. QED
    BY <2>1, <2>7
<1>2. QED
  BY <1>1, InitEstablishes, StepPreserves, PTL DEF Spec

-----------------------------------------------------------------------------
(* A slot before another one of the same job is a whole day or week before *)
(* it.                                                                     *)
LEMMA SlotsAreApart ==
  ASSUME job \in Schedules, job.unit \in {"days", "weeks"},
         NEW d \in Int, OnWeekday(d), NEW e \in Int, OnWeekday(e), Slot(e) < Slot(d)
  PROVE  Slot(e) <= Slot(d) - UnitLength(job.unit)
<1>1. /\ job.zone.offset \in Int /\ job.atTime \in Int /\ Day \in Nat \ {0}
  BY JobTypes
<1> DEFINE n == d - e
<1>2. n \in Int /\ d = e + n
  OBVIOUS
<1> HIDE DEF n
<1>3. e * Day \in Int /\ n * Day \in Int /\ d * Day = e * Day + n * Day
  BY <1>1, <1>2
<1>4. Slot(d) = Slot(e) + n * Day /\ Slot(e) \in Int
  BY <1>1, <1>3 DEF Slot
<1>5. n * Day > 0
  BY <1>3, <1>4
<1>6. n >= 1
  BY <1>1, <1>2, <1>5
<1>7. CASE job.unit = "days"
  <2>1. n * Day >= Day
    BY <1>1, <1>2, <1>6
  <2>2. QED
    BY <1>1, <1>3, <1>4, <1>7, <2>1 DEF UnitLength
<1>8. CASE job.unit = "weeks"
  <2>1. (e + 4) % 7 = (e + n + 4) % 7
    BY <1>2, <1>8 DEF OnWeekday
  <2>2. n >= 7
    BY <1>2, <1>6, <2>1
  <2>3. n * Day >= 7 * Day
    BY <1>1, <1>2, <2>2
  <2>4. QED
    BY <1>1, <1>3, <1>4, <1>8, <2>3 DEF UnitLength
<1>9. QED
  BY <1>7, <1>8

(* "advance to next possible schedule" (line 321): a daily or weekly job   *)
(* of interval one in the machine's zone is never given a later slot than  *)
(* the first one left.                                                     *)
THEOREM NoSlotIsSkipped == Spec => []NextPossibleSchedule
<1>1. IInv => NextPossibleSchedule
  <2> SUFFICES ASSUME IInv, pc = "set", job.unit \in {"days", "weeks"}, job.interval = 1,
                      Unshifted, Representable, job.zone = Local,
                      NEW t \in now .. nextRun - 1, IsSlot(t)
               PROVE  FALSE
    BY DEF NextPossibleSchedule
  <2> DEFINE base == Base(job, last, due)
             unit == UnitLength(job.unit)
  <2>1. /\ now \in Int /\ nextRun \in Int /\ base \in Int /\ job \in Schedules
        /\ base >= now => nextRun = base
    BY SetFacts DEF Advance
  <2>2. t \in Int /\ now <= t /\ t < nextRun
    BY <2>1
  <2>3. unit \in Int
    BY <2>1, UnitLengthType DEF Schedules
  <2>4. t <= nextRun - unit
    <3>1. PICK d \in Int : nextRun = Slot(d) /\ OnWeekday(d)
      BY UnshiftedIsSlot
    <3>2. PICK e \in Int : t = Slot(e) /\ OnWeekday(e)
      BY <2>1, <2>2, SlotHasDate
    <3>3. QED
      BY <2>1, <2>2, <3>1, <3>2, SlotsAreApart
  <2>5. CASE base < now
    <3>1. PeriodDuration(job) = unit
      <4>1. PeriodDuration(job) = job.interval * UnitLength(job.unit)
        BY <2>1, PeriodExact DEF Representable
      <4>2. QED
        BY <2>3, <4>1
    <3>2. nextRun - unit < now
      BY <2>5, <3>1, AdvancedIsNear
    <3> HIDE DEF unit, base
    <3>3. QED
      BY <2>1, <2>2, <2>3, <2>4, <3>2
  <2>6. CASE base >= now
    <3>1. base - unit < now + ZoneLag
      BY SetFacts, BaseIsNear
    <3>2. ZoneLag = 0
      <4> DEFINE midnight == MidnightOf(Local, LocalDate(Local, last))
      <4>1. midnight \in Int /\ last \in Int /\ midnight <= last
        BY SetFacts, JobTypes, MidnightType, MidnightNotAfter DEF Unshifted
      <4>2. ZoneLag = Later(0, midnight - last)
        BY DEF ZoneLag, RoundToMidnight
      <4> HIDE DEF midnight
      <4>3. QED
        BY <4>1, <4>2 DEF Later
    <3> HIDE DEF unit, base
    <3>3. QED
      BY <2>1, <2>2, <2>3, <2>4, <2>6, <3>1, <3>2
  <2>7. QED
    BY <2>1, <2>5, <2>6
<1>2. QED
  BY <1>1, InitEstablishes, StepPreserves, PTL DEF Spec
=============================================================================
