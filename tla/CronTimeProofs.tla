--------------------------- MODULE CronTimeProofs ---------------------------
(***************************************************************************)
(* Facts about the schedule arithmetic of CronTime, for every length of    *)
(* the units and every zone.                                               *)
(***************************************************************************)
EXTENDS CronTime, TLAPS

LEMMA DivisionBounds ==
  ASSUME NEW a \in Int, NEW b \in Nat \ {0}
  PROVE  /\ a \div b \in Int
         /\ b * (a \div b) <= a
         /\ a < b * (a \div b) + b
  OBVIOUS

(* A number in its base: quotient and rest are unique. *)
LEMMA DivMod ==
  ASSUME NEW d \in Int, NEW n \in Nat \ {0}, NEW a \in 0 .. n - 1
  PROVE  /\ (d * n + a) \div n = d
         /\ (d * n + a) % n = a
<1> DEFINE x == d * n + a
           q == x \div n
<1>1. x \in Int
  OBVIOUS
<1>2. q \in Int /\ n * q <= x /\ x < n * q + n /\ x = n * q + (x % n)
  BY <1>1, DivisionBounds
<1>3. a \in Int /\ 0 <= a /\ a < n /\ x = n * d + a
  OBVIOUS
<1> HIDE DEF q, x
<1>4. ASSUME q < d PROVE FALSE
  <2>1. q + 1 <= d
    BY <1>2, <1>4
  <2>2. n * (q + 1) <= n * d
    BY <1>2, <2>1
  <2>3. QED
    BY <1>2, <1>3, <2>2
<1>5. ASSUME q > d PROVE FALSE
  <2>1. q >= d + 1
    BY <1>2, <1>5
  <2>2. n * q >= n * (d + 1)
    BY <1>2, <2>1
  <2>3. QED
    BY <1>2, <1>3, <2>2
<1>6. q = d
  BY <1>2, <1>4, <1>5
<1>7. x % n = a
  <2>1. n * q = n * d /\ n * d \in Int
    BY <1>6
  <2>2. n * d + (x % n) = n * d + a
    BY <1>2, <1>3, <2>1
  <2>3. x % n \in Int
    BY <1>1
  <2>4. QED
    BY <1>3, <2>1, <2>2, <2>3
<1>8. QED
  BY <1>6, <1>7 DEF q, x

(* A smaller instant is not in a later second. *)
LEMMA UnixMonotone ==
  ASSUME NEW s \in Int, NEW t \in Int, s <= t
  PROVE  Unix(s) <= Unix(t)
<1>1. Second \in Nat \ {0}
  BY TicksAssumption
<1>2. /\ Unix(s) \in Int /\ Second * Unix(s) <= s
      /\ Unix(t) \in Int /\ t < Second * Unix(t) + Second
  BY <1>1, DivisionBounds DEF Unix
<1>3. ASSUME Unix(t) < Unix(s) PROVE FALSE
  <2>1. Unix(s) >= Unix(t) + 1
    BY <1>2, <1>3
  <2>2. Second * Unix(s) >= Second * (Unix(t) + 1)
    BY <1>1, <1>2, <2>1
  <2>3. Second * (Unix(t) + 1) = Second * Unix(t) + Second
    BY <1>1, <1>2
  <2>4. QED
    BY <1>1, <1>2, <2>2, <2>3
<1>4. QED
  BY <1>2, <1>3

LEMMA MidnightType ==
  ASSUME NEW z \in Zones, NEW t \in Int
  PROVE  /\ LocalDate(z, t) \in Int
         /\ \A date \in Int : MidnightOf(z, date) \in Int
         /\ Weekday(z, t) \in Int
<1>1. Day \in Nat \ {0}
  BY TicksAssumption
<1>2. z.offset \in Int /\ z.dstShift \in Int
  BY DEF Zones
<1>3. t + Offset(z, t) \in Int
  BY <1>2 DEF Offset
<1>4. LocalDate(z, t) \in Int
  BY <1>1, <1>3, DivisionBounds DEF LocalDate
<1>5. ASSUME NEW date \in Int PROVE MidnightOf(z, date) \in Int
  <2>1. date * Day \in Int
    BY <1>1
  <2>2. QED
    BY <1>2, <2>1 DEF MidnightOf, Offset
<1>6. QED
  BY <1>4, <1>5 DEF Weekday

LEMMA PeriodType ==
  ASSUME NEW c \in Schedules, c.unit # "none"
  PROVE  PeriodDuration(c) \in Int
<1>1. c.interval \in Nat /\ c.unit \in Units
  BY DEF Schedules
<1>2. UnitLength(c.unit) \in Nat
  BY <1>1, TicksAssumption DEF Units, UnitLength
<1>3. c.interval * UnitLength(c.unit) \in Nat
  BY <1>1, <1>2
<1>4. QED
  BY <1>3, TicksAssumption DEF PeriodDuration, Wrap

LEMMA BaseType ==
  ASSUME NEW c \in Schedules, NEW last \in Int, NEW next \in Int
  PROVE  Base(c, last, next) \in Int
<1>1. /\ c.unit \in Units /\ c.atTime \in Int
      /\ c.startDay \in 0 .. 6 /\ c.zone \in Zones
  BY DEF Schedules
<1>2. Day \in Nat \ {0} /\ Local \in Zones
  BY TicksAssumption
<1>3. RoundToMidnight(c, last) \in Int
  BY <1>1, <1>2, MidnightType DEF RoundToMidnight
<1>4. CASE c.unit \in {"seconds", "minutes", "hours"}
  BY <1>4, PeriodType DEF Base
<1>5. CASE c.unit = "days"
  BY <1>1, <1>3, <1>5 DEF Base
<1>6. CASE c.unit = "weeks"
  <2>1. Weekday(c.zone, RoundToMidnight(c, last)) \in Int
    BY <1>1, <1>3, MidnightType
  <2>2. (c.startDay - Weekday(c.zone, RoundToMidnight(c, last))) * Day \in Int
    BY <1>1, <1>2, <2>1
  <2>3. QED
    BY <1>1, <1>3, <1>6, <2>2 DEF Base
<1>7. CASE c.unit = "none"
  BY <1>7 DEF Base
<1>8. QED
  BY <1>1, <1>4, <1>5, <1>6, <1>7 DEF Units

(* Advance lands on base + k * period for the least k that reaches limit. *)
LEMMA AdvanceLeast ==
  ASSUME NEW base \in Int, NEW limit \in Int, NEW period \in Int,
         base >= limit \/ period > 0
  PROVE  /\ Advance(base, period, limit) \in Int
         /\ Advance(base, period, limit) >= limit
         /\ base < limit => Advance(base, period, limit) - period < limit
<1>1. CASE base >= limit
  BY <1>1 DEF Advance
<1>2. CASE base < limit
  <2> DEFINE k == (limit - base + period - 1) \div period
  <2>1. period \in Nat \ {0}
    BY <1>2
  <2>2. /\ k \in Int
        /\ period * k <= limit - base + period - 1
        /\ limit - base + period - 1 < period * k + period
    BY <2>1, DivisionBounds
  <2>3. period * k \in Int
    BY <2>1, <2>2
  <2>4. Advance(base, period, limit) = base + period * k
    BY <1>2 DEF Advance
  <2> HIDE DEF k
  <2>5. QED
    BY <2>2, <2>3, <2>4
<1>3. QED
  BY <1>1, <1>2

(* And nothing else on the grid of base and period does so. *)
LEMMA AdvanceUnique ==
  ASSUME NEW base \in Int, NEW limit \in Int, NEW period \in Int,
         NEW k \in Nat,
         base + k * period >= limit,
         k = 0 \/ base + (k - 1) * period < limit
  PROVE  /\ base >= limit \/ period > 0
         /\ Advance(base, period, limit) = base + k * period
<1>1. CASE k = 0
  BY <1>1 DEF Advance
<1>2. CASE k # 0
  <2>1. (k - 1) * period + period = k * period
    BY <1>2
  <2>2. period > 0
    <3>1. (k - 1) * period \in Int /\ k * period \in Int
      OBVIOUS
    <3>2. QED
      BY <1>2, <2>1, <3>1
  <2>3. base < limit
    <3>1. (k - 1) * period >= 0
      BY <1>2, <2>2
    <3>2. QED
      BY <1>2, <3>1
  <2> DEFINE m == (limit - base + period - 1) \div period
  <2>4. /\ m \in Int
        /\ period * m <= limit - base + period - 1
        /\ limit - base + period - 1 < period * m + period
    BY <2>2, DivisionBounds
  <2>5. Advance(base, period, limit) = base + period * m
    BY <2>3 DEF Advance
  <2> HIDE DEF m
  <2>6. ASSUME m < k PROVE FALSE
    <3>1. m + 1 <= k
      BY <2>4, <2>6
    <3>2. m <= k - 1
      BY <2>4, <2>6
    <3>3. period * m <= period * (k - 1)
      BY <2>2, <2>4, <3>2
    <3>4. period * (k - 1) = (k - 1) * period
      OBVIOUS
    <3>5. QED
      BY <1>2, <2>2, <2>4, <3>3, <3>4
  <2>7. ASSUME k < m PROVE FALSE
    <3>1. period * (k + 1) <= period * m
      BY <2>2, <2>4, <2>7
    <3>2. period * (k + 1) = k * period + period
      OBVIOUS
    <3>3. QED
      BY <2>2, <2>4, <3>1, <3>2
  <2>8. m = k
    BY <2>4, <2>6, <2>7
  <2>9. period * k = k * period
    OBVIOUS
  <2>10. QED
    BY <2>2, <2>5, <2>8, <2>9
<1>3. QED
  BY <1>1, <1>2

(* Whenever scheduleNextRun returns, the job has an instant to run at, and *)
(* it is not before the call: a schedule is never left in the past         *)
(* (lines 301-324).                                                        *)
THEOREM NextScheduleNotInThePast ==
  ASSUME NEW c \in Schedules, NEW last \in Int, NEW next \in Int, NEW now \in Int,
         Outcome(c, last, next, now) \in {"kept", "set"}
  PROVE  /\ NextSchedule(c, last, next, now) \in Int
         /\ NextSchedule(c, last, next, now) >= now
<1>1. CASE next > now
  BY <1>1 DEF NextSchedule
<1>2. CASE ~(next > now)
  <2> DEFINE base == Base(c, last, next)
             limit == Later(now, last)
             period == PeriodDuration(c)
  <2>1. base \in Int
    BY BaseType
  <2>2. limit \in Int /\ limit >= now
    BY DEF Later
  <2>3. NextSchedule(c, last, next, now) = Advance(base, period, limit)
    BY <1>2 DEF NextSchedule
  <2>4. base >= limit \/ (c.unit # "none" /\ period > 0)
    <3>1. ASSUME base < limit PROVE c.unit # "none" /\ ~(period <= 0)
      BY <1>2, <2>1, <2>2, <3>1 DEF Outcome
    <3>2. ASSUME base < limit PROVE c.unit # "none" /\ period > 0
      BY <3>1, <3>2, PeriodType
    <3>3. QED
      BY <2>1, <2>2, <3>2
  <2> HIDE DEF base, limit, period
  <2>5. CASE base >= limit
    BY <2>1, <2>2, <2>3, <2>5 DEF Advance
  <2>6. CASE base < limit
    <3>1. period \in Int /\ period > 0
      BY <2>1, <2>2, <2>4, <2>6, PeriodType DEF period
    <3>2. /\ Advance(base, period, limit) \in Int
          /\ Advance(base, period, limit) >= limit
      BY <2>1, <2>2, <3>1, AdvanceLeast
    <3>3. now \in Int /\ limit \in Int /\ limit >= now
      BY <2>2
    <3>4. QED
      BY <2>3, <3>2, <3>3
  <2>7. QED
    BY <2>1, <2>2, <2>5, <2>6
<1>3. QED
  BY <1>1, <1>2

-----------------------------------------------------------------------------
(* Slots: the instants at a given time of day. *)

(* Midnight is right by the clocks before the change or those after it. *)
LEMMA MidnightByClocks ==
  ASSUME NEW z \in Zones, NEW date \in Int
  PROVE  \E s \in {0, z.dstShift} : MidnightOf(z, date) = date * Day - z.offset - s
<1>1. z.offset \in Int /\ z.dstShift \in Int /\ date * Day \in Int
  BY TicksAssumption DEF Zones
<1> DEFINE t == date * Day - Offset(z, date * Day)
<1>2. MidnightOf(z, date) = date * Day - Offset(z, t)
  BY DEF MidnightOf
<1> HIDE DEF t
<1>3. Offset(z, t) = z.offset \/ Offset(z, t) = z.offset + z.dstShift
  BY DEF Offset
<1>4. CASE Offset(z, t) = z.offset
  <2>1. MidnightOf(z, date) = date * Day - z.offset - 0
    BY <1>1, <1>2, <1>4
  <2>2. QED
    BY <2>1
<1>5. CASE Offset(z, t) = z.offset + z.dstShift
  <2>1. MidnightOf(z, date) = date * Day - z.offset - z.dstShift
    BY <1>1, <1>2, <1>5
  <2>2. QED
    BY <2>1
<1>6. QED
  BY <1>3, <1>4, <1>5

(* Where the clocks do not change, an instant is a date and a time of day. *)
LEMMA DateAndClock ==
  ASSUME NEW z \in Zones, z.dstShift = 0, NEW d \in Int, NEW a \in 0 .. Day - 1
  PROVE  LET t == d * Day - z.offset + a
         IN  /\ t \in Int
             /\ LocalDate(z, t) = d
             /\ LocalClock(z, t) = a
             /\ Weekday(z, t) = (d + 4) % 7
<1> DEFINE t == d * Day - z.offset + a
<1>1. z.offset \in Int /\ Day \in Nat \ {0} /\ a \in Int
  BY TicksAssumption DEF Zones
<1>2. t \in Int /\ t + z.offset = d * Day + a
  BY <1>1
<1>3. Offset(z, t) = z.offset
  BY <1>1 DEF Offset
<1>4. (d * Day + a) \div Day = d /\ (d * Day + a) % Day = a
  BY <1>1, DivMod
<1> HIDE DEF t
<1>5. LocalDate(z, t) = d /\ LocalClock(z, t) = a
  BY <1>2, <1>3, <1>4 DEF LocalDate, LocalClock
<1>6. QED
  BY <1>2, <1>5 DEF t, Weekday

LEMMA ClockDetermines ==
  ASSUME NEW z \in Zones, z.dstShift = 0, NEW t \in Int
  PROVE  /\ LocalDate(z, t) \in Int
         /\ t = LocalDate(z, t) * Day - z.offset + LocalClock(z, t)
<1>1. z.offset \in Int /\ Day \in Nat \ {0}
  BY TicksAssumption DEF Zones
<1>2. Offset(z, t) = z.offset
  BY <1>1 DEF Offset
<1> DEFINE x == t + z.offset
<1>3. x \in Int /\ x \div Day \in Int /\ x = Day * (x \div Day) + (x % Day) /\ x % Day \in Int
  <2>1. x \in Int
    BY <1>1
  <2> HIDE DEF x
  <2>2. QED
    BY <1>1, <2>1
<1>4. LocalDate(z, t) = x \div Day /\ LocalClock(z, t) = x % Day
  BY <1>2 DEF LocalDate, LocalClock
<1>5. Day * (x \div Day) = (x \div Day) * Day
  BY <1>1, <1>3
<1>6. t = x - z.offset
  BY <1>1
<1> HIDE DEF x
<1> DEFINE days == LocalDate(z, t) * Day
<1>7. x = days + LocalClock(z, t)
  BY <1>3, <1>4, <1>5
<1>8. days \in Int /\ LocalClock(z, t) \in Int /\ LocalDate(z, t) \in Int
  BY <1>1, <1>3, <1>4
<1> HIDE DEF days
<1>9. t = days - z.offset + LocalClock(z, t)
  BY <1>1, <1>6, <1>7, <1>8
<1>10. QED
  BY <1>8, <1>9 DEF days

(* Where the clocks do not change, no day begins after an instant of it. *)
LEMMA MidnightNotAfter ==
  ASSUME NEW z \in Zones, z.dstShift = 0, NEW t \in Int
  PROVE  MidnightOf(z, LocalDate(z, t)) <= t
<1> DEFINE midnight == LocalDate(z, t) * Day
<1>1. z.offset \in Int /\ Day \in Nat \ {0} /\ LocalDate(z, t) \in Int
  BY TicksAssumption, MidnightType DEF Zones
<1>2. midnight \in Int /\ MidnightOf(z, LocalDate(z, t)) = midnight - z.offset
  <2>1. PICK s \in {0, z.dstShift} : MidnightOf(z, LocalDate(z, t)) = midnight - z.offset - s
    BY <1>1, MidnightByClocks
  <2>2. midnight \in Int
    BY <1>1
  <2> HIDE DEF midnight
  <2>3. QED
    BY <1>1, <2>1, <2>2
<1>3. t = midnight - z.offset + LocalClock(z, t)
  BY ClockDetermines
<1>4. LocalClock(z, t) \in Int /\ LocalClock(z, t) >= 0
  <2>1. t + Offset(z, t) \in Int
    BY <1>1 DEF Offset
  <2>2. QED
    BY <1>1, <2>1 DEF LocalClock
<1> HIDE DEF midnight
<1>5. QED
  BY <1>1, <1>2, <1>3, <1>4

LEMMA UnitLengthType ==
  ASSUME NEW unit \in Units \ {"none"}
  PROVE  UnitLength(unit) \in Nat \ {0}
BY TicksAssumption DEF Units, UnitLength

(* A period that a Duration can hold is what the builder asked for. *)
LEMMA PeriodExact ==
  ASSUME NEW c \in Schedules, c.unit # "none", c.interval * UnitLength(c.unit) <= MaxDuration
  PROVE  PeriodDuration(c) = c.interval * UnitLength(c.unit)
<1> DEFINE n == c.interval * UnitLength(c.unit)
           m == 2 * (MaxDuration + 1)
<1>1. c.interval \in Nat /\ UnitLength(c.unit) \in Nat /\ MaxDuration \in Nat
  BY UnitLengthType, TicksAssumption DEF Schedules
<1>2. n \in Nat /\ n <= MaxDuration
  BY <1>1
<1> HIDE DEF n
<1>3. m \in Nat \ {0} /\ n + MaxDuration + 1 \in 0 .. m - 1
  BY <1>1, <1>2
<1>4. (0 * m + (n + MaxDuration + 1)) % m = n + MaxDuration + 1
  BY <1>3, DivMod
<1>5. 0 * m + (n + MaxDuration + 1) = n + MaxDuration + 1
  BY <1>1, <1>2
<1>6. Wrap(n) = n
  BY <1>1, <1>2, <1>4, <1>5 DEF Wrap
<1>7. QED
  BY <1>6 DEF PeriodDuration, n
=============================================================================
