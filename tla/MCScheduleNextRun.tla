------------------------- MODULE MCScheduleNextRun --------------------------
(* Small instances of ScheduleNextRun: a day has 4 ticks, a week 28, and   *)
(* durations wrap above 62 ticks, which is no whole number of days.        *)
EXTENDS ScheduleNextRun

Job(interval, unit, atTime, startDay, zone) ==
  [interval |-> interval, unit |-> unit, atTime |-> atTime,
   startDay |-> startDay, zone |-> zone]

Never == 1000
Greenwich == [offset |-> 0, dstFrom |-> Never, dstShift |-> 0]
West      == [offset |-> -2, dstFrom |-> Never, dstShift |-> 0]
Summer    == [offset |-> 0, dstFrom |-> 9, dstShift |-> 1]
Skipping  == [offset |-> -1, dstFrom |-> 9, dstShift |-> 1]   \* no midnight on day 2
Repeating == [offset |-> 1, dstFrom |-> 8, dstShift |-> -1]   \* two on day 2

MCInstants == {0, 1, 2, 3, 5, 6, 8, 9, 11, 12, 15, 20, 24, 27, 28, 29}
MCLowest == -70

(* Every unit, first and last time of day and weekday, longer intervals,   *)
(* a zero interval, two whose duration overflows (to a negative one and to *)
(* three days and a half), zones whose clocks change, also at midnight,    *)
(* one that is half a day behind the machine's, and a missing unit.        *)
MCConfigs ==
  { Job(1, "seconds", 0, 0, Greenwich), Job(5, "seconds", 0, 0, Greenwich),
    Job(0, "seconds", 0, 0, Greenwich), Job(2, "minutes", 0, 0, Greenwich),
    Job(1, "hours", 0, 0, Greenwich),   Job(1, "days", 0, 0, Greenwich),
    Job(1, "days", 3, 0, Greenwich),    Job(3, "days", 2, 0, Greenwich),
    Job(1, "weeks", 0, 0, Greenwich),   Job(1, "weeks", 3, 6, Greenwich),
    Job(2, "weeks", 1, 4, Greenwich),   Job(3, "weeks", 1, 4, Greenwich),
    Job(5, "weeks", 1, 4, Greenwich),
    Job(1, "days", 3, 0, Summer),       Job(1, "days", 3, 0, West),
    Job(1, "weeks", 1, 5, West),        Job(1, "weeks", 2, 0, Skipping),
    Job(2, "weeks", 2, 6, Repeating),   Job(1, "none", 0, 0, Greenwich) }
=============================================================================
