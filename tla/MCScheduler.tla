---------------------------- MODULE MCScheduler -----------------------------
(* Small instances of Scheduler: a second has 2 ticks, a day 6.            *)
EXTENDS Scheduler, TLC

CONSTANTS j1, j2, f, g

Greenwich == [offset |-> 0, dstFrom |-> 1000, dstShift |-> 0]

Every(interval, unit, task) ==
  [schedule |-> [interval |-> interval, unit |-> unit, atTime |-> 0,
                 startDay |-> 0, zone |-> Greenwich],
   task |-> task, safe |-> FALSE, fits |-> TRUE, lock |-> FALSE]
Safely(c)  == [c EXCEPT !.safe = TRUE]
Misfit(c)  == [c EXCEPT !.fits = FALSE]
Locked(c)  == [c EXCEPT !.lock = TRUE]

Symmetric == Permutations(Jobs)

(* Two ordinary jobs, and every odd one: parameters that do not fit, a     *)
(* safe lock, no unit, no interval.                                        *)
TableConfigs ==
  { Every(1, "seconds", f), Safely(Locked(Every(2, "seconds", g))),
    Misfit(Every(1, "seconds", g)), Every(1, "none", f), Every(0, "seconds", f) }

PlainConfigs == { Every(1, "seconds", f) }

(* A chain that gives a job a longer period. *)
LongerPeriod == { Every(2, "seconds", f) }
=============================================================================
