----------------------------- MODULE Scheduler ------------------------------
(***************************************************************************)
(* The Scheduler of cron/cron.go: the table of jobs, the builder chain     *)
(* that fills it, removal, RunPending, RunAll and the loop of Start, for a *)
(* scheduler used by one goroutine at a time: the program before Start and *)
(* after the loop has ended, the loop in between, and the functions of the *)
(* jobs, which run on the goroutine that runs the batch and may call back  *)
(* into the scheduler.  Job functions take time, may panic and may change  *)
(* the table while a batch is under way.                                   *)
(***************************************************************************)
EXTENDS CronTime, FiniteSets, Sequences, Functions

CONSTANTS
  Jobs,       \* the *Job pointers NewJob can return
  Tasks,      \* the functions a program schedules
  Wrapper,    \* the one name all functions wrapped by DoSafely have
  Configs,    \* the builder chains a program makes jobs with
  Rechains,   \* the builder chains it writes on jobs that exist
  FromDelays, \* how far ahead From may be told to start (0: not called)
  Shifts,     \* the same on a job that exists (0: at once)
  HasLocker,  \* whether SetLocker was called
  MaxJobNum,  \* MAXJOBNUM
  MaxCall,    \* PromptSpec: the longest a job function runs
  StartTime,  \* when the program starts
  MaxTime,    \* bound: the clock stops here
  None        \* no job, no function, no configuration

(* A builder chain: its schedule, the function given to Do or DoSafely and *)
(* whether the parameters fit it, and whether Lock was called.             *)
JobConfigs == [schedule : Schedules, task : Tasks \cup {None}, safe : BOOLEAN,
               fits : BOOLEAN, lock : BOOLEAN]

ASSUME SchedulerAssumption ==
  /\ Configs \subseteq JobConfigs
  /\ Rechains \subseteq JobConfigs
  /\ \A c \in Configs \cup Rechains : c.task # None
  /\ FromDelays \subseteq Nat
  /\ Shifts \subseteq Nat
  /\ HasLocker \in BOOLEAN
  /\ MaxJobNum \in Nat
  /\ MaxCall \in Nat
  /\ StartTime \in Nat \ {0}
  /\ MaxTime \in Nat
  /\ None \notin Jobs \cup Tasks \cup JobConfigs

VARIABLES
  now,      \* the clock
  jobs,     \* s.jobs[:s.size]
  config,   \* what the builder chain of each job set, None before Every
  lastRun,  \* Job.lastRun
  nextRun,  \* Job.nextRun
  mode,     \* the batch under way: "none", "pending" or "all"
  batch,    \* RunPending: the runnable jobs it has still to run
  pos,      \* RunAll: the index of the job it runs next
  cur,      \* the job whose function is running
  loop,     \* the goroutine of Start is alive
  tick,     \* its ticker's channel holds a tick
  since,    \* when its ticker was made
  stopReq,  \* the stopped channel holds a value
  halted,   \* why the program is gone: a panic nobody recovers, or a hang
  unrun,    \* history: jobs RunAll found and has not run yet, while the table
            \* keeps its order
  strays,   \* history: how often each job was run after its removal
  moved     \* history: jobs whose schedule From or Do set while RunPending
            \* works through its batch

table     == <<jobs, config>>
times     == <<lastRun, nextRun>>
loopVars  == <<loop, tick, since, stopReq>>
batchVars == <<mode, batch, pos>>
history   == <<unrun, strays, moved>>
vars == <<now, table, times, batchVars, cur, loopVars, halted, history>>

Reasons == {"full", "nofunc", "unit", "hang", "func", "scheduled"}

TypeOK ==
  /\ now \in Nat
  /\ jobs \in Seq(Jobs)
  /\ config \in [Jobs -> JobConfigs \cup {None}]
  /\ lastRun \in [Jobs -> Int]
  /\ nextRun \in [Jobs -> Int]
  /\ mode \in {"none", "pending", "all"}
  /\ batch \in Seq(Jobs)
  /\ pos \in Nat \ {0}
  /\ cur \in Jobs \cup {None}
  /\ loop \in BOOLEAN
  /\ tick \in BOOLEAN
  /\ since \in Nat
  /\ stopReq \in BOOLEAN
  /\ halted \in Reasons \cup {"no"}
  /\ unrun \subseteq Jobs
  /\ strays \in [Jobs -> Nat]
  /\ moved \subseteq Jobs

Init ==
  /\ now = StartTime
  /\ jobs = <<>>
  /\ config = [j \in Jobs |-> None]
  /\ lastRun = [j \in Jobs |-> Epoch]
  /\ nextRun = [j \in Jobs |-> Epoch]
  /\ mode = "none"
  /\ batch = <<>>
  /\ pos = 1
  /\ cur = None
  /\ loop = FALSE
  /\ tick = FALSE
  /\ since = StartTime
  /\ stopReq = FALSE
  /\ halted = "no"
  /\ unrun = {}
  /\ strays = [j \in Jobs |-> 0]
  /\ moved = {}

-----------------------------------------------------------------------------
InTable == Range(jobs)

JobFunc(j) == IF config[j].safe THEN Wrapper ELSE config[j].task

ShouldRun(j) == Unix(now) >= Unix(nextRun[j])

(* Mutant: Swap overwrites one of the two jobs. *)
TablesOverwritten ==
  { [i \in 1 .. Len(jobs) |-> jobs[p[i]]] : p \in [1 .. Len(jobs) -> 1 .. Len(jobs)] }

(* sort.Sort with Less: any order that is sorted by whole seconds. *)
SortedTables ==
  { [i \in 1 .. Len(jobs) |-> jobs[p[i]]] :
      p \in { q \in Bijection(1 .. Len(jobs), 1 .. Len(jobs)) :
                \A i, k \in 1 .. Len(jobs) :
                  i < k => Unix(nextRun[jobs[q[i]]]) <= Unix(nextRun[jobs[q[k]]]) } }

(* removeByCondition moves the jobs behind the match one place down. *)
Without(s, k) == [i \in 1 .. Len(s) - 1 |-> IF i < k THEN s[i] ELSE s[i + 1]]

(* Who may call the scheduler: the program while no loop owns it, and the  *)
(* function of a job.                                                      *)
Idle   == halted = "no" /\ mode = "none" /\ cur = None /\ ~loop
MayUse == Idle \/ (halted = "no" /\ cur # None)

(* Mutant: the schedule is not advanced to the present. *)
ScheduleUnadvanced(j, c, last, next) ==
  /\ nextRun' = [nextRun EXCEPT ![j] = IF next > now THEN next ELSE Base(c, last, next)]
  /\ halted' = "no"

(* scheduleNextRun on job j of schedule c, last run at last and due at next. *)
ScheduleNext(j, c, last, next) ==
  LET end == Outcome(c, last, next, now)
  IN  /\ nextRun' = [nextRun EXCEPT ![j] =
                       IF end \in {"kept", "set"} THEN NextSchedule(c, last, next, now)
                       ELSE next]
      /\ halted' = IF end \in {"kept", "set"} THEN "no" ELSE end

(***************************************************************************)
(* The builder.                                                            *)
(***************************************************************************)

(* Every(n)...From(t).Do(task): the job enters the table and is scheduled. *)
AddJob(j, c, delay) ==
  /\ MayUse
  /\ config[j] = None
  /\ Len(jobs) < MaxJobNum
  /\ jobs' = Append(jobs, j)
  /\ config' = [config EXCEPT ![j] = c]
  /\ lastRun' = [lastRun EXCEPT ![j] = now]
  /\ ScheduleNext(j, c.schedule, now, IF delay = 0 THEN Epoch ELSE now + delay)
  /\ UNCHANGED <<now, batchVars, cur, loopVars, history>>

(* A chain without Do leaves a job without function, due at once or when   *)
(* From says.                                                              *)
AbandonedChain(j, c, delay) ==
  /\ MayUse
  /\ config[j] = None
  /\ Len(jobs) < MaxJobNum
  /\ jobs' = Append(jobs, j)
  /\ config' = [config EXCEPT ![j] = [c EXCEPT !.task = None, !.safe = FALSE]]
  /\ nextRun' = [nextRun EXCEPT ![j] = IF delay = 0 THEN Epoch ELSE now + delay]
  /\ UNCHANGED <<now, lastRun, batchVars, cur, loopVars, halted, history>>

(* Every and Jobs hand out the pointer of a job, so the builder also acts   *)
(* on jobs that exist: in the table, in a batch, running or removed.       *)
Move(j) == moved' = IF mode = "pending" THEN moved \cup {j} ELSE moved

From(j, delay) ==
  /\ MayUse
  /\ config[j] # None
  /\ nextRun' = [nextRun EXCEPT ![j] = now + delay]
  /\ Move(j)
  /\ UNCHANGED <<now, table, lastRun, batchVars, cur, loopVars, halted, unrun, strays>>

(* A chain on job j: its interval stays, and a lock is not taken back. *)
Rechained(j, c) ==
  [c EXCEPT !.schedule.interval = config[j].schedule.interval,
            !.lock = c.lock \/ config[j].lock]

(* scheduleNextRun counts from the last run, or from now before the first. *)
CountedFrom(j) == IF lastRun[j] = Epoch THEN now ELSE lastRun[j]

(* j...Do(task): what runs at the moment stays safe or unsafe as it is. *)
Do(j, c) ==
  /\ MayUse
  /\ config[j] # None
  /\ j = cur => c.safe = config[j].safe
  /\ config' = [config EXCEPT ![j] = Rechained(j, c)]
  /\ lastRun' = [lastRun EXCEPT ![j] = CountedFrom(j)]
  /\ ScheduleNext(j, Rechained(j, c).schedule, CountedFrom(j), nextRun[j])
  /\ Move(j)
  /\ UNCHANGED <<now, jobs, batchVars, cur, loopVars, unrun, strays>>

(* The same chain without Do: the next rescheduling goes by it. *)
Amend(j, c) ==
  /\ MayUse
  /\ config[j] # None
  /\ config' = [config EXCEPT ![j] = [@ EXCEPT !.schedule = Rechained(j, c).schedule,
                                             !.lock = Rechained(j, c).lock]]
  /\ UNCHANGED <<now, jobs, times, batchVars, cur, loopVars, halted, history>>

(* Every on a full table: index out of range. *)
TableFull ==
  /\ MayUse
  /\ Len(jobs) >= MaxJobNum
  /\ halted' = "full"
  /\ UNCHANGED <<now, table, times, batchVars, cur, loopVars, history>>

(***************************************************************************)
(* Removal and queries.                                                    *)
(***************************************************************************)

(* The loop index ends at the new size, so only the first match goes. *)
RemoveByCondition(matching) ==
  /\ MayUse
  /\ \E k \in 1 .. Len(jobs) :
       /\ jobs[k] \in matching
       /\ \A i \in 1 .. k - 1 : jobs[i] \notin matching
       /\ jobs' = Without(jobs, k)
  /\ unrun' = {}
  /\ UNCHANGED <<now, config, times, batchVars, cur, loopVars, halted, strays, moved>>

Remove(f) == RemoveByCondition({ j \in InTable : JobFunc(j) = f })

RemoveByRef(j) == RemoveByCondition({j})

Clear ==
  /\ MayUse
  /\ jobs' = <<>>
  /\ unrun' = {}
  /\ UNCHANGED <<now, config, times, batchVars, cur, loopVars, halted, strays, moved>>

(* Scheduled ranges over the whole array: unless a job matches first, it   *)
(* reads jobFunc through the nil pointer behind the last job.              *)
Scheduled(f) ==
  /\ MayUse
  /\ \A j \in InTable : JobFunc(j) # f
  /\ Len(jobs) < MaxJobNum
  /\ halted' = "scheduled"
  /\ UNCHANGED <<now, table, times, batchVars, cur, loopVars, history>>

(* NextRun sorts the table it reads. *)
NextRun ==
  /\ MayUse
  /\ jobs' \in SortedTables
  /\ unrun' = {}
  /\ UNCHANGED <<now, config, times, batchVars, cur, loopVars, halted, strays, moved>>

(***************************************************************************)
(* Batches.                                                                *)
(***************************************************************************)

(* Mutants: jobs are taken whether they are due or not; from a table that  *)
(* is not sorted; only the first one; out of the table.                    *)
TakeEverything ==
  /\ jobs' \in SortedTables
  /\ batch' = jobs'
  /\ mode' = "pending"
  /\ UNCHANGED <<pos, history>>

TakeUnsorted ==
  /\ jobs' = jobs
  /\ \E n \in 0 .. Len(jobs) :
       /\ \A i \in 1 .. n : ShouldRun(jobs[i])
       /\ n < Len(jobs) => ~ShouldRun(jobs[n + 1])
       /\ batch' = SubSeq(jobs, 1, n)
  /\ mode' = "pending"
  /\ UNCHANGED <<pos, history>>

TakeFirst ==
  /\ jobs' \in SortedTables
  /\ batch' = IF jobs # <<>> /\ ShouldRun(jobs'[1]) THEN <<jobs'[1]>> ELSE <<>>
  /\ mode' = "pending"
  /\ UNCHANGED <<pos, history>>

TakeOut ==
  /\ \E sorted \in SortedTables, n \in 0 .. Len(jobs) :
       /\ \A i \in 1 .. n : ShouldRun(sorted[i])
       /\ n < Len(jobs) => ~ShouldRun(sorted[n + 1])
       /\ batch' = SubSeq(sorted, 1, n)
       /\ jobs' = SubSeq(sorted, n + 1, Len(jobs))
  /\ mode' = "pending"
  /\ UNCHANGED <<pos, history>>

(* getRunnableJobs: sort, then take jobs until one is not due. *)
TakeRunnable ==
  /\ jobs' \in SortedTables
  /\ \E n \in 0 .. Len(jobs) :
       /\ \A i \in 1 .. n : ShouldRun(jobs'[i])
       /\ n < Len(jobs) => ~ShouldRun(jobs'[n + 1])
       /\ batch' = SubSeq(jobs', 1, n)
  /\ mode' = "pending"
  /\ UNCHANGED <<pos, history>>

RunPending ==
  /\ Idle
  /\ TakeRunnable
  /\ UNCHANGED <<now, config, times, cur, loopVars, halted>>

RunAll ==
  /\ Idle
  /\ mode' = "all"
  /\ pos' = 1
  /\ unrun' = InTable
  /\ UNCHANGED <<now, table, times, batch, cur, loopVars, halted, strays, moved>>

(* Some job is about to be run: the next of the snapshot RunPending took,  *)
(* or whatever the table now holds at RunAll's index.                      *)
Upcoming(j) ==
  /\ halted = "no"
  /\ cur = None
  /\ \/ mode = "pending" /\ batch # <<>> /\ j = Head(batch)
     \/ mode = "all" /\ pos <= Len(jobs) /\ j = jobs[pos]

(* Mutants: the batch is not moved on; RunAll walks the table downwards,   *)
(* or takes two places at a time.                                          *)
SkipOne(j) ==
  /\ batch' = IF mode = "pending" THEN Tail(batch) ELSE batch
  /\ pos' = IF mode = "all" THEN pos + 2 ELSE pos
  /\ unrun' = unrun \ {j}

StayAt(j) ==
  /\ unrun' = unrun \ {j}
  /\ UNCHANGED <<batch, pos>>

MoveBack(j) ==
  /\ batch' = IF mode = "pending" THEN Tail(batch) ELSE batch
  /\ pos' = IF mode = "all" THEN pos - 1 ELSE pos
  /\ unrun' = unrun \ {j}

MovePast(j) ==
  /\ batch' = IF mode = "pending" THEN Tail(batch) ELSE batch
  /\ pos' = IF mode = "all" THEN pos + 1 ELSE pos
  /\ unrun' = unrun \ {j}

CountStray(j) ==
  strays' = IF j \in InTable THEN strays ELSE [strays EXCEPT ![j] = @ + 1]

MayGrant(j) == config[j].lock => HasLocker

(* run: the lock, if it is asked for, is granted; the function is called. *)
RunStart(j) ==
  /\ Upcoming(j)
  /\ MayGrant(j)
  /\ config[j].task # None
  /\ config[j].fits
  /\ lastRun' = [lastRun EXCEPT ![j] = now]
  /\ cur' = j
  /\ MovePast(j)
  /\ CountStray(j)
  /\ UNCHANGED <<now, table, nextRun, mode, loopVars, halted, moved>>

(* The locker is missing, refuses or fails: no run and no rescheduling. *)
RunRefused(j) ==
  /\ Upcoming(j)
  /\ config[j].lock
  /\ MovePast(j)
  /\ UNCHANGED <<now, table, times, mode, cur, loopVars, halted, strays, moved>>

(* The parameters do not fit: an error nobody sees, and a rescheduling. *)
RunMismatched(j) ==
  /\ Upcoming(j)
  /\ MayGrant(j)
  /\ config[j].task # None
  /\ ~config[j].fits
  /\ lastRun' = [lastRun EXCEPT ![j] = now]
  /\ ScheduleNext(j, config[j].schedule, now, nextRun[j])
  /\ MovePast(j)
  /\ UNCHANGED <<now, table, mode, cur, loopVars, strays, moved>>

(* A job without function: reflection panics on the nil interface. *)
NoFuncPanics(j) ==
  /\ Upcoming(j)
  /\ MayGrant(j)
  /\ config[j].task = None
  /\ lastRun' = [lastRun EXCEPT ![j] = now]
  /\ halted' = "nofunc"
  /\ UNCHANGED <<now, table, nextRun, batchVars, cur, loopVars, history>>

(* The function returns (or DoSafely recovers its panic), run reschedules. *)
CallReturn ==
  /\ halted = "no"
  /\ cur # None
  /\ ScheduleNext(cur, config[cur].schedule, lastRun[cur], nextRun[cur])
  /\ cur' = None
  /\ UNCHANGED <<now, table, lastRun, batchVars, loopVars, history>>

CallPanics ==
  /\ halted = "no"
  /\ cur # None
  /\ ~config[cur].safe
  /\ halted' = "func"
  /\ UNCHANGED <<now, table, times, batchVars, cur, loopVars, history>>

Finish ==
  /\ halted = "no"
  /\ cur = None
  /\ \/ mode = "pending" /\ batch = <<>>
     \/ mode = "all" /\ pos > Len(jobs)
  /\ mode' = "none"
  /\ pos' = 1
  /\ unrun' = {}
  /\ moved' = {}
  /\ UNCHANGED <<now, table, times, batch, cur, loopVars, halted, strays>>

(***************************************************************************)
(* The loop of Start and the clock.                                        *)
(***************************************************************************)

Start ==
  /\ Idle
  /\ loop' = TRUE
  /\ tick' = FALSE
  /\ since' = now
  /\ stopReq' = FALSE
  /\ UNCHANGED <<now, table, times, batchVars, cur, halted, history>>

(* case <-ticker.C: s.RunPending() *)
LoopTick ==
  /\ halted = "no"
  /\ loop
  /\ mode = "none"
  /\ tick
  /\ tick' = FALSE
  /\ TakeRunnable
  /\ UNCHANGED <<now, config, times, cur, loop, since, stopReq, halted>>

(* stopped <- true, by any goroutine *)
Stop ==
  /\ halted = "no"
  /\ loop
  /\ ~stopReq
  /\ stopReq' = TRUE
  /\ UNCHANGED <<now, table, times, batchVars, cur, loop, tick, since, halted, history>>

(* Mutant: break leaves the select, not the loop. *)
LoopBreak ==
  /\ halted = "no"
  /\ loop
  /\ mode = "none"
  /\ stopReq
  /\ stopReq' = FALSE
  /\ UNCHANGED <<now, table, times, batchVars, cur, loop, tick, since, halted, history>>

(* case <-stopped: ticker.Stop(); return *)
LoopStop ==
  /\ halted = "no"
  /\ loop
  /\ mode = "none"
  /\ stopReq
  /\ loop' = FALSE
  /\ tick' = FALSE
  /\ stopReq' = FALSE
  /\ UNCHANGED <<now, table, times, batchVars, cur, since, halted, history>>

(* Mutant: a timer, which fires once, in place of the ticker. *)
TimerFires ==
  /\ halted = "no"
  /\ now < MaxTime
  /\ now' = now + 1
  /\ tick' = (tick \/ (loop /\ now' - since = Second))
  /\ UNCHANGED <<table, times, batchVars, cur, loop, since, stopReq, halted, history>>

(* The ticker's channel holds one tick; further ones are dropped. *)
TimePasses ==
  /\ halted = "no"
  /\ now < MaxTime
  /\ now' = now + 1
  /\ tick' = (tick \/ (loop /\ (now' - since) % Second = 0))
  /\ UNCHANGED <<table, times, batchVars, cur, loop, since, stopReq, halted, history>>

-----------------------------------------------------------------------------
Build ==
  \E j \in Jobs, c \in Configs, delay \in FromDelays :
    AddJob(j, c, delay) \/ AbandonedChain(j, c, delay)

Rebuild ==
  \E j \in Jobs :
    \/ \E delay \in Shifts : From(j, delay)
    \/ \E c \in Rechains : Do(j, c) \/ Amend(j, c)

Withdraw ==
  \/ \E f \in Tasks : Remove(f)
  \/ \E j \in Jobs : RemoveByRef(j)
  \/ Clear

RunStep ==
  \/ \E j \in Jobs : RunStart(j) \/ RunRefused(j) \/ RunMismatched(j) \/ NoFuncPanics(j)
  \/ Finish

ProgramStep ==
  \/ Build
  \/ Rebuild
  \/ TableFull
  \/ Withdraw
  \/ \E f \in Tasks : Scheduled(f)
  \/ NextRun
  \/ RunPending
  \/ RunAll
  \/ RunStep
  \/ CallReturn
  \/ CallPanics
  \/ Start
  \/ LoopTick
  \/ Stop
  \/ LoopStop

Next == ProgramStep \/ TimePasses

(* Time passes, a batch under way goes on, job functions return and the    *)
(* select of the loop takes a channel that stays ready.                    *)
Fairness ==
  /\ WF_vars(TimePasses)
  /\ WF_vars(RunStep)
  /\ WF_vars(CallReturn)
  /\ WF_vars(LoopTick)
  /\ SF_vars(LoopStop)

Spec == Init /\ [][Next]_vars

FairSpec == Spec /\ Fairness

(* A machine that is never behind: the clock waits for every step of the   *)
(* scheduler, and a job function runs for at most MaxCall.                 *)
Prompt ==
  IF mode = "none" THEN ~(loop /\ tick)
  ELSE cur # None /\ now < lastRun[cur] + MaxCall

PromptNext == ProgramStep \/ (Prompt /\ TimePasses)

PromptSpec == Init /\ [][PromptNext]_vars

-----------------------------------------------------------------------------
(***************************************************************************)
(* Safety.                                                                 *)
(***************************************************************************)

(* The table holds every job once, and only jobs Every has put there       *)
(* (removeByCondition 598-603, Swap 485).                                  *)
TableSound ==
  /\ IsInjective(jobs)
  /\ \A j \in InTable : config[j] # None

(* RunPending does not look again at the jobs of its snapshot, which the   *)
(* functions of earlier ones may remove, add to, sort, clear and build on. *)
(* What it has still to run is distinct and not the job that is running,   *)
(* and due, unless a function called From or Do on just that job, which is *)
(* then run all the same (lines 166-176, 341-344, 508-521, 541-549).       *)
BatchDue ==
  mode = "pending" =>
    /\ IsInjective(batch)
    /\ \A j \in Range(batch) : j # cur /\ (ShouldRun(j) \/ j \in moved)

(* A job that was removed runs at most once more: RunPending may hold it   *)
(* in the batch it took before the removal, no later batch does (541-549). *)
RemovedRunsAtMostOnce == \A j \in Jobs : strays[j] <= 1

(* RunPending takes every job that is due, although it stops looking at    *)
(* the first one that is not (lines 511-519).                              *)
RunPendingTakesAllDue ==
  [][mode = "none" /\ mode' = "pending" =>
       Range(batch') = { j \in InTable : ShouldRun(j) }]_vars

(* A job leaves the table only when it is cleared, removed by reference or *)
(* removed by the name of its function; sorting loses none (580-605).      *)
OnlyWithdrawnJobsLeave ==
  [][\A j \in InTable \ Range(jobs') :
       Clear \/ RemoveByRef(j) \/ Remove(JobFunc(j))]_vars

(* However many runs a job missed while its function ran or the loop was   *)
(* late, run leaves it with no schedule in the past: missed runs collapse  *)
(* into one (lines 321-324, 658-662).                                      *)
MissedRunsCollapse ==
  [][cur # None /\ cur' = None => halted' # "no" \/ nextRun'[cur] >= now]_vars

(* "Run the job and immediately reschedule it" (line 116): a run of        *)
(* RunPending keeps the schedule it was due by, and so repeats, only when  *)
(* it began and ended in the second of that schedule and not after its     *)
(* instant, or when a function called From or Do on the job during the     *)
(* batch (lines 113, 301-324, 341-344).                                    *)
OnlyEarlyRunsRepeat ==
  [][cur # None /\ cur' = None /\ mode = "pending" =>
       \/ halted' # "no"
       \/ nextRun'[cur] # nextRun[cur]
       \/ cur \in moved
       \/ now <= nextRun[cur] /\ Unix(lastRun[cur]) = Unix(nextRun[cur])]_vars

(* "RunAll run all jobs regardless if they are scheduled to run or not"    *)
(* (line 551): every job of its table is tried, also when functions add    *)
(* more, unless one of them removes jobs or sorts the table, which moves   *)
(* others past the index (lines 557-564).                                  *)
RunAllRunsAll ==
  [][mode = "all" /\ mode' = "none" => unrun \cap InTable = {}]_vars

(* The longest the functions of all jobs but one run. *)
Round == (Cardinality(Jobs) - 1) * MaxCall

(* On a machine that is never behind, the loop starts a due job within two *)
(* rounds of the other jobs, the one under way when a tick comes and the   *)
(* one of its own batch, or, where a second is longer than a round, within *)
(* a second and the round of its own batch (lines 541-549, 627-641).  A    *)
(* job whose lock was refused may wait longer, and a chain without Do was  *)
(* never scheduled.                                                        *)
LatenessBound ==
  halted = "no" /\ loop =>
    \A j \in InTable \ {cur} :
      \/ config[j].lock \/ config[j].task = None
      \/ now <= Later(nextRun[j], since) + Later(Second, Round) + Round

(***************************************************************************)
(* Liveness.                                                               *)
(***************************************************************************)

(* A job that is due while the loop runs, early enough for a tick to come  *)
(* before the clock stops.                                                 *)
Waiting(j) ==
  /\ halted = "no" /\ loop /\ ~stopReq
  /\ j \in InTable \ {cur}
  /\ ~config[j].lock /\ config[j].task # None
  /\ ShouldRun(j)
  /\ Later(nextRun[j], since) + Second <= MaxTime

(* A due job does not wait forever: it is run unless it is removed or      *)
(* scheduled anew, the loop is stopped or the program is gone (lines       *)
(* 627-641).                                                               *)
DueJobsRun == \A j \in Jobs : Waiting(j) ~> ~Waiting(j)

(* A value sent on the stopped channel ends the loop (lines 636-638).      *)
StopEndsLoop == stopReq ~> ~loop \/ halted # "no"

(***************************************************************************)
(* What a comment in cron.go says and the code does not do.                *)
(***************************************************************************)

(* "keep deleting until no more jobs match the criteria" (line 583).       *)
RemoveTakesAllMatches ==
  [][\A f \in Tasks : Remove(f) => \A j \in Range(jobs') : JobFunc(j) # f]_vars
=============================================================================
