# gococo in TLA+

gococo is a Go library for composite services of REXos: a cron scheduler
(`cron/cron.go`), an HTTP client that keeps a service user's token fresh
(`rexos/client.go`), a service layer on top of it (`rexos/service.go`), and
composite operations built from that layer. This directory holds TLA+ models of
it, the TLC runs that check them, and TLAPS proofs about them. `PROJECT.json`
lists the parts, the runs, what each definition models, the hazards of the
code, and the theorems.

    tlc -workers 2 -config Scheduler.cfg MCScheduler.tla
    tlapm SchedulerProofs.tla

## The system

| Part | State | Operations | Meets |
| --- | --- | --- | --- |
| Job (`cron.go` 65-466) | schedule fields, `lastRun`, `nextRun`, function | `NewJob`, builder methods, `Do`, `DoSafely`, `run`, `scheduleNextRun` | called by the scheduler; its function is the program's and may call back |
| Scheduler (470-644) | an array of jobs and its size, unprotected | `Every`, `Remove`, `RemoveByRef`, `Clear`, `Scheduled`, `NextRun`, `RunPending`, `RunAll`, `Start` | one goroutine per `Start`; shared memory with whoever else calls it |
| Default scheduler (649-709) | one global scheduler | the same, as functions | every client schedules its token refresh here |
| Locker (83-93, 118-134) | a global | `SetLocker`; `Lock` and `Unlock` around `run` | an external service other instances share |
| Service user token (`client.go` 52-135) | `serviceToken` under a mutex | `refreshToken`, `scheduleTokenRefreshHandler` | authentication server; default scheduler |
| REST client (137-701) | none of its own | `get`, `post`, `patch`, `delete`, `getFile` and wrappers | the remote server; up to three trials |
| REX service (`service.go`) | none | HAL get, create, patch, delete; file download and upload | makes a `Status` of the client's code and error |
| Composite operations (`share.go`, `project.go`, `invitation.go`, `user.go`) | none; several requests in a row | shares, transfer, invitation, user queries | the service; other callers' changes in between |
| Interceptor (`interceptor.go`) | a token under a mutex | load, watch, `AddToken` | a session file others write |
| Context, JWT, links, log, math | none | pure functions | |

What is hard about it: the scheduler's table is changed by the functions of the
jobs that are being run from it; time goes on while they run, and ticks are
dropped; schedules are compared sometimes in seconds and sometimes exactly; a
token must be replaced before it expires by a job that knows only what the
first token said; a request that is lost or times out may or may not have
been executed, while the caller is told one thing or the other; several such
requests make one change, with other callers between them; every client puts
its job into the one global table without a lock; instances that share a locker
crash while they hold it; and a session file is read while it is written. The
hazards, each at its line, are in `PROJECT.json`.

What makes each part correct:

- *Job*: the next schedule is the first slot that is not past, at the time and
  on the day asked for, and computing it ends.
- *Scheduler*: no job is lost or duplicated; a batch is exactly what is due,
  and stays due unless a job function moves just that job; a due job runs, and
  soon; a removed one does not run again; stopping stops.
- *Default scheduler*: clients that add their jobs beside running loops lose
  none of them, and run none before it has a function.
- *Locker*: jobs of one key run on one instance at a time, locks are given
  back, and no key is dead: while jobs of it are due, some job of it runs.
- *Token*: with an authentication server that answers, the token never expires;
  otherwise the client recovers.
- *REST client and service*: what the caller is told happened did happen; no
  repetition changes a resource twice; every call ends.
- *Composite operations*: a sequence of requests amounts to the one change it
  stands for, and only success promises that it happened (an error, or the
  panic of a lost GET, PATCH or DELETE, does not); no share without an account;
  a transfer takes back nobody's change outside its own race.
- *Interceptor*: a header is of one session; the session in use is the one in
  the file.

## The modules

| Module | Models | Kind |
| --- | --- | --- |
| `CronTime` | the arithmetic of `scheduleNextRun` | pure operators |
| `ScheduleNextRun` | one call of it, statement by statement | state machine |
| `Scheduler` (EXTENDS `CronTime`) | jobs, table, batches, job functions, loop of `Start` | state machine |
| `ServiceToken` (EXTENDS `CronTime`) | the token goroutine and its cron job | state machine |
| `SharedScheduler` | the default scheduler as several clients use it, by memory accesses | state machine |
| `JobTable` | what the table is to goroutines that do not interfere | abstract, implemented by `SharedScheduler` |
| `CronLocker` | instances of a program under one locker | state machine |
| `Exclusive` | what a locker promises | abstract, implemented by `CronLocker` |
| `RestCalls` | client and service calls of several callers on one resource | state machine |
| `Projects` | shares, transfers and invitations as rows of requests | state machine |
| `ShareStore` | each of those calls as one change | abstract, implemented by `Projects` |
| `InterceptorState` | the variables of the next, and what it keeps true | state |
| `Interceptor` (EXTENDS `InterceptorState`) | the session file, its watcher, and requests that use the token | state machine |
| `MC...` | small instances of these for TLC | |
| `...Proofs` | theorems about these; those about `Interceptor` are in `RestCallsProofs`, which has its state and an instance of it | |

Definitions preceded by "Mutant:" are not part of the models. They are
plausible mistakes in the definition after them; with one in its place, the
property named in `PROJECT.json` fails.

**CronTime.** Instants are ticks since the epoch. `Second`, `Minute`, `Hour`
and `Day` are constants, so that a day can have a handful of ticks; a `Second`
of two ticks gives instants the sub-second part that `Unix()` drops.
`MaxDuration` is where `time.Duration` wraps. A zone is an offset with at most
one change of its clocks. `MidnightOf` is Go's `time.Date`: it guesses the
offset from the wall clock read as an instant and corrects it once, so where
the clocks skip or repeat midnight it answers with an instant of the evening
before or with one of the two midnights. The loop at lines 322-324 is written
in closed form, `Advance`; the value scheduleNextRun computes is
`NextSchedule`, and how it ends (schedule kept, schedule set, the panic of a
job without unit, or no end) is `Outcome`.

**ScheduleNextRun** has a step for the early return, for the switch and for
every round of the loop, and shows that it arrives at that closed form. So the
two descriptions of the code, one that follows its statements and one that the
larger models can afford, are checked and proved against each other.

**Scheduler.** `jobs` is the live part of the array, `config` what a builder
chain set, `lastRun` and `nextRun` the fields of each job. `mode`, `batch` and
`pos` are where `RunPending` (which runs a snapshot) or `RunAll` (which walks
the live table) is; `cur` is the job whose function is running; `loop`, `tick`,
`since` and `stopReq` are the goroutine of `Start`, its ticker and its stop
channel, both of capacity one. `halted` says why the program is gone: a full
table, a job without function, a missing unit, a loop that never ends, a panic
of a job function, or `Scheduled` on a nil job. While `cur` is set, time passes
and the function may call any operation of the table.

A job function may also act on jobs that exist, whose pointers `Every` and
`Jobs` hand out: `From` sets their schedule, `Do` gives them a function and
schedules them, `Amend` is a chain without `Do`. This is the one way in which a
job that waits in the batch may become not due, and `RunPending` runs it all
the same; `moved` is a history of the jobs it happened to, which `BatchDue` and
`OnlyEarlyRunsRepeat` except and nothing else. `Rechains` and `Shifts` are the
chains and the instants of such calls, the instants relative to now; `From` is
not given one that is past, which makes a job due like now does, only with a
lateness the scheduler did not cause. `Do` on the job that is running leaves it
safe or unsafe as it is, since the function under way was called with the old
wrapper or without; and `RunPending`, `RunAll` and `Start` are not called from
job functions in the model (a nested batch, or a second loop).

`run` is `RunStart` and `CallReturn` around the call; `RunRefused`,
`RunMismatched` and `NoFuncPanics` are its other ways to end. `sort.Sort` is
not stable: any order sorted by whole seconds may come out. `strays` and
`unrun` are histories that only properties read.

The model is of a scheduler that one goroutine uses at a time: the program
builds the table, starts the loop and does not touch the table until the loop
has stopped, except from job functions. The code has no lock, and with a second
user every access is a data race; that is `SharedScheduler`. `RunAllwithDelay`
is `RunAll`, since time may pass between two of its jobs.

**SharedScheduler** is what `client.go` does with the default scheduler: each
client calls `Every`, `Do` and `Start` (lines 133-134) and its loop sorts the
one table, takes the due jobs and runs them, beside the others. A step is one
access to shared memory: the size is read, the slot written, the size written
(of a value that may be stale), the function set, the schedule set; `Swap` is
two reads and two writes. `sort.Sort` is its insertion sort, which it uses for
tables of up to twelve jobs; on a larger table it partitions first, with swaps
of slots that are not neighbours, which are the same two reads and two writes.
Schedules are reduced to `epoch` (due at once, as `NewJob` leaves them), `due`
and `later`, and two schedules that are both due or both later may be in either
order. `overlap` is a history: two clients were between the read and the write
of the size, or two loops in the sort, at once. A memory that reorders writes
is not modelled: with one more step in another order the program has the same
overlaps to fear. `Table` maps the state to `JobTable`, whose jobs are those of
the table with the swap under way completed: `size++` is the moment `Every`
takes effect, the first write of a swap the moment of the exchange. `JobTable`
promises nothing once `overlap` is true.

**CronLocker.** Each instance has the jobs it finds due, the batch it works
through, and the job it runs (`call`) or has run (`unlock`). The locker maps a
key to its holder. It grants, refuses, or fails before or after it took or gave
back the lock; `leaked` is a history of the keys such a fault, a panic or a
crash left behind; `Expire` is the locker's lease, which outlasts every run. An
instance without locker (`Equipped`) refuses all its jobs. The key is the hash
of the function's name: all functions wrapped by `DoSafely` have one.

**ServiceToken** measures time relative to now, so the system runs forever in a
finite state space: `wait` is the time to the next attempt (negative when a due
job is late), `left` what remains of the stored token's life, `age` that of the
request. An answer may be a token, a token with a mistyped field, other JSON,
an error, or never come. `Reschedule` is `Job.run` rescheduling a job of
`interval` seconds by `NextSchedule`. `Lateness` is what `LatenessBound` of
`Scheduler` gives for the default scheduler the job lives in.

**RestCalls.** A call is an operation of `service.go`; `method` is the client
request under way and `trial` its round of the retry loop. `Serve` is the
server: it executes a change atomically and reports it, or reports a timeout or
an error, or nothing, although it executed it; or it refuses. What the client
returns for a code is `ReturnedCode` and `ReturnsError`, what the service makes
of it `Conclusion`. A file upload after a download (`UploadFileContent`) is two
requests. Codes are the ones the code tells apart. The reply to the client's
own client (`getFile` copies the body into the gin context) and the panic gin
may raise there are outside the model.

**Projects.** A call is a record: the operation, the request under way
(`step`), the user and action it is about, the project it has read (`seen`),
the users it has still to look up (`listed`), and what the last request was
answered. A change is two steps, since others act between the server's
execution and the answer: `ServeChange` executes and chooses the answer,
`Return` or the next request follows. `Fail` is a request that failed without
effect, `Lose` a GET, PATCH or DELETE that got lost on the way, which panics in
the client; if such a request was executed and its answer is lost,
`ServeChange` chooses "panic". A lost POST is an error. What a request can end
with is what `RestCalls` shows of it: success means done, an error or a panic
means perhaps, a conflict means not. `Conflict` is the create that turns into a
patch; `PatchedProject` is the whole project as it was read with the new owner.
`Promise` maps every call to one of `ShareStore`: it takes effect at the
request that changes something (for `GetShare`, that lists the shares), and all
other steps stutter. After a panic as after an error the caller knows only that
the change may have happened; an invitation grants its share with a POST, so
one that panics has granted nothing.

**Interceptor.** A session is a number; the file holds one, or is half written,
or missing. `loadToken` reads the file, takes the mutex and stores token and
type one after the other, `AddToken` reads them one after the other. The
watcher package is external: it notices a change at its next look at the file,
sends one event, and waits until it is received. `slipped` is a history of a
write between the first load and the moment the watch is set up.

## The runs

| Run | Shows | Bounds |
| --- | --- | --- |
| `ScheduleNextRun` | the loop computes `NextSchedule`; schedules are not past and near, are slots (for periods that a `Duration` can hold; by the clocks before or after a change), and are the next possible ones (for interval one and the machine's own zone, if its clocks do not change); the call returns if the period is positive | 19 configurations with every unit, intervals 0, 1, 2, 3 and two that overflow, to a negative period and to three days and a half, zones whose clocks change, skip midnight and repeat it, and one half a day behind the machine's; 16 instants over one week of 4-tick days; `Lowest` stops a runaway schedule |
| `Scheduler` | the table keeps its jobs, batches are exactly what is due and stay due but for jobs that a function moves, removed jobs run at most once more, jobs leave only by removal, missed runs collapse, a run repeats only if it came early within its second, `RunAll` skips only jobs that were moved past it | 2 jobs, 2 functions, table of 2, 5 configurations, clock from 1 to 3 at two ticks a second, with a locker; on jobs that exist `From` says a tick later, and a chain that gives them a longer period may follow, with `Do` or without |
| `SchedulerPrompt` | a due job starts within two rounds of the others, or within a second and one round where a second is longer | 2 jobs, functions of up to one tick, clock to 9, a machine never behind; `From` on jobs that exist, now or a tick later |
| `SchedulerLive` | due jobs run, stop stops | 2 jobs, clock to 5; `Do` and other chains on jobs that exist |
| `SharedScheduler` | without overlaps `Every` and `Swap` are atomic (refinement of `JobTable`), the table keeps every job and nothing panics but a job between `Every` and `Do` | 2 clients with a loop each, 1 older job |
| `CronLocker` | exclusion (refinement of `Exclusive`), locks given back, no key is dead: while jobs of it stay due, some job of it is run | 2 instances, 2 jobs of one key and 1 with its own, 1 fault |
| `ServiceToken` | a fresh token while tokens are answered; recovery | lifetimes of 80 and 100 s, one on each side of the branch at 90 s; two ticks to a second; no bound on time |
| `RestCalls` | success is real, nothing but a delete changes twice, conflicts are foreign, calls end and never start their requests over | 2 callers, all 8 operations, 3 trials as in the code |
| `Projects` | calls keep their word (refinement of `ShareStore`), shares have accounts, names are lost only in a race | 2 callers, a member and a guest without account, 1 rename |
| `Interceptor` | headers of one session, sessions loaded | 3 sessions |

Two jobs suffice for the table properties because each relates one job with one
other one (the one removed, running, or sorted before it); the clock of
`Scheduler` reaches a tick that comes while a batch is run, and a job that was
due twice. `MaxJobNum` equal to the number of jobs makes the full table
reachable. `SharedScheduler` has two of whatever may overlap, a third job for
the sort to move, and both orders of adding and starting. In `CronLocker` one
instance holds a lock and the other waits for it or takes another; the fault is
an error or crash that leaks a lock. An instance without a locker runs none of
these jobs; the theorems about `CronLocker` include it, and `Scheduler` has the
job's side of it (`HasLocker`). `WantedKeysRun` is a property of keys: of two
jobs that share one, the locker may refuse the same one for ever, on every
instance, and grant the other. For the job that has a key of its own it is a
property of the job. In `Projects` one caller does what the other has not
finished, and a project that is renamed once tells a stale name from the new
one. A file that is written three times is written before, during and after a
load. The theorems below remove these bounds for the invariants and the action
properties.

Two more runs check what a comment of the code says and find it violated.

| Run | Comment | What happens |
| --- | --- | --- |
| `SchedulerRemove` | "keep deleting until no more jobs match" (`cron.go` 583) | only the first match is removed |
| `RestCallsLost` | "return values also contain ... a potential error" (`client.go` 203) | a lost GET panics |

Other comments are not quite true either. There a property of a passing run says
exactly how far the code keeps them, and the finding in `PROJECT.json` quotes
the comment:

| Property | Comment | What the code does |
| --- | --- | --- |
| `OnlyEarlyRunsRepeat` | "Run the job and immediately reschedule it" (`cron.go` 116) | a job run early within its second keeps its schedule and runs twice |
| `RunAllRunsAll` | "run all jobs regardless" (551) | a job function that removes a job or sorts makes `RunAll` skip others |
| `OutageOnlyAfterFailure` | "always has a valid token" (`client.go` 114) | an answer without token counts as success, or waits for the next interval |
| `AtTimeOfDay` | "at specific time of day", "on specific Weekday" (`cron.go` 220, 413) | across a change of the clocks a slot is off by the change, and where midnight is skipped a weekly job comes a day late |
| `PanicsExplained`, `TableKept` | the same as above, with two clients | one client's loop runs the other's job before `Do`, and panics; overlapping `Every`s or sorts lose a job |

The outcomes these properties allow are reached: without `overlap`, or without
the case of a job between `Every` and `Do`, TLC finds `TableKept` and
`PanicsExplained` violated; without `moved` it finds `BatchDue` violated;
`AtTimeOfDay` is violated without its two clocks, and without `MidnightMoved`.

`CHECK_DEADLOCK FALSE` stands where the program may end (a call returned, the
clock at its bound, a panic); `ServiceToken` may hang in a request that never
returns. `CronLocker`, `RestCalls`, `Projects` and `Interceptor` never stop and
are checked for deadlock.

## Fairness

- `Scheduler`: weak fairness of time, of the batch under way, of job functions
  returning, and of the tick branch of the loop: goroutines are scheduled. A
  function that never returns would hold the loop forever, and the code claims
  nothing else. Strong fairness of `LoopStop`: the select chooses at random
  among ready channels, so a channel that is ready again and again, at every
  round, is taken. Starting, stopping, panics and all uses of the table are not
  fair.
- `SchedulerPrompt` is no fairness but an assumption about speed: the clock
  waits for the scheduler's own steps and job functions take at most `MaxCall`.
- `ServiceToken`: time passes, due jobs are sent, requests that do not hang are
  answered, and a server asked again and again issues a token (strong fairness
  of `Answer("token")`). Hanging is always possible, and `Recovers` excepts it.
- `CronLocker`: weak fairness of `RunPending` (the loop of `Start` ticks) and
  of the batch under way, so functions return; and of `Expire`. Without a lease
  the lock of a dead instance would stay forever: line 80 leaves the locker to
  the user, and `WantedKeysRun` rests on it. Becoming due, faults, crashes and
  restarts are not fair; the bound on faults says that they end.
- `Interceptor`: goroutines are scheduled and the watcher polls (weak
  fairness); strong fairness of `LockToStore`, because a `sync.Mutex` hands
  itself to a goroutine that has waited for a millisecond. Writers and requests
  are not fair.
- `RestCalls`: each request is answered, or its connection fails. The code sets
  no timeout, so this is the network's doing, not the client's.

## What is proved

All proofs are checked by TLAPS for every value of the constants that satisfies
the assumptions in the modules. `TicksAssumption` (units have a length),
`InputsAssumption`, `SchedulerAssumption`, `ServerAssumption`,
`ClientsAssumption`, `TrialsAssumption`, `LockerAssumption`,
`ProjectsAssumption`, `NoneAssumption` and `SessionsAssumption` only say what
kind of thing a constant is; `RefreshInTime` is a condition, explained below.
That the time of day of a schedule is less than a day is `Schedules`: `At`
panics on any other.

Every invariant a run checks and every action property is proved, and so are
the three refinements:

| Module | Theorems | Inductive invariant |
| --- | --- | --- |
| `ScheduleNextRunProofs` | `LoopIsCorrect`, `SchedulesAreNear`, `SlotsAreKept`, `NoSlotIsSkipped` | `IInv`, with `OnGrid` |
| `SchedulerProofs` | `TableIsSound`, `BatchIsDue`, `RemovedJobsStop`, `AllDueAreTaken`, `MissedRunsAreSkipped`, `NoJobIsLost` | `IInv` |
| | `RepeatsAreEarly` | and `RunDue` |
| | `RunAllTriesAll` | and `UnrunAhead` |
| | `JobsStartInTime` | `PromptInv`: and `CallShort`, `LoopSound` |
| `SharedSchedulerProofs` | `SharedTableKept`, `SharedPanicsExplained`, `ImplementsJobTable` | `SharedInv`: `Bounds`, `Arming`, `Started`, `Alone` |
| `CronLockerProofs` | `ImplementsExclusive`, `LocksAreGivenBack` | `IInv` |
| `ServiceTokenProofs` | `TokenOutlivesRefresh` | `IInv`, with `OnTime`, `Fresh` |
| | `LeadCoversDelays` | none: arithmetic of `RefreshInTime` |
| `RestCallsProofs` | `SuccessIsReal`, `NoDoubleChange`, `ConflictsAreForeign` | `IInv`, with `UnderWay`, `Ended` |
| | `CallsAreFinite` | the types |
| | `HeadersAreOfOneSession`, `TheFileIsLoaded` | `FileInv`: `Exclusion`, `OneSession`, `Loaded` |
| `ProjectsProofs` | `AccountsComeFirst`, `ImplementsShareStore` | `ProjectsInv` |
| | `NamesAreLostInRaces` | and `NameInv` |

Each module also proves its types (a run checks those too, except for
`ScheduleNextRun` and `ServiceToken`); `CronTimeProofs` holds the facts about
the arithmetic the others share: division, midnights, dates and clocks, wrapped
periods, and that `Advance` is the least instant of its progression that is not
before the limit (`NextScheduleNotInThePast`). TLC has checked the inductive
invariants on the small instances too.

**ScheduleNextRun.** While the loop runs, `nextRun` is the base plus a number
of periods, and one period earlier it was still before the limit (`OnGrid`);
the loop's exit condition then leaves only the closed form. `SchedulesAreNear`
has no hypothesis on zones or intervals. How far ahead a schedule may be
depends on two things: a schedule that was advanced is less than a period
ahead; one that was not is the base, less than a day or week after the midnight
of the last run (`BaseIsNear`), which in another zone, or where the clocks skip
midnight, may come later than the machine's by `ZoneLag`. For the slots, what
`time.Date` answers is midnight by the clocks before the change or by those
after it (`MidnightByClocks`, `SlotClocks`), so the base is at the asked time
of day by the same clocks, and a period that did not wrap leads from there to
an instant that still is (`PeriodsKeepSlots`): whole days, and for a weekly job
whole weeks. No hypothesis on the zone is left; `MidnightStays` says when the
date is kept, and only a weekly job whose midnight moved to another date loses
its weekday. In zones whose clocks do not change, `Slot(d)` is the job's time
of day on date `d`; every instant that is a slot is `Slot` of its date
(`SlotHasDate`), two of them are at least a day or week apart, and so the one
before `nextRun` is past.

**Scheduler.** The invariant adds to the properties that the batch and `cur`
are jobs Every made, that the clock is not behind a run under way, and that a
job's strays leave room for one more only while it is in the batch. It is
needed because `BatchDue` alone does not survive a job function: what keeps
waiting jobs due is that only `run`, `From` and `Do` set the `nextRun` of a job
that exists (`Rebuilt`, `RebuildFrame`), the latter two leave it in `moved`,
and `run` is of a job that waits no longer; what keeps them distinct is that
the batch was a prefix of an injective table. `RepeatsAreEarly` needs that the
job was due when its run began (`RunDue`), unless it was moved; then a schedule
the run keeps was neither behind the clock nor in another second.
`RunAllTriesAll` needs that what has not been tried is still ahead of the index
(`UnrunAhead`), which removals and sorts take out of `unrun`.

`JobsStartInTime` is about `PromptSpec` and a finite set of jobs.
`LatenessBound` says only that the bound has not passed; the invariant says of
every waiting job by when it will be called if each function from now on takes
`MaxCall` (`OnTime`): a job in the batch after those before it; one that is not
in it after the whole batch, at the tick that is kept meanwhile, and if none is
kept, at the next, because no tick so far came after the job was due
(`NoTickMissed`). A batch has at most all jobs but one before the job, hence
`Round`.

**SharedScheduler.** `Bounds` and `Arming` hold whatever the goroutines do to
each other: even a table garbled by overlaps is never longer than the jobs that
entered it, no index leaves it, and a job lacks its function only until its own
client's `Do`. Until the first overlap `Alone` holds as well: at most one
client is in `Every` and at most one loop sorts, the size that client has read
is still the size, and what that loop has read from two slots is still in them.
`Restored`, the table with the swap under way completed, then changes only by a
new last job or by an exchange of two slots, so it always holds exactly the
jobs that entered (`TableKept`), and no slot that is read is empty. The same
two facts, and that what a loop takes comes from a slot, make each step one of
`JobTable` or a stutter (`ClientTable`, `LoopTable`). That the earlier jobs are
there once each follows from counting: as many slots as jobs, every job in one,
so no job in two.

**CronLocker.** The invariant adds that an instance holds every key it uses.
That, and nothing about the other instances, makes two runs of one key
impossible: both would be its holder. Each step then maps to a `Begin`, an `End`
or a stutter of `Exclusive`, a crash in a job function to an `End`.

**ServiceToken.** After a token, what is left of it exceeds the wait for the
refresh plus lateness plus the time of an answer (`Fresh`). Its step uses
`NextRefresh` (a refresh is due again within an interval) and the assumption
`RefreshInTime`, which is the condition on lifetimes under which the code is
right: the shortest lifetime must exceed the longest interval by the lateness
and two answer times. `LeadCoversDelays` says what it comes to for lifetimes of
more than 90 seconds: what one lifetime differs from another, plus lateness and
answers, must stay below the 30 seconds of `Lead`. If all tokens live equally
long, the loop and the server have those 30 seconds; if a later token is
shorter than the first by 30 seconds or more, the refresh comes too late
whatever they do.

**RestCalls.** The invariant says what a request under way has done so far:
nothing, unless it is retried. `CallsAreFinite` is what the liveness `CallsEnd`
rests on beside fairness: `RequestsLeft`, the trials of the request under way
and the post a copy has still to make, becomes less with every answer.

**Interceptor.** Token and type differ only between the two stores, which hold
the mutex, so a request that has read the type reads the token of the same
session (`Exclusion`, `OneSession`). `Loaded` says when the token must be that
of the file: always, but while an event is to come, while the file is gone, and
after a write that slipped in before the watch; a load under way has then read
the file as it is.

**Projects.** The invariant says at which of its requests a call is: one that
creates, patches or grants a share is about a user with an account, and so is
one that has sent its invitation; who was listed has an account. For the
refinement it also says which requests are sent only before a call has taken
effect (`Effective`): that is why a share is set at most once, although a
create that meets a conflict becomes a patch, and why an "ok" is true. Each
step maps to a `Call`, an `Apply`, a `Report` or a stutter of `ShareStore`. A
call that panics on a lost answer waited for a PATCH or DELETE, so it is no
invitation (`Effective` again). `NamesAreLostInRaces` needs that the name a
transfer has read is the latest one until somebody renames the project beside
it (`Current`).

Proving changed the models in six places, where a property, an input or a
definition was wrong although the runs at that time passed. `LatenessBound` was
too small for one job alone, which has no rounds of others but waits for a tick.
`NeverInThePast` was too small for a job in a zone far behind the machine's.
`AtTimeOfDay` and `NextPossibleSchedule` are false for an interval whose period
wraps, which is then no number of days. `Schedules` admitted times of day that
`At` refuses. `MidnightOf` gave one midnight where the clocks skip or repeat it,
not the instant `time.Date` answers with, and `AtTimeOfDay` said nothing of such
zones. And two definitions of `RestCalls` relied on the order of a `CASE` whose
guards overlap, which TLA+ does not promise. The instance of `ScheduleNextRun`
has the zones and the interval that tell the old statements from the new.

Only model-checked:

- liveness (`Returns`, `DueJobsRun`, `StopEndsLoop`, `Recovers`, `CallsEnd`,
  `WantedKeysRun`, `WrittenSessionIsLoaded`), which rests on fairness and
  `ENABLED` and is out of the prover's reach;
- that the loop of `Sort` leaves a sorted table: `SharedScheduler` follows its
  accesses, `Scheduler` takes the sorted table as its result (a permutation in
  order); the step between the two would be an induction over data;
- the violated properties of `SchedulerRemove` and `RestCallsLost`, which have
  counterexamples.

## Not modelled

Left out for good, because they are sequential functions without state of
their own, or only read: JWT validation and contexts (`token.go`,
`context.go`), user queries (`user.go`: each is a chain of `get` calls, which
`RestCalls` models one by one), link and query strings, configuration, the log,
and the mathematics (floating point). Also outside: gin's reaction to
a panic in a handler; accounts that are deleted; writes to memory in another
order than the program's; the tags of a job, which nothing in the package
reads; and `ChangeLoc`, whose effect is the zone a configuration has.

What could follow: user queries as rows of reads, when they come to change
something; and the order of the table in `SharedScheduler`, that is, what a loop
that sorts alone leaves behind while clients go on adding jobs.
