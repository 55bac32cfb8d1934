-------------------------- MODULE SharedScheduler --------------------------
(***************************************************************************)
(* The default scheduler of cron/cron.go as the clients of rexos/client.go *)
(* use it: every client adds a job of its own and starts a loop of its own *)
(* on the one table, without a lock.  A step is one access to the memory   *)
(* the goroutines share; schedules are reduced to whether a job is due.    *)
(***************************************************************************)
EXTENDS Integers, FiniteSets, Sequences

CONSTANTS
  Clients,  \* the clients, each with the one job it adds
  Earlier,  \* jobs the program put into the table before there were clients
  None      \* the nil pointer

ASSUME ClientsAssumption ==
  /\ IsFiniteSet(Clients) /\ IsFiniteSet(Earlier)
  /\ Clients \cap Earlier = {}
  /\ None \notin Clients \cup Earlier

Jobs  == Clients \cup Earlier
Slots == 1 .. Cardinality(Jobs)

VARIABLES
  slots,   \* Scheduler.jobs
  size,    \* Scheduler.size
  next,    \* Job.nextRun: "epoch" (as NewJob leaves it), "due" or "later"
  armed,   \* the jobs Do has given their function
  client,  \* where each client is in Every ... Do, Start
  at,      \* the size it read in Every
  loop,    \* where the loop of each client is, or "off"
  sorted,  \* sort.Sort: how many jobs it has put in order, of how many
  pos,     \* the index of the inner loop of the sort, then of the snapshot
  held,    \* the two pointers Swap has read
  batch,   \* the jobs the loop has still to run, in the order of the table
  halted,  \* a panic ended the program
  overlap  \* history: two goroutines were in Every, or in the sort, at once

clientVars == <<client, at>>
loopVars   == <<loop, sorted, pos, held, batch>>
vars == <<slots, size, next, armed, clientVars, loopVars, halted, overlap>>

NoPair == <<None, None>>

TypeOK ==
  /\ slots \in [Slots -> Jobs \cup {None}]
  /\ size \in 0 .. Cardinality(Jobs)
  /\ next \in [Jobs -> {"epoch", "due", "later"}]
  /\ armed \subseteq Jobs
  /\ client \in [Clients -> {"every", "write", "grow", "do", "schedule", "start", "done"}]
  /\ at \in [Clients -> 0 .. Cardinality(Jobs)]
  /\ loop \in [Clients -> {"off", "select", "less", "read1", "read2", "write1", "write2",
                          "scan", "run", "call"}]
  /\ sorted \in [Clients -> [done : Nat, of : Nat]]
  /\ pos \in [Clients -> Nat]
  /\ held \in [Clients -> (Jobs \cup {None}) \X (Jobs \cup {None})]
  /\ batch \in [Clients -> Seq(Jobs)]
  /\ halted \in {"no", "nil", "nofunc"}
  /\ overlap \in BOOLEAN

(* The jobs the program added before are in the table and scheduled. *)
Init ==
  /\ size = Cardinality(Earlier)
  /\ \E order \in [1 .. size -> Earlier] :
       /\ \A j \in Earlier : \E k \in 1 .. size : order[k] = j
       /\ slots = [k \in Slots |-> IF k <= size THEN order[k] ELSE None]
  /\ next = [j \in Jobs |-> IF j \in Earlier THEN "later" ELSE "epoch"]
  /\ armed = Earlier
  /\ client = [c \in Clients |-> "every"]
  /\ at = [c \in Clients |-> 0]
  /\ loop = [c \in Clients |-> "off"]
  /\ sorted = [c \in Clients |-> [done |-> 0, of |-> 0]]
  /\ pos = [c \in Clients |-> 0]
  /\ held = [c \in Clients |-> NoPair]
  /\ batch = [c \in Clients |-> <<>>]
  /\ halted = "no"
  /\ overlap = FALSE

InEvery(c) == client[c] \in {"write", "grow"}
Sorting(l) == loop[l] \in {"less", "read1", "read2", "write1", "write2"}

-----------------------------------------------------------------------------
(***************************************************************************)
(* A client: Every(interval).Seconds().Do(refreshToken), then Start.       *)
(***************************************************************************)

ClientAt(c, here, there) ==
  /\ halted = "no"
  /\ client[c] = here
  /\ client' = [client EXCEPT ![c] = there]

(* Mutant: s.size++ comes first, s.jobs[s.size-1] = job follows. *)
ReadSizeGrown(c) ==
  /\ ClientAt(c, "every", "write")
  /\ at' = [at EXCEPT ![c] = size]
  /\ size' = size + 1
  /\ overlap' = (overlap \/ \E d \in Clients \ {c} : InEvery(d))
  /\ UNCHANGED <<slots, next, armed, loopVars, halted>>

(* s.jobs[s.size] = job: the size is read, *)
ReadSize(c) ==
  /\ ClientAt(c, "every", "write")
  /\ at' = [at EXCEPT ![c] = size]
  /\ overlap' = (overlap \/ \E d \in Clients \ {c} : InEvery(d))
  /\ UNCHANGED <<slots, size, next, armed, loopVars, halted>>

(* then the slot is written. *)
WriteSlot(c) ==
  /\ ClientAt(c, "write", "grow")
  /\ slots' = [slots EXCEPT ![at[c] + 1] = c]
  /\ UNCHANGED <<size, next, armed, at, loopVars, halted, overlap>>

(* Mutant: the size grows by two. *)
GrowTwice(c) ==
  /\ ClientAt(c, "grow", "do")
  /\ size' = size + 2
  /\ UNCHANGED <<slots, next, armed, at, loopVars, halted, overlap>>

(* s.size++: of the size as it is, or as Every has read it before. *)
Grow(c) ==
  /\ ClientAt(c, "grow", "do")
  /\ size' \in {size + 1, at[c] + 1}
  /\ UNCHANGED <<slots, next, armed, at, loopVars, halted, overlap>>

(* Do: the function, then scheduleNextRun. *)
Arm(c) ==
  /\ ClientAt(c, "do", "schedule")
  /\ armed' = armed \cup {c}
  /\ UNCHANGED <<slots, size, next, at, loopVars, halted, overlap>>

Schedule(c) ==
  /\ ClientAt(c, "schedule", "start")
  /\ next' = [next EXCEPT ![c] = "later"]
  /\ UNCHANGED <<slots, size, armed, at, loopVars, halted, overlap>>

Start(c) ==
  /\ ClientAt(c, "start", "done")
  /\ loop' = [loop EXCEPT ![c] = "select"]
  /\ UNCHANGED <<slots, size, next, armed, at, sorted, pos, held, batch, halted, overlap>>

(***************************************************************************)
(* A loop: sort, snapshot, batch.                                          *)
(***************************************************************************)

LoopAt(l, here, there) ==
  /\ halted = "no"
  /\ loop[l] = here
  /\ loop' = [loop EXCEPT ![l] = there]

(* The outer loop of the insertion sort goes on to the job at i, or ends. *)
SortFrom(l, i, n) ==
  IF i <= n
  THEN /\ loop' = [loop EXCEPT ![l] = "less"]
       /\ sorted' = [sorted EXCEPT ![l] = [done |-> i - 1, of |-> n]]
       /\ pos' = [pos EXCEPT ![l] = i]
  ELSE /\ loop' = [loop EXCEPT ![l] = "scan"]
       /\ sorted' = [sorted EXCEPT ![l] = [done |-> 0, of |-> 0]]
       /\ pos' = [pos EXCEPT ![l] = 1]

(* A tick: getRunnableJobs calls sort.Sort, which reads Len. *)
Tick(l) ==
  /\ halted = "no"
  /\ loop[l] = "select"
  /\ SortFrom(l, 2, size)
  /\ overlap' = (overlap \/ (size > 1 /\ \E k \in Clients \ {l} : Sorting(k)))
  /\ UNCHANGED <<slots, size, next, armed, clientVars, held, batch, halted>>

Rank(j) == CASE next[j] = "epoch" -> 0 [] next[j] = "due" -> 1 [] next[j] = "later" -> 2

Filled(l) == slots[pos[l]] # None /\ slots[pos[l] - 1] # None

(* Less(pos, pos - 1): jobs[pos - 1].nextRun >= jobs[pos].nextRun.  Two    *)
(* schedules that are both due, or both not, may be in either order.       *)
MayBeLess(this, last) == Rank(last) >= Rank(this)
MayBeMore(this, last) == Rank(last) < Rank(this) \/ (Rank(last) = Rank(this) /\ Rank(this) > 0)

Less(l) ==
  /\ LoopAt(l, "less", "read1")
  /\ pos[l] > 1
  /\ Filled(l)
  /\ MayBeLess(slots[pos[l]], slots[pos[l] - 1])
  /\ UNCHANGED <<slots, size, next, armed, clientVars, sorted, pos, held, batch, halted, overlap>>

InPlace(l) ==
  /\ halted = "no"
  /\ loop[l] = "less"
  /\ pos[l] > 1 => Filled(l) /\ MayBeMore(slots[pos[l]], slots[pos[l] - 1])
  /\ SortFrom(l, sorted[l].done + 2, sorted[l].of)
  /\ UNCHANGED <<slots, size, next, armed, clientVars, held, batch, halted, overlap>>

(* s.jobs[i], s.jobs[j] = s.jobs[j], s.jobs[i]: two reads, *)
ReadFirst(l) ==
  /\ LoopAt(l, "read1", "read2")
  /\ held' = [held EXCEPT ![l][1] = slots[pos[l] - 1]]
  /\ UNCHANGED <<slots, size, next, armed, clientVars, sorted, pos, batch, halted, overlap>>

ReadSecond(l) ==
  /\ LoopAt(l, "read2", "write1")
  /\ held' = [held EXCEPT ![l][2] = slots[pos[l]]]
  /\ UNCHANGED <<slots, size, next, armed, clientVars, sorted, pos, batch, halted, overlap>>

(* Mutant: the assignments follow each other, the second reads the first.  *)
WriteUnswapped(l) ==
  /\ LoopAt(l, "write1", "write2")
  /\ slots' = [slots EXCEPT ![pos[l]] = held[l][1]]
  /\ held' = [held EXCEPT ![l][2] = held[l][1]]
  /\ UNCHANGED <<size, next, armed, clientVars, sorted, pos, batch, halted, overlap>>

(* and two writes. *)
WriteFirst(l) ==
  /\ LoopAt(l, "write1", "write2")
  /\ slots' = [slots EXCEPT ![pos[l]] = held[l][1]]
  /\ UNCHANGED <<size, next, armed, clientVars, sorted, pos, held, batch, halted, overlap>>

WriteSecond(l) ==
  /\ LoopAt(l, "write2", "less")
  /\ slots' = [slots EXCEPT ![pos[l] - 1] = held[l][2]]
  /\ pos' = [pos EXCEPT ![l] = @ - 1]
  /\ held' = [held EXCEPT ![l] = NoPair]
  /\ UNCHANGED <<size, next, armed, clientVars, sorted, batch, halted, overlap>>

ShouldRun(j) == next[j] # "later"

(* The snapshot takes the job at pos, *)
Take(l) ==
  /\ halted = "no"
  /\ loop[l] = "scan"
  /\ pos[l] <= size
  /\ slots[pos[l]] # None
  /\ ShouldRun(slots[pos[l]])
  /\ batch' = [batch EXCEPT ![l] = Append(@, slots[pos[l]])]
  /\ pos' = [pos EXCEPT ![l] = @ + 1]
  /\ UNCHANGED <<slots, size, next, armed, clientVars, loop, sorted, held, halted, overlap>>

(* and ends at the first that is not due, or with the table. *)
Taken(l) ==
  /\ LoopAt(l, "scan", "run")
  /\ pos[l] <= size => slots[pos[l]] # None /\ ~ShouldRun(slots[pos[l]])
  /\ pos' = [pos EXCEPT ![l] = 0]
  /\ UNCHANGED <<slots, size, next, armed, clientVars, sorted, held, batch, halted, overlap>>

(* Sort and snapshot dereference the pointers they find. *)
NilPanics(l) ==
  /\ halted = "no"
  /\ \/ loop[l] = "less" /\ pos[l] > 1 /\ ~Filled(l)
     \/ loop[l] = "scan" /\ pos[l] <= size /\ slots[pos[l]] = None
  /\ halted' = "nil"
  /\ UNCHANGED <<slots, size, next, armed, clientVars, loopVars, overlap>>

Run(l) ==
  /\ batch[l] # <<>> /\ Head(batch[l]) \in armed
  /\ LoopAt(l, "run", "call")
  /\ UNCHANGED <<slots, size, next, armed, clientVars, sorted, pos, held, batch, halted, overlap>>

(* The job has no function yet: reflection panics. *)
NoFuncPanics(l) ==
  /\ halted = "no"
  /\ loop[l] = "run"
  /\ batch[l] # <<>> /\ Head(batch[l]) \notin armed
  /\ halted' = "nofunc"
  /\ UNCHANGED <<slots, size, next, armed, clientVars, loopVars, overlap>>

(* Mutant: the index of the batch grows by two. *)
SkipNext(l) ==
  /\ LoopAt(l, "call", "run")
  /\ next' = [next EXCEPT ![Head(batch[l])] = "later"]
  /\ batch' = [batch EXCEPT ![l] = SubSeq(@, 3, Len(@))]
  /\ UNCHANGED <<slots, size, armed, clientVars, sorted, pos, held, halted, overlap>>

(* The function returns, scheduleNextRun sets a new schedule. *)
Return(l) ==
  /\ LoopAt(l, "call", "run")
  /\ next' = [next EXCEPT ![Head(batch[l])] = "later"]
  /\ batch' = [batch EXCEPT ![l] = Tail(@)]
  /\ UNCHANGED <<slots, size, armed, clientVars, sorted, pos, held, halted, overlap>>

Finish(l) ==
  /\ batch[l] = <<>>
  /\ LoopAt(l, "run", "select")
  /\ UNCHANGED <<slots, size, next, armed, clientVars, sorted, pos, held, batch, halted, overlap>>

(* Time passes, and a schedule is reached. *)
BecomesDue(j) ==
  /\ halted = "no"
  /\ next[j] = "later"
  /\ next' = [next EXCEPT ![j] = "due"]
  /\ UNCHANGED <<slots, size, armed, clientVars, loopVars, halted, overlap>>

-----------------------------------------------------------------------------
ClientStep(c) ==
  ReadSize(c) \/ WriteSlot(c) \/ Grow(c) \/ Arm(c) \/ Schedule(c) \/ Start(c)

LoopStep(l) ==
  \/ Tick(l) \/ Less(l) \/ InPlace(l)
  \/ ReadFirst(l) \/ ReadSecond(l) \/ WriteFirst(l) \/ WriteSecond(l)
  \/ Take(l) \/ Taken(l) \/ NilPanics(l)
  \/ Run(l) \/ NoFuncPanics(l) \/ Return(l) \/ Finish(l)

Next ==
  \/ \E c \in Clients : ClientStep(c) \/ LoopStep(c)
  \/ \E j \in Jobs : BecomesDue(j)

Spec == Init /\ [][Next]_vars

-----------------------------------------------------------------------------
Entered == Earlier \cup { c \in Clients : client[c] \in {"do", "schedule", "start", "done"} }

(* The table with the swap that is under way completed. *)
Restored(k) ==
  IF \E l \in Clients : loop[l] = "write2" /\ pos[l] = k + 1
  THEN LET l == CHOOSE l \in Clients : loop[l] = "write2" /\ pos[l] = k + 1 IN held[l][2]
  ELSE slots[k]

(* Unless two clients are in Every at once, or two loops sort at once, the *)
(* table keeps every job that entered it, once: a client may add its job   *)
(* while another's loop sorts, takes or runs jobs (lines 485, 533-538).    *)
TableKept ==
  overlap \/
    /\ size = Cardinality(Entered)
    /\ { Restored(k) : k \in 1 .. size } = Entered

Table == INSTANCE JobTable
  WITH Loops <- Clients, table <- [k \in 1 .. size |-> Restored(k)], interfered <- overlap

(* Unless they overlap, Every and Swap, though each is several accesses to *)
(* memory between which other goroutines read and write the table, take    *)
(* effect at one moment; nothing else changes the table, a batch is filled *)
(* from it only, and every job of a batch is run, in its order             *)
(* (lines 485, 507-521, 533-547).                                          *)
AccessesAreAtomic == Table!Spec

(* A client is between Every and Do: its job is due, without a function.   *)
Unready(c) == c \in Clients /\ client[c] = "do" /\ next[c] = "epoch"

(* Unless they overlap, no goroutine meets a nil pointer in the table, and *)
(* a job is run without its function only if it heads a batch while its    *)
(* client is between Every and Do, with nextRun at the epoch (lines        *)
(* 101-105, 535, 182-184).                                                 *)
PanicsExplained ==
  overlap \/
    /\ halted # "nil"
    /\ halted = "nofunc" =>
         \E l \in Clients : loop[l] = "run" /\ batch[l] # <<>> /\ Unready(Head(batch[l]))
=============================================================================
