----------------------------- MODULE CronLocker -----------------------------
(***************************************************************************)
(* Instances of one program that run the same jobs under a common locker   *)
(* (Job.Lock and the Locker of cron/cron.go).  The locker is a service of  *)
(* the user's: it grants, refuses or fails, an Unlock may fail, and it     *)
(* lets a lock nobody uses expire.  Instances crash and come back, and     *)
(* whatever goes wrong, RunPending is told nothing.                        *)
(***************************************************************************)
EXTENDS Integers

CONSTANTS
  Instances,
  Equipped,  \* the instances that have called SetLocker
  Jobs,      \* the jobs every instance schedules, all of them with Lock
  Keys,      \* the names of job functions
  KeyOf,     \* the name of each job's function; one for all of DoSafely
  MaxFaults, \* bound: how often a call of the locker fails or an instance dies
  None

ASSUME LockerAssumption ==
  /\ Equipped \subseteq Instances
  /\ KeyOf \in [Jobs -> Keys]
  /\ MaxFaults \in Nat
  /\ None \notin Instances \cup Jobs

VARIABLES
  pc,      \* each instance: "down", "idle", "batch", "call" or "unlock"
  due,     \* the jobs it finds due
  todo,    \* the jobs of its batch it has still to try
  cur,     \* the job it runs
  holder,  \* the locker: who holds each key
  leaked,  \* history: the keys held by nobody who will unlock them
  faults

vars == <<pc, due, todo, cur, holder, leaked, faults>>

TypeOK ==
  /\ pc \in [Instances -> {"down", "idle", "batch", "call", "unlock"}]
  /\ due \in [Instances -> SUBSET Jobs]
  /\ todo \in [Instances -> SUBSET Jobs]
  /\ cur \in [Instances -> Jobs \cup {None}]
  /\ holder \in [Keys -> Instances \cup {None}]
  /\ leaked \subseteq Keys
  /\ faults \in 0 .. MaxFaults

Init ==
  /\ pc = [i \in Instances |-> "idle"]
  /\ due = [i \in Instances |-> {}]
  /\ todo = [i \in Instances |-> {}]
  /\ cur = [i \in Instances |-> None]
  /\ holder = [k \in Keys |-> None]
  /\ leaked = {}
  /\ faults = 0

-----------------------------------------------------------------------------
(* The key of the job an instance runs or has run under the lock. *)
Uses(i, k) == pc[i] \in {"call", "unlock"} /\ cur[i] \in Jobs /\ KeyOf[cur[i]] = k

Fault == faults < MaxFaults /\ faults' = faults + 1

BecomesDue(i, j) ==
  /\ pc[i] # "down"
  /\ j \notin due[i]
  /\ due' = [due EXCEPT ![i] = @ \cup {j}]
  /\ UNCHANGED <<pc, todo, cur, holder, leaked, faults>>

(* RunPending takes the jobs that are due. *)
RunPending(i) ==
  /\ pc[i] = "idle"
  /\ pc' = [pc EXCEPT ![i] = "batch"]
  /\ todo' = [todo EXCEPT ![i] = due[i]]
  /\ UNCHANGED <<due, cur, holder, leaked, faults>>

RunAll(i) ==
  /\ pc[i] = "idle"
  /\ pc' = [pc EXCEPT ![i] = "batch"]
  /\ todo' = [todo EXCEPT ![i] = Jobs]
  /\ UNCHANGED <<due, cur, holder, leaked, faults>>

Trying(i, j) == pc[i] = "batch" /\ j \in todo[i]

Skip(i, j) == todo' = [todo EXCEPT ![i] = @ \ {j}]

(* Mutant: run looks at the error and not at ok. *)
RunUnlessError(i, j) ==
  /\ Trying(i, j)
  /\ i \in Equipped
  /\ holder' = [holder EXCEPT ![KeyOf[j]] = i]
  /\ pc' = [pc EXCEPT ![i] = "call"]
  /\ cur' = [cur EXCEPT ![i] = j]
  /\ Skip(i, j)
  /\ UNCHANGED <<due, leaked, faults>>

(* The lock is granted, and the function is called. *)
Granted(i, j) ==
  /\ Trying(i, j)
  /\ i \in Equipped
  /\ holder[KeyOf[j]] = None
  /\ holder' = [holder EXCEPT ![KeyOf[j]] = i]
  /\ pc' = [pc EXCEPT ![i] = "call"]
  /\ cur' = [cur EXCEPT ![i] = j]
  /\ Skip(i, j)
  /\ UNCHANGED <<due, leaked, faults>>

(* There is no locker, or it refuses: the job stays due. *)
Refused(i, j) ==
  /\ Trying(i, j)
  /\ i \in Equipped => holder[KeyOf[j]] # None
  /\ Skip(i, j)
  /\ UNCHANGED <<pc, due, cur, holder, leaked, faults>>

(* Lock returns an error, whether or not it took the lock. *)
LockFails(i, j) ==
  /\ Trying(i, j)
  /\ i \in Equipped
  /\ Fault
  /\ \/ UNCHANGED <<holder, leaked>>
     \/ /\ holder[KeyOf[j]] = None
        /\ holder' = [holder EXCEPT ![KeyOf[j]] = i]
        /\ leaked' = leaked \cup {KeyOf[j]}
  /\ Skip(i, j)
  /\ UNCHANGED <<pc, due, cur>>

(* Mutant: a batch ends when none of its jobs is due any more. *)
EndWhenNoneDue(i) ==
  /\ pc[i] = "batch"
  /\ todo[i] = {} /\ due[i] = {}
  /\ pc' = [pc EXCEPT ![i] = "idle"]
  /\ UNCHANGED <<due, todo, cur, holder, leaked, faults>>

EndBatch(i) ==
  /\ pc[i] = "batch"
  /\ todo[i] = {}
  /\ pc' = [pc EXCEPT ![i] = "idle"]
  /\ UNCHANGED <<due, todo, cur, holder, leaked, faults>>

(* Mutant: run returns without its deferred Unlock. *)
ReturnLocked(i) ==
  /\ pc[i] = "call"
  /\ due' \in {[due EXCEPT ![i] = @ \ {cur[i]}], due}
  /\ pc' = [pc EXCEPT ![i] = "batch"]
  /\ cur' = [cur EXCEPT ![i] = None]
  /\ UNCHANGED <<todo, holder, leaked, faults>>

(* The function returns and the job is rescheduled; a schedule that lies   *)
(* later in the same second is kept.                                       *)
Return(i) ==
  /\ pc[i] = "call"
  /\ due' \in {[due EXCEPT ![i] = @ \ {cur[i]}], due}
  /\ pc' = [pc EXCEPT ![i] = "unlock"]
  /\ UNCHANGED <<todo, cur, holder, leaked, faults>>

(* Mutant: Unlock is given the name of the job in place of its key. *)
UnlockByName(i) ==
  /\ pc[i] = "unlock"
  /\ pc' = [pc EXCEPT ![i] = "batch"]
  /\ cur' = [cur EXCEPT ![i] = None]
  /\ holder' = [k \in Keys \cup {cur[i]} |-> IF k = cur[i] THEN None ELSE holder[k]]
  /\ UNCHANGED <<due, todo, leaked, faults>>

(* The deferred Unlock. *)
Unlock(i) ==
  /\ pc[i] = "unlock"
  /\ pc' = [pc EXCEPT ![i] = "batch"]
  /\ cur' = [cur EXCEPT ![i] = None]
  /\ holder' = [holder EXCEPT ![KeyOf[cur[i]]] = None]
  /\ UNCHANGED <<due, todo, leaked, faults>>

(* It fails, after the lock was released or before. *)
UnlockFails(i) ==
  /\ pc[i] = "unlock"
  /\ Fault
  /\ pc' = [pc EXCEPT ![i] = "batch"]
  /\ cur' = [cur EXCEPT ![i] = None]
  /\ \/ /\ holder' = [holder EXCEPT ![KeyOf[cur[i]]] = None]
        /\ UNCHANGED leaked
     \/ /\ leaked' = leaked \cup {KeyOf[cur[i]]}
        /\ UNCHANGED holder
  /\ UNCHANGED <<due, todo>>

Gone(i) ==
  /\ pc' = [pc EXCEPT ![i] = "down"]
  /\ due' = [due EXCEPT ![i] = {}]
  /\ todo' = [todo EXCEPT ![i] = {}]
  /\ cur' = [cur EXCEPT ![i] = None]

(* The function panics: the deferred Unlock runs, and the program dies. *)
CallPanics(i) ==
  /\ pc[i] = "call"
  /\ Fault
  /\ \/ /\ holder' = [holder EXCEPT ![KeyOf[cur[i]]] = None]
        /\ UNCHANGED leaked
     \/ /\ leaked' = leaked \cup {KeyOf[cur[i]]}
        /\ UNCHANGED holder
  /\ Gone(i)

Crash(i) ==
  /\ pc[i] # "down"
  /\ Fault
  /\ leaked' = leaked \cup { k \in Keys : Uses(i, k) }
  /\ Gone(i)
  /\ UNCHANGED holder

(* The instance builds its jobs anew; none of them is due. *)
Restart(i) ==
  /\ pc[i] = "down"
  /\ pc' = [pc EXCEPT ![i] = "idle"]
  /\ UNCHANGED <<due, todo, cur, holder, leaked, faults>>

(* The locker takes back a lock nobody uses; a lease outlasts every run. *)
Expire(k) ==
  /\ holder[k] # None
  /\ ~Uses(holder[k], k)
  /\ holder' = [holder EXCEPT ![k] = None]
  /\ leaked' = leaked \ {k}
  /\ UNCHANGED <<pc, due, todo, cur, faults>>

-----------------------------------------------------------------------------
Try(i, j) == Granted(i, j) \/ Refused(i, j)

RunStep(i) ==
  \/ \E j \in Jobs : Try(i, j)
  \/ EndBatch(i) \/ Return(i) \/ Unlock(i)

Next ==
  \/ \E i \in Instances :
       \/ \E j \in Jobs : BecomesDue(i, j) \/ LockFails(i, j)
       \/ RunPending(i) \/ RunAll(i) \/ RunStep(i)
       \/ UnlockFails(i) \/ CallPanics(i) \/ Crash(i) \/ Restart(i)
  \/ \E k \in Keys : Expire(k)

(* The loop of Start ticks and its batches go on, functions return, and    *)
(* the locker lets unused locks expire.                                    *)
Fairness ==
  /\ \A i \in Instances : WF_vars(RunPending(i)) /\ WF_vars(RunStep(i))
  /\ \A k \in Keys : WF_vars(Expire(k))

Spec == Init /\ [][Next]_vars

FairSpec == Spec /\ Fairness

-----------------------------------------------------------------------------
Running(k) == { i \in Instances : pc[i] = "call" /\ cur[i] \in Jobs /\ KeyOf[cur[i]] = k }

Promise == INSTANCE Exclusive WITH running <- [k \in Keys |-> Running(k)]

(* The locker does what cron.go 80-81 asks of it: whatever fails, jobs of  *)
(* one key run on one instance at a time (lines 124-141).                  *)
RunsAreExclusive == Promise!Spec

(* A lock is held only while its holder runs a job of that key, unless a   *)
(* fault left it behind: every way out of run unlocks (lines 131-135).     *)
HeldOnlyForRuns ==
  \A k \in Keys : holder[k] # None => Uses(holder[k], k) \/ k \in leaked

(* Some instance that is able to lock finds a job of the key due. *)
Wanted(k) ==
  \E i \in Equipped, j \in Jobs : KeyOf[j] = k /\ pc[i] # "down" /\ j \in due[i]

(* No key is dead: once the faults are over and the locks they left have   *)
(* expired, then while jobs of a key are due some job of that key is run.  *)
(* Which one, and where, is up to the locker: jobs that share a key can    *)
(* starve each other, and only a job whose key is its own is sure to be    *)
(* run, by one instance or another (lines 125-129, 546).                   *)
WantedKeysRun == \A k \in Keys : Wanted(k) ~> ~Wanted(k) \/ Running(k) # {}
=============================================================================
