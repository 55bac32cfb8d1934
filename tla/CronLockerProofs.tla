-------------------------- MODULE CronLockerProofs --------------------------
(***************************************************************************)
(* Proofs about CronLocker for any instances, jobs and keys.  The          *)
(* invariant behind them says that an instance that runs a job, or is      *)
(* about to unlock it, holds the lock of its key.                          *)
(***************************************************************************)
EXTENDS CronLocker, TLAPS

InRun(i) == pc[i] \in {"call", "unlock"}

Locks(i) == InRun(i) => cur[i] \in Jobs /\ holder[KeyOf[cur[i]]] = i

RunnersHold == \A i \in Instances : Locks(i)

LockInv == TypeOK /\ RunnersHold

(* Every step of the module, by the instance and the job it is about. *)
LEMMA StepCases ==
  ASSUME Next, NEW P,
         \A i \in Instances, j \in Jobs :
           BecomesDue(i, j) \/ LockFails(i, j) \/ Granted(i, j) \/ Refused(i, j) => P,
         \A i \in Instances :
           RunPending(i) \/ RunAll(i) \/ EndBatch(i) \/ Return(i) \/ Unlock(i)
             \/ UnlockFails(i) \/ CallPanics(i) \/ Crash(i) \/ Restart(i) => P,
         \A k \in Keys : Expire(k) => P
  PROVE  P
  BY DEF Next, RunStep, Try

LEMMA KeyOfType == ASSUME NEW j \in Jobs PROVE KeyOf[j] \in Keys
  BY LockerAssumption

LEMMA FaultBounded == ASSUME TypeOK, Fault PROVE faults' \in 0 .. MaxFaults
  BY LockerAssumption DEF TypeOK, Fault

LEMMA InitLockInv == Init => LockInv
  BY LockerAssumption DEF Init, LockInv, TypeOK, RunnersHold, Locks, InRun

(* Type correctness needs RunnersHold: Unlock looks up the key of cur. *)
LEMMA TypeStep == LockInv /\ [Next]_vars => TypeOK'
<1> SUFFICES ASSUME LockInv, [Next]_vars PROVE TypeOK'
  OBVIOUS
<1> USE DEF LockInv, TypeOK
<1>1. CASE UNCHANGED vars
  BY <1>1 DEF vars
<1>2. CASE Next
  <2>1. ASSUME NEW i \in Instances, NEW j \in Jobs,
               BecomesDue(i, j) \/ LockFails(i, j) \/ Granted(i, j) \/ Refused(i, j)
        PROVE  TypeOK'
    <3>1. CASE BecomesDue(i, j)
      BY <3>1 DEF BecomesDue
    <3>2. CASE LockFails(i, j)
      BY <3>2, KeyOfType, FaultBounded DEF LockFails, Trying, Skip
    <3>3. CASE Granted(i, j)
      BY <3>3, KeyOfType DEF Granted, Trying, Skip
    <3>4. CASE Refused(i, j)
      BY <3>4 DEF Refused, Trying, Skip
    <3> QED BY <2>1, <3>1, <3>2, <3>3, <3>4
  <2>2. ASSUME NEW i \in Instances,
               RunPending(i) \/ RunAll(i) \/ EndBatch(i) \/ Return(i) \/ Unlock(i)
                 \/ UnlockFails(i) \/ CallPanics(i) \/ Crash(i) \/ Restart(i)
        PROVE  TypeOK'
    <3>0. InRun(i) => KeyOf[cur[i]] \in Keys
      BY KeyOfType DEF RunnersHold, Locks
    <3>1. CASE RunPending(i)
      BY <3>1 DEF RunPending
    <3>2. CASE RunAll(i)
      BY <3>2 DEF RunAll
    <3>3. CASE EndBatch(i)
      BY <3>3 DEF EndBatch
    <3>4. CASE Return(i)
      BY <3>4 DEF Return
    <3>5. CASE Unlock(i)
      BY <3>5, <3>0 DEF Unlock, InRun
    <3>6. CASE UnlockFails(i)
      BY <3>6, <3>0, FaultBounded DEF UnlockFails, InRun
    <3>7. CASE CallPanics(i)
      BY <3>7, <3>0, FaultBounded DEF CallPanics, Gone, InRun
    <3>8. CASE Crash(i)
      BY <3>8, FaultBounded DEF Crash, Gone
    <3>9. CASE Restart(i)
      BY <3>9 DEF Restart
    <3> QED BY <2>2, <3>1, <3>2, <3>3, <3>4, <3>5, <3>6, <3>7, <3>8, <3>9
  <2>3. ASSUME NEW k \in Keys, Expire(k) PROVE TypeOK'
    BY <2>3 DEF Expire
  <2> QED BY <1>2, <2>1, <2>2, <2>3, StepCases
<1> QED BY <1>1, <1>2

(* No step takes the lock from an instance that is in a run: a grant finds *)
(* the lock free, Unlock frees the caller's own, and Expire one in no use. *)
LEMMA RunnersStep == LockInv /\ [Next]_vars => RunnersHold'
<1> SUFFICES ASSUME LockInv, [Next]_vars, NEW r \in Instances PROVE Locks(r)'
  BY DEF RunnersHold
<1>0. Locks(r) /\ TypeOK
  BY DEF LockInv, RunnersHold
<1>f. r # None /\ \A j \in Jobs : KeyOf[j] \in Keys
  BY LockerAssumption, KeyOfType
<1>1. CASE UNCHANGED vars
  BY <1>0, <1>1 DEF vars, Locks, InRun
<1>2. CASE Next
  <2>1. ASSUME NEW i \in Instances, NEW j \in Jobs,
               BecomesDue(i, j) \/ LockFails(i, j) \/ Granted(i, j) \/ Refused(i, j)
        PROVE  Locks(r)'
    <3>1. CASE BecomesDue(i, j)
      BY <1>0, <3>1 DEF BecomesDue, Locks, InRun
    <3>2. CASE LockFails(i, j)
      BY <1>0, <1>f, <3>2 DEF LockFails, Trying, Locks, InRun, TypeOK
    <3>3. CASE Granted(i, j)
      BY <1>0, <1>f, <3>3 DEF Granted, Trying, Locks, InRun, TypeOK
    <3>4. CASE Refused(i, j)
      BY <1>0, <3>4 DEF Refused, Locks, InRun
    <3> QED BY <2>1, <3>1, <3>2, <3>3, <3>4
  <2>2. ASSUME NEW i \in Instances,
               RunPending(i) \/ RunAll(i) \/ EndBatch(i) \/ Return(i) \/ Unlock(i)
                 \/ UnlockFails(i) \/ CallPanics(i) \/ Crash(i) \/ Restart(i)
        PROVE  Locks(r)'
    <3>0. Locks(i)
      BY DEF LockInv, RunnersHold
    <3> USE <1>0, <1>f, <3>0 DEF Locks, InRun, TypeOK
    <3>1. CASE RunPending(i)
      BY <3>1 DEF RunPending
    <3>2. CASE RunAll(i)
      BY <3>2 DEF RunAll
    <3>3. CASE EndBatch(i)
      BY <3>3 DEF EndBatch
    <3>4. CASE Return(i)
      BY <3>4 DEF Return
    <3>5. CASE Unlock(i)
      BY <3>5 DEF Unlock
    <3>6. CASE UnlockFails(i)
      BY <3>6 DEF UnlockFails
    <3>7. CASE CallPanics(i)
      BY <3>7 DEF CallPanics, Gone
    <3>8. CASE Crash(i)
      BY <3>8 DEF Crash, Gone
    <3>9. CASE Restart(i)
      BY <3>9 DEF Restart
    <3> QED BY <2>2, <3>1, <3>2, <3>3, <3>4, <3>5, <3>6, <3>7, <3>8, <3>9
  <2>3. ASSUME NEW k \in Keys, Expire(k) PROVE Locks(r)'
    BY <1>0, <1>f, <2>3 DEF Expire, Uses, Locks, InRun, TypeOK
  <2> QED BY <1>2, <2>1, <2>2, <2>3, StepCases
<1> QED BY <1>1, <1>2

LEMMA LockInvariant == Spec => []LockInv
<1>1. LockInv /\ [Next]_vars => LockInv'
  BY TypeStep, RunnersStep DEF LockInv
<1> QED BY InitLockInv, <1>1, PTL DEF Spec

(* Every reachable state of any number of instances is well typed. *)
THEOREM TypeCorrect == Spec => []TypeOK
<1>1. LockInv => TypeOK
  BY DEF LockInv
<1> QED BY LockInvariant, <1>1, PTL

-----------------------------------------------------------------------------
(* Two instances that run jobs of one key would both hold its lock. *)
LEMMA OneRunner ==
  ASSUME LockInv, NEW k \in Keys, NEW a \in Running(k), NEW b \in Running(k)
  PROVE  a = b
  BY DEF LockInv, RunnersHold, Locks, InRun, Running

(* While one instance runs a job of a key, no other does. *)
LEMMA OnlyRunner ==
  ASSUME LockInv, NEW k \in Keys, NEW a \in Running(k)
  PROVE  Running(k) = {a}
  BY OneRunner

RunningNow == [k \in Keys |-> Running(k)]

LEMMA StaySame ==
  ASSUME \A k \in Keys : Running(k)' = Running(k)
  PROVE  RunningNow' = RunningNow
  BY DEF RunningNow

(* The instance i, in no run before or after, changes who runs nothing. *)
LEMMA OutsideRuns ==
  ASSUME TypeOK, NEW i \in Instances, NEW v, v # "call",
         pc[i] # "call" \/ cur[i] \notin Jobs,
         pc' = [pc EXCEPT ![i] = v],
         cur' = cur \/ cur' = [cur EXCEPT ![i] = None]
  PROVE  RunningNow' = RunningNow
<1> SUFFICES ASSUME NEW k \in Keys, NEW r PROVE r \in Running(k)' <=> r \in Running(k)
  BY StaySame
<1>1. CASE r = i
  BY <1>1 DEF TypeOK, Running
<1>2. CASE r # i
  BY <1>2 DEF TypeOK, Running
<1> QED BY <1>1, <1>2

(* The run of i ends, and with it the runs of its key. *)
LEMMA RunEnds ==
  ASSUME LockInv, NEW i \in Instances, pc[i] = "call",
         NEW v, v # "call", pc' = [pc EXCEPT ![i] = v],
         cur' = cur \/ cur' = [cur EXCEPT ![i] = None]
  PROVE  Promise!Next
<1>0. cur[i] \in Jobs
  BY DEF LockInv, RunnersHold, Locks, InRun
<1>1. PICK k \in Keys : k = KeyOf[cur[i]]
  BY <1>0, KeyOfType
<1>2. i \in Running(k)
  BY <1>0, <1>1 DEF Running
<1>3. Running(k) = {i}
  BY <1>1, <1>2, OnlyRunner
<1>4. Running(k)' = {}
  <2> SUFFICES ASSUME NEW r \in Instances, r \in Running(k) => r = i
               PROVE  pc'[r] = "call" => ~(cur'[r] \in Jobs /\ KeyOf[cur'[r]] = k)
    BY <1>3 DEF Running
  <2>1. CASE r = i
    BY <2>1 DEF LockInv, TypeOK
  <2>2. CASE r # i
    BY <2>2 DEF LockInv, TypeOK, Running
  <2> QED BY <2>1, <2>2
<1>5. ASSUME NEW n \in Keys, n # k PROVE Running(n)' = Running(n)
  <2> SUFFICES ASSUME NEW r PROVE r \in Running(n)' <=> r \in Running(n)
    OBVIOUS
  <2>1. CASE r = i
    BY <2>1, <1>1, <1>5 DEF LockInv, TypeOK, Running
  <2>2. CASE r # i
    BY <2>2 DEF LockInv, TypeOK, Running
  <2> QED BY <2>1, <2>2
<1>6. RunningNow' = [RunningNow EXCEPT ![k] = {}]
  BY <1>1, <1>4, <1>5 DEF RunningNow
<1>7. RunningNow[k] # {}
  BY <1>1, <1>2 DEF RunningNow
<1>8. Promise!End(k)
  BY <1>6, <1>7 DEF Promise!End, RunningNow
<1> QED BY <1>1, <1>8 DEF Promise!Next

(* A run begins only where nobody is running: the lock was free. *)
LEMMA RunBegins ==
  ASSUME LockInv, NEW i \in Instances, NEW j \in Jobs, Granted(i, j)
  PROVE  Promise!Next
<1> DEFINE k == KeyOf[j]
<1>1. k \in Keys
  BY KeyOfType
<1>2. Running(k) = {}
  BY <1>1, LockerAssumption DEF Granted, LockInv, RunnersHold, Locks, InRun, Running
<1>3. Running(k)' = {i}
  <2> SUFFICES ASSUME NEW r PROVE r \in Running(k)' <=> r = i
    OBVIOUS
  <2>1. CASE r = i
    BY <2>1 DEF Granted, LockInv, TypeOK, Running
  <2>2. CASE r # i
    BY <2>2, <1>2 DEF Granted, LockInv, TypeOK, Running
  <2> QED BY <2>1, <2>2
<1>4. ASSUME NEW n \in Keys, n # k PROVE Running(n)' = Running(n)
  <2> SUFFICES ASSUME NEW r PROVE r \in Running(n)' <=> r \in Running(n)
    OBVIOUS
  <2>1. CASE r = i
    BY <2>1, <1>4 DEF Granted, Trying, LockInv, TypeOK, Running
  <2>2. CASE r # i
    BY <2>2 DEF Granted, LockInv, TypeOK, Running
  <2> QED BY <2>1, <2>2
<1>5. RunningNow' = [RunningNow EXCEPT ![k] = {i}]
  BY <1>1, <1>3, <1>4 DEF RunningNow
<1>6. RunningNow[k] = {}
  BY <1>1, <1>2 DEF RunningNow
<1>7. Promise!Begin(i, k)
  BY <1>5, <1>6 DEF Promise!Begin, RunningNow
<1> QED BY <1>1, <1>7 DEF Promise!Next

(* Every step of the instances is a step of Exclusive, or changes nothing  *)
(* there.                                                                  *)
LEMMA PromiseStep == LockInv /\ [Next]_vars => Promise!Next \/ RunningNow' = RunningNow
<1> SUFFICES ASSUME LockInv, [Next]_vars PROVE Promise!Next \/ RunningNow' = RunningNow
  OBVIOUS
<1>0. TypeOK
  BY DEF LockInv
<1>s. ASSUME pc' = pc, cur' = cur PROVE RunningNow' = RunningNow
  BY <1>s DEF RunningNow, Running
<1>1. CASE UNCHANGED vars
  BY <1>1, <1>s DEF vars
<1>2. CASE Next
  <2>1. ASSUME NEW i \in Instances, NEW j \in Jobs,
               BecomesDue(i, j) \/ LockFails(i, j) \/ Granted(i, j) \/ Refused(i, j)
        PROVE  Promise!Next \/ RunningNow' = RunningNow
    <3>1. CASE BecomesDue(i, j) \/ LockFails(i, j) \/ Refused(i, j)
      BY <3>1, <1>s DEF BecomesDue, LockFails, Refused
    <3>2. CASE Granted(i, j)
      BY <3>2, RunBegins
    <3> QED BY <2>1, <3>1, <3>2
  <2>2. ASSUME NEW i \in Instances,
               RunPending(i) \/ RunAll(i) \/ EndBatch(i) \/ Return(i) \/ Unlock(i)
                 \/ UnlockFails(i) \/ CallPanics(i) \/ Crash(i) \/ Restart(i)
        PROVE  Promise!Next \/ RunningNow' = RunningNow
    <3>1. CASE RunPending(i) \/ RunAll(i)
      BY <3>1, <1>0, OutsideRuns DEF RunPending, RunAll
    <3>2. CASE EndBatch(i) \/ Restart(i)
      BY <3>2, <1>0, OutsideRuns DEF EndBatch, Restart
    <3>3. CASE Unlock(i) \/ UnlockFails(i)
      BY <3>3, <1>0, OutsideRuns DEF Unlock, UnlockFails
    <3>4. CASE Return(i)
      BY <3>4, RunEnds DEF Return
    <3>5. CASE CallPanics(i)
      BY <3>5, RunEnds DEF CallPanics, Gone
    <3>6. CASE Crash(i) /\ pc[i] = "call"
      BY <3>6, RunEnds DEF Crash, Gone
    <3>7. CASE Crash(i) /\ pc[i] # "call"
      BY <3>7, <1>0, OutsideRuns DEF Crash, Gone
    <3> QED BY <2>2, <3>1, <3>2, <3>3, <3>4, <3>5, <3>6, <3>7
  <2>3. ASSUME NEW k \in Keys, Expire(k) PROVE RunningNow' = RunningNow
    BY <2>3, <1>s DEF Expire
  <2> QED BY <1>2, <2>1, <2>2, <2>3, StepCases
<1> QED BY <1>1, <1>2

LEMMA PromiseInit == Init => Promise!Init
  BY DEF Init, Promise!Init, Running

(* For any number of instances and jobs, crashes and faults of the locker, *)
(* the runs of a key exclude each other: cron.go implements Exclusive.     *)
THEOREM ImplementsExclusive == Spec => RunsAreExclusive
<1>1. LockInv /\ [Next]_vars => [Promise!Next]_RunningNow
  BY PromiseStep
<1> QED BY LockInvariant, PromiseInit, <1>1, PTL DEF Spec, RunsAreExclusive, Promise!Spec, RunningNow

-----------------------------------------------------------------------------
LEMMA HeldInit == Init => HeldOnlyForRuns
  BY DEF Init, HeldOnlyForRuns

(* A lock changes hands only through the step that also records why. *)
LEMMA HeldStep == LockInv /\ HeldOnlyForRuns /\ [Next]_vars => HeldOnlyForRuns'
<1> SUFFICES ASSUME LockInv, HeldOnlyForRuns, [Next]_vars,
                    NEW k \in Keys, holder'[k] # None
             PROVE  Uses(holder[k], k)' \/ k \in leaked'
  BY DEF HeldOnlyForRuns
<1>0. TypeOK /\ RunnersHold
  BY DEF LockInv
<1>h. holder[k] # None => Uses(holder[k], k) \/ k \in leaked
  BY DEF HeldOnlyForRuns
<1> USE DEF Uses
<1>1. CASE UNCHANGED vars
  BY <1>h, <1>1 DEF vars
<1>2. CASE Next
  <2>1. ASSUME NEW i \in Instances, NEW j \in Jobs,
               BecomesDue(i, j) \/ LockFails(i, j) \/ Granted(i, j) \/ Refused(i, j)
        PROVE  Uses(holder[k], k)' \/ k \in leaked'
    <3>1. CASE BecomesDue(i, j)
      BY <3>1, <1>h DEF BecomesDue
    <3>2. CASE LockFails(i, j)
      BY <3>2, <1>h, <1>0 DEF LockFails, TypeOK
    <3>3. CASE Granted(i, j)
      <4>1. CASE k = KeyOf[j]
        BY <3>3, <4>1, <1>0 DEF Granted, TypeOK
      <4>2. CASE k # KeyOf[j]
        BY <3>3, <4>2, <1>h, <1>0 DEF Granted, Trying, TypeOK
      <4> QED BY <4>1, <4>2
    <3>4. CASE Refused(i, j)
      BY <3>4, <1>h DEF Refused
    <3> QED BY <2>1, <3>1, <3>2, <3>3, <3>4
  <2>2. ASSUME NEW i \in Instances,
               RunPending(i) \/ RunAll(i) \/ EndBatch(i) \/ Return(i) \/ Unlock(i)
                 \/ UnlockFails(i) \/ CallPanics(i) \/ Crash(i) \/ Restart(i)
        PROVE  Uses(holder[k], k)' \/ k \in leaked'
    <3> USE <1>h, <1>0 DEF TypeOK
    <3>1. CASE RunPending(i)
      BY <3>1 DEF RunPending
    <3>2. CASE RunAll(i)
      BY <3>2 DEF RunAll
    <3>3. CASE EndBatch(i)
      BY <3>3 DEF EndBatch
    <3>4. CASE Return(i)
      BY <3>4 DEF Return
    <3>5. CASE Unlock(i)
      BY <3>5 DEF Unlock
    <3>6. CASE UnlockFails(i)
      BY <3>6 DEF UnlockFails
    <3>7. CASE CallPanics(i)
      BY <3>7 DEF CallPanics, Gone
    <3>8. CASE Crash(i)
      BY <3>8 DEF Crash, Gone
    <3>9. CASE Restart(i)
      BY <3>9 DEF Restart
    <3> QED BY <2>2, <3>1, <3>2, <3>3, <3>4, <3>5, <3>6, <3>7, <3>8, <3>9
  <2>3. ASSUME NEW n \in Keys, Expire(n) PROVE Uses(holder[k], k)' \/ k \in leaked'
    <3>1. k # n /\ holder'[k] = holder[k]
      BY <2>3, <1>0 DEF Expire, TypeOK
    <3> QED BY <3>1, <2>3, <1>h DEF Expire
  <2> QED BY <1>2, <2>1, <2>2, <2>3, StepCases
<1> QED BY <1>1, <1>2

(* Whatever order locks, runs, panics and crashes come in, a lock that     *)
(* nobody uses was left behind by a fault, not by a way out of run.        *)
THEOREM LocksAreGivenBack == Spec => []HeldOnlyForRuns
<1>1. LockInv /\ HeldOnlyForRuns /\ [Next]_vars => HeldOnlyForRuns'
  BY HeldStep
<1> QED BY LockInvariant, HeldInit, <1>1, PTL DEF Spec
=============================================================================
