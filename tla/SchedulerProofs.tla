-------------------------- MODULE SchedulerProofs ---------------------------
(***************************************************************************)
(* What holds of the scheduler for any number of jobs, any builder chains, *)
(* any clock and any behaviour of the job functions.                       *)
(***************************************************************************)
EXTENDS Scheduler, CronTimeProofs, FiniteSetTheorems

-----------------------------------------------------------------------------
(* Sorting, shifting and shortening a table. *)

LEMMA RangeOfSeq ==
  ASSUME NEW S, NEW s \in Seq(S)
  PROVE  /\ Range(s) = { s[i] : i \in 1 .. Len(s) }
         /\ Range(s) \subseteq S
BY DEF Range

LEMMA InjectiveSeq ==
  ASSUME NEW S, NEW s \in Seq(S)
  PROVE  IsInjective(s) <=> \A i, k \in 1 .. Len(s) : s[i] = s[k] => i = k
BY DEF IsInjective

LEMMA SortedTableFacts ==
  ASSUME jobs \in Seq(Jobs), NEW s \in SortedTables
  PROVE  /\ s \in Seq(Jobs)
         /\ Len(s) = Len(jobs)
         /\ Range(s) = InTable
         /\ IsInjective(jobs) => IsInjective(s)
         /\ \A i, k \in 1 .. Len(s) :
              i < k => Unix(nextRun[s[i]]) <= Unix(nextRun[s[k]])
<1> DEFINE D == 1 .. Len(jobs)
<1>1. PICK p \in Bijection(D, D) :
        /\ s = [i \in D |-> jobs[p[i]]]
        /\ \A i, k \in D :
             i < k => Unix(nextRun[jobs[p[i]]]) <= Unix(nextRun[jobs[p[k]]])
  BY DEF SortedTables
<1>2. /\ p \in [D -> D]
      /\ \A i, k \in D : p[i] = p[k] => i = k
      /\ \A d \in D : \E i \in D : p[i] = d
  BY DEF Bijection, Injection, Surjection, IsInjective
<1>3. Len(jobs) \in Nat /\ \A i \in D : jobs[i] \in Jobs
  OBVIOUS
<1>4. s \in [D -> Jobs]
  BY <1>1, <1>2, <1>3
<1>5. s \in Seq(Jobs) /\ Len(s) = Len(jobs)
  BY <1>3, <1>4
<1>6. \A i \in D : s[i] = jobs[p[i]]
  BY <1>1
<1>7. Range(s) = InTable
  <2>1. Range(s) = { s[i] : i \in D }
    BY <1>4 DEF Range
  <2>2. InTable = { jobs[i] : i \in D }
    BY RangeOfSeq DEF InTable
  <2>3. ASSUME NEW i \in D PROVE s[i] \in InTable
    <3>1. p[i] \in D /\ s[i] = jobs[p[i]]
      BY <1>2, <1>6
    <3>2. QED
      BY <2>2, <3>1
  <2>4. \A d \in D : jobs[d] \in Range(s)
    <3>1. SUFFICES ASSUME NEW d \in D PROVE \E i \in D : s[i] = jobs[d]
      BY <2>1
    <3>2. PICK i \in D : p[i] = d
      BY <1>2
    <3>3. QED
      BY <1>6, <3>2
  <2>5. QED
    BY <2>1, <2>2, <2>3, <2>4
<1>8. IsInjective(jobs) => IsInjective(s)
  <2>1. SUFFICES ASSUME IsInjective(jobs), NEW i \in D, NEW k \in D, s[i] = s[k]
                 PROVE  i = k
    BY <1>5, InjectiveSeq
  <2>2. jobs[p[i]] = jobs[p[k]]
    BY <1>6, <2>1
  <2>3. p[i] \in D /\ p[k] \in D
    BY <1>2
  <2>4. \A a, b \in D : jobs[a] = jobs[b] => a = b
    BY <2>1, InjectiveSeq
  <2>5. p[i] = p[k]
    BY <2>2, <2>3, <2>4
  <2>6. QED
    BY <1>2, <2>5
<1>9. QED
  BY <1>1, <1>5, <1>6, <1>7, <1>8

LEMMA WithoutFacts ==
  ASSUME NEW s \in Seq(Jobs), NEW k \in 1 .. Len(s)
  PROVE  /\ Without(s, k) \in Seq(Jobs)
         /\ Range(Without(s, k)) \subseteq Range(s)
         /\ IsInjective(s) => IsInjective(Without(s, k))
<1> DEFINE w == Without(s, k)
           D == 1 .. Len(s) - 1
<1>1. Len(s) \in Nat /\ Len(s) - 1 \in Nat /\ k \in Nat
  OBVIOUS
<1>2. \A i \in D : i \in 1 .. Len(s) /\ i + 1 \in 1 .. Len(s)
  BY <1>1
<1>3. \A i \in 1 .. Len(s) : s[i] \in Jobs
  OBVIOUS
<1>4. w = [i \in D |-> IF i < k THEN s[i] ELSE s[i + 1]]
  BY DEF Without
<1> HIDE DEF w
<1>5. w \in [D -> Jobs]
  BY <1>2, <1>3, <1>4
<1>6. w \in Seq(Jobs) /\ Len(w) = Len(s) - 1
  BY <1>1, <1>5
<1>7. Range(w) \subseteq Range(s)
  <2>1. Range(w) = { w[i] : i \in D } /\ Range(s) = { s[i] : i \in 1 .. Len(s) }
    BY <1>6, RangeOfSeq
  <2>2. \A i \in D : \E m \in 1 .. Len(s) : w[i] = s[m]
    BY <1>2, <1>4
  <2>3. QED
    BY <2>1, <2>2
<1>8. IsInjective(s) => IsInjective(w)
  <2>1. SUFFICES ASSUME IsInjective(s), NEW i \in D, NEW m \in D, w[i] = w[m]
                 PROVE  i = m
    BY <1>6, InjectiveSeq
  <2>2. \A a, b \in 1 .. Len(s) : s[a] = s[b] => a = b
    BY <2>1, InjectiveSeq
  <2> DEFINE source(x) == IF x < k THEN x ELSE x + 1
  <2>3. /\ source(i) \in 1 .. Len(s) /\ source(m) \in 1 .. Len(s)
        /\ w[i] = s[source(i)] /\ w[m] = s[source(m)]
    BY <1>2, <1>4
  <2>4. source(i) = source(m)
    BY <2>1, <2>2, <2>3
  <2>5. i \in Int /\ m \in Int
    BY <1>1
  <2>6. QED
    BY <1>1, <2>4, <2>5
<1>9. QED
  BY <1>6, <1>7, <1>8 DEF w

LEMMA TailFacts ==
  ASSUME NEW s \in Seq(Jobs), s # <<>>
  PROVE  /\ Head(s) \in Range(s)
         /\ Tail(s) \in Seq(Jobs)
         /\ Range(Tail(s)) \subseteq Range(s)
         /\ IsInjective(s) => IsInjective(Tail(s)) /\ Head(s) \notin Range(Tail(s))
<1>1. /\ Tail(s) \in Seq(Jobs) /\ Len(Tail(s)) = Len(s) - 1 /\ Len(s) \in Nat \ {0}
      /\ Head(s) = s[1]
      /\ \A i \in 1 .. Len(s) - 1 : Tail(s)[i] = s[i + 1] /\ i + 1 \in 1 .. Len(s)
  OBVIOUS
<1>2. Range(Tail(s)) = { Tail(s)[i] : i \in 1 .. Len(s) - 1 }
  BY <1>1, RangeOfSeq
<1>3. Range(s) = { s[i] : i \in 1 .. Len(s) }
  BY RangeOfSeq
<1>4. IsInjective(s) => IsInjective(Tail(s))
  <2>1. SUFFICES ASSUME IsInjective(s), NEW i \in 1 .. Len(s) - 1, NEW k \in 1 .. Len(s) - 1,
                        Tail(s)[i] = Tail(s)[k]
                 PROVE  i = k
    BY <1>1, InjectiveSeq
  <2>2. i + 1 = k + 1
    BY <1>1, <2>1, InjectiveSeq
  <2>3. QED
    BY <2>2
<1>5. IsInjective(s) => Head(s) \notin Range(Tail(s))
  <2>1. SUFFICES ASSUME IsInjective(s), NEW i \in 1 .. Len(s) - 1, s[1] = s[i + 1]
                 PROVE  FALSE
    BY <1>1, <1>2
  <2>2. 1 = i + 1
    BY <1>1, <2>1, InjectiveSeq
  <2>3. QED
    BY <2>2
<1>6. QED
  BY <1>1, <1>2, <1>3, <1>4, <1>5

LEMMA AppendFacts ==
  ASSUME NEW s \in Seq(Jobs), NEW j \in Jobs
  PROVE  /\ Append(s, j) \in Seq(Jobs)
         /\ Range(Append(s, j)) = Range(s) \cup {j}
         /\ IsInjective(s) /\ j \notin Range(s) => IsInjective(Append(s, j))
<1> DEFINE a == Append(s, j)
<1>1. /\ a \in Seq(Jobs) /\ Len(a) = Len(s) + 1 /\ Len(s) \in Nat
      /\ a[Len(s) + 1] = j
      /\ \A i \in 1 .. Len(s) : a[i] = s[i]
  OBVIOUS
<1>2. 1 .. Len(a) = 1 .. Len(s) \cup {Len(s) + 1}
  BY <1>1
<1>3. Range(a) = { a[i] : i \in 1 .. Len(a) } /\ Range(s) = { s[i] : i \in 1 .. Len(s) }
  BY <1>1, RangeOfSeq
<1> HIDE DEF a
<1>4. Range(a) = Range(s) \cup {j}
  BY <1>1, <1>2, <1>3
<1>5. IsInjective(s) /\ j \notin Range(s) => IsInjective(a)
  <2>1. SUFFICES ASSUME IsInjective(s), j \notin Range(s),
                        NEW i \in 1 .. Len(a), NEW k \in 1 .. Len(a), a[i] = a[k]
                 PROVE  i = k
    BY <1>1, InjectiveSeq
  <2>2. CASE i \in 1 .. Len(s) /\ k \in 1 .. Len(s)
    BY <1>1, <2>1, <2>2, InjectiveSeq
  <2>3. CASE i = Len(s) + 1 /\ k \in 1 .. Len(s)
    BY <1>1, <1>3, <2>1, <2>3
  <2>4. CASE i \in 1 .. Len(s) /\ k = Len(s) + 1
    BY <1>1, <1>3, <2>1, <2>4
  <2>5. CASE i = Len(s) + 1 /\ k = Len(s) + 1
    BY <2>5
  <2>6. QED
    BY <1>2, <2>2, <2>3, <2>4, <2>5
<1>6. QED
  BY <1>1, <1>4, <1>5 DEF a

LEMMA PrefixFacts ==
  ASSUME NEW s \in Seq(Jobs), NEW n \in 0 .. Len(s)
  PROVE  /\ SubSeq(s, 1, n) \in Seq(Jobs)
         /\ Range(SubSeq(s, 1, n)) = { s[i] : i \in 1 .. n }
         /\ IsInjective(s) => IsInjective(SubSeq(s, 1, n))
<1> DEFINE p == SubSeq(s, 1, n)
<1>1. p \in Seq(Jobs) /\ Len(p) = n /\ \A i \in 1 .. n : p[i] = s[i] /\ i \in 1 .. Len(s)
  OBVIOUS
<1> HIDE DEF p
<1>2. Range(p) = { s[i] : i \in 1 .. n }
  BY <1>1, RangeOfSeq
<1>3. IsInjective(s) => IsInjective(p)
  BY <1>1, InjectiveSeq
<1>4. QED
  BY <1>1, <1>2, <1>3 DEF p

-----------------------------------------------------------------------------
(* The inductive invariant.  What RunPending has still to run depends on   *)
(* who may be in the batch and in the table: configured jobs, of which the *)
(* removed ones that ran once more are in neither.                         *)

CallSound ==
  cur # None => mode # "none" /\ config[cur] # None

BatchSound ==
  /\ mode # "pending" => batch = <<>>
  /\ \A j \in Range(batch) : config[j] # None

StraysGone ==
  \A j \in Jobs :
    /\ strays[j] \in {0, 1}
    /\ strays[j] = 1 => j \notin InTable /\ j \notin Range(batch) /\ config[j] # None

IInv ==
  /\ TypeOK
  /\ TableSound
  /\ BatchDue
  /\ CallSound
  /\ BatchSound
  /\ StraysGone

LEMMA EmptyRange == Range(<<>>) = {} /\ IsInjective(<<>>)
BY DEF Range, IsInjective

LEMMA InitEstablishes == Init => IInv
<1> SUFFICES ASSUME Init PROVE IInv
  OBVIOUS
<1>1. TypeOK
  <2>1. now \in Nat /\ since \in Nat
    BY SchedulerAssumption DEF Init
  <2>2. jobs \in Seq(Jobs) /\ batch \in Seq(Jobs)
    BY DEF Init
  <2>3. /\ config \in [Jobs -> JobConfigs \cup {None}]
        /\ lastRun \in [Jobs -> Int]
        /\ nextRun \in [Jobs -> Int]
        /\ strays \in [Jobs -> Nat]
    BY DEF Init, Epoch
  <2>4. /\ mode \in {"none", "pending", "all"}
        /\ pos \in Nat \ {0}
        /\ cur \in Jobs \cup {None}
    BY DEF Init
  <2>5. halted \in Reasons \cup {"no"} /\ unrun \subseteq Jobs /\ moved \subseteq Jobs
    BY DEF Init
  <2>6. loop \in BOOLEAN /\ tick \in BOOLEAN /\ stopReq \in BOOLEAN
    BY DEF Init
  <2>7. QED
    BY <2>1, <2>2, <2>3, <2>4, <2>5, <2>6 DEF TypeOK
<1>2. TableSound
  BY EmptyRange DEF Init, TableSound, InTable
<1>3. BatchDue /\ CallSound /\ BatchSound
  BY EmptyRange DEF Init, BatchDue, CallSound, BatchSound
<1>4. StraysGone
  BY DEF Init, StraysGone
<1>5. QED
  BY <1>1, <1>2, <1>3, <1>4 DEF IInv

-----------------------------------------------------------------------------
(* The parts of the invariant, by what a step leaves alone. *)

LEMMA ConfigFacts ==
  ASSUME TypeOK, NEW j \in Jobs, config[j] # None
  PROVE  config[j] \in JobConfigs /\ config[j].schedule \in Schedules
<1>1. config[j] \in JobConfigs
  BY DEF TypeOK
<1>2. QED
  BY <1>1 DEF JobConfigs

(* scheduleNextRun writes nothing but the schedule of its job, and unless  *)
(* it panics or hangs that is not in the past.                             *)
LEMMA ScheduleNextFacts ==
  ASSUME TypeOK, NEW j \in Jobs, NEW c \in Schedules,
         NEW last \in Int, NEW next \in Int,
         ScheduleNext(j, c, last, next)
  PROVE  /\ nextRun' \in [Jobs -> Int]
         /\ halted' \in Reasons \cup {"no"}
         /\ \A i \in Jobs \ {j} : nextRun'[i] = nextRun[i]
         /\ halted' = "no" => nextRun'[j] >= now
<1> DEFINE end == Outcome(c, last, next, now)
           chosen == IF end \in {"kept", "set"} THEN NextSchedule(c, last, next, now) ELSE next
<1>1. end \in {"kept", "set", "unit", "hang"}
  BY DEF Outcome
<1>2. now \in Int /\ nextRun \in [Jobs -> Int]
  BY DEF TypeOK
<1>3. end \in {"kept", "set"} => /\ NextSchedule(c, last, next, now) \in Int
                                 /\ NextSchedule(c, last, next, now) >= now
  BY <1>2, NextScheduleNotInThePast
<1>4. /\ nextRun' = [nextRun EXCEPT ![j] = chosen]
      /\ halted' = IF end \in {"kept", "set"} THEN "no" ELSE end
  BY DEF ScheduleNext
<1>5. chosen \in Int
  BY <1>3
<1>6. halted' = "no" => chosen >= now
  BY <1>1, <1>3, <1>4
<1> HIDE DEF end, chosen
<1>7. nextRun' \in [Jobs -> Int] /\ nextRun'[j] = chosen
  BY <1>2, <1>4, <1>5
<1>8. \A i \in Jobs \ {j} : nextRun'[i] = nextRun[i]
  BY <1>2, <1>4
<1>9. halted' \in Reasons \cup {"no"}
  BY <1>1, <1>4 DEF Reasons
<1>10. QED
  BY <1>6, <1>7, <1>8, <1>9

(* The batch stays due when no time is lost and the jobs of it that are    *)
(* rescheduled count as moved.                                             *)
LEMMA DueStays ==
  ASSUME TypeOK, BatchDue, TypeOK',
         now' >= now,
         batch' \in Seq(Jobs), Range(batch') \subseteq Range(batch),
         IsInjective(batch) => IsInjective(batch'),
         mode' = mode, moved \subseteq moved',
         \A j \in Range(batch') : j # cur' /\ (nextRun'[j] = nextRun[j] \/ j \in moved')
  PROVE  BatchDue'
<1> SUFFICES ASSUME mode = "pending", NEW j \in Range(batch'), j \notin moved'
             PROVE  ShouldRun(j)'
  BY DEF BatchDue
<1>1. j \in Jobs
  BY RangeOfSeq
<1>2. j \notin moved => ShouldRun(j)
  BY DEF BatchDue
<1>3. now \in Int /\ now' \in Int /\ nextRun[j] \in Int
  BY <1>1 DEF TypeOK
<1>4. Unix(now) <= Unix(now')
  BY <1>3, UnixMonotone
<1>5. Unix(now) \in Int /\ Unix(now') \in Int /\ Unix(nextRun[j]) \in Int
  BY <1>3, TicksAssumption, DivisionBounds DEF Unix
<1>6. Unix(nextRun'[j]) = Unix(nextRun[j]) /\ j \notin moved
  OBVIOUS
<1>7. QED
  BY <1>2, <1>4, <1>5, <1>6 DEF ShouldRun

(* Nothing but the clock, the loop, the type-correct lastRun and the       *)
(* reason to halt changes.                                                 *)
LEMMA QuietStep ==
  ASSUME IInv, TypeOK', now' >= now,
         UNCHANGED <<table, nextRun, batchVars, cur, strays, moved>>
  PROVE  IInv'
<1>1. BatchDue'
  <2>1. batch' \in Seq(Jobs) /\ batch' = batch /\ cur' = cur /\ mode' = mode /\ nextRun' = nextRun
    BY DEF IInv, TypeOK, batchVars
  <2>2. \A j \in Range(batch') : nextRun'[j] = nextRun[j]
    BY <2>1
  <2>3. CASE mode = "pending"
    <3>1. \A j \in Range(batch') : j # cur'
      BY <2>1, <2>3 DEF IInv, BatchDue
    <3>2. QED
      BY <2>1, <2>2, <3>1, DueStays DEF IInv
  <2>4. CASE mode # "pending"
    BY <2>1, <2>4 DEF BatchDue
  <2>5. QED
    BY <2>3, <2>4
<1>2. TableSound'
  BY DEF IInv, TableSound, InTable, table
<1>3. CallSound' /\ BatchSound'
  BY DEF IInv, CallSound, BatchSound, table, batchVars
<1>4. StraysGone'
  BY DEF IInv, StraysGone, InTable, table, batchVars
<1>5. QED
  BY <1>1, <1>2, <1>3, <1>4 DEF IInv

LEMMA StillStep ==
  ASSUME IInv, TypeOK', UNCHANGED <<now, table, nextRun, batchVars, cur, strays, moved>>
  PROVE  IInv'
<1>1. now' >= now
  BY DEF IInv, TypeOK
<1>2. QED
  BY <1>1, QuietStep

(* A new job enters the table. *)
LEMMA EnterTable ==
  ASSUME IInv, TypeOK', NEW j \in Jobs, NEW c, c # None,
         config[j] = None,
         jobs' = Append(jobs, j),
         config' = [config EXCEPT ![j] = c],
         \A i \in Jobs \ {j} : nextRun'[i] = nextRun[i],
         UNCHANGED <<now, batchVars, cur, strays, moved>>
  PROVE  IInv'
<1>1. /\ jobs \in Seq(Jobs) /\ batch \in Seq(Jobs)
      /\ config \in [Jobs -> JobConfigs \cup {None}]
      /\ now \in Nat /\ cur \in Jobs \cup {None}
  BY DEF IInv, TypeOK
<1>2. /\ config'[j] = c
      /\ \A i \in Jobs \ {j} : config'[i] = config[i]
  BY <1>1
<1>3. j \notin InTable /\ j \notin Range(batch) /\ strays[j] # 1
  BY DEF IInv, TableSound, BatchSound, StraysGone
<1>4. Range(jobs') = InTable \cup {j} /\ IsInjective(jobs')
  BY <1>1, <1>3, AppendFacts DEF IInv, TableSound, InTable
<1>5. InTable' = InTable \cup {j}
  BY <1>4 DEF InTable
<1>6. Range(batch) \subseteq Jobs /\ InTable \subseteq Jobs
  BY <1>1, RangeOfSeq DEF InTable
<1>7. TableSound'
  <2>1. \A i \in InTable' : config'[i] # None
    BY <1>2, <1>5, <1>6 DEF IInv, TableSound
  <2>2. QED
    BY <1>4, <2>1 DEF TableSound
<1>8. BatchDue'
  <2>1. \A i \in Range(batch) : nextRun'[i] = nextRun[i]
    BY <1>3, <1>6
  <2>2. batch' = batch /\ mode' = mode /\ now' = now /\ cur' = cur
    BY DEF batchVars
  <2>3. QED
    BY <2>1, <2>2 DEF IInv, BatchDue, ShouldRun
<1>9. CallSound'
  BY <1>1, <1>2 DEF IInv, CallSound, batchVars
<1>10. BatchSound'
  BY <1>2, <1>6 DEF IInv, BatchSound, batchVars
<1>11. StraysGone'
  BY <1>2, <1>3, <1>5 DEF IInv, StraysGone, batchVars
<1>12. QED
  BY <1>7, <1>8, <1>9, <1>10, <1>11 DEF IInv

(* Jobs leave the table, or change their places in it. *)
LEMMA ShrinkTable ==
  ASSUME IInv, TypeOK', Range(jobs') \subseteq InTable, IsInjective(jobs'),
         UNCHANGED <<now, config, times, batchVars, cur, strays, moved>>
  PROVE  IInv'
<1>1. TableSound'
  BY DEF IInv, TableSound, InTable
<1>2. BatchDue'
  BY DEF IInv, BatchDue, ShouldRun, batchVars, times
<1>3. CallSound' /\ BatchSound'
  BY DEF IInv, CallSound, BatchSound, batchVars
<1>4. StraysGone'
  BY DEF IInv, StraysGone, InTable, batchVars
<1>5. QED
  BY <1>1, <1>2, <1>3, <1>4 DEF IInv

-----------------------------------------------------------------------------
(* One lemma per action. *)

LEMMA AddJobPreserves ==
  ASSUME IInv, NEW j \in Jobs, NEW c \in Configs, NEW delay \in FromDelays,
         AddJob(j, c, delay)
  PROVE  IInv'
<1> DEFINE from == IF delay = 0 THEN Epoch ELSE now + delay
<1>1. c \in JobConfigs /\ c.schedule \in Schedules /\ c # None
  BY SchedulerAssumption DEF JobConfigs
<1>2. now \in Int /\ from \in Int
  BY SchedulerAssumption DEF IInv, TypeOK, Epoch
<1>3. ScheduleNext(j, c.schedule, now, from)
  BY DEF AddJob
<1> HIDE DEF from
<1>4. /\ nextRun' \in [Jobs -> Int]
      /\ halted' \in Reasons \cup {"no"}
      /\ \A i \in Jobs \ {j} : nextRun'[i] = nextRun[i]
  BY <1>1, <1>2, <1>3, ScheduleNextFacts DEF IInv
<1>5. TypeOK'
  <2>1. jobs' \in Seq(Jobs)
    BY DEF AddJob, IInv, TypeOK
  <2>2. config' \in [Jobs -> JobConfigs \cup {None}]
    BY <1>1 DEF AddJob, IInv, TypeOK
  <2>3. lastRun' \in [Jobs -> Int]
    BY <1>2 DEF AddJob, IInv, TypeOK
  <2>4. QED
    BY <1>4, <2>1, <2>2, <2>3 DEF AddJob, IInv, TypeOK, batchVars, loopVars, history
<1>6. QED
  BY <1>1, <1>4, <1>5, EnterTable DEF AddJob, history

LEMMA AbandonedChainPreserves ==
  ASSUME IInv, NEW j \in Jobs, NEW c \in Configs, NEW delay \in FromDelays,
         AbandonedChain(j, c, delay)
  PROVE  IInv'
<1> DEFINE from == IF delay = 0 THEN Epoch ELSE now + delay
           blank == [c EXCEPT !.task = None, !.safe = FALSE]
<1>1. blank \in JobConfigs /\ blank # None
  <2>1. c \in JobConfigs
    BY SchedulerAssumption
  <2>2. blank \in JobConfigs
    BY <2>1 DEF JobConfigs
  <2>3. QED
    BY <2>2, SchedulerAssumption
<1>2. from \in Int
  BY SchedulerAssumption DEF IInv, TypeOK, Epoch
<1>3. /\ config' = [config EXCEPT ![j] = blank]
      /\ nextRun' = [nextRun EXCEPT ![j] = from]
  BY DEF AbandonedChain
<1> HIDE DEF from, blank
<1>4. TypeOK'
  <2>1. jobs' \in Seq(Jobs)
    BY DEF AbandonedChain, IInv, TypeOK
  <2>2. config' \in [Jobs -> JobConfigs \cup {None}]
    BY <1>1, <1>3 DEF IInv, TypeOK
  <2>3. nextRun' \in [Jobs -> Int]
    BY <1>2, <1>3 DEF IInv, TypeOK
  <2>4. QED
    BY <2>1, <2>2, <2>3 DEF AbandonedChain, IInv, TypeOK, batchVars, loopVars, history
<1>5. \A i \in Jobs \ {j} : nextRun'[i] = nextRun[i]
  BY <1>3 DEF IInv, TypeOK
<1>6. QED
  BY <1>1, <1>3, <1>4, <1>5, EnterTable DEF AbandonedChain, history

(* A chain on a job that exists keeps what a chain may set, its interval   *)
(* and its lock.                                                           *)
LEMMA RechainedFacts ==
  ASSUME TypeOK, NEW j \in Jobs, config[j] # None, NEW c \in Rechains
  PROVE  /\ Rechained(j, c) \in JobConfigs
         /\ Rechained(j, c).schedule \in Schedules
         /\ config[j].lock => Rechained(j, c).lock
<1>1. /\ config[j] \in JobConfigs /\ config[j].schedule \in Schedules
      /\ c \in JobConfigs /\ c.schedule \in Schedules
      /\ c.lock \in BOOLEAN /\ config[j].lock \in BOOLEAN
  BY ConfigFacts, SchedulerAssumption DEF JobConfigs
<1> DEFINE s == [c.schedule EXCEPT !.interval = config[j].schedule.interval]
           l == (c.lock \/ config[j].lock)
<1>2. s \in Schedules
  BY <1>1 DEF Schedules
<1>3. l \in BOOLEAN /\ (config[j].lock => l)
  BY <1>1
<1>4. Rechained(j, c) = [c EXCEPT !.schedule = s, !.lock = l]
  BY DEF Rechained
<1> HIDE DEF s, l
<1>5. Rechained(j, c).schedule = s /\ Rechained(j, c).lock = l
  BY <1>1, <1>4 DEF JobConfigs
<1>6. Rechained(j, c) \in JobConfigs
  BY <1>1, <1>2, <1>3, <1>4 DEF JobConfigs
<1>7. QED
  BY <1>2, <1>3, <1>5, <1>6

(* What the builder writes of a job that exists. *)
Rebuilt(j) ==
  \/ \E delay \in Shifts : From(j, delay)
  \/ \E c \in Rechains : Do(j, c) \/ Amend(j, c)

(* Its schedule is set, or only what the next rescheduling goes by. *)
Reset(j)   == Move(j) /\ (halted' = "no" => nextRun'[j] >= now)
Amended(j) == /\ UNCHANGED <<times, moved, halted>>
              /\ config'[j].task = config[j].task
              /\ config[j].lock => config'[j].lock

LEMMA RebuildFrame ==
  ASSUME Rebuild
  PROVE  MayUse /\ UNCHANGED <<now, jobs, batchVars, cur, loopVars, unrun, strays>>
<1>1. PICK j \in Jobs : Rebuilt(j)
  BY DEF Rebuild, Rebuilt
<1>2. ASSUME NEW delay \in Shifts, From(j, delay)
      PROVE  MayUse /\ UNCHANGED <<now, jobs, batchVars, cur, loopVars, unrun, strays>>
  BY <1>2 DEF From, table
<1>3. ASSUME NEW c \in Rechains, Do(j, c)
      PROVE  MayUse /\ UNCHANGED <<now, jobs, batchVars, cur, loopVars, unrun, strays>>
  BY <1>3 DEF Do
<1>4. ASSUME NEW c \in Rechains, Amend(j, c)
      PROVE  MayUse /\ UNCHANGED <<now, jobs, batchVars, cur, loopVars, unrun, strays>>
  BY <1>4 DEF Amend, history
<1>5. QED
  BY <1>1, <1>2, <1>3, <1>4 DEF Rebuilt

LEMMA RebuiltFacts ==
  ASSUME TypeOK, NEW j \in Jobs, Rebuilt(j)
  PROVE  /\ MayUse /\ config[j] # None /\ config'[j] # None
         /\ UNCHANGED <<now, jobs, batchVars, cur, loopVars, unrun, strays>>
         /\ config' \in [Jobs -> JobConfigs \cup {None}]
         /\ lastRun' \in [Jobs -> Int] /\ nextRun' \in [Jobs -> Int]
         /\ halted' \in Reasons \cup {"no"}
         /\ \A i \in Jobs \ {j} : /\ config'[i] = config[i]
                                   /\ lastRun'[i] = lastRun[i]
                                   /\ nextRun'[i] = nextRun[i]
         /\ lastRun'[j] = lastRun[j] \/ (lastRun[j] = Epoch /\ lastRun'[j] = now)
         /\ Reset(j) \/ Amended(j)
<1>1. /\ now \in Nat /\ config \in [Jobs -> JobConfigs \cup {None}]
      /\ lastRun \in [Jobs -> Int] /\ nextRun \in [Jobs -> Int]
      /\ halted \in Reasons \cup {"no"}
  BY DEF TypeOK
<1>2. ASSUME NEW delay \in Shifts, From(j, delay)
      PROVE  /\ UNCHANGED <<config, lastRun, halted>>
             /\ nextRun' \in [Jobs -> Int]
             /\ \A i \in Jobs \ {j} : nextRun'[i] = nextRun[i]
             /\ Reset(j)
  <2>1. now + delay \in Int /\ now + delay >= now
    BY <1>1, SchedulerAssumption
  <2>2. nextRun' = [nextRun EXCEPT ![j] = now + delay] /\ Move(j)
    BY <1>2 DEF From
  <2>3. QED
    BY <1>1, <1>2, <2>1, <2>2 DEF From, table, Reset
<1>3. ASSUME NEW c \in Rechains, Do(j, c)
      PROVE  /\ config' \in [Jobs -> JobConfigs \cup {None}] /\ config'[j] # None
             /\ lastRun' \in [Jobs -> Int] /\ nextRun' \in [Jobs -> Int]
             /\ halted' \in Reasons \cup {"no"}
             /\ \A i \in Jobs \ {j} : /\ config'[i] = config[i]
                                       /\ lastRun'[i] = lastRun[i]
                                       /\ nextRun'[i] = nextRun[i]
             /\ lastRun'[j] = lastRun[j] \/ (lastRun[j] = Epoch /\ lastRun'[j] = now)
             /\ Reset(j)
  <2> DEFINE last == CountedFrom(j)
             new == Rechained(j, c)
  <2>1. /\ config' = [config EXCEPT ![j] = new]
        /\ lastRun' = [lastRun EXCEPT ![j] = last]
        /\ ScheduleNext(j, new.schedule, last, nextRun[j])
        /\ Move(j) /\ config[j] # None
    BY <1>3 DEF Do
  <2>2. new \in JobConfigs /\ new.schedule \in Schedules /\ new # None
    BY <2>1, RechainedFacts, SchedulerAssumption
  <2>3. last \in Int /\ (last = lastRun[j] \/ (lastRun[j] = Epoch /\ last = now))
    BY <1>1 DEF CountedFrom
  <2> HIDE DEF new, last
  <2>4. /\ nextRun' \in [Jobs -> Int]
        /\ halted' \in Reasons \cup {"no"}
        /\ \A i \in Jobs \ {j} : nextRun'[i] = nextRun[i]
        /\ halted' = "no" => nextRun'[j] >= now
    BY <1>1, <2>1, <2>2, <2>3, ScheduleNextFacts
  <2>5. QED
    BY <1>1, <2>1, <2>2, <2>3, <2>4 DEF Reset
<1>4. ASSUME NEW c \in Rechains, Amend(j, c)
      PROVE  /\ config' \in [Jobs -> JobConfigs \cup {None}] /\ config'[j] # None
             /\ \A i \in Jobs \ {j} : config'[i] = config[i]
             /\ Amended(j)
  <2> DEFINE new == Rechained(j, c)
             kept == [config[j] EXCEPT !.schedule = new.schedule, !.lock = new.lock]
  <2>1. config[j] # None /\ config' = [config EXCEPT ![j] = kept]
    BY <1>1, <1>4 DEF Amend
  <2>2. /\ new \in JobConfigs /\ new.schedule \in Schedules /\ config[j] \in JobConfigs
        /\ config[j].lock => new.lock
    BY <2>1, RechainedFacts, ConfigFacts
  <2> HIDE DEF new
  <2>3. /\ kept \in JobConfigs /\ kept.task = config[j].task
        /\ config[j].lock => kept.lock
    BY <2>2 DEF JobConfigs
  <2>4. kept # None
    BY <2>3, SchedulerAssumption
  <2> HIDE DEF kept
  <2>5. config'[j] = kept
    BY <1>1, <2>1
  <2>6. QED
    BY <1>1, <1>4, <2>1, <2>3, <2>4, <2>5 DEF Amend, Amended, history
<1>5. /\ MayUse /\ config[j] # None
      /\ UNCHANGED <<now, jobs, batchVars, cur, loopVars, unrun, strays>>
  <2>1. Rebuild
    BY DEF Rebuild, Rebuilt
  <2>2. ASSUME NEW c \in Rechains, Do(j, c) \/ Amend(j, c) PROVE config[j] # None
    BY <2>2 DEF Do, Amend
  <2>3. ASSUME NEW delay \in Shifts, From(j, delay) PROVE config[j] # None
    BY <2>3 DEF From
  <2>4. QED
    BY <2>1, <2>2, <2>3, RebuildFrame DEF Rebuilt
<1>6. CASE \E delay \in Shifts : From(j, delay)
  BY <1>1, <1>2, <1>5, <1>6
<1>7. CASE \E c \in Rechains : Do(j, c)
  BY <1>3, <1>5, <1>7
<1>8. CASE \E c \in Rechains : Amend(j, c)
  BY <1>1, <1>4, <1>5, <1>8 DEF Amended, times
<1>9. QED
  BY <1>6, <1>7, <1>8 DEF Rebuilt

LEMMA RebuildPreserves == IInv /\ Rebuild => IInv'
<1> SUFFICES ASSUME IInv, NEW j \in Jobs, Rebuilt(j) PROVE IInv'
  BY DEF Rebuild, Rebuilt
<1>1. /\ config[j] # None /\ config'[j] # None
      /\ UNCHANGED <<now, jobs, batchVars, cur, loopVars, unrun, strays>>
      /\ config' \in [Jobs -> JobConfigs \cup {None}]
      /\ lastRun' \in [Jobs -> Int] /\ nextRun' \in [Jobs -> Int]
      /\ halted' \in Reasons \cup {"no"}
      /\ \A i \in Jobs \ {j} : config'[i] = config[i] /\ nextRun'[i] = nextRun[i]
      /\ Reset(j) \/ Amended(j)
  BY RebuiltFacts DEF IInv
<1>2. /\ moved \subseteq moved' /\ moved' \subseteq Jobs
      /\ mode = "pending" => j \in moved' \/ nextRun'[j] = nextRun[j]
  BY <1>1 DEF Reset, Amended, Move, times, IInv, TypeOK
<1>3. TypeOK'
  BY <1>1, <1>2 DEF IInv, TypeOK, batchVars, loopVars
<1>4. InTable' = InTable /\ batch' = batch /\ mode' = mode /\ cur' = cur /\ now' = now
  BY <1>1 DEF InTable, batchVars
<1>5. \A i \in Jobs : config[i] # None => config'[i] # None
  BY <1>1
<1>6. InTable \subseteq Jobs /\ Range(batch) \subseteq Jobs /\ cur \in Jobs \cup {None}
  BY RangeOfSeq DEF IInv, TypeOK, InTable
<1>7. TableSound' /\ CallSound' /\ BatchSound'
  BY <1>1, <1>4, <1>5, <1>6 DEF IInv, TableSound, CallSound, BatchSound
<1>8. StraysGone'
  BY <1>1, <1>4, <1>5 DEF IInv, StraysGone
<1>9. BatchDue'
  <2>1. CASE mode = "pending"
    <3>1. \A i \in Range(batch) : i # cur /\ (nextRun'[i] = nextRun[i] \/ i \in moved')
      BY <1>1, <1>2, <1>6, <2>1 DEF IInv, BatchDue
    <3>2. batch' \in Seq(Jobs) /\ now' >= now
      BY <1>4 DEF IInv, TypeOK
    <3>3. QED
      BY <1>2, <1>3, <1>4, <3>1, <3>2, DueStays DEF IInv
  <2>2. CASE mode # "pending"
    BY <1>4, <2>2 DEF BatchDue
  <2>3. QED
    BY <2>1, <2>2
<1>10. QED
  BY <1>3, <1>7, <1>8, <1>9 DEF IInv

LEMMA RemovePreserves ==
  ASSUME IInv, NEW matching, RemoveByCondition(matching)
  PROVE  IInv'
<1>1. jobs \in Seq(Jobs) /\ IsInjective(jobs)
  BY DEF IInv, TypeOK, TableSound
<1>2. PICK k \in 1 .. Len(jobs) : jobs' = Without(jobs, k)
  BY DEF RemoveByCondition
<1>3. jobs' \in Seq(Jobs) /\ Range(jobs') \subseteq InTable /\ IsInjective(jobs')
  BY <1>1, <1>2, WithoutFacts DEF InTable
<1>4. TypeOK'
  BY <1>3 DEF RemoveByCondition, IInv, TypeOK, times, batchVars, loopVars, history
<1>5. QED
  BY <1>3, <1>4, ShrinkTable DEF RemoveByCondition, history

LEMMA ClearPreserves == IInv /\ Clear => IInv'
<1> SUFFICES ASSUME IInv, Clear PROVE IInv'
  OBVIOUS
<1>1. jobs' \in Seq(Jobs) /\ Range(jobs') \subseteq InTable /\ IsInjective(jobs')
  BY EmptyRange DEF Clear
<1>2. TypeOK'
  BY <1>1 DEF Clear, IInv, TypeOK, times, batchVars, loopVars, history
<1>3. QED
  BY <1>1, <1>2, ShrinkTable DEF Clear, history

LEMMA NextRunPreserves == IInv /\ NextRun => IInv'
<1> SUFFICES ASSUME IInv, NextRun PROVE IInv'
  OBVIOUS
<1>1. jobs' \in Seq(Jobs) /\ Range(jobs') \subseteq InTable /\ IsInjective(jobs')
  BY SortedTableFacts DEF NextRun, IInv, TypeOK, TableSound
<1>2. TypeOK'
  BY <1>1 DEF NextRun, IInv, TypeOK, times, batchVars, loopVars, history
<1>3. QED
  BY <1>1, <1>2, ShrinkTable DEF NextRun, history

(* getRunnableJobs takes exactly the due jobs: the sort puts them first,   *)
(* because it compares the seconds that shouldRun compares.                *)
LEMMA TakeRunnableFacts ==
  ASSUME TypeOK, TakeRunnable
  PROVE  /\ jobs' \in Seq(Jobs) /\ Range(jobs') = InTable
         /\ IsInjective(jobs) => IsInjective(jobs') /\ IsInjective(batch')
         /\ batch' \in Seq(Jobs)
         /\ Range(batch') = { j \in InTable : ShouldRun(j) }
<1>1. /\ jobs' \in Seq(Jobs) /\ Len(jobs') = Len(jobs) /\ Range(jobs') = InTable
      /\ IsInjective(jobs) => IsInjective(jobs')
      /\ \A i, k \in 1 .. Len(jobs') :
           i < k => Unix(nextRun[jobs'[i]]) <= Unix(nextRun[jobs'[k]])
  BY SortedTableFacts DEF TakeRunnable, TypeOK
<1>2. PICK n \in 0 .. Len(jobs') :
        /\ \A i \in 1 .. n : ShouldRun(jobs'[i])
        /\ n < Len(jobs') => ~ShouldRun(jobs'[n + 1])
        /\ batch' = SubSeq(jobs', 1, n)
  BY <1>1 DEF TakeRunnable
<1>3. /\ batch' \in Seq(Jobs)
      /\ Range(batch') = { jobs'[i] : i \in 1 .. n }
      /\ IsInjective(jobs') => IsInjective(batch')
  BY <1>1, <1>2, PrefixFacts
<1>4. InTable = { jobs'[i] : i \in 1 .. Len(jobs') }
  BY <1>1, RangeOfSeq
<1>5. Len(jobs') \in Nat /\ \A i \in 1 .. Len(jobs') : jobs'[i] \in Jobs
  BY <1>1
<1>6. ASSUME NEW i \in 1 .. Len(jobs'), ShouldRun(jobs'[i])
      PROVE  i \in 1 .. n
  <2>1. SUFFICES ASSUME n < i PROVE FALSE
    BY <1>5
  <2>2. n < Len(jobs') /\ n + 1 \in 1 .. Len(jobs')
    BY <1>5, <2>1
  <2>3. ~ShouldRun(jobs'[n + 1])
    BY <1>2, <2>2
  <2>4. Unix(nextRun[jobs'[n + 1]]) <= Unix(nextRun[jobs'[i]])
    <3>1. CASE n + 1 = i
      BY <1>6, <2>3, <3>1
    <3>2. CASE n + 1 < i
      BY <1>1, <2>2, <3>2
    <3>3. QED
      BY <1>5, <2>1, <3>1, <3>2
  <2>5. \A t \in Int : Unix(t) \in Int
    BY TicksAssumption, DivisionBounds DEF Unix
  <2>6. /\ nextRun[jobs'[n + 1]] \in Int /\ nextRun[jobs'[i]] \in Int /\ now \in Int
    BY <1>5, <2>2 DEF TypeOK
  <2>7. /\ Unix(nextRun[jobs'[n + 1]]) \in Int
        /\ Unix(nextRun[jobs'[i]]) \in Int /\ Unix(now) \in Int
    BY <2>5, <2>6
  <2>8. QED
    BY <1>6, <2>3, <2>4, <2>7 DEF ShouldRun
<1>7. Range(batch') = { j \in InTable : ShouldRun(j) }
  <2>1. \A i \in 1 .. n : i \in 1 .. Len(jobs')
    BY <1>5
  <2>2. QED
    BY <1>2, <1>3, <1>4, <1>6, <2>1
<1>8. QED
  BY <1>1, <1>3, <1>7

LEMMA TakeRunnablePreserves ==
  ASSUME IInv, TypeOK', mode = "none", TakeRunnable,
         UNCHANGED <<now, config, times, cur>>
  PROVE  IInv'
<1>1. /\ Range(jobs') = InTable /\ IsInjective(jobs') /\ IsInjective(batch')
      /\ batch' \in Seq(Jobs)
      /\ Range(batch') = { j \in InTable : ShouldRun(j) }
  BY TakeRunnableFacts DEF IInv, TableSound
<1>2. cur = None /\ mode' = "pending" /\ strays' = strays
  BY DEF IInv, CallSound, TakeRunnable, history
<1>3. InTable' = InTable
  BY <1>1 DEF InTable
<1>4. TableSound'
  BY <1>1, <1>3 DEF IInv, TableSound
<1>5. BatchDue'
  <2>1. \A j \in Range(batch') : ShouldRun(j)' /\ j # cur'
    <3>1. SUFFICES ASSUME NEW j \in Range(batch') PROVE ShouldRun(j)' /\ j # None
      BY <1>2
    <3>2. j \in Jobs
      BY <1>1, RangeOfSeq
    <3>3. j # None
      BY <3>2, SchedulerAssumption
    <3>4. QED
      BY <1>1, <3>3 DEF ShouldRun, times
  <2>2. QED
    BY <1>1, <2>1 DEF BatchDue
<1>6. CallSound' /\ BatchSound'
  BY <1>1, <1>2 DEF IInv, CallSound, BatchSound, TableSound
<1>7. StraysGone'
  BY <1>1, <1>2, <1>3 DEF IInv, StraysGone
<1>8. QED
  BY <1>4, <1>5, <1>6, <1>7 DEF IInv

LEMMA RunPendingPreserves == IInv /\ RunPending => IInv'
<1> SUFFICES ASSUME IInv, RunPending PROVE IInv'
  OBVIOUS
<1>1. jobs' \in Seq(Jobs) /\ batch' \in Seq(Jobs)
  BY TakeRunnableFacts DEF IInv, RunPending
<1>2. TypeOK'
  BY <1>1 DEF RunPending, TakeRunnable, IInv, TypeOK, times, loopVars, history
<1>3. QED
  BY <1>2, TakeRunnablePreserves DEF RunPending, Idle

LEMMA LoopTickPreserves == IInv /\ LoopTick => IInv'
<1> SUFFICES ASSUME IInv, LoopTick PROVE IInv'
  OBVIOUS
<1>1. jobs' \in Seq(Jobs) /\ batch' \in Seq(Jobs)
  BY TakeRunnableFacts DEF IInv, LoopTick
<1>2. TypeOK'
  BY <1>1 DEF LoopTick, TakeRunnable, IInv, TypeOK, times, history
<1>3. QED
  BY <1>2, TakeRunnablePreserves DEF LoopTick

(* Steps of the loop and the clock, and the ways a program is gone. *)
LEMMA QuietActions ==
  ASSUME IInv,
         \/ TableFull \/ CallPanics \/ Start \/ Stop \/ LoopStop \/ TimePasses
         \/ \E f \in Tasks : Scheduled(f)
         \/ \E j \in Jobs : NoFuncPanics(j)
  PROVE  IInv'
<1>1. CASE TableFull
  <2>1. TypeOK'
    BY <1>1 DEF TableFull, IInv, TypeOK, Reasons, table, times, batchVars, loopVars, history
  <2>2. QED
    BY <1>1, <2>1, StillStep DEF TableFull, times, history
<1>2. CASE CallPanics
  <2>1. TypeOK'
    BY <1>2 DEF CallPanics, IInv, TypeOK, Reasons, table, times, batchVars, loopVars, history
  <2>2. QED
    BY <1>2, <2>1, StillStep DEF CallPanics, times, history
<1>3. CASE Start
  <2>1. TypeOK'
    BY <1>3 DEF Start, IInv, TypeOK, table, times, batchVars, history
  <2>2. QED
    BY <1>3, <2>1, StillStep DEF Start, times, history
<1>4. CASE Stop
  <2>1. TypeOK'
    BY <1>4 DEF Stop, IInv, TypeOK, table, times, batchVars, history
  <2>2. QED
    BY <1>4, <2>1, StillStep DEF Stop, times, history
<1>5. CASE LoopStop
  <2>1. TypeOK'
    BY <1>5 DEF LoopStop, IInv, TypeOK, table, times, batchVars, history
  <2>2. QED
    BY <1>5, <2>1, StillStep DEF LoopStop, times, history
<1>6. CASE TimePasses
  <2>1. now' \in Nat /\ now' >= now /\ tick' \in BOOLEAN
    BY <1>6 DEF TimePasses, IInv, TypeOK
  <2>2. TypeOK'
    BY <1>6, <2>1 DEF TimePasses, IInv, TypeOK, table, times, batchVars, history
  <2>3. QED
    BY <1>6, <2>1, <2>2, QuietStep DEF TimePasses, times, history
<1>7. ASSUME NEW f \in Tasks, Scheduled(f) PROVE IInv'
  <2>1. TypeOK'
    BY <1>7 DEF Scheduled, IInv, TypeOK, Reasons, table, times, batchVars, loopVars, history
  <2>2. QED
    BY <1>7, <2>1, StillStep DEF Scheduled, times, history
<1>8. ASSUME NEW j \in Jobs, NoFuncPanics(j) PROVE IInv'
  <2>1. lastRun' \in [Jobs -> Int]
    BY <1>8 DEF NoFuncPanics, IInv, TypeOK
  <2>2. TypeOK'
    BY <1>8, <2>1 DEF NoFuncPanics, IInv, TypeOK, Reasons, table, batchVars, loopVars, history
  <2>3. QED
    BY <1>8, <2>2, StillStep DEF NoFuncPanics, history
<1>9. QED
  BY <1>1, <1>2, <1>3, <1>4, <1>5, <1>6, <1>7, <1>8

LEMMA RunAllPreserves == IInv /\ RunAll => IInv'
<1> SUFFICES ASSUME IInv, RunAll PROVE IInv'
  OBVIOUS
<1>1. InTable \subseteq Jobs
  BY RangeOfSeq DEF IInv, TypeOK, InTable
<1>2. TypeOK'
  BY <1>1 DEF RunAll, IInv, TypeOK, table, times, loopVars
<1>3. batch' = <<>> /\ mode' = "all" /\ cur' = None
  BY DEF RunAll, Idle, IInv, BatchSound
<1>4. TableSound' /\ BatchDue' /\ CallSound'
  BY <1>3 DEF RunAll, IInv, TableSound, BatchDue, CallSound, InTable, table
<1>5. BatchSound' /\ StraysGone'
  BY <1>3, EmptyRange DEF RunAll, IInv, BatchSound, StraysGone, InTable, table
<1>6. QED
  BY <1>2, <1>4, <1>5 DEF IInv

LEMMA FinishPreserves == IInv /\ Finish => IInv'
<1> SUFFICES ASSUME IInv, Finish PROVE IInv'
  OBVIOUS
<1>1. TypeOK'
  BY DEF Finish, IInv, TypeOK, table, times, loopVars
<1>2. batch' = <<>> /\ mode' = "none" /\ cur' = None
  BY DEF Finish, IInv, BatchSound
<1>3. TableSound' /\ BatchDue' /\ CallSound'
  BY <1>2 DEF Finish, IInv, TableSound, BatchDue, CallSound, InTable, table
<1>4. BatchSound' /\ StraysGone'
  BY <1>2, EmptyRange DEF Finish, IInv, BatchSound, StraysGone, InTable, table
<1>5. QED
  BY <1>1, <1>3, <1>4 DEF IInv

(* The job about to be run is a configured job, in the batch or in the     *)
(* table, and the rest of the batch does without it.                       *)
LEMMA MovePastFacts ==
  ASSUME IInv, NEW j \in Jobs, Upcoming(j), MovePast(j)
  PROVE  /\ mode # "none" /\ cur = None /\ config[j] # None
         /\ batch' \in Seq(Jobs) /\ pos' \in Nat \ {0} /\ unrun' \subseteq Jobs
         /\ Range(batch') \subseteq Range(batch)
         /\ IsInjective(batch) => IsInjective(batch')
         /\ j \notin Range(batch')
         /\ j \in InTable \/ strays[j] = 0
         /\ mode # "pending" => batch' = <<>>
<1>1. /\ batch \in Seq(Jobs) /\ jobs \in Seq(Jobs) /\ pos \in Nat \ {0}
      /\ unrun \subseteq Jobs /\ mode \in {"none", "pending", "all"}
  BY DEF IInv, TypeOK
<1>2. pos' \in Nat \ {0} /\ unrun' \subseteq Jobs /\ cur = None /\ mode # "none"
  BY <1>1 DEF MovePast, Upcoming
<1>3. CASE mode = "pending"
  <2>1. batch # <<>> /\ j = Head(batch) /\ batch' = Tail(batch)
    BY <1>3 DEF Upcoming, MovePast
  <2>2. IsInjective(batch)
    BY <1>3 DEF IInv, BatchDue
  <2>3. /\ j \in Range(batch) /\ batch' \in Seq(Jobs)
        /\ Range(batch') \subseteq Range(batch)
        /\ IsInjective(batch') /\ j \notin Range(batch')
    BY <1>1, <2>1, <2>2, TailFacts
  <2>4. config[j] # None /\ strays[j] = 0
    BY <2>3 DEF IInv, BatchSound, StraysGone
  <2>5. QED
    BY <1>2, <1>3, <2>3, <2>4
<1>4. CASE mode = "all"
  <2>1. pos <= Len(jobs) /\ j = jobs[pos] /\ batch' = batch
    BY <1>4 DEF Upcoming, MovePast
  <2>2. j \in InTable
    BY <1>1, <2>1, RangeOfSeq DEF InTable
  <2>3. batch = <<>>
    BY <1>4 DEF IInv, BatchSound
  <2>4. config[j] # None
    BY <2>2 DEF IInv, TableSound
  <2>5. QED
    BY <1>1, <1>2, <1>4, <2>1, <2>2, <2>3, <2>4, EmptyRange
<1>5. QED
  BY <1>1, <1>2, <1>3, <1>4

(* What every step that moves past a job keeps. *)
LEMMA MovePastPreserves ==
  ASSUME IInv, TypeOK', NEW j \in Jobs, Upcoming(j), MovePast(j),
         cur' \in {None, j},
         \A i \in Jobs \ {j} : nextRun'[i] = nextRun[i],
         CountStray(j) \/ strays' = strays,
         UNCHANGED <<now, table, mode, moved>>
  PROVE  IInv'
<1>1. /\ mode # "none" /\ config[j] # None
      /\ batch' \in Seq(Jobs)
      /\ Range(batch') \subseteq Range(batch)
      /\ IsInjective(batch) => IsInjective(batch')
      /\ j \notin Range(batch')
      /\ j \in InTable \/ strays[j] = 0
      /\ mode # "pending" => batch' = <<>>
  BY MovePastFacts
<1>2. jobs' = jobs /\ config' = config /\ InTable' = InTable
  BY DEF table, InTable
<1>3. TableSound'
  BY <1>2 DEF IInv, TableSound
<1>4. BatchDue'
  <2>1. \A i \in Range(batch') : i \in Jobs /\ i # None
    BY <1>1, RangeOfSeq, SchedulerAssumption
  <2>2. \A i \in Range(batch') : nextRun'[i] = nextRun[i] /\ i # cur'
    BY <1>1, <2>1
  <2>3. now' >= now
    BY DEF IInv, TypeOK
  <2>4. QED
    BY <1>1, <2>2, <2>3, DueStays DEF IInv
<1>5. CallSound' /\ BatchSound'
  BY <1>1, <1>2, EmptyRange DEF IInv, CallSound, BatchSound
<1>6. StraysGone'
  <2>1. SUFFICES ASSUME NEW i \in Jobs
                 PROVE  /\ strays'[i] \in {0, 1}
                        /\ strays'[i] = 1 => /\ i \notin InTable
                                             /\ i \notin Range(batch')
                                             /\ config[i] # None
    BY <1>2 DEF StraysGone
  <2>2. strays \in [Jobs -> Nat]
    BY DEF IInv, TypeOK
  <2>3. CASE strays' = strays
    BY <1>1, <2>3 DEF IInv, StraysGone
  <2>4. CASE j \notin InTable /\ strays' = [strays EXCEPT ![j] = @ + 1]
    <3>1. CASE i = j
      BY <1>1, <2>2, <2>4, <3>1
    <3>2. CASE i # j
      <4>1. strays'[i] = strays[i]
        BY <2>2, <2>4, <3>2
      <4>2. QED
        BY <1>1, <4>1 DEF IInv, StraysGone
    <3>3. QED
      BY <3>1, <3>2
  <2>5. QED
    BY <2>3, <2>4 DEF CountStray
<1>7. QED
  BY <1>3, <1>4, <1>5, <1>6 DEF IInv

LEMMA RunStartPreserves == ASSUME IInv, NEW j \in Jobs, RunStart(j) PROVE IInv'
<1>1. Upcoming(j) /\ MovePast(j) /\ CountStray(j)
  BY DEF RunStart
<1>2. batch' \in Seq(Jobs) /\ pos' \in Nat \ {0} /\ unrun' \subseteq Jobs
  BY <1>1, MovePastFacts
<1>3. strays' \in [Jobs -> Nat]
  BY <1>1 DEF CountStray, IInv, TypeOK
<1>4. lastRun' \in [Jobs -> Int]
  BY DEF RunStart, IInv, TypeOK
<1>5. TypeOK'
  BY <1>2, <1>3, <1>4 DEF RunStart, IInv, TypeOK, table, loopVars
<1>6. QED
  BY <1>1, <1>5, MovePastPreserves DEF RunStart

LEMMA RunRefusedPreserves == ASSUME IInv, NEW j \in Jobs, RunRefused(j) PROVE IInv'
<1>1. Upcoming(j) /\ MovePast(j) /\ strays' = strays /\ cur' = None
  BY DEF RunRefused, Upcoming
<1>2. batch' \in Seq(Jobs) /\ pos' \in Nat \ {0} /\ unrun' \subseteq Jobs
  BY <1>1, MovePastFacts
<1>3. TypeOK'
  BY <1>2 DEF RunRefused, IInv, TypeOK, table, times, loopVars
<1>4. QED
  BY <1>1, <1>3, MovePastPreserves DEF RunRefused, times

LEMMA RunMismatchedPreserves == ASSUME IInv, NEW j \in Jobs, RunMismatched(j) PROVE IInv'
<1>1. /\ Upcoming(j) /\ MovePast(j) /\ strays' = strays /\ cur' = None
      /\ ScheduleNext(j, config[j].schedule, now, nextRun[j])
  BY DEF RunMismatched, Upcoming
<1>2. /\ batch' \in Seq(Jobs) /\ pos' \in Nat \ {0} /\ unrun' \subseteq Jobs
      /\ config[j] # None
  BY <1>1, MovePastFacts
<1>3. config[j].schedule \in Schedules /\ now \in Int /\ nextRun[j] \in Int
  BY <1>2, ConfigFacts DEF IInv, TypeOK
<1>4. /\ nextRun' \in [Jobs -> Int]
      /\ halted' \in Reasons \cup {"no"}
      /\ \A i \in Jobs \ {j} : nextRun'[i] = nextRun[i]
  BY <1>1, <1>3, ScheduleNextFacts DEF IInv
<1>5. lastRun' \in [Jobs -> Int]
  BY DEF RunMismatched, IInv, TypeOK
<1>6. TypeOK'
  BY <1>2, <1>4, <1>5 DEF RunMismatched, IInv, TypeOK, table, loopVars
<1>7. QED
  BY <1>1, <1>4, <1>6, MovePastPreserves DEF RunMismatched

(* run reschedules the job whose function returned, and no other. *)
LEMMA CallReturnFacts ==
  ASSUME IInv, CallReturn
  PROVE  /\ cur \in Jobs
         /\ nextRun' \in [Jobs -> Int]
         /\ halted' \in Reasons \cup {"no"}
         /\ \A i \in Jobs \ {cur} : nextRun'[i] = nextRun[i]
         /\ halted' = "no" => nextRun'[cur] >= now
<1>1. cur \in Jobs /\ config[cur] # None
  BY DEF CallReturn, IInv, TypeOK, CallSound
<1>2. /\ config[cur].schedule \in Schedules
      /\ lastRun[cur] \in Int /\ nextRun[cur] \in Int
  BY <1>1, ConfigFacts DEF IInv, TypeOK
<1>3. ScheduleNext(cur, config[cur].schedule, lastRun[cur], nextRun[cur])
  BY DEF CallReturn
<1>4. QED
  BY <1>1, <1>2, <1>3, ScheduleNextFacts DEF IInv

LEMMA CallReturnPreserves == IInv /\ CallReturn => IInv'
<1> SUFFICES ASSUME IInv, CallReturn PROVE IInv'
  OBVIOUS
<1>1. /\ cur \in Jobs
      /\ nextRun' \in [Jobs -> Int]
      /\ halted' \in Reasons \cup {"no"}
      /\ \A i \in Jobs \ {cur} : nextRun'[i] = nextRun[i]
  BY CallReturnFacts
<1>2. /\ UNCHANGED <<now, table, batchVars, strays, moved>> /\ cur' = None
      /\ jobs' = jobs /\ config' = config /\ batch' = batch /\ mode' = mode
  BY DEF CallReturn, table, batchVars, history
<1>3. TypeOK'
  BY <1>1, <1>2 DEF CallReturn, IInv, TypeOK, table, batchVars, loopVars, history
<1>4. BatchDue'
  <2>1. SUFFICES ASSUME mode = "pending" PROVE BatchDue'
    BY <1>2 DEF BatchDue
  <2>2. \A i \in Range(batch) : i \in Jobs /\ i # cur /\ i # None
    BY <2>1, RangeOfSeq, SchedulerAssumption DEF IInv, TypeOK, BatchDue
  <2>3. \A i \in Range(batch) : nextRun'[i] = nextRun[i]
    BY <1>1, <2>2
  <2>4. QED
    BY <1>2, <2>2, <2>3 DEF IInv, BatchDue, ShouldRun
<1>5. TableSound' /\ CallSound'
  BY <1>2 DEF IInv, TableSound, CallSound, InTable
<1>6. BatchSound' /\ StraysGone'
  BY <1>2 DEF IInv, BatchSound, StraysGone, InTable
<1>7. QED
  BY <1>3, <1>4, <1>5, <1>6 DEF IInv

LEMMA StepPreserves == IInv /\ [Next]_vars => IInv'
<1> SUFFICES ASSUME IInv, [Next]_vars PROVE IInv'
  OBVIOUS
<1>1. CASE UNCHANGED vars
  <2>1. TypeOK'
    BY <1>1 DEF vars, IInv, TypeOK, table, times, batchVars, loopVars, history
  <2>2. QED
    BY <1>1, <2>1, StillStep DEF vars, times, history
<1>2. CASE Build
  BY <1>2, AddJobPreserves, AbandonedChainPreserves DEF Build
<1>3. CASE Rebuild
  BY <1>3, RebuildPreserves DEF Rebuild
<1>4. CASE Withdraw
  BY <1>4, RemovePreserves, ClearPreserves DEF Withdraw, Remove, RemoveByRef
<1>5. CASE NextRun
  BY <1>5, NextRunPreserves
<1>6. CASE RunPending \/ RunAll
  BY <1>6, RunPendingPreserves, RunAllPreserves
<1>7. CASE RunStep
  <2>1. ASSUME NEW j \in Jobs, NoFuncPanics(j) PROVE IInv'
    BY <2>1, QuietActions
  <2>2. QED
    BY <1>7, <2>1, RunStartPreserves, RunRefusedPreserves, RunMismatchedPreserves,
       FinishPreserves DEF RunStep
<1>8. CASE CallReturn
  BY <1>8, CallReturnPreserves
<1>9. CASE LoopTick
  BY <1>9, LoopTickPreserves
<1>10. CASE \/ TableFull \/ CallPanics \/ Start \/ Stop \/ LoopStop \/ TimePasses
           \/ \E f \in Tasks : Scheduled(f)
  BY <1>10, QuietActions
<1>11. QED
  BY <1>1, <1>2, <1>3, <1>4, <1>5, <1>6, <1>7, <1>8, <1>9, <1>10 DEF Next, ProgramStep

LEMMA Invariance == Spec => []IInv
BY InitEstablishes, StepPreserves, PTL DEF Spec

-----------------------------------------------------------------------------
(* The theorems. *)

(* The variables keep their types: in particular every job of the table    *)
(* and of a batch is a job, and every schedule an instant.                 *)
THEOREM TypeCorrect == Spec => []TypeOK
<1>1. IInv => TypeOK
  BY DEF IInv
<1>2. QED
  BY <1>1, Invariance, PTL

(* Sorting, the shift of removeByCondition and the builder never leave a   *)
(* job twice in the table (485-487, 532-538, 580-605).                     *)
THEOREM TableIsSound == Spec => []TableSound
<1>1. IInv => TableSound
  BY DEF IInv
<1>2. QED
  BY <1>1, Invariance, PTL

(* Whatever job functions do to the table and to jobs, what RunPending has *)
(* still to run is distinct, not running and due, but for the jobs they    *)
(* called From or Do on since the batch was taken: nothing else moves a    *)
(* job that waits in a batch (166-176, 341-344, 508-521, 541-549).         *)
THEOREM BatchIsDue == Spec => []BatchDue
<1>1. IInv => BatchDue
  BY DEF IInv
<1>2. QED
  BY <1>1, Invariance, PTL

(* A removed job runs at most once more (541-549, 580-605).                *)
THEOREM RemovedJobsStop == Spec => []RemovedRunsAtMostOnce
<1>1. IInv => RemovedRunsAtMostOnce
  BY DEF IInv, StraysGone, RemovedRunsAtMostOnce
<1>2. QED
  BY <1>1, Invariance, PTL

(* Only getRunnableJobs begins a batch of RunPending. *)
LEMMA PendingBegins ==
  ASSUME [Next]_vars, mode = "none", mode' = "pending"
  PROVE  TakeRunnable
<1>1. CASE UNCHANGED vars
  BY <1>1 DEF vars, batchVars
<1>2. CASE Build \/ Rebuild
  BY <1>2, RebuildFrame DEF Build, AddJob, AbandonedChain, batchVars
<1>3. CASE Withdraw
  BY <1>3 DEF Withdraw, Remove, RemoveByRef, RemoveByCondition, Clear, batchVars
<1>4. CASE NextRun
  BY <1>4 DEF NextRun, batchVars
<1>5. CASE RunPending \/ LoopTick
  BY <1>5 DEF RunPending, LoopTick
<1>6. CASE RunAll
  BY <1>6 DEF RunAll
<1>7. CASE RunStep
  BY <1>7 DEF RunStep, RunStart, RunRefused, RunMismatched, NoFuncPanics, Finish, batchVars
<1>8. CASE CallReturn \/ CallPanics \/ TableFull \/ \E f \in Tasks : Scheduled(f)
  BY <1>8 DEF CallReturn, CallPanics, TableFull, Scheduled, batchVars
<1>9. CASE Start \/ Stop \/ LoopStop \/ TimePasses
  BY <1>9 DEF Start, Stop, LoopStop, TimePasses, batchVars
<1>10. QED
  BY <1>1, <1>2, <1>3, <1>4, <1>5, <1>6, <1>7, <1>8, <1>9 DEF Next, ProgramStep

(* RunPending takes every due job and no other, although it stops at the   *)
(* first job of the sorted table that is not due (511-519).                *)
THEOREM AllDueAreTaken == Spec => RunPendingTakesAllDue
<1>1. IInv /\ [Next]_vars =>
        [mode = "none" /\ mode' = "pending" =>
           Range(batch') = { j \in InTable : ShouldRun(j) }]_vars
  <2>1. SUFFICES ASSUME IInv, [Next]_vars, mode = "none", mode' = "pending"
                 PROVE  Range(batch') = { j \in InTable : ShouldRun(j) }
    OBVIOUS
  <2>2. TakeRunnable
    BY <2>1, PendingBegins
  <2>3. QED
    BY <2>1, <2>2, TakeRunnableFacts DEF IInv
<1>2. QED
  BY <1>1, Invariance, PTL DEF Spec, RunPendingTakesAllDue

(* Only the return of a function ends its run. *)
LEMMA CallEnds ==
  ASSUME [Next]_vars, cur # None, cur' = None
  PROVE  CallReturn
<1>1. CASE UNCHANGED vars
  BY <1>1 DEF vars
<1>2. CASE Build
  BY <1>2 DEF Build, AddJob, AbandonedChain
<1>3. CASE Rebuild
  BY <1>3, RebuildFrame
<1>4. CASE Withdraw \/ NextRun
  BY <1>4 DEF Withdraw, Remove, RemoveByRef, RemoveByCondition, Clear, NextRun
<1>5. CASE RunPending \/ RunAll \/ LoopTick \/ RunStep
  BY <1>5 DEF RunPending, RunAll, LoopTick, RunStep, RunStart, RunRefused,
     RunMismatched, NoFuncPanics, Finish, Upcoming
<1>6. CASE CallPanics \/ TableFull \/ \E f \in Tasks : Scheduled(f)
  BY <1>6 DEF CallPanics, TableFull, Scheduled
<1>7. CASE Start \/ Stop \/ LoopStop \/ TimePasses
  BY <1>7 DEF Start, Stop, LoopStop, TimePasses
<1>8. QED
  BY <1>1, <1>2, <1>3, <1>4, <1>5, <1>6, <1>7 DEF Next, ProgramStep

(* However late it is, a job whose function has returned is left with no   *)
(* schedule in the past: missed runs collapse into one (321-324, 658-662). *)
THEOREM MissedRunsAreSkipped == Spec => MissedRunsCollapse
<1>1. IInv /\ [Next]_vars =>
        [cur # None /\ cur' = None => halted' # "no" \/ nextRun'[cur] >= now]_vars
  <2>1. SUFFICES ASSUME IInv, [Next]_vars, cur # None, cur' = None, halted' = "no"
                 PROVE  nextRun'[cur] >= now
    OBVIOUS
  <2>2. CallReturn
    BY <2>1, CallEnds
  <2>3. QED
    BY <2>1, <2>2, CallReturnFacts
<1>2. QED
  BY <1>1, Invariance, PTL DEF Spec, MissedRunsCollapse

(* removeByCondition takes the job it found, and no other, from the table. *)
LEMMA WithoutLosesOne ==
  ASSUME NEW s \in Seq(Jobs), NEW k \in 1 .. Len(s), NEW j \in Range(s) \ Range(Without(s, k))
  PROVE  j = s[k]
<1>1. PICK i \in 1 .. Len(s) : j = s[i]
  BY RangeOfSeq
<1>2. Without(s, k) = [m \in 1 .. Len(s) - 1 |-> IF m < k THEN s[m] ELSE s[m + 1]]
  BY DEF Without
<1>3. Range(Without(s, k)) = { Without(s, k)[m] : m \in 1 .. Len(s) - 1 }
  BY <1>2 DEF Range
<1>4. Len(s) \in Nat /\ i \in Int /\ k \in Int
  OBVIOUS
<1>5. ASSUME i < k PROVE FALSE
  <2>1. i \in 1 .. Len(s) - 1
    BY <1>4, <1>5
  <2>2. Without(s, k)[i] = s[i]
    BY <1>2, <1>5, <2>1
  <2>3. QED
    BY <1>1, <1>3, <2>1, <2>2
<1>6. ASSUME i > k PROVE FALSE
  <2>1. i - 1 \in 1 .. Len(s) - 1 /\ ~(i - 1 < k) /\ (i - 1) + 1 = i
    BY <1>4, <1>6
  <2>2. Without(s, k)[i - 1] = s[i]
    BY <1>2, <2>1
  <2>3. QED
    BY <1>1, <1>3, <2>1, <2>2
<1>7. QED
  BY <1>1, <1>4, <1>5, <1>6

(* A job leaves the table only when the table is cleared or when Remove or *)
(* RemoveByRef names it: no sort, shift or batch loses one (523-530,       *)
(* 580-605).                                                               *)
THEOREM NoJobIsLost == Spec => OnlyWithdrawnJobsLeave
<1>1. IInv /\ [Next]_vars =>
        [\A j \in InTable \ Range(jobs') : Clear \/ RemoveByRef(j) \/ Remove(JobFunc(j))]_vars
  <2>1. SUFFICES ASSUME IInv, [Next]_vars, NEW j \in InTable \ Range(jobs')
                 PROVE  Clear \/ RemoveByRef(j) \/ Remove(JobFunc(j))
    OBVIOUS
  <2>2. jobs \in Seq(Jobs) /\ TypeOK
    BY <2>1 DEF IInv, TypeOK
  <2>3. jobs' # jobs
    BY DEF InTable
  <2>4. ASSUME NEW matching, RemoveByCondition(matching) PROVE j \in matching
    <3>1. PICK k \in 1 .. Len(jobs) : jobs[k] \in matching /\ jobs' = Without(jobs, k)
      BY <2>4 DEF RemoveByCondition
    <3>2. j = jobs[k]
      BY <2>2, <3>1, WithoutLosesOne DEF InTable
    <3>3. QED
      BY <3>1, <3>2
  <2>5. ASSUME NEW f \in Tasks, Remove(f) PROVE Remove(JobFunc(j))
    <3>1. JobFunc(j) = f
      BY <2>4, <2>5 DEF Remove
    <3>2. QED
      BY <2>5, <3>1
  <2>6. ASSUME NEW i \in Jobs, RemoveByRef(i) PROVE RemoveByRef(j)
    <3>1. j = i
      BY <2>4, <2>6 DEF RemoveByRef
    <3>2. QED
      BY <2>6, <3>1
  <2>7. CASE Withdraw
    BY <2>5, <2>6, <2>7 DEF Withdraw
  <2>8. CASE Build
    <3>1. ASSUME NEW i \in Jobs, jobs' = Append(jobs, i) PROVE FALSE
      BY <2>1, <2>2, <3>1, AppendFacts DEF InTable
    <3>2. QED
      BY <2>8, <3>1 DEF Build, AddJob, AbandonedChain
  <2>9. CASE NextRun
    BY <2>2, <2>9, SortedTableFacts DEF NextRun
  <2>10. CASE RunPending \/ LoopTick
    BY <2>2, <2>10, TakeRunnableFacts DEF RunPending, LoopTick
  <2>11. CASE UNCHANGED vars \/ RunAll \/ CallReturn \/ CallPanics \/ TableFull
    BY <2>3, <2>11 DEF vars, RunAll, CallReturn, CallPanics, TableFull, table
  <2>12. CASE RunStep
    BY <2>3, <2>12 DEF RunStep, RunStart, RunRefused, RunMismatched, NoFuncPanics, Finish, table
  <2>13. CASE Rebuild
    BY <2>3, <2>13, RebuildFrame
  <2>14. CASE Start \/ Stop \/ LoopStop \/ TimePasses \/ \E f \in Tasks : Scheduled(f)
    BY <2>3, <2>14 DEF Start, Stop, LoopStop, TimePasses, Scheduled, table
  <2>15. QED
    BY <2>1, <2>7, <2>8, <2>9, <2>10, <2>11, <2>12, <2>13, <2>14
       DEF Next, ProgramStep
<1>2. QED
  BY <1>1, Invariance, PTL DEF Spec, OnlyWithdrawnJobsLeave

-----------------------------------------------------------------------------
(* When a run repeats. *)

(* The function RunPending is running was due when it was called, and is   *)
(* not rescheduled before it returns, unless a function moved it.          *)
RunDue ==
  mode = "pending" /\ cur # None /\ cur \notin moved =>
    lastRun[cur] <= now /\ Unix(nextRun[cur]) <= Unix(lastRun[cur])

LEMMA RunDueKept ==
  ASSUME IInv, RunDue, [Next]_vars
  PROVE  RunDue'
<1>1. now \in Nat /\ lastRun \in [Jobs -> Int] /\ nextRun \in [Jobs -> Int]
  BY DEF IInv, TypeOK
<1>2. CASE Build
  <2>1. PICK j \in Jobs, c \in Configs, delay \in FromDelays :
          AddJob(j, c, delay) \/ AbandonedChain(j, c, delay)
    BY <1>2 DEF Build
  <2>2. cur # None => cur \in Jobs \ {j}
    BY <2>1 DEF IInv, TypeOK, CallSound, AddJob, AbandonedChain
  <2>3. mode' = mode /\ cur' = cur /\ now' = now /\ moved' = moved
    BY <2>1 DEF AddJob, AbandonedChain, batchVars, history
  <2>4. \A i \in Jobs \ {j} : lastRun'[i] = lastRun[i] /\ nextRun'[i] = nextRun[i]
    BY <1>1, <2>1 DEF AddJob, AbandonedChain, ScheduleNext
  <2>5. QED
    BY <2>2, <2>3, <2>4 DEF RunDue
<1>3. CASE Rebuild
  <2>1. PICK j \in Jobs : Rebuilt(j)
    BY <1>3 DEF Rebuild, Rebuilt
  <2>2. /\ now' = now /\ cur' = cur /\ mode' = mode
        /\ \A i \in Jobs \ {j} : lastRun'[i] = lastRun[i] /\ nextRun'[i] = nextRun[i]
        /\ Reset(j) \/ Amended(j)
    BY <2>1, RebuiltFacts DEF IInv, batchVars
  <2>3. cur # None => cur \in Jobs
    BY DEF IInv, TypeOK
  <2>4. CASE Amended(j)
    BY <2>2, <2>4 DEF Amended, times, RunDue
  <2>5. CASE Reset(j)
    BY <2>2, <2>3, <2>5 DEF Reset, Move, RunDue
  <2>6. QED
    BY <2>2, <2>4, <2>5
<1>4. ASSUME NEW j \in Jobs, RunStart(j) PROVE RunDue'
  <2>1. SUFFICES ASSUME mode = "pending", j \notin moved
                 PROVE  lastRun'[j] <= now /\ Unix(nextRun[j]) <= Unix(lastRun'[j])
    BY <1>4 DEF RunStart, RunDue
  <2>2. lastRun'[j] = now
    BY <1>1, <1>4 DEF RunStart
  <2>3. j \in Range(batch)
    <3>1. batch \in Seq(Jobs)
      BY DEF IInv, TypeOK
    <3>2. batch # <<>> /\ j = Head(batch)
      BY <1>4, <2>1 DEF RunStart, Upcoming
    <3>3. QED
      BY <3>1, <3>2, TailFacts
  <2>4. ShouldRun(j)
    BY <2>1, <2>3 DEF IInv, BatchDue
  <2>5. Unix(now) \in Int /\ Unix(nextRun[j]) \in Int
    BY <1>1, TicksAssumption, DivisionBounds DEF Unix
  <2>6. QED
    BY <1>1, <2>2, <2>4, <2>5 DEF ShouldRun
<1>5. ASSUME NEW j \in Jobs, RunRefused(j) \/ RunMismatched(j) \/ NoFuncPanics(j)
      PROVE  RunDue'
  BY <1>5 DEF RunRefused, RunMismatched, NoFuncPanics, Upcoming, RunDue
<1>6. CASE RunPending \/ RunAll \/ LoopTick
  <2>1. cur = None /\ cur' = cur
    BY <1>6 DEF RunPending, RunAll, LoopTick, Idle, IInv, CallSound
  <2>2. QED
    BY <2>1 DEF RunDue
<1>7. CASE CallReturn \/ Finish
  BY <1>7 DEF CallReturn, Finish, RunDue
<1>8. CASE TimePasses
  <2>1. now' >= now
    BY <1>1, <1>8 DEF TimePasses
  <2>2. cur # None => lastRun[cur] \in Int
    BY <1>1 DEF IInv, TypeOK
  <2>3. QED
    BY <1>1, <1>8, <2>1, <2>2 DEF TimePasses, times, batchVars, history, RunDue
<1>9. CASE \/ UNCHANGED vars \/ Withdraw \/ NextRun \/ CallPanics \/ TableFull
           \/ \E f \in Tasks : Scheduled(f)
  BY <1>9 DEF vars, Withdraw, Remove, RemoveByRef, RemoveByCondition, Clear, NextRun,
     CallPanics, TableFull, Scheduled, times, batchVars, history, RunDue
<1>10. CASE Start \/ Stop \/ LoopStop
  BY <1>10 DEF Start, Stop, LoopStop, times, batchVars, history, RunDue
<1>11. QED
  BY <1>2, <1>3, <1>4, <1>5, <1>6, <1>7, <1>8, <1>9, <1>10 DEF Next, ProgramStep, RunStep

LEMMA RunDueAlways == Spec => []RunDue
<1>1. Init => RunDue
  BY DEF Init, RunDue
<1>2. IInv /\ RunDue /\ [Next]_vars => RunDue'
  BY RunDueKept
<1>3. QED
  BY <1>1, <1>2, Invariance, PTL DEF Spec

(* A run of RunPending that leaves its job due at the same instant was one *)
(* that began and ended in the second of that instant and not after it, or *)
(* a function called From or Do on the job: nothing else makes a job       *)
(* repeat (113, 301-324, 341-344, 487, 511).                               *)
THEOREM RepeatsAreEarly == Spec => OnlyEarlyRunsRepeat
<1>1. IInv /\ RunDue /\ [Next]_vars =>
        [cur # None /\ cur' = None /\ mode = "pending" =>
           \/ halted' # "no"
           \/ nextRun'[cur] # nextRun[cur]
           \/ cur \in moved
           \/ now <= nextRun[cur] /\ Unix(lastRun[cur]) = Unix(nextRun[cur])]_vars
  <2>1. SUFFICES ASSUME IInv, RunDue, [Next]_vars, cur # None, cur' = None,
                        mode = "pending", halted' = "no", nextRun'[cur] = nextRun[cur],
                        cur \notin moved
                 PROVE  now <= nextRun[cur] /\ Unix(lastRun[cur]) = Unix(nextRun[cur])
    OBVIOUS
  <2>2. CallReturn
    BY <2>1, CallEnds
  <2>3. cur \in Jobs /\ nextRun'[cur] >= now
    BY <2>1, <2>2, CallReturnFacts
  <2>4. now \in Int /\ lastRun[cur] \in Int /\ nextRun[cur] \in Int
    BY <2>1, <2>3 DEF IInv, TypeOK
  <2>5. lastRun[cur] <= now /\ Unix(nextRun[cur]) <= Unix(lastRun[cur])
    BY <2>1 DEF RunDue
  <2>6. now <= nextRun[cur]
    BY <2>1, <2>3
  <2>7. Unix(lastRun[cur]) <= Unix(nextRun[cur])
    BY <2>4, <2>5, <2>6, UnixMonotone
  <2>8. Unix(lastRun[cur]) \in Int /\ Unix(nextRun[cur]) \in Int
    BY <2>4, TicksAssumption, DivisionBounds DEF Unix
  <2>9. QED
    BY <2>5, <2>6, <2>7, <2>8
<1>2. QED
  BY <1>1, Invariance, RunDueAlways, PTL DEF Spec, OnlyEarlyRunsRepeat

-----------------------------------------------------------------------------
(* What RunAll runs. *)

(* RunAll has still to come to every job it has not run, as long as no     *)
(* step has moved the jobs of its table.                                   *)
UnrunAhead ==
  mode = "all" => \A j \in unrun : \E k \in pos .. Len(jobs) : jobs[k] = j

LEMMA UnrunAheadKept ==
  ASSUME IInv, UnrunAhead, [Next]_vars
  PROVE  UnrunAhead'
<1>1. jobs \in Seq(Jobs) /\ pos \in Nat \ {0}
  BY DEF IInv, TypeOK
<1>2. CASE Build
  <2>1. PICK i \in Jobs : jobs' = Append(jobs, i)
    BY <1>2 DEF Build, AddJob, AbandonedChain
  <2>2. mode' = mode /\ pos' = pos /\ unrun' = unrun
    BY <1>2 DEF Build, AddJob, AbandonedChain, batchVars, history
  <2>3. Len(jobs') = Len(jobs) + 1 /\ \A k \in 1 .. Len(jobs) : jobs'[k] = jobs[k]
    BY <1>1, <2>1
  <2>4. \A k \in pos .. Len(jobs) : k \in pos .. Len(jobs') /\ jobs'[k] = jobs[k]
    BY <1>1, <2>3
  <2>5. QED
    BY <2>2, <2>4 DEF UnrunAhead
<1>3. CASE Rebuild
  BY <1>3, RebuildFrame DEF batchVars, UnrunAhead
<1>4. CASE Withdraw \/ NextRun
  BY <1>4 DEF Withdraw, Remove, RemoveByRef, RemoveByCondition, Clear, NextRun, UnrunAhead
<1>5. CASE RunAll
  <2>1. pos' = 1 /\ unrun' = InTable /\ jobs' = jobs
    BY <1>5 DEF RunAll, table
  <2>2. InTable = { jobs[k] : k \in 1 .. Len(jobs) }
    BY <1>1, RangeOfSeq DEF InTable
  <2>3. QED
    BY <2>1, <2>2 DEF UnrunAhead
<1>6. ASSUME NEW j \in Jobs, RunStart(j) \/ RunRefused(j) \/ RunMismatched(j)
      PROVE  UnrunAhead'
  <2>1. Upcoming(j) /\ MovePast(j) /\ mode' = mode /\ jobs' = jobs
    BY <1>6 DEF RunStart, RunRefused, RunMismatched, table
  <2>2. SUFFICES ASSUME mode = "all", NEW i \in unrun \ {j}
                 PROVE  \E k \in pos + 1 .. Len(jobs) : jobs[k] = i
    BY <2>1 DEF MovePast, UnrunAhead
  <2>3. PICK k \in pos .. Len(jobs) : jobs[k] = i
    BY <2>2 DEF UnrunAhead
  <2>4. k # pos
    BY <2>1, <2>2, <2>3 DEF Upcoming
  <2>5. k \in pos + 1 .. Len(jobs)
    BY <1>1, <2>3, <2>4
  <2>6. QED
    BY <2>3, <2>5
<1>7. ASSUME NEW j \in Jobs, NoFuncPanics(j) PROVE UnrunAhead'
  BY <1>7 DEF NoFuncPanics, table, batchVars, history, UnrunAhead
<1>8. CASE RunPending \/ LoopTick \/ Finish
  BY <1>8 DEF RunPending, LoopTick, TakeRunnable, Finish, history, UnrunAhead
<1>9. CASE \/ UNCHANGED vars \/ CallReturn \/ CallPanics \/ TableFull
           \/ \E f \in Tasks : Scheduled(f)
  BY <1>9 DEF vars, CallReturn, CallPanics, TableFull, Scheduled, table, batchVars, history,
     UnrunAhead
<1>10. CASE Start \/ Stop \/ LoopStop \/ TimePasses
  BY <1>10 DEF Start, Stop, LoopStop, TimePasses, table, batchVars, history, UnrunAhead
<1>11. QED
  BY <1>2, <1>3, <1>4, <1>5, <1>6, <1>7, <1>8, <1>9, <1>10 DEF Next, ProgramStep, RunStep

LEMMA UnrunAheadAlways == Spec => []UnrunAhead
<1>1. Init => UnrunAhead
  BY DEF Init, UnrunAhead
<1>2. IInv /\ UnrunAhead /\ [Next]_vars => UnrunAhead'
  BY UnrunAheadKept
<1>3. QED
  BY <1>1, <1>2, Invariance, PTL DEF Spec

(* RunAll ends only when it is past the last job of the table. *)
LEMMA RunAllEnds ==
  ASSUME [Next]_vars, mode = "all", mode' = "none"
  PROVE  Finish
<1>1. CASE UNCHANGED vars
  BY <1>1 DEF vars, batchVars
<1>2. CASE Build \/ Rebuild \/ Withdraw \/ NextRun
  BY <1>2, RebuildFrame DEF Build, AddJob, AbandonedChain, Withdraw, Remove, RemoveByRef,
     RemoveByCondition, Clear, NextRun, batchVars
<1>3. CASE RunPending \/ RunAll \/ LoopTick
  BY <1>3 DEF RunPending, RunAll, LoopTick, TakeRunnable
<1>4. CASE RunStep
  BY <1>4 DEF RunStep, RunStart, RunRefused, RunMismatched, NoFuncPanics, batchVars
<1>5. CASE CallReturn \/ CallPanics \/ TableFull \/ \E f \in Tasks : Scheduled(f)
  BY <1>5 DEF CallReturn, CallPanics, TableFull, Scheduled, batchVars
<1>6. CASE Start \/ Stop \/ LoopStop \/ TimePasses
  BY <1>6 DEF Start, Stop, LoopStop, TimePasses, batchVars
<1>7. QED
  BY <1>1, <1>2, <1>3, <1>4, <1>5, <1>6 DEF Next, ProgramStep

(* RunAll tries every job of the table it began with, whatever is added    *)
(* while it runs, unless a function removes jobs or sorts the table        *)
(* (551, 557-564).                                                         *)
THEOREM RunAllTriesAll == Spec => RunAllRunsAll
<1>1. IInv /\ UnrunAhead /\ [Next]_vars =>
        [mode = "all" /\ mode' = "none" => unrun \cap InTable = {}]_vars
  <2>1. SUFFICES ASSUME IInv, UnrunAhead, [Next]_vars, mode = "all", mode' = "none",
                        NEW j \in unrun
                 PROVE  FALSE
    OBVIOUS
  <2>2. pos > Len(jobs)
    BY <2>1, RunAllEnds DEF Finish
  <2>3. PICK k \in pos .. Len(jobs) : jobs[k] = j
    BY <2>1 DEF UnrunAhead
  <2>4. pos \in Nat /\ Len(jobs) \in Nat
    BY <2>1 DEF IInv, TypeOK
  <2>5. QED
    BY <2>2, <2>3, <2>4
<1>2. QED
  BY <1>1, Invariance, UnrunAheadAlways, PTL DEF Spec, RunAllRunsAll

-----------------------------------------------------------------------------
(* How late the loop may be.  Of a waiting job the invariant says by when  *)
(* its function is called if every function from now on takes MaxCall: it  *)
(* counts the jobs of the batch that come first, or the whole batch when   *)
(* the job is not in it and has a tick to wait for.  Free is when the      *)
(* function that is running has returned.                                  *)

CallTime(n) == n * MaxCall

Due(j) == Later(nextRun[j], since)

Rest == IF cur = None THEN 0 ELSE lastRun[cur] + MaxCall - now

Free == now + Rest

Awaits(j) ==
  /\ j \in InTable \ {cur}
  /\ ~config[j].lock
  /\ config[j].task # None

(* No tick that has come was late enough for the job. *)
NoTickMissed(j) ==
  \A k \in Nat : since + k * Second <= now => since + k * Second <= Due(j)

OnTime(j) ==
  /\ j \notin Range(batch) /\ ~tick => NoTickMissed(j)
  /\ mode = "none" /\ tick => now <= Due(j) + Later(Second, Round)
  /\ mode = "pending" /\ j \notin Range(batch) => Free + CallTime(Len(batch)) <= Due(j) + Round
  /\ \A k \in 1 .. Len(batch) :
       batch[k] = j => Free + CallTime(k - 1) <= Due(j) + Later(Second, Round) + Round

CallShort ==
  /\ now # Epoch
  /\ cur # None => /\ lastRun[cur] # Epoch
                   /\ lastRun[cur] <= now /\ now <= lastRun[cur] + MaxCall

LoopSound ==
  halted = "no" /\ loop =>
    /\ since <= now
    /\ mode # "all"
    /\ \A j \in Jobs : Awaits(j) => OnTime(j)

PromptInv == IInv /\ CallShort /\ LoopSound

LEMMA LaterFacts ==
  ASSUME NEW a \in Int, NEW b \in Int
  PROVE  Later(a, b) \in Int /\ Later(a, b) >= a /\ Later(a, b) >= b
BY DEF Later

LEMMA CallTimeFacts ==
  /\ CallTime(0) = 0
  /\ \A n \in Nat : CallTime(n) \in Nat /\ CallTime(n + 1) = CallTime(n) + MaxCall
  /\ \A m, n \in Nat : m <= n => CallTime(m) <= CallTime(n)
<1>1. MaxCall \in Nat
  BY SchedulerAssumption
<1>2. CallTime(0) = 0
  BY <1>1 DEF CallTime
<1>3. ASSUME NEW n \in Nat
      PROVE  CallTime(n) \in Nat /\ CallTime(n + 1) = CallTime(n) + MaxCall
  BY <1>1 DEF CallTime
<1>4. ASSUME NEW m \in Nat, NEW n \in Nat, m <= n PROVE CallTime(m) <= CallTime(n)
  <2>1. PICK d \in Nat : n = m + d
    <3>1. n - m \in Nat /\ n = m + (n - m)
      BY <1>4
    <3>2. QED
      BY <3>1
  <2>2. n * MaxCall = m * MaxCall + d * MaxCall
    BY <1>1, <2>1
  <2>3. m * MaxCall \in Nat /\ d * MaxCall \in Nat
    BY <1>1
  <2>4. QED
    BY <2>2, <2>3 DEF CallTime
<1>5. QED
  BY <1>2, <1>3, <1>4

LEMMA MultipleHasNoRest ==
  ASSUME NEW k \in Nat, NEW d \in Nat \ {0}
  PROVE  (k * d) % d = 0
<1>1. (k * d + 0) % d = 0
  BY DivMod
<1>2. k * d + 0 = k * d
  OBVIOUS
<1>3. QED
  BY <1>1, <1>2

LEMMA IntervalLength == ASSUME NEW n \in Nat PROVE Cardinality(1 .. n) = n
BY FS_Interval

(* A sequence without repetition is no longer than the set it takes from. *)
LEMMA InjectiveLength ==
  ASSUME NEW T, IsFiniteSet(T), NEW s \in Seq(Jobs), IsInjective(s), Range(s) \subseteq T
  PROVE  Len(s) <= Cardinality(T)
<1> DEFINE D == 1 .. Len(s)
<1>1. Len(s) \in Nat /\ Range(s) = { s[i] : i \in D }
  BY RangeOfSeq
<1>2. s \in [D -> T]
  BY <1>1
<1>3. s \in Injection(D, T)
  BY <1>2 DEF Injection
<1>4. Cardinality(D) <= Cardinality(T)
  BY <1>3, FS_Injection
<1>5. Cardinality(D) = Len(s)
  BY <1>1, IntervalLength
<1>6. QED
  BY <1>4, <1>5

LEMMA RoundFacts ==
  ASSUME IsFiniteSet(Jobs), NEW j \in Jobs
  PROVE  /\ Cardinality(Jobs) - 1 \in Nat
         /\ Round = CallTime(Cardinality(Jobs) - 1)
         /\ Round \in Nat
<1>1. Cardinality(Jobs) \in Nat /\ Cardinality(Jobs) # 0
  BY FS_CardinalityType, FS_EmptySet
<1>2. Cardinality(Jobs) - 1 \in Nat
  BY <1>1
<1>3. Round = CallTime(Cardinality(Jobs) - 1)
  BY DEF Round, CallTime
<1>4. QED
  BY <1>2, <1>3, CallTimeFacts

(* A batch without some job takes no more than a round of the others, and  *)
(* one less while one of them runs.                                        *)
LEMMA BatchInRound ==
  ASSUME IsFiniteSet(Jobs), NEW j \in Jobs,
         NEW s \in Seq(Jobs), IsInjective(s), j \notin Range(s)
  PROVE  /\ CallTime(Len(s)) <= Round
         /\ \A i \in Jobs \ {j} : i \notin Range(s) => MaxCall + CallTime(Len(s)) <= Round
<1> DEFINE others == Jobs \ {j}
<1>1. IsFiniteSet(others) /\ Cardinality(others) = Cardinality(Jobs) - 1
  BY FS_RemoveElement
<1>2. Range(s) \subseteq others /\ Len(s) \in Nat
  BY RangeOfSeq
<1>3. Len(s) <= Cardinality(Jobs) - 1
  BY <1>1, <1>2, InjectiveLength
<1>4. CallTime(Len(s)) <= Round
  BY <1>2, <1>3, RoundFacts, CallTimeFacts
<1>5. ASSUME NEW i \in others, i \notin Range(s)
      PROVE  MaxCall + CallTime(Len(s)) <= Round
  <2>1. IsFiniteSet(others \ {i}) /\ Cardinality(others \ {i}) = Cardinality(Jobs) - 1 - 1
    BY <1>1, FS_RemoveElement
  <2>2. Range(s) \subseteq others \ {i}
    BY <1>2, <1>5
  <2>3. Len(s) <= Cardinality(Jobs) - 1 - 1
    BY <2>1, <2>2, InjectiveLength
  <2>4. Len(s) + 1 \in Nat /\ Len(s) + 1 <= Cardinality(Jobs) - 1
    BY <1>2, <2>3, RoundFacts
  <2>5. CallTime(Len(s) + 1) <= Round
    BY <2>4, RoundFacts, CallTimeFacts
  <2>6. QED
    BY <1>2, <2>5, CallTimeFacts, SchedulerAssumption
<1>6. QED
  BY <1>4, <1>5

LEMMA Numbers ==
  ASSUME IsFiniteSet(Jobs)
  PROVE  IInv /\ CallShort =>
           /\ now \in Nat /\ since \in Nat /\ Rest \in Nat /\ Rest <= MaxCall
           /\ batch \in Seq(Jobs) /\ IsInjective(batch) /\ Len(batch) \in Nat
           /\ mode # "pending" => batch = <<>>
           /\ Free \in Nat /\ Free >= now
           /\ \A j \in Jobs : /\ nextRun[j] \in Int
                              /\ Due(j) \in Int /\ Due(j) >= since /\ Due(j) >= nextRun[j]
                              /\ Round \in Nat
                              /\ Later(Second, Round) \in Nat
                              /\ Later(Second, Round) >= Second
                              /\ Later(Second, Round) >= Round
<1> SUFFICES ASSUME IInv, CallShort
             PROVE  /\ now \in Nat /\ since \in Nat /\ Rest \in Nat /\ Rest <= MaxCall
                    /\ batch \in Seq(Jobs) /\ IsInjective(batch) /\ Len(batch) \in Nat
                    /\ mode # "pending" => batch = <<>>
                    /\ Free \in Nat /\ Free >= now
                    /\ \A j \in Jobs :
                         /\ nextRun[j] \in Int
                         /\ Due(j) \in Int /\ Due(j) >= since /\ Due(j) >= nextRun[j]
                         /\ Round \in Nat
                         /\ Later(Second, Round) \in Nat
                         /\ Later(Second, Round) >= Second
                         /\ Later(Second, Round) >= Round
  OBVIOUS
<1>1. /\ now \in Nat /\ since \in Nat /\ batch \in Seq(Jobs)
      /\ cur \in Jobs \cup {None} /\ lastRun \in [Jobs -> Int] /\ nextRun \in [Jobs -> Int]
  BY DEF IInv, TypeOK
<1>2. Rest \in Nat /\ Rest <= MaxCall
  <2>1. CASE cur = None
    BY <2>1, SchedulerAssumption DEF Rest
  <2>2. CASE cur # None
    <3>1. lastRun[cur] \in Int /\ MaxCall \in Nat
      BY <1>1, <2>2, SchedulerAssumption
    <3>2. QED
      BY <1>1, <2>2, <3>1 DEF Rest, CallShort
  <2>3. QED
    BY <2>1, <2>2
<1>3. IsInjective(batch) /\ (mode # "pending" => batch = <<>>)
  BY EmptyRange DEF IInv, BatchDue, BatchSound
<1>4. Free \in Nat /\ Free >= now
  BY <1>1, <1>2 DEF Free
<1>5. ASSUME NEW j \in Jobs
      PROVE  /\ nextRun[j] \in Int
             /\ Due(j) \in Int /\ Due(j) >= since /\ Due(j) >= nextRun[j]
             /\ Round \in Nat
             /\ Later(Second, Round) \in Nat
             /\ Later(Second, Round) >= Second
             /\ Later(Second, Round) >= Round
  <2>1. nextRun[j] \in Int /\ since \in Int
    BY <1>1
  <2>2. Due(j) \in Int /\ Due(j) >= since /\ Due(j) >= nextRun[j]
    BY <2>1, LaterFacts DEF Due
  <2>3. Round \in Nat /\ Second \in Nat
    BY RoundFacts, TicksAssumption
  <2>4. /\ Later(Second, Round) \in Int
        /\ Later(Second, Round) >= Second /\ Later(Second, Round) >= Round
    BY <2>3, LaterFacts
  <2>5. QED
    BY <2>1, <2>2, <2>3, <2>4
<1>6. QED
  BY <1>1, <1>2, <1>3, <1>4, <1>5

(* A job whose time has not come is on time, whatever the batch holds. *)
Fresh(j) ==
  /\ j # cur
  /\ since <= now
  /\ nextRun[j] >= now

LEMMA FreshIsOnTime ==
  ASSUME IsFiniteSet(Jobs)
  PROVE  IInv /\ CallShort => \A j \in Jobs : Fresh(j) => OnTime(j)
<1> SUFFICES ASSUME IInv, CallShort, NEW j \in Jobs, Fresh(j) PROVE OnTime(j)
  OBVIOUS
<1>1. /\ now \in Nat /\ since \in Nat /\ Rest \in Nat /\ Rest <= MaxCall
      /\ batch \in Seq(Jobs) /\ IsInjective(batch) /\ Len(batch) \in Nat
      /\ nextRun[j] \in Int
      /\ Due(j) \in Int /\ Due(j) >= since /\ Due(j) >= nextRun[j]
      /\ Round \in Nat
      /\ Later(Second, Round) \in Nat
  BY Numbers
<1>2. Due(j) >= now
  BY <1>1 DEF Fresh
<1>3. NoTickMissed(j)
  <2>1. SUFFICES ASSUME NEW k \in Nat, since + k * Second <= now
                 PROVE  since + k * Second <= Due(j)
    BY DEF NoTickMissed
  <2>2. k * Second \in Int
    BY TicksAssumption
  <2>3. QED
    BY <1>1, <1>2, <2>1, <2>2
<1>4. ASSUME NEW m \in 0 .. Len(batch), \A k \in 1 .. m : batch[k] # j
      PROVE  Rest + CallTime(m) <= Round
  <2> DEFINE first == SubSeq(batch, 1, m)
  <2>1. /\ first \in Seq(Jobs) /\ IsInjective(first) /\ Len(first) = m
        /\ Range(first) = { batch[k] : k \in 1 .. m }
    BY <1>1, PrefixFacts
  <2>2. j \notin Range(first) /\ Range(first) \subseteq Range(batch)
    <3>1. \A k \in 1 .. m : k \in 1 .. Len(batch)
      BY <1>1
    <3>2. QED
      BY <1>1, <1>4, <2>1, <3>1, RangeOfSeq
  <2>3. CallTime(m) \in Nat /\ MaxCall \in Nat
    BY <1>1, CallTimeFacts, SchedulerAssumption
  <2> HIDE DEF first
  <2>4. CASE cur = None
    <3>1. CallTime(m) <= Round
      BY <2>1, <2>2, BatchInRound
    <3>2. QED
      BY <1>1, <2>3, <2>4, <3>1 DEF Rest
  <2>5. CASE cur # None
    <3>1. cur \in Jobs \ {j} /\ cur \notin Range(batch)
      BY <2>5, EmptyRange DEF Fresh, IInv, TypeOK, BatchDue, BatchSound
    <3>2. MaxCall + CallTime(m) <= Round
      BY <2>1, <2>2, <3>1, BatchInRound
    <3>3. QED
      BY <1>1, <2>3, <3>2
  <2>6. QED
    BY <2>4, <2>5
<1>5. ASSUME NEW m \in 0 .. Len(batch), \A k \in 1 .. m : batch[k] # j
      PROVE  Free + CallTime(m) <= Due(j) + Round
  <2>1. Rest + CallTime(m) <= Round /\ CallTime(m) \in Nat
    BY <1>1, <1>4, <1>5, CallTimeFacts
  <2>2. QED
    BY <1>1, <1>2, <2>1 DEF Free
<1>6. j \notin Range(batch) => Free + CallTime(Len(batch)) <= Due(j) + Round
  <2>1. j \notin Range(batch) => \A k \in 1 .. Len(batch) : batch[k] # j
    BY <1>1, RangeOfSeq
  <2>2. Len(batch) \in 0 .. Len(batch)
    BY <1>1
  <2>3. QED
    BY <1>5, <2>1, <2>2
<1>7. ASSUME NEW k \in 1 .. Len(batch), batch[k] = j
      PROVE  Free + CallTime(k - 1) <= Due(j) + Later(Second, Round) + Round
  <2>1. k - 1 \in 0 .. Len(batch) /\ k - 1 \in Nat
    BY <1>1
  <2>2. \A i \in 1 .. k - 1 : i \in 1 .. Len(batch) /\ i # k
    BY <1>1
  <2>3. \A i \in 1 .. k - 1 : batch[i] # j
    BY <1>1, <1>7, <2>2, InjectiveSeq
  <2>4. Free + CallTime(k - 1) <= Due(j) + Round /\ CallTime(k - 1) \in Nat
    BY <1>5, <2>1, <2>3, CallTimeFacts
  <2>5. Free \in Nat
    BY <1>1 DEF Free
  <2>6. QED
    BY <1>1, <2>4, <2>5
<1>8. now <= Due(j) + Later(Second, Round)
  BY <1>1, <1>2
<1>9. QED
  BY <1>3, <1>6, <1>7, <1>8 DEF OnTime

LEMMA FreshIsOnTimeNext ==
  ASSUME IsFiniteSet(Jobs)
  PROVE  (IInv /\ CallShort => \A j \in Jobs : Fresh(j) => OnTime(j))'
<1>1. IInv /\ CallShort => \A j \in Jobs : Fresh(j) => OnTime(j)
  BY FreshIsOnTime
<1>2. QED
  BY <1>1, PTL

LEMMA NumbersNext ==
  ASSUME IsFiniteSet(Jobs)
  PROVE  (IInv /\ CallShort => now \in Nat /\ since \in Nat /\ Rest \in Nat /\ Rest <= MaxCall)'
<1>1. IInv /\ CallShort => now \in Nat /\ since \in Nat /\ Rest \in Nat /\ Rest <= MaxCall
  BY Numbers
<1>2. QED
  BY <1>1, PTL

(* The clock, the tick, the batch and the function under way are as they   *)
(* were, and so is what is known of the job.                               *)
LEMMA SameOnTime ==
  ASSUME NEW j, OnTime(j),
         UNCHANGED <<now, batch, tick, since, mode, cur>>,
         nextRun'[j] = nextRun[j],
         cur # None => lastRun'[cur] = lastRun[cur]
  PROVE  OnTime(j)'
<1>1. Due(j)' = Due(j)
  BY DEF Due
<1>2. Rest' = Rest
  BY DEF Rest
<1>3. Free' = Free
  BY <1>2 DEF Free
<1>4. NoTickMissed(j) => NoTickMissed(j)'
  BY <1>1 DEF NoTickMissed
<1>5. QED
  BY <1>1, <1>3, <1>4 DEF OnTime

(* The first job leaves the batch: it is called, refused, or not called.   *)
LEMMA HeadGone ==
  ASSUME IsFiniteSet(Jobs), IInv, CallShort, IInv', CallShort',
         NEW j \in Jobs, OnTime(j),
         mode = "pending", cur = None,
         Len(batch') = Len(batch) - 1, j # batch[1],
         \A k \in 1 .. Len(batch') : batch'[k] = batch[k + 1],
         UNCHANGED <<now, tick, since, mode>>,
         nextRun'[j] = nextRun[j]
  PROVE  OnTime(j)'
<1>1. /\ now \in Nat /\ Rest = 0 /\ batch \in Seq(Jobs) /\ Len(batch) \in Nat
      /\ Due(j) \in Int /\ Round \in Nat /\ Later(Second, Round) \in Nat
  BY Numbers DEF Rest
<1>2. Rest' \in Nat /\ Rest' <= MaxCall /\ MaxCall \in Nat
  BY NumbersNext, SchedulerAssumption
<1>3. Due(j) \in Int /\ Round \in Nat /\ Later(Second, Round) \in Nat
  BY <1>1
<1>4. batch' \in Seq(Jobs) /\ Len(batch') \in Nat /\ Len(batch) = Len(batch') + 1
  BY <1>1 DEF IInv, TypeOK
<1>5. Free \in Nat /\ Free' \in Nat /\ Free' <= Free + MaxCall
  BY <1>1, <1>2 DEF Free
<1>6. \A n \in Nat : /\ CallTime(n) \in Nat
                     /\ Free' + CallTime(n) <= Free + CallTime(n + 1)
  <2>1. SUFFICES ASSUME NEW n \in Nat
                 PROVE  /\ CallTime(n) \in Nat
                        /\ Free' + CallTime(n) <= Free + CallTime(n + 1)
    OBVIOUS
  <2>2. CallTime(n) \in Nat /\ CallTime(n + 1) = CallTime(n) + MaxCall
    BY CallTimeFacts
  <2>3. QED
    BY <1>2, <1>5, <2>2
<1>7. Due(j)' = Due(j)
  BY DEF Due
<1>8. j \notin Range(batch') => j \notin Range(batch)
  <2>1. SUFFICES ASSUME j \in Range(batch) PROVE j \in Range(batch')
    OBVIOUS
  <2>2. PICK k \in 1 .. Len(batch) : batch[k] = j
    BY <1>1, <2>1, RangeOfSeq
  <2>3. k # 1
    BY <1>4, <2>2
  <2>4. k - 1 \in 1 .. Len(batch') /\ (k - 1) + 1 = k
    BY <1>1, <1>4, <2>2, <2>3
  <2>5. batch'[k - 1] = j
    BY <1>4, <2>2, <2>4
  <2>6. Range(batch') = { batch'[m] : m \in 1 .. Len(batch') }
    BY <1>4, RangeOfSeq
  <2>7. QED
    BY <2>4, <2>5, <2>6
<1>9. j \notin Range(batch') /\ ~tick' => NoTickMissed(j)'
  BY <1>7, <1>8 DEF OnTime, NoTickMissed
<1>10. j \notin Range(batch') => Free' + CallTime(Len(batch')) <= Due(j) + Round
  <2>1. SUFFICES ASSUME j \notin Range(batch')
                 PROVE  Free' + CallTime(Len(batch')) <= Due(j) + Round
    OBVIOUS
  <2>2. Free + CallTime(Len(batch)) <= Due(j) + Round
    BY <1>8, <2>1 DEF OnTime
  <2>3. Len(batch') + 1 = Len(batch)
    BY <1>1, <1>4
  <2>4. /\ CallTime(Len(batch')) \in Nat /\ CallTime(Len(batch)) \in Nat
        /\ Free' + CallTime(Len(batch')) <= Free + CallTime(Len(batch))
    BY <1>1, <1>4, <1>6, <2>3
  <2>5. QED
    BY <1>3, <1>5, <2>2, <2>4
<1>11. ASSUME NEW k \in 1 .. Len(batch'), batch'[k] = j
       PROVE  Free' + CallTime(k - 1) <= Due(j) + Later(Second, Round) + Round
  <2> DEFINE limit == Due(j) + Later(Second, Round) + Round
  <2>1. k + 1 \in 1 .. Len(batch) /\ batch[k + 1] = j
    BY <1>4, <1>11
  <2>2. Free + CallTime((k + 1) - 1) <= limit
    BY <2>1 DEF OnTime
  <2>3. k - 1 \in Nat /\ (k + 1) - 1 = (k - 1) + 1 /\ (k + 1) - 1 \in Nat
    BY <1>4
  <2>4. /\ CallTime(k - 1) \in Nat /\ CallTime((k + 1) - 1) \in Nat
        /\ Free' + CallTime(k - 1) <= Free + CallTime((k + 1) - 1)
    BY <1>6, <2>3
  <2>5. limit \in Int
    BY <1>3
  <2> HIDE DEF limit
  <2>6. Free' + CallTime(k - 1) <= limit
    BY <1>5, <2>2, <2>4, <2>5
  <2>7. QED
    BY <2>6 DEF limit
<1>12. QED
  BY <1>1, <1>7, <1>9, <1>10, <1>11 DEF OnTime

LEMMA PromptIsNext == ASSUME [PromptNext]_vars PROVE [Next]_vars
BY DEF PromptNext, Next

LEMMA CallShortKept ==
  ASSUME IInv, CallShort, [PromptNext]_vars
  PROVE  CallShort'
<1>1. now \in Nat /\ lastRun \in [Jobs -> Int] /\ cur \in Jobs \cup {None} /\ MaxCall \in Nat
  BY SchedulerAssumption DEF IInv, TypeOK
<1>2. CASE Build
  <2>1. PICK j \in Jobs, c \in Configs, delay \in FromDelays :
          AddJob(j, c, delay) \/ AbandonedChain(j, c, delay)
    BY <1>2 DEF Build
  <2>2. cur # None => cur \in Jobs \ {j}
    BY <2>1 DEF IInv, TypeOK, CallSound, AddJob, AbandonedChain
  <2>3. cur' = cur /\ now' = now
    BY <2>1 DEF AddJob, AbandonedChain
  <2>4. \A i \in Jobs \ {j} : lastRun'[i] = lastRun[i]
    BY <1>1, <2>1 DEF AddJob, AbandonedChain
  <2>5. QED
    BY <2>2, <2>3, <2>4 DEF CallShort
<1>3. CASE Rebuild
  <2>1. PICK j \in Jobs : Rebuilt(j)
    BY <1>3 DEF Rebuild, Rebuilt
  <2>2. /\ now' = now /\ cur' = cur
        /\ \A i \in Jobs \ {j} : lastRun'[i] = lastRun[i]
        /\ lastRun'[j] = lastRun[j] \/ lastRun[j] = Epoch
    BY <2>1, RebuiltFacts DEF IInv
  <2>3. cur # None => lastRun'[cur] = lastRun[cur]
    BY <1>1, <2>2 DEF CallShort
  <2>4. QED
    BY <2>2, <2>3 DEF CallShort
<1>4. ASSUME NEW j \in Jobs, RunStart(j) PROVE CallShort'
  <2>1. lastRun'[j] = now /\ cur' = j /\ now' = now
    BY <1>1, <1>4 DEF RunStart
  <2>2. QED
    BY <1>1, <2>1 DEF CallShort
<1>5. ASSUME NEW j \in Jobs, RunRefused(j) \/ RunMismatched(j) \/ NoFuncPanics(j)
      PROVE  CallShort'
  BY <1>5 DEF RunRefused, RunMismatched, NoFuncPanics, Upcoming, CallShort
<1>6. CASE CallReturn
  BY <1>6 DEF CallReturn, CallShort
<1>7. CASE Prompt /\ TimePasses
  <2>1. SUFFICES ASSUME cur # None PROVE lastRun[cur] <= now' /\ now' <= lastRun[cur] + MaxCall
    BY <1>1, <1>7 DEF TimePasses, times, CallShort, Epoch
  <2>2. now < lastRun[cur] + MaxCall
    BY <1>7, <2>1 DEF Prompt, IInv, CallSound
  <2>3. now' = now + 1 /\ lastRun[cur] <= now
    BY <1>7, <2>1 DEF TimePasses, CallShort
  <2>4. lastRun[cur] \in Int
    BY <1>1, <2>1
  <2>5. QED
    BY <1>1, <2>2, <2>3, <2>4
<1>8. CASE UNCHANGED vars \/ Withdraw \/ NextRun \/ RunPending \/ RunAll \/ LoopTick
  BY <1>8 DEF vars, Withdraw, Remove, RemoveByRef, RemoveByCondition, Clear, NextRun,
     RunPending, RunAll, LoopTick, times, CallShort
<1>9. CASE Finish \/ CallPanics \/ TableFull \/ \E f \in Tasks : Scheduled(f)
  BY <1>9 DEF Finish, CallPanics, TableFull, Scheduled, times, CallShort
<1>10. CASE Start \/ Stop \/ LoopStop
  BY <1>10 DEF Start, Stop, LoopStop, times, CallShort
<1>11. QED
  BY <1>2, <1>3, <1>4, <1>5, <1>6, <1>7, <1>8, <1>9, <1>10 DEF PromptNext, ProgramStep, RunStep

LEMMA TableOfJobs == IInv => InTable \subseteq Jobs
BY RangeOfSeq DEF IInv, TypeOK, InTable

(* Jobs leave the table or change places, or the loop is told to stop. *)
LEMMA LoopUndisturbed ==
  ASSUME PromptInv, halted = "no", loop, Range(jobs') \subseteq InTable,
         UNCHANGED <<now, config, lastRun, nextRun, mode, batch, cur, tick, since>>
  PROVE  LoopSound'
<1>1. since' <= now' /\ mode' # "all"
  BY DEF PromptInv, LoopSound
<1>2. ASSUME NEW j \in Jobs, Awaits(j)' PROVE OnTime(j)'
  <2>1. Awaits(j)
    BY <1>2 DEF Awaits, InTable
  <2>2. OnTime(j)
    BY <2>1 DEF PromptInv, LoopSound
  <2>3. QED
    BY <2>2, SameOnTime
<1>3. QED
  BY <1>1, <1>2 DEF LoopSound

(* A new job is scheduled for the future, or was never scheduled. *)
LEMMA BuildInTime ==
  ASSUME IsFiniteSet(Jobs), PromptInv, IInv', CallShort', Build, halted' = "no", loop'
  PROVE  LoopSound'
<1>1. PICK i \in Jobs, c \in Configs, delay \in FromDelays :
        AddJob(i, c, delay) \/ AbandonedChain(i, c, delay)
  BY DEF Build
<1>2. /\ config[i] = None /\ jobs' = Append(jobs, i) /\ jobs \in Seq(Jobs)
      /\ now' = now /\ mode' = mode /\ batch' = batch /\ cur' = cur
      /\ loop' = loop /\ tick' = tick /\ since' = since /\ halted = "no"
  BY <1>1 DEF AddJob, AbandonedChain, batchVars, loopVars, MayUse, Idle, PromptInv, IInv, TypeOK
<1>3. \A j \in Jobs \ {i} : /\ config'[j] = config[j] /\ nextRun'[j] = nextRun[j]
                            /\ lastRun'[j] = lastRun[j]
  BY <1>1 DEF AddJob, AbandonedChain, ScheduleNext, PromptInv, IInv, TypeOK
<1>4. since' <= now' /\ mode' # "all"
  BY <1>2 DEF PromptInv, LoopSound
<1>5. i # cur /\ i \notin Range(batch)
  BY <1>2, SchedulerAssumption DEF PromptInv, IInv, CallSound, BatchSound
<1>6. ASSUME NEW j \in Jobs \ {i}, Awaits(j)' PROVE OnTime(j)'
  <2>1. InTable' = InTable \cup {i}
    BY <1>2, AppendFacts DEF InTable
  <2>2. Awaits(j)
    BY <1>2, <1>3, <1>6, <2>1 DEF Awaits
  <2>3. OnTime(j)
    BY <1>2, <2>2 DEF PromptInv, LoopSound
  <2>4. cur # None => cur \in Jobs \ {i}
    BY <1>5 DEF PromptInv, IInv, TypeOK
  <2>5. QED
    BY <1>2, <1>3, <2>3, <2>4, SameOnTime
<1>7. ASSUME Awaits(i)' PROVE OnTime(i)'
  <2>1. CASE AddJob(i, c, delay)
    <3> DEFINE from == IF delay = 0 THEN Epoch ELSE now + delay
    <3>1. c.schedule \in Schedules /\ now \in Int /\ from \in Int /\ TypeOK
      <4>1. c.schedule \in Schedules
        BY SchedulerAssumption DEF JobConfigs
      <4>2. now \in Nat /\ TypeOK
        BY DEF PromptInv, IInv, TypeOK
      <4>3. from \in Int
        BY <4>2, SchedulerAssumption DEF Epoch
      <4>4. QED
        BY <4>1, <4>2, <4>3
    <3>2. ScheduleNext(i, c.schedule, now, from)
      BY <2>1 DEF AddJob
    <3> HIDE DEF from
    <3>3. nextRun'[i] >= now
      BY <3>1, <3>2, ScheduleNextFacts
    <3>4. Fresh(i)'
      BY <1>2, <1>4, <1>5, <3>3 DEF Fresh
    <3>5. QED
      BY <3>4, FreshIsOnTimeNext
  <2>2. CASE AbandonedChain(i, c, delay)
    <3> DEFINE blank == [c EXCEPT !.task = None, !.safe = FALSE]
    <3>1. config' = [config EXCEPT ![i] = blank]
      BY <2>2 DEF AbandonedChain
    <3>2. c \in JobConfigs
      BY SchedulerAssumption
    <3>3. blank.task = None
      BY <3>2 DEF JobConfigs
    <3> HIDE DEF blank
    <3>4. config'[i].task = None
      BY <3>1, <3>3 DEF PromptInv, IInv, TypeOK
    <3>5. QED
      BY <1>7, <3>4 DEF Awaits
  <2>3. QED
    BY <1>1, <2>1, <2>2
<1>8. QED
  BY <1>4, <1>6, <1>7 DEF LoopSound

(* A job the builder acts on is scheduled for the future, or on the        *)
(* schedule it had.                                                        *)
LEMMA RebuiltInTime ==
  ASSUME IsFiniteSet(Jobs), PromptInv, IInv', CallShort', Rebuild, halted' = "no", loop'
  PROVE  LoopSound'
<1>1. PICK i \in Jobs : Rebuilt(i)
  BY DEF Rebuild, Rebuilt
<1>2. /\ now' = now /\ jobs' = jobs /\ mode' = mode /\ batch' = batch /\ cur' = cur
      /\ loop' = loop /\ tick' = tick /\ since' = since /\ halted = "no"
  BY RebuildFrame DEF batchVars, loopVars, MayUse, Idle
<1>3. /\ \A j \in Jobs \ {i} : config'[j] = config[j] /\ nextRun'[j] = nextRun[j]
      /\ \A j \in Jobs \ {i} : lastRun'[j] = lastRun[j]
      /\ lastRun'[i] = lastRun[i] \/ lastRun[i] = Epoch
      /\ Reset(i) \/ Amended(i)
  BY <1>1, RebuiltFacts DEF PromptInv, IInv
<1>4. since' <= now' /\ mode' # "all"
  BY <1>2 DEF PromptInv, LoopSound
<1>5. cur # None => cur \in Jobs /\ lastRun'[cur] = lastRun[cur]
  BY <1>3 DEF PromptInv, IInv, TypeOK, CallShort
<1>6. ASSUME NEW j \in Jobs, nextRun'[j] = nextRun[j], Awaits(j) PROVE OnTime(j)'
  <2>1. OnTime(j)
    BY <1>2, <1>6 DEF PromptInv, LoopSound
  <2>2. QED
    BY <1>2, <1>5, <1>6, <2>1, SameOnTime
<1>7. ASSUME NEW j \in Jobs \ {i}, Awaits(j)' PROVE OnTime(j)'
  BY <1>2, <1>3, <1>6, <1>7 DEF Awaits, InTable
<1>8. ASSUME Awaits(i)' PROVE OnTime(i)'
  <2>1. CASE Reset(i)
    <3>1. Fresh(i)'
      BY <1>2, <1>4, <1>8, <2>1 DEF Fresh, Awaits, Reset
    <3>2. QED
      BY <3>1, FreshIsOnTimeNext
  <2>2. CASE Amended(i)
    BY <1>2, <1>6, <1>8, <2>2 DEF Awaits, Amended, InTable, times
  <2>3. QED
    BY <1>3, <2>1, <2>2
<1>9. QED
  BY <1>4, <1>7, <1>8 DEF LoopSound

(* The next job of the batch is called, refused, or not called. *)
LEMMA RunInTime ==
  ASSUME IsFiniteSet(Jobs), PromptInv, IInv', CallShort', halted' = "no", loop',
         NEW i \in Jobs, RunStart(i) \/ RunRefused(i) \/ RunMismatched(i)
  PROVE  LoopSound'
<1>1. /\ Upcoming(i) /\ MovePast(i) /\ loop' = loop /\ halted = "no"
      /\ now' = now /\ mode' = mode /\ tick' = tick /\ since' = since
      /\ jobs' = jobs /\ config' = config
  BY DEF RunStart, RunRefused, RunMismatched, Upcoming, loopVars, table
<1>2. since' <= now' /\ mode' # "all"
  BY <1>1 DEF PromptInv, LoopSound
<1>3. mode = "pending" /\ cur = None /\ batch # <<>> /\ i = Head(batch) /\ batch' = Tail(batch)
  BY <1>1, <1>2 DEF Upcoming, MovePast
<1>4. /\ batch \in Seq(Jobs)
      /\ Len(batch') = Len(batch) - 1 /\ i = batch[1]
      /\ \A k \in 1 .. Len(batch') : batch'[k] = batch[k + 1]
  BY <1>3 DEF PromptInv, IInv, TypeOK
<1>5. nextRun \in [Jobs -> Int] /\ lastRun \in [Jobs -> Int] /\ now \in Nat
  BY DEF PromptInv, IInv, TypeOK
<1>6. ASSUME NEW j \in Jobs \ {i}, Awaits(j)' PROVE OnTime(j)'
  <2>1. Awaits(j)
    BY <1>1, <1>3, <1>6, SchedulerAssumption DEF Awaits, InTable
  <2>2. OnTime(j)
    BY <1>1, <2>1 DEF PromptInv, LoopSound
  <2>3. nextRun'[j] = nextRun[j]
    BY <1>5 DEF RunStart, RunRefused, RunMismatched, ScheduleNext, times
  <2>4. QED
    BY <1>1, <1>3, <1>4, <2>2, <2>3, HeadGone DEF PromptInv
<1>7. ASSUME Awaits(i)' PROVE OnTime(i)'
  <2>1. RunMismatched(i)
    BY <1>1, <1>7 DEF Awaits, RunStart, RunRefused
  <2>2. ScheduleNext(i, config[i].schedule, now, nextRun[i])
    BY <2>1 DEF RunMismatched
  <2>3. config[i].schedule \in Schedules /\ now \in Int /\ nextRun[i] \in Int
    BY <1>1, <1>5, MovePastFacts, ConfigFacts DEF PromptInv, IInv
  <2>4. nextRun'[i] >= now
    BY <2>2, <2>3, ScheduleNextFacts DEF PromptInv, IInv
  <2>5. i \notin Range(batch')
    BY <1>1, MovePastFacts DEF PromptInv
  <2>6. Fresh(i)'
    BY <1>1, <1>2, <1>7, <2>4, <2>5 DEF Fresh, Awaits
  <2>7. QED
    BY <2>6, FreshIsOnTimeNext
<1>8. QED
  BY <1>2, <1>6, <1>7 DEF LoopSound

(* The job whose function returned is scheduled for the future; the others *)
(* have one call less to wait for.                                         *)
LEMMA ReturnInTime ==
  ASSUME IsFiniteSet(Jobs), PromptInv, IInv', CallShort', CallReturn, halted' = "no", loop'
  PROVE  LoopSound'
<1>1. /\ halted = "no" /\ loop' = loop /\ now' = now /\ mode' = mode /\ batch' = batch
      /\ tick' = tick /\ since' = since /\ jobs' = jobs /\ config' = config /\ cur' = None
  BY DEF CallReturn, table, batchVars, loopVars
<1>2. since' <= now' /\ mode' # "all"
  BY <1>1 DEF PromptInv, LoopSound
<1>3. /\ cur \in Jobs /\ nextRun'[cur] >= now
      /\ \A j \in Jobs \ {cur} : nextRun'[j] = nextRun[j]
  BY CallReturnFacts DEF PromptInv
<1>4. cur # None /\ (mode = "pending" => cur \notin Range(batch))
  BY DEF CallReturn, PromptInv, IInv, BatchDue
<1>5. cur \notin Range(batch)
  BY <1>4, EmptyRange DEF PromptInv, IInv, BatchSound
<1>6. ASSUME NEW j \in Jobs, j = cur PROVE OnTime(j)'
  <2>1. j # None
    BY <1>4, <1>6
  <2>2. Fresh(j)'
    BY <1>1, <1>2, <1>3, <1>5, <1>6, <2>1 DEF Fresh
  <2>3. QED
    BY <2>2, FreshIsOnTimeNext
<1>7. ASSUME NEW j \in Jobs, j # cur, Awaits(j)' PROVE OnTime(j)'
  <2>1. OnTime(j)
    <3>1. Awaits(j)
      BY <1>1, <1>7 DEF Awaits, InTable
    <3>2. QED
      BY <1>1, <3>1 DEF PromptInv, LoopSound
  <2>2. Due(j)' = Due(j)
    BY <1>1, <1>3, <1>7 DEF Due
  <2>3. Rest' = 0 /\ Rest \in Nat /\ now \in Nat /\ Len(batch) \in Nat
    BY <1>1, Numbers DEF PromptInv, Rest
  <2>4. Free \in Nat /\ Free' \in Nat /\ Free' <= Free
    BY <1>1, <2>3 DEF Free
  <2>5. \A n \in Nat : CallTime(n) \in Nat
    BY CallTimeFacts
  <2>6. Due(j) \in Int /\ Round \in Nat /\ Later(Second, Round) \in Nat
    BY Numbers DEF PromptInv
  <2>7. j \notin Range(batch) /\ ~tick => NoTickMissed(j)'
    BY <1>1, <2>1, <2>2 DEF OnTime, NoTickMissed
  <2>8. mode = "pending" /\ j \notin Range(batch) =>
          Free' + CallTime(Len(batch)) <= Due(j) + Round
    BY <2>1, <2>3, <2>4, <2>5, <2>6 DEF OnTime
  <2>9. ASSUME NEW k \in 1 .. Len(batch), batch[k] = j
        PROVE  Free' + CallTime(k - 1) <= Due(j) + Later(Second, Round) + Round
    <3>1. Free + CallTime(k - 1) <= Due(j) + Later(Second, Round) + Round
      BY <2>1, <2>9 DEF OnTime
    <3>2. CallTime(k - 1) \in Nat
      BY <2>5
    <3>3. QED
      BY <2>4, <2>6, <3>1, <3>2
  <2>10. QED
    BY <1>1, <2>1, <2>2, <2>7, <2>8, <2>9 DEF OnTime
<1>8. \A j \in Jobs : Awaits(j)' => OnTime(j)'
  BY <1>6, <1>7
<1>9. QED
  BY <1>2, <1>8 DEF LoopSound

(* A batch ends in time for the tick that came while it ran. *)
LEMMA FinishInTime ==
  ASSUME IsFiniteSet(Jobs), PromptInv, Finish, loop'
  PROVE  LoopSound'
<1>1. /\ halted = "no" /\ loop' = loop /\ now' = now /\ batch' = batch
      /\ tick' = tick /\ since' = since /\ jobs' = jobs /\ config' = config
      /\ nextRun' = nextRun /\ mode' = "none" /\ cur = None /\ cur' = None
  BY DEF Finish, table, times, loopVars
<1>2. since' <= now' /\ mode = "pending" /\ batch = <<>>
  BY <1>1 DEF PromptInv, LoopSound, Finish
<1>3. ASSUME NEW j \in Jobs, Awaits(j)' PROVE OnTime(j)'
  <2>1. Awaits(j)
    BY <1>1, <1>3 DEF Awaits, InTable
  <2>2. OnTime(j)
    BY <1>1, <2>1 DEF PromptInv, LoopSound
  <2>3. Due(j)' = Due(j)
    BY <1>1 DEF Due
  <2>4. j \notin Range(batch) /\ Len(batch) = 0
    BY <1>2, EmptyRange
  <2>5. ~tick => NoTickMissed(j)'
    BY <1>1, <2>2, <2>3, <2>4 DEF OnTime, NoTickMissed
  <2>6. now <= Due(j) + Later(Second, Round)
    <3>1. Free + CallTime(0) <= Due(j) + Round
      BY <1>2, <2>2, <2>4 DEF OnTime
    <3>2. Free = now + 0 /\ CallTime(0) = 0
      BY <1>1, CallTimeFacts DEF Free, Rest
    <3>3. /\ now \in Nat /\ Due(j) \in Int /\ Round \in Nat
          /\ Later(Second, Round) \in Nat /\ Later(Second, Round) >= Round
      BY Numbers DEF PromptInv
    <3>4. QED
      BY <3>1, <3>2, <3>3
  <2>7. QED
    BY <1>1, <2>3, <2>4, <2>5, <2>6 DEF OnTime
<1>4. QED
  BY <1>1, <1>2, <1>3 DEF LoopSound

(* The loop takes every job that is due; the others have not yet come to   *)
(* their time.                                                             *)
LEMMA TickInTime ==
  ASSUME IsFiniteSet(Jobs), PromptInv, IInv', CallShort', LoopTick
  PROVE  LoopSound'
<1>1. /\ halted = "no" /\ loop /\ tick /\ mode = "none" /\ tick' = FALSE /\ mode' = "pending"
      /\ now' = now /\ since' = since /\ config' = config /\ cur' = cur
      /\ nextRun' = nextRun /\ TakeRunnable
  BY DEF LoopTick, TakeRunnable, times
<1>2. cur = None /\ since' <= now'
  BY <1>1 DEF PromptInv, IInv, CallSound, LoopSound
<1>3. /\ Range(jobs') = InTable /\ batch' \in Seq(Jobs) /\ IsInjective(batch')
      /\ Range(batch') = { j \in InTable : ShouldRun(j) }
  BY <1>1, TakeRunnableFacts DEF PromptInv, IInv, TableSound
<1>4. ASSUME NEW j \in Jobs, Awaits(j)' PROVE OnTime(j)'
  <2>1. j \in InTable /\ Awaits(j)
    BY <1>1, <1>2, <1>3, <1>4 DEF Awaits, InTable
  <2>2. CASE j \notin Range(batch')
    <3>1. ~ShouldRun(j)
      BY <1>3, <2>1, <2>2
    <3>2. now \in Int /\ nextRun[j] \in Int
      BY DEF PromptInv, IInv, TypeOK
    <3>3. nextRun[j] >= now
      <4>1. Unix(now) \in Int /\ Unix(nextRun[j]) \in Int
        BY <3>2, TicksAssumption, DivisionBounds DEF Unix
      <4>2. nextRun[j] <= now => Unix(nextRun[j]) <= Unix(now)
        BY <3>2, UnixMonotone
      <4>3. QED
        BY <3>1, <3>2, <4>1, <4>2 DEF ShouldRun
    <3>4. Fresh(j)'
      BY <1>1, <1>2, <1>4, <2>2, <3>3 DEF Fresh, Awaits
    <3>5. QED
      BY <3>4, FreshIsOnTimeNext
  <2>3. CASE j \in Range(batch')
    <3>1. now <= Due(j) + Later(Second, Round)
      BY <1>1, <2>1 DEF PromptInv, LoopSound, OnTime
    <3>2. Due(j)' = Due(j) /\ Free' = now + 0
      BY <1>1, <1>2 DEF Due, Free, Rest
    <3>3. /\ now \in Nat /\ Due(j) \in Int /\ Round \in Nat
          /\ Later(Second, Round) \in Nat
      BY Numbers DEF PromptInv
    <3>4. ASSUME NEW k \in 1 .. Len(batch')
          PROVE  Free' + CallTime(k - 1) <= Due(j) + Later(Second, Round) + Round
      <4>1. Range(batch') \subseteq Jobs /\ Len(batch') \in Nat
        BY <1>3, RangeOfSeq
      <4>2. Len(batch') <= Cardinality(Jobs)
        BY <1>3, <4>1, InjectiveLength
      <4>3. k - 1 \in Nat /\ k - 1 <= Cardinality(Jobs) - 1 /\ Cardinality(Jobs) - 1 \in Nat
        <5>1. Cardinality(Jobs) - 1 \in Nat /\ Cardinality(Jobs) \in Nat
          BY RoundFacts, FS_CardinalityType
        <5>2. k \in Nat /\ 1 <= k /\ k <= Cardinality(Jobs)
          BY <4>1, <4>2, <5>1
        <5>3. QED
          BY <5>1, <5>2
      <4>4. CallTime(k - 1) \in Nat /\ CallTime(k - 1) <= Round
        BY <4>3, RoundFacts, CallTimeFacts
      <4>5. QED
        BY <3>1, <3>2, <3>3, <4>4
    <3>5. QED
      BY <1>1, <2>3, <3>2, <3>4 DEF OnTime
  <2>4. QED
    BY <2>2, <2>3
<1>5. QED
  BY <1>1, <1>2, <1>4 DEF LoopSound

(* Start makes the ticker from which the waiting is counted. *)
LEMMA StartInTime ==
  ASSUME PromptInv, Start
  PROVE  LoopSound'
<1>1. /\ tick' = FALSE /\ since' = now /\ now' = now /\ mode' = "none"
      /\ batch' = <<>> /\ nextRun' = nextRun /\ nextRun \in [Jobs -> Int] /\ now \in Nat
  BY DEF Start, Idle, batchVars, times, PromptInv, IInv, BatchSound, TypeOK
<1>2. ASSUME NEW j \in Jobs PROVE OnTime(j)'
  <2>1. Due(j)' = Later(nextRun[j], now)
    BY <1>1 DEF Due
  <2>2. Later(nextRun[j], now) \in Int /\ Later(nextRun[j], now) >= now
    <3>1. nextRun[j] \in Int /\ now \in Int
      BY <1>1
    <3>2. QED
      BY <3>1, LaterFacts
  <2>3. NoTickMissed(j)'
    <3>1. SUFFICES ASSUME NEW k \in Nat, now + k * Second <= now
                   PROVE  now + k * Second <= Later(nextRun[j], now)
      BY <1>1, <2>1 DEF NoTickMissed
    <3>2. k * Second \in Int
      BY TicksAssumption
    <3>3. QED
      BY <1>1, <2>2, <3>1, <3>2
  <2>4. QED
    BY <1>1, <2>3 DEF OnTime
<1>3. QED
  BY <1>1, <1>2 DEF LoopSound

(* A job that has missed no tick is due less than a second ago. *)
LEMMA NextTickSoon ==
  ASSUME now \in Nat, since \in Nat, since <= now,
         NEW j, Due(j) \in Int, NoTickMissed(j)
  PROVE  now + 1 <= Due(j) + Second
<1> DEFINE k == (now - since) \div Second
<1>1. now - since \in Nat /\ Second \in Nat \ {0}
  BY TicksAssumption
<1>2. k \in Int /\ Second * k <= now - since /\ now - since < Second * k + Second
  BY <1>1, DivisionBounds
<1> HIDE DEF k
<1>3. k \in Nat
  <2>1. SUFFICES ASSUME k < 0 PROVE FALSE
    BY <1>2
  <2>2. k + 1 <= 0
    BY <1>2, <2>1
  <2>3. Second * (k + 1) <= 0
    BY <1>1, <1>2, <2>2
  <2>4. QED
    BY <1>1, <1>2, <2>3
<1>4. k * Second = Second * k /\ k * Second \in Nat
  BY <1>1, <1>3
<1>5. since + k * Second <= Due(j)
  BY <1>2, <1>3, <1>4 DEF NoTickMissed
<1>6. QED
  BY <1>1, <1>2, <1>4, <1>5

(* When the clock moves on, either the loop waits and a tick is due within *)
(* a second of the last, or a function runs and has one tick less to run.  *)
LEMMA TimeInTime ==
  ASSUME IsFiniteSet(Jobs), PromptInv, CallShort', IInv', Prompt, TimePasses, loop'
  PROVE  LoopSound'
<1>1. /\ halted = "no" /\ loop /\ now' = now + 1 /\ batch' = batch /\ mode' = mode
      /\ cur' = cur /\ since' = since /\ jobs' = jobs /\ config' = config
      /\ nextRun' = nextRun /\ lastRun' = lastRun
      /\ tick' = (tick \/ (now' - since) % Second = 0)
  BY DEF TimePasses, table, times, batchVars
<1>2. now \in Nat /\ since \in Nat /\ since <= now /\ mode # "all" /\ Second \in Nat \ {0}
  BY <1>1, TicksAssumption DEF PromptInv, IInv, TypeOK, LoopSound
<1>3. since' <= now' /\ mode' # "all"
  BY <1>1, <1>2
<1>4. ASSUME NEW j \in Jobs, Awaits(j)' PROVE OnTime(j)'
  <2>1. OnTime(j)
    <3>1. Awaits(j)
      BY <1>1, <1>4 DEF Awaits, InTable
    <3>2. QED
      BY <1>1, <3>1 DEF PromptInv, LoopSound
  <2>2. Due(j)' = Due(j)
    BY <1>1 DEF Due
  <2>3. /\ Due(j) \in Int /\ Round \in Nat /\ Later(Second, Round) \in Nat
        /\ Later(Second, Round) >= Second
    BY Numbers DEF PromptInv
  <2>4. NoTickMissed(j) /\ ~tick' => NoTickMissed(j)'
    <3>1. SUFFICES ASSUME NoTickMissed(j), ~tick', NEW k \in Nat,
                          since + k * Second <= now + 1
                   PROVE  since + k * Second <= Due(j)
      BY <1>1, <2>2 DEF NoTickMissed
    <3>2. k * Second \in Nat
      BY <1>2
    <3>3. CASE since + k * Second <= now
      BY <3>1, <3>3 DEF NoTickMissed
    <3>4. CASE since + k * Second = now + 1
      <4>1. now' - since = k * Second
        BY <1>1, <1>2, <3>2, <3>4
      <4>2. (now' - since) % Second = 0
        BY <1>2, <4>1, MultipleHasNoRest
      <4>3. QED
        BY <1>1, <3>1, <4>2
    <3>5. QED
      BY <1>2, <3>1, <3>2, <3>3, <3>4
  <2>5. CASE mode = "none"
    <3>1. ~tick /\ batch = <<>>
      BY <1>1, <2>5 DEF Prompt, PromptInv, IInv, BatchSound
    <3>2. j \notin Range(batch) /\ Len(batch) = 0
      BY <3>1, EmptyRange
    <3>3. NoTickMissed(j)
      BY <2>1, <3>1, <3>2 DEF OnTime
    <3>4. now + 1 <= Due(j) + Later(Second, Round)
      <4>1. now + 1 <= Due(j) + Second
        BY <1>2, <2>3, <3>3, NextTickSoon
      <4>2. QED
        BY <1>2, <2>3, <4>1
    <3>5. QED
      BY <1>1, <2>2, <2>4, <2>5, <3>2, <3>3, <3>4 DEF OnTime
  <2>6. CASE mode = "pending"
    <3>1. cur # None /\ cur \in Jobs /\ lastRun[cur] \in Int /\ MaxCall \in Nat
      BY <1>2, <2>6, SchedulerAssumption DEF Prompt, PromptInv, IInv, TypeOK
    <3>2. Free' = Free
      BY <1>1, <1>2, <3>1 DEF Free, Rest
    <3>3. ~tick' => ~tick
      BY <1>1
    <3>4. QED
      BY <1>1, <2>1, <2>2, <2>4, <2>6, <3>2, <3>3 DEF OnTime
  <2>7. QED
    BY <1>2, <2>5, <2>6 DEF PromptInv, IInv, TypeOK
<1>5. QED
  BY <1>3, <1>4 DEF LoopSound

LEMMA PromptInvKept ==
  ASSUME IsFiniteSet(Jobs), PromptInv, [PromptNext]_vars
  PROVE  PromptInv'
<1>1. IInv'
  BY PromptIsNext, StepPreserves DEF PromptInv
<1>2. CallShort'
  BY CallShortKept DEF PromptInv
<1>3. SUFFICES ASSUME halted' = "no", loop' PROVE LoopSound'
  BY <1>1, <1>2 DEF PromptInv, LoopSound
<1>4. jobs \in Seq(Jobs) /\ TypeOK
  BY DEF PromptInv, IInv, TypeOK
<1>5. CASE UNCHANGED vars \/ Stop
  <2>1. jobs' = jobs /\ halted = "no" /\ loop
    BY <1>3, <1>5 DEF vars, Stop, table, loopVars
  <2>2. UNCHANGED <<now, config, lastRun, nextRun, mode, batch, cur, tick, since>>
    BY <1>5 DEF vars, Stop, table, times, batchVars, loopVars
  <2>3. QED
    BY <2>1, <2>2, LoopUndisturbed DEF InTable
<1>6. CASE Withdraw \/ NextRun
  <2>1. Range(jobs') \subseteq InTable
    <3>1. ASSUME NEW matching, RemoveByCondition(matching) PROVE Range(jobs') \subseteq InTable
      BY <1>4, <3>1, WithoutFacts DEF RemoveByCondition, InTable
    <3>2. CASE Withdraw
      BY <3>1, <3>2, EmptyRange DEF Withdraw, Remove, RemoveByRef, Clear
    <3>3. CASE NextRun
      BY <1>4, <3>3, SortedTableFacts DEF NextRun
    <3>4. QED
      BY <1>6, <3>2, <3>3
  <2>2. /\ UNCHANGED <<now, config, lastRun, nextRun, mode, batch, cur, tick, since>>
        /\ halted = "no" /\ loop
    BY <1>3, <1>6 DEF Withdraw, Remove, RemoveByRef, RemoveByCondition, Clear, NextRun,
       times, batchVars, loopVars
  <2>3. QED
    BY <2>1, <2>2, LoopUndisturbed
<1>7. CASE Build
  BY <1>1, <1>2, <1>3, <1>7, BuildInTime
<1>8. CASE Rebuild
  BY <1>1, <1>2, <1>3, <1>8, RebuiltInTime
<1>9. CASE RunPending \/ RunAll \/ LoopStop
  BY <1>3, <1>9 DEF RunPending, RunAll, LoopStop, Idle, loopVars
<1>10. CASE RunStep
  <2>1. ASSUME NEW j \in Jobs, NoFuncPanics(j) PROVE FALSE
    BY <1>3, <2>1 DEF NoFuncPanics
  <2>2. QED
    BY <1>1, <1>2, <1>3, <1>10, <2>1, RunInTime, FinishInTime DEF RunStep
<1>11. CASE CallReturn
  BY <1>1, <1>2, <1>3, <1>11, ReturnInTime
<1>12. CASE LoopTick
  BY <1>1, <1>2, <1>12, TickInTime
<1>13. CASE Start
  BY <1>13, StartInTime
<1>14. CASE CallPanics \/ TableFull \/ \E f \in Tasks : Scheduled(f)
  BY <1>3, <1>14 DEF CallPanics, TableFull, Scheduled
<1>15. CASE Prompt /\ TimePasses
  BY <1>1, <1>2, <1>3, <1>15, TimeInTime
<1>16. QED
  BY <1>5, <1>6, <1>7, <1>8, <1>9, <1>10, <1>11, <1>12, <1>13, <1>14, <1>15
     DEF PromptNext, ProgramStep

(* On a machine that is never behind, every job of the table is started    *)
(* within a round of the other jobs after the tick it waits for, and that  *)
(* tick is handled within a second or, when it comes during a batch,       *)
(* within a round: no schedule, removal, new job, From or Do on a job, or  *)
(* tick that was dropped makes a job later than that (541-549, 627-641).   *)
THEOREM JobsStartInTime ==
  ASSUME IsFiniteSet(Jobs)
  PROVE  PromptSpec => []LatenessBound
<1>1. Init => PromptInv
  BY InitEstablishes, SchedulerAssumption DEF Init, PromptInv, CallShort, LoopSound, Epoch
<1>2. PromptInv /\ [PromptNext]_vars => PromptInv'
  BY PromptInvKept
<1>3. PromptInv => LatenessBound
  <2>1. SUFFICES ASSUME PromptInv, halted = "no", loop, NEW j \in InTable \ {cur},
                        ~config[j].lock, config[j].task # None
                 PROVE  now <= Due(j) + Later(Second, Round) + Round
    BY DEF LatenessBound, Due
  <2>2. j \in Jobs /\ Awaits(j)
    BY <2>1, TableOfJobs DEF PromptInv, Awaits
  <2>3. OnTime(j) /\ mode # "all" /\ since <= now
    BY <2>1, <2>2 DEF PromptInv, LoopSound
  <2>4. /\ now \in Nat /\ since \in Nat /\ batch \in Seq(Jobs) /\ Len(batch) \in Nat
        /\ Free \in Nat /\ Free >= now /\ Due(j) \in Int /\ Round \in Nat
        /\ Later(Second, Round) \in Nat /\ Later(Second, Round) >= Second
    BY <2>1, <2>2, Numbers DEF PromptInv
  <2>5. CASE j \notin Range(batch) /\ mode = "pending"
    <3>1. Free + CallTime(Len(batch)) <= Due(j) + Round
      BY <2>3, <2>5 DEF OnTime
    <3>2. CallTime(Len(batch)) \in Nat
      BY <2>4, CallTimeFacts
    <3>3. QED
      BY <2>4, <3>1, <3>2
  <2>6. CASE j \in Range(batch)
    <3>1. PICK k \in 1 .. Len(batch) : batch[k] = j
      BY <2>4, <2>6, RangeOfSeq
    <3>2. Free + CallTime(k - 1) <= Due(j) + Later(Second, Round) + Round
      BY <2>3, <3>1 DEF OnTime
    <3>3. k - 1 \in Nat
      BY <2>4
    <3>4. CallTime(k - 1) \in Nat
      BY <3>3, CallTimeFacts
    <3>5. QED
      BY <2>4, <3>2, <3>4
  <2>7. CASE j \notin Range(batch) /\ mode = "none"
    <3>1. CASE tick
      BY <2>3, <2>4, <2>7, <3>1 DEF OnTime
    <3>2. CASE ~tick
      <4>1. NoTickMissed(j)
        BY <2>3, <2>7, <3>2 DEF OnTime
      <4>2. now + 1 <= Due(j) + Second
        BY <2>3, <2>4, <4>1, NextTickSoon
      <4>3. Second \in Nat
        BY TicksAssumption
      <4>4. QED
        BY <2>4, <4>2, <4>3
    <3>3. QED
      BY <3>1, <3>2
  <2>8. mode \in {"none", "pending"}
    BY <2>1, <2>3 DEF PromptInv, IInv, TypeOK
  <2>9. QED
    BY <2>5, <2>6, <2>7, <2>8
<1>4. QED
  BY <1>1, <1>2, <1>3, PTL DEF PromptSpec
=============================================================================
