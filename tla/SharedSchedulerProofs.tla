----------------------- MODULE SharedSchedulerProofs -----------------------
(***************************************************************************)
(* Proofs about SharedScheduler for any clients and any earlier jobs.      *)
(* Bounds and Arming hold whatever the goroutines do; Alone says what a    *)
(* client in Every and a loop in the sort may rely on while neither meets  *)
(* another one there.                                                      *)
(***************************************************************************)
EXTENDS SharedScheduler, FiniteSetTheorems, SequenceTheorems, TLAPS

Count == Cardinality(Entered)

Swapping(l) == loop[l] \in {"read1", "read2", "write1", "write2"}

(* The table is never longer than the jobs that entered it, and the sort   *)
(* stays within the size it has read.                                      *)
Bounds ==
  /\ size <= Count
  /\ \A c \in Clients : InEvery(c) => at[c] <= Count
  /\ \A l \in Clients :
       /\ Sorting(l) => /\ 1 <= pos[l] /\ pos[l] <= sorted[l].done + 1
                        /\ sorted[l].done < sorted[l].of
                        /\ sorted[l].of <= Cardinality(Jobs)
       /\ Swapping(l) => pos[l] >= 2
       /\ loop[l] = "scan" => pos[l] >= 1

(* A job is without its function until Do, its schedule at the epoch until *)
(* then, and a job that is called has its function.                        *)
Arming ==
  /\ Earlier \subseteq armed
  /\ \A c \in Clients :
       c \notin armed => client[c] \in {"every", "write", "grow", "do"} /\ next[c] = "epoch"
  /\ \A c \in Clients : client[c] \in {"every", "write", "grow", "do"} => c \notin armed
  /\ \A l \in Clients : loop[l] = "call" => batch[l] # <<>> /\ Head(batch[l]) \in armed

(* A client has no loop until it has called Start. *)
Started == \A c \in Clients : client[c] # "done" => loop[c] = "off"

(* What Every and the sort have read is still so.                          *)
StillSize(c) ==
  /\ InEvery(c) => at[c] = size
  /\ client[c] = "grow" => slots[size + 1] = c

StillSwaps(l) ==
  /\ Sorting(l) => sorted[l].of <= size
  /\ loop[l] \in {"read2", "write1"} => held[l][1] = slots[pos[l] - 1]
  /\ loop[l] = "write1" => held[l][2] = slots[pos[l]]
  /\ loop[l] = "write2" => slots[pos[l]] = slots[pos[l] - 1]

Alone ==
  /\ \A c, d \in Clients : InEvery(c) /\ InEvery(d) => c = d
  /\ \A l, k \in Clients : Sorting(l) /\ Sorting(k) => l = k
  /\ \A c \in Clients : StillSize(c)
  /\ \A l \in Clients : StillSwaps(l) /\ batch[l] \in Seq(Entered)

BaseInv == TypeOK /\ Bounds /\ Arming

SharedInv ==
  /\ BaseInv /\ Started
  /\ overlap \/ Alone
  /\ TableKept /\ PanicsExplained

-----------------------------------------------------------------------------
(* How many jobs there are, and how many of them have entered the table.   *)

LEMMA JobsFinite == IsFiniteSet(Jobs) /\ Cardinality(Jobs) \in Nat
  BY ClientsAssumption, FS_Union, FS_CardinalityType DEF Jobs

LEMMA CountBounded ==
  /\ Entered \in SUBSET Jobs /\ IsFiniteSet(Entered)
  /\ Count \in Nat /\ Count <= Cardinality(Jobs)
<1>1. Entered \in SUBSET Jobs
  BY DEF Entered, Jobs
<1> QED BY <1>1, JobsFinite, FS_Subset, FS_CardinalityType DEF Count

LEMMA CountBoundedNext ==
  /\ Entered' \in SUBSET Jobs /\ IsFiniteSet(Entered')
  /\ Count' \in Nat /\ Count' <= Cardinality(Jobs)
<1>1. Entered' \in SUBSET Jobs
  BY DEF Entered, Jobs
<1> QED BY <1>1, JobsFinite, FS_Subset, FS_CardinalityType DEF Count

LEMMA EnteredKept ==
  ASSUME \A c \in Clients : client'[c] \in {"do", "schedule", "start", "done"}
                              <=> client[c] \in {"do", "schedule", "start", "done"}
  PROVE  Entered' = Entered /\ Count' = Count
<1>1. Entered' = Entered
  BY DEF Entered
<1> QED BY <1>1 DEF Count

LEMMA EnteredGrows ==
  ASSUME TypeOK, NEW c \in Clients, ClientAt(c, "grow", "do")
  PROVE  /\ c \notin Entered /\ Entered' = Entered \cup {c}
         /\ Count' = Count + 1 /\ Count + 1 <= Cardinality(Jobs)
<1>1. c \notin Entered
  BY ClientsAssumption DEF ClientAt, Entered
<1>2. Entered' = Entered \cup {c}
  BY DEF TypeOK, ClientAt, Entered
<1>3. Count' = Count + 1
  BY <1>1, <1>2, CountBounded, FS_AddElement DEF Count
<1> QED BY <1>1, <1>2, <1>3, CountBoundedNext

(* A client that has not entered its job leaves room for it. *)
LEMMA RoomForOne ==
  ASSUME TypeOK, NEW c \in Clients, client[c] \in {"every", "write", "grow"}
  PROVE  Count + 1 <= Cardinality(Jobs)
<1>1. c \notin Entered
  BY ClientsAssumption DEF Entered
<1>2. Entered \cup {c} \in SUBSET Jobs
  BY CountBounded DEF Jobs
<1>3. Cardinality(Entered \cup {c}) = Count + 1
  BY <1>1, CountBounded, FS_AddElement DEF Count
<1> QED BY <1>2, <1>3, JobsFinite, FS_Subset

LEMMA SlotTypes ==
  ASSUME TypeOK, NEW k \in Int, 1 <= k, k <= Cardinality(Jobs)
  PROVE  slots[k] \in Jobs \cup {None}
<1>1. k \in Slots
  BY JobsFinite DEF Slots
<1>2. slots \in [Slots -> Jobs \cup {None}]
  BY DEF TypeOK
<1> QED BY <1>1, <1>2

(* Every step of the module, by the client, the loop or the job.           *)
LEMMA StepCases ==
  ASSUME Next, NEW P,
         \A c \in Clients : ClientStep(c) => P,
         \A l \in Clients : LoopStep(l) => P,
         \A j \in Jobs : BecomesDue(j) => P
  PROVE  P
  BY DEF Next

-----------------------------------------------------------------------------
LEMMA InitBaseInv == Init => BaseInv
<1> SUFFICES ASSUME Init PROVE BaseInv
  OBVIOUS
<1>1. Entered = Earlier
  BY DEF Init, Entered
<1>2. size = Count /\ size \in 0 .. Cardinality(Jobs)
  BY <1>1, CountBounded DEF Init, Count
<1>3. slots \in [Slots -> Jobs \cup {None}]
  <2>1. PICK order \in [1 .. size -> Earlier] :
          slots = [k \in Slots |-> IF k <= size THEN order[k] ELSE None]
    BY DEF Init
  <2>2. \A k \in Slots : k <= size => order[k] \in Jobs
    BY <1>2, <2>1 DEF Slots, Jobs
  <2> QED BY <2>1, <2>2
<1>4. TypeOK
  <2>1. next \in [Jobs -> {"epoch", "due", "later"}]
    BY DEF Init
  <2>2. armed \subseteq Jobs
    BY DEF Init, Jobs
  <2>3. batch \in [Clients -> Seq(Jobs)]
    BY DEF Init
  <2>4. at \in [Clients -> 0 .. Cardinality(Jobs)]
    BY JobsFinite DEF Init
  <2> QED BY <1>2, <1>3, <2>1, <2>2, <2>3, <2>4 DEF Init, TypeOK, NoPair
<1>5. Bounds
  BY <1>2, CountBounded DEF Init, Bounds, InEvery, Sorting, Swapping
<1>6. Arming
  BY ClientsAssumption DEF Init, Arming, Jobs
<1> QED BY <1>4, <1>5, <1>6 DEF BaseInv

(* Clients.                                                                *)
LEMMA ClientBaseInv ==
  ASSUME BaseInv, NEW c \in Clients, ClientStep(c)
  PROVE  BaseInv'
<1> USE DEF BaseInv
<1>0. Cardinality(Jobs) \in Nat /\ Count \in Nat /\ Count' \in Nat /\ Count <= Cardinality(Jobs)
  BY JobsFinite, CountBounded, CountBoundedNext
<1>1. CASE ReadSize(c)
  <2>1. Count' = Count
    BY <1>1, EnteredKept DEF ReadSize, ClientAt, TypeOK
  <2>2. TypeOK'
    BY <1>0, <1>1 DEF ReadSize, ClientAt, TypeOK, loopVars
  <2>3. Bounds'
    BY <1>0, <1>1, <2>1 DEF ReadSize, ClientAt, TypeOK, loopVars, Bounds, InEvery, Sorting, Swapping
  <2>4. Arming'
    BY <1>1 DEF ReadSize, ClientAt, TypeOK, loopVars, Arming
  <2> QED BY <2>2, <2>3, <2>4
<1>2. CASE WriteSlot(c)
  <2>1. Count' = Count
    BY <1>2, EnteredKept DEF WriteSlot, ClientAt, TypeOK
  <2>2. TypeOK'
    BY <1>0, <1>2 DEF WriteSlot, ClientAt, TypeOK, loopVars, Jobs
  <2>3. Bounds'
    BY <1>0, <1>2, <2>1 DEF WriteSlot, ClientAt, TypeOK, loopVars, Bounds, InEvery, Sorting, Swapping
  <2>4. Arming'
    BY <1>2 DEF WriteSlot, ClientAt, TypeOK, loopVars, Arming
  <2> QED BY <2>2, <2>3, <2>4
<1>3. CASE Grow(c)
  <2>1. Count' = Count + 1 /\ Count + 1 <= Cardinality(Jobs)
    BY <1>3, EnteredGrows DEF Grow
  <2>2. size' \in Nat /\ size' <= Count + 1
    BY <1>0, <1>3 DEF Grow, ClientAt, TypeOK, Bounds, InEvery
  <2>3. TypeOK'
    BY <1>0, <1>3, <2>1, <2>2 DEF Grow, ClientAt, TypeOK, loopVars
  <2>4. Bounds'
    BY <1>0, <1>3, <2>1, <2>2 DEF Grow, ClientAt, TypeOK, loopVars, Bounds, InEvery, Sorting, Swapping
  <2>5. Arming'
    BY <1>3 DEF Grow, ClientAt, TypeOK, loopVars, Arming
  <2> QED BY <2>3, <2>4, <2>5
<1>4. CASE Arm(c)
  <2>1. Count' = Count
    BY <1>4, EnteredKept DEF Arm, ClientAt, TypeOK
  <2>2. TypeOK'
    BY <1>0, <1>4 DEF Arm, ClientAt, TypeOK, loopVars, Jobs
  <2>3. Bounds'
    BY <1>0, <1>4, <2>1 DEF Arm, ClientAt, TypeOK, loopVars, Bounds, InEvery, Sorting, Swapping
  <2>4. Arming'
    BY <1>4 DEF Arm, ClientAt, TypeOK, loopVars, Arming
  <2> QED BY <2>2, <2>3, <2>4
<1>5. CASE Schedule(c)
  <2>1. Count' = Count
    BY <1>5, EnteredKept DEF Schedule, ClientAt, TypeOK
  <2>2. TypeOK'
    BY <1>0, <1>5 DEF Schedule, ClientAt, TypeOK, loopVars
  <2>3. Bounds'
    BY <1>0, <1>5, <2>1 DEF Schedule, ClientAt, TypeOK, loopVars, Bounds, InEvery, Sorting, Swapping
  <2>4. Arming'
    BY <1>5 DEF Schedule, ClientAt, TypeOK, loopVars, Arming
  <2> QED BY <2>2, <2>3, <2>4
<1>6. CASE Start(c)
  <2>1. Count' = Count
    BY <1>6, EnteredKept DEF Start, ClientAt, TypeOK
  <2>2. TypeOK'
    BY <1>0, <1>6 DEF Start, ClientAt, TypeOK
  <2>3. Bounds'
    BY <1>0, <1>6, <2>1 DEF Start, ClientAt, TypeOK, Bounds, InEvery, Sorting, Swapping
  <2>4. Arming'
    BY <1>6 DEF Start, ClientAt, TypeOK, Arming
  <2> QED BY <2>2, <2>3, <2>4
<1> QED BY <1>1, <1>2, <1>3, <1>4, <1>5, <1>6 DEF ClientStep

(* A pointer that Swap reads into one half of the pair.                    *)
LEMMA PairSet ==
  ASSUME NEW S, NEW p \in S \X S, NEW x \in S
  PROVE  [p EXCEPT ![1] = x] = <<x, p[2]>> /\ [p EXCEPT ![2] = x] = <<p[1], x>>
  OBVIOUS

LEMMA HeldSet ==
  ASSUME TypeOK, NEW l \in Clients, NEW x \in Jobs \cup {None}
  PROVE  /\ [held EXCEPT ![l][1] = x] = [held EXCEPT ![l] = <<x, held[l][2]>>]
         /\ [held EXCEPT ![l][2] = x] = [held EXCEPT ![l] = <<held[l][1], x>>]
         /\ held[l][1] \in Jobs \cup {None} /\ held[l][2] \in Jobs \cup {None}
<1>1. held[l] \in (Jobs \cup {None}) \X (Jobs \cup {None})
  BY DEF TypeOK
<1>2. [held[l] EXCEPT ![1] = x] = <<x, held[l][2]>> /\ [held[l] EXCEPT ![2] = x] = <<held[l][1], x>>
  BY <1>1, PairSet
<1> QED BY <1>1, <1>2

(* Loops.  The outer loop of the sort stays within what Len has read.      *)
LEMMA SortFromBounded ==
  ASSUME BaseInv, NEW l \in Clients, NEW i \in Nat, NEW n \in Nat, 1 <= i,
         n <= Cardinality(Jobs), SortFrom(l, i, n)
  PROVE  /\ loop' \in [Clients -> {"off", "select", "less", "read1", "read2",
                                   "write1", "write2", "scan", "run", "call"}]
         /\ sorted' \in [Clients -> [done : Nat, of : Nat]]
         /\ pos' \in [Clients -> Nat]
         /\ \A k \in Clients \ {l} :
              loop'[k] = loop[k] /\ sorted'[k] = sorted[k] /\ pos'[k] = pos[k]
         /\ \/ loop'[l] = "less" /\ pos'[l] = i /\ sorted'[l].done = i - 1 /\ sorted'[l].of = n /\ i <= n
            \/ loop'[l] = "scan" /\ pos'[l] = 1
<1> USE DEF BaseInv, TypeOK
<1>1. CASE i <= n
  <2>1. /\ loop' = [loop EXCEPT ![l] = "less"]
        /\ sorted' = [sorted EXCEPT ![l] = [done |-> i - 1, of |-> n]]
        /\ pos' = [pos EXCEPT ![l] = i]
    BY <1>1 DEF SortFrom
  <2>2. [done |-> i - 1, of |-> n] \in [done : Nat, of : Nat]
    OBVIOUS
  <2> QED BY <1>1, <2>1, <2>2
<1>2. CASE ~(i <= n)
  <2>1. /\ loop' = [loop EXCEPT ![l] = "scan"]
        /\ sorted' = [sorted EXCEPT ![l] = [done |-> 0, of |-> 0]]
        /\ pos' = [pos EXCEPT ![l] = 1]
    BY <1>2 DEF SortFrom
  <2>2. [done |-> 0, of |-> 0] \in [done : Nat, of : Nat]
    OBVIOUS
  <2> QED BY <2>1, <2>2
<1> QED BY <1>1, <1>2

LEMMA LoopKeepsClients ==
  ASSUME NEW l \in Clients, LoopStep(l)
  PROVE  /\ client' = client /\ at' = at /\ size' = size /\ armed' = armed
         /\ Entered' = Entered /\ Count' = Count
<1>1. client' = client /\ at' = at /\ size' = size /\ armed' = armed
  BY DEF LoopStep, clientVars, loopVars, Tick, Less, InPlace, ReadFirst, ReadSecond, WriteFirst,
         WriteSecond, Take, Taken, NilPanics, Run, NoFuncPanics, Return, Finish
<1> QED BY <1>1, EnteredKept

LEMMA SortBaseInv ==
  ASSUME BaseInv, NEW l \in Clients, Tick(l) \/ InPlace(l)
  PROVE  BaseInv'
<1> USE DEF BaseInv
<1>0. Cardinality(Jobs) \in Nat /\ Count \in Nat /\ Count' \in Nat /\ Count <= Cardinality(Jobs)
  BY JobsFinite, CountBounded, CountBoundedNext
<1>1. /\ client' = client /\ at' = at /\ size' = size /\ armed' = armed
      /\ Count' = Count
  BY LoopKeepsClients DEF LoopStep
<1>2. /\ slots' = slots /\ next' = next /\ held' = held /\ batch' = batch /\ halted' = halted
      /\ overlap' \in BOOLEAN
  BY DEF Tick, InPlace, TypeOK
<1>3. PICK i \in Nat, n \in Nat : 1 <= i /\ n <= Cardinality(Jobs) /\ SortFrom(l, i, n)
  <2>1. CASE Tick(l)
    <3>1. size \in Nat /\ size <= Cardinality(Jobs)
      BY <1>0 DEF TypeOK
    <3>2. SortFrom(l, 2, size)
      BY <2>1 DEF Tick
    <3> QED BY <3>1, <3>2
  <2>2. CASE InPlace(l)
    <3>1. sorted[l].done + 2 \in Nat /\ 1 <= sorted[l].done + 2 /\ sorted[l].of \in Nat
      BY DEF TypeOK
    <3>2. sorted[l].of <= Cardinality(Jobs)
      BY <2>2 DEF InPlace, Bounds, Sorting
    <3>3. SortFrom(l, sorted[l].done + 2, sorted[l].of)
      BY <2>2 DEF InPlace
    <3> QED BY <3>1, <3>2, <3>3
  <2> QED BY <2>1, <2>2
<1>4. TypeOK'
  BY <1>0, <1>1, <1>2, <1>3, SortFromBounded DEF TypeOK
<1>5. Bounds'
  <2>1. \A k \in Clients \ {l} :
          loop'[k] = loop[k] /\ sorted'[k] = sorted[k] /\ pos'[k] = pos[k]
    BY <1>3, SortFromBounded
  <2>2. \/ loop'[l] = "less" /\ pos'[l] = i /\ sorted'[l].done = i - 1 /\ sorted'[l].of = n /\ i <= n
        \/ loop'[l] = "scan" /\ pos'[l] = 1
    BY <1>3, SortFromBounded
  <2>3. size' <= Count' /\ \A c \in Clients : InEvery(c)' => at'[c] <= Count'
    BY <1>1 DEF Bounds, InEvery
  <2>4. ASSUME NEW k \in Clients
        PROVE  /\ Sorting(k)' => /\ 1 <= pos'[k] /\ pos'[k] <= sorted'[k].done + 1
                                 /\ sorted'[k].done < sorted'[k].of
                                 /\ sorted'[k].of <= Cardinality(Jobs)
               /\ Swapping(k)' => pos'[k] >= 2
               /\ loop'[k] = "scan" => pos'[k] >= 1
    <3>1. CASE k = l
      BY <1>0, <1>3, <2>2, <3>1 DEF Sorting, Swapping
    <3>2. CASE k # l
      BY <2>1, <3>2 DEF Bounds, Sorting, Swapping
    <3> QED BY <3>1, <3>2
  <2> QED BY <2>3, <2>4 DEF Bounds
<1>6. Arming'
  BY <1>1, <1>2, <1>3, SortFromBounded DEF Arming
<1> QED BY <1>4, <1>5, <1>6

LEMMA LoopBaseInv ==
  ASSUME BaseInv, NEW l \in Clients, LoopStep(l)
  PROVE  BaseInv'
<1> USE DEF BaseInv
<1>0. Cardinality(Jobs) \in Nat /\ Count \in Nat /\ Count' \in Nat /\ Count <= Cardinality(Jobs)
  BY JobsFinite, CountBounded, CountBoundedNext
<1>1. /\ client' = client /\ at' = at /\ size' = size /\ armed' = armed
      /\ Count' = Count
  BY LoopKeepsClients
<1>2. CASE Tick(l) \/ InPlace(l)
  BY <1>2, SortBaseInv
<1>10. Sorting(l) => pos[l] \in 1 .. Cardinality(Jobs)
  BY <1>0 DEF Bounds, TypeOK, Sorting
<1>11. Swapping(l) => pos[l] >= 2 /\ Sorting(l)
  BY DEF Bounds, Swapping, Sorting
<1>20. CASE Less(l)
  <2>1. TypeOK'
    BY <1>0, <1>1, <1>20 DEF Less, LoopAt, TypeOK, loopVars, NoPair
  <2>2. Bounds'
    BY <1>0, <1>1, <1>20 DEF Less, LoopAt, TypeOK, loopVars, Bounds, InEvery, Sorting, Swapping
  <2>3. Arming'
    BY <1>1, <1>20 DEF Less, LoopAt, TypeOK, loopVars, Arming
  <2> QED BY <2>1, <2>2, <2>3
<1>21. CASE ReadFirst(l)
  <2>0. slots[pos[l] - 1] \in Jobs \cup {None}
    <3>1. pos[l] \in 1 .. Cardinality(Jobs) /\ pos[l] >= 2
      BY <1>10, <1>11, <1>21 DEF ReadFirst, LoopAt, Swapping
    <3> QED BY <1>0, <3>1, SlotTypes
  <2>1. TypeOK'
    <3>1. held' \in [Clients -> (Jobs \cup {None}) \X (Jobs \cup {None})]
      <4>1. held' = [held EXCEPT ![l] = <<slots[pos[l] - 1], held[l][2]>>]
        BY <1>21, <2>0, HeldSet DEF ReadFirst
      <4>2. <<slots[pos[l] - 1], held[l][2]>> \in (Jobs \cup {None}) \X (Jobs \cup {None})
        BY <2>0, HeldSet
      <4>3. held \in [Clients -> (Jobs \cup {None}) \X (Jobs \cup {None})]
        BY DEF TypeOK
      <4> QED BY <4>1, <4>2, <4>3
    <3> QED BY <1>1, <1>21, <3>1 DEF ReadFirst, LoopAt, TypeOK
  <2>2. Bounds'
    BY <1>0, <1>1, <1>21, <2>0 DEF ReadFirst, LoopAt, TypeOK, loopVars, Bounds, InEvery, Sorting, Swapping
  <2>3. Arming'
    BY <1>1, <1>21, <2>0 DEF ReadFirst, LoopAt, TypeOK, loopVars, Arming
  <2> QED BY <2>1, <2>2, <2>3
<1>22. CASE ReadSecond(l)
  <2>0. slots[pos[l]] \in Jobs \cup {None}
    <3>1. pos[l] \in 1 .. Cardinality(Jobs) /\ pos[l] >= 2
      BY <1>10, <1>11, <1>22 DEF ReadSecond, LoopAt, Swapping
    <3> QED BY <1>0, <3>1, SlotTypes
  <2>1. TypeOK'
    <3>1. held' \in [Clients -> (Jobs \cup {None}) \X (Jobs \cup {None})]
      <4>1. held' = [held EXCEPT ![l] = <<held[l][1], slots[pos[l]]>>]
        BY <1>22, <2>0, HeldSet DEF ReadSecond
      <4>2. <<held[l][1], slots[pos[l]]>> \in (Jobs \cup {None}) \X (Jobs \cup {None})
        BY <2>0, HeldSet
      <4>3. held \in [Clients -> (Jobs \cup {None}) \X (Jobs \cup {None})]
        BY DEF TypeOK
      <4> QED BY <4>1, <4>2, <4>3
    <3> QED BY <1>1, <1>22, <3>1 DEF ReadSecond, LoopAt, TypeOK
  <2>2. Bounds'
    BY <1>0, <1>1, <1>22, <2>0 DEF ReadSecond, LoopAt, TypeOK, loopVars, Bounds, InEvery, Sorting, Swapping
  <2>3. Arming'
    BY <1>1, <1>22, <2>0 DEF ReadSecond, LoopAt, TypeOK, loopVars, Arming
  <2> QED BY <2>1, <2>2, <2>3
<1>23. CASE WriteFirst(l)
  <2>1. TypeOK'
    BY <1>0, <1>1, <1>23 DEF WriteFirst, LoopAt, TypeOK, loopVars, NoPair
  <2>2. Bounds'
    BY <1>0, <1>1, <1>23 DEF WriteFirst, LoopAt, TypeOK, loopVars, Bounds, InEvery, Sorting, Swapping
  <2>3. Arming'
    BY <1>1, <1>23 DEF WriteFirst, LoopAt, TypeOK, loopVars, Arming
  <2> QED BY <2>1, <2>2, <2>3
<1>24. CASE WriteSecond(l)
  <2>0. pos[l] - 1 \in Nat /\ pos[l] - 1 >= 1
    BY <1>11, <1>24 DEF WriteSecond, LoopAt, Swapping, TypeOK
  <2>1. TypeOK'
    BY <1>0, <1>1, <1>24, <2>0 DEF WriteSecond, LoopAt, TypeOK, loopVars, NoPair
  <2>2. Bounds'
    BY <1>0, <1>1, <1>24, <2>0 DEF WriteSecond, LoopAt, TypeOK, loopVars, Bounds, InEvery, Sorting, Swapping
  <2>3. Arming'
    BY <1>1, <1>24, <2>0 DEF WriteSecond, LoopAt, TypeOK, loopVars, Arming
  <2> QED BY <2>1, <2>2, <2>3
<1>25. CASE Take(l)
  <2>0. slots[pos[l]] \in Jobs
    <3>1. pos[l] \in Nat /\ 1 <= pos[l] /\ pos[l] <= Cardinality(Jobs)
      BY <1>0, <1>25 DEF Take, TypeOK, Bounds
    <3> QED BY <1>25, <3>1, SlotTypes DEF Take
  <2>1. TypeOK'
    <3>1. Append(batch[l], slots[pos[l]]) \in Seq(Jobs) /\ pos[l] + 1 \in Nat
      BY <2>0 DEF TypeOK
    <3> QED BY <1>1, <1>25, <3>1 DEF Take, TypeOK
  <2>2. Bounds'
    <3>1. pos'[l] = pos[l] + 1 /\ pos[l] \in Nat /\ loop[l] = "scan" /\ loop' = loop /\ sorted' = sorted
          /\ \A k \in Clients \ {l} : pos'[k] = pos[k]
      BY <1>25 DEF Take, TypeOK
    <3> QED BY <1>1, <3>1 DEF Bounds, InEvery, Sorting, Swapping
  <2>3. Arming'
    BY <1>1, <1>25, <2>0 DEF Take, LoopAt, TypeOK, loopVars, Arming
  <2> QED BY <2>1, <2>2, <2>3
<1>26. CASE Taken(l)
  <2>1. TypeOK'
    BY <1>0, <1>1, <1>26 DEF Taken, LoopAt, TypeOK, loopVars, NoPair
  <2>2. Bounds'
    BY <1>0, <1>1, <1>26 DEF Taken, LoopAt, TypeOK, loopVars, Bounds, InEvery, Sorting, Swapping
  <2>3. Arming'
    BY <1>1, <1>26 DEF Taken, LoopAt, TypeOK, loopVars, Arming
  <2> QED BY <2>1, <2>2, <2>3
<1>27. CASE NilPanics(l)
  <2>1. TypeOK'
    BY <1>0, <1>1, <1>27 DEF NilPanics, LoopAt, TypeOK, loopVars, NoPair
  <2>2. Bounds'
    BY <1>0, <1>1, <1>27 DEF NilPanics, LoopAt, TypeOK, loopVars, Bounds, InEvery, Sorting, Swapping
  <2>3. Arming'
    BY <1>1, <1>27 DEF NilPanics, LoopAt, TypeOK, loopVars, Arming
  <2> QED BY <2>1, <2>2, <2>3
<1>28. CASE Run(l)
  <2>1. TypeOK'
    BY <1>0, <1>1, <1>28 DEF Run, LoopAt, TypeOK, loopVars, NoPair
  <2>2. Bounds'
    BY <1>0, <1>1, <1>28 DEF Run, LoopAt, TypeOK, loopVars, Bounds, InEvery, Sorting, Swapping
  <2>3. Arming'
    BY <1>1, <1>28 DEF Run, LoopAt, TypeOK, loopVars, Arming
  <2> QED BY <2>1, <2>2, <2>3
<1>29. CASE NoFuncPanics(l)
  <2>1. TypeOK'
    BY <1>0, <1>1, <1>29 DEF NoFuncPanics, LoopAt, TypeOK, loopVars, NoPair
  <2>2. Bounds'
    BY <1>0, <1>1, <1>29 DEF NoFuncPanics, LoopAt, TypeOK, loopVars, Bounds, InEvery, Sorting, Swapping
  <2>3. Arming'
    BY <1>1, <1>29 DEF NoFuncPanics, LoopAt, TypeOK, loopVars, Arming
  <2> QED BY <2>1, <2>2, <2>3
<1>30. CASE Return(l)
  <2>0. batch[l] # <<>> /\ Head(batch[l]) \in armed /\ Tail(batch[l]) \in Seq(Jobs)
    BY <1>30 DEF Return, LoopAt, Arming, TypeOK
  <2>1. TypeOK'
    BY <1>0, <1>1, <1>30, <2>0 DEF Return, LoopAt, TypeOK, loopVars, NoPair
  <2>2. Bounds'
    BY <1>0, <1>1, <1>30, <2>0 DEF Return, LoopAt, TypeOK, loopVars, Bounds, InEvery, Sorting, Swapping
  <2>3. Arming'
    BY <1>1, <1>30, <2>0 DEF Return, LoopAt, TypeOK, loopVars, Arming
  <2> QED BY <2>1, <2>2, <2>3
<1>31. CASE Finish(l)
  <2>1. TypeOK'
    BY <1>0, <1>1, <1>31 DEF Finish, LoopAt, TypeOK, loopVars, NoPair
  <2>2. Bounds'
    BY <1>0, <1>1, <1>31 DEF Finish, LoopAt, TypeOK, loopVars, Bounds, InEvery, Sorting, Swapping
  <2>3. Arming'
    BY <1>1, <1>31 DEF Finish, LoopAt, TypeOK, loopVars, Arming
  <2> QED BY <2>1, <2>2, <2>3
<1> QED BY <1>2, <1>20, <1>21, <1>22, <1>23, <1>24, <1>25, <1>26, <1>27, <1>28, <1>29, <1>30, <1>31 DEF LoopStep

LEMMA BaseStep == BaseInv /\ [Next]_vars => BaseInv'
<1> SUFFICES ASSUME BaseInv, [Next]_vars PROVE BaseInv'
  OBVIOUS
<1>1. CASE UNCHANGED vars
  BY <1>1 DEF vars, clientVars, loopVars, BaseInv, TypeOK, Bounds, Count, Entered, InEvery, Sorting,
              Swapping, Arming
<1>2. CASE Next
  <2>1. ASSUME NEW j \in Jobs, BecomesDue(j) PROVE BaseInv'
    <3>1. Count' = Count
      BY <2>1, EnteredKept DEF BecomesDue, clientVars
    <3>2. TypeOK'
      BY <2>1 DEF BecomesDue, clientVars, loopVars, BaseInv, TypeOK
    <3>3. Bounds'
      BY <2>1, <3>1 DEF BecomesDue, clientVars, loopVars, BaseInv, Bounds, InEvery, Sorting, Swapping
    <3>4. Arming'
      BY <2>1 DEF BecomesDue, clientVars, loopVars, BaseInv, TypeOK, Arming
    <3> QED BY <3>2, <3>3, <3>4 DEF BaseInv
  <2> QED BY <1>2, <2>1, ClientBaseInv, LoopBaseInv, StepCases
<1> QED BY <1>1, <1>2

LEMMA StartedStep == BaseInv /\ Started /\ [Next]_vars => Started'
<1> SUFFICES ASSUME BaseInv, Started, [Next]_vars PROVE Started'
  OBVIOUS
<1> USE DEF BaseInv, TypeOK, Started
<1>1. CASE UNCHANGED vars
  BY <1>1 DEF vars, clientVars, loopVars
<1>2. CASE Next
  <2>1. ASSUME NEW c \in Clients, ClientStep(c) PROVE Started'
    BY <2>1 DEF ClientStep, ClientAt, ReadSize, WriteSlot, Grow, Arm, Schedule, Start, loopVars
  <2>2. ASSUME NEW l \in Clients, LoopStep(l) PROVE Started'
    <3>1. loop[l] # "off" /\ client' = client
      BY <2>2, LoopKeepsClients DEF LoopStep, LoopAt, Tick, Less, InPlace, ReadFirst, ReadSecond,
         WriteFirst, WriteSecond, Take, Taken, NilPanics, Run, NoFuncPanics, Return, Finish
    <3>2. \A k \in Clients \ {l} : loop'[k] = loop[k]
      BY <2>2 DEF LoopStep, LoopAt, SortFrom, Tick, Less, InPlace, ReadFirst, ReadSecond, loopVars,
         WriteFirst, WriteSecond, Take, Taken, NilPanics, Run, NoFuncPanics, Return, Finish
    <3> QED BY <3>1, <3>2
  <2>3. ASSUME NEW j \in Jobs, BecomesDue(j) PROVE Started'
    BY <2>3 DEF BecomesDue, clientVars, loopVars
  <2> QED BY <1>2, <2>1, <2>2, <2>3, StepCases
<1> QED BY <1>1, <1>2

(* Every step keeps every value in the range of its variable, however the  *)
(* goroutines interleave: the table never outgrows the array that has room *)
(* for every job (lines 533-538), and a sort never reads behind the size   *)
(* it was given (lines 103-105).                                           *)
THEOREM SharedTypeOK == Spec => []TypeOK
<1>1. Init /\ [][Next]_vars => []BaseInv
  BY InitBaseInv, BaseStep, PTL
<1>2. BaseInv => TypeOK
  BY DEF BaseInv
<1> QED BY <1>1, <1>2, PTL DEF Spec

-----------------------------------------------------------------------------
(* The table while a swap is under way.                                    *)

Writing(l, k) == loop[l] = "write2" /\ pos[l] = k + 1

LEMMA RestoredSettled ==
  ASSUME NEW k
  PROVE  /\ (\A l \in Clients : ~Writing(l, k)) => Restored(k) = slots[k]
         /\ (\A l \in Clients : ~Writing(l, k)') => Restored(k)' = slots'[k]
  BY DEF Restored, Writing

LEMMA RestoredWriting ==
  ASSUME Alone, NEW k, NEW l \in Clients, Writing(l, k)
  PROVE  Restored(k) = held[l][2]
<1> DEFINE m == CHOOSE m \in Clients : loop[m] = "write2" /\ pos[m] = k + 1
<1>1. m \in Clients /\ loop[m] = "write2"
  BY DEF Writing
<1>2. m = l
  BY <1>1 DEF Alone, Sorting, Writing
<1> QED BY <1>2 DEF Restored, Writing

(* The same of the state after a step.                                     *)
LEMMA RestoredWritingNext ==
  ASSUME Alone', NEW k, NEW l \in Clients, Writing(l, k)'
  PROVE  Restored(k)' = held'[l][2]
<1> DEFINE m == CHOOSE m \in Clients : loop'[m] = "write2" /\ pos'[m] = k + 1
<1>1. m \in Clients /\ loop'[m] = "write2"
  BY DEF Writing
<1>2. m = l
  BY <1>1 DEF Alone, Sorting, Writing
<1> QED BY <1>2 DEF Restored, Writing

LEMMA RestoredSteady ==
  ASSUME Alone, Alone', NEW k, slots'[k] = slots[k],
         \A l \in Clients : loop'[l] = "write2" <=> loop[l] = "write2",
         \A l \in Clients : loop[l] = "write2" => pos'[l] = pos[l] /\ held'[l] = held[l]
  PROVE  Restored(k)' = Restored(k)
<1>1. CASE \E l \in Clients : Writing(l, k)
  <2>1. PICK l \in Clients : Writing(l, k)
    BY <1>1
  <2>2. Writing(l, k)' /\ held'[l] = held[l]
    BY <2>1 DEF Writing
  <2> QED BY <2>1, <2>2, RestoredWriting, RestoredWritingNext
<1>2. CASE \A l \in Clients : ~Writing(l, k)
  <2>1. \A l \in Clients : ~Writing(l, k)'
    BY <1>2 DEF Writing
  <2> QED BY <1>2, <2>1, RestoredSettled
<1> QED BY <1>1, <1>2

(* What a step does to it.                                                 *)
SameTable == size' = size /\ \A k \in 1 .. size : Restored(k)' = Restored(k)

GrownBy(c) ==
  /\ c \notin Entered /\ size' = size + 1
  /\ \A k \in 1 .. size + 1 : Restored(k)' = IF k = size + 1 THEN c ELSE Restored(k)

Exchanged ==
  /\ size' = size
  /\ \E i \in 2 .. size : \A k \in 1 .. size :
       Restored(k)' = IF k = i THEN Restored(i - 1) ELSE IF k = i - 1 THEN Restored(i) ELSE Restored(k)

LEMMA TableSteady ==
  ASSUME ~overlap, TableKept, size' = size, Entered' = Entered,
         \A k \in 1 .. size : Restored(k)' = Restored(k)
  PROVE  TableKept'
<1>1. size = Cardinality(Entered) /\ { Restored(k) : k \in 1 .. size } = Entered
  BY DEF TableKept
<1>2. { Restored(k)' : k \in 1 .. size' } = { Restored(k) : k \in 1 .. size }
  OBVIOUS
<1>3. size' = Cardinality(Entered') /\ { Restored(k)' : k \in 1 .. size' } = Entered'
  BY <1>1, <1>2
<1> QED BY <1>3 DEF TableKept

(* Every slot within the size holds a job that has entered, also while a   *)
(* swap has written only one of its two.                                   *)
LEMMA SlotEntered ==
  ASSUME BaseInv, Alone, ~overlap, TableKept, NEW k \in 1 .. size
  PROVE  slots[k] \in Entered /\ slots[k] # None
<1>0. \A i \in 1 .. size : Restored(i) \in Entered
  BY DEF TableKept
<1>1. CASE \E l \in Clients : Writing(l, k)
  <2>1. PICK l \in Clients : Writing(l, k)
    BY <1>1
  <2>2. pos[l] \in 1 .. size /\ pos[l] - 1 = k /\ size \in Nat
    BY <2>1 DEF Writing, BaseInv, Bounds, Alone, StillSwaps, Sorting, TypeOK
  <2>3. slots[k] = slots[pos[l]]
    BY <2>1, <2>2 DEF Writing, Alone, StillSwaps
  <2>4. \A m \in Clients : ~Writing(m, pos[l])
    BY <2>1, <2>2 DEF Writing, Alone, Sorting
  <2>5. Restored(pos[l]) = slots[pos[l]]
    BY <2>4, RestoredSettled
  <2> QED BY <1>0, <2>2, <2>3, <2>5, ClientsAssumption DEF Entered
<1>2. CASE \A l \in Clients : ~Writing(l, k)
  BY <1>0, <1>2, RestoredSettled, ClientsAssumption DEF Entered
<1> QED BY <1>1, <1>2

(* A step of the loop l keeps Alone when it keeps what l relies on and     *)
(* leaves the table as another loop that sorts has read it.                *)
LEMMA AloneLoop ==
  ASSUME Alone, NEW l \in Clients,
         client' = client, at' = at, size' = size, Entered' = Entered,
         \A c \in Clients : client[c] = "grow" => slots'[size + 1] = slots[size + 1],
         \A k \in Clients \ {l} :
           /\ loop'[k] = loop[k] /\ sorted'[k] = sorted[k] /\ pos'[k] = pos[k]
           /\ held'[k] = held[k] /\ batch'[k] = batch[k],
         \A k \in Clients \ {l} : Sorting(k) => slots' = slots /\ ~Sorting(l)',
         StillSwaps(l)', batch'[l] \in Seq(Entered)
  PROVE  Alone'
<1>1. \A c, d \in Clients : InEvery(c)' /\ InEvery(d)' => c = d
  BY DEF Alone, InEvery
<1>2. \A i, k \in Clients : Sorting(i)' /\ Sorting(k)' => i = k
  BY DEF Alone, Sorting
<1>3. \A c \in Clients : StillSize(c)'
  BY DEF Alone, StillSize, InEvery
<1>4. ASSUME NEW k \in Clients PROVE StillSwaps(k)' /\ batch'[k] \in Seq(Entered')
  <2>1. CASE k # l /\ Sorting(k)
    BY <2>1 DEF Alone, StillSwaps, Sorting
  <2>2. CASE k # l /\ ~Sorting(k)
    BY <2>2 DEF Alone, StillSwaps, Sorting
  <2> QED BY <2>1, <2>2
<1> QED BY <1>1, <1>2, <1>3, <1>4 DEF Alone

-----------------------------------------------------------------------------
LEMMA InitSharedInv == Init => SharedInv
<1> SUFFICES ASSUME Init PROVE SharedInv
  OBVIOUS
<1>1. BaseInv
  BY InitBaseInv
<1>2. Started
  BY DEF Init, Started
<1>3. Entered = Earlier /\ size = Cardinality(Earlier) /\ size \in Nat /\ size <= Cardinality(Jobs)
  BY CountBounded DEF Init, Entered, Count
<1>4. Alone
  BY DEF Init, Alone, InEvery, Sorting, StillSize, StillSwaps
<1>5. { Restored(k) : k \in 1 .. size } = Earlier
  <2>1. PICK order \in [1 .. size -> Earlier] :
          /\ \A j \in Earlier : \E k \in 1 .. size : order[k] = j
          /\ slots = [k \in Slots |-> IF k <= size THEN order[k] ELSE None]
    BY DEF Init
  <2>2. ASSUME NEW k \in 1 .. size PROVE Restored(k) = order[k]
    <3>1. Restored(k) = slots[k]
      BY RestoredSettled DEF Init, Writing
    <3>2. k \in Slots
      BY <1>3, JobsFinite DEF Slots
    <3> QED BY <2>1, <3>1, <3>2
  <2> QED BY <2>1, <2>2
<1> QED BY <1>1, <1>2, <1>3, <1>4, <1>5 DEF SharedInv, TableKept, PanicsExplained, Init

(* What a client does in Every ... Do, Start, unless it meets another.     *)
LEMMA ClientAlone ==
  ASSUME SharedInv, ~overlap, NEW c \in Clients, ClientStep(c), ~overlap'
  PROVE  Alone' /\ TableKept' /\ (SameTable \/ GrownBy(c))
<1> USE DEF SharedInv
<1>0. Alone /\ TypeOK /\ size \in Nat /\ Cardinality(Jobs) \in Nat /\ size <= Count /\ Count \in Nat
  BY CountBounded, JobsFinite DEF BaseInv, TypeOK, Bounds
<1>1. CASE ReadSize(c)
  <2>1. Entered' = Entered
    BY <1>0, <1>1, EnteredKept DEF ReadSize, ClientAt, TypeOK
  <2>2. \A d \in Clients \ {c} : ~InEvery(d) /\ ~InEvery(d)'
    BY <1>0, <1>1 DEF ReadSize, ClientAt, TypeOK, InEvery
  <2>3. Alone'
    <3>1. \A d \in Clients : StillSize(d)'
      BY <1>0, <1>1, <2>2 DEF ReadSize, ClientAt, TypeOK, InEvery, StillSize
    <3>2. \A l \in Clients : StillSwaps(l)' /\ batch'[l] \in Seq(Entered')
      BY <1>0, <1>1, <2>1 DEF ReadSize, loopVars, Alone, Sorting, StillSwaps
    <3>3. \A l, k \in Clients : Sorting(l)' /\ Sorting(k)' => l = k
      BY <1>0, <1>1 DEF ReadSize, loopVars, Alone, Sorting
    <3> QED BY <2>2, <3>1, <3>2, <3>3 DEF Alone
  <2>4. \A k : Restored(k)' = Restored(k)
    BY <1>1 DEF ReadSize, loopVars, Restored
  <2>5. size' = size
    BY <1>1 DEF ReadSize
  <2> QED BY <2>1, <2>3, <2>4, <2>5, TableSteady DEF SameTable
<1>2. CASE WriteSlot(c)
  <2>1. Entered' = Entered
    BY <1>0, <1>2, EnteredKept DEF WriteSlot, ClientAt, TypeOK
  <2>2. size + 1 \in Slots /\ at[c] = size
    BY <1>0, <1>2, RoomForOne DEF WriteSlot, ClientAt, Slots, Alone, StillSize, InEvery
  <2>3. slots' = [slots EXCEPT ![size + 1] = c] /\ size' = size /\ at' = at
        /\ loop' = loop /\ sorted' = sorted /\ pos' = pos /\ held' = held /\ batch' = batch
    BY <1>2, <2>2 DEF WriteSlot, loopVars
  <2>4. \A k \in 1 .. size : slots'[k] = slots[k]
    BY <1>0, <2>2, <2>3 DEF TypeOK, Slots
  <2>5. slots'[size + 1] = c
    BY <1>0, <2>2, <2>3 DEF TypeOK
  <2>6. \A d \in Clients \ {c} : ~InEvery(d) /\ ~InEvery(d)'
    BY <1>0, <1>2 DEF WriteSlot, ClientAt, TypeOK, InEvery, Alone
  <2>7. \A d \in Clients : StillSize(d)'
    BY <1>0, <2>2, <2>3, <2>5, <2>6 DEF StillSize, InEvery
  <2>8. ASSUME NEW l \in Clients PROVE StillSwaps(l)'
    <3>1. CASE Sorting(l)
      <4>1. pos[l] \in 1 .. size
        BY <1>0, <3>1 DEF BaseInv, Bounds, TypeOK, Alone, StillSwaps
      <4>2. Swapping(l) => pos[l] - 1 \in 1 .. size
        BY <1>0, <4>1 DEF BaseInv, Bounds
      <4> QED BY <1>0, <2>3, <2>4, <4>1, <4>2 DEF Alone, StillSwaps, Sorting, Swapping
    <3>2. CASE ~Sorting(l)
      BY <2>3, <3>2 DEF StillSwaps, Sorting
    <3> QED BY <3>1, <3>2
  <2>9. Alone'
    BY <1>0, <2>1, <2>3, <2>6, <2>7, <2>8 DEF Alone, Sorting
  <2>10. \A k \in 1 .. size : Restored(k)' = Restored(k)
    BY <1>0, <2>3, <2>4, <2>9, RestoredSteady
  <2> QED BY <2>1, <2>3, <2>9, <2>10, TableSteady DEF SameTable
<1>3. CASE Grow(c)
  <2>1. c \notin Entered /\ Entered' = Entered \cup {c} /\ Count' = Count + 1
    BY <1>0, <1>3, EnteredGrows DEF Grow
  <2>2. size' = size + 1 /\ slots[size + 1] = c
    BY <1>0, <1>3 DEF Grow, ClientAt, Alone, StillSize, InEvery, TypeOK
  <2>3. /\ slots' = slots /\ loop' = loop /\ sorted' = sorted /\ pos' = pos
        /\ held' = held /\ batch' = batch
    BY <1>3 DEF Grow, loopVars
  <2>4. \A d \in Clients : ~InEvery(d)'
    BY <1>0, <1>3 DEF Grow, ClientAt, TypeOK, InEvery, Alone
  <2>5. \A l \in Clients : StillSwaps(l)'
    BY <1>0, <2>2, <2>3 DEF Alone, StillSwaps, Sorting, TypeOK
  <2>6. \A l \in Clients : batch'[l] \in Seq(Entered')
    BY <1>0, <2>1, <2>3 DEF Alone
  <2>7. Alone'
    BY <1>0, <2>3, <2>4, <2>5, <2>6 DEF Alone, Sorting, StillSize, InEvery
  <2>8. \A k : Restored(k)' = Restored(k)
    BY <2>3 DEF Restored
  <2>9. Restored(size + 1) = c
    <3>1. ASSUME NEW l \in Clients, Writing(l, size + 1) PROVE FALSE
      <4>1. pos[l] \in 1 .. size /\ pos[l] = size + 2
        BY <1>0, <3>1 DEF BaseInv, Bounds, TypeOK, Alone, StillSwaps, Writing, Sorting
      <4> QED BY <1>0, <4>1
    <3> QED BY <2>2, <3>1, RestoredSettled
  <2>10. size = Count /\ { Restored(k) : k \in 1 .. size } = Entered
    BY DEF TableKept, Count
  <2>11. { Restored(k)' : k \in 1 .. size' } = Entered'
    <3>1. 1 .. size' = (1 .. size) \cup {size + 1}
      BY <1>0, <2>2
    <3> QED BY <2>1, <2>8, <2>9, <2>10, <3>1
  <2>12. TableKept'
    BY <2>1, <2>2, <2>10, <2>11 DEF TableKept, Count
  <2>13. GrownBy(c)
    BY <1>0, <2>1, <2>2, <2>8, <2>9 DEF GrownBy
  <2> QED BY <2>7, <2>12, <2>13
<1>4. CASE Arm(c)
  <2>1. Entered' = Entered
    BY <1>0, <1>4, EnteredKept DEF Arm, ClientAt, TypeOK
  <2>2. /\ slots' = slots /\ size' = size /\ at' = at /\ loop' = loop /\ sorted' = sorted
        /\ pos' = pos /\ held' = held /\ batch' = batch
    BY <1>4 DEF Arm, loopVars
  <2>3. \A d \in Clients : (InEvery(d)' <=> InEvery(d)) /\ (client'[d] = "grow" => client[d] = "grow")
    BY <1>0, <1>4 DEF Arm, ClientAt, TypeOK, InEvery
  <2>4. Alone'
    BY <1>0, <2>1, <2>2, <2>3 DEF Alone, Sorting, StillSize, StillSwaps
  <2>5. \A k : Restored(k)' = Restored(k)
    BY <2>2 DEF Restored
  <2> QED BY <2>1, <2>2, <2>4, <2>5, TableSteady DEF SameTable
<1>5. CASE Schedule(c)
  <2>1. Entered' = Entered
    BY <1>0, <1>5, EnteredKept DEF Schedule, ClientAt, TypeOK
  <2>2. /\ slots' = slots /\ size' = size /\ at' = at /\ loop' = loop /\ sorted' = sorted
        /\ pos' = pos /\ held' = held /\ batch' = batch
    BY <1>5 DEF Schedule, loopVars
  <2>3. \A d \in Clients : (InEvery(d)' <=> InEvery(d)) /\ (client'[d] = "grow" => client[d] = "grow")
    BY <1>0, <1>5 DEF Schedule, ClientAt, TypeOK, InEvery
  <2>4. Alone'
    BY <1>0, <2>1, <2>2, <2>3 DEF Alone, Sorting, StillSize, StillSwaps
  <2>5. \A k : Restored(k)' = Restored(k)
    BY <2>2 DEF Restored
  <2> QED BY <2>1, <2>2, <2>4, <2>5, TableSteady DEF SameTable
<1>6. CASE Start(c)
  <2>1. Entered' = Entered
    BY <1>0, <1>6, EnteredKept DEF Start, ClientAt, TypeOK
  <2>2. /\ slots' = slots /\ size' = size /\ at' = at /\ sorted' = sorted
        /\ pos' = pos /\ held' = held /\ batch' = batch
        /\ loop[c] = "off" /\ loop'[c] = "select" /\ \A l \in Clients \ {c} : loop'[l] = loop[l]
    BY <1>0, <1>6 DEF Start, ClientAt, Started, TypeOK
  <2>3. \A d \in Clients : (InEvery(d)' <=> InEvery(d)) /\ (client'[d] = "grow" => client[d] = "grow")
    BY <1>0, <1>6 DEF Start, ClientAt, TypeOK, InEvery
  <2>4. \A l \in Clients : (Sorting(l)' => loop'[l] = loop[l]) /\ (StillSwaps(l) => StillSwaps(l)')
    BY <2>2 DEF Sorting, StillSwaps
  <2>5. Alone'
    BY <1>0, <2>1, <2>2, <2>3, <2>4 DEF Alone, Sorting, StillSize
  <2>6. \A k : Restored(k)' = Restored(k)
    BY <1>0, <2>2, <2>5, RestoredSteady
  <2> QED BY <2>1, <2>2, <2>5, <2>6, TableSteady DEF SameTable
<1> QED BY <1>1, <1>2, <1>3, <1>4, <1>5, <1>6 DEF ClientStep

(* What a loop does in a tick, unless it meets another in the sort.        *)
LEMMA LoopFrame ==
  ASSUME TypeOK, NEW l \in Clients, LoopStep(l)
  PROVE  \A k \in Clients \ {l} :
           /\ loop'[k] = loop[k] /\ sorted'[k] = sorted[k] /\ pos'[k] = pos[k]
           /\ held'[k] = held[k] /\ batch'[k] = batch[k]
<1> USE DEF TypeOK, loopVars
<1>1. CASE Tick(l) \/ InPlace(l)
  BY <1>1 DEF Tick, InPlace, SortFrom
<1>2. CASE Less(l) \/ ReadFirst(l) \/ ReadSecond(l) \/ WriteFirst(l) \/ WriteSecond(l)
  BY <1>2 DEF LoopAt, Less, ReadFirst, ReadSecond, WriteFirst, WriteSecond
<1>3. CASE Take(l) \/ Taken(l) \/ NilPanics(l) \/ Run(l) \/ NoFuncPanics(l) \/ Return(l) \/ Finish(l)
  BY <1>3 DEF LoopAt, Take, Taken, NilPanics, Run, NoFuncPanics, Return, Finish
<1> QED BY <1>1, <1>2, <1>3 DEF LoopStep

LEMMA LoopSteady ==
  ASSUME SharedInv, ~overlap, NEW l \in Clients, LoopStep(l), slots' = slots,
         loop[l] # "write2", loop'[l] # "write2",
         Sorting(l)' => Sorting(l) \/ \A k \in Clients \ {l} : ~Sorting(k),
         StillSwaps(l)', batch'[l] \in Seq(Entered)
  PROVE  Alone' /\ TableKept' /\ SameTable
<1>0. Alone /\ TypeOK
  BY DEF SharedInv, BaseInv
<1>1. client' = client /\ at' = at /\ size' = size /\ Entered' = Entered
  BY LoopKeepsClients
<1>2. \A k \in Clients \ {l} :
        /\ loop'[k] = loop[k] /\ sorted'[k] = sorted[k] /\ pos'[k] = pos[k]
        /\ held'[k] = held[k] /\ batch'[k] = batch[k]
  BY <1>0, LoopFrame
<1>3. \A k \in Clients \ {l} : Sorting(k) => ~Sorting(l)'
  BY <1>0 DEF Alone
<1>4. Alone'
  BY <1>0, <1>1, <1>2, <1>3, AloneLoop
<1>5. \A k : Restored(k)' = Restored(k)
  BY <1>0, <1>2, <1>4, RestoredSteady
<1> QED BY <1>1, <1>4, <1>5, TableSteady DEF SharedInv, SameTable

LEMMA SharedFacts ==
  ASSUME SharedInv, ~overlap
  PROVE  /\ Alone /\ BaseInv /\ TypeOK
         /\ size \in Nat /\ Cardinality(Jobs) \in Nat /\ size <= Cardinality(Jobs)
<1>1. Alone /\ BaseInv /\ TypeOK
  BY DEF SharedInv, BaseInv
<1>2. size \in 0 .. Cardinality(Jobs)
  BY <1>1 DEF TypeOK
<1> QED BY <1>1, <1>2, JobsFinite

LEMMA SortAlone ==
  ASSUME SharedInv, ~overlap, NEW l \in Clients, Tick(l) \/ InPlace(l), ~overlap'
  PROVE  Alone' /\ TableKept' /\ SameTable
<1>0. /\ Alone /\ BaseInv /\ TypeOK
      /\ size \in Nat /\ Cardinality(Jobs) \in Nat /\ size <= Cardinality(Jobs)
  BY SharedFacts
<1>1. /\ slots' = slots /\ batch' = batch /\ size' = size /\ loop[l] # "write2" /\ LoopStep(l)
      /\ batch[l] \in Seq(Entered)
  <2>1. batch[l] \in Seq(Entered)
    BY <1>0 DEF Alone
  <2>2. LoopStep(l)
    BY DEF LoopStep
  <2>3. slots' = slots /\ batch' = batch /\ size' = size
    BY DEF Tick, InPlace
  <2>4. loop[l] # "write2"
    BY DEF Tick, InPlace
  <2> QED BY <2>1, <2>2, <2>3, <2>4
<1>2. CASE Tick(l)
  <2>1. SortFrom(l, 2, size)
    BY <1>2 DEF Tick
  <2>2. \/ loop'[l] = "less" /\ sorted'[l].of = size /\ size > 1
        \/ loop'[l] = "scan"
    <3>1. 2 \in Nat /\ 1 <= 2
      OBVIOUS
    <3>2. \/ loop'[l] = "less" /\ sorted'[l].of = size /\ 2 <= size
          \/ loop'[l] = "scan"
      BY <1>0, <2>1, <3>1, SortFromBounded
    <3> QED BY <1>0, <3>2
  <2>3. Sorting(l)' => \A k \in Clients \ {l} : ~Sorting(k)
    BY <1>2, <2>2 DEF Tick, Sorting
  <2>4. StillSwaps(l)' /\ loop'[l] # "write2"
    BY <1>0, <1>1, <2>2 DEF StillSwaps, Sorting
  <2> QED BY <1>1, <2>3, <2>4, LoopSteady
<1>3. CASE InPlace(l)
  <2>1. Sorting(l) /\ sorted[l].of <= size
    BY <1>0, <1>3 DEF InPlace, Sorting, Alone, StillSwaps
  <2>2. /\ sorted[l].done + 2 \in Nat /\ 1 <= sorted[l].done + 2 /\ sorted[l].of \in Nat
        /\ sorted[l].of <= Cardinality(Jobs)
    BY <1>0, <2>1 DEF TypeOK, BaseInv, Bounds
  <2>3. SortFrom(l, sorted[l].done + 2, sorted[l].of)
    BY <1>3 DEF InPlace
  <2>4. \/ loop'[l] = "less" /\ sorted'[l].of = sorted[l].of
        \/ loop'[l] = "scan"
    BY <1>0, <2>2, <2>3, SortFromBounded
  <2>5. StillSwaps(l)' /\ loop'[l] # "write2"
    BY <1>0, <1>1, <2>1, <2>4 DEF StillSwaps, Sorting
  <2> QED BY <1>1, <2>1, <2>5, LoopSteady
<1> QED BY <1>2, <1>3

(* The swap: two reads, two writes.                                        *)
LEMMA SwapAlone ==
  ASSUME SharedInv, ~overlap, NEW l \in Clients,
         ReadFirst(l) \/ ReadSecond(l) \/ WriteFirst(l) \/ WriteSecond(l)
  PROVE  Alone' /\ TableKept' /\ (SameTable \/ (WriteFirst(l) /\ Exchanged))
<1>0. /\ Alone /\ BaseInv /\ TypeOK
      /\ size \in Nat /\ Cardinality(Jobs) \in Nat /\ size <= Cardinality(Jobs)
  BY SharedFacts
<1>1. /\ LoopStep(l) /\ Swapping(l) /\ Sorting(l)
      /\ batch' = batch /\ batch[l] \in Seq(Entered) /\ sorted' = sorted
  <2>1. LoopStep(l)
    BY DEF LoopStep
  <2>2. Swapping(l) /\ Sorting(l) /\ batch' = batch /\ sorted' = sorted
    BY DEF ReadFirst, ReadSecond, WriteFirst, WriteSecond, LoopAt, Swapping, Sorting
  <2>3. batch[l] \in Seq(Entered)
    BY <1>0 DEF Alone
  <2> QED BY <2>1, <2>2, <2>3
<1>2. /\ pos[l] \in 1 .. size /\ pos[l] - 1 \in 1 .. size /\ sorted[l].of <= size
  <2>1. pos[l] >= 2 /\ pos[l] \in Nat /\ sorted[l].of \in Nat /\ sorted[l].done \in Nat
        /\ pos[l] <= sorted[l].done + 1 /\ sorted[l].done < sorted[l].of
    BY <1>0, <1>1 DEF BaseInv, Bounds, TypeOK
  <2>2. sorted[l].of <= size
    BY <1>0, <1>1 DEF Alone, StillSwaps
  <2> QED BY <1>0, <2>1, <2>2
<1>3. client' = client /\ at' = at /\ size' = size /\ Entered' = Entered
  BY <1>1, LoopKeepsClients
<1>4. \A k \in Clients \ {l} :
        /\ loop'[k] = loop[k] /\ sorted'[k] = sorted[k] /\ pos'[k] = pos[k]
        /\ held'[k] = held[k] /\ batch'[k] = batch[k]
  BY <1>0, <1>1, LoopFrame
<1>5. \A k \in Clients \ {l} : ~Sorting(k) /\ ~Sorting(k)'
  BY <1>0, <1>1, <1>4 DEF Alone, Sorting
<1>6. \A k \in 1 .. size : slots[k] \in Jobs \cup {None} /\ k \in Slots
  BY <1>0, SlotTypes DEF Slots
<1>7. CASE ReadFirst(l)
  <2>1. held' = [held EXCEPT ![l] = <<slots[pos[l] - 1], held[l][2]>>]
    BY <1>0, <1>2, <1>6, <1>7, HeldSet DEF ReadFirst
  <2>2. loop[l] = "read1" /\ loop'[l] = "read2" /\ pos' = pos /\ slots' = slots
        /\ held'[l][1] = slots[pos[l] - 1]
    BY <1>0, <1>7, <2>1 DEF ReadFirst, LoopAt, TypeOK
  <2>3. StillSwaps(l)'
    BY <1>1, <1>2, <1>3, <2>2 DEF StillSwaps
  <2> QED BY <1>1, <2>2, <2>3, LoopSteady
<1>8. CASE ReadSecond(l)
  <2>1. held' = [held EXCEPT ![l] = <<held[l][1], slots[pos[l]]>>]
    BY <1>0, <1>2, <1>6, <1>8, HeldSet DEF ReadSecond
  <2>2. loop[l] = "read2" /\ loop'[l] = "write1" /\ pos' = pos /\ slots' = slots
        /\ held'[l][1] = held[l][1] /\ held'[l][2] = slots[pos[l]]
    BY <1>0, <1>8, <2>1 DEF ReadSecond, LoopAt, TypeOK
  <2>3. StillSwaps(l)'
    BY <1>0, <1>1, <1>2, <1>3, <2>2 DEF StillSwaps, Alone
  <2> QED BY <1>1, <2>2, <2>3, LoopSteady
<1>9. \A c \in Clients : client[c] = "grow" => size + 1 \in Slots
  BY <1>0, RoomForOne, CountBounded DEF Slots, BaseInv, Bounds
<1>10. CASE WriteFirst(l)
  <2>1. /\ loop[l] = "write1" /\ loop'[l] = "write2" /\ pos' = pos /\ held' = held
        /\ slots' = [slots EXCEPT ![pos[l]] = held[l][1]]
    BY <1>0, <1>10 DEF WriteFirst, LoopAt, TypeOK
  <2>2. held[l][1] = slots[pos[l] - 1] /\ held[l][2] = slots[pos[l]]
    BY <1>0, <2>1 DEF Alone, StillSwaps
  <2>3. slots'[pos[l]] = slots[pos[l] - 1] /\ \A k \in Slots : k # pos[l] => slots'[k] = slots[k]
    BY <1>0, <1>2, <1>6, <2>1, <2>2 DEF TypeOK
  <2>4. StillSwaps(l)'
    BY <1>0, <1>1, <1>2, <1>3, <1>6, <2>1, <2>3 DEF StillSwaps
  <2>5. \A c \in Clients : client[c] = "grow" => slots'[size + 1] = slots[size + 1]
    BY <1>0, <1>2, <1>9, <2>3
  <2>6. Alone'
    BY <1>0, <1>1, <1>3, <1>4, <1>5, <2>4, <2>5, AloneLoop
  <2>7. \A k : Restored(k) = slots[k]
    BY <1>5, <2>1, RestoredSettled DEF Writing, Sorting
  <2>8. PICK i \in 2 .. size : i = pos[l] /\ i - 1 \in 1 .. size /\ i \in 1 .. size
    BY <1>0, <1>2
  <2>9. Restored(i - 1)' = Restored(i)
    <3>1. Writing(l, i - 1)'
      BY <1>0, <2>1, <2>8 DEF Writing
    <3> QED BY <2>1, <2>2, <2>6, <2>7, <2>8, <3>1, RestoredWritingNext
  <2>10. ASSUME NEW k \in 1 .. size, k # i - 1 PROVE Restored(k)' = slots'[k]
    <3>1. \A m \in Clients : ~Writing(m, k)'
      BY <1>0, <1>5, <2>1, <2>8, <2>10 DEF Writing, Sorting
    <3> QED BY <3>1, RestoredSettled
  <2>11. Restored(i)' = Restored(i - 1)
    BY <2>3, <2>7, <2>8, <2>10
  <2>12. ASSUME NEW k \in 1 .. size, k # i, k # i - 1 PROVE Restored(k)' = Restored(k)
    BY <1>6, <2>3, <2>7, <2>8, <2>10, <2>12
  <2>13. { Restored(k)' : k \in 1 .. size } = { Restored(k) : k \in 1 .. size }
    BY <2>8, <2>9, <2>11, <2>12
  <2>14. TableKept'
    BY <1>3, <2>13 DEF TableKept, SharedInv
  <2>15. Exchanged
    BY <1>3, <2>8, <2>9, <2>11, <2>12 DEF Exchanged
  <2> QED BY <1>10, <2>6, <2>14, <2>15
<1>11. CASE WriteSecond(l)
  <2>1. /\ loop[l] = "write2" /\ loop'[l] = "less" /\ pos'[l] = pos[l] - 1
        /\ slots' = [slots EXCEPT ![pos[l] - 1] = held[l][2]]
    BY <1>0, <1>11 DEF WriteSecond, LoopAt, TypeOK
  <2>2. slots'[pos[l] - 1] = held[l][2] /\ \A k \in Slots : k # pos[l] - 1 => slots'[k] = slots[k]
    BY <1>0, <1>2, <1>6, <2>1 DEF TypeOK
  <2>3. StillSwaps(l)'
    BY <1>1, <1>2, <1>3, <2>1 DEF StillSwaps
  <2>4. \A c \in Clients : client[c] = "grow" => slots'[size + 1] = slots[size + 1]
    BY <1>0, <1>2, <1>9, <2>2
  <2>5. Alone'
    BY <1>0, <1>1, <1>3, <1>4, <1>5, <2>3, <2>4, AloneLoop
  <2>6. \A k : Restored(k)' = slots'[k]
    BY <1>5, <2>1, RestoredSettled DEF Writing, Sorting
  <2>7. Restored(pos[l] - 1) = held[l][2]
    <3>1. Writing(l, pos[l] - 1)
      BY <1>0, <1>2, <2>1 DEF Writing
    <3> QED BY <1>0, <3>1, RestoredWriting
  <2>8. \A k \in 1 .. size : k # pos[l] - 1 => Restored(k) = slots[k]
    BY <1>0, <1>2, <1>5, RestoredSettled DEF Writing, Sorting
  <2>9. \A k \in 1 .. size : Restored(k)' = Restored(k)
    BY <1>2, <1>6, <2>2, <2>6, <2>7, <2>8
  <2> QED BY <1>3, <2>5, <2>9, TableSteady DEF SharedInv, SameTable
<1> QED BY <1>7, <1>8, <1>10, <1>11

(* A nil pointer is never met.                                             *)
LEMMA NoNil ==
  ASSUME SharedInv, ~overlap, NEW l \in Clients
  PROVE  ~NilPanics(l)
<1> SUFFICES ASSUME NilPanics(l) PROVE FALSE
  OBVIOUS
<1>0. /\ Alone /\ BaseInv /\ TypeOK /\ TableKept
      /\ size \in Nat /\ Cardinality(Jobs) \in Nat /\ size <= Cardinality(Jobs)
  BY SharedFacts DEF SharedInv
<1>1. CASE loop[l] = "less" /\ pos[l] > 1 /\ ~Filled(l)
  <2>1. pos[l] \in 1 .. size /\ pos[l] - 1 \in 1 .. size
    BY <1>0, <1>1 DEF BaseInv, Bounds, TypeOK, Alone, StillSwaps, Sorting
  <2> QED BY <1>0, <1>1, <2>1, SlotEntered DEF Filled
<1>2. CASE loop[l] = "scan" /\ pos[l] <= size /\ slots[pos[l]] = None
  <2>1. pos[l] \in 1 .. size
    BY <1>0, <1>2 DEF BaseInv, Bounds, TypeOK
  <2> QED BY <1>0, <1>2, <2>1, SlotEntered
<1> QED BY <1>1, <1>2 DEF NilPanics

LEMMA LoopAlone ==
  ASSUME SharedInv, ~overlap, NEW l \in Clients, LoopStep(l), ~overlap'
  PROVE  Alone' /\ TableKept' /\ (SameTable \/ (WriteFirst(l) /\ Exchanged))
<1>0. /\ Alone /\ BaseInv /\ TypeOK /\ TableKept
      /\ size \in Nat /\ Cardinality(Jobs) \in Nat /\ size <= Cardinality(Jobs)
  BY SharedFacts DEF SharedInv
<1>1. size' = size /\ batch[l] \in Seq(Entered) /\ StillSwaps(l)
  BY <1>0, LoopKeepsClients DEF Alone
<1>2. CASE Less(l)
  <2>1. /\ loop[l] = "less" /\ loop'[l] = "read1" /\ slots' = slots
        /\ sorted' = sorted /\ batch' = batch
    BY <1>0, <1>2 DEF Less, LoopAt, TypeOK
  <2>2. StillSwaps(l)' /\ Sorting(l)
    BY <1>1, <2>1 DEF StillSwaps, Sorting
  <2> QED BY <1>1, <2>1, <2>2, LoopSteady
<1>3. CASE Take(l)
  <2>1. /\ loop[l] = "scan" /\ loop'[l] = "scan" /\ slots' = slots
        /\ batch'[l] = Append(batch[l], slots[pos[l]])
    BY <1>0, <1>3 DEF Take, TypeOK
  <2>2. pos[l] \in 1 .. size
    BY <1>0, <1>3 DEF Take, BaseInv, Bounds, TypeOK
  <2>3. slots[pos[l]] \in Entered
    BY <1>0, <2>2, SlotEntered
  <2>4. batch'[l] \in Seq(Entered)
    BY <1>1, <2>1, <2>3
  <2>5. StillSwaps(l)' /\ ~Sorting(l)'
    BY <2>1 DEF StillSwaps, Sorting
  <2> QED BY <2>1, <2>4, <2>5, LoopSteady
<1>4. CASE Return(l)
  <2>1. /\ loop[l] = "call" /\ loop'[l] = "run" /\ slots' = slots
        /\ batch[l] # <<>> /\ batch'[l] = Tail(batch[l])
    BY <1>0, <1>4 DEF Return, LoopAt, TypeOK, BaseInv, Arming
  <2>2. batch'[l] \in Seq(Entered)
    BY <1>1, <2>1
  <2>3. StillSwaps(l)' /\ ~Sorting(l)'
    BY <2>1 DEF StillSwaps, Sorting
  <2> QED BY <2>1, <2>2, <2>3, LoopSteady
<1>5. CASE Taken(l) \/ Run(l) \/ NoFuncPanics(l) \/ Finish(l)
  <2>1. /\ loop[l] \in {"scan", "run"} /\ loop'[l] \in {"run", "call", "select"}
        /\ slots' = slots /\ batch' = batch
    BY <1>0, <1>5 DEF Taken, Run, NoFuncPanics, Finish, LoopAt, TypeOK, loopVars
  <2>2. StillSwaps(l)' /\ ~Sorting(l)'
    BY <2>1 DEF StillSwaps, Sorting
  <2> QED BY <1>1, <2>1, <2>2, LoopSteady
<1>6. ~NilPanics(l)
  BY NoNil
<1> QED BY <1>2, <1>3, <1>4, <1>5, <1>6, SortAlone, SwapAlone DEF LoopStep

LEMMA PanicsStep == SharedInv /\ Next => PanicsExplained'
<1> SUFFICES ASSUME SharedInv, Next, ~overlap' PROVE PanicsExplained'
  BY DEF PanicsExplained
<1>1. ASSUME NEW c \in Clients, ClientStep(c) PROVE PanicsExplained'
  BY <1>1 DEF PanicsExplained, ClientStep, ReadSize, WriteSlot, Grow, Arm, Schedule, Start, ClientAt
<1>2. ASSUME NEW l \in Clients, LoopStep(l) PROVE PanicsExplained'
  <2>1. ~overlap
    BY <1>2 DEF LoopStep, Tick, Less, InPlace, ReadFirst, ReadSecond, WriteFirst, WriteSecond,
           Take, Taken, NilPanics, Run, NoFuncPanics, Return, Finish
  <2>2. CASE NoFuncPanics(l)
    <3>1. batch[l] \in Seq(Entered) /\ batch[l] # <<>> /\ Head(batch[l]) \notin armed
      BY <2>1, <2>2 DEF NoFuncPanics, SharedInv, Alone
    <3>2. PICK c \in Clients : c = Head(batch[l])
      BY <3>1 DEF SharedInv, BaseInv, Arming, Entered
    <3>3. c \in Entered /\ c \notin armed
      BY <3>1, <3>2
    <3>4. client[c] = "do" /\ next[c] = "epoch"
      BY <3>3, ClientsAssumption DEF Entered, SharedInv, BaseInv, Arming
    <3>5. Unready(Head(batch[l]))'
      BY <2>2, <3>2, <3>4 DEF NoFuncPanics, Unready, clientVars, loopVars
    <3>6. loop'[l] = "run" /\ batch'[l] # <<>> /\ halted' = "nofunc"
      BY <2>2, <3>1 DEF NoFuncPanics, loopVars
    <3> QED BY <3>5, <3>6 DEF PanicsExplained
  <2>3. ~NilPanics(l)
    BY <2>1, NoNil
  <2>4. CASE ~NoFuncPanics(l)
    <3>1. halted' = "no"
      BY <1>2, <2>3, <2>4 DEF LoopStep, LoopAt, Tick, Less, InPlace, ReadFirst, ReadSecond,
         WriteFirst, WriteSecond, Take, Taken, Run, Return, Finish
    <3> QED BY <3>1 DEF PanicsExplained
  <2> QED BY <2>2, <2>4
<1>3. ASSUME NEW j \in Jobs, BecomesDue(j) PROVE PanicsExplained'
  BY <1>3 DEF PanicsExplained, BecomesDue
<1> QED BY <1>1, <1>2, <1>3, StepCases

LEMMA OverlapStays ==
  ASSUME Next, overlap
  PROVE  overlap'
<1>1. ASSUME NEW c \in Clients, ClientStep(c) PROVE overlap'
  BY <1>1 DEF ClientStep, ReadSize, WriteSlot, Grow, Arm, Schedule, Start
<1>2. ASSUME NEW l \in Clients, LoopStep(l) PROVE overlap'
  BY <1>2 DEF LoopStep, Tick, Less, InPlace, ReadFirst, ReadSecond, WriteFirst, WriteSecond, Take,
         Taken, NilPanics, Run, NoFuncPanics, Return, Finish
<1>3. ASSUME NEW j \in Jobs, BecomesDue(j) PROVE overlap'
  BY <1>3 DEF BecomesDue
<1> QED BY <1>1, <1>2, <1>3, StepCases

LEMMA SharedStep == SharedInv /\ [Next]_vars => SharedInv'
<1> SUFFICES ASSUME SharedInv, [Next]_vars PROVE SharedInv'
  OBVIOUS
<1>1. BaseInv' /\ Started'
  BY BaseStep, StartedStep DEF SharedInv
<1>2. CASE UNCHANGED vars
  <2> USE <1>2 DEF vars, clientVars, loopVars
  <2>1. (overlap \/ Alone)'
    BY DEF SharedInv, Alone, InEvery, Sorting, StillSize, StillSwaps, Entered
  <2>2. TableKept'
    BY DEF SharedInv, TableKept, Entered, Restored
  <2>3. PanicsExplained'
    BY DEF SharedInv, PanicsExplained, Unready
  <2> QED BY <1>1, <2>1, <2>2, <2>3 DEF SharedInv
<1>3. CASE Next
  <2>1. PanicsExplained'
    BY <1>3, PanicsStep
  <2>2. CASE overlap'
    BY <1>1, <2>1, <2>2 DEF SharedInv, TableKept
  <2>3. CASE ~overlap'
    <3>1. ~overlap
      BY <1>3, <2>3, OverlapStays
    <3>2. ASSUME NEW j \in Jobs, BecomesDue(j) PROVE Alone' /\ TableKept'
      <4>1. UNCHANGED <<slots, size, client, at, loop, sorted, pos, held, batch, overlap>>
        BY <3>2 DEF BecomesDue, clientVars, loopVars
      <4>2. Alone'
        BY <3>1, <4>1 DEF SharedInv, Alone, InEvery, Sorting, StillSize, StillSwaps, Entered
      <4>3. TableKept'
        BY <4>1 DEF SharedInv, TableKept, Entered, Restored
      <4>4. QED
        BY <4>2, <4>3
    <3>3. Alone' /\ TableKept'
      BY <1>3, <2>3, <3>1, <3>2, ClientAlone, LoopAlone, StepCases
    <3>4. BaseInv' /\ Started' /\ (overlap' \/ Alone') /\ TableKept' /\ PanicsExplained'
      BY <1>1, <2>1, <3>3
    <3> QED BY <3>4, Zenon DEF SharedInv
  <2> QED BY <2>2, <2>3
<1> QED BY <1>2, <1>3

LEMMA SharedInvHolds == Spec => []SharedInv
  BY InitSharedInv, SharedStep, PTL DEF Spec

(* Unless two clients are in Every at once, or two loops sort at once, the *)
(* table holds every job that has entered it, once, whatever a client does *)
(* while the loops of others sort, take and run jobs (lines 485, 533-538,  *)
(* 101-105, 113-123): also between the two writes of a swap.               *)
THEOREM SharedTableKept == Spec => []TableKept
<1>1. SharedInv => TableKept
  BY DEF SharedInv
<1> QED BY <1>1, SharedInvHolds, PTL

(* Unless they overlap, no goroutine dereferences a nil pointer in the     *)
(* table, and a job is run without a function only if it heads a batch     *)
(* while its client is between Every and Do, its nextRun at the epoch      *)
(* (lines 182-184, 535).                                                   *)
THEOREM SharedPanicsExplained == Spec => []PanicsExplained
<1>1. SharedInv => PanicsExplained
  BY DEF SharedInv
<1> QED BY <1>1, SharedInvHolds, PTL

-----------------------------------------------------------------------------
(* The refinement of JobTable.                                             *)

Contents == [k \in 1 .. size |-> Restored(k)]

LEMMA ContentsSeq ==
  ASSUME SharedInv, ~overlap
  PROVE  /\ Contents \in Seq(Entered) /\ Contents \in Seq(Jobs)
         /\ DOMAIN Contents = 1 .. size /\ Len(Contents) = size /\ size \in Nat
<1>1. size \in Nat /\ { Restored(k) : k \in 1 .. size } = Entered
  BY SharedFacts DEF SharedInv, TableKept
<1>2. Contents \in [1 .. size -> Entered]
  BY <1>1 DEF Contents
<1>3. Contents \in Seq(Entered)
  BY <1>1, <1>2, SeqDef
<1>4. Entered \subseteq Jobs
  BY CountBounded
<1>5. Contents \in [1 .. size -> Jobs]
  BY <1>2, <1>4
<1>6. Contents \in Seq(Jobs)
  BY <1>1, <1>5, SeqDef
<1>7. DOMAIN Contents = 1 .. size
  BY DEF Contents
<1> QED BY <1>1, <1>3, <1>6, <1>7, LenProperties

LEMMA SameContents ==
  ASSUME SameTable
  PROVE  Contents' = Contents
  BY DEF SameTable, Contents

(* size++ is the moment at which Every enters the job.                     *)
LEMMA GrowEnters ==
  ASSUME SharedInv, ~overlap, NEW c \in Clients, GrownBy(c)
  PROVE  /\ Contents' = Append(Contents, c)
         /\ \A k \in DOMAIN Contents : Contents[k] # c
<1>1. /\ Contents \in Seq(Entered) /\ Contents \in Seq(Jobs)
      /\ DOMAIN Contents = 1 .. size /\ Len(Contents) = size /\ size \in Nat
  BY ContentsSeq
<1>2. c \in Jobs /\ c \notin Entered
  BY DEF Jobs, GrownBy
<1>3. \A k \in DOMAIN Contents : Contents[k] # c
  BY <1>1, <1>2, ElementOfSeq
<1>4. Contents' = [k \in 1 .. size + 1 |-> IF k = size + 1 THEN c ELSE Restored(k)]
  BY DEF GrownBy, Contents
<1>5. /\ Append(Contents, c) \in Seq(Jobs) /\ Len(Append(Contents, c)) = size + 1
      /\ \A k \in 1 .. size : Append(Contents, c)[k] = Contents[k]
      /\ Append(Contents, c)[size + 1] = c
  BY <1>1, <1>2, AppendProperties
<1>6. Append(Contents, c) = [k \in 1 .. size + 1 |-> Append(Contents, c)[k]]
  BY <1>5, LenProperties
<1>7. \A k \in 1 .. size + 1 : Append(Contents, c)[k] = IF k = size + 1 THEN c ELSE Restored(k)
  BY <1>1, <1>5 DEF Contents
<1>8. [k \in 1 .. size + 1 |-> Append(Contents, c)[k]]
        = [k \in 1 .. size + 1 |-> IF k = size + 1 THEN c ELSE Restored(k)]
  BY <1>7
<1> QED BY <1>3, <1>4, <1>6, <1>8

(* The first write of a swap is the moment of the exchange.                *)
LEMMA WriteExchanges ==
  ASSUME SharedInv, ~overlap, Exchanged
  PROVE  \E k \in DOMAIN Contents :
           /\ k + 1 \in DOMAIN Contents
           /\ Contents' = [Contents EXCEPT ![k] = Contents[k + 1], ![k + 1] = Contents[k]]
<1>1. size \in Nat /\ DOMAIN Contents = 1 .. size
  BY ContentsSeq
<1>2. PICK i \in 2 .. size : \A k \in 1 .. size :
        Restored(k)' = IF k = i THEN Restored(i - 1) ELSE IF k = i - 1 THEN Restored(i) ELSE Restored(k)
  BY DEF Exchanged
<1>3. i - 1 \in 1 .. size /\ i \in 1 .. size /\ (i - 1) + 1 = i
  BY <1>1
<1>4. Contents' = [k \in 1 .. size |->
        IF k = i THEN Restored(i - 1) ELSE IF k = i - 1 THEN Restored(i) ELSE Restored(k)]
  BY <1>2 DEF Exchanged, Contents
<1>5. [Contents EXCEPT ![i - 1] = Contents[i], ![i] = Contents[i - 1]]
        = [k \in 1 .. size |->
            IF k = i THEN Restored(i - 1) ELSE IF k = i - 1 THEN Restored(i) ELSE Restored(k)]
  BY <1>1, <1>3 DEF Contents
<1> QED BY <1>1, <1>3, <1>4, <1>5

(* Before the clients start, the table holds the earlier jobs, each once:  *)
(* as many slots as jobs, and every job in one.                            *)
LEMMA InitTable == Init => Table!Init
<1> SUFFICES ASSUME Init PROVE Table!Init
  OBVIOUS
<1>1. SharedInv /\ ~overlap
  BY InitSharedInv DEF Init
<1>2. Contents \in Seq(Jobs) /\ DOMAIN Contents = 1 .. size /\ size \in Nat
  BY <1>1, ContentsSeq
<1>3. size = Cardinality(Entered) /\ { Restored(k) : k \in 1 .. size } = Entered
  BY <1>1 DEF SharedInv, TableKept
<1>4. Contents \in Surjection(1 .. size, Entered)
  BY <1>3 DEF Contents, Surjection
<1>5. IsFiniteSet(1 .. size) /\ Cardinality(1 .. size) = size
  BY <1>2, FS_Interval
<1>6. IsFiniteSet(Entered)
  BY CountBounded
<1>7. Contents \in Injection(1 .. size, Entered)
  BY <1>3, <1>4, <1>5, <1>6, FS_SurjSameCardinalityImpliesInj
<1>8. \A i, k \in DOMAIN Contents : Contents[i] = Contents[k] => i = k
  BY <1>2, <1>7 DEF Injection, IsInjective
<1> QED BY <1>2, <1>8 DEF Init, Table!Init, Contents

LEMMA NoOverlap ==
  ASSUME BaseInv, Next, ~overlap, ~overlap'
  PROVE  overlap' = overlap
<1>1. BaseInv'
  BY BaseStep
<1>2. overlap \in BOOLEAN /\ overlap' \in BOOLEAN
  BY <1>1 DEF BaseInv, TypeOK
<1> QED BY <1>2

(* Unless they overlap, every step of the goroutines is a step of JobTable *)
(* or changes nothing there.                                               *)
LEMMA ClientTable ==
  ASSUME SharedInv, ~overlap, ~overlap', NEW c \in Clients, ClientStep(c)
  PROVE  Table!Next \/ UNCHANGED <<Contents, batch, overlap>>
<1>0. overlap' = overlap
  BY NoOverlap DEF SharedInv, Next
<1>1. batch' = batch
  BY DEF ClientStep, ReadSize, WriteSlot, Grow, Arm, Schedule, Start, loopVars
<1>2. SameTable \/ GrownBy(c)
  BY ClientAlone
<1>3. CASE GrownBy(c)
  <2>1. Table!Enter(c)
    BY <1>0, <1>1, <1>3, GrowEnters DEF Table!Enter, Contents
  <2> QED BY <2>1 DEF Table!Next, Jobs
<1> QED BY <1>0, <1>1, <1>2, <1>3, SameContents

LEMMA LoopTable ==
  ASSUME SharedInv, ~overlap, ~overlap', NEW l \in Clients, LoopStep(l)
  PROVE  Table!Next \/ UNCHANGED <<Contents, batch, overlap>>
<1>0. Alone /\ BaseInv /\ TypeOK /\ TableKept /\ size \in Nat /\ DOMAIN Contents = 1 .. size
  BY SharedFacts, ContentsSeq DEF SharedInv
<1>t. overlap' = overlap
  BY <1>0, NoOverlap DEF Next
<1>1. SameTable \/ (WriteFirst(l) /\ Exchanged)
  BY LoopAlone
<1>2. CASE WriteFirst(l) /\ Exchanged
  <2>1. batch' = batch
    BY <1>2 DEF WriteFirst
  <2>2. PICK k \in DOMAIN Contents : Table!Exchange(k)
    BY <1>t, <1>2, <2>1, WriteExchanges DEF Table!Exchange, Contents
  <2> QED BY <2>2 DEF Table!Next, Contents
<1>3. CASE Take(l) /\ SameTable
  <2>1. pos[l] \in 1 .. size
    BY <1>0, <1>3 DEF Take, BaseInv, Bounds, TypeOK
  <2>2. slots[pos[l]] \in Entered
    BY <1>0, <2>1, SlotEntered
  <2>3. PICK k \in DOMAIN Contents : Contents[k] = slots[pos[l]]
    BY <1>0, <2>2 DEF TableKept, Contents
  <2>4. batch' = [batch EXCEPT ![l] = Append(@, Contents[k])]
    BY <1>3, <2>3 DEF Take
  <2>5. Table!Take(l)
    BY <1>t, <1>3, <2>4, SameContents DEF Table!Take, Contents
  <2> QED BY <2>5 DEF Table!Next
<1>4. CASE Return(l) /\ SameTable
  <2>1. batch[l] # <<>> /\ batch' = [batch EXCEPT ![l] = Tail(@)]
    BY <1>0, <1>4 DEF Return, LoopAt, BaseInv, Arming
  <2>2. Table!Run(l)
    BY <1>t, <1>4, <2>1, SameContents DEF Table!Run, Contents
  <2> QED BY <2>2 DEF Table!Next
<1>5. CASE ~Take(l) /\ ~Return(l) /\ SameTable
  <2>1. batch' = batch
    BY <1>5 DEF LoopStep, Tick, Less, InPlace, ReadFirst, ReadSecond, WriteFirst, WriteSecond,
         Taken, NilPanics, Run, NoFuncPanics, Finish, loopVars
  <2> QED BY <1>t, <1>5, <2>1, SameContents
<1> QED BY <1>1, <1>2, <1>3, <1>4, <1>5

LEMMA TableStep == SharedInv /\ [Next]_vars => Table!Next \/ UNCHANGED <<Contents, batch, overlap>>
<1> SUFFICES ASSUME SharedInv, [Next]_vars
             PROVE  Table!Next \/ UNCHANGED <<Contents, batch, overlap>>
  OBVIOUS
<1>1. CASE UNCHANGED vars
  BY <1>1 DEF vars, clientVars, loopVars, Contents, Restored
<1>2. CASE overlap'
  BY <1>2 DEF Table!Next, Table!Interfere
<1>3. CASE Next /\ ~overlap'
  <2>1. ~overlap
    BY <1>3, OverlapStays
  <2>2. ASSUME NEW j \in Jobs, BecomesDue(j) PROVE UNCHANGED <<Contents, batch, overlap>>
    BY <2>2 DEF BecomesDue, clientVars, loopVars, Contents, Restored
  <2> QED BY <1>3, <2>1, <2>2, ClientTable, LoopTable, StepCases
<1> QED BY <1>1, <1>2, <1>3

(* For any number of clients and earlier jobs, the accesses to memory of   *)
(* Every, the sort, the snapshot and RunPending implement operations that  *)
(* happen at one moment, unless two goroutines interfere (lines 485,       *)
(* 507-521, 533-547).                                                      *)
THEOREM ImplementsJobTable == Spec => AccessesAreAtomic
<1>1. SharedInv /\ [Next]_vars => [Table!Next]_(Table!vars)
  BY TableStep DEF Table!vars, Contents
<1> QED BY SharedInvHolds, InitTable, <1>1, PTL DEF Spec, AccessesAreAtomic, Table!Spec
=============================================================================
