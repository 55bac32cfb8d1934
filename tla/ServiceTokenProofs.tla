------------------------- MODULE ServiceTokenProofs -------------------------
(***************************************************************************)
(* The cron job keeps the service user's token valid, for every lifetime,  *)
(* answer time and lateness that RefreshInTime admits.                     *)
(***************************************************************************)
EXTENDS ServiceToken, CronTimeProofs

(* The loop is never as late as Lateness, and a job runs only once due. *)
OnTime ==
  /\ phase = "cron" /\ request = "none" => wait > 0 - Lateness
  /\ request = "open" => wait < Second

(* The token outlives the wait for the next refresh and its answer. *)
Fresh ==
  phase = "cron" /\ last = "token" =>
    /\ request = "none" => left > wait + Lateness + MaxDelay
    /\ request = "open" => left > MaxDelay - age
    /\ request # "hung"

IInv ==
  /\ TypeOK
  /\ phase = "cron" => interval \in Intervals
  /\ OnTime
  /\ Fresh

LEMMA ProductBound ==
  ASSUME NEW m \in Nat \ {0}, NEW n \in Nat \ {0}
  PROVE  m * n \in Nat /\ m * n >= n
<1>1. (m - 1) * n >= 0
  OBVIOUS
<1>2. m * n = (m - 1) * n + n
  OBVIOUS
<1>3. QED
  BY <1>1, <1>2

LEMMA LifetimeLeft ==
  ASSUME NEW remaining \in Nat, NEW elapsed \in Nat, NEW delay \in Nat, NEW late \in Nat,
         NEW due \in Int, NEW period \in Nat, NEW lifetime \in Nat,
         period + late + 2 * delay < lifetime,
         remaining >= lifetime - elapsed, elapsed <= delay, due <= period
  PROVE  remaining > due + late + delay
  OBVIOUS

LEMMA IntervalFacts ==
  ASSUME NEW i \in Intervals
  PROVE  /\ i \in Nat \ {0}
         /\ i * Second \in Nat \ {0}
         /\ i * Second <= MaxDuration
         /\ \A e \in Lifetimes : i * Second + Lateness + 2 * MaxDelay < e * Second
<1>1. PICK first \in Lifetimes \cup {0} : i = Interval(first)
  BY DEF Intervals
<1>2. first \in Nat
  BY ServerAssumption
<1>3. i \in Nat \ {0}
  BY <1>1, <1>2 DEF Interval, Lead, Gap
<1>4. Second \in Nat \ {0}
  BY TicksAssumption
<1>5. i * Second \in Nat \ {0}
  BY <1>3, <1>4
<1>6. QED
  BY <1>1, <1>3, <1>5, ServerAssumption, RefreshInTime DEF OutliveRefresh

LEMMA JobPeriod ==
  ASSUME NEW i \in Intervals
  PROVE  PeriodDuration(RefreshJob(i)) = i * Second
<1> DEFINE n == i * Second
           w == MaxDuration + 1
<1>1. n \in Nat /\ n <= MaxDuration /\ MaxDuration \in Nat
  BY IntervalFacts, TicksAssumption
<1>2. PeriodDuration(RefreshJob(i)) = Wrap(n)
  BY DEF PeriodDuration, RefreshJob, UnitLength
<1> HIDE DEF n
<1>3. n + w \in 0 .. 2 * w - 1
  BY <1>1
<1>4. (n + w) % (2 * w) = n + w
  BY <1>1, <1>3
<1>5. Wrap(n) = n
  BY <1>1, <1>4 DEF Wrap
<1>6. QED
  BY <1>2, <1>5 DEF n

(* The refresh is due again at most an interval from now, and not before    *)
(* now; one that is still ahead, within the second, is kept.                *)
LEMMA NextRefresh ==
  ASSUME NEW i \in Intervals, NEW elapsed \in Nat, NEW next \in Int
  PROVE  LET due == NextSchedule(RefreshJob(i), 0 - elapsed, next, 0)
         IN  /\ due \in Int /\ due >= 0
             /\ next > 0 => due = next
             /\ next <= 0 => due <= i * Second
<1> DEFINE period == i * Second
           base == (0 - elapsed) + period
<1>1. period \in Nat \ {0}
  BY IntervalFacts
<1>2. CASE next > 0
  BY <1>2 DEF NextSchedule
<1>3. CASE next <= 0
  <2>1. Base(RefreshJob(i), 0 - elapsed, next) = base
    BY JobPeriod DEF Base, RefreshJob
  <2>2. Later(0, 0 - elapsed) = 0
    BY DEF Later
  <2>3. NextSchedule(RefreshJob(i), 0 - elapsed, next, 0) = Advance(base, period, 0)
    BY <1>3, <2>1, <2>2, JobPeriod DEF NextSchedule
  <2>4. base \in Int /\ base <= period
    BY <1>1
  <2> HIDE DEF base, period
  <2>5. /\ Advance(base, period, 0) \in Int
        /\ Advance(base, period, 0) >= 0
        /\ base < 0 => Advance(base, period, 0) - period < 0
    BY <1>1, <2>4, AdvanceLeast
  <2>6. Advance(base, period, 0) <= period
    BY <1>1, <2>4, <2>5 DEF Advance
  <2>7. QED
    BY <1>3, <2>3, <2>5, <2>6 DEF period
<1>4. QED
  BY <1>2, <1>3

LEMMA InitEstablishes == Init => IInv
<1>1. Second \in Nat \ {0}
  BY TicksAssumption
<1>2. QED
  BY <1>1, ServerAssumption DEF Init, IInv, TypeOK, OnTime, Fresh

LEMMA SendPreserves == IInv /\ Send => IInv'
<1> SUFFICES ASSUME IInv, Send PROVE IInv'
  OBVIOUS
<1> USE ServerAssumption, TicksAssumption
<1>1. TypeOK'
  BY DEF IInv, TypeOK, Send
<1>2. OnTime'
  BY DEF IInv, TypeOK, OnTime, Send, MaySend
<1>3. Fresh'
  BY DEF IInv, TypeOK, OnTime, Fresh, Send
<1>4. QED
  BY <1>1, <1>2, <1>3 DEF IInv, Send

LEMMA StoreTokenType ==
  ASSUME TypeOK, NEW answer, StoreToken(answer)
  PROVE  /\ left' \in Nat
         /\ expiresIn' \in Lifetimes \cup {0}
         /\ answer = "token" =>
              \E e \in Lifetimes : left' >= e * Second - age
<1> USE ServerAssumption, TicksAssumption
<1>1. ASSUME NEW e \in Lifetimes, NEW issued \in 0 .. age
      PROVE  /\ Later(e * Second - issued, 0) \in Nat
             /\ Later(e * Second - issued, 0) >= e * Second - age
  <2>1. e * Second \in Nat /\ issued \in Nat /\ issued <= age /\ age \in Nat
    BY DEF TypeOK
  <2>2. QED
    BY <2>1 DEF Later
<1>2. CASE answer = "token"
  <2>1. PICK e \in Lifetimes, issued \in 0 .. age :
          left' = Later(e * Second - issued, 0) /\ expiresIn' = e
    BY <1>2 DEF StoreToken
  <2>2. QED
    BY <1>1, <2>1
<1>3. CASE answer = "mistyped"
  <2>1. PICK e \in Lifetimes, issued \in 0 .. age :
          /\ left' \in {left, Later(e * Second - issued, 0)}
          /\ expiresIn' \in {expiresIn, e}
    BY <1>3 DEF StoreToken
  <2>2. QED
    BY <1>1, <1>3, <2>1 DEF TypeOK
<1>4. CASE answer \notin {"token", "mistyped"}
  BY <1>4 DEF StoreToken, TypeOK
<1>5. QED
  BY <1>2, <1>3, <1>4

LEMMA AnswerPreserves ==
  ASSUME IInv, NEW answer \in Answers, Answer(answer)
  PROVE  IInv'
<1> USE ServerAssumption, TicksAssumption
<1>1. /\ left' \in Nat
      /\ expiresIn' \in Lifetimes \cup {0}
      /\ answer = "token" => \E e \in Lifetimes : left' >= e * Second - age
  BY StoreTokenType DEF IInv, Answer
<1>2. /\ request = "open" /\ request' = "none" /\ age' = 0 /\ last' = answer
      /\ age \in Nat /\ age <= MaxDelay /\ wait \in Int /\ wait < Second
  BY DEF Answer, IInv, TypeOK, OnTime
(* A job that is scheduled: its due time is at most its interval away, or   *)
(* it ran within the second before its time.                                *)
<1>3. ASSUME interval' \in Intervals, phase' = "cron",
             wait' \in Int, wait' >= 0,
             wait' <= interval' * Second \/ wait' < Second
      PROVE  IInv'
  <2> DEFINE period == interval' * Second
  <2>1. /\ period \in Nat /\ period >= Second
        /\ \A e \in Lifetimes : period + Lateness + 2 * MaxDelay < e * Second
    <3>1. interval' \in Nat \ {0} /\ Second \in Nat \ {0}
      BY <1>3, IntervalFacts
    <3>2. period \in Nat /\ period >= Second
      BY <3>1, ProductBound
    <3>3. \A e \in Lifetimes : period + Lateness + 2 * MaxDelay < e * Second
      BY <1>3, IntervalFacts
    <3>4. QED
      BY <3>2, <3>3
  <2> HIDE DEF period
  <2>2. wait' <= period
    BY <1>3, <2>1 DEF period
  <2>3. answer = "token" => left' > wait' + Lateness + MaxDelay
    <3>1. SUFFICES ASSUME answer = "token" PROVE left' > wait' + Lateness + MaxDelay
      OBVIOUS
    <3>2. PICK e \in Lifetimes : left' >= e * Second - age
      BY <1>1, <3>1
    <3> DEFINE lifetime == e * Second
    <3>3. period + Lateness + 2 * MaxDelay < lifetime /\ lifetime \in Nat
      BY <2>1
    <3>4. left' >= lifetime - age
      BY <3>2
    <3> HIDE DEF lifetime
    <3>5. /\ left' \in Nat /\ wait' \in Int /\ wait' <= period /\ period \in Nat
          /\ age \in Nat /\ age <= MaxDelay /\ MaxDelay \in Nat /\ Lateness \in Nat
      BY <1>1, <1>2, <1>3, <2>1, <2>2
    <3>6. QED
      BY <3>3, <3>4, <3>5, LifetimeLeft
  <2>4. TypeOK'
    BY <1>1, <1>2, <1>3 DEF TypeOK
  <2>5. OnTime' /\ Fresh'
    BY <1>2, <1>3, <2>3 DEF OnTime, Fresh
  <2>6. QED
    BY <1>3, <2>4, <2>5 DEF IInv
<1>4. CASE phase = "first" /\ Succeeds(answer) /\ BecomeCronJob
  <2>1. interval' \in Intervals
    BY <1>1, <1>4 DEF BecomeCronJob, Intervals
  <2>2. wait' \in Int /\ wait' >= 0 /\ wait' <= interval' * Second
    <3>1. wait' = NextSchedule(RefreshJob(interval'), 0 - 0, -1, 0)
      BY <1>4 DEF BecomeCronJob
    <3>2. QED
      BY <2>1, <3>1, NextRefresh
  <2>3. QED
    BY <1>3, <1>4, <2>1, <2>2 DEF BecomeCronJob
<1>5. CASE phase = "first" /\ ~Succeeds(answer) /\ RetryLater
  <2>1. phase' = "first" /\ wait' = 30 * Second /\ interval' = interval
    BY <1>5 DEF RetryLater, Retry
  <2>2. TypeOK'
    BY <1>1, <1>2, <2>1 DEF IInv, TypeOK
  <2>3. QED
    BY <1>2, <2>1, <2>2 DEF IInv, OnTime, Fresh
<1>6. CASE phase = "cron" /\ Reschedule
  <2>1. /\ interval' = interval /\ phase' = "cron" /\ interval \in Intervals
        /\ wait' = NextSchedule(RefreshJob(interval), 0 - age, wait, 0)
    BY <1>6 DEF Reschedule, IInv
  <2>2. /\ wait' \in Int /\ wait' >= 0
        /\ wait > 0 => wait' = wait
        /\ wait <= 0 => wait' <= interval * Second
    BY <1>2, <2>1, NextRefresh
  <2>3. wait' <= interval' * Second \/ wait' < Second
    BY <1>2, <2>1, <2>2
  <2>4. QED
    BY <1>3, <2>1, <2>2, <2>3
<1>7. QED
  BY <1>4, <1>5, <1>6 DEF Answer

LEMMA HangPreserves == IInv /\ Hang => IInv'
<1> SUFFICES ASSUME IInv, Hang PROVE IInv'
  OBVIOUS
<1>1. TypeOK'
  BY ServerAssumption DEF IInv, TypeOK, Hang, Answers
<1>2. OnTime' /\ Fresh'
  BY DEF Hang, OnTime, Fresh
<1>3. QED
  BY <1>1, <1>2 DEF IInv, Hang

LEMMA TimePreserves == IInv /\ TimePasses => IInv'
<1> SUFFICES ASSUME IInv, TimePasses PROVE IInv'
  OBVIOUS
<1> USE ServerAssumption, TicksAssumption
<1>1. /\ left' \in Nat
      /\ left' >= left - 1
      /\ wait' \in Int
      /\ request # "hung" => wait' = wait - 1
  BY DEF IInv, TypeOK, TimePasses, Later
<1>2. TypeOK'
  BY <1>1 DEF IInv, TypeOK, TimePasses
<1>3. OnTime'
  BY <1>1 DEF IInv, TypeOK, OnTime, TimePasses
<1>4. Fresh'
  BY <1>1 DEF IInv, TypeOK, Fresh, TimePasses
<1>5. QED
  BY <1>2, <1>3, <1>4 DEF IInv, TimePasses

LEMMA StepPreserves == IInv /\ [Next]_vars => IInv'
<1>1. IInv /\ UNCHANGED vars => IInv'
  BY DEF IInv, TypeOK, OnTime, Fresh, vars
<1>2. QED
  BY <1>1, SendPreserves, AnswerPreserves, HangPreserves, TimePreserves DEF Next

(* The variables keep their types; what is left of the token is never      *)
(* negative and the schedule of the job remains an instant.                *)
THEOREM TypeCorrect == Spec => []TypeOK
<1>1. IInv => TypeOK
  BY DEF IInv
<1>2. QED
  BY <1>1, InitEstablishes, StepPreserves, PTL DEF Spec

(* As long as token requests are answered with tokens, the cron job        *)
(* replaces the token before it expires (client.go 120-134).               *)
THEOREM TokenOutlivesRefresh == Spec => []OutageOnlyAfterFailure
<1>1. IInv => OutageOnlyAfterFailure
  <2> SUFFICES ASSUME IInv, phase = "cron", left = 0, last = "token" PROVE FALSE
    BY DEF OutageOnlyAfterFailure
  <2>1. request = "none" \/ request = "open"
    BY DEF IInv, Fresh, TypeOK
  <2>2. QED
    BY <2>1, ServerAssumption DEF IInv, TypeOK, OnTime, Fresh
<1>2. QED
  BY <1>1, InitEstablishes, StepPreserves, PTL DEF Spec

-----------------------------------------------------------------------------
LEMMA Distribute ==
  ASSUME NEW x \in Int, NEW y \in Int, NEW z \in Nat
  PROVE  /\ (x - y) * z = (x * z) - (y * z)
         /\ x <= y => x * z <= y * z
<1>1. (x - y) * z = (x * z) - (y * z)
  OBVIOUS
<1>2. x <= y => (y - x) * z >= 0 /\ (y - x) * z = (y * z) - (x * z)
  OBVIOUS
<1> QED BY <1>1, <1>2

(* What RefreshInTime asks of a server whose tokens live longer than 90    *)
(* seconds: the delays of a refresh, and what one lifetime differs from    *)
(* another, stay below the 30 seconds a token is refreshed early           *)
(* (lines 126-131): the interval is that of the first token for good.      *)
THEOREM LeadCoversDelays ==
  ASSUME NEW lifetimes \in SUBSET Nat, NEW delay \in Nat,
         \A expires \in lifetimes : expires > Lead + Gap
  PROVE  OutliveRefresh(lifetimes, delay)
           <=> \A first, expires \in lifetimes :
                 (first - expires) * Second + delay < Lead * Second
<1> DEFINE L(x) == x * Second
<1>1. Second \in Nat \ {0} /\ \A x \in Nat : L(x) \in Nat
  BY TicksAssumption
<1>2. ASSUME NEW first \in lifetimes
      PROVE  Interval(first) = first - Lead /\ L(first - Lead) = L(first) - L(Lead)
  BY <1>1, <1>2, Distribute DEF Interval, Lead, Gap
<1>3. ASSUME NEW first \in lifetimes, NEW expires \in lifetimes
      PROVE  L(first - expires) = L(first) - L(expires)
  BY <1>1, <1>3, Distribute
<1>4. ASSUME NEW expires \in lifetimes
      PROVE  L(Lead) + L(Lead) <= L(expires)
  <2>1. 2 * Lead <= expires /\ 2 * Lead \in Nat /\ expires \in Nat /\ Lead \in Nat
    BY <1>4 DEF Lead, Gap
  <2>2. L(2 * Lead) <= L(expires)
    BY <1>1, <2>1, Distribute
  <2>3. L(2 * Lead) = L(Lead) + L(Lead)
    BY <1>1 DEF Lead
  <2> QED BY <2>2, <2>3
<1>5. Interval(0) = Lead /\ Lead \in Nat
  BY DEF Interval, Lead
<1>6. ASSUME OutliveRefresh(lifetimes, delay), NEW first \in lifetimes, NEW expires \in lifetimes
      PROVE  L(first - expires) + delay < L(Lead)
  <2>1. L(Interval(first)) + delay < L(expires)
    BY <1>6 DEF OutliveRefresh
  <2>2. L(first) \in Nat /\ L(expires) \in Nat /\ L(Lead) \in Nat
    BY <1>1, <1>5
  <2> HIDE DEF L
  <2> QED BY <1>2, <1>3, <1>6, <2>1, <2>2
<1>7. ASSUME \A first, expires \in lifetimes : L(first - expires) + delay < L(Lead),
             NEW first \in lifetimes \cup {0}, NEW expires \in lifetimes
      PROVE  L(Interval(first)) + delay < L(expires)
  <2>1. L(expires - expires) + delay < L(Lead)
    BY <1>7
  <2>2. L(expires) \in Nat /\ L(Lead) \in Nat /\ (first \in lifetimes => L(first) \in Nat)
    BY <1>1, <1>5
  <2>3. CASE first \in lifetimes
    <3>1. L(first - expires) + delay < L(Lead)
      BY <1>7, <2>3
    <3> HIDE DEF L
    <3> QED BY <1>2, <1>3, <2>2, <2>3, <3>1
  <2>4. CASE first = 0
    <3> HIDE DEF L
    <3> QED BY <1>3, <1>4, <1>5, <2>1, <2>2, <2>4
  <2> QED BY <2>3, <2>4
<1> QED BY <1>6, <1>7 DEF OutliveRefresh
=============================================================================
