---------------------------- MODULE ServiceToken ----------------------------
(***************************************************************************)
(* The service user's token of rexos/client.go: the goroutine NewClient    *)
(* starts asks the authentication server for a token, asks again until it  *)
(* believes it has one, and then leaves the refreshing to a cron job of    *)
(* the default scheduler, whose schedule is that of CronTime.  Instants    *)
(* are relative to now, so the system runs on without a bound.             *)
(***************************************************************************)
EXTENDS CronTime

CONSTANTS
  Lifetimes, \* the values of expires_in the server hands out, in seconds
  MaxDelay,  \* the longest an answer takes, if there is one, in ticks
  Lateness   \* the loop runs a due job less than this late (Scheduler's LatenessBound)

(* What becomes of a token request: a token; a token with a field of a     *)
(* wrong type, whose other fields are stored although it counts as a       *)
(* failure; other JSON, such as an error document, which changes nothing   *)
(* and counts as success (the status code is not looked at); an error; or  *)
(* no answer, ever.                                                        *)
Answers == {"token", "mistyped", "other", "error", "never"}

Retry == 30   \* seconds between the first attempts
Lead  == 30   \* seconds the token is refreshed early
Gap   == 60

Interval(expires) ==
  IF expires > Lead /\ expires - Lead > Gap THEN expires - Lead ELSE Lead

Intervals == { Interval(expires) : expires \in Lifetimes \cup {0} }

(* Mutant: Every(interval).Minutes(). *)
RefreshJobInMinutes(seconds) ==
  [interval |-> seconds, unit |-> "minutes", atTime |-> 0, startDay |-> 0, zone |-> Local]

RefreshJob(seconds) ==
  [interval |-> seconds, unit |-> "seconds", atTime |-> 0, startDay |-> 0, zone |-> Local]

ASSUME ServerAssumption ==
  /\ Lifetimes \subseteq Nat
  /\ MaxDelay \in Nat
  /\ Lateness \in Nat \ {0}
  /\ \A seconds \in Intervals : seconds * Second <= MaxDuration

(* A token of any of these lifetimes outlives the interval that any other  *)
(* one, or none, has led to, and some delay beside it.                     *)
OutliveRefresh(lifetimes, delay) ==
  \A first \in lifetimes \cup {0}, expires \in lifetimes :
    Interval(first) * Second + delay < expires * Second

(* Tokens live long enough for a refresh that comes an interval, the       *)
(* lateness of the loop and two answer times after they were issued.       *)
ASSUME RefreshInTime == OutliveRefresh(Lifetimes, Lateness + 2 * MaxDelay)

VARIABLES
  phase,     \* "first": the initial attempts; "cron": the job is scheduled
  request,   \* the token request: "none", "open" or "hung"
  age,       \* how long ago it was sent
  wait,      \* time until the next attempt, or until the job is due
  left,      \* how long the stored token remains valid, 0: no valid token
  expiresIn, \* serviceToken.ExpiresIn
  interval,  \* the interval of the job
  last       \* history: the latest answer

vars == <<phase, request, age, wait, left, expiresIn, interval, last>>

TypeOK ==
  /\ phase \in {"first", "cron"}
  /\ request \in {"none", "open", "hung"}
  /\ age \in 0 .. MaxDelay
  /\ wait \in Int
  /\ left \in Nat
  /\ expiresIn \in Lifetimes \cup {0}
  /\ interval \in Intervals \cup {0}
  /\ last \in Answers \cup {"none"}

Init ==
  /\ phase = "first"
  /\ request = "none"
  /\ age = 0
  /\ wait = 0
  /\ left = 0
  /\ expiresIn = 0
  /\ interval = 0
  /\ last = "none"

-----------------------------------------------------------------------------
(* The job is due in the second of its schedule. *)
MaySend == IF phase = "first" THEN wait <= 0 ELSE wait < Second

(* refreshToken is called: the POST request leaves. *)
Send ==
  /\ request = "none"
  /\ MaySend
  /\ request' = "open"
  /\ age' = 0
  /\ UNCHANGED <<phase, wait, left, expiresIn, interval, last>>

(* Mutant: the answer is decoded into a local variable. *)
ForgetToken(answer) == UNCHANGED <<left, expiresIn>>

(* json.Unmarshal into serviceToken, under the mutex: a token was issued   *)
(* while the request was under way; what is well typed is stored.          *)
StoreToken(answer) ==
  CASE answer = "token" ->
         \E expires \in Lifetimes, issued \in 0 .. age :
           left' = Later(expires * Second - issued, 0) /\ expiresIn' = expires
    [] answer = "mistyped" ->
         \E expires \in Lifetimes, issued \in 0 .. age :
           /\ left' \in {left, Later(expires * Second - issued, 0)}
           /\ expiresIn' \in {expiresIn, expires}
    [] OTHER -> UNCHANGED <<left, expiresIn>>

Succeeds(answer) == answer \in {"token", "other"}

(* Do schedules the job an interval from now. *)
BecomeCronJob ==
  /\ phase' = "cron"
  /\ interval' = Interval(expiresIn')
  /\ wait' = NextSchedule(RefreshJob(interval'), 0, -1, 0)

RetryLater ==
  /\ wait' = Retry * Second
  /\ UNCHANGED <<phase, interval>>

(* run reschedules the job whatever refreshToken returned. *)
Reschedule ==
  /\ wait' = NextSchedule(RefreshJob(interval), 0 - age, wait, 0)
  /\ UNCHANGED <<phase, interval>>

Answer(answer) ==
  /\ request = "open"
  /\ answer # "never"
  /\ StoreToken(answer)
  /\ request' = "none"
  /\ age' = 0
  /\ last' = answer
  /\ \/ phase = "first" /\ Succeeds(answer) /\ BecomeCronJob
     \/ phase = "first" /\ ~Succeeds(answer) /\ RetryLater
     \/ phase = "cron" /\ Reschedule

(* Neither the request nor the client has a timeout. *)
Hang ==
  /\ request = "open"
  /\ request' = "hung"
  /\ age' = 0
  /\ last' = "never"
  /\ UNCHANGED <<phase, wait, left, expiresIn, interval>>

(* The first attempts sleep exactly, the loop runs a due job in time, and  *)
(* an answer that comes takes at most MaxDelay.                            *)
TimePasses ==
  /\ request = "none" => wait > IF phase = "first" THEN 0 ELSE 1 - Lateness
  /\ request = "open" => age < MaxDelay
  /\ age' = IF request = "open" THEN age + 1 ELSE age
  /\ wait' = IF request = "hung" THEN wait ELSE wait - 1
  /\ left' = Later(left - 1, 0)
  /\ UNCHANGED <<phase, request, expiresIn, interval, last>>

Next == Send \/ (\E answer \in Answers : Answer(answer)) \/ Hang \/ TimePasses

(* Time passes, due jobs run, requests are answered, and a server that is  *)
(* asked again and again issues a token.                                   *)
Fairness ==
  /\ WF_vars(TimePasses)
  /\ WF_vars(Send)
  /\ WF_vars(\E answer \in Answers : Answer(answer))
  /\ SF_vars(Answer("token"))

Spec == Init /\ [][Next]_vars /\ Fairness

-----------------------------------------------------------------------------
(* The cron job refreshes the token before it expires: without a valid     *)
(* token the latest answer was not one (lines 120-134, cron.go 117-140).   *)
OutageOnlyAfterFailure == phase = "cron" /\ left = 0 => last # "token"

(* While requests are answered, a client without valid token gets one:     *)
(* the first attempts and the job go on after any failure (lines 118-134). *)
Recovers == left = 0 ~> left > 0 \/ request = "hung"
=============================================================================
