-------------------------- MODULE RestCallsProofs ---------------------------
(***************************************************************************)
(* The HTTP side of the library: what the callers of the service may rely  *)
(* on, for any number of callers and trials, and what the interceptor adds *)
(* to a request, for any number of sessions.                               *)
(***************************************************************************)
EXTENDS RestCalls, InterceptorState, TLAPS

(* A call under way: only a delete may have changed anything, once for     *)
(* each of the trials before this one.                                     *)
UnderWay(c) ==
  ~Idle(c) =>
    /\ method[c] = FirstMethod(op[c]) \/ (op[c] = "copy" /\ method[c] = "post")
    /\ effects[c] <= trial[c] - 1
    /\ op[c] # "delete" => effects[c] = 0
    /\ result[c] = "none"

(* A call that has ended. *)
Ended(c) ==
  /\ result[c] = "ok" /\ op[c] \notin {"get", "download", "getFile"} => effects[c] >= 1
  /\ op[c] # "delete" => effects[c] <= 1
  /\ op[c] = "create" /\ result[c] = "409" => effects[c] = 0

CallSound(c) == UnderWay(c) /\ (Idle(c) => Ended(c))

IInv == TypeOK /\ \A c \in Callers : CallSound(c)

(* What is said of a call depends on nothing but its own variables. *)
LEMMA Frame ==
  ASSUME NEW c, CallSound(c),
         op'[c] = op[c], method'[c] = method[c], trial'[c] = trial[c],
         result'[c] = result[c], effects'[c] = effects[c]
  PROVE  CallSound(c)'
  BY DEF CallSound, UnderWay, Ended, Idle

LEMMA MethodOfOp ==
  ASSUME NEW o \in Ops
  PROVE  /\ FirstMethod(o) \in Methods
         /\ FirstMethod(o) # "none"
         /\ FirstMethod(o) = "post" => o \in {"create", "upload"}
         /\ FirstMethod(o) \in {"patch", "delete"} => o = FirstMethod(o)
         /\ o = "create" => FirstMethod(o) = "post"
         /\ o = "patch" => FirstMethod(o) = "patch"
         /\ o = "upload" => FirstMethod(o) = "post"
         /\ o = "copy" => FirstMethod(o) = "get"
         /\ o = "delete" => FirstMethod(o) = "delete"
  BY DEF Ops, Methods, FirstMethod

LEMMA InitEstablishes == Init => IInv
<1> SUFFICES ASSUME Init PROVE IInv
  OBVIOUS
<1>1. TypeOK
  BY TrialsAssumption DEF Init, TypeOK, Ops
<1>2. ASSUME NEW c \in Callers PROVE CallSound(c)
  <2>1. method[c] = "none" /\ result[c] = "none" /\ effects[c] = 0
    BY DEF Init
  <2>2. QED
    BY <2>1 DEF CallSound, UnderWay, Ended, Idle
<1>3. QED
  BY <1>1, <1>2 DEF IInv

LEMMA BeginPreserves ==
  ASSUME IInv, NEW c \in Callers, NEW o \in Ops, Begin(c, o)
  PROVE  IInv'
<1>1. TypeOK'
  BY MethodOfOp, TrialsAssumption DEF IInv, TypeOK, Begin
<1>2. CallSound(c)'
  BY MethodOfOp DEF IInv, TypeOK, Begin, CallSound, UnderWay, Ended, Idle
<1>3. ASSUME NEW d \in Callers, d # c PROVE CallSound(d)'
  BY <1>3, Frame DEF IInv, TypeOK, Begin
<1>4. QED
  BY <1>1, <1>2, <1>3 DEF IInv

LEMMA RefusePreserves ==
  ASSUME IInv, NEW c \in Callers, NEW o \in Ops, Refuse(c, o)
  PROVE  IInv'
<1>1. TypeOK'
  <2>1. 0 \in 0 .. MaxTrials
    BY TrialsAssumption
  <2>2. QED
    BY <2>1 DEF IInv, TypeOK, Refuse
<1>2. CallSound(c)'
  BY DEF IInv, TypeOK, Refuse, CallSound, UnderWay, Ended, Idle
<1>3. ASSUME NEW d \in Callers, d # c PROVE CallSound(d)'
  BY <1>3, Frame DEF IInv, TypeOK, Refuse
<1>4. QED
  BY <1>1, <1>2, <1>3 DEF IInv

(* The server changes something for the caller it serves, or for nobody;   *)
(* it answers a change with success only when it executed it.              *)
LEMMA ServeEffects ==
  ASSUME IInv, NEW c \in Callers, ~Idle(c), NEW code \in Codes, Serve(c, code)
  PROVE  /\ exists' \in BOOLEAN
         /\ effects' \in [Callers -> 0 .. MaxTrials]
         /\ \A d \in Callers \ {c} : effects'[d] = effects[d]
         /\ effects'[c] = effects[c] \/ effects'[c] = effects[c] + 1
         /\ method[c] \in {"get", "file"} => effects'[c] = effects[c]
         /\ code \in Success /\ method[c] \notin {"get", "file"} =>
              effects'[c] = effects[c] + 1
         /\ code = "409" => effects'[c] = effects[c]
<1>1. /\ effects[c] \in 0 .. MaxTrials /\ trial[c] \in 1 .. MaxTrials
      /\ effects[c] <= trial[c] - 1
  BY DEF IInv, TypeOK, CallSound, UnderWay
<1>2. effects[c] + 1 \in 0 .. MaxTrials
  BY <1>1, TrialsAssumption
<1>3. CASE /\ Effective(c)
           /\ code \in Success \cup Lossy
           /\ effects' = [effects EXCEPT ![c] = @ + 1]
           /\ exists' = CASE op[c] = "create" -> TRUE
                          [] op[c] = "delete" -> FALSE
                          [] OTHER -> exists
  <2>1. exists' \in BOOLEAN
    BY <1>3, Zenon DEF IInv, TypeOK
  <2>2. /\ effects' \in [Callers -> 0 .. MaxTrials]
        /\ \A d \in Callers \ {c} : effects'[d] = effects[d]
        /\ effects'[c] = effects[c] + 1
    BY <1>2, <1>3 DEF IInv, TypeOK
  <2>3. method[c] \notin {"get", "file"}
    BY <1>3 DEF Effective
  <2>4. code # "409"
    BY <1>3 DEF Success, Lossy
  <2>5. QED
    BY <2>1, <2>2, <2>3, <2>4
<1>4. CASE /\ method[c] \in {"get", "file"} /\ exists /\ code \in Success
           /\ UNCHANGED <<exists, effects>>
  BY <1>4 DEF IInv, TypeOK
<1>5. CASE code \in Failures /\ UNCHANGED <<exists, effects>>
  BY <1>5 DEF IInv, TypeOK, Success, Failures, Lossy
<1>6. QED
  BY <1>3, <1>4, <1>5 DEF Serve

LEMMA RetryPreserves ==
  ASSUME IInv, NEW c \in Callers, Retry(c)
  PROVE  IInv'
<1>1. ~Idle(c) /\ "408" \in Codes /\ Serve(c, "408")
  BY DEF Retry, Retried, Idle, Codes, Failures, Lossy
<1>2. /\ exists' \in BOOLEAN
      /\ effects' \in [Callers -> 0 .. MaxTrials]
      /\ \A d \in Callers \ {c} : effects'[d] = effects[d]
      /\ effects'[c] = effects[c] \/ effects'[c] = effects[c] + 1
      /\ method[c] \in {"get", "file"} => effects'[c] = effects[c]
  BY <1>1, ServeEffects
<1>3. TypeOK'
  <2>1. trial[c] + 1 \in 1 .. MaxTrials
    BY TrialsAssumption DEF IInv, TypeOK, Retry
  <2>2. trial' \in [Callers -> 1 .. MaxTrials]
    BY <2>1 DEF IInv, TypeOK, Retry
  <2>3. QED
    BY <1>2, <2>2 DEF IInv, TypeOK, Retry
<1>4. CallSound(c)'
  <2>1. method[c] \in Methods /\ op[c] \in Ops /\ UnderWay(c)
    BY <1>1 DEF IInv, TypeOK, CallSound, Idle
  <2>2. op[c] # "delete" => method[c] \in {"get", "file"}
    BY <1>1, <2>1, MethodOfOp DEF Retry, Retried, UnderWay
  <2>3. trial'[c] = trial[c] + 1 /\ trial[c] \in Nat /\ effects[c] \in Nat
    BY DEF IInv, TypeOK, Retry
  <2>4. effects'[c] <= trial'[c] - 1
    BY <1>1, <1>2, <2>1, <2>3 DEF UnderWay
  <2>5. op[c] # "delete" => effects'[c] = 0
    BY <1>1, <1>2, <2>1, <2>2 DEF UnderWay
  <2>6. QED
    BY <1>1, <2>1, <2>4, <2>5 DEF Retry, CallSound, UnderWay, Idle
<1>5. ASSUME NEW d \in Callers, d # c PROVE CallSound(d)'
  BY <1>2, <1>5, Frame DEF IInv, TypeOK, Retry
<1>6. QED
  BY <1>3, <1>4, <1>5 DEF IInv

LEMMA PostCopyPreserves ==
  ASSUME IInv, NEW c \in Callers, NEW code \in Codes, PostCopy(c, code)
  PROVE  IInv'
<1>1. ~Idle(c) /\ Serve(c, code) /\ op[c] = "copy" /\ method[c] = "get"
  BY DEF PostCopy, Idle
<1>2. /\ exists' \in BOOLEAN
      /\ effects' \in [Callers -> 0 .. MaxTrials]
      /\ \A d \in Callers \ {c} : effects'[d] = effects[d]
      /\ effects'[c] = effects[c]
  BY <1>1, ServeEffects
<1>3. TypeOK'
  <2>1. trial' \in [Callers -> 1 .. MaxTrials]
    BY TrialsAssumption DEF IInv, TypeOK, PostCopy
  <2>2. method' \in [Callers -> Methods \cup {"none"}]
    BY DEF IInv, TypeOK, PostCopy, Methods
  <2>3. QED
    BY <1>2, <2>1, <2>2 DEF IInv, TypeOK, PostCopy
<1>4. CallSound(c)'
  <2>1. effects[c] = 0 /\ result[c] = "none"
    BY <1>1 DEF IInv, CallSound, UnderWay
  <2>2. method'[c] = "post" /\ trial'[c] = 1 /\ op'[c] = op[c] /\ result'[c] = result[c]
    BY DEF IInv, TypeOK, PostCopy
  <2>3. QED
    BY <1>1, <1>2, <2>1, <2>2 DEF CallSound, UnderWay, Idle
<1>5. ASSUME NEW d \in Callers, d # c PROVE CallSound(d)'
  BY <1>2, <1>5, Frame DEF IInv, TypeOK, PostCopy
<1>6. QED
  BY <1>3, <1>4, <1>5 DEF IInv

(* How the ways a call can end depend on what the server said.             *)
LEMMA ConclusionMeans ==
  ASSUME NEW o \in Ops, NEW m \in Methods, NEW code \in Codes, NEW cut \in BOOLEAN
  PROVE  /\ Conclusion(o, m, code, cut) \in {"ok", "panic"} \cup Codes
         /\ Conclusion(o, m, code, cut) = "ok" => code \in Success
         /\ Conclusion(o, m, code, cut) = "409" => code = "409"
<1>1. /\ ReturnedCode(m, code) \in Codes
      /\ ReturnedCode(m, code) \in Success => code \in Success
      /\ ReturnedCode(m, code) = "409" => code = "409"
  BY DEF ReturnedCode, Codes, Success, Failures, Lossy
<1>2. Accepted(o) \subseteq Success
  BY DEF Accepted, Success
<1>3. "ok" \notin Codes
  BY DEF Codes, Success, Failures, Lossy
<1>4. QED
  BY <1>1, <1>2, <1>3 DEF Conclusion

LEMMA ReturnPreserves ==
  ASSUME IInv, NEW c \in Callers, NEW code \in Codes, NEW cut \in BOOLEAN,
         Return(c, code, cut)
  PROVE  IInv'
<1> DEFINE end == Conclusion(op[c], method[c], code, cut)
<1>1. /\ ~Idle(c) /\ Serve(c, code)
      /\ method[c] \in Methods /\ op[c] \in Ops
      /\ UnderWay(c)
  BY DEF Return, IInv, TypeOK, CallSound, Idle
<1>2. /\ exists' \in BOOLEAN
      /\ effects' \in [Callers -> 0 .. MaxTrials]
      /\ \A d \in Callers \ {c} : effects'[d] = effects[d]
      /\ effects'[c] = effects[c] \/ effects'[c] = effects[c] + 1
      /\ code \in Success /\ method[c] \notin {"get", "file"} =>
           effects'[c] = effects[c] + 1
      /\ code = "409" => effects'[c] = effects[c]
  BY <1>1, ServeEffects
<1>3. /\ end \in {"ok", "panic"} \cup Codes
      /\ end = "ok" => code \in Success
      /\ end = "409" => code = "409"
  BY <1>1, ConclusionMeans
<1>4. /\ method' = [method EXCEPT ![c] = "none"]
      /\ result' = [result EXCEPT ![c] = end]
      /\ UNCHANGED <<op, trial>>
      /\ ~(op[c] = "copy" /\ method[c] = "get" /\ end = "ok")
  BY DEF Return
<1> HIDE DEF end
<1>5. TypeOK'
  BY <1>2, <1>3, <1>4 DEF IInv, TypeOK
<1>6. CallSound(c)'
  <2>1. /\ method'[c] = "none" /\ result'[c] = end /\ op'[c] = op[c]
        /\ effects[c] \in Nat
    BY <1>4 DEF IInv, TypeOK
  <2>2. op[c] # "delete" => effects'[c] <= 1
    BY <1>1, <1>2, <2>1 DEF UnderWay
  <2>3. op[c] = "create" /\ end = "409" => effects'[c] = 0
    BY <1>1, <1>2, <1>3 DEF UnderWay
  <2>4. end = "ok" /\ op[c] \notin {"get", "download", "getFile"} => effects'[c] >= 1
    <3>1. SUFFICES ASSUME end = "ok", op[c] \notin {"get", "download", "getFile"}
                   PROVE  effects'[c] >= 1
      OBVIOUS
    <3>2. method[c] \notin {"get", "file"}
      BY <1>1, <1>4, <3>1 DEF UnderWay, Ops, FirstMethod
    <3>3. QED
      BY <1>2, <1>3, <2>1, <3>1, <3>2
  <2>5. QED
    BY <2>1, <2>2, <2>3, <2>4 DEF CallSound, UnderWay, Ended, Idle
<1>7. ASSUME NEW d \in Callers, d # c PROVE CallSound(d)'
  BY <1>2, <1>4, <1>7, Frame DEF IInv, TypeOK
<1>8. QED
  BY <1>5, <1>6, <1>7 DEF IInv

LEMMA CrashPreserves ==
  ASSUME IInv, NEW c \in Callers, Crash(c)
  PROVE  IInv'
<1>1. ~Idle(c) /\ Serve(c, "lost") /\ "lost" \in Codes
  BY DEF Crash, Codes, Failures, Lossy
<1>2. /\ exists' \in BOOLEAN
      /\ effects' \in [Callers -> 0 .. MaxTrials]
      /\ \A d \in Callers \ {c} : effects'[d] = effects[d]
      /\ effects'[c] = effects[c] \/ effects'[c] = effects[c] + 1
  BY <1>1, ServeEffects
<1>3. TypeOK'
  BY <1>2 DEF IInv, TypeOK, Crash
<1>4. CallSound(c)'
  <2>1. /\ method'[c] = "none" /\ result'[c] = "panic" /\ op'[c] = op[c]
        /\ op[c] # "delete" => effects[c] = 0
    BY <1>1 DEF IInv, TypeOK, CallSound, UnderWay, Crash
  <2>2. QED
    BY <1>2, <2>1 DEF CallSound, UnderWay, Ended, Idle
<1>5. ASSUME NEW d \in Callers, d # c PROVE CallSound(d)'
  BY <1>2, <1>5, Frame DEF IInv, TypeOK, Crash
<1>6. QED
  BY <1>3, <1>4, <1>5 DEF IInv

LEMMA StepPreserves == IInv /\ [Next]_vars => IInv'
<1>1. ASSUME IInv, UNCHANGED vars PROVE IInv'
  <2>1. TypeOK'
    BY <1>1 DEF IInv, TypeOK, vars
  <2>2. ASSUME NEW d \in Callers PROVE CallSound(d)'
    BY <1>1, <2>2, Frame DEF IInv, vars
  <2>3. QED
    BY <2>1, <2>2 DEF IInv
<1>2. QED
  BY <1>1, BeginPreserves, RefusePreserves, RetryPreserves, PostCopyPreserves,
     ReturnPreserves, CrashPreserves DEF Next, Proceed

(* The variables keep their types: no request is sent more than MaxTrials  *)
(* times, and no call has more effects than that.                          *)
THEOREM TypeCorrect == Spec => []TypeOK
<1>1. IInv => TypeOK
  BY DEF IInv
<1>2. QED
  BY <1>1, InitEstablishes, StepPreserves, PTL DEF Spec

(* A call that reports success has changed what it was to change           *)
(* (service.go 143-248, 277-385).                                          *)
THEOREM SuccessIsReal == Spec => []SuccessMeansDone
<1>1. IInv => SuccessMeansDone
  BY DEF IInv, CallSound, UnderWay, Ended, SuccessMeansDone
<1>2. QED
  BY <1>1, InitEstablishes, StepPreserves, PTL DEF Spec

(* Whatever is lost or times out, a call that is not a delete changes the  *)
(* resource at most once (client.go 351, 484).                             *)
THEOREM NoDoubleChange == Spec => []ChangesOnce
<1>1. IInv => ChangesOnce
  <2> SUFFICES ASSUME IInv, NEW c \in Callers, op[c] # "delete" PROVE effects[c] <= 1
    BY DEF ChangesOnce
  <2>1. CASE Idle(c)
    BY <2>1 DEF IInv, CallSound, Ended
  <2>2. CASE ~Idle(c)
    BY <2>2 DEF IInv, CallSound, UnderWay
  <2>3. QED
    BY <2>1, <2>2
<1>2. QED
  BY <1>1, InitEstablishes, StepPreserves, PTL DEF Spec

(* A create never meets its own resource (client.go 386-393).              *)
THEOREM ConflictsAreForeign == Spec => []ConflictIsForeign
<1>1. IInv => ConflictIsForeign
  BY DEF IInv, CallSound, UnderWay, Ended, ConflictIsForeign
<1>2. QED
  BY <1>1, InitEstablishes, StepPreserves, PTL DEF Spec

(* A step of one caller, seen by any other: its call keeps still.          *)
StandsStill(d) == UNCHANGED <<op[d], method[d], trial[d], result[d], effects[d]>>

LEMMA OthersStandStill ==
  ASSUME IInv, NEW c \in Callers, NEW d \in Callers, c # d,
         \/ \E o \in Ops : Begin(c, o) \/ Refuse(c, o)
         \/ Proceed(c)
  PROVE  StandsStill(d)
<1>1. CASE \E o \in Ops : Begin(c, o) \/ Refuse(c, o)
  BY <1>1 DEF IInv, TypeOK, Begin, Refuse, StandsStill
<1>2. CASE Proceed(c)
  <2>1. /\ ~Idle(c) /\ \E code \in Codes : Serve(c, code)
        /\ op' = op
        /\ method'[d] = method[d] /\ trial'[d] = trial[d] /\ result'[d] = result[d]
    BY <1>2 DEF Proceed, Retry, PostCopy, Return, Crash, Retried, Idle, Codes, Failures,
                Lossy, IInv, TypeOK
  <2>2. effects'[d] = effects[d]
    BY <2>1, ServeEffects
  <2>3. QED
    BY <2>1, <2>2 DEF StandsStill
<1>3. QED
  BY <1>1, <1>2

(* An answer to a caller leaves its call fewer requests. *)
LEMMA AnswersCount ==
  ASSUME IInv, NEW c \in Callers, ~Idle(c), Proceed(c)
  PROVE  RequestsLeft(c)' < RequestsLeft(c)
<1>1. /\ trial[c] \in 1 .. MaxTrials /\ MaxTrials \in Nat
      /\ op \in [Callers -> Ops]
      /\ method \in [Callers -> Methods \cup {"none"}]
      /\ trial \in [Callers -> 1 .. MaxTrials]
  BY TrialsAssumption DEF IInv, TypeOK
<1>2. CASE Retry(c)
  <2>1. /\ op'[c] = op[c] /\ method'[c] = method[c] /\ method[c] \in Retried
        /\ trial'[c] = trial[c] + 1
    BY <1>1, <1>2 DEF Retry
  <2>2. QED
    BY <1>1, <2>1 DEF RequestsLeft, Idle
<1>3. CASE \E code \in Codes : PostCopy(c, code)
  <2>1. /\ op[c] = "copy" /\ method[c] = "get"
        /\ op'[c] = op[c] /\ method'[c] = "post"
    BY <1>1, <1>3 DEF PostCopy
  <2>2. QED
    BY <1>1, <2>1 DEF RequestsLeft, Idle, Retried
<1>4. CASE Crash(c) \/ \E code \in Codes, cut \in BOOLEAN : Return(c, code, cut)
  <2>1. method'[c] = "none"
    BY <1>1, <1>4 DEF Return, Crash
  <2>2. QED
    BY <1>1, <2>1 DEF RequestsLeft, Idle, Retried
<1>5. QED
  BY <1>2, <1>3, <1>4 DEF Proceed

(* No call starts over: whatever is answered, lost or timed out, to        *)
(* whichever caller, a call under way keeps still or has fewer requests    *)
(* left, at most MaxTrials and the post of a copy (client.go 227-279, 351, *)
(* service.go 364-385).                                                    *)
THEOREM CallsAreFinite == Spec => CallsComeToAnEnd
<1> DEFINE Nearer ==
      \A c \in Callers :
        ~Idle(c) =>
          \/ RequestsLeft(c)' < RequestsLeft(c)
          \/ UNCHANGED <<op[c], method[c], trial[c], result[c], effects[c]>>
<1>1. IInv /\ [Next]_vars => [Nearer]_vars
  <2> SUFFICES ASSUME IInv, Next, NEW d \in Callers, ~Idle(d)
               PROVE  RequestsLeft(d)' < RequestsLeft(d) \/ StandsStill(d)
    BY DEF StandsStill
  <2>1. PICK c \in Callers : \/ \E o \in Ops : Begin(c, o) \/ Refuse(c, o)
                            \/ Proceed(c)
    BY DEF Next
  <2>2. CASE c # d
    BY <2>1, <2>2, OthersStandStill
  <2>3. CASE c = d
    BY <2>1, <2>3, AnswersCount DEF Begin, Refuse
  <2>4. QED
    BY <2>2, <2>3
<1> HIDE DEF Nearer
<1>2. Spec => [][Nearer]_vars
  BY <1>1, InitEstablishes, StepPreserves, PTL DEF Spec
<1>3. QED
  BY <1>2 DEF Nearer, CallsComeToAnEnd

-----------------------------------------------------------------------------
(* The token that AddToken adds to such a request is that of a session     *)
(* file: the theorems about Interceptor.                                   *)

Session == INSTANCE Interceptor

(* Who reads or stores the token holds the mutex. *)
Exclusion ==
  /\ load \in {"token", "type"} <=> mutex = "load"
  /\ request \in {"type", "token"} <=> mutex = "request"

(* Token and type differ only between the two stores, and while a request  *)
(* reads them they do not change.                                          *)
OneSession ==
  /\ token = IF load = "type" THEN session ELSE type
  /\ request = "token" => header[1] = type
  /\ request = "header" => header[1] = header[2]

(* Unless an event is to come, the file is the one that was loaded, or is  *)
(* being loaded, or will be: before the watch starts, because whoever      *)
(* changes it slips in; under the watch, because it is looked at again.    *)
Loaded ==
  (watch = "off" \/ (watch = "on" /\ ~fresh /\ ~event)) /\ file # Missing /\ ~slipped =>
    /\ load \in {"lock", "token"} => session = file
    /\ load \in {"type", "idle"} => token = file

FileInv == Session!TypeOK /\ Exclusion /\ OneSession /\ Loaded

LEMMA FileInit == ASSUME Session!Init PROVE FileInv
<1>1. 1 \in Sessions /\ 0 \in 0 .. MaxSessions /\ 1 \in 0 .. MaxSessions
  BY SessionsAssumption DEF Sessions
<1>2. Session!TypeOK
  BY <1>1 DEF Session!Init, Session!TypeOK, Sessions, Session!Sessions
<1>3. QED
  BY <1>2 DEF Session!Init, FileInv, Exclusion, OneSession, Loaded, Missing, Partial

(* The program that changes the file. *)
LEMMA FileWritten ==
  ASSUME FileInv,
         Session!Truncate \/ Session!Write \/ Session!Delete
  PROVE  FileInv'
<1>0. /\ UNCHANGED <<watch, event, load, session, token, type, mutex, request, header>>
      /\ fresh' = TRUE
      /\ slipped' = (slipped \/ (watch = "off" /\ load # "open"))
  BY DEF Session!Truncate, Session!Write, Session!Delete, Session!Modify,
         Session!loadVars, Session!tokenVars, Session!reqVars
<1>1. Session!TypeOK'
  <2> USE DEF Session!Truncate, Session!Write, Session!Delete, Session!Modify,
              Session!Missing, Missing, Session!Partial, Partial
  <2>1. written' \in 0 .. MaxSessions
    BY SessionsAssumption DEF FileInv, Session!TypeOK
  <2>2. file' \in Sessions \cup {Partial, Missing}
    BY SessionsAssumption DEF FileInv, Session!TypeOK, Sessions, Session!Sessions
  <2>3. fresh' \in BOOLEAN /\ slipped' \in BOOLEAN
    BY <1>0 DEF FileInv, Session!TypeOK
  <2> HIDE DEF Session!Truncate, Session!Write, Session!Delete, Session!Modify
  <2>4. QED
    BY <1>0, <2>1, <2>2, <2>3 DEF FileInv, Session!TypeOK, Sessions, Session!Sessions
<1>2. Exclusion' /\ OneSession'
  BY <1>0 DEF FileInv, Exclusion, OneSession
<1>3. Loaded'
  BY <1>0 DEF FileInv, Session!TypeOK, Loaded
<1>4. QED
  BY <1>1, <1>2, <1>3 DEF FileInv

(* The goroutine that watches the file and loads it. *)
LEMMA FileWatched ==
  ASSUME FileInv,
         Session!LoadStep \/ Session!LockToStore \/ Session!Add \/ Session!Poll
           \/ Session!PollDeleted \/ Session!TakeEvent
  PROVE  FileInv'
<1> USE DEF Session!fileVars, Session!loadVars, Session!tokenVars, Session!reqVars,
            Session!Missing, Missing
<1>1. CASE Session!OpenFails
  BY <1>1 DEF Session!OpenFails, FileInv, Session!TypeOK, Exclusion, OneSession, Loaded
<1>2. CASE Session!ReadSession
  <2>1. session' \in 0 .. MaxSessions
    BY <1>2, SessionsAssumption
       DEF Session!ReadSession, FileInv, Session!TypeOK, Session!Sessions, Session!Partial
  <2>2. QED
    BY <1>2, <2>1
       DEF Session!ReadSession, FileInv, Session!TypeOK, Exclusion, OneSession, Loaded
<1>3. CASE Session!LockToStore
  BY <1>3 DEF Session!LockToStore, FileInv, Session!TypeOK, Exclusion, OneSession, Loaded
<1>4. CASE Session!StoreToken
  BY <1>4 DEF Session!StoreToken, FileInv, Session!TypeOK, Exclusion, OneSession, Loaded
<1>5. CASE Session!StoreType
  <2>1. request \notin {"type", "token"}
    BY <1>5 DEF Session!StoreType, FileInv, Exclusion
  <2>2. Session!TypeOK'
    BY <1>5, SessionsAssumption DEF Session!StoreType, FileInv, Session!TypeOK
  <2>3. QED
    BY <1>5, <2>1, <2>2 DEF Session!StoreType, FileInv, Exclusion, OneSession, Loaded
<1>6. CASE Session!Add
  BY <1>6 DEF Session!Add, FileInv, Session!TypeOK, Exclusion, OneSession, Loaded
<1>7. CASE Session!Poll
  BY <1>7 DEF Session!Poll, FileInv, Session!TypeOK, Exclusion, OneSession, Loaded
<1>8. CASE Session!PollDeleted
  BY <1>8 DEF Session!PollDeleted, FileInv, Session!TypeOK, Exclusion, OneSession, Loaded
<1>9. CASE Session!TakeEvent
  BY <1>9 DEF Session!TakeEvent, FileInv, Session!TypeOK, Exclusion, OneSession, Loaded
<1>10. QED
  BY <1>1, <1>2, <1>3, <1>4, <1>5, <1>6, <1>7, <1>8, <1>9 DEF Session!LoadStep

(* The requests that take the token. *)
LEMMA TokenRead ==
  ASSUME FileInv, Session!LockToRead \/ Session!ReadStep
  PROVE  FileInv'
<1> USE DEF Session!fileVars, Session!loadVars, Session!tokenVars
<1>1. Loaded'
  BY DEF Session!LockToRead, Session!ReadStep, Session!ReadType, Session!ReadToken,
         Session!Done, FileInv, Loaded
<1>2. CASE Session!LockToRead
  BY <1>1, <1>2 DEF Session!LockToRead, FileInv, Session!TypeOK, Exclusion, OneSession
<1>3. CASE Session!ReadType
  BY <1>1, <1>3 DEF Session!ReadType, FileInv, Session!TypeOK, Exclusion, OneSession
<1>4. CASE Session!ReadToken
  <2>1. token = type
    BY <1>4 DEF Session!ReadToken, FileInv, Exclusion, OneSession
  <2>2. QED
    BY <1>1, <1>4, <2>1 DEF Session!ReadToken, FileInv, Session!TypeOK, Exclusion, OneSession
<1>5. CASE Session!Done
  BY <1>1, <1>5, SessionsAssumption DEF Session!Done, FileInv, Session!TypeOK,
                    Exclusion, OneSession
<1>6. QED
  BY <1>2, <1>3, <1>4, <1>5 DEF Session!ReadStep

LEMMA FileStep == FileInv /\ [Session!Next]_(Session!vars) => FileInv'
<1>1. FileInv /\ UNCHANGED Session!vars => FileInv'
  BY DEF FileInv, Session!TypeOK, Exclusion, OneSession, Loaded, Session!vars,
         Session!fileVars, Session!loadVars, Session!tokenVars, Session!reqVars
<1>2. QED
  BY <1>1, FileWritten, FileWatched, TokenRead DEF Session!Next

(* The header of a request has type and token of one session, for any      *)
(* number of sessions, though they are stored and read one after the other *)
(* (interceptor.go lines 64-67, 109-112).                                  *)
THEOREM HeadersAreOfOneSession == Session!Spec => []HeaderIsOneSession
<1>1. FileInv => HeaderIsOneSession
  BY DEF FileInv, OneSession, HeaderIsOneSession
<1>2. Session!Init => FileInv
  BY FileInit
<1>3. QED
  BY <1>1, <1>2, FileStep, PTL DEF Session!Spec

(* Nothing that was written under the watch is overlooked: when the watch  *)
(* has nothing to report and nothing is being loaded, the token is that of *)
(* the file (interceptor.go lines 35-37, 78-93).                           *)
THEOREM TheFileIsLoaded == Session!Spec => []QuietMeansLoaded
<1>1. FileInv => QuietMeansLoaded
  BY DEF FileInv, Loaded, QuietMeansLoaded
<1>2. Session!Init => FileInv
  BY FileInit
<1>3. QED
  BY <1>1, <1>2, FileStep, PTL DEF Session!Spec
=============================================================================
