----------------------------- MODULE RestCalls ------------------------------
(***************************************************************************)
(* Calls of the REX service layer (rexos/service.go) and the HTTP client   *)
(* under it (rexos/client.go), by callers that work on one remote resource *)
(* at the same time.  A call is one or two requests; some requests are     *)
(* retried when they time out.  The server handles every request it gets   *)
(* atomically, but what it did and what the caller is told may differ.     *)
(***************************************************************************)
EXTENDS Integers

CONSTANTS
  Callers,   \* the goroutines that call the service
  MaxTrials  \* MaxTrials

ASSUME TrialsAssumption == MaxTrials \in Nat \ {0}

(* getHalResource, DownloadFileContent, GetFileWithServiceUser,            *)
(* createHalResource, patchHalResource, DeleteHalResource,                 *)
(* UploadMultipartFile and UploadFile, UploadFileContent.                  *)
Ops == {"get", "download", "getFile", "create", "patch", "delete", "upload", "copy"}

(* Status codes: two of 2xx, and the ones the code tells apart; "lost" is  *)
(* a request without response.                                             *)
Success  == {"200", "201"}
Lossy    == {"408", "500", "lost"}
Failures == {"404", "409"} \cup Lossy
Codes    == Success \cup Failures

Methods == {"get", "file", "post", "patch", "delete"}

FirstMethod(o) ==
  CASE o \in {"get", "download", "copy"} -> "get"
    [] o = "getFile"                     -> "file"
    [] o \in {"create", "upload"}        -> "post"
    [] o \in {"patch", "delete"}         -> o

VARIABLES
  exists,  \* the remote resource exists
  op,      \* the latest call of each caller
  method,  \* its request under way, or "none"
  trial,   \* the trial of that request
  result,  \* what the call ended with: "ok", "panic", the code of a Status, or "none"
  effects  \* history: how often the server executed a change for the call

vars == <<exists, op, method, trial, result, effects>>

TypeOK ==
  /\ exists \in BOOLEAN
  /\ op \in [Callers -> Ops]
  /\ method \in [Callers -> Methods \cup {"none"}]
  /\ trial \in [Callers -> 1 .. MaxTrials]
  /\ result \in [Callers -> {"none", "ok", "panic", "403"} \cup Codes]
  /\ effects \in [Callers -> 0 .. MaxTrials]

Init ==
  /\ exists \in BOOLEAN
  /\ op = [c \in Callers |-> "get"]
  /\ method = [c \in Callers |-> "none"]
  /\ trial = [c \in Callers |-> 1]
  /\ result = [c \in Callers |-> "none"]
  /\ effects = [c \in Callers |-> 0]

-----------------------------------------------------------------------------
(* The client: which requests are retried, and what a method returns.      *)

(* Mutant: post is retried, too. *)
RetriedWithPost == {"get", "file", "delete", "post"}

Retried == {"get", "file", "delete"}

(* Everything but post dereferences the nil response of a failed request. *)
Crashes(m, code) == code = "lost" /\ m # "post"

ReturnedCode(m, code) ==
  CASE m = "file" /\ code \in Success -> "200"
    [] m = "file" /\ code \notin Success \cup {"408"} -> "500"
    [] m # "file" /\ code = "lost" -> "500"
    [] OTHER -> code

(* Whether the method returns an error; cut: the body of a success ended too early. *)
ReturnsError(m, code, cut) ==
  CASE m = "post" /\ code \in {"lost", "409"} -> FALSE
    [] code \in Success -> cut /\ m # "file"
    [] OTHER -> TRUE

(* Mutant: the service does not look at the code. *)
AcceptedUnseen(o) == Codes

(* The service: 2xx is success for HAL resources, only 200 is for files.   *)
Accepted(o) == IF o \in {"get", "create", "patch", "delete"} THEN Success ELSE {"200"}

(* The status of a call; a refused upload reads the message of a nil error. *)
Conclusion(o, m, code, cut) ==
  LET error    == ReturnsError(m, code, cut)
      accepted == ReturnedCode(m, code) \in Accepted(o)
  IN  CASE ~error /\ accepted -> "ok"
        [] ~error /\ ~accepted /\ m = "post" /\ o \in {"upload", "copy"} -> "panic"
        [] OTHER -> ReturnedCode(m, code)

-----------------------------------------------------------------------------
Idle(c) == method[c] = "none"

Begin(c, o) ==
  /\ Idle(c)
  /\ op' = [op EXCEPT ![c] = o]
  /\ method' = [method EXCEPT ![c] = FirstMethod(o)]
  /\ trial' = [trial EXCEPT ![c] = 1]
  /\ result' = [result EXCEPT ![c] = "none"]
  /\ effects' = [effects EXCEPT ![c] = 0]
  /\ UNCHANGED exists

(* The context lacks the caller's data, or there is no service user. *)
Refuse(c, o) ==
  /\ Idle(c)
  /\ op' = [op EXCEPT ![c] = o]
  /\ result' = [result EXCEPT ![c] = "403"]
  /\ effects' = [effects EXCEPT ![c] = 0]
  /\ UNCHANGED <<exists, method, trial>>

(* The requests that change something as things are. *)
Effective(c) ==
  CASE method[c] = "post" -> op[c] # "create" \/ ~exists
    [] method[c] \in {"patch", "delete"} -> exists
    [] OTHER -> FALSE

(* What the server does with a request and what comes back: it executes a  *)
(* change, answers a read, or refuses; a change it executed may be         *)
(* reported as a timeout, as an error or not at all.                       *)
Serve(c, code) ==
  \/ /\ Effective(c)
     /\ code \in Success \cup Lossy
     /\ effects' = [effects EXCEPT ![c] = @ + 1]
     /\ exists' = CASE op[c] = "create" -> TRUE
                    [] op[c] = "delete" -> FALSE
                    [] OTHER -> exists
  \/ /\ method[c] \in {"get", "file"} /\ exists /\ code \in Success
     /\ UNCHANGED <<exists, effects>>
  \/ /\ code \in Failures
     /\ UNCHANGED <<exists, effects>>

(* Mutants: the loop runs once too often; get starts over after the last   *)
(* trial.                                                                  *)
RetryTooOften(c) ==
  /\ method[c] \in Retried
  /\ trial[c] <= MaxTrials
  /\ Serve(c, "408")
  /\ trial' = [trial EXCEPT ![c] = @ + 1]
  /\ UNCHANGED <<op, method, result>>

RetryForever(c) ==
  /\ method[c] \in Retried
  /\ method[c] = "delete" => trial[c] < MaxTrials
  /\ Serve(c, "408")
  /\ trial' = [trial EXCEPT ![c] = (@ % MaxTrials) + 1]
  /\ UNCHANGED <<op, method, result>>

(* 408: the next trial follows, after a tenth of a second. *)
Retry(c) ==
  /\ method[c] \in Retried
  /\ trial[c] < MaxTrials
  /\ Serve(c, "408")
  /\ trial' = [trial EXCEPT ![c] = @ + 1]
  /\ UNCHANGED <<op, method, result>>

Final(c, code) == code = "408" /\ method[c] \in Retried => trial[c] = MaxTrials

(* UploadFileContent has downloaded the content and posts it. *)
PostCopy(c, code) ==
  /\ op[c] = "copy" /\ method[c] = "get"
  /\ Serve(c, code)
  /\ Final(c, code)
  /\ ~Crashes("get", code)
  /\ Conclusion("copy", "get", code, FALSE) = "ok"
  /\ method' = [method EXCEPT ![c] = "post"]
  /\ trial' = [trial EXCEPT ![c] = 1]
  /\ UNCHANGED <<op, result>>

Return(c, code, cut) ==
  /\ ~Idle(c)
  /\ cut => code \in Success
  /\ Serve(c, code)
  /\ Final(c, code)
  /\ ~Crashes(method[c], code)
  /\ LET end == Conclusion(op[c], method[c], code, cut)
     IN  /\ ~(op[c] = "copy" /\ method[c] = "get" /\ end = "ok")
         /\ result' = [result EXCEPT ![c] = end]
  /\ method' = [method EXCEPT ![c] = "none"]
  /\ UNCHANGED <<op, trial>>

Crash(c) ==
  /\ ~Idle(c)
  /\ Crashes(method[c], "lost")
  /\ Serve(c, "lost")
  /\ result' = [result EXCEPT ![c] = "panic"]
  /\ method' = [method EXCEPT ![c] = "none"]
  /\ UNCHANGED <<op, trial>>

(* One request of the caller is answered, or lost. *)
Proceed(c) ==
  \/ Retry(c)
  \/ \E code \in Codes : PostCopy(c, code)
  \/ \E code \in Codes, cut \in BOOLEAN : Return(c, code, cut)
  \/ Crash(c)

Next ==
  \E c \in Callers :
    \/ \E o \in Ops : Begin(c, o) \/ Refuse(c, o)
    \/ Proceed(c)

(* Requests are answered, or their connection fails: the client itself has *)
(* no timeout.                                                             *)
Spec == Init /\ [][Next]_vars /\ \A c \in Callers : WF_vars(Proceed(c))

-----------------------------------------------------------------------------
(* A call that reports success has changed what it was to change: a post   *)
(* whose connection failed returns no error, and only the service's look   *)
(* at the code tells (client.go 376, 392, service.go 163, 215, 239).       *)
SuccessMeansDone ==
  \A c \in Callers :
    result[c] = "ok" /\ op[c] \notin {"get", "download", "getFile"} => effects[c] >= 1

(* "POST is not considered a safe nor idempotent HTTP method" (line 351),  *)
(* nor is PATCH: whatever is lost or times out, one call changes the       *)
(* resource at most once, but for a delete, which is repeated.             *)
ChangesOnce == \A c \in Callers : op[c] # "delete" => effects[c] <= 1

(* A create that reports a conflict met somebody else's resource, never    *)
(* its own: CreateOrUpdateUserShare goes on to overwrite it (share.go 197, *)
(* client.go 386-393).                                                     *)
ConflictIsForeign ==
  \A c \in Callers : op[c] = "create" /\ result[c] = "409" => effects[c] = 0

(* Every call ends, however often its requests time out (lines 227-279).   *)
CallsEnd == \A c \in Callers : ~Idle(c) ~> Idle(c)

(* The requests a call may still send, the one under way included; a copy  *)
(* posts what it got, once.                                                *)
RequestsLeft(c) ==
  CASE Idle(c) -> 0
    [] method[c] \in Retried /\ op[c] = "copy" -> (MaxTrials - trial[c]) + 2
    [] method[c] \in Retried /\ op[c] # "copy" -> (MaxTrials - trial[c]) + 1
    [] OTHER -> 1

(* Whatever is answered, lost or timed out, to whichever caller, a call    *)
(* under way keeps still or has fewer requests left: none starts over      *)
(* (lines 227-279, 351, service.go 364-385).                               *)
CallsComeToAnEnd ==
  [][\A c \in Callers :
      ~Idle(c) =>
        \/ RequestsLeft(c)' < RequestsLeft(c)
        \/ UNCHANGED <<op[c], method[c], trial[c], result[c], effects[c]>>]_vars

(* "The return values also contain the http status code and a potential    *)
(* error which has occured" (line 203): a GET ends without a panic.        *)
GetReturns == \A c \in Callers : op[c] \in {"get", "download"} => result[c] # "panic"
=============================================================================
