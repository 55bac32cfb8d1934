-------------------------- MODULE InterceptorState --------------------------
(***************************************************************************)
(* The Interceptor of rexos/interceptor.go between its steps: what it      *)
(* keeps, and what must hold of it whenever a request is sent and whenever *)
(* the session file rests.                                                 *)
(***************************************************************************)
EXTENDS Integers

CONSTANT MaxSessions  \* bound: how many sessions are written to the file

ASSUME SessionsAssumption == MaxSessions \in Nat \ {0}

Sessions == 1 .. MaxSessions

(* What the file holds when it holds no session. *)
Partial == 0
Missing == -1

VARIABLES
  file,     \* the session it holds, Partial or Missing
  written,  \* the latest session that was written
  fresh,    \* it was modified after the watcher has looked at it
  watch,    \* "off" before watch.Add, then "on", or "lost"
  event,    \* the watcher sends an event
  load,     \* loadToken: "open", "lock", "token" or "type" is next, or "idle"
  session,  \* the session it has read; 0 is the empty one
  token,    \* Interceptor.accessToken, by the session it is of
  type,     \* Interceptor.tokenType, by the session it is of
  mutex,    \* who holds the mutex: "load", "request" or "free"
  request,  \* AddToken: "type" or "token" is read next, "header" is set, or "idle"
  header,   \* the type and the token it has read
  slipped   \* history: the file was written after the first load, before the watch

-----------------------------------------------------------------------------
(* The header of a request has type and token of one session, though they  *)
(* are stored and read one after the other (lines 64-67, 109-112).         *)
HeaderIsOneSession == request = "header" => header[1] = header[2]

(* When the watch has nothing to report and nothing is being loaded, the   *)
(* token is that of the file as it is, a file that is being written at     *)
(* this moment included, unless a write slipped in between the first load  *)
(* and the watch, or the file is gone (lines 35-37, 78-93).                *)
QuietMeansLoaded ==
  watch = "on" /\ ~fresh /\ ~event /\ load = "idle" /\ file # Missing =>
    token = file \/ slipped
=============================================================================
