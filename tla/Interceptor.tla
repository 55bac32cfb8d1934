---------------------------- MODULE Interceptor ----------------------------
(***************************************************************************)
(* The Interceptor of rexos/interceptor.go: it loads the session file,     *)
(* then watches it and loads it again when it is written, while requests   *)
(* take the token from it.  The program that writes the file, and the      *)
(* watcher package, which polls it, are external.                          *)
(***************************************************************************)
EXTENDS InterceptorState

fileVars  == <<file, written, fresh>>
loadVars  == <<load, session>>
tokenVars == <<token, type>>
reqVars   == <<request, header>>
vars == <<fileVars, watch, event, loadVars, tokenVars, mutex, reqVars, slipped>>

TypeOK ==
  /\ file \in Sessions \cup {Partial, Missing}
  /\ written \in 0 .. MaxSessions
  /\ fresh \in BOOLEAN
  /\ watch \in {"off", "on", "lost"}
  /\ event \in BOOLEAN
  /\ load \in {"open", "lock", "token", "type", "idle"}
  /\ session \in 0 .. MaxSessions
  /\ token \in 0 .. MaxSessions
  /\ type \in 0 .. MaxSessions
  /\ mutex \in {"load", "request", "free"}
  /\ request \in {"type", "token", "header", "idle"}
  /\ header \in (0 .. MaxSessions) \X (0 .. MaxSessions)
  /\ slipped \in BOOLEAN

(* NewInterceptor loads the file first. *)
Init ==
  /\ file \in {Missing, Partial, 1}
  /\ written = IF file = 1 THEN 1 ELSE 0
  /\ fresh = FALSE
  /\ watch = "off"
  /\ event = FALSE
  /\ load = "open"
  /\ session = 0
  /\ token = 0 /\ type = 0
  /\ mutex = "free"
  /\ request = "idle"
  /\ header = <<0, 0>>
  /\ slipped = FALSE

-----------------------------------------------------------------------------
(* The program that writes the session file. *)

Modify(content) ==
  /\ file' = content
  /\ fresh' = TRUE
  /\ slipped' = (slipped \/ (watch = "off" /\ load # "open"))
  /\ UNCHANGED <<watch, event, loadVars, tokenVars, mutex, reqVars>>

Truncate ==
  /\ written < MaxSessions
  /\ Modify(Partial)
  /\ UNCHANGED written

Write ==
  /\ file = Partial
  /\ written < MaxSessions
  /\ written' = written + 1
  /\ Modify(written')

Delete ==
  /\ file # Missing
  /\ written < MaxSessions
  /\ Modify(Missing)
  /\ UNCHANGED written

-----------------------------------------------------------------------------
(* loadToken. *)

(* A file that is missing leaves the token as it is. *)
OpenFails ==
  /\ load = "open"
  /\ file = Missing
  /\ load' = "idle"
  /\ UNCHANGED <<fileVars, watch, event, session, tokenVars, mutex, reqVars, slipped>>

(* What cannot be unmarshalled is an empty session. *)
ReadSession ==
  /\ load = "open"
  /\ file # Missing
  /\ load' = "lock"
  /\ session' = file
  /\ UNCHANGED <<fileVars, watch, event, tokenVars, mutex, reqVars, slipped>>

LockToStore ==
  /\ load = "lock"
  /\ mutex = "free"
  /\ mutex' = "load"
  /\ load' = "token"
  /\ UNCHANGED <<fileVars, watch, event, session, tokenVars, reqVars, slipped>>

StoreToken ==
  /\ load = "token"
  /\ token' = session
  /\ load' = "type"
  /\ UNCHANGED <<fileVars, watch, event, session, type, mutex, reqVars, slipped>>

StoreType ==
  /\ load = "type"
  /\ type' = session
  /\ load' = "idle"
  /\ mutex' = "free"
  /\ session' = 0
  /\ UNCHANGED <<fileVars, watch, event, token, reqVars, slipped>>

-----------------------------------------------------------------------------
(* The watch: it starts when the first load has ended. *)

Add ==
  /\ watch = "off"
  /\ load = "idle"
  /\ watch' = IF file = Missing THEN "lost" ELSE "on"
  /\ fresh' = FALSE
  /\ UNCHANGED <<file, written, event, loadVars, tokenVars, mutex, reqVars, slipped>>

(* Mutant: the filter lets another kind of event through. *)
PollFiltered ==
  /\ watch = "on"
  /\ ~event
  /\ fresh /\ file # Missing
  /\ fresh' = FALSE
  /\ UNCHANGED <<file, written, watch, event, loadVars, tokenVars, mutex, reqVars, slipped>>

(* Every second the watcher looks at the file, and waits for the receiver  *)
(* of an event.                                                            *)
Poll ==
  /\ watch = "on"
  /\ ~event
  /\ fresh /\ file # Missing
  /\ event' = TRUE
  /\ fresh' = FALSE
  /\ UNCHANGED <<file, written, watch, loadVars, tokenVars, mutex, reqVars, slipped>>

(* ErrWatchedFileDeleted: the error is skipped; the watcher goes on        *)
(* looking at the name, or gives it up.                                    *)
PollDeleted ==
  /\ watch = "on"
  /\ ~event
  /\ file = Missing
  /\ watch' \in {"on", "lost"}
  /\ UNCHANGED <<fileVars, event, loadVars, tokenVars, mutex, reqVars, slipped>>

(* Mutant: an event that comes while the token is loaded is dropped. *)
DropEvent ==
  /\ event
  /\ event' = FALSE
  /\ load' = IF load = "idle" THEN "open" ELSE load
  /\ UNCHANGED <<fileVars, watch, session, tokenVars, mutex, reqVars, slipped>>

(* case <-watch.Event *)
TakeEvent ==
  /\ event
  /\ load = "idle"
  /\ event' = FALSE
  /\ load' = "open"
  /\ UNCHANGED <<fileVars, watch, session, tokenVars, mutex, reqVars, slipped>>

-----------------------------------------------------------------------------
(* AddToken. *)

(* Mutant: AddToken does not lock. *)
ReadUnlocked ==
  /\ request = "idle"
  /\ request' = "type"
  /\ UNCHANGED <<fileVars, watch, event, loadVars, tokenVars, mutex, header, slipped>>

LockToRead ==
  /\ request = "idle"
  /\ mutex = "free"
  /\ mutex' = "request"
  /\ request' = "type"
  /\ UNCHANGED <<fileVars, watch, event, loadVars, tokenVars, header, slipped>>

ReadType ==
  /\ request = "type"
  /\ header' = <<type, header[2]>>
  /\ request' = "token"
  /\ UNCHANGED <<fileVars, watch, event, loadVars, tokenVars, mutex, slipped>>

ReadToken ==
  /\ request = "token"
  /\ header' = <<header[1], token>>
  /\ request' = "header"
  /\ mutex' = "free"
  /\ UNCHANGED <<fileVars, watch, event, loadVars, tokenVars, slipped>>

Done ==
  /\ request = "header"
  /\ request' = "idle"
  /\ header' = <<0, 0>>
  /\ UNCHANGED <<fileVars, watch, event, loadVars, tokenVars, mutex, slipped>>

-----------------------------------------------------------------------------
LoadStep == OpenFails \/ ReadSession \/ StoreToken \/ StoreType
ReadStep == ReadType \/ ReadToken \/ Done

Next ==
  \/ Truncate \/ Write \/ Delete
  \/ LoadStep \/ LockToStore
  \/ Add \/ Poll \/ PollDeleted \/ TakeEvent
  \/ LockToRead \/ ReadStep

(* Goroutines are scheduled, the watcher polls, and sync.Mutex starves no  *)
(* one who waits for it.                                                   *)
Fairness ==
  /\ WF_vars(LoadStep) /\ SF_vars(LockToStore) /\ WF_vars(ReadStep)
  /\ WF_vars(Add) /\ WF_vars(Poll) /\ WF_vars(TakeEvent)

Spec == Init /\ [][Next]_vars /\ Fairness

-----------------------------------------------------------------------------
(* A session that is written under the watch, and stays, is loaded, though *)
(* its file may have been loaded half written before (lines 78-93).        *)
WrittenSessionIsLoaded ==
  \A s \in Sessions :
    watch = "on" /\ fresh /\ file = s
      ~> (token = s /\ type = s) \/ file # s \/ watch = "lost"
=============================================================================
