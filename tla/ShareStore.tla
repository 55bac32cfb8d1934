----------------------------- MODULE ShareStore -----------------------------
(***************************************************************************)
(* What the functions of rexos/share.go, project.go and invitation.go      *)
(* promise their callers, however many requests each takes: a call that    *)
(* reports success has taken effect, one that reports an error or panics   *)
(* may have, and the share of a user is set at most once by a call.  Only  *)
(* POSTs grant a share with an invitation, and they do not panic.          *)
(***************************************************************************)
CONSTANTS Callers, Users, Actions, None

(* Create or update a share, create one only, take one away, or leave the  *)
(* shares alone.                                                           *)
Requests == [kind : {"set", "grant", "remove"}, user : Users, action : Actions \cup {None}]
              \cup {[kind |-> "other", user |-> None, action |-> None]}

VARIABLES
  shares,   \* what each user may do with the project, or None
  request,  \* the call of each caller, or None
  applied,  \* it has taken effect
  result    \* the end of the latest call: "none", "ok", "error" or "panic"

vars == <<shares, request, applied, result>>

Init ==
  /\ shares \in [Users -> Actions \cup {None}]
  /\ request = [c \in Callers |-> None]
  /\ applied = [c \in Callers |-> FALSE]
  /\ result = [c \in Callers |-> "none"]

Call(c) ==
  /\ request[c] = None
  /\ request'[c] \in Requests
  /\ request' = [request EXCEPT ![c] = request'[c]]
  /\ applied' = [applied EXCEPT ![c] = FALSE]
  /\ result' = [result EXCEPT ![c] = "none"]
  /\ UNCHANGED shares

Set(c) ==
  /\ request[c].kind = "set" \/ (request[c].kind = "grant" /\ shares[request[c].user] = None)
  /\ ~applied[c]
  /\ shares' = [shares EXCEPT ![request[c].user] = request[c].action]

(* A removal may be repeated, and take away what was set in between. *)
Remove(c) ==
  /\ request[c].kind = "remove"
  /\ shares' = [shares EXCEPT ![request[c].user] = None]

(* What other calls do is not seen here, only that it has been done. *)
Other(c) == request[c].kind = "other" /\ UNCHANGED shares

(* The call takes effect. *)
Apply(c) ==
  /\ request[c] # None
  /\ Set(c) \/ Remove(c) \/ Other(c)
  /\ applied' = [applied EXCEPT ![c] = TRUE]
  /\ UNCHANGED <<request, result>>

Report(c, r) ==
  /\ request[c] # None
  /\ r = "ok" => applied[c]
  /\ r = "panic" /\ request[c].kind = "grant" => ~applied[c]
  /\ request' = [request EXCEPT ![c] = None]
  /\ applied' = [applied EXCEPT ![c] = FALSE]
  /\ result' = [result EXCEPT ![c] = r]
  /\ UNCHANGED shares

Next ==
  \E c \in Callers :
    \/ Call(c)
    \/ Apply(c)
    \/ \E r \in {"ok", "error", "panic"} : Report(c, r)

Spec == Init /\ [][Next]_vars
=============================================================================
