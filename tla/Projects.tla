------------------------------ MODULE Projects ------------------------------
(***************************************************************************)
(* The calls of rexos/share.go, rexos/project.go and rexos/invitation.go   *)
(* on one project, by callers that work on it at the same time.  Each call *)
(* is a row of requests without a transaction around them.  As RestCalls   *)
(* shows of the layer below, success means that a request was done, an     *)
(* error that it may have been, and a conflict that it was not; a GET,     *)
(* PATCH or DELETE that gets lost is a panic, done or not.                 *)
(***************************************************************************)
EXTENDS Integers

CONSTANTS
  Callers,
  Users,       \* the users calls are about
  Members,     \* those who have an account from the start
  MaxRenames,  \* bound: how often somebody renames the project
  None

ASSUME ProjectsAssumption ==
  /\ Members \subseteq Users /\ Members # {}
  /\ MaxRenames \in Nat

Actions == {"READ", "WRITE"}

(* CreateOrUpdateUserShare, DeleteUserShare, UpdateShare, GetShare,        *)
(* TransferProject and CreateProjectInvitation.                            *)
Ops == {"share", "unshare", "publish", "getShare", "transfer", "invite"}

(* Their requests. *)
Reads   == {"lookup", "public", "list", "user", "project", "email", "username"}
Changes == {"create", "patch", "delete", "publish", "invitation", "grant", "owner"}
Posts   == {"create", "invitation", "grant"}

FirstStep(o) ==
  CASE o = "share" -> "lookup"  [] o = "unshare" -> "delete"  [] o = "publish" -> "publish"
    [] o = "getShare" -> "public"  [] o \in {"transfer", "invite"} -> "project"

Names    == 0 .. MaxRenames
Projects == [owner : Users, name : Names]

NoProject == [owner |-> None, name |-> 0]

Calls == [op : Ops, step : Reads \cup Changes, user : Users \cup {None},
          action : Actions \cup {None}, seen : Projects \cup {NoProject},
          listed : SUBSET Users, answer : {"none", "ok", "error", "panic"},
          done : BOOLEAN]

(* What a call is to its caller; see RequestOf. *)
Requests == [kind : {"set", "grant", "remove", "other"}, user : Users \cup {None},
             action : Actions \cup {None}]

ASSUME NoneAssumption == None \notin Users \cup Actions \cup Calls \cup Requests

VARIABLES
  shares,    \* the server: the action of each user's share, or None
  accounts,  \* the users who have an account
  project,   \* the project's owner and name
  latest,    \* history: the name somebody gave it last
  raced,     \* history: a transfer had read the project before that
  call,      \* the call under way of each caller, or None
  result     \* how the latest call of each ended

server == <<shares, accounts, project>>
vars   == <<server, latest, raced, call, result>>

TypeOK ==
  /\ shares \in [Users -> Actions \cup {None}]
  /\ accounts \subseteq Users
  /\ project \in Projects
  /\ latest \in Names
  /\ raced \in BOOLEAN
  /\ call \in [Callers -> Calls \cup {None}]
  /\ result \in [Callers -> {"none", "ok", "error", "panic"}]

Init ==
  /\ shares = [u \in Users |-> None]
  /\ accounts = Members
  /\ \E u \in Members : project = [owner |-> u, name |-> 0]
  /\ latest = 0
  /\ raced = FALSE
  /\ call = [c \in Callers |-> None]
  /\ result = [c \in Callers |-> "none"]

-----------------------------------------------------------------------------
(* Callers. *)

Begin(c, o, u, a) ==
  /\ call[c] = None
  /\ call' = [call EXCEPT ![c] =
       [op |-> o, step |-> FirstStep(o),
        user |-> IF o \in {"publish", "getShare"} THEN None ELSE u,
        action |-> IF o \in {"share", "invite"} THEN a ELSE None,
        seen |-> NoProject, listed |-> {}, answer |-> "none", done |-> FALSE]]
  /\ result' = [result EXCEPT ![c] = "none"]
  /\ UNCHANGED <<server, latest, raced>>

End(c, r) ==
  /\ call' = [call EXCEPT ![c] = None]
  /\ result' = [result EXCEPT ![c] = r]
  /\ UNCHANGED <<server, latest, raced>>

(* The code goes on with another request. *)
Ask(c, s) ==
  /\ call' = [call EXCEPT ![c].step = s, ![c].answer = "none"]
  /\ UNCHANGED <<server, latest, raced, result>>

Waits(c, s) == call[c] # None /\ call[c].step = s /\ call[c].answer = "none"

(* A request is under way; GetShare sends one for each user on its list.   *)
Asks(c, S) == \E s \in S : Waits(c, s) /\ (s = "user" => call[c].listed # {})

(* A request is refused, or a POST gets lost, or none is sent: the URN has *)
(* no number, or the user neither email nor name.                          *)
Fail(c) ==
  /\ Asks(c, Reads \cup Changes)
  /\ End(c, "error")

(* A GET, PATCH or DELETE gets lost: there is no response, and get, patch  *)
(* and delete dereference it.                                              *)
Lose(c) ==
  /\ Asks(c, (Reads \cup Changes) \ Posts)
  /\ End(c, "panic")

(* UpdateShare is given a Share without PublicShare, and dereferences it.  *)
NilShare(c) ==
  /\ Waits(c, "publish")
  /\ End(c, "panic")

-----------------------------------------------------------------------------
(* Reads, and what the code makes of them. *)

FindUserToShare(c) ==
  /\ Waits(c, "lookup")
  /\ call[c].user \in accounts
  /\ Ask(c, "create")

GetPublicShare(c) ==
  /\ Waits(c, "public")
  /\ Ask(c, "list")

ListShares(c) ==
  /\ Waits(c, "list")
  /\ call' = [call EXCEPT ![c].step = "user", ![c].done = TRUE,
                          ![c].listed = { u \in Users : shares[u] # None }]
  /\ UNCHANGED <<server, latest, raced, result>>

(* GetShare looks up one user of the list after the other. *)
LookUpListed(c) ==
  /\ Waits(c, "user")
  /\ \E u \in call[c].listed :
       IF u \in accounts
       THEN /\ call' = [call EXCEPT ![c].listed = @ \ {u}]
            /\ UNCHANGED <<server, latest, raced, result>>
       ELSE End(c, "error")

ReportShares(c) ==
  /\ Waits(c, "user")
  /\ call[c].listed = {}
  /\ End(c, "ok")

(* Mutant: an invited user is given the share first, then the account. *)
GrantFirst(o) == IF o = "transfer" THEN "email" ELSE "grant"

AfterProject(o) == IF o = "transfer" THEN "email" ELSE "invitation"

GetProject(c) ==
  /\ Waits(c, "project")
  /\ call' = [call EXCEPT ![c].step = AfterProject(call[c].op), ![c].seen = project,
                 ![c].done = call[c].op = "transfer" /\ project.owner = call[c].user]
  /\ UNCHANGED <<server, latest, raced, result>>

(* newOwner is an email, or the server answers 404 and it is a user name. *)
FindOwnerByEmail(c) ==
  /\ Waits(c, "email")
  /\ \/ call[c].user \in accounts /\ Ask(c, "owner")
     \/ Ask(c, "username")

FindOwnerByName(c) ==
  /\ Waits(c, "username")
  /\ call[c].user \in accounts
  /\ Ask(c, "owner")

(* Mutant: the project is given its owner before the two are compared. *)
NothingEverToDo(c) ==
  /\ Waits(c, "username")
  /\ call[c].user \in accounts
  /\ End(c, "ok")

(* newOwner is spelled like the owner field, and is the owner already. *)
NothingToDo(c) ==
  /\ Waits(c, "username")
  /\ call[c].user \in accounts
  /\ call[c].seen.owner = call[c].user
  /\ End(c, "ok")

-----------------------------------------------------------------------------
(* Changes: the server executes one, and the code gets an answer later.    *)

(* Mutants: the whole project is patched with an owner that was not found, *)
(* or without its name.                                                    *)
NobodysProject(c) == [owner |-> None, name |-> call[c].seen.name]

NamelessProject(c) == [owner |-> call[c].user, name |-> 0]

(* The whole project as it was read, with the new owner. *)
PatchedProject(c) == [owner |-> call[c].user, name |-> call[c].seen.name]

ChangeShare(c, from, to) ==
  /\ shares[call[c].user] \in from
  /\ shares' = [shares EXCEPT ![call[c].user] = to]
  /\ UNCHANGED <<accounts, project>>

Execute(c) ==
  \/ /\ Waits(c, "create") \/ Waits(c, "grant")
     /\ ChangeShare(c, {None}, call[c].action)
  \/ /\ Waits(c, "patch")
     /\ ChangeShare(c, Actions, call[c].action)
  \/ /\ Waits(c, "delete")
     /\ ChangeShare(c, Actions, None)
  \/ /\ Waits(c, "publish")
     /\ UNCHANGED server
  \/ /\ Waits(c, "invitation")
     /\ accounts' = accounts \cup {call[c].user}
     /\ UNCHANGED <<shares, project>>
  \/ /\ Waits(c, "owner")
     /\ project' = PatchedProject(c)
     /\ UNCHANGED <<shares, accounts>>

(* The answer says so, or not, or gets lost, which is a panic unless it is *)
(* a POST's; a delete that times out is sent again.                        *)
Answers(s) ==
  {"ok", "error"} \cup (IF s \in Posts THEN {} ELSE {"panic"})
                 \cup (IF s = "delete" THEN {"none"} ELSE {})

ServeChange(c) ==
  /\ Execute(c)
  /\ \E a \in Answers(call[c].step) :
       call' = [call EXCEPT ![c].answer = a, ![c].done = call[c].step # "invitation"]
  /\ UNCHANGED <<latest, raced, result>>

(* Mutant: a conflict is taken for success. *)
ConflictAccepted(c) ==
  /\ Waits(c, "create")
  /\ shares[call[c].user] # None
  /\ End(c, "ok")

(* 409: there is such a share already, and it is updated. *)
Conflict(c) ==
  /\ Waits(c, "create")
  /\ shares[call[c].user] # None
  /\ Ask(c, "patch")

(* The invitation was sent, the share follows. *)
Invited(c) ==
  /\ call[c] # None /\ call[c].step = "invitation" /\ call[c].answer = "ok"
  /\ Ask(c, "grant")

Return(c) ==
  /\ call[c] # None
  /\ call[c].answer # "none"
  /\ ~(call[c].step = "invitation" /\ call[c].answer = "ok")
  /\ End(c, call[c].answer)

(* Somebody gives the project another name. *)
Rename ==
  /\ latest < MaxRenames
  /\ latest' = latest + 1
  /\ project' = [project EXCEPT !.name = latest']
  /\ raced' = (\E c \in Callers :
                 call[c] # None /\ call[c].op = "transfer" /\ call[c].seen # NoProject)
  /\ UNCHANGED <<shares, accounts, call, result>>

-----------------------------------------------------------------------------
Read(c) ==
  \/ FindUserToShare(c) \/ GetPublicShare(c) \/ ListShares(c)
  \/ LookUpListed(c) \/ ReportShares(c) \/ GetProject(c)
  \/ FindOwnerByEmail(c) \/ FindOwnerByName(c) \/ NothingToDo(c)

Change(c) == ServeChange(c) \/ Conflict(c) \/ Invited(c) \/ Return(c)

Next ==
  \/ \E c \in Callers :
       \/ \E o \in Ops, u \in Users, a \in Actions : Begin(c, o, u, a)
       \/ Fail(c) \/ Lose(c) \/ NilShare(c) \/ Read(c) \/ Change(c)
  \/ Rename

Spec == Init /\ [][Next]_vars

-----------------------------------------------------------------------------
Kind(o) ==
  CASE o = "share" -> "set" [] o = "invite" -> "grant" [] o = "unshare" -> "remove"
    [] OTHER -> "other"

RequestOf(c) ==
  IF call[c] = None THEN None
  ELSE [kind |-> Kind(call[c].op),
        user |-> IF call[c].op = "transfer" THEN None ELSE call[c].user,
        action |-> call[c].action]

Promise == INSTANCE ShareStore WITH
  request <- [c \in Callers |-> RequestOf(c)],
  applied <- [c \in Callers |-> call[c] # None /\ call[c].done]

(* Every call is one change that takes effect at one moment, though it is  *)
(* several requests among those of others: success means that it did, a    *)
(* share is set at most once per call, and an invitation that panics has   *)
(* granted nothing (share.go 152-246, project.go 72-99, invitation.go      *)
(* 64-101, client.go 238, 376, 507-514, 573-580).                          *)
CallsKeepTheirWord == Promise!Spec

(* Nobody has a share without an account: GetShare, which looks up every   *)
(* user it has listed, would fail for everyone (share.go 84-99,            *)
(* invitation.go 64-92).                                                   *)
SharesHaveAccounts ==
  /\ { u \in Users : shares[u] # None } \subseteq accounts
  /\ \A c \in Callers : call[c] # None => call[c].listed \subseteq accounts

(* The PATCH of a transfer takes back a new name only if the project was   *)
(* renamed while a transfer had read it and not ended (project.go 28-87).  *)
NameLostOnlyInRace == project.name # latest => raced
=============================================================================
