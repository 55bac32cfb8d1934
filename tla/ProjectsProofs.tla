--------------------------- MODULE ProjectsProofs ---------------------------
(***************************************************************************)
(* Proofs about Projects for any callers and users.  The invariant behind  *)
(* them says what a call under way has seen and done when it is about to   *)
(* send each of its requests.                                              *)
(***************************************************************************)
EXTENDS Projects, TLAPS

Steps == Reads \cup Changes

StepsOf(o) ==
  CASE o = "share" -> {"lookup", "create", "patch"}
    [] o = "unshare" -> {"delete"}
    [] o = "publish" -> {"publish"}
    [] o = "getShare" -> {"public", "list", "user"}
    [] o = "transfer" -> {"project", "email", "username", "owner"}
    [] o = "invite" -> {"project", "invitation", "grant"}

(* A call is at one of its own requests, and names what that needs. *)
WellFormed(k) ==
  /\ k.step \in StepsOf(k.op)
  /\ k.op \in {"publish", "getShare"} <=> k.user = None
  /\ k.op \in {"share", "invite"} <=> k.action # None

(* A share is about to be set for a user who has an account, and the users *)
(* listed have one.                                                        *)
Founded(k) ==
  /\ k.step \in {"create", "patch", "grant"} => k.user \in accounts
  /\ k.step = "invitation" /\ k.answer = "ok" => k.user \in accounts
  /\ k.listed \subseteq accounts

CallInv == \A c \in Callers : call[c] # None => WellFormed(call[c]) /\ Founded(call[c])

SharersKnown == { u \in Users : shares[u] # None } \subseteq accounts

ProjectsInv == TypeOK /\ CallInv /\ SharersKnown

-----------------------------------------------------------------------------
LEMMA UnderWay ==
  ASSUME TypeOK, NEW c \in Callers, call[c] # None
  PROVE  call[c] \in Calls
  BY DEF TypeOK

LEMMA StepsOfOps == ASSUME NEW o \in Ops PROVE StepsOf(o) \subseteq Steps
  BY DEF Ops, StepsOf, Steps, Reads, Changes

(* The call of c goes on.  The lemmas below say how with each action.      *)
Continues(c) ==
  /\ call'[c] \in Calls
  /\ call'[c].op = call[c].op
  /\ call'[c].user = call[c].user
  /\ call'[c].action = call[c].action
  /\ call' = [call EXCEPT ![c] = call'[c]]

LEMMA Replaced ==
  ASSUME TypeOK, NEW c \in Callers, NEW k \in Calls, call' = [call EXCEPT ![c] = k],
         k.op = call[c].op, k.user = call[c].user, k.action = call[c].action
  PROVE  Continues(c) /\ call'[c] = k
<1>1. call'[c] = k
  BY DEF TypeOK
<1> QED BY <1>1 DEF Continues

LEMMA AskContinues ==
  ASSUME TypeOK, NEW c \in Callers, call[c] # None, NEW s \in Steps, Ask(c, s)
  PROVE  /\ Continues(c) /\ call'[c].step = s /\ call'[c].seen = call[c].seen
         /\ call'[c].listed = call[c].listed /\ call'[c].answer = "none"
         /\ call'[c].done = call[c].done
<1> DEFINE k == [call[c] EXCEPT !.step = s, !.answer = "none"]
<1>1. /\ k \in Calls /\ k.op = call[c].op /\ k.user = call[c].user
      /\ k.action = call[c].action /\ k.step = s /\ k.seen = call[c].seen
      /\ k.listed = call[c].listed /\ k.answer = "none" /\ k.done = call[c].done
  BY UnderWay DEF Calls, Steps
<1>2. call' = [call EXCEPT ![c] = k]
  BY DEF Ask, TypeOK
<1> HIDE DEF k
<1> QED BY <1>1, <1>2, Replaced

LEMMA ListContinues ==
  ASSUME TypeOK, NEW c \in Callers, ListShares(c)
  PROVE  /\ call[c] # None /\ call[c].step = "list"
         /\ Continues(c) /\ call'[c].step = "user" /\ call'[c].answer = "none"
         /\ call'[c].listed = { u \in Users : shares[u] # None } /\ call'[c].done = TRUE
         /\ call'[c].seen = call[c].seen
<1> DEFINE l == { u \in Users : shares[u] # None }
           k == [call[c] EXCEPT !.step = "user", !.done = TRUE, !.listed = l]
<1>1. call[c] # None /\ call[c].step = "list" /\ call[c].answer = "none"
  BY DEF ListShares, Waits
<1>2. call' = [call EXCEPT ![c] = k]
  BY DEF ListShares, TypeOK
<1>3. l \in SUBSET Users
  OBVIOUS
<1> HIDE DEF l
<1>4. /\ k \in Calls /\ k.op = call[c].op /\ k.user = call[c].user
      /\ k.action = call[c].action /\ k.step = "user" /\ k.answer = "none"
      /\ k.listed = l /\ k.done = TRUE /\ k.seen = call[c].seen
  BY <1>1, <1>3, UnderWay DEF Calls, Reads
<1> HIDE DEF k
<1>5. Continues(c) /\ call'[c] = k
  BY <1>2, <1>4, Replaced
<1> QED BY <1>1, <1>4, <1>5 DEF l

LEMMA LookContinues ==
  ASSUME TypeOK, NEW c \in Callers, Waits(c, "user"), NEW u \in call[c].listed,
         call' = [call EXCEPT ![c].listed = @ \ {u}]
  PROVE  /\ Continues(c) /\ call'[c].step = "user" /\ call'[c].answer = "none"
         /\ call'[c].listed = call[c].listed \ {u} /\ call'[c].done = call[c].done
         /\ call'[c].seen = call[c].seen
<1> DEFINE l == call[c].listed \ {u}
           k == [call[c] EXCEPT !.listed = l]
<1>1. call[c] # None /\ call[c].step = "user" /\ call[c].answer = "none"
  BY DEF Waits
<1>2. call' = [call EXCEPT ![c] = k]
  BY DEF TypeOK
<1>3. l \in SUBSET Users
  BY <1>1, UnderWay DEF Calls
<1> HIDE DEF l
<1>4. /\ k \in Calls /\ k.op = call[c].op /\ k.user = call[c].user
      /\ k.action = call[c].action /\ k.step = "user" /\ k.answer = "none"
      /\ k.listed = l /\ k.done = call[c].done /\ k.seen = call[c].seen
  BY <1>1, <1>3, UnderWay DEF Calls
<1> HIDE DEF k
<1>5. Continues(c) /\ call'[c] = k
  BY <1>2, <1>4, Replaced
<1> QED BY <1>4, <1>5 DEF l

LEMMA ProjectContinues ==
  ASSUME TypeOK, NEW c \in Callers, GetProject(c)
  PROVE  /\ call[c] # None /\ call[c].step = "project"
         /\ Continues(c) /\ call'[c].step = AfterProject(call[c].op)
         /\ call'[c].seen = project /\ call'[c].answer = "none"
         /\ call'[c].listed = call[c].listed
         /\ call'[c].done <=> call[c].op = "transfer" /\ project.owner = call[c].user
<1> DEFINE s == AfterProject(call[c].op)
           d == call[c].op = "transfer" /\ project.owner = call[c].user
           k == [call[c] EXCEPT !.step = s, !.seen = project, !.done = d]
<1>1. call[c] # None /\ call[c].step = "project" /\ call[c].answer = "none"
  BY DEF GetProject, Waits
<1>2. call' = [call EXCEPT ![c] = k]
  BY DEF GetProject, TypeOK
<1>3. s \in Steps /\ project \in Projects /\ d \in BOOLEAN
  BY DEF AfterProject, Steps, Reads, Changes, TypeOK
<1>4. /\ k.op = call[c].op /\ k.user = call[c].user
      /\ k.action = call[c].action /\ k.step = s /\ k.seen = project
      /\ k.answer = "none" /\ k.listed = call[c].listed /\ (k.done <=> d)
  BY <1>1, UnderWay DEF Calls
<1>5. k \in Calls
  <2> HIDE DEF s, d
  <2> QED BY <1>1, <1>3, UnderWay DEF Calls, Steps
<1> HIDE DEF k
<1>6. Continues(c) /\ call'[c] = k
  BY <1>2, <1>4, <1>5, Replaced
<1> QED BY <1>1, <1>4, <1>6

LEMMA ServeContinues ==
  ASSUME TypeOK, NEW c \in Callers, ServeChange(c)
  PROVE  /\ call[c] # None /\ call[c].step \in Changes /\ call[c].answer = "none"
         /\ Continues(c) /\ call'[c].step = call[c].step
         /\ call'[c].listed = call[c].listed /\ call'[c].seen = call[c].seen
         /\ call'[c].answer = "none" => call[c].step = "delete"
         /\ call'[c].answer = "panic" => call[c].step \notin Posts
         /\ call'[c].done <=> call[c].step # "invitation"
<1>1. call[c] # None /\ call[c].step \in Changes /\ call[c].answer = "none"
  BY DEF ServeChange, Execute, Waits, Changes
<1>2. PICK a \in Answers(call[c].step) :
        call' = [call EXCEPT ![c].answer = a, ![c].done = call[c].step # "invitation"]
  BY DEF ServeChange
<1> DEFINE d == call[c].step # "invitation"
           k == [call[c] EXCEPT !.answer = a, !.done = d]
<1>3. call' = [call EXCEPT ![c] = k]
  BY <1>2 DEF TypeOK
<1>4. /\ a \in {"none", "ok", "error", "panic"} /\ d \in BOOLEAN
      /\ a = "none" => call[c].step = "delete"
      /\ a = "panic" => call[c].step \notin Posts
  BY DEF Answers, Posts
<1>5. /\ k.op = call[c].op /\ k.user = call[c].user /\ k.action = call[c].action
      /\ k.step = call[c].step /\ k.listed = call[c].listed /\ k.seen = call[c].seen
      /\ k.answer = a /\ (k.done <=> d)
  BY <1>1, UnderWay DEF Calls
<1>6. k \in Calls
  <2> HIDE DEF d
  <2> QED BY <1>1, <1>4, UnderWay DEF Calls
<1> HIDE DEF k
<1>7. Continues(c) /\ call'[c] = k
  BY <1>3, <1>5, <1>6, Replaced
<1> QED BY <1>1, <1>4, <1>5, <1>7

-----------------------------------------------------------------------------
(* What a step of a call may do to the invariant: it goes on or ends.      *)

LEMMA GoesOn ==
  ASSUME TypeOK, CallInv, NEW c \in Callers, Continues(c),
         call'[c].step \in StepsOf(call[c].op), call[c] # None,
         accounts \subseteq accounts', Founded(call[c])'
  PROVE  CallInv' /\ call' \in [Callers -> Calls \cup {None}]
<1>1. call' \in [Callers -> Calls \cup {None}]
  BY DEF Continues, TypeOK
<1>2. \A b \in Callers \ {c} : call'[b] = call[b]
  BY DEF Continues, TypeOK
<1>3. WellFormed(call[c])'
  BY DEF CallInv, WellFormed, Continues
<1>4. ASSUME NEW b \in Callers \ {c}, call[b] # None
      PROVE  WellFormed(call[b])' /\ Founded(call[b])'
  <2>1. call'[b] = call[b] /\ WellFormed(call[b]) /\ Founded(call[b])
    BY <1>2, <1>4 DEF CallInv
  <2> QED BY <2>1 DEF WellFormed, Founded
<1> QED BY <1>1, <1>2, <1>3, <1>4 DEF CallInv

LEMMA AsksOn ==
  ASSUME ProjectsInv, NEW c \in Callers, call[c] # None,
         NEW s \in StepsOf(call[c].op), Ask(c, s),
         s \in {"create", "patch", "grant"} => call[c].user \in accounts
  PROVE  ProjectsInv'
<1>1. TypeOK /\ CallInv /\ Founded(call[c]) /\ accounts' = accounts
  BY DEF ProjectsInv, CallInv, Ask, server
<1>2. s \in Steps
  BY <1>1, UnderWay, StepsOfOps DEF Calls
<1>3. /\ Continues(c) /\ call'[c].step = s /\ call'[c].user = call[c].user
      /\ call'[c].listed = call[c].listed /\ call'[c].answer = "none"
  BY <1>1, <1>2, AskContinues DEF Continues
<1>4. Founded(call[c])'
  BY <1>1, <1>3 DEF Founded
<1>5. CallInv' /\ call' \in [Callers -> Calls \cup {None}]
  BY <1>1, <1>3, <1>4, GoesOn
<1> QED BY <1>5 DEF ProjectsInv, SharersKnown, TypeOK, Ask, server

LEMMA Ends ==
  ASSUME ProjectsInv, NEW c \in Callers, NEW r \in {"ok", "error", "panic"}, End(c, r)
  PROVE  ProjectsInv'
<1>1. TypeOK'
  BY DEF ProjectsInv, TypeOK, End, server
<1>2. CallInv'
  BY DEF ProjectsInv, TypeOK, CallInv, WellFormed, Founded, End, server
<1>3. SharersKnown'
  BY DEF ProjectsInv, SharersKnown, End, server
<1> QED BY <1>1, <1>2, <1>3 DEF ProjectsInv

LEMMA Begins ==
  ASSUME ProjectsInv, NEW c \in Callers, NEW o \in Ops, NEW u \in Users, NEW a \in Actions,
         Begin(c, o, u, a)
  PROVE  ProjectsInv'
<1> DEFINE k == [op |-> o, step |-> FirstStep(o),
                 user |-> IF o \in {"publish", "getShare"} THEN None ELSE u,
                 action |-> IF o \in {"share", "invite"} THEN a ELSE None,
                 seen |-> NoProject, listed |-> {}, answer |-> "none", done |-> FALSE]
<1>1. FirstStep(o) \in StepsOf(o) /\ FirstStep(o) \notin {"create", "patch", "grant"}
  BY DEF FirstStep, StepsOf, Ops
<1>2. k \in Calls
  <2>1. FirstStep(o) \in Reads \cup Changes
    BY <1>1, StepsOfOps DEF Steps
  <2> QED BY <2>1 DEF Calls
<1>9. k # None
  BY <1>2, NoneAssumption
<1>3. WellFormed(k)
  <2>1. u # None /\ a # None
    BY NoneAssumption
  <2>2. /\ k.op = o /\ k.step = FirstStep(o)
        /\ k.user = IF o \in {"publish", "getShare"} THEN None ELSE u
        /\ k.action = IF o \in {"share", "invite"} THEN a ELSE None
    OBVIOUS
  <2> HIDE DEF k
  <2> QED BY <1>1, <2>1, <2>2 DEF WellFormed
<1>4. Founded(k)
  BY <1>1 DEF Founded
<1>5. call' = [call EXCEPT ![c] = k]
  BY DEF Begin
<1> HIDE DEF k
<1>6. TypeOK'
  <2>1. call' \in [Callers -> Calls \cup {None}]
    BY <1>2, <1>5 DEF ProjectsInv, TypeOK
  <2>2. result' \in [Callers -> {"none", "ok", "error", "panic"}]
    BY DEF ProjectsInv, TypeOK, Begin
  <2>3. UNCHANGED <<shares, accounts, project, latest, raced>>
    BY DEF Begin, server
  <2> QED BY <2>1, <2>2, <2>3 DEF ProjectsInv, TypeOK
<1>7. CallInv'
  BY <1>9, <1>3, <1>4, <1>5 DEF ProjectsInv, TypeOK, CallInv, WellFormed, Founded, Begin, server
<1>8. SharersKnown'
  BY DEF ProjectsInv, SharersKnown, Begin, server
<1> QED BY <1>6, <1>7, <1>8 DEF ProjectsInv

(* GetShare lists users who have shares, and so accounts. *)
LEMMA Lists ==
  ASSUME ProjectsInv, NEW c \in Callers, ListShares(c)
  PROVE  ProjectsInv'
<1>1. TypeOK /\ CallInv /\ SharersKnown /\ accounts' = accounts
  BY DEF ProjectsInv, ListShares, server
<1>2. /\ call[c] # None /\ call[c].step = "list"
      /\ Continues(c) /\ call'[c].step = "user"
      /\ call'[c].listed = { u \in Users : shares[u] # None }
  BY <1>1, ListContinues
<1>3. "user" \in StepsOf(call[c].op)
  BY <1>1, <1>2, UnderWay DEF CallInv, WellFormed, Calls, StepsOf, Ops
<1>4. Founded(call[c])'
  BY <1>1, <1>2 DEF Founded, SharersKnown
<1>5. CallInv' /\ call' \in [Callers -> Calls \cup {None}]
  BY <1>1, <1>2, <1>3, <1>4, GoesOn
<1> QED BY <1>5 DEF ProjectsInv, SharersKnown, TypeOK, ListShares, server

LEMMA LooksUp ==
  ASSUME ProjectsInv, NEW c \in Callers, LookUpListed(c)
  PROVE  ProjectsInv'
<1>1. PICK u \in call[c].listed :
        IF u \in accounts
        THEN /\ call' = [call EXCEPT ![c].listed = @ \ {u}]
             /\ UNCHANGED <<server, latest, raced, result>>
        ELSE End(c, "error")
  BY DEF LookUpListed
<1>2. CASE u \in accounts
  <2>1. /\ TypeOK /\ CallInv /\ accounts' = accounts
        /\ call[c] # None /\ call[c].step = "user" /\ Waits(c, "user")
    BY <1>1, <1>2 DEF ProjectsInv, server, LookUpListed, Waits
  <2>2. /\ Continues(c) /\ call'[c].step = "user"
        /\ call'[c].listed = call[c].listed \ {u}
    BY <1>1, <1>2, <2>1, LookContinues
  <2>3. "user" \in StepsOf(call[c].op) /\ Founded(call[c])
    BY <2>1 DEF CallInv, WellFormed
  <2>4. Founded(call[c])'
    BY <2>1, <2>2, <2>3 DEF Founded
  <2>5. CallInv' /\ call' \in [Callers -> Calls \cup {None}]
    BY <2>1, <2>2, <2>3, <2>4, GoesOn
  <2> QED BY <1>1, <1>2, <2>5 DEF ProjectsInv, SharersKnown, TypeOK, server
<1>3. CASE u \notin accounts
  BY <1>1, <1>3, Ends
<1> QED BY <1>2, <1>3

LEMMA ReadsProject ==
  ASSUME ProjectsInv, NEW c \in Callers, GetProject(c)
  PROVE  ProjectsInv'
<1>1. TypeOK /\ CallInv /\ accounts' = accounts
  BY DEF ProjectsInv, GetProject, server
<1>2. /\ call[c] # None /\ call[c].step = "project"
      /\ Continues(c) /\ call'[c].step = AfterProject(call[c].op)
      /\ call'[c].answer = "none" /\ call'[c].listed = call[c].listed
  BY <1>1, ProjectContinues
<1>3. call[c].op \in {"transfer", "invite"} /\ Founded(call[c])
  BY <1>1, <1>2, UnderWay DEF CallInv, WellFormed, Calls, StepsOf, Ops
<1>4. /\ AfterProject(call[c].op) \in StepsOf(call[c].op)
      /\ AfterProject(call[c].op) \notin {"create", "patch", "grant"}
  BY <1>3 DEF StepsOf, AfterProject
<1>5. Founded(call[c])'
  BY <1>1, <1>2, <1>3, <1>4 DEF Founded
<1>6. CallInv' /\ call' \in [Callers -> Calls \cup {None}]
  BY <1>1, <1>2, <1>4, <1>5, GoesOn
<1> QED BY <1>6 DEF ProjectsInv, SharersKnown, TypeOK, GetProject, server

(* What the server does with a change: an account is only ever added, and  *)
(* a share is set for a user who has one.                                  *)
LEMMA Executes ==
  ASSUME ProjectsInv, NEW c \in Callers, Execute(c)
  PROVE  /\ call[c] # None /\ call[c].answer = "none"
         /\ shares' \in [Users -> Actions \cup {None}]
         /\ accounts' \subseteq Users /\ accounts \subseteq accounts'
         /\ project' \in Projects
         /\ call[c].step = "invitation" => call[c].user \in accounts'
         /\ SharersKnown'
<1>0. call[c] # None /\ call[c].answer = "none"
  BY DEF Execute, Waits
<1>1. /\ call[c] \in Calls /\ WellFormed(call[c]) /\ Founded(call[c])
      /\ TypeOK /\ SharersKnown
  BY <1>0, UnderWay DEF ProjectsInv, CallInv
<1>2. /\ call[c].op \in Ops /\ call[c].user \in Users \cup {None}
      /\ call[c].action \in Actions \cup {None} /\ call[c].seen.name \in Names
  BY <1>1, ProjectsAssumption DEF Calls, Projects, NoProject, Names
<1>3. call[c].step \in Changes \ {"publish"} => call[c].user \in Users
  BY <1>1, <1>2 DEF WellFormed, StepsOf, Ops, Changes
<1>4. CASE (Waits(c, "create") \/ Waits(c, "grant")) /\ ChangeShare(c, {None}, call[c].action)
  <2>1. call[c].user \in Users /\ call[c].user \in accounts /\ call[c].step # "invitation"
    BY <1>1, <1>3, <1>4 DEF Waits, Founded, Changes
  <2> QED BY <1>0, <1>1, <1>2, <1>4, <2>1 DEF ChangeShare, TypeOK, SharersKnown
<1>5. CASE Waits(c, "patch") /\ ChangeShare(c, Actions, call[c].action)
  <2>1. call[c].user \in Users /\ call[c].user \in accounts /\ call[c].step # "invitation"
    BY <1>1, <1>3, <1>5 DEF Waits, Founded, Changes
  <2> QED BY <1>0, <1>1, <1>2, <1>5, <2>1 DEF ChangeShare, TypeOK, SharersKnown
<1>6. CASE Waits(c, "delete") /\ ChangeShare(c, Actions, None)
  <2>1. call[c].step # "invitation"
    BY <1>6 DEF Waits
  <2> QED BY <1>0, <1>1, <1>6, <2>1 DEF ChangeShare, TypeOK, SharersKnown
<1>7. CASE Waits(c, "publish") /\ UNCHANGED server
  <2>1. call[c].step # "invitation"
    BY <1>7 DEF Waits
  <2> QED BY <1>0, <1>1, <1>7, <2>1 DEF server, TypeOK, SharersKnown
<1>8. CASE /\ Waits(c, "invitation")
           /\ accounts' = accounts \cup {call[c].user}
           /\ UNCHANGED <<shares, project>>
  <2>1. call[c].user \in Users
    BY <1>3, <1>8 DEF Waits, Changes
  <2> QED BY <1>0, <1>1, <1>8, <2>1 DEF TypeOK, SharersKnown
<1>9. CASE /\ Waits(c, "owner")
           /\ project' = PatchedProject(c)
           /\ UNCHANGED <<shares, accounts>>
  <2>1. call[c].user \in Users /\ call[c].step # "invitation"
    BY <1>3, <1>9 DEF Waits, Changes
  <2>2. PatchedProject(c) \in Projects
    BY <1>2, <2>1 DEF PatchedProject, Projects
  <2> QED BY <1>0, <1>1, <1>9, <2>1, <2>2 DEF TypeOK, SharersKnown
<1> QED BY <1>4, <1>5, <1>6, <1>7, <1>8, <1>9 DEF Execute

LEMMA Serves ==
  ASSUME ProjectsInv, NEW c \in Callers, ServeChange(c)
  PROVE  ProjectsInv'
<1>1. /\ shares' \in [Users -> Actions \cup {None}]
      /\ accounts' \subseteq Users /\ accounts \subseteq accounts'
      /\ project' \in Projects
      /\ call[c].step = "invitation" => call[c].user \in accounts'
      /\ SharersKnown'
  BY Executes DEF ServeChange
<1>2. /\ TypeOK /\ CallInv /\ call[c] # None
      /\ Continues(c) /\ call'[c].step = call[c].step /\ call'[c].user = call[c].user
      /\ call'[c].listed = call[c].listed
  BY ServeContinues DEF ProjectsInv, Continues
<1>3. call[c].step \in StepsOf(call[c].op) /\ Founded(call[c])
  BY <1>2 DEF CallInv, WellFormed
<1>4. Founded(call[c])'
  BY <1>1, <1>2, <1>3 DEF Founded
<1>5. CallInv' /\ call' \in [Callers -> Calls \cup {None}]
  BY <1>1, <1>2, <1>3, <1>4, GoesOn
<1>6. TypeOK'
  BY <1>1, <1>5 DEF ProjectsInv, TypeOK, ServeChange
<1> QED BY <1>1, <1>5, <1>6 DEF ProjectsInv

LEMMA Renames == ASSUME ProjectsInv, Rename PROVE ProjectsInv'
<1>1. latest' \in Names /\ project' \in Projects
  BY ProjectsAssumption DEF ProjectsInv, TypeOK, Rename, Names, Projects
<1>2. raced' \in BOOLEAN
  <2> DEFINE r == \E c \in Callers :
                   call[c] # None /\ call[c].op = "transfer" /\ call[c].seen # NoProject
  <2>1. raced' = r /\ r \in BOOLEAN
    BY DEF Rename
  <2> HIDE DEF r
  <2> QED BY <2>1
<1>3. TypeOK'
  BY <1>1, <1>2 DEF ProjectsInv, TypeOK, Rename
<1> QED BY <1>3 DEF ProjectsInv, CallInv, WellFormed, Founded, SharersKnown, Rename

(* The steps that ask the next request, or end the call.                   *)
LEMMA CallSteps ==
  ASSUME ProjectsInv, NEW c \in Callers, Fail(c) \/ Lose(c) \/ NilShare(c) \/ Read(c) \/ Change(c)
  PROVE  ProjectsInv'
<1>0. ASSUME call[c] # None
      PROVE  call[c].op \in Ops /\ WellFormed(call[c]) /\ Founded(call[c])
             /\ call[c].answer \in {"none", "ok", "error", "panic"}
  BY <1>0, UnderWay DEF ProjectsInv, CallInv, Calls
<1>1. CASE Fail(c) \/ Lose(c)
  BY <1>1, Ends DEF Fail, Lose
<1>2. CASE NilShare(c)
  BY <1>2, Ends DEF NilShare
<1>3. CASE FindUserToShare(c)
  <2>1. call[c] # None /\ "create" \in StepsOf(call[c].op) /\ call[c].user \in accounts
    BY <1>0, <1>3 DEF FindUserToShare, Waits, WellFormed, StepsOf, Ops
  <2> QED BY <1>3, <2>1, AsksOn DEF FindUserToShare
<1>4. CASE GetPublicShare(c)
  <2>1. call[c] # None /\ "list" \in StepsOf(call[c].op)
    BY <1>0, <1>4 DEF GetPublicShare, Waits, WellFormed, StepsOf, Ops
  <2> QED BY <1>4, <2>1, AsksOn DEF GetPublicShare
<1>5. CASE ListShares(c)
  BY <1>5, Lists
<1>6. CASE LookUpListed(c)
  BY <1>6, LooksUp
<1>7. CASE ReportShares(c) \/ NothingToDo(c)
  BY <1>7, Ends DEF ReportShares, NothingToDo
<1>8. CASE GetProject(c)
  BY <1>8, ReadsProject
<1>9. CASE FindOwnerByEmail(c) \/ FindOwnerByName(c)
  <2>1. /\ call[c] # None /\ "owner" \in StepsOf(call[c].op)
        /\ "username" \in StepsOf(call[c].op)
    BY <1>0, <1>9 DEF FindOwnerByEmail, FindOwnerByName, Waits, WellFormed, StepsOf, Ops
  <2> QED BY <1>9, <2>1, AsksOn DEF FindOwnerByEmail, FindOwnerByName
<1>10. CASE ServeChange(c)
  BY <1>10, Serves
<1>11. CASE Conflict(c)
  <2>1. call[c] # None /\ "patch" \in StepsOf(call[c].op) /\ call[c].user \in accounts
    BY <1>0, <1>11 DEF Conflict, Waits, WellFormed, Founded, StepsOf, Ops
  <2> QED BY <1>11, <2>1, AsksOn DEF Conflict
<1>12. CASE Invited(c)
  <2>1. call[c] # None /\ "grant" \in StepsOf(call[c].op) /\ call[c].user \in accounts
    BY <1>0, <1>12 DEF Invited, WellFormed, Founded, StepsOf, Ops
  <2> QED BY <1>12, <2>1, AsksOn DEF Invited
<1>13. CASE Return(c)
  <2>1. call[c].answer \in {"ok", "error", "panic"} /\ End(c, call[c].answer)
    BY <1>0, <1>13 DEF Return
  <2> QED BY <2>1, Ends
<1> QED BY <1>1, <1>2, <1>3, <1>4, <1>5, <1>6, <1>7, <1>8, <1>9, <1>10, <1>11, <1>12, <1>13
        DEF Read, Change

LEMMA InitInv == Init => ProjectsInv
<1> SUFFICES ASSUME Init PROVE ProjectsInv
  OBVIOUS
<1>1. 0 \in Names
  BY ProjectsAssumption DEF Names
<1>2. project \in Projects
  BY <1>1, ProjectsAssumption DEF Init, Projects
<1>3. TypeOK
  BY <1>1, <1>2, ProjectsAssumption DEF Init, TypeOK
<1>4. CallInv /\ SharersKnown
  BY DEF Init, CallInv, SharersKnown
<1> QED BY <1>3, <1>4 DEF ProjectsInv

LEMMA StepInv == ProjectsInv /\ [Next]_vars => ProjectsInv'
<1> SUFFICES ASSUME ProjectsInv, [Next]_vars PROVE ProjectsInv'
  OBVIOUS
<1>1. CASE UNCHANGED vars
  BY <1>1 DEF vars, server, ProjectsInv, TypeOK, CallInv, WellFormed, Founded, SharersKnown
<1>2. CASE Next
  BY <1>2, Begins, CallSteps, Renames DEF Next
<1> QED BY <1>1, <1>2

LEMMA Invariant == Spec => []ProjectsInv
  BY InitInv, StepInv, PTL DEF Spec

-----------------------------------------------------------------------------
(* The server and the calls under way keep their types for any callers,    *)
(* users and renames: a project is never given an owner who is no user.    *)
THEOREM TypeCorrect == Spec => []TypeOK
<1>1. ProjectsInv => TypeOK
  BY DEF ProjectsInv
<1> QED BY <1>1, Invariant, PTL

(* However calls mix and fail, a share is set only for a user who has an   *)
(* account by then (share.go 172-200, invitation.go 63-91), so GetShare    *)
(* finds every user it has listed.                                         *)
THEOREM AccountsComeFirst == Spec => []SharesHaveAccounts
<1>1. ProjectsInv => SharesHaveAccounts
  BY DEF ProjectsInv, CallInv, Founded, SharersKnown, SharesHaveAccounts
<1> QED BY <1>1, Invariant, PTL

-----------------------------------------------------------------------------
(***************************************************************************)
(* Names that get lost.  A transfer patches the project with what it has   *)
(* read, so the invariant relates what transfers have read to the latest   *)
(* name, and says that they have read before they patch.                   *)
(***************************************************************************)
Current(k) ==
  k.op = "transfer" =>
    /\ k.step \in {"email", "username", "owner"} => k.seen \in Projects
    /\ k.seen # NoProject /\ k.seen.name # latest => raced

NameInv ==
  /\ \A c \in Callers : call[c] # None => Current(call[c])
  /\ NameLostOnlyInRace

LEMMA NotNoProject == NoProject \notin Projects
  BY NoneAssumption DEF NoProject, Projects

(* A step of c keeps what other calls have read. *)
LEMMA NameKept ==
  ASSUME ProjectsInv, NameInv, NEW c \in Callers,
         \A b \in Callers \ {c} : call'[b] = call[b],
         latest' = latest, raced' = raced,
         call'[c] # None => Current(call[c])', NameLostOnlyInRace'
  PROVE  NameInv'
  BY DEF NameInv, Current

LEMMA OthersStay ==
  ASSUME ProjectsInv, NEW c \in Callers, Continues(c)
  PROVE  \A b \in Callers \ {c} : call'[b] = call[b]
  BY DEF ProjectsInv, TypeOK, Continues

LEMMA AskCurrent ==
  ASSUME ProjectsInv, NameInv, NEW c \in Callers, call[c] # None, NEW s \in Steps, Ask(c, s),
         s \in {"email", "username", "owner"} => call[c].step \in {"email", "username", "owner"}
  PROVE  NameInv'
<1>1. /\ Continues(c) /\ call'[c].step = s /\ call'[c].seen = call[c].seen
      /\ call'[c].op = call[c].op
  BY AskContinues DEF ProjectsInv, Continues
<1>2. Current(call[c])'
  BY <1>1 DEF NameInv, Current, Ask
<1> QED BY <1>1, <1>2, OthersStay, NameKept DEF NameInv, NameLostOnlyInRace, Ask, server

LEMMA EndCurrent ==
  ASSUME ProjectsInv, NameInv, NEW c \in Callers, NEW r, End(c, r)
  PROVE  NameInv'
  BY DEF ProjectsInv, TypeOK, NameInv, Current, NameLostOnlyInRace, End, server

LEMMA BeginCurrent ==
  ASSUME ProjectsInv, NameInv, NEW c \in Callers, NEW o \in Ops, NEW u \in Users, NEW a \in Actions,
         Begin(c, o, u, a)
  PROVE  NameInv'
<1>1. call'[c].op = o /\ call'[c].step = FirstStep(o) /\ call'[c].seen = NoProject
  BY DEF Begin, ProjectsInv, TypeOK
<1>2. Current(call[c])'
  BY <1>1 DEF Current, FirstStep
<1>3. \A b \in Callers \ {c} : call'[b] = call[b]
  BY DEF Begin, ProjectsInv, TypeOK
<1> QED BY <1>2, <1>3, NameKept DEF NameInv, NameLostOnlyInRace, Begin, server

(* What is read is the latest name, or one that a race has brought back. *)
LEMMA ProjectCurrent ==
  ASSUME ProjectsInv, NameInv, NEW c \in Callers, GetProject(c)
  PROVE  NameInv'
<1>1. Continues(c) /\ call'[c].seen = project
  BY ProjectContinues DEF ProjectsInv
<1>2. Current(call[c])'
  BY <1>1 DEF ProjectsInv, TypeOK, NameInv, NameLostOnlyInRace, Current, GetProject
<1> QED BY <1>1, <1>2, OthersStay, NameKept DEF NameInv, NameLostOnlyInRace, GetProject, server

(* A transfer patches the name it has read. *)
LEMMA ServeCurrent ==
  ASSUME ProjectsInv, NameInv, NEW c \in Callers, ServeChange(c)
  PROVE  NameInv'
<1>1. /\ call[c] # None /\ Continues(c) /\ call'[c].step = call[c].step
      /\ call'[c].seen = call[c].seen /\ call'[c].op = call[c].op
      /\ latest' = latest /\ raced' = raced
  BY ServeContinues DEF ProjectsInv, Continues, ServeChange
<1>2. Current(call[c]) /\ Current(call[c])'
  BY <1>1 DEF NameInv, Current
<1>3. NameLostOnlyInRace'
  <2>1. CASE Waits(c, "owner") /\ project' = PatchedProject(c)
    <3>1. call[c].op = "transfer" /\ call[c].step = "owner"
      BY <1>1, <2>1, UnderWay DEF Waits, ProjectsInv, CallInv, WellFormed, Calls, StepsOf, Ops
    <3>2. call[c].seen # NoProject
      BY <1>2, <3>1, NotNoProject DEF Current
    <3>3. project'.name = call[c].seen.name
      BY <2>1 DEF PatchedProject
    <3> QED BY <1>1, <1>2, <3>1, <3>2, <3>3 DEF Current, NameLostOnlyInRace
  <2>2. CASE project' = project
    BY <1>1, <2>2 DEF NameInv, NameLostOnlyInRace
  <2> QED BY <2>1, <2>2 DEF ServeChange, Execute, ChangeShare, server
<1> QED BY <1>1, <1>2, <1>3, OthersStay, NameKept

(* A new name is not lost yet; a transfer that has read another may do so. *)
LEMMA RenameCurrent ==
  ASSUME ProjectsInv, NameInv, Rename
  PROVE  NameInv'
<1>1. project'.name = latest' /\ call' = call
  BY DEF Rename, ProjectsInv, TypeOK, Projects
<1>2. raced' = \E c \in Callers :
                 call[c] # None /\ call[c].op = "transfer" /\ call[c].seen # NoProject
  BY DEF Rename
<1> QED BY <1>1, <1>2 DEF NameInv, NameLostOnlyInRace, Current

LEMMA StepCurrent == ProjectsInv /\ NameInv /\ [Next]_vars => NameInv'
<1> SUFFICES ASSUME ProjectsInv, NameInv, [Next]_vars PROVE NameInv'
  OBVIOUS
<1>1. CASE UNCHANGED vars
  BY <1>1 DEF vars, server, NameInv, Current, NameLostOnlyInRace
<1>2. ASSUME NEW c \in Callers, Fail(c) \/ Lose(c) \/ NilShare(c) \/ Read(c) \/ Change(c)
      PROVE  NameInv'
  <2>1. CASE \/ Fail(c) \/ Lose(c) \/ NilShare(c) \/ ReportShares(c)
             \/ NothingToDo(c) \/ Return(c)
    BY <2>1, EndCurrent DEF Fail, Lose, NilShare, ReportShares, NothingToDo, Return
  <2>2. CASE FindUserToShare(c) \/ GetPublicShare(c) \/ Conflict(c) \/ Invited(c)
    <3>1. call[c] # None
      BY <2>2 DEF FindUserToShare, GetPublicShare, Conflict, Invited, Waits
    <3>2. PICK s \in {"create", "list", "patch", "grant"} : Ask(c, s)
      BY <2>2 DEF FindUserToShare, GetPublicShare, Conflict, Invited
    <3> QED BY <3>1, <3>2, AskCurrent DEF Steps, Reads, Changes
  <2>3. CASE FindOwnerByEmail(c) \/ FindOwnerByName(c)
    <3>1. call[c] # None /\ call[c].step \in {"email", "username"}
      BY <2>3 DEF FindOwnerByEmail, FindOwnerByName, Waits
    <3>2. PICK s \in {"username", "owner"} : Ask(c, s)
      BY <2>3 DEF FindOwnerByEmail, FindOwnerByName
    <3> QED BY <3>1, <3>2, AskCurrent DEF Steps, Reads, Changes
  <2>4. CASE ListShares(c) \/ LookUpListed(c)
    <3>1. \/ \E r \in {"error"} : End(c, r)
          \/ /\ Continues(c) /\ call'[c].step = "user" /\ call'[c].seen = call[c].seen
             /\ call[c] # None /\ latest' = latest /\ raced' = raced /\ project' = project
      BY <2>4, ListContinues, LookContinues
         DEF ProjectsInv, ListShares, LookUpListed, Waits, server
    <3>2. CASE ~(\E r \in {"error"} : End(c, r))
      <4>1. Current(call[c])'
        BY <3>1, <3>2 DEF NameInv, Current, Continues
      <4> QED BY <3>1, <3>2, <4>1, OthersStay, NameKept DEF NameInv, NameLostOnlyInRace
    <3> QED BY <3>1, <3>2, EndCurrent
  <2> QED BY <1>2, <2>1, <2>2, <2>3, <2>4, ProjectCurrent, ServeCurrent DEF Read, Change
<1>3. CASE Next
  BY <1>2, <1>3, BeginCurrent, RenameCurrent DEF Next
<1> QED BY <1>1, <1>3

(* For any callers, users and renames, a name that somebody gave the       *)
(* project is taken back only by a transfer that had read the project      *)
(* before and patches all of it (project.go 28-87).                        *)
THEOREM NamesAreLostInRaces == Spec => []NameLostOnlyInRace
<1>1. Init => NameInv
  <2> SUFFICES ASSUME Init PROVE NameInv
    OBVIOUS
  <2>1. project.name = 0 /\ latest = 0
    BY DEF Init
  <2> QED BY <2>1 DEF Init, NameInv, NameLostOnlyInRace
<1>2. NameInv => NameLostOnlyInRace
  BY DEF NameInv
<1> QED BY <1>1, <1>2, StepCurrent, Invariant, PTL DEF Spec

-----------------------------------------------------------------------------
(***************************************************************************)
(* Projects implements ShareStore.  The invariant says which requests a    *)
(* call sends before it has taken effect, and which after.                 *)
(***************************************************************************)
Effective(k) ==
  /\ k.step \in {"lookup", "project", "invitation"} => ~k.done
  /\ k.step \in {"create", "patch", "grant"} /\ k.answer = "none" => ~k.done
  /\ k.answer = "ok" /\ k.step # "invitation" => k.done
  /\ k.answer = "panic" => k.step \notin Posts
  /\ k.step = "user" => k.done
  /\ k.step \in {"email", "username"} /\ k.seen.owner = k.user => k.done

EffectInv == \A c \in Callers : call[c] # None => Effective(call[c])

WordInv == ProjectsInv /\ EffectInv

(* The variables of ShareStore. *)
Applied(c) == call[c] # None /\ call[c].done

Req == [c \in Callers |-> RequestOf(c)]
App == [c \in Callers |-> Applied(c)]

AbstractVars == <<shares, Req, App, result>>

(* The requests other calls make stay theirs. *)
Alone(c) == \A b \in Callers \ {c} : call'[b] = call[b]

LEMMA OthersKeep ==
  ASSUME NEW c \in Callers, Alone(c)
  PROVE  \A b \in Callers \ {c} : RequestOf(b)' = RequestOf(b) /\ Applied(b)' = Applied(b)
  BY DEF Alone, RequestOf, Applied

LEMMA ReqChanges ==
  ASSUME NEW c \in Callers, Alone(c), NEW r, RequestOf(c)' = r
  PROVE  Req' = [Req EXCEPT ![c] = r]
  BY OthersKeep DEF Req

LEMMA AppChanges ==
  ASSUME NEW c \in Callers, Alone(c), NEW d, Applied(c)' = d
  PROVE  App' = [App EXCEPT ![c] = d]
  BY OthersKeep DEF App

LEMMA ReqStays ==
  ASSUME NEW c \in Callers, Alone(c), RequestOf(c)' = RequestOf(c)
  PROVE  Req' = Req
  BY OthersKeep DEF Req

LEMMA AppStays ==
  ASSUME NEW c \in Callers, Alone(c), Applied(c)' = Applied(c)
  PROVE  App' = App
  BY OthersKeep DEF App

LEMMA EffectKept ==
  ASSUME EffectInv, NEW c \in Callers, Alone(c), call'[c] # None => Effective(call'[c])
  PROVE  EffectInv'
  BY DEF EffectInv, Alone, Effective

(* A call that goes on makes the same request. *)
LEMMA SameRequest ==
  ASSUME TypeOK, NEW c \in Callers, call[c] # None, Continues(c)
  PROVE  /\ Alone(c) /\ call'[c] # None /\ call'[c].user = call[c].user
         /\ RequestOf(c)' = RequestOf(c)
         /\ Applied(c)' = call'[c].done /\ Applied(c) = call[c].done
<1>1. call'[c] # None
  BY NoneAssumption DEF Continues
<1>2. Alone(c)
  BY DEF Continues, TypeOK, Alone
<1>3. RequestOf(c)' = RequestOf(c) /\ call'[c].user = call[c].user
  BY <1>1 DEF RequestOf, Continues
<1>4. Applied(c)' = call'[c].done /\ Applied(c) = call[c].done
  <2>1. call[c].done \in BOOLEAN /\ call'[c].done \in BOOLEAN
    BY UnderWay DEF Calls, Continues
  <2> QED BY <1>1, <2>1 DEF Applied
<1> QED BY <1>1, <1>2, <1>3, <1>4

(* What is to be shown of every step. *)
KeepsWord == EffectInv' /\ (Promise!Next \/ AbstractVars' = AbstractVars)

LEMMA RequestThere ==
  ASSUME TypeOK, NEW c \in Callers
  PROVE  RequestOf(c) = None <=> call[c] = None
<1>1. ASSUME call[c] # None PROVE RequestOf(c) # None
  <2> DEFINE r == [kind |-> Kind(call[c].op),
                   user |-> IF call[c].op = "transfer" THEN None ELSE call[c].user,
                   action |-> call[c].action]
  <2>1. RequestOf(c) = r
    BY <1>1 DEF RequestOf
  <2>2. r \in Requests
    BY <1>1, UnderWay DEF Requests, Kind, Calls
  <2> QED BY <2>1, <2>2, NoneAssumption
<1> QED BY <1>1 DEF RequestOf

(* The call takes effect. *)
LEMMA Applies ==
  ASSUME TypeOK, NEW c \in Callers, call[c] # None, Alone(c),
         RequestOf(c)' = RequestOf(c), Applied(c)' = TRUE, result' = result,
         \/ RequestOf(c).kind = "other" /\ shares' = shares
         \/ /\ RequestOf(c).kind = "remove"
            /\ shares' = [shares EXCEPT ![RequestOf(c).user] = None]
         \/ /\ \/ RequestOf(c).kind = "set"
               \/ RequestOf(c).kind = "grant" /\ shares[RequestOf(c).user] = None
            /\ ~Applied(c)
            /\ shares' = [shares EXCEPT ![RequestOf(c).user] = RequestOf(c).action]
  PROVE  Promise!Next
<1>1. Req[c] = RequestOf(c) /\ App[c] = Applied(c)
  BY DEF Req, App
<1>2. Promise!Set(c) \/ Promise!Remove(c) \/ Promise!Other(c)
  BY <1>1 DEF Promise!Set, Promise!Remove, Promise!Other, Req, App, Applied
<1>3. Req[c] # None
  BY <1>1, RequestThere
<1>4. App' = [App EXCEPT ![c] = TRUE] /\ Req' = Req
  BY AppChanges, ReqStays
<1>5. Promise!Apply(c)
  BY <1>2, <1>3, <1>4 DEF Promise!Apply, Req, App, Applied
<1> QED BY <1>5 DEF Promise!Next

(* The call ends; if it reports success, it has taken effect, and if it is *)
(* an invitation and panics, it has not.                                   *)
LEMMA Reports ==
  ASSUME WordInv, NEW c \in Callers, call[c] # None, NEW r \in {"ok", "error", "panic"},
         r = "ok" => call[c].done,
         r = "panic" /\ call[c].op = "invite" => ~call[c].done,
         End(c, r)
  PROVE  KeepsWord
<1>1. call'[c] = None /\ Alone(c)
  BY DEF WordInv, ProjectsInv, TypeOK, End, Alone
<1>2. RequestOf(c)' = None /\ Applied(c)' = FALSE
  BY <1>1 DEF RequestOf, Applied
<1>3. Req' = [Req EXCEPT ![c] = None] /\ App' = [App EXCEPT ![c] = FALSE]
  BY <1>1, <1>2, ReqChanges, AppChanges
<1>4. Req[c] # None /\ (r = "ok" => App[c])
      /\ (r = "panic" /\ Req[c].kind = "grant" => ~App[c])
  <2>1. Req[c] # None /\ (App[c] <=> call[c].done)
    BY RequestThere, UnderWay DEF Req, App, Applied, WordInv, ProjectsInv, Calls
  <2>2. call[c].op \in Ops /\ Req[c].kind = Kind(call[c].op)
    BY UnderWay DEF Req, RequestOf, WordInv, ProjectsInv, Calls
  <2>3. Req[c].kind = "grant" => call[c].op = "invite"
    BY <2>2 DEF Kind, Ops
  <2> QED BY <2>1, <2>3
<1>5. Promise!Report(c, r)
  BY <1>3, <1>4 DEF Promise!Report, Req, App, Applied, End, server
<1>6. EffectInv'
  BY <1>1, EffectKept DEF WordInv
<1> QED BY <1>5, <1>6 DEF KeepsWord, Promise!Next

(* The call asks the next request: nothing the caller is promised changes. *)
LEMMA AskKeeps ==
  ASSUME WordInv, NEW c \in Callers, call[c] # None,
         NEW s \in Steps \ {"user"}, Ask(c, s),
         s \in {"lookup", "project", "invitation", "create", "patch", "grant"} => ~call[c].done,
         s \in {"email", "username"} /\ call[c].seen.owner = call[c].user => call[c].done
  PROVE  KeepsWord
<1>1. /\ TypeOK /\ EffectInv
      /\ Continues(c) /\ call'[c].step = s /\ call'[c].seen = call[c].seen
      /\ call'[c].answer = "none" /\ call'[c].done = call[c].done
  BY AskContinues DEF WordInv, ProjectsInv
<1>2. /\ Alone(c) /\ call'[c] # None /\ call'[c].user = call[c].user
      /\ RequestOf(c)' = RequestOf(c)
      /\ Applied(c)' = call'[c].done /\ Applied(c) = call[c].done
  BY <1>1, SameRequest
<1>3. Effective(call'[c])
  BY <1>1, <1>2 DEF Effective
<1>4. Req' = Req /\ App' = App
  BY <1>1, <1>2, ReqStays, AppStays
<1>5. AbstractVars' = AbstractVars
  BY <1>4 DEF AbstractVars, Ask, server
<1> QED BY <1>1, <1>2, <1>3, <1>5, EffectKept DEF KeepsWord

LEMMA BeginKeeps ==
  ASSUME WordInv, NEW c \in Callers, NEW o \in Ops, NEW u \in Users, NEW a \in Actions,
         Begin(c, o, u, a)
  PROVE  KeepsWord
<1> DEFINE k == [op |-> o, step |-> FirstStep(o),
                 user |-> IF o \in {"publish", "getShare"} THEN None ELSE u,
                 action |-> IF o \in {"share", "invite"} THEN a ELSE None,
                 seen |-> NoProject, listed |-> {}, answer |-> "none", done |-> FALSE]
           r == [kind |-> Kind(o), user |-> IF o = "transfer" THEN None ELSE k.user,
                 action |-> k.action]
<1>1. FirstStep(o) \in StepsOf(o) /\ FirstStep(o) \notin {"email", "username", "user"}
  BY DEF FirstStep, StepsOf, Ops
<1>2. k \in Calls
  <2>1. FirstStep(o) \in Reads \cup Changes
    BY <1>1, StepsOfOps DEF Steps
  <2> QED BY <2>1 DEF Calls
<1>3. k # None
  BY <1>2, NoneAssumption
<1>4. Effective(k)
  BY <1>1 DEF Effective
<1>5. k.op = o /\ ~k.done
  OBVIOUS
<1>6. r \in Promise!Requests
  BY DEF Promise!Requests, Kind, Ops
<1>7. r = [kind |-> Kind(k.op), user |-> IF k.op = "transfer" THEN None ELSE k.user,
           action |-> k.action]
  OBVIOUS
<1>8. call[c] = None /\ call' = [call EXCEPT ![c] = k] /\ call \in [Callers -> Calls \cup {None}]
  BY DEF Begin, WordInv, ProjectsInv, TypeOK
<1> HIDE DEF k, r
<1>9. call'[c] = k /\ Alone(c)
  BY <1>8 DEF Alone
<1>10. RequestOf(c)' = r /\ Applied(c)' = FALSE
  BY <1>3, <1>5, <1>7, <1>9 DEF RequestOf, Applied
<1>11. Req' = [Req EXCEPT ![c] = r] /\ App' = [App EXCEPT ![c] = FALSE]
  BY <1>9, <1>10, ReqChanges, AppChanges
<1>12. Req[c] = None /\ Req'[c] = r
  BY <1>8, <1>11 DEF Req, RequestOf
<1>13. Promise!Call(c)
  BY <1>6, <1>11, <1>12 DEF Promise!Call, Req, App, Applied, Begin, server
<1>14. EffectInv'
  BY <1>4, <1>9, EffectKept DEF WordInv
<1> QED BY <1>13, <1>14 DEF KeepsWord, Promise!Next

LEMMA ListKeeps ==
  ASSUME WordInv, NEW c \in Callers, ListShares(c)
  PROVE  KeepsWord
<1>1. /\ TypeOK /\ EffectInv
      /\ call[c] # None /\ call[c].step = "list"
      /\ Continues(c) /\ call'[c].step = "user" /\ call'[c].answer = "none"
      /\ call'[c].done = TRUE
  BY ListContinues DEF WordInv, ProjectsInv
<1>2. /\ Alone(c) /\ call'[c] # None
      /\ RequestOf(c)' = RequestOf(c) /\ Applied(c)' = TRUE
  BY <1>1, SameRequest
<1>3. call[c].op = "getShare"
  BY <1>1, UnderWay DEF WordInv, ProjectsInv, CallInv, WellFormed, Calls, StepsOf, Ops
<1>4. RequestOf(c).kind = "other"
  BY <1>1, <1>3 DEF RequestOf, Kind
<1>5. shares' = shares /\ result' = result
  BY DEF ListShares, server
<1>6. Promise!Next
  BY <1>1, <1>2, <1>4, <1>5, Applies
<1>7. Effective(call'[c])
  BY <1>1 DEF Effective
<1> QED BY <1>1, <1>2, <1>6, <1>7, EffectKept DEF KeepsWord

LEMMA LookKeeps ==
  ASSUME WordInv, NEW c \in Callers, LookUpListed(c)
  PROVE  KeepsWord
<1>0. call[c] # None /\ call[c].step = "user" /\ Waits(c, "user")
  BY DEF LookUpListed, Waits
<1>1. PICK u \in call[c].listed :
        IF u \in accounts
        THEN /\ call' = [call EXCEPT ![c].listed = @ \ {u}]
             /\ UNCHANGED <<server, latest, raced, result>>
        ELSE End(c, "error")
  BY DEF LookUpListed
<1>2. CASE u \in accounts
  <2>1. /\ TypeOK /\ EffectInv
        /\ Continues(c) /\ call'[c].step = "user" /\ call'[c].answer = "none"
        /\ call'[c].done = call[c].done
    BY <1>0, <1>1, <1>2, LookContinues DEF WordInv, ProjectsInv
  <2>2. call[c].done
    BY <1>0, <2>1 DEF EffectInv, Effective
  <2>3. /\ Alone(c) /\ call'[c] # None
        /\ RequestOf(c)' = RequestOf(c) /\ Applied(c)' = Applied(c)
    BY <1>0, <2>1, SameRequest
  <2>4. Req' = Req /\ App' = App
    BY <2>3, ReqStays, AppStays
  <2>5. AbstractVars' = AbstractVars
    BY <1>1, <1>2, <2>4 DEF AbstractVars, server
  <2>6. Effective(call'[c])
    BY <2>1, <2>2 DEF Effective
  <2> QED BY <2>1, <2>3, <2>5, <2>6, EffectKept DEF KeepsWord
<1>3. CASE u \notin accounts
  BY <1>0, <1>1, <1>3, Reports
<1> QED BY <1>2, <1>3

(* A transfer to the owner has nothing left to do once it has read that.   *)
LEMMA ProjectKeeps ==
  ASSUME WordInv, NEW c \in Callers, GetProject(c)
  PROVE  KeepsWord
<1>1. /\ TypeOK /\ EffectInv
      /\ call[c] # None /\ call[c].step = "project"
      /\ Continues(c) /\ call'[c].step = AfterProject(call[c].op)
      /\ call'[c].seen = project /\ call'[c].answer = "none"
      /\ call'[c].done <=> call[c].op = "transfer" /\ project.owner = call[c].user
  BY ProjectContinues DEF WordInv, ProjectsInv
<1>2. /\ Alone(c) /\ call'[c] # None /\ call'[c].user = call[c].user
      /\ RequestOf(c)' = RequestOf(c)
      /\ Applied(c)' = call'[c].done /\ Applied(c) = call[c].done
  BY <1>1, SameRequest
<1>3. call'[c].done \in BOOLEAN /\ call[c].done = FALSE
  BY <1>1, UnderWay DEF Continues, Calls, EffectInv, Effective
<1>4. shares' = shares /\ result' = result
  BY DEF GetProject, server
<1>5. Effective(call'[c])
  BY <1>1, <1>2 DEF Effective, AfterProject
<1>6. CASE call'[c].done
  <2>1. RequestOf(c).kind = "other"
    BY <1>1, <1>6 DEF RequestOf, Kind
  <2>2. Applied(c)' = TRUE
    BY <1>2, <1>3, <1>6
  <2>3. Promise!Next
    BY <1>1, <1>2, <1>4, <2>1, <2>2, Applies
  <2> QED BY <1>1, <1>2, <1>5, <2>3, EffectKept DEF KeepsWord
<1>7. CASE ~call'[c].done
  <2>1. Applied(c)' = Applied(c)
    BY <1>2, <1>3, <1>7
  <2>2. Req' = Req /\ App' = App
    BY <1>2, <2>1, ReqStays, AppStays
  <2>3. AbstractVars' = AbstractVars
    BY <1>4, <2>2 DEF AbstractVars
  <2> QED BY <1>1, <1>2, <1>5, <2>3, EffectKept DEF KeepsWord
<1> QED BY <1>6, <1>7

(* What the server does is what the request stands for. *)
LEMMA ExecutesRequest ==
  ASSUME WordInv, NEW c \in Callers, Execute(c)
  PROVE  \/ call[c].step = "invitation" /\ shares' = shares /\ ~Applied(c)
         \/ RequestOf(c).kind = "other" /\ shares' = shares
         \/ /\ RequestOf(c).kind = "remove"
            /\ shares' = [shares EXCEPT ![RequestOf(c).user] = None]
         \/ /\ \/ RequestOf(c).kind = "set"
               \/ RequestOf(c).kind = "grant" /\ shares[RequestOf(c).user] = None
            /\ ~Applied(c)
            /\ shares' = [shares EXCEPT ![RequestOf(c).user] = RequestOf(c).action]
<1>0. call[c] # None /\ call[c].answer = "none"
  BY DEF Execute, Waits
<1>1. /\ call[c].op \in Ops /\ call[c].step \in StepsOf(call[c].op)
      /\ Effective(call[c])
  BY <1>0, UnderWay DEF WordInv, ProjectsInv, CallInv, EffectInv, WellFormed, Calls
<1>2. RequestOf(c) = [kind |-> Kind(call[c].op),
                      user |-> IF call[c].op = "transfer" THEN None ELSE call[c].user,
                      action |-> call[c].action]
  BY <1>0 DEF RequestOf
<1>3. CASE Waits(c, "create") /\ ChangeShare(c, {None}, call[c].action)
  <2>1. call[c].op = "share" /\ ~call[c].done
    BY <1>0, <1>1, <1>3 DEF Waits, StepsOf, Ops, Effective
  <2> QED BY <1>2, <1>3, <2>1 DEF ChangeShare, Kind, Applied
<1>4. CASE Waits(c, "grant") /\ ChangeShare(c, {None}, call[c].action)
  <2>1. call[c].op = "invite" /\ ~call[c].done
    BY <1>0, <1>1, <1>4 DEF Waits, StepsOf, Ops, Effective
  <2> QED BY <1>2, <1>4, <2>1 DEF ChangeShare, Kind, Applied
<1>5. CASE Waits(c, "patch") /\ ChangeShare(c, Actions, call[c].action)
  <2>1. call[c].op = "share" /\ ~call[c].done
    BY <1>0, <1>1, <1>5 DEF Waits, StepsOf, Ops, Effective
  <2> QED BY <1>2, <1>5, <2>1 DEF ChangeShare, Kind, Applied
<1>6. CASE Waits(c, "delete") /\ ChangeShare(c, Actions, None)
  <2>1. call[c].op = "unshare"
    BY <1>1, <1>6 DEF Waits, StepsOf, Ops
  <2> QED BY <1>2, <1>6, <2>1 DEF ChangeShare, Kind
<1>7. CASE Waits(c, "publish") /\ UNCHANGED server
  <2>1. call[c].op = "publish"
    BY <1>1, <1>7 DEF Waits, StepsOf, Ops
  <2> QED BY <1>2, <1>7, <2>1 DEF server, Kind
<1>8. CASE Waits(c, "invitation") /\ shares' = shares
  BY <1>1, <1>8 DEF Waits, Effective, Applied
<1>9. CASE Waits(c, "owner") /\ shares' = shares
  <2>1. call[c].op = "transfer"
    BY <1>1, <1>9 DEF Waits, StepsOf, Ops
  <2> QED BY <1>2, <1>9, <2>1 DEF Kind
<1> QED BY <1>3, <1>4, <1>5, <1>6, <1>7, <1>8, <1>9 DEF Execute

LEMMA ServeKeeps ==
  ASSUME WordInv, NEW c \in Callers, ServeChange(c)
  PROVE  KeepsWord
<1>1. /\ TypeOK /\ EffectInv
      /\ call[c] # None /\ call[c].step \in Changes
      /\ Continues(c) /\ call'[c].step = call[c].step
      /\ call'[c].answer = "none" => call[c].step = "delete"
      /\ call'[c].answer = "panic" => call[c].step \notin Posts
      /\ call'[c].done <=> call[c].step # "invitation"
  BY ServeContinues DEF WordInv, ProjectsInv
<1>2. /\ Alone(c) /\ call'[c] # None
      /\ RequestOf(c)' = RequestOf(c)
      /\ Applied(c)' = call'[c].done /\ Applied(c) = call[c].done
  BY <1>1, SameRequest
<1>3. call'[c].done \in BOOLEAN
  BY <1>1 DEF Continues, Calls
<1>4. Execute(c) /\ result' = result
  BY DEF ServeChange
<1>5. Effective(call'[c])
  BY <1>1 DEF Effective, Changes
<1>6. CASE call[c].step = "invitation"
  <2>1. call[c].done = FALSE
    BY <1>1, <1>6, UnderWay DEF EffectInv, Effective, Calls
  <2>2. Applied(c)' = Applied(c)
    BY <1>1, <1>2, <1>3, <1>6, <2>1
  <2>3. shares' = shares
    BY <1>4, <1>6 DEF Execute, Waits
  <2>4. Req' = Req /\ App' = App
    BY <1>2, <2>2, ReqStays, AppStays
  <2>5. AbstractVars' = AbstractVars
    BY <1>4, <2>3, <2>4 DEF AbstractVars
  <2> QED BY <1>1, <1>2, <1>5, <2>5, EffectKept DEF KeepsWord
<1>7. CASE call[c].step # "invitation"
  <2>1. Applied(c)' = TRUE
    BY <1>1, <1>2, <1>3, <1>7
  <2>2. Promise!Next
    BY <1>1, <1>2, <1>4, <1>7, <2>1, ExecutesRequest, Applies
  <2> QED BY <1>1, <1>2, <1>5, <2>2, EffectKept DEF KeepsWord
<1> QED BY <1>6, <1>7

(* Every step of a call is one of the promised steps, or none.             *)
LEMMA CallKeeps ==
  ASSUME WordInv, NEW c \in Callers, Fail(c) \/ Lose(c) \/ NilShare(c) \/ Read(c) \/ Change(c)
  PROVE  KeepsWord
<1>0. ASSUME call[c] # None
      PROVE  /\ call[c].op \in Ops /\ call[c].step \in StepsOf(call[c].op)
             /\ call[c].answer \in {"none", "ok", "error", "panic"}
             /\ Effective(call[c])
  BY <1>0, UnderWay DEF WordInv, ProjectsInv, CallInv, EffectInv, WellFormed, Calls
<1>1. CASE Fail(c)
  <2>1. call[c] # None /\ End(c, "error")
    BY <1>1 DEF Fail, Asks, Waits
  <2> QED BY <2>1, Reports
<1>12. CASE Lose(c)
  <2>1. call[c] # None /\ call[c].step \notin Posts /\ End(c, "panic")
    BY <1>12 DEF Lose, Asks, Waits
  <2>2. call[c].op = "invite" => ~call[c].done
    BY <1>0, <2>1 DEF StepsOf, Ops, Posts, Effective
  <2> QED BY <2>1, <2>2, Reports
<1>2. CASE NilShare(c)
  <2>1. call[c] # None /\ call[c].step = "publish" /\ End(c, "panic")
    BY <1>2 DEF NilShare, Waits
  <2>2. call[c].op # "invite"
    BY <1>0, <2>1 DEF StepsOf, Ops
  <2> QED BY <2>1, <2>2, Reports
<1>3. CASE FindUserToShare(c)
  <2>1. call[c] # None /\ ~call[c].done /\ Ask(c, "create")
    BY <1>0, <1>3 DEF FindUserToShare, Waits, Effective
  <2> QED BY <2>1, AskKeeps DEF Steps, Changes
<1>4. CASE GetPublicShare(c)
  <2>1. call[c] # None /\ Ask(c, "list")
    BY <1>4 DEF GetPublicShare, Waits
  <2> QED BY <2>1, AskKeeps DEF Steps, Reads
<1>5. CASE ReportShares(c)
  <2>1. call[c] # None /\ call[c].done /\ End(c, "ok")
    BY <1>0, <1>5 DEF ReportShares, Waits, Effective
  <2> QED BY <2>1, Reports
<1>6. CASE FindOwnerByEmail(c)
  <2>1. call[c] # None /\ (call[c].seen.owner = call[c].user => call[c].done)
    BY <1>0, <1>6 DEF FindOwnerByEmail, Waits, Effective
  <2>2. Ask(c, "owner") \/ Ask(c, "username")
    BY <1>6 DEF FindOwnerByEmail
  <2> QED BY <2>1, <2>2, AskKeeps DEF Steps, Reads, Changes
<1>7. CASE FindOwnerByName(c)
  <2>1. call[c] # None /\ Ask(c, "owner")
    BY <1>7 DEF FindOwnerByName, Waits
  <2> QED BY <2>1, AskKeeps DEF Steps, Changes
<1>8. CASE NothingToDo(c)
  <2>1. call[c] # None /\ call[c].done /\ End(c, "ok")
    BY <1>0, <1>8 DEF NothingToDo, Waits, Effective
  <2> QED BY <2>1, Reports
<1>9. CASE Conflict(c)
  <2>1. call[c] # None /\ ~call[c].done /\ Ask(c, "patch")
    BY <1>0, <1>9 DEF Conflict, Waits, Effective
  <2> QED BY <2>1, AskKeeps DEF Steps, Changes
<1>10. CASE Invited(c)
  <2>1. call[c] # None /\ ~call[c].done /\ Ask(c, "grant")
    BY <1>0, <1>10 DEF Invited, Effective
  <2> QED BY <2>1, AskKeeps DEF Steps, Changes
<1>11. CASE Return(c)
  <2>1. /\ call[c] # None /\ call[c].answer \in {"ok", "error", "panic"} /\ End(c, call[c].answer)
        /\ call[c].answer = "ok" => call[c].done
        /\ call[c].answer = "panic" => call[c].step \notin Posts
    BY <1>0, <1>11 DEF Return, Effective
  <2>2. call[c].answer = "panic" /\ call[c].op = "invite" => ~call[c].done
    BY <1>0, <2>1 DEF StepsOf, Ops, Posts, Effective
  <2> QED BY <2>1, <2>2, Reports
<1> QED BY <1>1, <1>2, <1>3, <1>4, <1>5, <1>6, <1>7, <1>8, <1>9, <1>10, <1>11, <1>12,
           ListKeeps, LookKeeps, ProjectKeeps, ServeKeeps DEF Read, Change

LEMMA StepKeeps == WordInv /\ [Next]_vars => KeepsWord
<1> SUFFICES ASSUME WordInv, [Next]_vars PROVE KeepsWord
  OBVIOUS
<1>1. CASE UNCHANGED <<shares, call, result>>
  <2>1. EffectInv'
    BY <1>1 DEF WordInv, EffectInv, Effective
  <2>2. AbstractVars' = AbstractVars
    BY <1>1 DEF AbstractVars, Req, App, RequestOf, Applied
  <2> QED BY <2>1, <2>2 DEF KeepsWord
<1>2. CASE UNCHANGED vars
  BY <1>1, <1>2 DEF vars, server
<1>3. CASE Rename
  BY <1>1, <1>3 DEF Rename
<1>4. CASE Next
  BY <1>3, <1>4, BeginKeeps, CallKeeps DEF Next
<1> QED BY <1>2, <1>4

LEMMA InitWord == Init => WordInv /\ Promise!Init
<1> SUFFICES ASSUME Init PROVE WordInv /\ Promise!Init
  OBVIOUS
<1>1. EffectInv
  BY DEF Init, EffectInv
<1>2. Promise!Init
  BY DEF Init, Promise!Init, RequestOf
<1> QED BY <1>1, <1>2, InitInv DEF WordInv

LEMMA WordInvariant == Spec => []WordInv
<1>1. WordInv /\ [Next]_vars => WordInv'
  BY StepInv, StepKeeps DEF WordInv, KeepsWord
<1> QED BY <1>1, InitWord, PTL DEF Spec

(* For any callers and users, and any requests of others in between, every *)
(* call is one change that takes effect at one moment: one that reports    *)
(* success has taken effect, one that fails or panics on a lost GET, PATCH *)
(* or DELETE may have, a share is set at most once by a call, and an       *)
(* invitation that panics has granted none (share.go 152-246, project.go   *)
(* 72-99, invitation.go 64-101, client.go 238, 376, 507-514, 573-580).     *)
THEOREM ImplementsShareStore == Spec => CallsKeepTheirWord
<1>1. WordInv /\ [Next]_vars => [Promise!Next]_AbstractVars
  BY StepKeeps DEF KeepsWord
<1> QED BY <1>1, InitWord, WordInvariant, PTL
        DEF Spec, CallsKeepTheirWord, Promise!Spec, Promise!vars, AbstractVars, Req, App, Applied
=============================================================================
