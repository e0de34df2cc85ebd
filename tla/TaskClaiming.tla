---------------------------- MODULE TaskClaiming ----------------------------
(***************************************************************************)
(* Who holds a task when requests interleave: claimTask, startTask,        *)
(* returnTask and assignTask, await by await, over the task rows and the   *)
(* ProjectMember rows of one project.  A request reads the task once, and  *)
(* each later write is a statement of its own; only the writes of a claim  *)
(* are one transaction, and only its first one is conditional.             *)
(*                                                                         *)
(* The prerequisites of every task are met and the project stays active:   *)
(* those checks read other rows and are the subject of TaskUnlock and      *)
(* TaskWorkflow.                                                           *)
(***************************************************************************)
EXTENDS FiniteSets, Naturals, TLC

CONSTANTS
  Task, User, NoUser,
  Managers,   \* canManageProjectTasks
  Tagged,     \* users with the role tag for claiming
  Request,    \* the requests that may be made, each at most once
  Kinds       \* the kinds of request made

AllKinds == {"claim", "start", "return", "assign"}

ASSUME TaskAssumption == Task # {} /\ User # {}
ASSUME NoUserAssumption == NoUser \notin User
ASSUME PeopleAssumption == Managers \subseteq User /\ Tagged \subseteq User
ASSUME KindsAssumption == Kinds \subseteq AllKinds

VARIABLES
  status,     \* the status of each task
  assignee,   \* its assignee_id
  members,    \* the users with a ProjectMember row
  phase,      \* where each request is: new, ..., won, done, or failed
  req,        \* what it asks for and what it has read
  epoch       \* history: how often the task was given back to the pool

vars == <<status, assignee, members, phase, req, epoch>>

HeldStatus == {"assigned", "in_progress"}
Phase == {"new", "member", "claim", "start", "return", "count", "leave", "assign",
          "join", "won", "done", "failed"}

\* seen: the assignee_id in the task row the request read; joined: whether it
\* read a membership; at: the epoch in which its claim succeeded.
RequestData == [kind : AllKinds, task : Task, user : User, seen : User \cup {NoUser},
                free : BOOLEAN, joined : BOOLEAN, at : Nat]

TypeOK ==
  /\ status \in [Task -> {"claimable"} \cup HeldStatus]
  /\ assignee \in [Task -> User \cup {NoUser}]
  /\ members \subseteq User
  /\ phase \in [Request -> Phase]
  /\ req \in [Request -> RequestData]
  /\ epoch \in [Task -> Nat]

Blank == [kind |-> "claim", task |-> CHOOSE t \in Task : TRUE,
          user |-> CHOOSE u \in User : TRUE, seen |-> NoUser, free |-> FALSE,
          joined |-> FALSE, at |-> 0]

Init ==
  /\ status = [t \in Task |-> "claimable"]
  /\ assignee = [t \in Task |-> NoUser]
  /\ members \in SUBSET (User \ Managers)
  /\ phase = [r \in Request |-> "new"]
  /\ req = [r \in Request |-> Blank]
  /\ epoch = [t \in Task |-> 0]

\* Request r reads row t for user u, passes its checks and goes on to phase p.
Open(r, kind, t, u, p) ==
  /\ phase[r] = "new"
  /\ kind \in Kinds
  /\ phase' = [phase EXCEPT ![r] = p]
  /\ req' = [req EXCEPT ![r] = [kind |-> kind, task |-> t, user |-> u,
                                seen |-> assignee[t],
                                free |-> status[t] = "claimable" /\ assignee[t] = NoUser,
                                joined |-> FALSE, at |-> 0]]
  /\ UNCHANGED <<status, assignee, members, epoch>>

Go(r, p) == phase' = [phase EXCEPT ![r] = p]

-----------------------------------------------------------------------------
(* claimTask                                                               *)

ClaimRead(r, t, u) ==
  /\ status[t] = "claimable"
  /\ u \in Managers \cup Tagged
  /\ Open(r, "claim", t, u, "member")

\* The membership is read before the transaction.
ClaimReadMembership(r) ==
  /\ phase[r] = "member"
  /\ req' = [req EXCEPT ![r].joined = req[r].user \in members]
  /\ Go(r, "claim")
  /\ UNCHANGED <<status, assignee, members, epoch>>

\* Mutant: the update names the row by its id alone.
MayTakeMutant(t) == TRUE
\* updateMany where status = claimable and assignee_id is null.
MayTake(t) == status[t] = "claimable" /\ assignee[t] = NoUser

ClaimWrite(r) ==
  LET t == req[r].task
      u == req[r].user
  IN  /\ phase[r] = "claim"
      /\ MayTake(t)
      /\ status' = [status EXCEPT ![t] = "assigned"]
      /\ assignee' = [assignee EXCEPT ![t] = u]
      /\ members' = IF req[r].joined THEN members ELSE members \cup {u}
      /\ req' = [req EXCEPT ![r].at = epoch[t]]
      /\ Go(r, "won")
      /\ UNCHANGED epoch

\* 409: the transaction is rolled back.
ClaimConflict(r) ==
  /\ phase[r] = "claim"
  /\ ~MayTake(req[r].task)
  /\ Go(r, "failed")
  /\ UNCHANGED <<status, assignee, members, req, epoch>>

-----------------------------------------------------------------------------
(* startTask                                                               *)

StartRead(r, t, u) ==
  /\ status[t] \in {"assigned", "claimable"}
  /\ u \in Managers \/ (status[t] = "assigned" /\ assignee[t] = u)
  /\ Open(r, "start", t, u, "start")

\* The row read decides whether the starter becomes the assignee.
StartWrite(r) ==
  LET t == req[r].task
  IN  /\ phase[r] = "start"
      /\ status' = [status EXCEPT ![t] = "in_progress"]
      /\ assignee' = [assignee EXCEPT ![t] = IF req[r].free THEN req[r].user ELSE @]
      /\ Go(r, "done")
      /\ UNCHANGED <<members, req, epoch>>

-----------------------------------------------------------------------------
(* returnTask and removeProjectMemberIfNoBindings                          *)

ReturnRead(r, t, u) ==
  /\ status[t] \in HeldStatus
  /\ u \in Managers \/ assignee[t] = u
  /\ Open(r, "return", t, u, "return")

ReturnWrite(r) ==
  LET t == req[r].task
  IN  /\ phase[r] = "return"
      /\ status' = [status EXCEPT ![t] = "claimable"]
      /\ assignee' = [assignee EXCEPT ![t] = NoUser]
      /\ epoch' = [epoch EXCEPT ![t] = @ + 1]
      /\ Go(r, IF req[r].seen \in Managers \cup {NoUser} THEN "done" ELSE "count")
      /\ UNCHANGED <<members, req>>

\* The tasks the former assignee still has are counted ...
ReturnCount(r) ==
  /\ phase[r] = "count"
  /\ Go(r, IF \E x \in Task : assignee[x] = req[r].seen THEN "done" ELSE "leave")
  /\ UNCHANGED <<status, assignee, members, req, epoch>>

\* ... and the membership is deleted some awaits later.
ReturnLeave(r) ==
  /\ phase[r] = "leave"
  /\ members' = members \ {req[r].seen}
  /\ Go(r, "done")
  /\ UNCHANGED <<status, assignee, req, epoch>>

-----------------------------------------------------------------------------
(* assignTask: u is the user it is assigned to                             *)

AssignRead(r, t, u) ==
  /\ status[t] \in {"claimable", "assigned"}
  /\ Open(r, "assign", t, u, "assign")

AssignWrite(r) ==
  LET t == req[r].task
  IN  /\ phase[r] = "assign"
      /\ status' = [status EXCEPT ![t] = "assigned"]
      /\ assignee' = [assignee EXCEPT ![t] = req[r].user]
      /\ Go(r, "join")
      /\ UNCHANGED <<members, req, epoch>>

AssignJoin(r) ==
  /\ phase[r] = "join"
  /\ members' = members \cup {req[r].user}
  /\ Go(r, "done")
  /\ UNCHANGED <<status, assignee, req, epoch>>

-----------------------------------------------------------------------------
Continue(r) ==
  \/ ClaimReadMembership(r) \/ ClaimWrite(r) \/ ClaimConflict(r)
  \/ StartWrite(r)
  \/ ReturnWrite(r) \/ ReturnCount(r) \/ ReturnLeave(r)
  \/ AssignWrite(r) \/ AssignJoin(r)

Next ==
  \/ \E r \in Request, t \in Task, u \in User :
       ClaimRead(r, t, u) \/ StartRead(r, t, u) \/ ReturnRead(r, t, u)
         \/ AssignRead(r, t, u)
  \/ \E r \in Request : Continue(r)

Spec == Init /\ [][Next]_vars

\* Requests are interchangeable, and so are the people who only hold the tag.
Symmetry == Permutations(Request) \cup Permutations(Tagged \ Managers)

-----------------------------------------------------------------------------
(* Properties                                                              *)

\* Of the requests that try to claim a task, one at most succeeds before the
\* task is given back to the pool, whatever starts, returns and assignments run
\* between their steps (the conditional updateMany of claimTask).
OneWinner ==
  \A r, s \in Request :
    /\ phase[r] = "won" /\ phase[s] = "won"
    /\ req[r].task = req[s].task
    /\ req[r].at = req[s].at
    => r = s

\* A task in the pool can be claimed: whatever interleaves, no request leaves a
\* claimable task with an assignee, which every later claim would answer with 409.
PoolIsFree == \A t \in Task : status[t] = "claimable" => assignee[t] = NoUser

\* A manager who starts a task that somebody holds does not become its assignee.
StartKeepsHolder ==
  [][\A t \in Task :
       status'[t] = "in_progress" /\ status[t] # "in_progress" /\ assignee[t] # NoUser
       => assignee'[t] = assignee[t]]_vars

\* A task is returned by the user who holds it, or by a manager.
HolderReturns ==
  [][\A r \in Request :
       phase[r] = "return" /\ phase'[r] # "return"
       => assignee[req[r].task] = req[r].user \/ req[r].user \in Managers]_vars

\* Once no request is under way, whoever holds a task is a member or a manager.
HoldersAreMembers ==
  (\A r \in Request : phase[r] \in {"new", "won", "done", "failed"}) =>
    \A t \in Task : assignee[t] \in members \cup Managers \cup {NoUser}
=============================================================================
