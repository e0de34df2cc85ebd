------------------------------ MODULE JoinRequests ------------------------------
(***************************************************************************)
(* Who belongs to a project: its managers add, change and remove members,  *)
(* users ask to join and managers answer.  A handler awaits the database   *)
(* between what it reads and what it writes; one that only writes where    *)
(* the database itself refuses is one step.  What a removal does to the    *)
(* member's tasks is TaskWorkflow's.                                       *)
(***************************************************************************)
EXTENDS Naturals, Sequences

CONSTANTS
  Joiner,      \* users
  ProjectRole, \* roles of members
  Answerer,    \* requests of managers that answer
  MaxJoins     \* bound: join requests

NoRole == "none"
ASSUME NoRole \notin ProjectRole

VARIABLES
  membership,  \* the role of each user in the project
  asInvited,   \* the role a manager gave a member last, when adding or changing them
  joins,       \* the JoinRequest rows
  joining,     \* the role a user is asking for, between the checks and the row
  answering,   \* what each manager's request does
  letInBy,     \* the join requests that made somebody a member
  closed       \* the project is archived

joinVars == <<membership, asInvited, joins, joining, answering, letInBy, closed>>

Unanswered == [at |-> "none", join |-> 0, approved |-> FALSE]
JoinTypeOK ==
  /\ membership \in [Joiner -> ProjectRole \cup {NoRole}]
  /\ asInvited \in [Joiner -> ProjectRole \cup {NoRole}]
  /\ joining \in [Joiner -> ProjectRole \cup {NoRole}]
  /\ \A j \in DOMAIN joins : joins[j].by \in Joiner /\ joins[j].answer \in {"open", "yes", "no"}
  /\ answering \in [Answerer -> [at : {"none", "read", "answered"}, join : 0 .. MaxJoins, approved : BOOLEAN]]
  /\ letInBy \subseteq DOMAIN joins /\ closed \in BOOLEAN

JoinInit ==
  /\ membership = [u \in Joiner |-> NoRole] /\ asInvited = membership /\ joining = membership
  /\ joins = <<>> /\ answering = [a \in Answerer |-> Unanswered]
  /\ letInBy = {} /\ closed = FALSE

Joined(u) == membership[u] # NoRole

AddProjectMember(u, role) ==
  /\ ~closed /\ ~Joined(u)
  /\ membership' = [membership EXCEPT ![u] = role] /\ asInvited' = [asInvited EXCEPT ![u] = role]
  /\ UNCHANGED <<joins, joining, answering, letInBy, closed>>

RemoveProjectMember(u) ==
  /\ ~closed /\ Joined(u)
  /\ membership' = [membership EXCEPT ![u] = NoRole] /\ asInvited' = [asInvited EXCEPT ![u] = NoRole]
  /\ UNCHANGED <<joins, joining, answering, letInBy, closed>>

\* Also of an archived project.
UpdateProjectMember(u, role) ==
  /\ Joined(u) /\ membership' = [membership EXCEPT ![u] = role] /\ asInvited' = [asInvited EXCEPT ![u] = role]
  /\ UNCHANGED <<joins, joining, answering, letInBy, closed>>

\* createJoinRequest: neither a member nor waiting for an answer.
CheckJoin(u, role) ==
  /\ ~closed /\ ~Joined(u) /\ joining[u] = NoRole
  /\ \A j \in DOMAIN joins : joins[j].by = u => joins[j].answer # "open"
  /\ joining' = [joining EXCEPT ![u] = role]
  /\ UNCHANGED <<membership, asInvited, joins, answering, letInBy, closed>>

CreateJoin(u) ==
  /\ joining[u] # NoRole /\ Len(joins) < MaxJoins
  /\ joins' = Append(joins, [by |-> u, role |-> joining[u], answer |-> "open"])
  /\ joining' = [joining EXCEPT ![u] = NoRole]
  /\ UNCHANGED <<membership, asInvited, answering, letInBy, closed>>

\* respondToJoinRequest: the request is read, answered, and an approval takes effect.
ReadJoin(a, j, approved) ==
  /\ answering[a].at = "none" /\ joins[j].answer = "open"
  /\ answering' = [answering EXCEPT ![a] = [at |-> "read", join |-> j, approved |-> approved]]
  /\ UNCHANGED <<membership, asInvited, joins, joining, letInBy, closed>>

AnswerJoin(a) ==
  /\ answering[a].at = "read"
  /\ joins' = [joins EXCEPT ![answering[a].join].answer = IF answering[a].approved THEN "yes" ELSE "no"]
  /\ answering' = [answering EXCEPT ![a] = IF @.approved THEN [@ EXCEPT !.at = "answered"] ELSE Unanswered]
  /\ UNCHANGED <<membership, asInvited, joining, letInBy, closed>>

LetIn(a) ==
  LET j == answering[a].join
  IN /\ answering[a].at = "answered"
     /\ membership' = [membership EXCEPT ![joins[j].by] = joins[j].role]
     /\ letInBy' = letInBy \cup {j} /\ answering' = [answering EXCEPT ![a] = Unanswered]
     /\ UNCHANGED <<asInvited, joins, joining, closed>>

CloseProject(b) ==
  /\ closed # b /\ closed' = b
  /\ UNCHANGED <<membership, asInvited, joins, joining, answering, letInBy>>

JoinNext ==
  \/ \E u \in Joiner : \/ RemoveProjectMember(u) \/ CreateJoin(u)
                          \/ \E role \in ProjectRole : \/ AddProjectMember(u, role)
                                                       \/ UpdateProjectMember(u, role) \/ CheckJoin(u, role)
  \/ \E a \in Answerer : \/ \E j \in DOMAIN joins, b \in BOOLEAN : ReadJoin(a, j, b)
                         \/ AnswerJoin(a) \/ LetIn(a)
  \/ \E b \in BOOLEAN : CloseProject(b)

-----------------------------------------------------------------------------
\* Nobody is let in by a request that stands refused.
RefusedStaysOut == \A j \in letInBy : joins[j].answer # "no"

\* A member has the role a manager last gave them, unless that was before they left.
GivenRoleKept == \A u \in Joiner : Joined(u) /\ asInvited[u] # NoRole => membership[u] = asInvited[u]
=============================================================================
