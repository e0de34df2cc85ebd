---------------------------- MODULE TaskWorkflow ----------------------------
(***************************************************************************)
(* The life of a project's non-translation tasks: every handler of         *)
(* task.service.ts that changes one, the project lifecycle and membership  *)
(* operations of project.service.ts that touch them, and the overdue job.  *)
(* Handlers are atomic here; what their awaits let through is the subject  *)
(* of TaskUnlock and TaskClaiming.                                         *)
(***************************************************************************)
EXTENDS TaskRules

CONSTANTS
  Managers,   \* users for whom canManageProjectTasks holds whatever their membership
  Tagged,     \* users with the role tag that claiming needs
  RolesOf,    \* the roles each task may be given
  DepEdges,   \* the pairs <<upstream, task>> that may be made a dependency
  Dated,      \* the tasks that carry a due date
  Ops         \* the operations that are called at all: bounds a run's scope

AllOps == {"updateContent", "updateRole", "updateAssignee", "deleteTask",
           "override", "returnTask", "cancelTask", "rejectTask", "resetTask",
           "updateTaskDeadline", "removeDependency", "archivedDependency",
           "archiveProject", "softDeleteProject", "addMember", "removeMember",
           "overdueJob"}

ASSUME ManagersAssumption == Managers \subseteq User /\ Managers # {}
ASSUME TaggedAssumption   == Tagged \subseteq User
ASSUME RolesAssumption    == RolesOf \in [Task -> SUBSET (Role \ {"translation"})]
ASSUME EdgesAssumption    == DepEdges \subseteq Task \X Task
ASSUME OpsAssumption      == Ops \subseteq AllOps

VARIABLES
  db,         \* the task table
  project,    \* is_archived and deleted_at of the project
  members,    \* the users with a ProjectMember row
  late,       \* the tasks whose due_date is in the past
  todo,       \* dependents the running deleteTask has still to reconcile
  hung,       \* a handler's recursion has not returned
  atArchive   \* history: each task's status when the project was archived

vars == <<db, project, members, late, todo, hung, atArchive>>

ProjectState == {"active", "archived", "deleted", "gone"}
Unknown == [t \in Task |-> "none"]

TypeOK ==
  /\ db \in [Task -> Row]
  /\ project \in ProjectState
  /\ members \subseteq User
  /\ late \subseteq Task
  /\ todo \subseteq Task
  /\ hung \in BOOLEAN
  /\ atArchive \in [Task -> Status \cup {"absent", "none"}]

Init ==
  /\ db = [t \in Task |-> NoRow]
  /\ project = "active"
  /\ members = {}
  /\ late = {}
  /\ todo = {}
  /\ hung = FALSE
  /\ atArchive = Unknown

Calls(op) == op \in Ops
Active == project = "active"
Account(u) == {u} \ {NoUser}

\* What a handler that ends in cascadeResetDownstream(t) leaves, from table d.
CascadeFrom(d, t) ==
  /\ db' = CascadeReset(d, t)
  /\ hung' = CascadeRunsAway(d, t)

\* removeProjectMemberIfNoBindings, on the table the handler leaves.
\* Mutant: the other tasks of the user are not counted.
MembersWithoutMutant(a) == IF a \in Managers THEN members ELSE members \ {a}
MembersWithout(a) ==
  IF a \in Managers \/ \E x \in Task : db'[x].assignee = a
  THEN members ELSE members \ {a}

-----------------------------------------------------------------------------
(* Tasks: creation, update, deletion                                       *)

CreateTask(t, r, a) ==
  LET row == [NoRow EXCEPT !.status = "pending_publish", !.role = r, !.assignee = a]
      new == [db EXCEPT ![t] = row]
  IN  /\ Active
      /\ ~Exists(db, t)
      /\ db' = IF Ready(new, t) /\ (a # NoUser \/ Configured(r))
               THEN SetStatus(new, t, UnlockedStatus(row)) ELSE new
      /\ members' = members \cup Account(a)
      /\ \E past \in SUBSET ({t} \cap Dated) : late' = late \cup past
      /\ UNCHANGED <<project, todo, hung, atArchive>>

UpdatedRow(row, r, a) == [row EXCEPT !.role = r, !.assignee = a]

\* content: the title, description or role is among the fields sent.
UpdateTask(t, content, r, a) ==
  LET updated == [db EXCEPT ![t] = UpdatedRow(@, r, a)]
  IN  /\ Active
      /\ Exists(db, t)
      /\ content \/ r = db[t].role
      /\ IF content THEN CascadeFrom(updated, t)
                    ELSE db' = updated /\ UNCHANGED hung
      /\ UNCHANGED <<project, members, late, todo, atArchive>>

DeleteTask(t) ==
  LET below == Downstream(db, t)
      reset == IF below # {} THEN CascadeReset(db, t) ELSE db
  IN  /\ Active
      /\ Exists(db, t)
      /\ db' = [x \in Task |-> IF x = t THEN NoRow
                               ELSE [reset[x] EXCEPT !.deps = @ \ {t}]]
      /\ hung' = (below # {} /\ CascadeRunsAway(db, t))
      /\ todo' = below \ {t}
      /\ late' = late \ {t}
      /\ UNCHANGED <<project, members, atArchive>>

\* One iteration of deleteTask's closing loop; no other call starts before its end.
ReconcileDependent(d) ==
  /\ d \in todo
  /\ db' = Reconcile(db, d)
  /\ todo' = todo \ {d}
  /\ UNCHANGED <<project, members, late, hung, atArchive>>

UpdateTaskDeadline(t) ==
  /\ Active
  /\ Exists(db, t)
  /\ t \in Dated
  /\ late' \in {late \ {t}, late \cup {t}}
  /\ UNCHANGED <<db, project, members, todo, hung, atArchive>>

-----------------------------------------------------------------------------
(* Tasks: state transitions                                                *)

ClaimTask(t, u) ==
  /\ Active
  /\ db[t].status = "claimable"
  /\ db[t].assignee = NoUser
  /\ Ready(db, t)
  /\ u \in Managers \cup Tagged
  /\ db' = SetHolder(db, t, "assigned", u)
  /\ members' = members \cup {u}
  /\ UNCHANGED <<project, late, todo, hung, atArchive>>

AssignTask(t, a, reason) ==
  LET missing == PredecessorMissing(db, t)
      applies == ~Ready(db, t) /\ ~missing
                 /\ (db[t].status # "pending_publish" \/ reason)
  IN  /\ Active
      /\ db[t].status \in {"pending_publish", "claimable", "assigned"}
      /\ applies => reason
      /\ db' = SetHolder(db, t, IF ~missing /\ (Ready(db, t) \/ applies)
                               THEN "assigned" ELSE "pending_publish", a)
      /\ members' = members \cup {a}
      /\ UNCHANGED <<project, late, todo, hung, atArchive>>

ReturnTask(t) ==
  LET owner == db[t].assignee
      returned == SetHolder(db, t, "claimable", NoUser)
  IN  /\ Active
      /\ db[t].status \in ReturnableStatuses
      /\ CascadeFrom(returned, t)
      /\ members' = MembersWithout(owner)
      /\ UNCHANGED <<project, late, todo, atArchive>>

StartTask(t, u) ==
  /\ Active
  /\ db[t].status \in {"assigned", "claimable"}
  /\ Ready(db, t)
  /\ u \in Managers \/ (db[t].status = "assigned" /\ db[t].assignee = u)
  /\ db' = SetHolder(db, t, "in_progress",
                     IF db[t].status = "claimable" /\ db[t].assignee = NoUser
                     THEN u ELSE db[t].assignee)
  /\ UNCHANGED <<project, members, late, todo, hung, atArchive>>

\* The assignee or a manager submits: who does leaves no trace in the table.
SubmitTask(t) ==
  /\ Active
  /\ db[t].status \in {"in_progress", "review_rejected"}
  /\ db' = IF db[t].role \in ReviewRequiredRoles
           THEN SetStatus(db, t, "submitted")
           ELSE UnlockDownstream(SetStatus(db, t, "completed"), t)
  /\ UNCHANGED <<project, members, late, todo, hung, atArchive>>

CancelTask(t) ==
  LET cancelled == SetStatus(db, t, "frozen")
  IN  /\ Active
      /\ Exists(db, t)
      /\ db[t].status \notin {"completed", "frozen"}
      /\ db' = FreezeDownstream(cancelled, t)
      /\ hung' = FreezeRunsAway(cancelled, t)
      /\ UNCHANGED <<project, members, late, todo, atArchive>>

ApproveTask(t) ==
  /\ Active
  /\ db[t].status = "submitted"
  /\ db' = UnlockDownstream(SetStatus(db, t, "completed"), t)
  /\ UNCHANGED <<project, members, late, todo, hung, atArchive>>

RejectTask(t) ==
  /\ Active
  /\ db[t].status = "submitted"
  /\ db' = SetStatus(db, t, "review_rejected")
  /\ UNCHANGED <<project, members, late, todo, hung, atArchive>>

ResetTask(t) ==
  /\ Active
  /\ db[t].status \in ManualResetStatuses
  /\ CascadeFrom(SetStatus(db, t, IF PredecessorMissing(db, t)
                                  THEN "pending_publish" ELSE "in_progress"), t)
  /\ UNCHANGED <<project, members, late, todo, atArchive>>

-----------------------------------------------------------------------------
(* Dependencies: neither handler asks whether the project is archived      *)

\* An unmet dependency is refused for a task that has already started.
UnmetTooLate(t, d) ==
  /\ db[d].status # "completed"
  /\ db[t].status \in {"in_progress", "submitted", "review_approved", "completed",
                       "overdue"}

MayDepend(t, d) == t # d /\ ~UnmetTooLate(t, d)

CreateDependency(t, d) ==
  LET linked == [db EXCEPT ![t].deps = @ \cup {d}]
  IN  /\ MayDepend(t, d)
      /\ Exists(db, t) /\ Exists(db, d)
      /\ d \notin db[t].deps
      /\ db' = Reconcile(linked, t)
      /\ UNCHANGED <<project, members, late, todo, hung, atArchive>>

RemoveDependency(t, d) ==
  /\ d \in db[t].deps
  /\ db' = Reconcile([db EXCEPT ![t].deps = @ \ {d}], t)
  /\ UNCHANGED <<project, members, late, todo, hung, atArchive>>

-----------------------------------------------------------------------------
(* The project: lifecycle and members                                      *)

\* Mutant: a status is forgotten in the list.
ArchivedStatusesMutant == Status \ {"completed", "frozen", "submitted"}
\* PROJECT_ARCHIVE_TASK_STATUSES
ArchivedStatuses == Status \ {"completed", "frozen"}

ArchivedRow(row) ==
  IF row.status \in ArchivedStatuses
  THEN [row EXCEPT !.status = "frozen", !.saved = row.status] ELSE row

UnarchivedRow(row) ==
  IF row.status = "frozen" /\ row.saved \in ArchivedStatuses
  THEN [row EXCEPT !.status = row.saved, !.saved = "none"] ELSE row

ArchiveProject ==
  /\ project = "active"
  /\ project' = "archived"
  /\ db' = [t \in Task |-> ArchivedRow(db[t])]
  /\ atArchive' = [t \in Task |-> db[t].status]
  /\ UNCHANGED <<members, late, todo, hung>>

UnarchiveProject ==
  /\ project = "archived"
  /\ project' = "active"
  /\ db' = [t \in Task |-> UnarchivedRow(db[t])]
  /\ atArchive' = Unknown
  /\ UNCHANGED <<members, late, todo, hung>>

SoftDeleteProject ==
  /\ project = "archived"
  /\ project' = "deleted"
  /\ UNCHANGED <<db, members, late, todo, hung, atArchive>>

RestoreProject ==
  /\ project = "deleted"
  /\ project' = "archived"
  /\ UNCHANGED <<db, members, late, todo, hung, atArchive>>

\* An administrator, or the recycle-bin job once the retention days are over.
PermanentlyDeleteProject ==
  /\ project = "deleted"
  /\ project' = "gone"
  /\ db' = [t \in Task |-> NoRow]
  /\ members' = {}
  /\ late' = {}
  /\ atArchive' = Unknown
  /\ UNCHANGED <<todo, hung>>

AddMember(u) ==
  /\ Active
  /\ u \notin members
  /\ members' = members \cup {u}
  /\ UNCHANGED <<db, project, late, todo, hung, atArchive>>

RemoveMember(u) ==
  /\ Active
  /\ u \in members
  /\ db' = [t \in Task |->
              IF db[t].assignee = u /\ db[t].status \in ReturnableStatuses
              THEN [db[t] EXCEPT !.status = "claimable", !.assignee = NoUser]
              ELSE db[t]]
  /\ members' = members \ {u}
  /\ UNCHANGED <<project, late, todo, hung, atArchive>>

-----------------------------------------------------------------------------
(* The clock and the hourly job                                            *)

DeadlinePasses(t) ==
  /\ t \in Dated \ late
  /\ Exists(db, t)
  /\ late' = late \cup {t}
  /\ UNCHANGED <<db, project, members, todo, hung, atArchive>>

OverdueExempt == {"completed", "overdue", "frozen", "review_approved"}

MarkOverdueTasks ==
  /\ project \in {"active", "archived"}
  /\ db' = [t \in Task |->
              IF t \in late /\ db[t].status \in Status \ OverdueExempt
              THEN [db[t] EXCEPT !.status = "overdue"] ELSE db[t]]
  /\ UNCHANGED <<project, members, late, todo, hung, atArchive>>

-----------------------------------------------------------------------------
Update(t) ==
  \E content \in BOOLEAN, r \in RolesOf[t], a \in User \cup {NoUser} :
    /\ content \/ a # db[t].assignee
    /\ content => Calls("updateContent")
    /\ r # db[t].role => Calls("updateRole")
    /\ a # db[t].assignee => Calls("updateAssignee")
    /\ UpdateTask(t, content, r, a)

TaskOperation(t) ==
  \/ \E r \in RolesOf[t], a \in User \cup {NoUser} : CreateTask(t, r, a)
  \/ Update(t)
  \/ Calls("deleteTask") /\ DeleteTask(t)
  \/ Calls("updateTaskDeadline") /\ UpdateTaskDeadline(t)
  \/ \E u \in User : ClaimTask(t, u)
  \/ \E a \in User, reason \in BOOLEAN :
       (reason => Calls("override")) /\ AssignTask(t, a, reason)
  \/ Calls("returnTask") /\ ReturnTask(t)
  \/ \E u \in User : StartTask(t, u)
  \/ SubmitTask(t)
  \/ Calls("cancelTask") /\ CancelTask(t)
  \/ ApproveTask(t)
  \/ Calls("rejectTask") /\ RejectTask(t)
  \/ Calls("resetTask") /\ ResetTask(t)

DependencyOperation(t, d) ==
  /\ <<d, t>> \in DepEdges
  /\ Active \/ Calls("archivedDependency")
  /\ \/ CreateDependency(t, d)
     \/ Calls("removeDependency") /\ RemoveDependency(t, d)

ProjectOperation ==
  \/ Calls("archiveProject") /\ (ArchiveProject \/ UnarchiveProject)
  \/ Calls("softDeleteProject")
       /\ (SoftDeleteProject \/ RestoreProject \/ PermanentlyDeleteProject)
  \/ Calls("addMember") /\ \E u \in User : AddMember(u)
  \/ Calls("removeMember") /\ \E u \in User : RemoveMember(u)
  \/ Calls("overdueJob") /\ (MarkOverdueTasks \/ \E t \in Task : DeadlinePasses(t))

Next ==
  /\ ~hung
  /\ IF todo # {}
     THEN \E d \in todo : ReconcileDependent(d)
     ELSE \/ \E t \in Task : TaskOperation(t)
          \/ \E t, d \in Task : DependencyOperation(t, d)
          \/ ProjectOperation

Spec == Init /\ [][Next]_vars
-----------------------------------------------------------------------------
(* Properties                                                              *)

\* No unlock is lost: in an active project no task of a configured role stays
\* pending_publish once everything before it is completed, because every
\* handler that completes, deletes or unlinks a task unlocks what waited for
\* it (unlockDownstreamTasksIfReady, reconcileTaskDependencyState).
PendingMeansWaiting ==
  Active /\ todo = {} =>
    \A t \in Task : Configured(db[t].role) /\ db[t].status = "pending_publish"
                    => ~Ready(db, t)

\* cascadeResetDownstream: when a completed task is reset or deleted, or reset by
\* a cascade itself, no task that depends on it explicitly is left finished or
\* waiting for review on the strength of the withdrawn work, at any depth.
\* (reconcileTaskDependencyState, which puts a completed task of a missing stage
\* to pending_publish, cascades to nobody.)
StaleWorkIsReset ==
  [][\A t, d \in Task :
       /\ db[t].status = "completed" /\ db'[t].status \in {"in_progress", "absent"}
       /\ project' = project
       /\ t \in db[d].deps
       => db'[d].status \notin {"submitted", "review_approved", "completed"}]_vars

Unstarted == {"pending_publish", "claimable", "assigned"}

\* freezeDownstreamTasks: cancelling a task leaves no dependent of it, nor any
\* dependent of a dependent, in a status from which its work could begin, also
\* when the dependent between them had already started and is not frozen.
CancelFreezesDownstream ==
  [][\A t, d, e \in Task :
       /\ db[t].status # "frozen" /\ db'[t].status = "frozen"
       /\ project' = project
       /\ t \in db[d].deps /\ (e = d \/ d \in db[e].deps)
       => db'[e].status \notin Unstarted]_vars

\* Every request that changes tasks returns: the two recursions over
\* dependents, which keep no visited set, always end.
HandlersReturn == ~hung

\* Archiving a project and taking it out again, through the recycle bin or
\* not, gives every task back the status it had (archiveProject,
\* unarchiveProject): nothing moves a task meanwhile, the overdue job included.
ArchiveRoundTrip ==
  [][project = "archived" /\ project' = "active" =>
       \A t \in Task : db'[t].status = atArchive[t]]_vars

\* A task that was frozen by hand before the project was archived is still
\* frozen when the project is taken out of the archive.
ManualFreezeKept ==
  [][project = "archived" /\ project' = "active" =>
       \A t \in Task : atArchive[t] = "frozen" => db'[t].status = "frozen"]_vars

\* Whoever a task is assigned to has a ProjectMember row or manages the project:
\* returning one task never takes the membership that another one needs
\* (removeProjectMemberIfNoBindings), and every assignment creates it.
AssigneesAreMembers ==
  \A t \in Task : db[t].assignee # NoUser => db[t].assignee \in members \cup Managers

\* Nobody holds an open task (one that is not finished, nor handed in for
\* review) without being a member or a manager, removeMember included.
OpenTasksHeldByMembers ==
  \A t \in Task :
    /\ db[t].assignee # NoUser
    /\ db[t].status \notin {"submitted", "review_approved", "completed"}
    => db[t].assignee \in members \cup Managers

\* Resetting a completed task also resets the work of the next configured stage
\* of its unit, dependency rows or not.
NextStageIsReset ==
  [][\A t \in Task :
       /\ db[t].status = "completed" /\ db'[t].status = "in_progress"
       => \A d \in SameUnitTasks(db, t, FollowingRole(db[t].role)) :
            db'[d].status \notin {"submitted", "completed"}]_vars

\* A cascade leaves a task nobody has started claimable or assigned.
UnstartedStaysUnstarted ==
  [][\A t, d \in Task :
       /\ db[t].status = "completed" /\ db'[t].status = "in_progress"
       /\ t \in db[d].deps
       /\ db[d].status \in {"claimable", "assigned"}
       => db'[d].status \in {"claimable", "assigned"}]_vars
=============================================================================
