------------------------------ MODULE TaskRules ------------------------------
(***************************************************************************)
(* The rules of modules/task/task.service.ts that read the task table and  *)
(* decide what a handler may do or writes: the status lists, the           *)
(* prerequisites of a task, the tasks downstream of it, and what unlocking,*)
(* reconciling, cascading a reset and freezing make of the table.          *)
(*                                                                         *)
(* A task table db maps every Task to its row.  A row that was never       *)
(* created, or was deleted, is NoRow.  All tasks are of one project.       *)
(***************************************************************************)
EXTENDS Naturals, Sequences, FiniteSets

CONSTANTS
  Task,      \* the rows the task table may hold
  User,      \* accounts
  NoUser,    \* assignee_id = null
  UnitOf,    \* the unit (episode) of each task: unit_id is never updated
  Pipeline   \* the project's configured and enabled roles, in order

Role == {"source", "timing", "translation", "post_production", "encoding",
         "release"}

Status == {"pending_publish", "claimable", "assigned", "in_progress",
           "submitted", "review_approved", "review_rejected", "completed",
           "overdue", "frozen"}

ReviewRequiredRoles == {"translation", "post_production", "encoding", "release"}

ReturnableStatuses == {"assigned", "in_progress", "review_rejected", "overdue"}

ManualResetStatuses == Status \ {"pending_publish", "claimable"}

\* Mutant: a task waiting for review is not among those an upstream change resets.
DownstreamResetStatusesMutant == Status \ {"pending_publish", "submitted"}
DownstreamResetStatuses == Status \ {"pending_publish"}

ASSUME UserAssumption == NoUser \notin User
ASSUME UnitAssumption == UnitOf = [t \in Task |-> UnitOf[t]]
ASSUME PipelineAssumption ==
  /\ Pipeline \in Seq(Role)
  /\ \A i, j \in 1..Len(Pipeline) : Pipeline[i] = Pipeline[j] => i = j

Row == [status   : Status \cup {"absent"},
        role     : Role,
        assignee : User \cup {NoUser},
        saved    : Status \cup {"none"},     \* status_before_archive
        deps     : SUBSET Task]              \* depends_on_id of its TaskDependency rows

NoRow == [status |-> "absent", role |-> "source", assignee |-> NoUser,
          saved |-> "none", deps |-> {}]

Exists(db, t) == db[t].status # "absent"

SetStatus(db, t, s) == [db EXCEPT ![t].status = s]

SetHolder(db, t, s, a) == [db EXCEPT ![t].status = s, ![t].assignee = a]

-----------------------------------------------------------------------------
(* Prerequisites                                                           *)

CheckDependenciesMet(db, t) ==
  \A d \in db[t].deps : db[d].status = "completed"

\* The configured role just before (after) r: none when r is not configured.
PrecedingRole(r) == {Pipeline[i - 1] : i \in {j \in 2..Len(Pipeline) : Pipeline[j] = r}}
FollowingRole(r) ==
  {Pipeline[i + 1] : i \in {j \in 1..(Len(Pipeline) - 1) : Pipeline[j] = r}}

Configured(r) == \E i \in 1..Len(Pipeline) : Pipeline[i] = r

SameUnitTasks(db, t, roles) ==
  {p \in Task \ {t} : /\ Exists(db, p)
                      /\ UnitOf[p] = UnitOf[t]
                      /\ db[p].role \in roles}

Predecessors(db, t) == SameUnitTasks(db, t, PrecedingRole(db[t].role))

PredecessorMissing(db, t) ==
  PrecedingRole(db[t].role) # {} /\ Predecessors(db, t) = {}

Ready(db, t) ==
  /\ CheckDependenciesMet(db, t)
  /\ ~PredecessorMissing(db, t)
  /\ \A p \in Predecessors(db, t) : db[p].status = "completed"

-----------------------------------------------------------------------------
(* Downstream tasks, unlocking and reconciling                             *)

Dependents(db, t) == {d \in Task : t \in db[d].deps}

\* Mutant: only dependency rows are followed, not the next configured stage.
DownstreamMutant(db, t) == Dependents(db, t)
Downstream(db, t) ==
  Dependents(db, t) \cup SameUnitTasks(db, t, FollowingRole(db[t].role))

UnlockedStatus(row) == IF row.assignee = NoUser THEN "claimable" ELSE "assigned"

CanUnlock(db, d) == db[d].status = "pending_publish" /\ Ready(db, d)

\* The loop's order is immaterial: unlocking completes no task.
UnlockDownstream(db, t) ==
  [d \in Task |-> IF d \in Downstream(db, t) /\ CanUnlock(db, d)
                  THEN [db[d] EXCEPT !.status = UnlockedStatus(db[d])]
                  ELSE db[d]]

ShouldDemote(db, d) ==
  /\ ~Ready(db, d)
  /\ \/ db[d].status \in {"claimable", "assigned"}
     \/ PredecessorMissing(db, d) /\ db[d].status \in DownstreamResetStatuses

Reconcile(db, d) ==
  IF CanUnlock(db, d) THEN SetStatus(db, d, UnlockedStatus(db[d]))
  ELSE IF ShouldDemote(db, d) THEN SetStatus(db, d, "pending_publish")
  ELSE db

-----------------------------------------------------------------------------
(* The two recursions over explicit dependents.  Neither has a visited     *)
(* set: what they write is the same for any visiting order, but on a cycle *)
(* of dependencies they may never return.                                  *)

\* The tasks a recursion that follows the edges E reaches from t.
Reach(E, t) ==
  {d \in Task : \A S \in SUBSET Task :
     (\A e \in E : (e[1] = t \/ e[1] \in S) => e[2] \in S) => d \in S}

\* Some tasks of R form a cycle of E: a recursion that re-enters them loops.
HasCycle(E, R) ==
  \E C \in (SUBSET R) \ {{}} : \A c \in C : \E d \in C : <<c, d>> \in E

DependencyEdges(db) == {e \in Task \X Task : e[1] \in db[e[2]].deps}

\* cascadeResetDownstream visits and re-visits only resettable dependents.
CascadeEdges(db) ==
  {e \in DependencyEdges(db) : db[e[2]].status \in DownstreamResetStatuses}

WaitsForUpstream(row) ==
  \/ row.role = "release"
  \/ row.status \in {"claimable", "frozen"} /\ row.assignee = NoUser

CascadedRow(row) ==
  [row EXCEPT !.status = IF WaitsForUpstream(row) THEN "pending_publish"
                                                  ELSE "in_progress"]

CascadeReset(db, t) ==
  LET reset == Reach(CascadeEdges(db), t)
  IN  [d \in Task |-> IF d \in reset THEN CascadedRow(db[d]) ELSE db[d]]

\* A task put to pending_publish stops the recursion, one in progress does not.
CascadeRunsAway(db, t) ==
  HasCycle(CascadeEdges(db),
           {d \in Reach(CascadeEdges(db), t) : ~WaitsForUpstream(db[d])})

\* Mutant: the recursion stops at a dependent that is not frozen itself.
FreezeDownstreamMutant(db, t) ==
  LET unstarted == {"pending_publish", "claimable", "assigned"}
      below == Reach({e \in DependencyEdges(db) : db[e[2]].status \in unstarted}, t)
  IN  [d \in Task |-> IF d \in below THEN [db[d] EXCEPT !.status = "frozen"] ELSE db[d]]
FreezeDownstream(db, t) ==
  LET below == Reach(DependencyEdges(db), t)
  IN  [d \in Task |->
         IF d \in below /\ db[d].status \in {"pending_publish", "claimable", "assigned"}
         THEN [db[d] EXCEPT !.status = "frozen"] ELSE db[d]]

FreezeRunsAway(db, t) ==
  HasCycle(DependencyEdges(db), Reach(DependencyEdges(db), t))
=============================================================================
