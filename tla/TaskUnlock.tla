----------------------------- MODULE TaskUnlock -----------------------------
(***************************************************************************)
(* The unlocking of downstream tasks, await by await.  Several requests    *)
(* complete tasks at the same time (approveTask, and submitTask for the    *)
(* roles that need no review): each writes `completed', then reads what is *)
(* downstream, then asks for each pending task whether everything before   *)
(* it is completed, and writes the row it had read as unlocked.  No        *)
(* transaction spans these steps.  A supervisor's assignTask or createTask *)
(* may run between them: it too decides on what it read and writes later.  *)
(***************************************************************************)
EXTENDS FiniteSets

CONSTANTS
  Task,
  Deps,        \* Deps[d]: the tasks d depends on through TaskDependency rows
  Stage,       \* Stage[d]: the tasks of the preceding configured stage of its unit
  Handler,     \* the requests that may be completing tasks at one time
  Assignable,  \* the tasks a supervisor may (pre-)assign meanwhile
  Creatable    \* the tasks a supervisor creates meanwhile

ASSUME DepsAssumption == Deps \in [Task -> SUBSET Task]
ASSUME StageAssumption == Stage \in [Task -> SUBSET Task]

Needs(d) == Deps[d] \cup Stage[d]

\* A task is nobody's prerequisite before it is created.
ASSUME EditorAssumption ==
  /\ Assignable \subseteq Task
  /\ Creatable \subseteq Task
  /\ \A d \in Task : Needs(d) \cap Creatable = {}

VARIABLES
  status,   \* the status column of each task
  owned,    \* the tasks with an assignee_id
  pc,       \* where each completing request is
  job,      \* the task it completes
  todo,     \* downstream tasks it has seen pending and not looked at yet
  held,     \* the tasks it has seen with an assignee when it listed them
  cur,      \* the downstream task it is looking at
  asks,     \* the prerequisite queries that have not answered
  ok,       \* all answers so far said `completed'
  editor    \* the supervisor's request: what it is doing, on which task, what it read

handlerVars == <<pc, job, todo, held, cur, asks, ok>>
vars == <<status, owned, pc, job, todo, held, cur, asks, ok, editor>>

TaskStatus == {"absent", "pending_publish", "claimable", "assigned", "submitted",
               "completed"}
Query == {"deps", "stage"}
Idle == [op |-> "none"]

TypeOK ==
  /\ status \in [Task -> TaskStatus]
  /\ owned \subseteq Task
  /\ pc \in [Handler -> {"idle", "approving", "listing", "scanning", "checking"}]
  /\ job \in [Handler -> Task]
  /\ todo \in [Handler -> SUBSET Task]
  /\ held \in [Handler -> SUBSET Task]
  /\ cur \in [Handler -> Task]
  /\ asks \in [Handler -> SUBSET Query]
  /\ ok \in [Handler -> BOOLEAN]
  /\ \/ editor = Idle
     \/ editor \in [op : {"assignCheck", "assignWrite", "createWrite"}, task : Task,
                   saw : BOOLEAN]

\* A chain of tasks just created: those with nothing before them are open.
Init ==
  /\ status = [t \in Task |-> IF t \in Creatable THEN "absent"
                              ELSE IF Needs(t) = {} THEN "claimable"
                              ELSE "pending_publish"]
  /\ owned = {}
  /\ pc = [h \in Handler |-> "idle"]
  /\ job \in {[h \in Handler |-> t] : t \in Task}
  /\ todo = [h \in Handler |-> {}]
  /\ held = [h \in Handler |-> {}]
  /\ cur = job
  /\ asks = [h \in Handler |-> {}]
  /\ ok = [h \in Handler |-> FALSE]
  /\ editor = Idle

Completed(S) == \A p \in S : status[p] = "completed"
Unlocked(assigned) == IF assigned THEN "assigned" ELSE "claimable"

-----------------------------------------------------------------------------
(* approveTask, submitTask: the request h                                  *)

\* The handler reads the row and passes its status check.
Begin(h, t) ==
  /\ pc[h] = "idle"
  /\ status[t] = "submitted"
  /\ pc' = [pc EXCEPT ![h] = "approving"]
  /\ job' = [job EXCEPT ![h] = t]
  /\ cur' = [cur EXCEPT ![h] = t]
  /\ UNCHANGED <<status, owned, todo, held, asks, ok, editor>>

Complete(h) ==
  /\ pc[h] = "approving"
  /\ status' = [status EXCEPT ![job[h]] = "completed"]
  /\ pc' = [pc EXCEPT ![h] = "listing"]
  /\ UNCHANGED <<owned, job, todo, held, cur, asks, ok, editor>>

\* getDownstreamTasksForWorkflow: the rows as they are now; the loop below
\* looks at those that are pending_publish in this snapshot.
\* Mutant: only explicit dependents are listed, not the next configured stage.
ListMutant(h) ==
  /\ pc[h] = "listing"
  /\ todo' = [todo EXCEPT ![h] = {d \in Task : /\ job[h] \in Deps[d]
                                               /\ status[d] = "pending_publish"}]
  /\ held' = [held EXCEPT ![h] = owned]
  /\ pc' = [pc EXCEPT ![h] = "scanning"]
  /\ UNCHANGED <<status, owned, job, cur, asks, ok, editor>>
List(h) ==
  /\ pc[h] = "listing"
  /\ todo' = [todo EXCEPT ![h] = {d \in Task : /\ job[h] \in Needs(d)
                                               /\ status[d] = "pending_publish"}]
  /\ held' = [held EXCEPT ![h] = owned]
  /\ pc' = [pc EXCEPT ![h] = "scanning"]
  /\ UNCHANGED <<status, owned, job, cur, asks, ok, editor>>

\* getTaskPrerequisiteState(d) sends its two queries side by side.
LookAt(h, d) ==
  /\ pc[h] = "scanning"
  /\ d \in todo[h]
  /\ todo' = [todo EXCEPT ![h] = @ \ {d}]
  /\ cur' = [cur EXCEPT ![h] = d]
  /\ asks' = [asks EXCEPT ![h] = Query]
  /\ ok' = [ok EXCEPT ![h] = TRUE]
  /\ pc' = [pc EXCEPT ![h] = "checking"]
  /\ UNCHANGED <<status, owned, job, held, editor>>

\* Mutant: one query that finds all completed is enough.
AnswerMutant(h, q) ==
  /\ pc[h] = "checking"
  /\ q \in asks[h]
  /\ asks' = [asks EXCEPT ![h] = {}]
  /\ ok' = [ok EXCEPT ![h] =
              @ /\ Completed(IF q = "deps" THEN Deps[cur[h]] ELSE Stage[cur[h]])]
  /\ UNCHANGED <<status, owned, pc, job, todo, held, cur, editor>>

Answer(h, q) ==
  /\ pc[h] = "checking"
  /\ q \in asks[h]
  /\ asks' = [asks EXCEPT ![h] = @ \ {q}]
  /\ ok' = [ok EXCEPT ![h] =
              @ /\ Completed(IF q = "deps" THEN Deps[cur[h]] ELSE Stage[cur[h]])]
  /\ UNCHANGED <<status, owned, pc, job, todo, held, cur, editor>>

\* The loop goes on to the next row; what it knew of this one is out of scope.
Forget(h) ==
  /\ pc' = [pc EXCEPT ![h] = "scanning"]
  /\ cur' = [cur EXCEPT ![h] = job[h]]
  /\ ok' = [ok EXCEPT ![h] = FALSE]

\* An unconditional write: the row may have changed since the list was read.
Unlock(h) ==
  /\ pc[h] = "checking"
  /\ asks[h] = {}
  /\ ok[h]
  /\ status' = [status EXCEPT ![cur[h]] = Unlocked(cur[h] \in held[h])]
  /\ Forget(h)
  /\ UNCHANGED <<owned, job, todo, held, asks, editor>>

Skip(h) ==
  /\ pc[h] = "checking"
  /\ asks[h] = {}
  /\ ~ok[h]
  /\ Forget(h)
  /\ UNCHANGED <<status, owned, job, todo, held, asks, editor>>

Finish(h) ==
  /\ pc[h] = "scanning"
  /\ todo[h] = {}
  /\ pc' = [pc EXCEPT ![h] = "idle"]
  /\ held' = [held EXCEPT ![h] = {}]
  /\ UNCHANGED <<status, owned, job, todo, cur, asks, ok, editor>>

Continue(h) ==
  \/ Complete(h)
  \/ List(h)
  \/ \E d \in Task : LookAt(h, d)
  \/ \E q \in Query : Answer(h, q)
  \/ Unlock(h)
  \/ Skip(h)
  \/ Finish(h)

-----------------------------------------------------------------------------
(* The rest of the system                                                  *)

\* Somebody claims, starts and hands in an open task: startTask asks for the
\* prerequisites.  These requests are not split here (see TaskClaiming).
Work(t) ==
  /\ status[t] \in {"claimable", "assigned"}
  /\ Completed(Needs(t))
  /\ status' = [status EXCEPT ![t] = "submitted"]
  /\ owned' = owned \cup {t}
  /\ UNCHANGED <<handlerVars, editor>>

AssignRead(t) ==
  /\ editor = Idle
  /\ t \in Assignable
  /\ status[t] \in {"pending_publish", "claimable", "assigned"}
  /\ editor' = [op |-> "assignCheck", task |-> t, saw |-> status[t] = "pending_publish"]
  /\ UNCHANGED <<status, owned, handlerVars>>

\* Without a reason to override, only a task read as pending may be assigned early.
AssignCheck ==
  /\ editor.op = "assignCheck"
  /\ LET ready == Completed(Needs(editor.task))
     IN  editor' = IF ready \/ editor.saw
                   THEN [op |-> "assignWrite", task |-> editor.task, saw |-> ready]
                   ELSE Idle
  /\ UNCHANGED <<status, owned, handlerVars>>

AssignWrite ==
  /\ editor.op = "assignWrite"
  /\ status' = [status EXCEPT ![editor.task] =
                  IF editor.saw THEN "assigned" ELSE "pending_publish"]
  /\ owned' = owned \cup {editor.task}
  /\ editor' = Idle
  /\ UNCHANGED handlerVars

\* A new task has no dependency rows yet: only its stage is asked.
CreateCheck(t) ==
  /\ editor = Idle
  /\ t \in Creatable
  /\ status[t] = "absent"
  /\ editor' = [op |-> "createWrite", task |-> t, saw |-> Completed(Stage[t])]
  /\ UNCHANGED <<status, owned, handlerVars>>

CreateWrite ==
  /\ editor.op = "createWrite"
  /\ status' = [status EXCEPT ![editor.task] =
                  IF editor.saw THEN "claimable" ELSE "pending_publish"]
  /\ editor' = Idle
  /\ UNCHANGED <<owned, handlerVars>>

EditorStep == AssignCheck \/ AssignWrite \/ CreateWrite

Next ==
  \/ \E h \in Handler, t \in Task : Begin(h, t)
  \/ \E h \in Handler : Continue(h)
  \/ \E t \in Task : Work(t) \/ AssignRead(t) \/ CreateCheck(t)
  \/ EditorStep

\* A request that has started goes on: the event loop resumes every await.
\* Nothing makes people work, review or assign.
Fairness == (\A h \in Handler : WF_vars(Continue(h))) /\ WF_vars(EditorStep)

Spec == Init /\ [][Next]_vars /\ Fairness

-----------------------------------------------------------------------------
(* Properties                                                              *)

WaitsForNothing(d) == status[d] = "pending_publish" /\ Completed(Needs(d))

\* Request h has completed a task before d and will still find d ready.
WillUnlock(h, d) ==
  /\ job[h] \in Needs(d)
  /\ \/ pc[h] = "listing"
     \/ pc[h] \in {"scanning", "checking"} /\ d \in todo[h]
     \/ pc[h] = "checking" /\ cur[h] = d /\ ok[h]

\* No unlock is lost between two completions: a pending task with nothing left
\* to wait for is still on the way of some request that completed one of the
\* tasks before it, because every request writes before it reads.
NoLostUnlock ==
  \A d \in Task : WaitsForNothing(d) => \E h \in Handler : WillUnlock(h, d)

\* A pending task does not stay pending when everything before it is completed.
EventuallyUnlocked == \A d \in Task : WaitsForNothing(d) ~> ~WaitsForNothing(d)

\* A completed task is reopened only by an upstream change; no request of this
\* module makes one, so completed tasks stay completed.
CompletedStays ==
  [][\A t \in Task : status[t] = "completed" => status'[t] = "completed"]_vars
=============================================================================
