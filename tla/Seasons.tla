-------------------------------- MODULE Seasons --------------------------------
(***************************************************************************)
(* The episodes of one season of a project, and the work that hangs on     *)
(* them.  updateProjectUnits reads the episodes, then their tasks, then    *)
(* files, merge jobs and claims, with an await between; it refuses to drop *)
(* an episode with work unless it was told to, and changes everything in   *)
(* one transaction.  Members go on working meanwhile.                      *)
(*                                                                         *)
(* A row number is never given twice.  Lengths, titles and the rows of     *)
(* TaskDependency are left out.                                            *)
(***************************************************************************)
EXTENDS Naturals, SequencesExt

CONSTANTS
  Planner,    \* requests that edit the season, one at a time each
  Planned,    \* episode numbers of a new project's season
  MaxUnits,   \* bound on episodes asked for
  MaxRows,    \* bound on ProjectUnit rows ever made
  MaxItems    \* bound on the pieces of work ever made

ASSUME SeasonsAssumption ==
  /\ MaxUnits \in Nat /\ MaxRows \in Nat /\ MaxItems \in Nat
  /\ Planned \subseteq 1 .. MaxRows

VARIABLES
  unit,    \* unit[r]: the number of episode row r, 0 once it is deleted
  item,    \* the pieces of work: tasks and what belongs to tasks and episodes
  plan     \* what each request has read and decided

seasonVars == <<unit, item, plan>>

Row == DOMAIN unit
Rows == {r \in Row : unit[r] # 0}
Item == DOMAIN item
NoPlan == [at |-> "none"]

Kind == {"task", "claim", "comment", "review", "file", "job", "gone"}
Of(k) == {i \in Item : item[i].kind = k}

\* What isTaskBlockingUnitDeletion looks at in the task's own row: it has an
\* assignee, a status past the opening, or a time stamp.
Idle(i) == item[i].kind = "task" /\ item[i].idle
Work == {i \in Item : item[i].kind # "gone" /\ ~Idle(i)}

SeasonTypeOK ==
  /\ \A r \in Row : unit[r] \in 0 .. MaxRows + MaxUnits
  /\ \A r, s \in Rows : unit[r] = unit[s] => r = s
  /\ Len(unit) <= MaxRows /\ Len(item) <= MaxItems
  /\ \A i \in Item :
       /\ item[i].kind \in Kind /\ item[i].idle \in BOOLEAN
       /\ item[i].unit \in Row \cup {0} /\ item[i].task \in Item \cup {0}
  /\ DOMAIN plan = Planner

\* createProjectFromTemplate makes the episodes of the season.
SeasonInit ==
  /\ unit = [n \in 1 .. Cardinality(Planned) |-> n]
  /\ item = <<>>
  /\ plan = [p \in Planner |-> NoPlan]

-----------------------------------------------------------------------------
(* The members' work: createTask, claims, comments and reviews, uploads,   *)
(* merge jobs and conflicts.                                               *)

Add(kind, u, t, idle) ==
  /\ Len(item) < MaxItems
  /\ item' = Append(item, [kind |-> kind, unit |-> u, task |-> t, idle |-> idle])
  /\ UNCHANGED <<unit, plan>>

AddTask(u) == u \in Rows \cup {0} /\ Add("task", u, 0, TRUE)

TouchTask(t) ==
  /\ Idle(t)
  /\ item' = [item EXCEPT ![t].idle = FALSE]
  /\ UNCHANGED <<unit, plan>>

\* A claim is of the task and of its episode; what comes with it touches the task.
AddClaim(t) ==
  /\ t \in Of("task") /\ Len(item) < MaxItems
  /\ item' = Append([item EXCEPT ![t].idle = FALSE],
                    [kind |-> "claim", unit |-> item[t].unit, task |-> t, idle |-> FALSE])
  /\ UNCHANGED <<unit, plan>>

\* A review or a notification stands for either, a comment for a submission too.
AddNote(t) == t \in Of("task") /\ \E k \in {"comment", "review"} : Add(k, 0, t, FALSE)

\* The metadata of a file names a task, an episode or both.
AddFile(u, t) ==
  /\ u \in Rows \cup {0} /\ t \in Of("task") \cup {0}
  /\ t # 0 /\ u # 0 => u = item[t].unit
  /\ Add("file", u, t, FALSE)

AddJob(u) == u \in Rows /\ Add("job", u, 0, FALSE)

-----------------------------------------------------------------------------
(* updateProjectUnits                                                      *)

\* n episodes are wanted, some are selected for deletion or none is; the last
\* ones go then.
Beyond(n) == {r \in Rows : Cardinality({s \in Rows : unit[s] <= unit[r]}) > n}

Dropped(n, selected) == IF n < Cardinality(Rows) /\ selected = {} THEN Beyond(n) ELSE selected

Missing(rest, k) ==   \* the k lowest numbers not in use
  {m \in 1 .. k + Cardinality(rest) : m \notin rest /\ Cardinality({x \in 1 .. m : x \notin rest}) <= k}

BeginUnits(p, n, selected, force) ==
  /\ plan[p] = NoPlan
  /\ n \in 1 .. MaxUnits /\ selected \subseteq Rows
  /\ selected # {} => Cardinality(selected) + n = Cardinality(Rows)
  /\ LET drop == Dropped(n, selected)
         rest == {unit[r] : r \in Rows \ drop}
     IN plan' = [plan EXCEPT ![p] =
          [at |-> IF drop = {} THEN "write" ELSE "tasks", drop |-> drop, force |-> force,
           make |-> Missing(rest, n - Cardinality(rest)), had |-> Work,
           tasks |-> {}, touched |-> {}, files |-> {}, claims |-> {}]]
  /\ UNCHANGED <<unit, item>>

\* Comments do not count.
BlockingMutant(t) ==
  \/ ~item[t].idle
  \/ \E i \in Of("claim") \cup Of("review") : item[i].task = t

\* A task keeps its episode from being dropped if anything was done on it.
Blocking(t) ==
  \/ ~item[t].idle
  \/ \E i \in Of("claim") \cup Of("comment") \cup Of("review") : item[i].task = t

ReadUnitTasks(p) ==
  /\ plan[p].at = "tasks"
  /\ LET tasks == {t \in Of("task") : item[t].unit \in plan[p].drop}
     IN plan' = [plan EXCEPT ![p].at = "rest", ![p].tasks = tasks,
                             ![p].touched = {t \in tasks : Blocking(t)}]
  /\ UNCHANGED <<unit, item>>

FileOn(i, q) == item[i].unit \in q.drop \/ item[i].task \in q.tasks

\* With something on a dropped episode, the request is refused unless it is forced.
ReadUnitRest(p) ==
  /\ plan[p].at = "rest"
  /\ LET q == plan[p]
         files == {i \in Of("file") : FileOn(i, q)}
         claims == {i \in Of("claim") : item[i].unit \in q.drop}
         empty == /\ q.touched \cup files \cup claims = {}
                  /\ \A i \in Of("job") : item[i].unit \notin q.drop
     IN plan' = [plan EXCEPT ![p] = IF empty \/ q.force
                   THEN [q EXCEPT !.at = "write", !.files = files, !.claims = claims]
                   ELSE NoPlan]
  /\ UNCHANGED <<unit, item>>

\* What the transaction deletes: the files, claims and tasks read before, what
\* the database deletes with a task, and the merge jobs as they are now.
Deletes(q) ==
  q.files \cup q.claims \cup q.tasks
    \cup {i \in Of("claim") \cup Of("comment") : item[i].task \in q.tasks}
    \cup {i \in Of("job") : item[i].unit \in q.drop}

\* What stays loses its episode or its task; a file keeps what its metadata says.
Detached(i, q) ==
  IF item[i].kind = "file" THEN item[i]
  ELSE [item[i] EXCEPT !.unit = IF @ \in q.drop THEN 0 ELSE @,
                       !.task = IF @ \in q.tasks THEN 0 ELSE @]

WriteUnits(p) ==
  /\ plan[p].at = "write"
  /\ LET q == plan[p]
         kept == [r \in Row |-> IF r \in q.drop THEN 0 ELSE unit[r]]
         clash == \E r \in Row : kept[r] \in q.make
         new == SetToSeq(q.make)
     IN IF clash THEN UNCHANGED <<unit, item>>    \* the transaction is rolled back
        ELSE /\ Len(unit) + Len(new) <= MaxRows
             /\ unit' = kept \o new
             /\ item' = [i \in Item |-> IF i \in Deletes(q) THEN [item[i] EXCEPT !.kind = "gone"]
                                        ELSE Detached(i, q)]
  /\ plan' = [plan EXCEPT ![p] = NoPlan]

CreateUnit(n) ==
  /\ Len(unit) < MaxRows /\ n \in 1 .. MaxUnits
  /\ \A r \in Rows : unit[r] # n
  /\ unit' = Append(unit, n)
  /\ UNCHANGED <<item, plan>>

SeasonNext ==
  \/ \E u \in Rows \cup {0} : AddTask(u) \/ AddJob(u)
  \/ \E t \in Item : TouchTask(t) \/ AddClaim(t) \/ AddNote(t)
  \/ \E u \in Rows \cup {0}, t \in Item \cup {0} : AddFile(u, t)
  \/ \E p \in Planner :
       \/ \E n \in 1 .. MaxUnits, s \in SUBSET Rows, f \in BOOLEAN : BeginUnits(p, n, s, f)
       \/ ReadUnitTasks(p) \/ ReadUnitRest(p) \/ WriteUnits(p)
  \/ \E n \in 1 .. MaxUnits : CreateUnit(n)

SeasonSpec == SeasonInit /\ [][SeasonNext]_seasonVars

-----------------------------------------------------------------------------
\* An edit of the season that nobody confirmed deletes no work that was there
\* when it was asked for, wherever it hangs: on a task, on the episode, or in
\* the metadata of a file.
UnforcedKeepsWork ==
  [][\A p \in Planner :
       plan[p].at = "write" /\ plan'[p] = NoPlan /\ ~plan[p].force =>
         \A i \in plan[p].had : item[i].kind # "gone" => item'[i].kind # "gone"]_seasonVars
=============================================================================
