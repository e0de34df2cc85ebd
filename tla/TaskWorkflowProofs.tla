------------------------- MODULE TaskWorkflowProofs -------------------------
(***************************************************************************)
(* Theorems about TaskWorkflow, for any tasks, users, units, pipeline and  *)
(* allowed dependencies.                                                   *)
(***************************************************************************)
EXTENDS TaskWorkflow, TLAPS

Table == [Task -> Row]

\* e is a table like d, up to the statuses.
OnlyStatus(d, e) ==
  /\ e \in Table
  /\ \A x \in Task : /\ e[x].assignee = d[x].assignee
                     /\ e[x].deps = d[x].deps
                     /\ e[x].role = d[x].role
                     /\ e[x].saved = d[x].saved

LEMMA NoRowType == NoRow \in Row
BY DEF NoRow, Row, Role

\* Writing a status into one row, as every transition does.
LEMMA RowStatus ==
  ASSUME NEW row \in Row, NEW s \in Status
  PROVE  /\ [row EXCEPT !.status = s] \in Row
         /\ [row EXCEPT !.status = s].assignee = row.assignee
         /\ [row EXCEPT !.status = s].deps = row.deps
         /\ [row EXCEPT !.status = s].role = row.role
         /\ [row EXCEPT !.status = s].saved = row.saved
         /\ [row EXCEPT !.status = s].status = s
BY DEF Row

LEMMA SetStatusOnlyStatus ==
  ASSUME NEW d \in Table, NEW t \in Task, NEW s \in Status
  PROVE  OnlyStatus(d, SetStatus(d, t, s))
<1>1. SetStatus(d, t, s) = [x \in Task |-> IF x = t THEN [d[x] EXCEPT !.status = s] ELSE d[x]]
  BY DEF SetStatus, Table
<1> QED
  BY <1>1, RowStatus DEF OnlyStatus, Table

LEMMA UnlockOnlyStatus ==
  ASSUME NEW d \in Table, NEW t \in Task
  PROVE  OnlyStatus(d, UnlockDownstream(d, t))
<1>1. \A x \in Task : UnlockedStatus(d[x]) \in Status
  BY DEF UnlockedStatus, Status
<1> QED
  BY <1>1, RowStatus DEF OnlyStatus, Table, UnlockDownstream

LEMMA ReconcileOnlyStatus ==
  ASSUME NEW d \in Table, NEW t \in Task
  PROVE  OnlyStatus(d, Reconcile(d, t))
<1>1. UnlockedStatus(d[t]) \in Status /\ "pending_publish" \in Status
  BY DEF UnlockedStatus, Status
<1>2. OnlyStatus(d, d)
  BY DEF OnlyStatus
<1> QED
  BY <1>1, <1>2, SetStatusOnlyStatus DEF Reconcile

LEMMA CascadeOnlyStatus ==
  ASSUME NEW d \in Table, NEW t \in Task
  PROVE  OnlyStatus(d, CascadeReset(d, t))
<1>1. ASSUME NEW row \in Row
      PROVE  /\ CascadedRow(row) \in Row
             /\ CascadedRow(row).assignee = row.assignee
             /\ CascadedRow(row).deps = row.deps
             /\ CascadedRow(row).role = row.role
             /\ CascadedRow(row).saved = row.saved
  <2>1. (IF WaitsForUpstream(row) THEN "pending_publish" ELSE "in_progress") \in Status
    BY DEF Status
  <2> QED
    BY <2>1, RowStatus DEF CascadedRow
<1> QED
  BY <1>1 DEF OnlyStatus, Table, CascadeReset

LEMMA FreezeOnlyStatus ==
  ASSUME NEW d \in Table, NEW t \in Task
  PROVE  OnlyStatus(d, FreezeDownstream(d, t))
<1>1. "frozen" \in Status
  BY DEF Status
<1> QED
  BY <1>1, RowStatus DEF OnlyStatus, Table, FreezeDownstream

LEMMA OnlyStatusTransitive ==
  ASSUME NEW d, NEW e, NEW f, OnlyStatus(d, e), OnlyStatus(e, f)
  PROVE  OnlyStatus(d, f)
BY DEF OnlyStatus

-----------------------------------------------------------------------------
(* What each handler makes of the task table                               *)

\* e is a table with the assignees and at most the dependencies of d.
SameHolders(d, e) ==
  /\ e \in Table
  /\ \A x \in Task : e[x].assignee = d[x].assignee /\ e[x].deps \subseteq d[x].deps

\* Archiving left nothing in a row of e that it had not left in d.
NothingSaved(d, e) == \A x \in Task : e[x].saved \in {d[x].saved, "none"}

LEMMA CascadeFromColumns ==
  ASSUME NEW d \in Table, NEW t \in Task, CascadeFrom(d, t)
  PROVE  /\ OnlyStatus(d, db')
         /\ hung' = CascadeRunsAway(d, t)
         /\ hung' \in BOOLEAN
BY CascadeOnlyStatus DEF CascadeFrom, CascadeRunsAway, HasCycle

LEMMA CreateColumns ==
  ASSUME TypeOK, NEW t \in Task, NEW r \in RolesOf[t], NEW a \in User \cup {NoUser},
         CreateTask(t, r, a)
  PROVE  /\ db' \in Table
         /\ \A x \in Task \ {t} : db'[x] = db[x]
         /\ db'[t].assignee = a /\ db'[t].deps = {} /\ db'[t].saved = "none"
<1> DEFINE row == [NoRow EXCEPT !.status = "pending_publish", !.role = r, !.assignee = a]
           new == [db EXCEPT ![t] = row]
<1>1. row \in Row /\ row.assignee = a /\ row.deps = {} /\ row.saved = "none"
  BY RolesAssumption DEF NoRow, Row, Status
<1>2. new \in Table /\ new[t] = row /\ \A x \in Task \ {t} : new[x] = db[x]
  BY <1>1 DEF TypeOK, Table
<1>3. UnlockedStatus(row) \in Status
  BY DEF UnlockedStatus, Status
<1>4. db' = SetStatus(new, t, UnlockedStatus(row)) \/ db' = new
  BY DEF CreateTask
<1>5. CASE db' = new
  BY <1>1, <1>2, <1>5
<1>6. CASE db' = SetStatus(new, t, UnlockedStatus(row))
  <2>1. OnlyStatus(new, db')
    BY <1>2, <1>3, <1>6, SetStatusOnlyStatus
  <2>2. \A x \in Task \ {t} : db'[x] = new[x]
    BY <1>2, <1>6 DEF SetStatus, Table
  <2> QED
    BY <1>1, <1>2, <2>1, <2>2 DEF OnlyStatus
<1> QED
  BY <1>4, <1>5, <1>6

LEMMA UpdatedRowType ==
  ASSUME NEW row \in Row, NEW r \in Role, NEW a \in User \cup {NoUser}
  PROVE  /\ UpdatedRow(row, r, a) \in Row
         /\ UpdatedRow(row, r, a).assignee = a
         /\ UpdatedRow(row, r, a).deps = row.deps
         /\ UpdatedRow(row, r, a).saved = row.saved
         /\ UpdatedRow(row, r, a).status = row.status
BY DEF Row, UpdatedRow

LEMMA UpdateColumns ==
  ASSUME TypeOK, NEW t \in Task, NEW content \in BOOLEAN, NEW r \in RolesOf[t],
         NEW a \in User \cup {NoUser}, UpdateTask(t, content, r, a)
  PROVE  /\ db' \in Table
         /\ \A x \in Task : db'[x].deps = db[x].deps /\ db'[x].saved = db[x].saved
         /\ \A x \in Task \ {t} : db'[x].assignee = db[x].assignee
         /\ db'[t].assignee = a
<1> DEFINE updated == [db EXCEPT ![t] = UpdatedRow(@, r, a)]
<1>1. r \in Role
  BY RolesAssumption
<1> DEFINE row == UpdatedRow(db[t], r, a)
<1>2. row \in Row /\ row.assignee = a /\ row.deps = db[t].deps /\ row.saved = db[t].saved
  BY <1>1, UpdatedRowType DEF TypeOK
<1>3. /\ updated \in Table
      /\ \A x \in Task : updated[x].deps = db[x].deps /\ updated[x].saved = db[x].saved
      /\ \A x \in Task \ {t} : updated[x].assignee = db[x].assignee
      /\ updated[t].assignee = a
  <2>1. updated = [x \in Task |-> IF x = t THEN row ELSE db[x]]
    BY DEF TypeOK
  <2> HIDE DEF updated, row
  <2> QED
    BY <1>2, <2>1 DEF TypeOK, Table
<1>4. CascadeFrom(updated, t) \/ db' = updated
  BY DEF UpdateTask
<1> HIDE DEF updated
<1>5. db' = updated \/ OnlyStatus(updated, db')
  BY <1>3, <1>4, CascadeFromColumns
<1> QED
  BY <1>3, <1>5 DEF OnlyStatus

LEMMA DeleteColumns ==
  ASSUME TypeOK, NEW t \in Task, DeleteTask(t)
  PROVE  /\ db' \in Table
         /\ \A x \in Task \ {t} : db'[x].assignee = db[x].assignee
         /\ db'[t].assignee = NoUser
         /\ \A x \in Task : db'[x].deps \subseteq db[x].deps
         /\ NothingSaved(db, db')
         /\ hung' \in BOOLEAN
<1> DEFINE reset == IF Downstream(db, t) # {} THEN CascadeReset(db, t) ELSE db
<1>1. OnlyStatus(db, reset)
  BY CascadeOnlyStatus DEF OnlyStatus, TypeOK, Table
<1>2. db' = [x \in Task |-> IF x = t THEN NoRow
                            ELSE [reset[x] EXCEPT !.deps = @ \ {t}]]
  BY DEF DeleteTask
<1>3. ASSUME NEW row \in Row
      PROVE  /\ [row EXCEPT !.deps = @ \ {t}] \in Row
             /\ [row EXCEPT !.deps = @ \ {t}].assignee = row.assignee
             /\ [row EXCEPT !.deps = @ \ {t}].deps = row.deps \ {t}
             /\ [row EXCEPT !.deps = @ \ {t}].saved = row.saved
  BY DEF Row
<1>4. \A x \in Task : reset[x] \in Row
  BY <1>1 DEF OnlyStatus, Table
<1>5. db' \in Table
  BY <1>2, <1>3, <1>4, NoRowType DEF Table
<1>6. db'[t] = NoRow
  BY <1>2
<1>7. \A x \in Task \ {t} : /\ db'[x].assignee = reset[x].assignee
                            /\ db'[x].deps = reset[x].deps \ {t}
                            /\ db'[x].saved = reset[x].saved
  BY <1>2, <1>3, <1>4
<1>8. hung' \in BOOLEAN
  BY DEF DeleteTask, CascadeRunsAway, HasCycle
<1> QED
  BY <1>1, <1>5, <1>6, <1>7, <1>8 DEF OnlyStatus, NothingSaved, NoRow

\* The transitions that leave every task with whom it was.
LEMMA TransitionColumns ==
  ASSUME TypeOK, NEW t \in Task,
         SubmitTask(t) \/ CancelTask(t) \/ ApproveTask(t) \/ RejectTask(t) \/ ResetTask(t)
  PROVE  SameHolders(db, db') /\ NothingSaved(db, db') /\ hung' \in BOOLEAN
<1>1. db \in Table /\ hung \in BOOLEAN
  BY DEF TypeOK, Table
<1>2. /\ "submitted" \in Status /\ "completed" \in Status /\ "frozen" \in Status
      /\ "review_rejected" \in Status /\ "pending_publish" \in Status
      /\ "in_progress" \in Status
  BY DEF Status
<1>3. \A s \in Status : OnlyStatus(db, SetStatus(db, t, s)) /\ SetStatus(db, t, s) \in Table
  BY <1>1, SetStatusOnlyStatus DEF OnlyStatus
<1>4. \A e : OnlyStatus(db, e) => SameHolders(db, e) /\ NothingSaved(db, e)
  BY DEF OnlyStatus, SameHolders, NothingSaved
<1>5. CASE SubmitTask(t)
  BY <1>1, <1>2, <1>3, <1>4, <1>5, UnlockOnlyStatus, OnlyStatusTransitive DEF SubmitTask
<1>6. CASE CancelTask(t)
  <2>1. OnlyStatus(db, db')
    BY <1>2, <1>3, <1>6, FreezeOnlyStatus, OnlyStatusTransitive DEF CancelTask
  <2>2. hung' \in BOOLEAN
    BY <1>6 DEF CancelTask, FreezeRunsAway, HasCycle
  <2> QED
    BY <1>4, <2>1, <2>2
<1>7. CASE ApproveTask(t)
  BY <1>1, <1>2, <1>3, <1>4, <1>7, UnlockOnlyStatus, OnlyStatusTransitive DEF ApproveTask
<1>8. CASE RejectTask(t)
  BY <1>1, <1>2, <1>3, <1>4, <1>8 DEF RejectTask
<1>9. CASE ResetTask(t)
  <2>1. PICK s \in Status : CascadeFrom(SetStatus(db, t, s), t)
    BY <1>2, <1>9 DEF ResetTask
  <2> QED
    BY <1>3, <1>4, <2>1, CascadeFromColumns, OnlyStatusTransitive
<1> QED
  BY <1>5, <1>6, <1>7, <1>8, <1>9

\* Claiming, assigning, starting and returning write one row's status and holder.
LEMMA HeldRow ==
  ASSUME NEW d \in Table, NEW t \in Task, NEW s \in Status, NEW a \in User \cup {NoUser},
         NEW e, e = SetHolder(d, t, s, a)
  PROVE  /\ e \in Table
         /\ \A x \in Task : /\ e[x].deps = d[x].deps
                            /\ e[x].role = d[x].role
                            /\ e[x].saved = d[x].saved
         /\ \A x \in Task \ {t} : e[x] = d[x]
         /\ e[t].assignee = a
         /\ e[t].status = s
<1>1. ASSUME NEW row \in Row
      PROVE  /\ [row EXCEPT !.status = s, !.assignee = a] \in Row
             /\ [row EXCEPT !.status = s, !.assignee = a].deps = row.deps
             /\ [row EXCEPT !.status = s, !.assignee = a].role = row.role
             /\ [row EXCEPT !.status = s, !.assignee = a].saved = row.saved
             /\ [row EXCEPT !.status = s, !.assignee = a].assignee = a
             /\ [row EXCEPT !.status = s, !.assignee = a].status = s
  BY DEF Row
<1>2. e = [x \in Task |-> IF x = t THEN [d[x] EXCEPT !.status = s, !.assignee = a] ELSE d[x]]
  BY DEF SetHolder, Table
<1>3. d[t] \in Row
  BY DEF Table
<1> DEFINE new == [d[t] EXCEPT !.status = s, !.assignee = a]
<1>4. /\ new \in Row /\ new.deps = d[t].deps /\ new.role = d[t].role
      /\ new.saved = d[t].saved /\ new.assignee = a /\ new.status = s
  BY ONLY <1>1, <1>3
<1>5. e = [x \in Task |-> IF x = t THEN new ELSE d[x]]
  BY <1>2
<1> HIDE DEF new
<1> QED
  BY <1>4, <1>5 DEF Table

\* What every step does to the columns the theorems are about ...
LegalStep ==
  /\ db' \in Table
  /\ hung' \in BOOLEAN
  /\ members' \subseteq User
  /\ \A x \in Task : \A u \in db'[x].deps : u \in db[x].deps \/ <<u, x>> \in DepEdges

\* ... and, without removeMember and updateAssignee, to whom tasks belong.
JustifiedHolders ==
  \A x \in Task :
    \/ db'[x].assignee \in {NoUser} \cup Managers \cup members'
    \/ /\ db'[x].assignee = db[x].assignee
       /\ db[x].assignee \in members => db[x].assignee \in members'

LEMMA ClaimStep ==
  ASSUME TypeOK, NEW t \in Task, NEW u \in User, ClaimTask(t, u)
  PROVE  LegalStep /\ JustifiedHolders
<1>1. db' = SetHolder(db, t, "assigned", u) /\ hung' = hung /\ members' = members \cup {u}
  BY DEF ClaimTask
<1>2. db \in Table /\ "assigned" \in Status
  BY DEF TypeOK, Table, Status
<1> QED
  BY <1>1, <1>2, HeldRow DEF LegalStep, JustifiedHolders, TypeOK

LEMMA AssignStep ==
  ASSUME TypeOK, NEW t \in Task, NEW a \in User, NEW reason \in BOOLEAN,
         AssignTask(t, a, reason)
  PROVE  LegalStep /\ JustifiedHolders
<1>1. PICK s \in Status : db' = SetHolder(db, t, s, a)
  BY DEF AssignTask, Status
<1>2. hung' = hung /\ members' = members \cup {a}
  BY DEF AssignTask
<1>3. db \in Table
  BY DEF TypeOK, Table
<1> QED
  BY <1>1, <1>2, <1>3, HeldRow DEF LegalStep, JustifiedHolders, TypeOK

LEMMA StartStep ==
  ASSUME TypeOK, NEW t \in Task, NEW u \in User, StartTask(t, u)
  PROVE  LegalStep /\ JustifiedHolders
<1> DEFINE a == IF db[t].status = "claimable" /\ db[t].assignee = NoUser
                THEN u ELSE db[t].assignee
<1>1. db' = SetHolder(db, t, "in_progress", a) /\ hung' = hung /\ members' = members
  BY DEF StartTask
<1>2. db \in Table /\ "in_progress" \in Status
  BY DEF TypeOK, Table, Status
<1>3. a \in User \cup {NoUser}
  BY DEF TypeOK, Row
<1>4. a = db[t].assignee \/ a \in Managers
  BY DEF StartTask
<1> HIDE DEF a
<1> QED
  BY <1>1, <1>2, <1>3, <1>4, HeldRow DEF LegalStep, JustifiedHolders, TypeOK

LEMMA ReturnStep ==
  ASSUME TypeOK, NEW t \in Task, ReturnTask(t)
  PROVE  LegalStep /\ JustifiedHolders
<1> DEFINE returned == SetHolder(db, t, "claimable", NoUser)
<1>1. CascadeFrom(returned, t) /\ members' = MembersWithout(db[t].assignee)
  BY DEF ReturnTask
<1>2. db \in Table /\ "claimable" \in Status
  BY DEF TypeOK, Table, Status
<1>3. /\ returned \in Table
      /\ \A x \in Task : returned[x].deps = db[x].deps
      /\ \A x \in Task \ {t} : returned[x].assignee = db[x].assignee
      /\ returned[t].assignee = NoUser
  BY <1>2, HeldRow
<1> HIDE DEF returned
<1>4. OnlyStatus(returned, db') /\ hung' \in BOOLEAN
  BY <1>1, <1>3, CascadeFromColumns
<1>5. members' \subseteq User
        /\ \A x \in Task : db'[x].assignee \in members =>
             db'[x].assignee \in members' \cup Managers
  BY <1>1 DEF MembersWithout, TypeOK
<1> QED
  BY <1>3, <1>4, <1>5 DEF OnlyStatus, LegalStep, JustifiedHolders

LEMMA CreateStep ==
  ASSUME TypeOK, NEW t \in Task, NEW r \in RolesOf[t], NEW a \in User \cup {NoUser},
         CreateTask(t, r, a)
  PROVE  LegalStep /\ JustifiedHolders
<1>1. hung' = hung /\ members' = members \cup Account(a)
  BY DEF CreateTask
<1> QED
  BY <1>1, CreateColumns DEF Account, LegalStep, JustifiedHolders, TypeOK

LEMMA UpdateStep ==
  ASSUME TypeOK, NEW t \in Task, Update(t)
  PROVE  LegalStep /\ ("updateAssignee" \notin Ops => JustifiedHolders)
<1>1. PICK content \in BOOLEAN, r \in RolesOf[t], a \in User \cup {NoUser} :
        UpdateTask(t, content, r, a) /\ (a # db[t].assignee => "updateAssignee" \in Ops)
  BY DEF Update, Calls
<1>2. members' = members
  BY <1>1 DEF UpdateTask
<1>3. hung' \in BOOLEAN
  BY <1>1 DEF UpdateTask, CascadeFrom, CascadeRunsAway, HasCycle, TypeOK
<1> QED
  BY <1>1, <1>2, <1>3, UpdateColumns DEF LegalStep, JustifiedHolders, TypeOK

LEMMA DeleteStep ==
  ASSUME TypeOK, NEW t \in Task, DeleteTask(t)
  PROVE  LegalStep /\ JustifiedHolders
<1>1. members' = members
  BY DEF DeleteTask
<1> QED
  BY <1>1, DeleteColumns DEF LegalStep, JustifiedHolders, TypeOK

\* A step that leaves every assignee where it was, and no member out.
LEMMA SameHoldersStep ==
  ASSUME TypeOK, SameHolders(db, db'), hung' \in BOOLEAN,
         members \subseteq members', members' \subseteq User
  PROVE  LegalStep /\ JustifiedHolders
BY DEF SameHolders, LegalStep, JustifiedHolders

LEMMA TaskStep ==
  ASSUME TypeOK, NEW t \in Task, TaskOperation(t)
  PROVE  LegalStep /\ ("updateAssignee" \notin Ops => JustifiedHolders)
<1>1. CASE SubmitTask(t) \/ CancelTask(t) \/ ApproveTask(t) \/ RejectTask(t) \/ ResetTask(t)
  <2>1. members' = members
    BY <1>1 DEF SubmitTask, CancelTask, ApproveTask, RejectTask, ResetTask
  <2> QED
    BY <1>1, <2>1, TransitionColumns, SameHoldersStep DEF TypeOK
<1>2. CASE UpdateTaskDeadline(t)
  BY <1>2, SameHoldersStep DEF UpdateTaskDeadline, SameHolders, TypeOK, Table
<1> QED
  BY <1>1, <1>2, ClaimStep, AssignStep, StartStep, ReturnStep, CreateStep, UpdateStep,
     DeleteStep DEF TaskOperation

-----------------------------------------------------------------------------
(* Dependencies, the project and the job                                   *)

LEMMA DependencyStep ==
  ASSUME TypeOK, NEW t \in Task, NEW d \in Task, DependencyOperation(t, d)
  PROVE  LegalStep /\ JustifiedHolders
<1> DEFINE Linked(S) == [db EXCEPT ![t].deps = S]
<1>1. db \in Table
  BY DEF TypeOK, Table
<1>2. ASSUME NEW row \in Row, NEW S \in SUBSET Task
      PROVE  /\ [row EXCEPT !.deps = S] \in Row
             /\ [row EXCEPT !.deps = S].deps = S
             /\ [row EXCEPT !.deps = S].assignee = row.assignee
  BY DEF Row
<1>3. ASSUME NEW S \in SUBSET Task
      PROVE  /\ Linked(S) \in Table
             /\ Linked(S)[t].deps = S
             /\ \A x \in Task : Linked(S)[x].assignee = db[x].assignee
             /\ \A x \in Task \ {t} : Linked(S)[x].deps = db[x].deps
  BY <1>1, <1>2 DEF Table
<1>4. PICK S \in SUBSET Task : /\ S \subseteq db[t].deps \cup {d}
                              /\ db' = Reconcile(Linked(S), t)
  <2>1. db[t].deps \cup {d} \in SUBSET Task /\ db[t].deps \ {d} \in SUBSET Task
    BY <1>1 DEF Table, Row
  <2> QED
    BY <2>1 DEF DependencyOperation, CreateDependency, RemoveDependency
<1>5. OnlyStatus(Linked(S), db')
  BY <1>3, <1>4, ReconcileOnlyStatus
<1>6. members' = members /\ hung' = hung /\ <<d, t>> \in DepEdges
  BY DEF DependencyOperation, CreateDependency, RemoveDependency
<1> HIDE DEF Linked
<1> QED
  BY <1>3, <1>4, <1>5, <1>6 DEF OnlyStatus, LegalStep, JustifiedHolders, TypeOK

LEMMA ArchivingRow ==
  ASSUME NEW row \in Row
  PROVE  /\ ArchivedRow(row) \in Row /\ UnarchivedRow(row) \in Row
         /\ ArchivedRow(row).assignee = row.assignee /\ ArchivedRow(row).deps = row.deps
         /\ UnarchivedRow(row).assignee = row.assignee /\ UnarchivedRow(row).deps = row.deps
<1>1. /\ ArchivedRow(row) \in Row
      /\ ArchivedRow(row).assignee = row.assignee /\ ArchivedRow(row).deps = row.deps
  BY DEF Row, ArchivedRow, ArchivedStatuses, Status
<1>2. /\ UnarchivedRow(row) \in Row
      /\ UnarchivedRow(row).assignee = row.assignee /\ UnarchivedRow(row).deps = row.deps
  BY DEF Row, UnarchivedRow, ArchivedStatuses, Status
<1> QED
  BY <1>1, <1>2

LEMMA ProjectStep ==
  ASSUME TypeOK, ProjectOperation
  PROVE  LegalStep /\ ("removeMember" \notin Ops => JustifiedHolders)
<1>0. db \in Table /\ "frozen" \in Status /\ "overdue" \in Status /\ "claimable" \in Status
  BY DEF TypeOK, Table, Status
<1>1. CASE ArchiveProject
  <2>1. SameHolders(db, db')
    BY <1>0, <1>1, ArchivingRow DEF ArchiveProject, SameHolders, Table
  <2> QED
    BY <1>1, <2>1, SameHoldersStep DEF ArchiveProject, TypeOK
<1>2. CASE UnarchiveProject
  <2>1. SameHolders(db, db')
    BY <1>0, <1>2, ArchivingRow DEF UnarchiveProject, SameHolders, Table
  <2> QED
    BY <1>2, <2>1, SameHoldersStep DEF UnarchiveProject, TypeOK
<1>3. CASE SoftDeleteProject \/ RestoreProject
  BY <1>0, <1>3, SameHoldersStep DEF SoftDeleteProject, RestoreProject, SameHolders, TypeOK
<1>4. CASE PermanentlyDeleteProject
  <2>1. db' \in Table /\ \A x \in Task : db'[x].assignee = NoUser /\ db'[x].deps = {}
    BY <1>4, NoRowType DEF PermanentlyDeleteProject, NoRow, Table
  <2> QED
    BY <1>4, <2>1 DEF PermanentlyDeleteProject, LegalStep, JustifiedHolders, TypeOK
<1>5. ASSUME NEW u \in User, AddMember(u) PROVE LegalStep /\ JustifiedHolders
  BY <1>0, <1>5, SameHoldersStep DEF AddMember, SameHolders, TypeOK
<1>6. ASSUME NEW u \in User, RemoveMember(u) PROVE LegalStep
  <2>1. ASSUME NEW row \in Row
        PROVE  /\ [row EXCEPT !.status = "claimable", !.assignee = NoUser] \in Row
               /\ [row EXCEPT !.status = "claimable", !.assignee = NoUser].deps = row.deps
    BY <1>0 DEF Row
  <2>2. db' \in Table /\ \A x \in Task : db'[x].deps = db[x].deps
    BY <1>0, <1>6, <2>1 DEF RemoveMember, Table
  <2> QED
    BY <1>6, <2>2 DEF RemoveMember, LegalStep, TypeOK
<1>7. CASE MarkOverdueTasks
  <2>1. SameHolders(db, db')
    BY <1>0, <1>7, RowStatus DEF MarkOverdueTasks, SameHolders, Table
  <2> QED
    BY <1>7, <2>1, SameHoldersStep DEF MarkOverdueTasks, TypeOK
<1>8. ASSUME NEW t \in Task, DeadlinePasses(t) PROVE LegalStep /\ JustifiedHolders
  BY <1>0, <1>8, SameHoldersStep DEF DeadlinePasses, SameHolders, TypeOK
<1> QED
  BY <1>1, <1>2, <1>3, <1>4, <1>5, <1>6, <1>7, <1>8 DEF ProjectOperation, Calls

LEMMA NextStep ==
  ASSUME TypeOK, Next
  PROVE  /\ LegalStep
         /\ {"updateAssignee", "removeMember"} \cap Ops = {} => JustifiedHolders
<1>1. ASSUME NEW d \in todo, ReconcileDependent(d) PROVE LegalStep /\ JustifiedHolders
  <2>1. d \in Task /\ db \in Table
    BY DEF TypeOK, Table
  <2>2. OnlyStatus(db, db')
    BY <1>1, <2>1, ReconcileOnlyStatus DEF ReconcileDependent
  <2> QED
    BY <1>1, <2>2, SameHoldersStep DEF ReconcileDependent, OnlyStatus, SameHolders, TypeOK
<1> QED
  BY <1>1, TaskStep, DependencyStep, ProjectStep DEF Next

\* The variables beside the table, the members and hung.
LegalFrame ==
  /\ project' \in ProjectState
  /\ late' \subseteq Task
  /\ todo' \subseteq Task
  /\ atArchive' \in [Task -> Status \cup {"absent", "none"}]

LEMMA TaskFrame ==
  ASSUME TypeOK, NEW t \in Task, TaskOperation(t)
  PROVE  LegalFrame
<1> USE DEF TypeOK, LegalFrame
<1>1. ASSUME NEW r \in RolesOf[t], NEW a \in User \cup {NoUser}, CreateTask(t, r, a)
      PROVE  LegalFrame
  BY <1>1 DEF CreateTask
<1>2. CASE Update(t)
  BY <1>2 DEF Update, UpdateTask
<1>3. CASE DeleteTask(t)
  BY <1>3 DEF DeleteTask, Downstream, Dependents, SameUnitTasks
<1>4. CASE UpdateTaskDeadline(t)
  BY <1>4 DEF UpdateTaskDeadline
<1>5. ASSUME NEW u \in User, ClaimTask(t, u) \/ StartTask(t, u) PROVE LegalFrame
  BY <1>5 DEF ClaimTask, StartTask
<1>6. ASSUME NEW a \in User, NEW reason \in BOOLEAN, AssignTask(t, a, reason)
      PROVE  LegalFrame
  BY <1>6 DEF AssignTask
<1>7. CASE ReturnTask(t) \/ ResetTask(t)
  BY <1>7 DEF ReturnTask, ResetTask
<1>8. CASE SubmitTask(t) \/ ApproveTask(t) \/ RejectTask(t) \/ CancelTask(t)
  BY <1>8 DEF SubmitTask, ApproveTask, RejectTask, CancelTask
<1> QED
  BY <1>1, <1>2, <1>3, <1>4, <1>5, <1>6, <1>7, <1>8 DEF TaskOperation

LEMMA ProjectFrame ==
  ASSUME TypeOK, ProjectOperation
  PROVE  LegalFrame
<1> USE DEF TypeOK, LegalFrame, ProjectState
<1>1. CASE ArchiveProject
  <2>1. \A t \in Task : db[t].status \in Status \cup {"absent"}
    BY DEF Row
  <2> QED
    BY <1>1, <2>1 DEF ArchiveProject
<1>2. CASE UnarchiveProject \/ PermanentlyDeleteProject
  BY <1>2 DEF UnarchiveProject, PermanentlyDeleteProject, Unknown
<1>3. CASE SoftDeleteProject \/ RestoreProject \/ MarkOverdueTasks
  BY <1>3 DEF SoftDeleteProject, RestoreProject, MarkOverdueTasks
<1>4. ASSUME NEW u \in User, AddMember(u) \/ RemoveMember(u) PROVE LegalFrame
  BY <1>4 DEF AddMember, RemoveMember
<1>5. ASSUME NEW t \in Task, DeadlinePasses(t) PROVE LegalFrame
  BY <1>5 DEF DeadlinePasses
<1> QED
  BY <1>1, <1>2, <1>3, <1>4, <1>5 DEF ProjectOperation

LEMMA NextFrame ==
  ASSUME TypeOK, Next
  PROVE  LegalFrame
<1>1. ASSUME NEW d \in todo, ReconcileDependent(d) PROVE LegalFrame
  BY <1>1 DEF ReconcileDependent, TypeOK, LegalFrame
<1>2. ASSUME NEW t \in Task, NEW d \in Task, DependencyOperation(t, d) PROVE LegalFrame
  BY <1>2 DEF DependencyOperation, CreateDependency, RemoveDependency, TypeOK, LegalFrame
<1> QED
  BY <1>1, <1>2, TaskFrame, ProjectFrame DEF Next

-----------------------------------------------------------------------------
(* The theorems                                                            *)

\* Type correctness: every handler leaves a legal task table, and members and
\* assignees are accounts (in particular no upsert of a null assignee).
THEOREM TypeCorrect == Spec => []TypeOK
<1>1. Init => TypeOK
  BY NoRowType DEF Init, TypeOK, ProjectState, Unknown
<1>2. TypeOK /\ [Next]_vars => TypeOK'
  <2> SUFFICES ASSUME TypeOK, [Next]_vars PROVE TypeOK'
    OBVIOUS
  <2>1. CASE Next
    <3>1. db' \in [Task -> Row] /\ hung' \in BOOLEAN /\ members' \subseteq User
      BY <2>1, NextStep DEF LegalStep, Table
    <3>2. LegalFrame
      BY <2>1, NextFrame
    <3> QED
      BY <3>1, <3>2 DEF LegalFrame, TypeOK
  <2>2. CASE UNCHANGED vars
    BY <2>2 DEF vars, TypeOK
  <2> QED
    BY <2>1, <2>2
<1> QED
  BY <1>1, <1>2, PTL DEF Spec

\* Every assignee is a member or manages the project, whatever sequence of
\* creations, claims, assignments, returns and cascades led there: returning one
\* task never takes the membership another one needs.
THEOREM HoldersStayMembers ==
  ASSUME {"updateAssignee", "removeMember"} \cap Ops = {}
  PROVE  Spec => []AssigneesAreMembers
<1>1. Init => AssigneesAreMembers
  BY DEF Init, NoRow, AssigneesAreMembers
<1>2. TypeOK /\ AssigneesAreMembers /\ [Next]_vars => AssigneesAreMembers'
  <2> SUFFICES ASSUME TypeOK, AssigneesAreMembers, [Next]_vars PROVE AssigneesAreMembers'
    OBVIOUS
  <2>1. CASE Next
    <3>1. JustifiedHolders
      BY <2>1, NextStep
    <3> QED
      BY <3>1 DEF JustifiedHolders, AssigneesAreMembers
  <2>2. CASE UNCHANGED vars
    BY <2>2 DEF vars, AssigneesAreMembers
  <2> QED
    BY <2>1, <2>2
<1> QED
  BY <1>1, <1>2, TypeCorrect, PTL DEF Spec

-----------------------------------------------------------------------------
(* Termination of the recursions: the dependency rows of the table are     *)
(* among those that may be made, so a cycle of rows is a cycle of DepEdges. *)

DependenciesAllowed == \A x \in Task : \A u \in db[x].deps : <<u, x>> \in DepEdges

LEMMA NoCycleNoLoop ==
  ASSUME NEW E, NEW R, R \subseteq Task, ~HasCycle(DepEdges, Task), E \subseteq DepEdges
  PROVE  ~HasCycle(E, R)
BY DEF HasCycle

\* The table a handler cascades or freezes from has the dependencies of db.
LEMMA AcyclicTable ==
  ASSUME NEW d \in Table, NEW t \in Task, ~HasCycle(DepEdges, Task),
         \A x \in Task : \A u \in d[x].deps : <<u, x>> \in DepEdges
  PROVE  ~CascadeRunsAway(d, t) /\ ~FreezeRunsAway(d, t)
<1>1. DependencyEdges(d) \subseteq DepEdges /\ CascadeEdges(d) \subseteq DepEdges
  BY DEF DependencyEdges, CascadeEdges
<1>2. \A E : Reach(E, t) \subseteq Task
  BY DEF Reach
<1>3. {x \in Reach(CascadeEdges(d), t) : ~WaitsForUpstream(d[x])} \subseteq Task
  BY <1>2
<1> QED
  BY <1>1, <1>2, <1>3, NoCycleNoLoop DEF CascadeRunsAway, FreezeRunsAway

LEMMA TaskReturns ==
  ASSUME TypeOK, DependenciesAllowed, ~HasCycle(DepEdges, Task), ~hung,
         NEW t \in Task, TaskOperation(t)
  PROVE  ~hung'
<1>1. db \in Table
  BY DEF TypeOK, Table
<1>2. ASSUME NEW d \in Table, \A x \in Task : d[x].deps = db[x].deps
      PROVE  ~CascadeRunsAway(d, t) /\ ~FreezeRunsAway(d, t)
  BY <1>2, AcyclicTable DEF DependenciesAllowed
<1>3. \A s \in Status : ~CascadeRunsAway(SetStatus(db, t, s), t)
                        /\ ~FreezeRunsAway(SetStatus(db, t, s), t)
  BY <1>1, <1>2, SetStatusOnlyStatus DEF OnlyStatus
<1>4. CASE Update(t)
  <2>1. PICK content \in BOOLEAN, r \in RolesOf[t], a \in User \cup {NoUser} :
          UpdateTask(t, content, r, a)
    BY <1>4 DEF Update
  <2> DEFINE row == UpdatedRow(db[t], r, a)
             updated == [db EXCEPT ![t] = UpdatedRow(@, r, a)]
  <2>2. row \in Row /\ row.deps = db[t].deps
    BY UpdatedRowType, RolesAssumption DEF TypeOK
  <2>3. updated = [x \in Task |-> IF x = t THEN row ELSE db[x]]
    BY DEF TypeOK
  <2>4. hung' = CascadeRunsAway(updated, t) \/ hung' = hung
    BY <2>1 DEF UpdateTask, CascadeFrom
  <2> HIDE DEF row, updated
  <2>5. updated \in Table /\ \A x \in Task : updated[x].deps = db[x].deps
    BY <1>1, <2>2, <2>3 DEF Table
  <2> QED
    BY <1>2, <2>4, <2>5
<1>5. CASE DeleteTask(t)
  BY <1>1, <1>2, <1>5 DEF DeleteTask
<1>6. CASE ReturnTask(t)
  <2> DEFINE returned == SetHolder(db, t, "claimable", NoUser)
  <2>1. hung' = CascadeRunsAway(returned, t)
    BY <1>6 DEF ReturnTask, CascadeFrom
  <2>2. "claimable" \in Status
    BY DEF Status
  <2>3. returned \in Table /\ \A x \in Task : returned[x].deps = db[x].deps
    BY <1>1, <2>2, HeldRow
  <2> HIDE DEF returned
  <2> QED
    BY <1>2, <2>1, <2>3
<1>7. CASE CancelTask(t)
  <2>1. "frozen" \in Status
    BY DEF Status
  <2> QED
    BY <1>3, <1>7, <2>1 DEF CancelTask
<1>8. CASE ResetTask(t)
  <2>1. "pending_publish" \in Status /\ "in_progress" \in Status
    BY DEF Status
  <2> QED
    BY <1>3, <1>8, <2>1 DEF ResetTask, CascadeFrom
<1>9. CASE UNCHANGED hung
  BY <1>9
<1> QED
  BY <1>4, <1>5, <1>6, <1>7, <1>8, <1>9 DEF TaskOperation, CreateTask, UpdateTaskDeadline,
     ClaimTask, AssignTask, StartTask, SubmitTask, ApproveTask, RejectTask

\* Every handler returns when the dependencies that can be made have no cycle:
\* cascadeResetDownstream and freezeDownstreamTasks keep no visited set, and
\* createDependency refuses no cycle but a task's dependency on itself, so this
\* is what whoever links tasks must see to.
THEOREM AcyclicHandlersReturn ==
  ASSUME ~HasCycle(DepEdges, Task)
  PROVE  Spec => []HandlersReturn
<1>1. Init => DependenciesAllowed /\ HandlersReturn
  BY DEF Init, NoRow, DependenciesAllowed, HandlersReturn
<1>2. TypeOK /\ DependenciesAllowed /\ HandlersReturn /\ [Next]_vars
        => DependenciesAllowed' /\ HandlersReturn'
  <2> SUFFICES ASSUME TypeOK, DependenciesAllowed, HandlersReturn, [Next]_vars
               PROVE  DependenciesAllowed' /\ HandlersReturn'
    OBVIOUS
  <2>1. CASE Next
    <3>1. DependenciesAllowed'
      BY <2>1, NextStep DEF LegalStep, DependenciesAllowed
    <3>2. ASSUME NEW t \in Task, TaskOperation(t) PROVE ~hung'
      BY <3>2, TaskReturns DEF HandlersReturn
    <3>3. UNCHANGED hung => HandlersReturn'
      BY DEF HandlersReturn
    <3>4. CASE ArchiveProject \/ UnarchiveProject \/ SoftDeleteProject \/ RestoreProject
               \/ PermanentlyDeleteProject \/ MarkOverdueTasks
      BY <3>1, <3>3, <3>4 DEF ArchiveProject, UnarchiveProject, SoftDeleteProject,
         RestoreProject, PermanentlyDeleteProject, MarkOverdueTasks
    <3>5. ASSUME NEW u \in User, AddMember(u) \/ RemoveMember(u) PROVE HandlersReturn'
      BY <3>3, <3>5 DEF AddMember, RemoveMember
    <3>6. ASSUME NEW t \in Task, DeadlinePasses(t) PROVE HandlersReturn'
      BY <3>3, <3>6 DEF DeadlinePasses
    <3>7. ProjectOperation => HandlersReturn'
      BY <3>4, <3>5, <3>6 DEF ProjectOperation
    <3>8. ASSUME NEW t \in Task, NEW d \in Task, DependencyOperation(t, d)
          PROVE  HandlersReturn'
      BY <3>3, <3>8 DEF DependencyOperation, CreateDependency, RemoveDependency
    <3>9. ASSUME NEW d \in todo, ReconcileDependent(d) PROVE HandlersReturn'
      BY <3>3, <3>9 DEF ReconcileDependent
    <3>10. ASSUME NEW t \in Task, TaskOperation(t) PROVE HandlersReturn'
      BY <3>2, <3>10 DEF HandlersReturn
    <3> QED
      BY <2>1, <3>1, <3>7, <3>8, <3>9, <3>10 DEF Next
  <2>2. CASE UNCHANGED vars
    BY <2>2 DEF vars, DependenciesAllowed, HandlersReturn
  <2> QED
    BY <2>1, <2>2
<1> QED
  BY <1>1, <1>2, TypeCorrect, PTL DEF Spec
-----------------------------------------------------------------------------
(* The archive: what it saves of a row is there only while it holds the    *)
(* project, and gives the row back.                                        *)

LEMMA TaskSavesNothing ==
  ASSUME TypeOK, NEW t \in Task, TaskOperation(t)
  PROVE  NothingSaved(db, db') /\ project' = project
<1>0. db \in Table /\ "claimable" \in Status /\ "in_progress" \in Status /\ "assigned" \in Status
  BY DEF TypeOK, Table, Status
<1>1. ASSUME NEW s \in Status, NEW a \in User \cup {NoUser}, NEW e, e = SetHolder(db, t, s, a)
      PROVE  NothingSaved(db, e) /\ e \in Table
  BY <1>0, <1>1, HeldRow DEF NothingSaved
<1>2. ASSUME NEW r \in RolesOf[t], NEW a \in User \cup {NoUser}, CreateTask(t, r, a)
      PROVE  NothingSaved(db, db') /\ project' = project
  <2>1. \A x \in Task \ {t} : db'[x] = db[x]
    BY <1>2, CreateColumns
  <2>2. db'[t].saved = "none"
    BY <1>2, CreateColumns
  <2> QED
    BY <1>2, <2>1, <2>2 DEF CreateTask, NothingSaved
<1>3. CASE Update(t)
  BY <1>3, UpdateColumns DEF Update, UpdateTask, NothingSaved
<1>4. CASE DeleteTask(t)
  BY <1>4, DeleteColumns DEF DeleteTask
<1>5. CASE UpdateTaskDeadline(t)
  BY <1>5 DEF UpdateTaskDeadline, NothingSaved
<1>6. ASSUME NEW u \in User, ClaimTask(t, u) PROVE NothingSaved(db, db') /\ project' = project
  BY <1>0, <1>1, <1>6 DEF ClaimTask
<1>7. ASSUME NEW u \in User, StartTask(t, u) PROVE NothingSaved(db, db') /\ project' = project
  <2>1. PICK a \in User \cup {NoUser} : db' = SetHolder(db, t, "in_progress", a)
    BY <1>7 DEF StartTask, TypeOK, Row
  <2> QED
    BY <1>0, <1>1, <1>7, <2>1 DEF StartTask
<1>8. ASSUME NEW a \in User, NEW reason \in BOOLEAN, AssignTask(t, a, reason)
      PROVE  NothingSaved(db, db') /\ project' = project
  <2>1. PICK s \in Status : db' = SetHolder(db, t, s, a)
    BY <1>8 DEF AssignTask, Status
  <2> QED
    BY <1>1, <1>8, <2>1 DEF AssignTask
<1>9. CASE ReturnTask(t)
  <2>1. PICK returned : returned = SetHolder(db, t, "claimable", NoUser)
    OBVIOUS
  <2>2. NothingSaved(db, returned) /\ returned \in Table
    BY <1>0, <1>1, <2>1
  <2>3. CascadeFrom(returned, t) /\ project' = project
    BY <1>9, <2>1 DEF ReturnTask
  <2>4. OnlyStatus(returned, db')
    BY <2>2, <2>3, CascadeFromColumns
  <2> QED
    BY <2>2, <2>3, <2>4 DEF OnlyStatus, NothingSaved
<1>10. CASE SubmitTask(t) \/ CancelTask(t) \/ ApproveTask(t) \/ RejectTask(t) \/ ResetTask(t)
  BY <1>10, TransitionColumns DEF SubmitTask, CancelTask, ApproveTask, RejectTask, ResetTask
<1> QED
  BY <1>2, <1>3, <1>4, <1>5, <1>6, <1>7, <1>8, <1>9, <1>10 DEF TaskOperation

LEMMA DependencySavesNothing ==
  ASSUME TypeOK, NEW t \in Task, NEW d \in Task, DependencyOperation(t, d)
  PROVE  NothingSaved(db, db') /\ project' = project
<1>1. PICK S \in SUBSET Task : db' = Reconcile([db EXCEPT ![t].deps = S], t)
  <2>1. db[t].deps \cup {d} \in SUBSET Task /\ db[t].deps \ {d} \in SUBSET Task
    BY DEF TypeOK, Row
  <2> QED
    BY <2>1 DEF DependencyOperation, CreateDependency, RemoveDependency
<1>2. PICK linked : linked = [db EXCEPT ![t].deps = S]
  OBVIOUS
<1>3. ASSUME NEW row \in Row
      PROVE  [row EXCEPT !.deps = S] \in Row /\ [row EXCEPT !.deps = S].saved = row.saved
  BY DEF Row
<1>4. linked \in Table /\ NothingSaved(db, linked)
  BY <1>2, <1>3 DEF TypeOK, Table, NothingSaved
<1>5. OnlyStatus(linked, db')
  BY <1>1, <1>2, <1>4, ReconcileOnlyStatus
<1>6. project' = project
  BY DEF DependencyOperation, CreateDependency, RemoveDependency
<1> QED
  BY <1>4, <1>5, <1>6 DEF OnlyStatus, NothingSaved

Shelved == {"completed", "frozen", "absent"}

ArchiveInv ==
  /\ Active => \A x \in Task : db[x].saved = "none"
  /\ ~Active => todo = {}
  /\ project \in {"archived", "deleted"} =>
       \A x \in Task : /\ db[x].status \in Shelved
                       /\ UnarchivedRow(db[x]).status = atArchive[x]
                       /\ UnarchivedRow(db[x]).saved = "none"

\* Taking a row out of the archive undoes putting it there.
LEMMA ArchivedRowReturns ==
  ASSUME NEW row \in Row, row.saved = "none"
  PROVE  /\ ArchivedRow(row).status \in Shelved
         /\ UnarchivedRow(ArchivedRow(row)) = row
<1>1. CASE row.status \in ArchivedStatuses
  <2>1. PICK kept : kept = [row EXCEPT !.status = "frozen", !.saved = row.status]
    OBVIOUS
  <2>2. ArchivedRow(row) = kept
    BY <1>1, <2>1 DEF ArchivedRow
  <2>3. kept.status = "frozen" /\ kept.saved = row.status
    BY <2>1 DEF Row
  <2>4. UnarchivedRow(kept) = [kept EXCEPT !.status = row.status, !.saved = "none"]
    BY <1>1, <2>3 DEF UnarchivedRow
  <2>5. [kept EXCEPT !.status = row.status, !.saved = "none"] = row
    BY <2>1 DEF Row
  <2> QED
    BY <2>2, <2>3, <2>4, <2>5 DEF Shelved
<1>2. CASE row.status \notin ArchivedStatuses
  BY <1>2 DEF ArchivedRow, UnarchivedRow, ArchivedStatuses, Status, Row, Shelved
<1> QED
  BY <1>1, <1>2

\* The steps the project stays active in.
LEMMA StaysActive ==
  ASSUME Active, project' = project, ArchiveInv, NothingSaved(db, db')
  PROVE  ArchiveInv'
<1>1. project' = "active"
  BY DEF Active
<1>2. \A x \in Task : db'[x].saved = "none"
  BY DEF ArchiveInv, NothingSaved
<1> QED
  BY <1>1, <1>2 DEF ArchiveInv, Active

\* The steps nothing of the archive's moves in.
LEMMA StaysShelved ==
  ASSUME UNCHANGED <<db, project, todo, atArchive>>, ArchiveInv
  PROVE  ArchiveInv'
BY DEF ArchiveInv, Active

LEMMA ArchiveInvStep ==
  ASSUME TypeOK, ArchiveInv, "archivedDependency" \notin Ops, Next
  PROVE  ArchiveInv'
<1>0. db \in Table
  BY DEF TypeOK, Table
<1>1. ASSUME NEW d \in todo, ReconcileDependent(d) PROVE ArchiveInv'
  <2>1. OnlyStatus(db, db')
    BY <1>0, <1>1, ReconcileOnlyStatus DEF ReconcileDependent, TypeOK
  <2>2. Active /\ project' = project
    BY <1>1 DEF ReconcileDependent, ArchiveInv
  <2> QED
    BY <2>1, <2>2, StaysActive DEF OnlyStatus, NothingSaved
<1>2. ASSUME NEW t \in Task, TaskOperation(t) PROVE ArchiveInv'
  <2>1. Active
    BY <1>2 DEF TaskOperation, CreateTask, Update, UpdateTask, DeleteTask, UpdateTaskDeadline,
       ClaimTask, AssignTask, ReturnTask, StartTask, SubmitTask, CancelTask, ApproveTask,
       RejectTask, ResetTask
  <2> QED
    BY <1>2, <2>1, TaskSavesNothing, StaysActive
<1>3. ASSUME NEW t \in Task, NEW d \in Task, DependencyOperation(t, d) PROVE ArchiveInv'
  <2>1. Active
    BY <1>3 DEF DependencyOperation, Calls
  <2> QED
    BY <1>3, <2>1, DependencySavesNothing, StaysActive
<1>4. CASE ArchiveProject
  <2>1. \A x \in Task : db[x] \in Row /\ db[x].saved = "none"
    BY <1>4 DEF ArchiveProject, ArchiveInv, Active, TypeOK
  <2>2. \A x \in Task : db'[x] = ArchivedRow(db[x]) /\ atArchive'[x] = db[x].status
    BY <1>4 DEF ArchiveProject
  <2>3. \A x \in Task : /\ db'[x].status \in Shelved
                        /\ UnarchivedRow(db'[x]) = db[x]
    BY <2>1, <2>2, ArchivedRowReturns
  <2>4. project' = "archived" /\ todo' = todo
    BY <1>4 DEF ArchiveProject
  <2>5. CASE todo = {}
    BY <2>1, <2>2, <2>3, <2>4, <2>5 DEF ArchiveInv, Active
  <2> QED
    BY <2>5, <1>1 DEF Next
<1>5. CASE UnarchiveProject
  <2>1. project = "archived" /\ project' = "active"
    BY <1>5 DEF UnarchiveProject
  <2>2. \A x \in Task : db'[x] = UnarchivedRow(db[x])
    BY <1>5 DEF UnarchiveProject
  <2>3. \A x \in Task : db'[x].saved = "none"
    BY <2>1, <2>2 DEF ArchiveInv
  <2> QED
    BY <2>1, <2>3 DEF ArchiveInv, Active
<1>6. CASE SoftDeleteProject \/ RestoreProject
  BY <1>6 DEF SoftDeleteProject, RestoreProject, ArchiveInv, Active
<1>7. CASE PermanentlyDeleteProject
  BY <1>7 DEF PermanentlyDeleteProject, ArchiveInv, Active
<1>8. ASSUME NEW u \in User, AddMember(u) PROVE ArchiveInv'
  BY <1>8, StaysShelved DEF AddMember
<1>9. ASSUME NEW u \in User, RemoveMember(u) PROVE ArchiveInv'
  <2>1. ASSUME NEW row \in Row
        PROVE  [row EXCEPT !.status = "claimable", !.assignee = NoUser].saved = row.saved
    BY DEF Row
  <2>2. NothingSaved(db, db')
    BY <1>0, <1>9, <2>1 DEF RemoveMember, Table, NothingSaved
  <2> QED
    BY <1>9, <2>2, StaysActive DEF RemoveMember
<1>10. CASE MarkOverdueTasks
  <2>1. CASE Active
    <3>1. "overdue" \in Status
      BY DEF Status
    <3>2. NothingSaved(db, db')
      BY <1>0, <1>10, <3>1, RowStatus DEF MarkOverdueTasks, Table, NothingSaved
    <3> QED
      BY <1>10, <2>1, <3>2, StaysActive DEF MarkOverdueTasks
  <2>2. CASE ~Active
    <3>1. project = "archived"
      BY <1>10, <2>2 DEF MarkOverdueTasks, Active
    <3>2. \A x \in Task : db'[x] = db[x]
      BY <1>10, <3>1 DEF MarkOverdueTasks, ArchiveInv, Shelved, Status, OverdueExempt
    <3>3. project' = project /\ todo' = todo /\ atArchive' = atArchive
      BY <1>10 DEF MarkOverdueTasks
    <3> QED
      BY <3>1, <3>2, <3>3 DEF ArchiveInv, Active
  <2> QED
    BY <2>1, <2>2
<1>11. ASSUME NEW t \in Task, DeadlinePasses(t) PROVE ArchiveInv'
  BY <1>11, StaysShelved DEF DeadlinePasses
<1>12. ProjectOperation => ArchiveInv'
  BY <1>4, <1>5, <1>6, <1>7, <1>8, <1>9, <1>10, <1>11 DEF ProjectOperation
<1> QED
  BY <1>1, <1>2, <1>3, <1>12 DEF Next

\* No handler but unarchiveProject takes a project out of the archive.
LEMMA OnlyUnarchiving ==
  ASSUME TypeOK, Next, project = "archived", project' = "active"
  PROVE  UnarchiveProject
<1>1. ASSUME NEW d \in todo, ReconcileDependent(d) PROVE FALSE
  BY <1>1 DEF ReconcileDependent
<1>2. ASSUME NEW t \in Task, TaskOperation(t) PROVE FALSE
  BY <1>2, TaskSavesNothing
<1>3. ASSUME NEW t \in Task, NEW d \in Task, DependencyOperation(t, d) PROVE FALSE
  BY <1>3, DependencySavesNothing
<1>4. ProjectOperation => UnarchiveProject
  BY DEF ProjectOperation, ArchiveProject, SoftDeleteProject, RestoreProject,
     PermanentlyDeleteProject, AddMember, RemoveMember, MarkOverdueTasks, DeadlinePasses
<1> QED
  BY <1>1, <1>2, <1>3, <1>4 DEF Next

\* The round trip, recycle bin and overdue job included: a task comes out of
\* the archive with the status it went in with.  Only a dependency made or
\* removed while the project is archived (the handlers do not ask) breaks it.
THEOREM ArchiveGivesBack ==
  ASSUME "archivedDependency" \notin Ops
  PROVE  Spec => ArchiveRoundTrip
<1> DEFINE GivesBack == project = "archived" /\ project' = "active" =>
                          \A t \in Task : db'[t].status = atArchive[t]
<1>1. Init => ArchiveInv
  BY DEF Init, NoRow, ArchiveInv, Active
<1>2. TypeOK /\ ArchiveInv /\ [Next]_vars => ArchiveInv'
  <2>1. ASSUME UNCHANGED vars, ArchiveInv PROVE ArchiveInv'
    BY <2>1, StaysShelved DEF vars
  <2> QED
    BY <2>1, ArchiveInvStep
<1>3. TypeOK /\ ArchiveInv /\ [Next]_vars => [GivesBack]_vars
  <2> SUFFICES ASSUME TypeOK, ArchiveInv, Next, project = "archived", project' = "active"
               PROVE  \A t \in Task : db'[t].status = atArchive[t]
    OBVIOUS
  <2>1. UnarchiveProject
    BY OnlyUnarchiving
  <2> QED
    BY <2>1 DEF UnarchiveProject, ArchiveInv
<1> QED
  BY <1>1, <1>2, <1>3, TypeCorrect, PTL DEF Spec, ArchiveRoundTrip

-----------------------------------------------------------------------------
(* The two recursions over dependents: what they reach is closed under the *)
(* edges they follow, and everything they reach has an edge from there.    *)

LEMMA ReachClosed ==
  ASSUME NEW E \in SUBSET (Task \X Task), NEW t, NEW e \in E,
         e[1] = t \/ e[1] \in Reach(E, t)
  PROVE  e[2] \in Reach(E, t)
<1>1. e[2] \in Task
  OBVIOUS
<1>2. ASSUME NEW S \in SUBSET Task, \A f \in E : (f[1] = t \/ f[1] \in S) => f[2] \in S
      PROVE  e[2] \in S
  <2>1. e[1] \in Reach(E, t) => e[1] \in S
    BY <1>2 DEF Reach
  <2> QED
    BY <1>2, <2>1
<1> QED
  BY <1>1, <1>2 DEF Reach

LEMMA ReachStep ==
  ASSUME NEW E \in SUBSET (Task \X Task), NEW t, NEW x \in Reach(E, t)
  PROVE  \E e \in E : e[2] = x /\ (e[1] = t \/ e[1] \in Reach(E, t))
<1> DEFINE S == {y \in Task : \E e \in E : e[2] = y /\ (e[1] = t \/ e[1] \in Reach(E, t))}
<1>1. S \subseteq Reach(E, t)
  BY ReachClosed
<1>2. ASSUME NEW f \in E, f[1] = t \/ f[1] \in S PROVE f[2] \in S
  <2>1. f[1] = t \/ f[1] \in Reach(E, t)
    BY <1>1, <1>2
  <2>2. f[2] \in Task
    OBVIOUS
  <2> QED
    BY <2>1, <2>2
<1>3. S \in SUBSET Task
  OBVIOUS
<1> HIDE DEF S
<1>4. x \in S
  BY <1>2, <1>3 DEF Reach
<1> QED
  BY <1>4 DEF S

LEMMA EdgesAre ==
  ASSUME NEW d \in Table, NEW u \in Task, NEW x \in Task
  PROVE  /\ DependencyEdges(d) \in SUBSET (Task \X Task)
         /\ CascadeEdges(d) \in SUBSET (Task \X Task)
         /\ <<u, x>> \in DependencyEdges(d) <=> u \in d[x].deps
         /\ <<u, x>> \in CascadeEdges(d) <=>
              u \in d[x].deps /\ d[x].status \in DownstreamResetStatuses
BY DEF DependencyEdges, CascadeEdges

\* What a cascade from t leaves of a row ...
LEMMA CascadedRows ==
  ASSUME NEW d \in Table, NEW t \in Task, NEW x \in Task
  PROVE  /\ x \in Reach(CascadeEdges(d), t) =>
              CascadeReset(d, t)[x].status \in {"pending_publish", "in_progress"}
         /\ x \notin Reach(CascadeEdges(d), t) => CascadeReset(d, t)[x] = d[x]
<1>1. d[x] \in Row
  BY DEF Table
<1>2. /\ CascadedRow(d[x]).status \in {"pending_publish", "in_progress"}
  BY <1>1 DEF CascadedRow, Row
<1> QED
  BY <1>2 DEF CascadeReset

\* ... and of those it comes to from the ones it was called for or reset.
LEMMA CascadeResetsBelow ==
  ASSUME NEW d \in Table, NEW t \in Task, NEW u \in Task, NEW x \in Task,
         u = t \/ u \in Reach(CascadeEdges(d), t), u \in d[x].deps
  PROVE  CascadeReset(d, t)[x].status \notin {"submitted", "review_approved", "completed"}
<1>1. CASE d[x].status \in DownstreamResetStatuses
  <2>1. <<u, x>> \in CascadeEdges(d)
    BY <1>1, EdgesAre
  <2>2. x \in Reach(CascadeEdges(d), t)
    BY <2>1, ReachClosed, EdgesAre
  <2> QED
    BY <2>2, CascadedRows
<1>2. CASE d[x].status \notin DownstreamResetStatuses
  <2>1. d[x].status \in {"pending_publish", "absent"}
    BY <1>2 DEF Table, Row, DownstreamResetStatuses
  <2> QED
    BY <2>1, CascadedRows
<1> QED
  BY <1>1, <1>2

\* Rewriting one row's status, and what unlocking and freezing do to the others.
LEMMA StatusWritten ==
  ASSUME NEW d \in Table, NEW t \in Task, NEW s \in Status
  PROVE  /\ SetStatus(d, t, s) \in Table
         /\ SetStatus(d, t, s)[t].status = s
         /\ \A x \in Task \ {t} : SetStatus(d, t, s)[x] = d[x]
         /\ \A x \in Task : SetStatus(d, t, s)[x].deps = d[x].deps
<1>1. SetStatus(d, t, s) = [x \in Task |-> IF x = t THEN [d[x] EXCEPT !.status = s] ELSE d[x]]
  BY DEF SetStatus, Table
<1>2. OnlyStatus(d, SetStatus(d, t, s))
  BY SetStatusOnlyStatus
<1>3. \A x \in Task \ {t} : SetStatus(d, t, s)[x] = d[x]
  BY <1>1
<1>4. d[t] \in Row
  BY DEF Table
<1>5. SetStatus(d, t, s)[t] = [d[t] EXCEPT !.status = s]
  BY <1>1
<1>6. SetStatus(d, t, s)[t].status = s
  BY <1>4, <1>5, RowStatus
<1> QED
  BY <1>2, <1>3, <1>6 DEF OnlyStatus

LEMMA UnlockedRows ==
  ASSUME NEW d \in Table, NEW t \in Task, NEW x \in Task
  PROVE  \/ UnlockDownstream(d, t)[x] = d[x]
         \/ /\ x \in Downstream(d, t) /\ CanUnlock(d, x)
            /\ UnlockDownstream(d, t)[x].status \in {"claimable", "assigned"}
<1>1. d[x] \in Row /\ UnlockedStatus(d[x]) \in {"claimable", "assigned"}
  BY DEF Table, UnlockedStatus
<1>2. UnlockedStatus(d[x]) \in Status
  BY <1>1 DEF Status
<1> QED
  BY <1>1, <1>2, RowStatus DEF UnlockDownstream

LEMMA FrozenRows ==
  ASSUME NEW d \in Table, NEW t \in Task, NEW x \in Task
  PROVE  \/ FreezeDownstream(d, t)[x] = d[x]
         \/ /\ x \in Reach(DependencyEdges(d), t) /\ d[x].status \in Unstarted
            /\ FreezeDownstream(d, t)[x].status = "frozen"
<1>1. d[x] \in Row /\ "frozen" \in Status
  BY DEF Table, Status
<1> QED
  BY <1>1, RowStatus DEF FreezeDownstream, Unstarted

LEMMA ReconciledRows ==
  ASSUME NEW d \in Table, NEW t \in Task, NEW e, e = Reconcile(d, t)
  PROVE  \/ e = d
         \/ /\ e \in Table /\ \A x \in Task \ {t} : e[x] = d[x]
            /\ \/ CanUnlock(d, t) /\ e[t].status \in {"claimable", "assigned"}
               \/ ShouldDemote(d, t) /\ e[t].status = "pending_publish"
<1>1. UnlockedStatus(d[t]) \in {"claimable", "assigned"}
  BY DEF UnlockedStatus
<1>2. UnlockedStatus(d[t]) \in Status /\ "pending_publish" \in Status
  BY <1>1 DEF Status
<1> QED
  BY <1>1, <1>2, StatusWritten DEF Reconcile

-----------------------------------------------------------------------------
(* What each handler makes of the table, in the words the theorems below   *)
(* are about: d and e differ in t's row only, whose status becomes s.      *)

Rewritten(d, e, t, s) ==
  /\ e \in Table
  /\ \A x \in Task \ {t} : e[x] = d[x]
  /\ e[t].status = s /\ e[t].role = d[t].role /\ e[t].deps = d[t].deps

WritesRow(t) ==
  /\ db[t].status \notin {"completed", "absent"}
  /\ \E s \in {"assigned", "in_progress", "pending_publish", "submitted", "review_rejected"} :
       Rewritten(db, db', t, s) /\ (s = "pending_publish" => ~Ready(db, t))

CompletesRow(t) ==
  /\ db[t].status \notin {"completed", "absent", "pending_publish"}
  /\ \E c \in Table : Rewritten(db, c, t, "completed") /\ db' = UnlockDownstream(c, t)

ResetsRow(t) ==
  /\ Exists(db, t)
  /\ \E c \in Table, s \in {"claimable", "in_progress", "pending_publish"} :
       /\ Rewritten(db, c, t, s)
       /\ s = "pending_publish" => ~Ready(db, t)
       /\ db' = CascadeReset(c, t)

CancelsRow(t) ==
  /\ db[t].status \notin {"completed", "absent", "frozen"}
  /\ \E c \in Table : Rewritten(db, c, t, "frozen") /\ db' = FreezeDownstream(c, t)

CreatesRow(t) ==
  /\ db[t].status = "absent"
  /\ db' \in Table
  /\ \A x \in Task \ {t} : db'[x] = db[x]
  /\ db'[t].deps = {} /\ db'[t].status \in Unstarted
  /\ Configured(db'[t].role) /\ db'[t].status = "pending_publish" => ~Ready(db', t)

EditsRow(t) ==
  \E c \in Table :
    /\ \A x \in Task : c[x].status = db[x].status /\ c[x].deps = db[x].deps
    /\ \/ db' = CascadeReset(c, t) /\ "updateContent" \in Ops
       \/ db' = c /\ (\A x \in Task : c[x].role = db[x].role)

DeletesRow(t) ==
  /\ db' \in Table
  /\ db'[t] = NoRow
  /\ \E c \in Table :
       /\ \/ c = db /\ Downstream(db, t) = {}
          \/ c = CascadeReset(db, t)
       /\ \A x \in Task \ {t} : /\ db'[x].status = c[x].status
                                /\ db'[x].role = c[x].role
                                /\ db'[x].deps = c[x].deps \ {t}
  /\ todo' = Downstream(db, t) \ {t}

LEMMA HolderWritten ==
  ASSUME NEW d \in Table, NEW t \in Task, NEW s \in Status, NEW a \in User \cup {NoUser},
         NEW e, e = SetHolder(d, t, s, a)
  PROVE  Rewritten(d, e, t, s)
BY HeldRow DEF Rewritten

LEMMA StatusRewritten ==
  ASSUME NEW d \in Table, NEW t \in Task, NEW s \in Status, NEW e, e = SetStatus(d, t, s)
  PROVE  Rewritten(d, e, t, s)
BY StatusWritten, SetStatusOnlyStatus DEF Rewritten, OnlyStatus

LEMMA CreatesRows ==
  ASSUME TypeOK, NEW t \in Task, NEW r \in RolesOf[t], NEW a \in User \cup {NoUser},
         CreateTask(t, r, a)
  PROVE  CreatesRow(t)
<1>1. PICK row : row = [NoRow EXCEPT !.status = "pending_publish", !.role = r, !.assignee = a]
  OBVIOUS
<1>2. PICK new : new = [db EXCEPT ![t] = row]
  OBVIOUS
<1>3. row \in Row /\ row.status = "pending_publish" /\ row.deps = {} /\ row.role = r
  BY <1>1, RolesAssumption DEF NoRow, Row, Status
<1>4. new \in Table /\ new[t] = row /\ \A x \in Task \ {t} : new[x] = db[x]
  BY <1>2, <1>3 DEF TypeOK, Table
<1>5. db' = IF Ready(new, t) /\ (a # NoUser \/ Configured(r))
            THEN SetStatus(new, t, UnlockedStatus(row)) ELSE new
  BY <1>1, <1>2 DEF CreateTask
<1>6. db[t].status = "absent"
  BY DEF CreateTask, Exists
<1>7. CASE Ready(new, t) /\ (a # NoUser \/ Configured(r))
  <2>1. UnlockedStatus(row) \in {"claimable", "assigned"}
    BY DEF UnlockedStatus
  <2>2. UnlockedStatus(row) \in Status
    BY <2>1 DEF Status
  <2>3. db' = SetStatus(new, t, UnlockedStatus(row))
    BY <1>5, <1>7
  <2>4. Rewritten(new, db', t, UnlockedStatus(row))
    BY <1>4, <2>2, <2>3, StatusRewritten
  <2> QED
    BY <1>3, <1>4, <1>6, <2>1, <2>4 DEF CreatesRow, Rewritten, Unstarted
<1>8. CASE ~(Ready(new, t) /\ (a # NoUser \/ Configured(r)))
  <2>1. db' = new
    BY <1>5, <1>8
  <2> QED
    BY <1>3, <1>4, <1>6, <1>8, <2>1 DEF CreatesRow, Unstarted
<1> QED
  BY <1>7, <1>8

LEMMA EditsRows ==
  ASSUME TypeOK, NEW t \in Task, Update(t)
  PROVE  EditsRow(t)
<1>1. PICK content \in BOOLEAN, r \in RolesOf[t], a \in User \cup {NoUser} :
        UpdateTask(t, content, r, a) /\ (content => "updateContent" \in Ops)
  BY DEF Update, Calls
<1>2. PICK row : row = UpdatedRow(db[t], r, a)
  OBVIOUS
<1>3. row \in Row /\ row.deps = db[t].deps /\ row.status = db[t].status
  BY <1>2, UpdatedRowType, RolesAssumption DEF TypeOK
<1>4. row.role = r
  BY <1>2 DEF UpdatedRow, TypeOK, Row
<1>5. PICK c : c = [db EXCEPT ![t] = row]
  OBVIOUS
<1>6. /\ c \in Table /\ c[t] = row /\ \A x \in Task \ {t} : c[x] = db[x]
  BY <1>3, <1>5 DEF TypeOK, Table
<1>7. content \/ r = db[t].role
  BY <1>1 DEF UpdateTask
<1>8. IF content THEN db' = CascadeReset(c, t) ELSE db' = c
  BY <1>1, <1>2, <1>5 DEF UpdateTask, CascadeFrom
<1>9. \A x \in Task : c[x].status = db[x].status /\ c[x].deps = db[x].deps
  BY <1>3, <1>6
<1>10. ~content => \A x \in Task : c[x].role = db[x].role
  BY <1>4, <1>6, <1>7
<1> QED
  BY <1>1, <1>6, <1>8, <1>9, <1>10 DEF EditsRow

LEMMA DeletesRows ==
  ASSUME TypeOK, NEW t \in Task, DeleteTask(t)
  PROVE  DeletesRow(t)
<1>1. PICK c : c = IF Downstream(db, t) # {} THEN CascadeReset(db, t) ELSE db
  OBVIOUS
<1>2. c \in Table
  BY <1>1, CascadeOnlyStatus DEF OnlyStatus, TypeOK, Table
<1>3. db' = [x \in Task |-> IF x = t THEN NoRow ELSE [c[x] EXCEPT !.deps = @ \ {t}]]
  BY <1>1 DEF DeleteTask
<1>4. todo' = Downstream(db, t) \ {t}
  BY DEF DeleteTask
<1>5. ASSUME NEW row \in Row
      PROVE  /\ [row EXCEPT !.deps = @ \ {t}].status = row.status
             /\ [row EXCEPT !.deps = @ \ {t}].role = row.role
             /\ [row EXCEPT !.deps = @ \ {t}].deps = row.deps \ {t}
  BY DEF Row
<1>6. db' \in Table /\ db'[t] = NoRow
  BY <1>3, DeleteColumns
<1>7. \A x \in Task \ {t} : /\ db'[x].status = c[x].status
                            /\ db'[x].role = c[x].role
                            /\ db'[x].deps = c[x].deps \ {t}
  BY <1>2, <1>3, <1>5 DEF Table
<1>8. (c = db /\ Downstream(db, t) = {}) \/ c = CascadeReset(db, t)
  BY <1>1
<1> QED
  BY <1>2, <1>4, <1>6, <1>7, <1>8 DEF DeletesRow

LEMMA TaskMakes ==
  ASSUME TypeOK, NEW t \in Task, TaskOperation(t)
  PROVE  \/ WritesRow(t) \/ CompletesRow(t) \/ ResetsRow(t) \/ CancelsRow(t)
         \/ CreatesRow(t) \/ EditsRow(t) \/ DeletesRow(t) \/ db' = db
<1>0. db \in Table
  BY DEF TypeOK, Table
<1>1. /\ "assigned" \in Status /\ "in_progress" \in Status /\ "pending_publish" \in Status
      /\ "submitted" \in Status /\ "review_rejected" \in Status /\ "claimable" \in Status
      /\ "completed" \in Status /\ "frozen" \in Status
  BY DEF Status
<1>2. PredecessorMissing(db, t) => ~Ready(db, t)
  BY DEF Ready
<1>3. ASSUME NEW u \in User, ClaimTask(t, u) PROVE WritesRow(t)
  BY <1>0, <1>1, <1>3, HolderWritten DEF ClaimTask, WritesRow
<1>4. ASSUME NEW a \in User, NEW reason \in BOOLEAN, AssignTask(t, a, reason)
      PROVE  WritesRow(t)
  <2>1. PICK s \in {"assigned", "pending_publish"} :
          db' = SetHolder(db, t, s, a) /\ (s = "pending_publish" => ~Ready(db, t))
    BY <1>2, <1>4 DEF AssignTask
  <2>2. db[t].status \in {"pending_publish", "claimable", "assigned"}
    BY <1>4 DEF AssignTask
  <2>3. Rewritten(db, db', t, s)
    BY <1>0, <1>1, <2>1, HolderWritten
  <2> QED
    BY <2>1, <2>2, <2>3 DEF WritesRow
<1>5. ASSUME NEW u \in User, StartTask(t, u) PROVE WritesRow(t)
  <2>1. PICK a \in User \cup {NoUser} : db' = SetHolder(db, t, "in_progress", a)
    BY <1>5 DEF StartTask, TypeOK, Row
  <2>2. Rewritten(db, db', t, "in_progress")
    BY <1>0, <1>1, <2>1, HolderWritten
  <2> QED
    BY <1>5, <2>2 DEF StartTask, WritesRow
<1>6. CASE ReturnTask(t)
  <2>1. PICK c : c = SetHolder(db, t, "claimable", NoUser)
    OBVIOUS
  <2>2. Rewritten(db, c, t, "claimable")
    BY <1>0, <1>1, <2>1, HolderWritten
  <2>3. db' = CascadeReset(c, t) /\ Exists(db, t)
    BY <1>6, <2>1 DEF ReturnTask, CascadeFrom, ReturnableStatuses, Exists
  <2> QED
    BY <2>2, <2>3 DEF ResetsRow, Rewritten
<1>7. CASE ResetTask(t)
  <2>1. PICK s \in {"pending_publish", "in_progress"} :
          /\ CascadeFrom(SetStatus(db, t, s), t)
          /\ s = "pending_publish" => ~Ready(db, t)
    BY <1>2, <1>7 DEF ResetTask
  <2>2. PICK c : c = SetStatus(db, t, s)
    OBVIOUS
  <2>3. Rewritten(db, c, t, s)
    BY <1>0, <1>1, <2>2, StatusRewritten
  <2>4. db' = CascadeReset(c, t) /\ Exists(db, t)
    BY <1>7, <2>1, <2>2 DEF ResetTask, CascadeFrom, ManualResetStatuses, Status, Exists
  <2> QED
    BY <2>1, <2>3, <2>4 DEF ResetsRow, Rewritten
<1>8. CASE SubmitTask(t)
  <2>1. CASE db' = SetStatus(db, t, "submitted")
    <3>1. Rewritten(db, db', t, "submitted")
      BY <1>0, <1>1, <2>1, StatusRewritten
    <3> QED
      BY <1>8, <3>1 DEF SubmitTask, WritesRow
  <2>2. CASE db' = UnlockDownstream(SetStatus(db, t, "completed"), t)
    <3>1. Rewritten(db, SetStatus(db, t, "completed"), t, "completed")
      BY <1>0, <1>1, StatusRewritten
    <3> QED
      BY <1>8, <2>2, <3>1 DEF SubmitTask, CompletesRow, Rewritten
  <2> QED
    BY <1>8, <2>1, <2>2 DEF SubmitTask
<1>9. CASE ApproveTask(t)
  <2>1. Rewritten(db, SetStatus(db, t, "completed"), t, "completed")
    BY <1>0, <1>1, StatusRewritten
  <2> QED
    BY <1>9, <2>1 DEF ApproveTask, CompletesRow, Rewritten
<1>10. CASE RejectTask(t)
  <2>1. Rewritten(db, db', t, "review_rejected")
    BY <1>0, <1>1, <1>10, StatusRewritten DEF RejectTask
  <2> QED
    BY <1>10, <2>1 DEF RejectTask, WritesRow
<1>11. CASE CancelTask(t)
  <2>1. Rewritten(db, SetStatus(db, t, "frozen"), t, "frozen")
    BY <1>0, <1>1, StatusRewritten
  <2> QED
    BY <1>11, <2>1 DEF CancelTask, CancelsRow, Rewritten, Exists
<1>12. CASE UpdateTaskDeadline(t)
  BY <1>12 DEF UpdateTaskDeadline
<1> QED
  BY <1>3, <1>4, <1>5, <1>6, <1>7, <1>8, <1>9, <1>10, <1>11, <1>12,
     CreatesRows, EditsRows, DeletesRows DEF TaskOperation

Finished == {"submitted", "review_approved", "completed"}

\* What StaleWorkIsReset says of one step.
ResetsStaleWork ==
  \A t, d \in Task :
    /\ db[t].status = "completed" /\ db'[t].status \in {"in_progress", "absent"}
    /\ t \in db[d].deps
    => db'[d].status \notin Finished

\* A cascade from t over a table c in which nothing but t has left completed.
LEMMA CascadeLeavesNothingStale ==
  ASSUME TypeOK, NEW c \in Table, NEW t \in Task,
         \A x \in Task : c[x].deps = db[x].deps,
         \A x \in Task \ {t} : db[x].status = "completed" => c[x].status = "completed",
         db' = CascadeReset(c, t)
  PROVE  ResetsStaleWork
<1> SUFFICES ASSUME NEW u \in Task, NEW x \in Task, db[u].status = "completed",
                    db'[u].status \in {"in_progress", "absent"}, u \in db[x].deps
             PROVE  db'[x].status \notin Finished
  BY DEF ResetsStaleWork
<1>1. u = t \/ u \in Reach(CascadeEdges(c), t)
  BY CascadedRows
<1> QED
  BY <1>1, CascadeResetsBelow DEF Finished

\* A step that takes no task from completed to in_progress or absent.
LEMMA NothingWithdrawn ==
  ASSUME \A x \in Task : db[x].status = "completed" =>
                           db'[x].status \notin {"in_progress", "absent"}
  PROVE  ResetsStaleWork
BY DEF ResetsStaleWork

LEMMA TaskResetsStale ==
  ASSUME TypeOK, NEW t \in Task, TaskOperation(t)
  PROVE  ResetsStaleWork
<1>0. db \in Table
  BY DEF TypeOK, Table
<1>1. CASE WritesRow(t)
  BY <1>1, NothingWithdrawn DEF WritesRow, Rewritten
<1>2. CASE CompletesRow(t)
  <2>1. PICK c \in Table : Rewritten(db, c, t, "completed") /\ db' = UnlockDownstream(c, t)
    BY <1>2 DEF CompletesRow
  <2>2. \A x \in Task : db[x].status = "completed" => c[x].status = "completed"
    BY <2>1 DEF Rewritten
  <2>3. \A x \in Task : c[x].status = "completed" => db'[x] = c[x]
    BY <2>1, UnlockedRows DEF CanUnlock
  <2> QED
    BY <2>2, <2>3, NothingWithdrawn
<1>3. CASE ResetsRow(t)
  <2>1. PICK c \in Table, s \in {"claimable", "in_progress", "pending_publish"} :
          Rewritten(db, c, t, s) /\ db' = CascadeReset(c, t)
    BY <1>3 DEF ResetsRow
  <2> QED
    BY <2>1, CascadeLeavesNothingStale DEF Rewritten
<1>4. CASE CancelsRow(t)
  <2>1. PICK c \in Table : Rewritten(db, c, t, "frozen") /\ db' = FreezeDownstream(c, t)
    BY <1>4 DEF CancelsRow
  <2>2. db[t].status # "completed"
    BY <1>4 DEF CancelsRow
  <2>3. \A x \in Task : db[x].status = "completed" => c[x].status = "completed"
    BY <2>1, <2>2 DEF Rewritten
  <2>4. \A x \in Task : c[x].status = "completed" => db'[x] = c[x]
    BY <2>1, FrozenRows DEF Unstarted
  <2> QED
    BY <2>3, <2>4, NothingWithdrawn
<1>5. CASE CreatesRow(t)
  BY <1>5, NothingWithdrawn DEF CreatesRow
<1>6. CASE EditsRow(t)
  <2>1. PICK c \in Table : /\ \A x \in Task : c[x].status = db[x].status /\ c[x].deps = db[x].deps
                           /\ db' = CascadeReset(c, t) \/ db' = c
    BY <1>6 DEF EditsRow
  <2>2. CASE db' = CascadeReset(c, t)
    BY <2>1, <2>2, CascadeLeavesNothingStale
  <2>3. CASE db' = c
    BY <2>1, <2>3, NothingWithdrawn
  <2> QED
    BY <2>1, <2>2, <2>3
<1>7. CASE DeletesRow(t)
  <2> SUFFICES ASSUME NEW u \in Task, NEW x \in Task, db[u].status = "completed",
                      db'[u].status \in {"in_progress", "absent"}, u \in db[x].deps
               PROVE  db'[x].status \notin Finished
    BY DEF ResetsStaleWork
  <2>1. PICK c \in Table :
          /\ (c = db /\ Downstream(db, t) = {}) \/ c = CascadeReset(db, t)
          /\ \A y \in Task \ {t} : db'[y].status = c[y].status
    BY <1>7 DEF DeletesRow
  <2>2. CASE x = t
    BY <1>7, <2>2 DEF DeletesRow, NoRow, Finished
  <2>3. CASE x # t /\ c = db /\ Downstream(db, t) = {}
    <3>1. u # t
      BY <2>3 DEF Downstream, Dependents
    <3> QED
      BY <2>1, <2>3, <3>1
  <2>4. CASE x # t /\ c = CascadeReset(db, t)
    <3>1. u = t \/ u \in Reach(CascadeEdges(db), t)
      BY <1>0, <2>1, <2>4, CascadedRows
    <3> QED
      BY <1>0, <2>1, <2>4, <3>1, CascadeResetsBelow DEF Finished
  <2> QED
    BY <2>1, <2>2, <2>3, <2>4
<1>8. CASE db' = db
  BY <1>8, NothingWithdrawn
<1> QED
  BY <1>1, <1>2, <1>3, <1>4, <1>5, <1>6, <1>7, <1>8, TaskMakes

\* Linking and unlinking reconcile the one task that waits.
DependencyWrites(t) ==
  \E S \in SUBSET Task :
    \E c \in Table : /\ \A x \in Task \ {t} : c[x] = db[x]
                     /\ c[t].status = db[t].status /\ c[t].role = db[t].role
                     /\ c[t].deps = S
                     /\ db' = Reconcile(c, t)

LEMMA DependencyMakes ==
  ASSUME TypeOK, NEW t \in Task, NEW d \in Task, DependencyOperation(t, d)
  PROVE  DependencyWrites(t)
<1>1. PICK S \in SUBSET Task : db' = Reconcile([db EXCEPT ![t].deps = S], t)
  <2>1. db[t].deps \cup {d} \in SUBSET Task /\ db[t].deps \ {d} \in SUBSET Task
    BY DEF TypeOK, Row
  <2> QED
    BY <2>1 DEF DependencyOperation, CreateDependency, RemoveDependency
<1>2. PICK row : row = [db[t] EXCEPT !.deps = S]
  OBVIOUS
<1>3. row \in Row /\ row.status = db[t].status /\ row.role = db[t].role /\ row.deps = S
  BY <1>2 DEF TypeOK, Row
<1>4. PICK c : c = [db EXCEPT ![t] = row]
  OBVIOUS
<1>5. c \in Table /\ c[t] = row /\ \A x \in Task \ {t} : c[x] = db[x]
  BY <1>3, <1>4 DEF TypeOK, Table
<1>6. db' = Reconcile(c, t)
  BY <1>1, <1>2, <1>4
<1> QED
  BY <1>3, <1>5, <1>6 DEF DependencyWrites

\* The steps of the project leave a completed task as it is, and freeze
\* nothing while its state stays.
LEMMA ProjectMakes ==
  ASSUME TypeOK, ProjectOperation, project' = project, NEW x \in Task
  PROVE  /\ db[x].status = "completed" => db'[x].status = "completed"
         /\ db'[x].status = "completed" => db[x].status = "completed"
         /\ db'[x].status = "frozen" => db[x].status = "frozen"
         /\ db'[x].status = "pending_publish" => db[x].status = "pending_publish"
         /\ Exists(db', x) <=> Exists(db, x)
         /\ db'[x].role = db[x].role /\ db'[x].deps = db[x].deps
<1>0. db[x] \in Row /\ "overdue" \in Status
  BY DEF TypeOK, Status
<1>1. ASSUME NEW u \in User, RemoveMember(u)
      PROVE  \/ db'[x] = db[x]
             \/ /\ db[x].status \in ReturnableStatuses /\ db'[x].status = "claimable"
                /\ db'[x].role = db[x].role /\ db'[x].deps = db[x].deps
  BY <1>0, <1>1 DEF RemoveMember, Row
<1>2. CASE MarkOverdueTasks
  <2>1. \/ db'[x] = db[x]
        \/ /\ db[x].status \in Status \ OverdueExempt /\ db'[x].status = "overdue"
           /\ db'[x].role = db[x].role /\ db'[x].deps = db[x].deps
    BY <1>0, <1>2, RowStatus DEF MarkOverdueTasks
  <2> QED
    BY <2>1 DEF Exists, OverdueExempt, Status
<1>3. ASSUME NEW u \in User, AddMember(u) PROVE db'[x] = db[x]
  BY <1>3 DEF AddMember
<1>4. ASSUME NEW t \in Task, DeadlinePasses(t) PROVE db'[x] = db[x]
  BY <1>4 DEF DeadlinePasses
<1>5. ~ArchiveProject /\ ~UnarchiveProject /\ ~SoftDeleteProject /\ ~RestoreProject
      /\ ~PermanentlyDeleteProject
  BY DEF ArchiveProject, UnarchiveProject, SoftDeleteProject, RestoreProject,
     PermanentlyDeleteProject
<1>6. (\E u \in User : RemoveMember(u)) =>
        \/ db'[x] = db[x]
        \/ /\ db[x].status \in ReturnableStatuses /\ db'[x].status = "claimable"
           /\ db'[x].role = db[x].role /\ db'[x].deps = db[x].deps
  BY <1>1
<1> QED
  BY <1>2, <1>3, <1>4, <1>5, <1>6 DEF ProjectOperation, ReturnableStatuses, Exists

LEMMA ReconcileWithdrawsNothing ==
  ASSUME NEW c \in Table, NEW t \in Task, NEW x \in Task, db' = Reconcile(c, t),
         c[x].status = "completed"
  PROVE  db'[x].status \in {"completed", "pending_publish"}
BY ReconciledRows DEF CanUnlock

\* Withdrawing completed work resets what was finished on the strength of it,
\* whatever the dependencies: the recursion is closed under them.
THEOREM WithdrawnWorkIsReset == Spec => StaleWorkIsReset
<1> DEFINE Resets == \A t, d \in Task :
                       /\ db[t].status = "completed" /\ db'[t].status \in {"in_progress", "absent"}
                       /\ project' = project
                       /\ t \in db[d].deps
                       => db'[d].status \notin {"submitted", "review_approved", "completed"}
<1>1. TypeOK /\ [Next]_vars => [Resets]_vars
  <2> SUFFICES ASSUME TypeOK, Next, project' = project PROVE ResetsStaleWork
    BY DEF ResetsStaleWork, Finished
  <2>1. ASSUME NEW d \in todo, ReconcileDependent(d) PROVE ResetsStaleWork
    <3>1. d \in Task /\ db' = Reconcile(db, d) /\ db \in Table
      BY <2>1 DEF ReconcileDependent, TypeOK, Table
    <3> QED
      BY <3>1, ReconcileWithdrawsNothing, NothingWithdrawn
  <2>2. ASSUME NEW t \in Task, NEW d \in Task, DependencyOperation(t, d)
        PROVE  ResetsStaleWork
    <3>1. PICK c \in Table : /\ \A x \in Task : c[x].status = db[x].status
                             /\ db' = Reconcile(c, t)
      BY <2>2, DependencyMakes DEF DependencyWrites
    <3> QED
      BY <3>1, ReconcileWithdrawsNothing, NothingWithdrawn
  <2>3. CASE ProjectOperation
    BY <2>3, ProjectMakes, NothingWithdrawn
  <2> QED
    BY <2>1, <2>2, <2>3, TaskResetsStale DEF Next
<1> QED
  BY <1>1, TypeCorrect, PTL DEF Spec, StaleWorkIsReset

-----------------------------------------------------------------------------
(* Freezing                                                                *)

\* A step that freezes no task.
FreezesNothing == \A x \in Task : db'[x].status = "frozen" => db[x].status = "frozen"

\* A cancelled task, and every task its recursion froze, has all its dependents
\* and theirs among the tasks the recursion came to.
LEMMA CancelledRows ==
  ASSUME TypeOK, NEW t \in Task, CancelsRow(t),
         NEW u \in Task, db[u].status # "frozen", db'[u].status = "frozen",
         NEW x \in Task, u \in db[x].deps,
         NEW y \in Task, y = x \/ x \in db[y].deps
  PROVE  db'[y].status \notin Unstarted
<1>1. PICK c \in Table : Rewritten(db, c, t, "frozen") /\ db' = FreezeDownstream(c, t)
  BY DEF CancelsRow
<1>2. \A z \in Task : c[z].deps = db[z].deps
  BY <1>1 DEF Rewritten
<1> DEFINE E == DependencyEdges(c)
<1>3. E \in SUBSET (Task \X Task)
  BY EdgesAre
<1>4. <<u, x>> \in E /\ (y # x => <<x, y>> \in E)
  BY <1>2, EdgesAre
<1>5. u = t \/ u \in Reach(E, t)
  BY <1>1, FrozenRows DEF Rewritten
<1> HIDE DEF E
<1>6. x \in Reach(E, t)
  BY <1>3, <1>4, <1>5, ReachClosed
<1>7. y \in Reach(E, t)
  BY <1>3, <1>4, <1>6, ReachClosed
<1>8. c[y] \in Row /\ "frozen" \in Status
  BY DEF Table, Status
<1>9. db'[y].status = "frozen" \/ (db'[y] = c[y] /\ c[y].status \notin Unstarted)
  BY <1>1, <1>7, <1>8, RowStatus DEF FreezeDownstream, Unstarted, E
<1> QED
  BY <1>9 DEF Unstarted

LEMMA OnlyCancelFreezes ==
  ASSUME TypeOK, NEW t \in Task, TaskOperation(t)
  PROVE  CancelsRow(t) \/ FreezesNothing
<1>0. db \in Table
  BY DEF TypeOK, Table
<1>1. CASE WritesRow(t)
  BY <1>1 DEF WritesRow, Rewritten, FreezesNothing
<1>2. CASE CompletesRow(t)
  <2>1. PICK c \in Table : Rewritten(db, c, t, "completed") /\ db' = UnlockDownstream(c, t)
    BY <1>2 DEF CompletesRow
  <2>2. \A x \in Task : c[x].status = "frozen" => db[x].status = "frozen"
    BY <2>1 DEF Rewritten
  <2> QED
    BY <2>1, <2>2, UnlockedRows DEF FreezesNothing
<1>3. CASE ResetsRow(t)
  <2>1. PICK c \in Table, s \in {"claimable", "in_progress", "pending_publish"} :
          Rewritten(db, c, t, s) /\ db' = CascadeReset(c, t)
    BY <1>3 DEF ResetsRow
  <2>2. \A x \in Task : c[x].status = "frozen" => db[x].status = "frozen"
    BY <2>1 DEF Rewritten
  <2> QED
    BY <2>1, <2>2, CascadedRows DEF FreezesNothing
<1>4. CASE CreatesRow(t)
  BY <1>4 DEF CreatesRow, FreezesNothing, Unstarted
<1>5. CASE EditsRow(t)
  BY <1>5, CascadedRows DEF EditsRow, FreezesNothing
<1>6. CASE DeletesRow(t)
  <2>1. PICK c \in Table :
          /\ c = db \/ c = CascadeReset(db, t)
          /\ \A y \in Task \ {t} : db'[y].status = c[y].status
    BY <1>6 DEF DeletesRow
  <2>2. db'[t].status = "absent"
    BY <1>6 DEF DeletesRow, NoRow
  <2> QED
    BY <1>0, <2>1, <2>2, CascadedRows DEF FreezesNothing
<1>7. CASE db' = db
  BY <1>7 DEF FreezesNothing
<1> QED
  BY <1>1, <1>2, <1>3, <1>4, <1>5, <1>6, <1>7, TaskMakes

LEMMA ReconcileFreezesNothing ==
  ASSUME NEW c \in Table, NEW t \in Task, db' = Reconcile(c, t),
         \A x \in Task : c[x].status = db[x].status
  PROVE  FreezesNothing
BY ReconciledRows DEF FreezesNothing

\* Cancelling freezes the unstarted work below, at any depth and past the tasks
\* that had started; nothing else freezes a task of a project that stays where
\* it is.
THEOREM CancelReachesDownstream == Spec => CancelFreezesDownstream
<1> DEFINE Freezes == \A t, d, e \in Task :
                        /\ db[t].status # "frozen" /\ db'[t].status = "frozen"
                        /\ project' = project
                        /\ t \in db[d].deps /\ (e = d \/ d \in db[e].deps)
                        => db'[e].status \notin Unstarted
<1>1. TypeOK /\ [Next]_vars => [Freezes]_vars
  <2> SUFFICES ASSUME TypeOK, Next, project' = project PROVE Freezes
    OBVIOUS
  <2>1. FreezesNothing => Freezes
    BY DEF FreezesNothing
  <2>2. ASSUME NEW d \in todo, ReconcileDependent(d) PROVE FreezesNothing
    <3>1. d \in Task /\ db' = Reconcile(db, d) /\ db \in Table
      BY <2>2 DEF ReconcileDependent, TypeOK, Table
    <3> QED
      BY <3>1, ReconcileFreezesNothing
  <2>3. ASSUME NEW t \in Task, NEW d \in Task, DependencyOperation(t, d)
        PROVE  FreezesNothing
    <3>1. PICK c \in Table : /\ \A x \in Task : c[x].status = db[x].status
                             /\ db' = Reconcile(c, t)
      BY <2>3, DependencyMakes DEF DependencyWrites
    <3> QED
      BY <3>1, ReconcileFreezesNothing
  <2>4. ProjectOperation => FreezesNothing
    BY ProjectMakes DEF FreezesNothing
  <2>5. ASSUME NEW t \in Task, TaskOperation(t) PROVE Freezes
    BY <2>1, <2>5, OnlyCancelFreezes, CancelledRows
  <2> QED
    BY <2>1, <2>2, <2>3, <2>4, <2>5 DEF Next
<1> QED
  BY <1>1, TypeCorrect, PTL DEF Spec, CancelFreezesDownstream

-----------------------------------------------------------------------------
(* No unlock is lost.  What a task waits for in a table d: the tasks it    *)
(* depends on and those of its unit in the configured role before its own. *)

WaitsRightly(d, x) ==
  Configured(d[x].role) /\ d[x].status = "pending_publish" => ~Ready(d, x)

WaitingIn(d, T) == \A x \in T : WaitsRightly(d, x)

\* e has the tasks, roles and dependencies of d.
SameShape(d, e) ==
  \A x \in Task : /\ Exists(e, x) <=> Exists(d, x)
                  /\ e[x].role = d[x].role
                  /\ e[x].deps = d[x].deps

\* The two ways of saying that p comes just before x in its unit.
LEMMA StagesMeet ==
  ASSUME NEW r, NEW q
  PROVE  q \in PrecedingRole(r) <=> r \in FollowingRole(q)
<1>1. ASSUME q \in PrecedingRole(r) PROVE r \in FollowingRole(q)
  <2>1. PICK i \in 2..Len(Pipeline) : Pipeline[i] = r /\ q = Pipeline[i - 1]
    BY <1>1 DEF PrecedingRole
  <2>2. Len(Pipeline) \in Nat
    BY PipelineAssumption
  <2>3. i - 1 \in 1..(Len(Pipeline) - 1) /\ (i - 1) + 1 = i
    BY <2>2
  <2> QED
    BY <2>1, <2>3 DEF FollowingRole
<1>2. ASSUME r \in FollowingRole(q) PROVE q \in PrecedingRole(r)
  <2>1. PICK i \in 1..(Len(Pipeline) - 1) : Pipeline[i] = q /\ r = Pipeline[i + 1]
    BY <1>2 DEF FollowingRole
  <2>2. Len(Pipeline) \in Nat
    BY PipelineAssumption
  <2>3. i + 1 \in 2..Len(Pipeline) /\ (i + 1) - 1 = i
    BY <2>2
  <2> QED
    BY <2>1, <2>3 DEF PrecedingRole
<1> QED
  BY <1>1, <1>2

\* Whoever is not downstream of t does not look at t.
LEMMA DownstreamMeets ==
  ASSUME NEW d \in Table, NEW t \in Task, NEW x \in Task, x \notin Downstream(d, t),
         Exists(d, x)
  PROVE  t \notin d[x].deps /\ t \notin Predecessors(d, x)
<1>1. t \notin d[x].deps
  BY DEF Downstream, Dependents
<1>2. ASSUME t \in Predecessors(d, x) PROVE FALSE
  <2>1. /\ t # x /\ UnitOf[t] = UnitOf[x] /\ d[t].role \in PrecedingRole(d[x].role)
    BY <1>2 DEF Predecessors, SameUnitTasks
  <2>2. d[x].role \in FollowingRole(d[t].role)
    BY <2>1, StagesMeet
  <2>3. x \in SameUnitTasks(d, t, FollowingRole(d[t].role))
    BY <2>1, <2>2 DEF SameUnitTasks
  <2> QED
    BY <2>3 DEF Downstream
<1> QED
  BY <1>1, <1>2

\* A task that is ready in e was ready in d already, unless something it looks
\* at has been completed since.
LEMMA ReadyBefore ==
  ASSUME NEW d \in Table, NEW e \in Table, SameShape(d, e), NEW x \in Task, Ready(e, x),
         \A y \in d[x].deps \cup Predecessors(d, x) :
           e[y].status = "completed" => d[y].status = "completed"
  PROVE  Ready(d, x)
<1>1. Predecessors(e, x) = Predecessors(d, x) /\ e[x].role = d[x].role /\ e[x].deps = d[x].deps
  BY DEF SameShape, Predecessors, SameUnitTasks
<1>2. PredecessorMissing(d, x) <=> PredecessorMissing(e, x)
  BY <1>1 DEF PredecessorMissing
<1> QED
  BY <1>1, <1>2 DEF Ready, CheckDependenciesMet

\* Tasks keep waiting rightly when nothing is completed and those put to
\* pending_publish are not ready.
LEMMA KeepWaiting ==
  ASSUME NEW d \in Table, NEW e \in Table, SameShape(d, e), NEW T \in SUBSET Task,
         WaitingIn(d, T),
         \A y \in Task : e[y].status = "completed" => d[y].status = "completed",
         \A x \in T : e[x].status = "pending_publish" /\ d[x].status # "pending_publish"
                        => ~Ready(e, x)
  PROVE  WaitingIn(e, T)
<1> SUFFICES ASSUME NEW x \in T, Configured(e[x].role), e[x].status = "pending_publish",
                    Ready(e, x)
             PROVE  FALSE
  BY DEF WaitingIn, WaitsRightly
<1>1. d[x].status = "pending_publish"
  OBVIOUS
<1>2. \A y \in d[x].deps \cup Predecessors(d, x) : y \in Task
  BY DEF Table, Row, Predecessors, SameUnitTasks
<1>3. Ready(d, x)
  BY <1>2, ReadyBefore
<1>4. d[x].role = e[x].role
  BY DEF SameShape
<1> QED
  BY <1>1, <1>3, <1>4 DEF WaitingIn, WaitsRightly

\* One row's status is written and it is not completed.
LEMMA RewrittenWaits ==
  ASSUME NEW d \in Table, NEW e, NEW t \in Task, NEW s \in Status \ {"completed"},
         Exists(d, t), Rewritten(d, e, t, s), s = "pending_publish" => ~Ready(d, t),
         WaitingIn(d, Task)
  PROVE  WaitingIn(e, Task)
<1>1. SameShape(d, e) /\ e \in Table
  BY DEF Rewritten, SameShape, Exists, Status
<1>2. \A y \in Task : e[y].status = "completed" => d[y].status = "completed"
  BY DEF Rewritten
<1>3. ASSUME NEW x \in Task, e[x].status = "pending_publish",
             d[x].status # "pending_publish"
      PROVE  ~Ready(e, x)
  <2>1. x = t /\ ~Ready(d, t)
    BY <1>3 DEF Rewritten
  <2>2. \A y \in d[x].deps \cup Predecessors(d, x) : y \in Task
    BY DEF Table, Row, Predecessors, SameUnitTasks
  <2> QED
    BY <1>1, <1>2, <2>1, <2>2, ReadyBefore
<1> QED
  BY <1>1, <1>2, <1>3, KeepWaiting

\* Completing a task and unlocking what is downstream of it.
LEMMA CompletedWaits ==
  ASSUME NEW d \in Table, NEW c \in Table, NEW t \in Task, d[t].status # "absent",
         Rewritten(d, c, t, "completed"), WaitingIn(d, Task)
  PROVE  WaitingIn(UnlockDownstream(c, t), Task)
<1>0. PICK e : e = UnlockDownstream(c, t)
  OBVIOUS
<1>1. e \in Table
  BY <1>0, UnlockOnlyStatus DEF OnlyStatus
<1>2. \A y \in Task : \/ e[y] = c[y]
                      \/ /\ y \in Downstream(c, t) /\ CanUnlock(c, y)
                         /\ e[y].status \in {"claimable", "assigned"}
  BY <1>0, UnlockedRows
<1>3. SameShape(d, c)
  BY DEF Rewritten, SameShape, Exists
<1>4. SameShape(c, e)
  <2>1. OnlyStatus(c, e)
    BY <1>0, UnlockOnlyStatus
  <2>2. \A y \in Task : Exists(e, y) <=> Exists(c, y)
    BY <1>2 DEF Exists, CanUnlock
  <2> QED
    BY <2>1, <2>2 DEF SameShape, OnlyStatus
<1>5. \A y \in Task : e[y].status = "completed" => c[y].status = "completed"
  BY <1>2
<1> SUFFICES ASSUME NEW x \in Task, Configured(e[x].role), e[x].status = "pending_publish",
                    Ready(e, x)
             PROVE  FALSE
  BY <1>0 DEF WaitingIn, WaitsRightly
<1>6. e[x] = c[x]
  BY <1>2
<1>7. \A y \in c[x].deps \cup Predecessors(c, x) : y \in Task
  BY DEF Table, Row, Predecessors, SameUnitTasks
<1>8. Ready(c, x)
  BY <1>1, <1>4, <1>5, <1>7, ReadyBefore
<1>9. x \notin Downstream(c, t)
  <2> SUFFICES ASSUME x \in Downstream(c, t) PROVE FALSE
    OBVIOUS
  <2>1. e[x] = [c[x] EXCEPT !.status = UnlockedStatus(c[x])]
    BY <1>0, <1>6, <1>8 DEF CanUnlock, UnlockDownstream
  <2>2. UnlockedStatus(c[x]) \in {"claimable", "assigned"}
    BY DEF UnlockedStatus
  <2>3. UnlockedStatus(c[x]) \in Status /\ c[x] \in Row
    BY <2>2 DEF Status, Table
  <2>4. e[x].status = UnlockedStatus(c[x])
    BY <2>1, <2>3, RowStatus
  <2> QED
    BY <2>2, <2>4
<1>10. x # t /\ Exists(c, x)
  BY <1>6 DEF Rewritten, Exists
<1>11. t \notin c[x].deps /\ t \notin Predecessors(c, x)
  BY <1>9, <1>10, DownstreamMeets
<1>12. d[x] = c[x] /\ Predecessors(c, x) = Predecessors(d, x)
  BY <1>3, <1>10 DEF Rewritten, SameShape, Predecessors, SameUnitTasks
<1>13. \A y \in d[x].deps \cup Predecessors(d, x) :
         c[y].status = "completed" => d[y].status = "completed"
  BY <1>7, <1>11, <1>12 DEF Rewritten
<1>14. Ready(d, x)
  BY <1>3, <1>8, <1>13, ReadyBefore
<1> QED
  BY <1>6, <1>12, <1>14 DEF WaitingIn, WaitsRightly

\* A cascade from a task that is not completed: whoever it puts to
\* pending_publish depends on a task that it was called for or reset.
LEMMA CascadedWaits ==
  ASSUME NEW d \in Table, NEW t \in Task, NEW T \in SUBSET Task, WaitingIn(d, T),
         d[t].status # "completed" \/ T \cap Dependents(d, t) = {}
  PROVE  WaitingIn(CascadeReset(d, t), T)
<1>0. PICK e : e = CascadeReset(d, t)
  OBVIOUS
<1> DEFINE E == CascadeEdges(d)
<1>1. OnlyStatus(d, e)
  BY <1>0, CascadeOnlyStatus
<1>2. E \in SUBSET (Task \X Task)
  BY EdgesAre
<1>3. \A y \in Task : y \in Reach(E, t) => e[y].status \in {"pending_publish", "in_progress"}
  BY <1>0, CascadedRows
<1>4. \A y \in Task : y \notin Reach(E, t) => e[y] = d[y]
  BY <1>0, CascadedRows
<1>5. \A f \in E : f[1] \in d[f[2]].deps /\ d[f[2]].status \in DownstreamResetStatuses
  BY DEF CascadeEdges, DependencyEdges
<1> HIDE DEF E
<1>6. ASSUME NEW y \in Task, y \in Reach(E, t)
      PROVE  \E u \in Task : /\ u \in d[y].deps /\ (u = t \/ u \in Reach(E, t))
                             /\ d[y].status \in DownstreamResetStatuses
  <2>1. PICK f \in E : f[2] = y /\ (f[1] = t \/ f[1] \in Reach(E, t))
    BY <1>2, <1>6, ReachStep
  <2>2. f[1] \in Task
    BY <1>2
  <2> QED
    BY <1>5, <2>1, <2>2
<1>7. SameShape(d, e)
  <2>1. ASSUME NEW y \in Task PROVE Exists(e, y) <=> Exists(d, y)
    <3>1. CASE y \in Reach(E, t)
      BY <1>3, <1>6, <3>1 DEF Exists, DownstreamResetStatuses, Status
    <3>2. CASE y \notin Reach(E, t)
      BY <1>4, <3>2 DEF Exists
    <3> QED
      BY <3>1, <3>2
  <2> QED
    BY <1>1, <2>1 DEF SameShape, OnlyStatus
<1>8. \A y \in Task : e[y].status = "completed" => d[y].status = "completed"
  BY <1>3, <1>4
<1>9. ASSUME NEW x \in T, e[x].status = "pending_publish", d[x].status # "pending_publish"
      PROVE  ~Ready(e, x)
  <2>1. x \in Reach(E, t)
    BY <1>4, <1>9
  <2>2. PICK u \in Task : u \in d[x].deps /\ (u = t \/ u \in Reach(E, t))
    BY <1>6, <2>1
  <2>3. u \in Reach(E, t) => e[u].status # "completed"
    BY <1>3
  <2>4. u \notin Reach(E, t) => e[u].status # "completed"
    <3>1. u = t => x \in T \cap Dependents(d, t)
      BY <2>2 DEF Dependents
    <3> QED
      BY <1>4, <2>2, <3>1
  <2>5. u \in e[x].deps
    BY <1>1, <2>2 DEF OnlyStatus
  <2> QED
    BY <2>3, <2>4, <2>5 DEF Ready, CheckDependenciesMet
<1>10. e \in Table
  BY <1>1 DEF OnlyStatus
<1>11. WaitingIn(e, T)
  BY <1>7, <1>8, <1>9, <1>10, KeepWaiting
<1> QED
  BY <1>0, <1>11

\* Reconciling a task puts it right and no other one wrong.
LEMMA ReconciledWaits ==
  ASSUME NEW d \in Table, NEW t \in Task, NEW T \in SUBSET Task, WaitingIn(d, T)
  PROVE  WaitingIn(Reconcile(d, t), T \cup {t})
<1>0. PICK e : e = Reconcile(d, t)
  OBVIOUS
<1>1. CASE CanUnlock(d, t) \/ ShouldDemote(d, t)
  <2>1. OnlyStatus(d, e)
    BY <1>0, ReconcileOnlyStatus
  <2>2. \/ e = d
        \/ /\ e \in Table /\ \A x \in Task \ {t} : e[x] = d[x]
           /\ \/ CanUnlock(d, t) /\ e[t].status \in {"claimable", "assigned"}
              \/ ShouldDemote(d, t) /\ e[t].status = "pending_publish"
    BY <1>0, ReconciledRows
  <2>3. Exists(d, t)
    BY <1>1 DEF CanUnlock, ShouldDemote, DownstreamResetStatuses, Status, Exists
  <2>4. SameShape(d, e) /\ e \in Table
    BY <2>1, <2>2, <2>3 DEF OnlyStatus, SameShape, Exists
  <2>5. \A y \in Task : e[y].status = "completed" => d[y].status = "completed"
    BY <2>2
  <2>6. \A y \in d[t].deps \cup Predecessors(d, t) : y \in Task
    BY DEF Table, Row, Predecessors, SameUnitTasks
  <2>7. ~Ready(d, t) => ~Ready(e, t)
    BY <2>4, <2>5, <2>6, ReadyBefore
  <2>8. WaitingIn(e, T)
    <3>1. \A x \in T : e[x].status = "pending_publish" /\ d[x].status # "pending_publish"
                         => ~Ready(e, x)
      BY <2>2, <2>7 DEF ShouldDemote
    <3> QED
      BY <2>4, <2>5, <3>1, KeepWaiting
  <2>9. WaitsRightly(e, t)
    <3>1. CASE CanUnlock(d, t)
      <4>1. e = SetStatus(d, t, UnlockedStatus(d[t]))
        BY <1>0, <3>1 DEF Reconcile
      <4>2. UnlockedStatus(d[t]) \in {"claimable", "assigned"}
        BY DEF UnlockedStatus
      <4>3. UnlockedStatus(d[t]) \in Status
        BY <4>2 DEF Status
      <4>4. e[t].status = UnlockedStatus(d[t])
        BY <4>1, <4>3, StatusWritten
      <4> QED
        BY <4>2, <4>4 DEF WaitsRightly
    <3>2. CASE ~CanUnlock(d, t)
      BY <1>1, <2>7, <3>2 DEF ShouldDemote, WaitsRightly
    <3> QED
      BY <3>1, <3>2
  <2> QED
    BY <1>0, <2>8, <2>9 DEF WaitingIn
<1>2. CASE ~(CanUnlock(d, t) \/ ShouldDemote(d, t))
  <2>1. e = d
    BY <1>0, <1>2 DEF Reconcile
  <2>2. WaitsRightly(d, t)
    BY <1>2 DEF CanUnlock, WaitsRightly
  <2> QED
    BY <1>0, <2>1, <2>2 DEF WaitingIn
<1> QED
  BY <1>1, <1>2

\* Linking and unlinking a task: the others look at the rows they looked at.
LEMMA LinkedWaits ==
  ASSUME TypeOK, NEW t \in Task, DependencyWrites(t), WaitingIn(db, Task)
  PROVE  WaitingIn(db', Task)
<1>1. PICK S \in SUBSET Task, c \in Table :
        /\ \A x \in Task \ {t} : c[x] = db[x]
        /\ c[t].status = db[t].status /\ c[t].role = db[t].role
        /\ db' = Reconcile(c, t)
  BY DEF DependencyWrites
<1>2. \A x \in Task : c[x].status = db[x].status /\ c[x].role = db[x].role
  BY <1>1
<1>3. WaitingIn(c, Task \ {t})
  <2> SUFFICES ASSUME NEW x \in Task \ {t}, Ready(c, x)
               PROVE  Ready(db, x)
    BY <1>1 DEF WaitingIn, WaitsRightly
  <2>1. Predecessors(c, x) = Predecessors(db, x) /\ c[x] = db[x]
    BY <1>1, <1>2 DEF Predecessors, SameUnitTasks, Exists
  <2>2. PredecessorMissing(c, x) <=> PredecessorMissing(db, x)
    BY <2>1 DEF PredecessorMissing
  <2>3. \A y \in db[x].deps \cup Predecessors(db, x) : y \in Task
    BY DEF TypeOK, Row, Predecessors, SameUnitTasks
  <2> QED
    BY <1>2, <2>1, <2>2, <2>3 DEF Ready, CheckDependenciesMet
<1>4. (Task \ {t}) \cup {t} = Task
  OBVIOUS
<1> QED
  BY <1>1, <1>3, <1>4, ReconciledWaits

\* A new task is not completed: whoever waits goes on waiting.
LEMMA CreatedWaits ==
  ASSUME TypeOK, NEW t \in Task, CreatesRow(t), WaitingIn(db, Task)
  PROVE  WaitingIn(db', Task)
<1> SUFFICES ASSUME NEW x \in Task, Configured(db'[x].role),
                    db'[x].status = "pending_publish", Ready(db', x)
             PROVE  FALSE
  BY DEF WaitingIn, WaitsRightly
<1>1. x # t
  BY DEF CreatesRow
<1>2. PICK e : e = db'
  OBVIOUS
<1>3. e[x] = db[x] /\ \A y \in Task \ {t} : e[y] = db[y]
  BY <1>1, <1>2 DEF CreatesRow
<1>4. db[t].status = "absent" /\ e[t].status # "completed"
  BY <1>2 DEF CreatesRow, Unstarted
<1>5. Ready(e, x)
  BY <1>2
<1>6. t \notin Predecessors(e, x) /\ t \notin e[x].deps
  BY <1>4, <1>5 DEF Ready, CheckDependenciesMet
<1>7. Predecessors(e, x) = Predecessors(db, x)
  BY <1>3, <1>4, <1>6 DEF Predecessors, SameUnitTasks, Exists
<1>8. PredecessorMissing(e, x) <=> PredecessorMissing(db, x)
  BY <1>3, <1>7 DEF PredecessorMissing
<1>9. \A y \in db[x].deps \cup Predecessors(db, x) : y \in Task
  BY DEF TypeOK, Row, Predecessors, SameUnitTasks
<1>10. Ready(db, x)
  BY <1>3, <1>5, <1>6, <1>7, <1>8, <1>9 DEF Ready, CheckDependenciesMet
<1> QED
  BY <1>2, <1>3, <1>10 DEF WaitingIn, WaitsRightly

\* A deleted task had been looked at by its dependents and by the next stage of
\* its unit only, which the handler still has to reconcile.
LEMMA DeletedWaits ==
  ASSUME TypeOK, NEW t \in Task, DeletesRow(t), WaitingIn(db, Task)
  PROVE  WaitingIn(db', Task \ todo')
<1>0. db \in Table
  BY DEF TypeOK, Table
<1>1. PICK c \in Table :
        /\ \/ c = db /\ Downstream(db, t) = {}
           \/ c = CascadeReset(db, t)
        /\ \A x \in Task \ {t} : /\ db'[x].status = c[x].status
                                 /\ db'[x].role = c[x].role
                                 /\ db'[x].deps = c[x].deps \ {t}
  BY DEF DeletesRow
<1> DEFINE T == Task \ Downstream(db, t)
<1>2. OnlyStatus(db, c)
  BY <1>0, <1>1, CascadeOnlyStatus DEF OnlyStatus
<1>3. WaitingIn(c, T)
  <2>1. T \cap Dependents(db, t) = {}
    BY DEF Downstream
  <2>2. T \in SUBSET Task /\ WaitingIn(db, T)
    BY DEF WaitingIn
  <2> HIDE DEF T
  <2> QED
    BY <1>0, <1>1, <2>1, <2>2, CascadedWaits
<1>4. \A x \in Task : Exists(c, x) => Exists(db, x)
  <2>1. ASSUME NEW x \in Task, c = CascadeReset(db, t), Exists(c, x) PROVE Exists(db, x)
    <3>1. CASE x \in Reach(CascadeEdges(db), t)
      <4>1. PICK f \in CascadeEdges(db) : f[2] = x
        BY <1>0, <3>1, EdgesAre, ReachStep
      <4> QED
        BY <4>1 DEF CascadeEdges, DownstreamResetStatuses, Status, Exists
    <3>2. CASE x \notin Reach(CascadeEdges(db), t)
      BY <1>0, <2>1, <3>2, CascadedRows DEF Exists
    <3> QED
      BY <3>1, <3>2
  <2> QED
    BY <1>1, <2>1
<1>5. PICK e : e = db'
  OBVIOUS
<1>6. /\ e[t].status = "absent"
      /\ \A x \in Task \ {t} : /\ e[x].status = c[x].status
                               /\ e[x].role = c[x].role
                               /\ e[x].deps = c[x].deps \ {t}
  BY <1>1, <1>5 DEF DeletesRow, NoRow
<1> SUFFICES ASSUME NEW x \in Task \ todo', Configured(e[x].role),
                    e[x].status = "pending_publish", Ready(e, x)
             PROVE  FALSE
  BY <1>5 DEF WaitingIn, WaitsRightly
<1>7. x # t /\ x \in T
  BY <1>6 DEF DeletesRow
<1>8. Exists(db, x)
  BY <1>4, <1>6, <1>7 DEF Exists
<1>9. t \notin db[x].deps /\ t \notin Predecessors(db, x)
  BY <1>0, <1>7, <1>8, DownstreamMeets
<1>10. t \notin Predecessors(c, x) /\ t \notin c[x].deps
  BY <1>2, <1>4, <1>9 DEF OnlyStatus, Predecessors, SameUnitTasks
<1>11. Predecessors(e, x) = Predecessors(c, x)
  BY <1>6, <1>7, <1>10 DEF Predecessors, SameUnitTasks, Exists
<1>12. PredecessorMissing(e, x) <=> PredecessorMissing(c, x)
  BY <1>6, <1>7, <1>11 DEF PredecessorMissing
<1>13. \A y \in c[x].deps \cup Predecessors(c, x) : y \in Task
  BY DEF Table, Row, Predecessors, SameUnitTasks
<1>14. Ready(c, x)
  BY <1>6, <1>7, <1>10, <1>11, <1>12, <1>13 DEF Ready, CheckDependenciesMet
<1> QED
  BY <1>3, <1>6, <1>7, <1>14 DEF WaitingIn, WaitsRightly

\* Cancelling and freezing complete nothing and put nothing to pending_publish.
LEMMA CancelledWaits ==
  ASSUME TypeOK, NEW t \in Task, CancelsRow(t), WaitingIn(db, Task)
  PROVE  WaitingIn(db', Task)
<1>0. db \in Table
  BY DEF TypeOK, Table
<1>1. PICK c \in Table : Rewritten(db, c, t, "frozen") /\ db' = FreezeDownstream(c, t)
  BY DEF CancelsRow
<1>2. PICK e : e = db'
  OBVIOUS
<1>3. OnlyStatus(c, e)
  BY <1>1, <1>2, FreezeOnlyStatus
<1>4. \A y \in Task : e[y] = c[y] \/ (c[y].status \in Unstarted /\ e[y].status = "frozen")
  BY <1>1, <1>2, FrozenRows
<1>5. SameShape(db, c)
  BY <1>1 DEF Rewritten, SameShape, Exists, CancelsRow
<1>6. SameShape(db, e)
  <2>1. \A y \in Task : Exists(e, y) <=> Exists(c, y)
    BY <1>4 DEF Exists, Unstarted
  <2> QED
    BY <1>3, <1>5, <2>1 DEF SameShape, OnlyStatus
<1>7. \A y \in Task : /\ e[y].status = "completed" => db[y].status = "completed"
                      /\ e[y].status = "pending_publish" => db[y].status = "pending_publish"
  BY <1>1, <1>4 DEF Rewritten
<1>8. e \in Table
  BY <1>3 DEF OnlyStatus
<1>9. WaitingIn(e, Task)
  BY <1>0, <1>6, <1>7, <1>8, KeepWaiting
<1> QED
  BY <1>2, <1>9

LEMMA TaskWaits ==
  ASSUME TypeOK, {"updateContent", "updateRole"} \cap Ops = {}, NEW t \in Task,
         TaskOperation(t), todo = {}, WaitingIn(db, Task)
  PROVE  WaitingIn(db', Task \ todo')
<1>0. db \in Table
  BY DEF TypeOK, Table
<1>1. CASE DeleteTask(t)
  BY <1>1, DeletesRows, DeletedWaits
<1>2. CASE ~DeleteTask(t)
  <2>1. todo' = {}
    BY <1>2 DEF TaskOperation, CreateTask, Update, UpdateTask, UpdateTaskDeadline, ClaimTask,
       AssignTask, ReturnTask, StartTask, SubmitTask, CancelTask, ApproveTask, RejectTask,
       ResetTask
  <2>2. SUFFICES WaitingIn(db', Task)
    BY <2>1
  <2>3. CASE WritesRow(t)
    <3>1. PICK s \in {"assigned", "in_progress", "pending_publish", "submitted",
                     "review_rejected"} :
            Rewritten(db, db', t, s) /\ (s = "pending_publish" => ~Ready(db, t))
      BY <2>3 DEF WritesRow
    <3>2. Exists(db, t) /\ s \in Status \ {"completed"}
      BY <2>3 DEF WritesRow, Exists, Status
    <3> QED
      BY <1>0, <3>1, <3>2, RewrittenWaits
  <2>4. CASE CompletesRow(t)
    <3>1. PICK c \in Table : Rewritten(db, c, t, "completed") /\ db' = UnlockDownstream(c, t)
      BY <2>4 DEF CompletesRow
    <3>2. db[t].status # "absent"
      BY <2>4 DEF CompletesRow
    <3> QED
      BY <1>0, <3>1, <3>2, CompletedWaits
  <2>5. CASE ResetsRow(t)
    <3>1. PICK c \in Table, s \in {"claimable", "in_progress", "pending_publish"} :
            /\ Rewritten(db, c, t, s)
            /\ s = "pending_publish" => ~Ready(db, t)
            /\ db' = CascadeReset(c, t)
      BY <2>5 DEF ResetsRow
    <3>2. Exists(db, t) /\ s \in Status \ {"completed"}
      BY <2>5 DEF ResetsRow, Status
    <3>3. WaitingIn(c, Task)
      BY <1>0, <3>1, <3>2, RewrittenWaits
    <3>4. c[t].status # "completed"
      BY <3>1 DEF Rewritten
    <3> QED
      BY <3>1, <3>3, <3>4, CascadedWaits
  <2>6. CASE CancelsRow(t)
    BY <2>6, CancelledWaits
  <2>7. CASE CreatesRow(t)
    BY <2>7, CreatedWaits
  <2>8. CASE EditsRow(t)
    <3>1. PICK e : e = db'
      OBVIOUS
    <3>2. /\ e \in Table
          /\ \A x \in Task : /\ e[x].status = db[x].status /\ e[x].deps = db[x].deps
                             /\ e[x].role = db[x].role
      BY <2>8, <3>1 DEF EditsRow
    <3>3. SameShape(db, e)
      BY <3>2 DEF SameShape, Exists
    <3>4. WaitingIn(e, Task)
      BY <1>0, <3>2, <3>3, KeepWaiting
    <3> QED
      BY <3>1, <3>4
  <2>9. CASE DeletesRow(t)
    <3>1. DeletesRow(t) => WaitingIn(db', Task \ todo')
      BY DeletedWaits
    <3> QED
      BY <2>1, <2>9, <3>1
  <2>10. CASE db' = db
    BY <2>10
  <2> QED
    BY <2>3, <2>4, <2>5, <2>6, <2>7, <2>8, <2>9, <2>10, TaskMakes
<1> QED
  BY <1>1, <1>2

\* The table as it comes out of the archive.
Thaw == [x \in Task |-> UnarchivedRow(db[x])]

WaitInv ==
  /\ Active => WaitingIn(db, Task \ todo)
  /\ project \in {"archived", "deleted"} => WaitingIn(Thaw, Task)

LEMMA WaitingShelved ==
  ASSUME UNCHANGED <<db, todo>>, project' \in {project, "gone"}, WaitInv
  PROVE  WaitInv'
BY DEF WaitInv, Active, Thaw

LEMMA ProjectWaits ==
  ASSUME TypeOK, ArchiveInv, WaitInv, todo = {}, ProjectOperation
  PROVE  WaitInv'
<1>0. db \in Table
  BY DEF TypeOK, Table
<1>1. CASE ArchiveProject
  <2>1. \A x \in Task : db[x] \in Row /\ db[x].saved = "none"
    BY <1>1 DEF ArchiveProject, ArchiveInv, Active, TypeOK
  <2>2. \A x \in Task : db'[x] = ArchivedRow(db[x])
    BY <1>1 DEF ArchiveProject
  <2>3. \A x \in Task : UnarchivedRow(db'[x]) = db[x]
    BY <2>1, <2>2, ArchivedRowReturns
  <2>4. Thaw' = db
    BY <1>0, <2>3 DEF Thaw, Table
  <2>5. WaitingIn(db, Task) /\ project' = "archived"
    BY <1>1 DEF ArchiveProject, WaitInv, Active
  <2> QED
    BY <2>4, <2>5 DEF WaitInv, Active
<1>2. CASE UnarchiveProject
  <2>1. db' = Thaw /\ project = "archived" /\ project' = "active" /\ todo' = {}
    BY <1>2 DEF UnarchiveProject, Thaw
  <2>2. WaitingIn(db', Task)
    BY <2>1 DEF WaitInv
  <2> QED
    BY <2>1, <2>2 DEF WaitInv, Active
<1>3. CASE SoftDeleteProject \/ RestoreProject
  BY <1>3 DEF SoftDeleteProject, RestoreProject, WaitInv, Active, Thaw
<1>4. CASE PermanentlyDeleteProject
  BY <1>4 DEF PermanentlyDeleteProject, WaitInv, Active
<1>5. CASE project' = project /\ Active
  <2>1. PICK e : e = db'
    OBVIOUS
  <2>2. todo' = {}
    BY <1>5 DEF ProjectOperation, ArchiveProject, UnarchiveProject, SoftDeleteProject,
       RestoreProject, PermanentlyDeleteProject, AddMember, RemoveMember, MarkOverdueTasks,
       DeadlinePasses
  <2>3. \A x \in Task : /\ e[x].status = "completed" => db[x].status = "completed"
                        /\ e[x].status = "pending_publish" => db[x].status = "pending_publish"
                        /\ Exists(e, x) <=> Exists(db, x)
                        /\ e[x].role = db[x].role /\ e[x].deps = db[x].deps
    BY <1>5, <2>1, ProjectMakes
  <2>4. e \in Table
    BY <2>1, ProjectStep DEF LegalStep
  <2>5. WaitingIn(db, Task)
    BY <1>5 DEF WaitInv
  <2>6. WaitingIn(e, Task)
    BY <1>0, <2>3, <2>4, <2>5, KeepWaiting DEF SameShape
  <2> QED
    BY <1>5, <2>1, <2>2, <2>6 DEF WaitInv, Active
<1>6. CASE MarkOverdueTasks /\ ~Active
  <2>1. project = "archived"
    BY <1>6 DEF MarkOverdueTasks, Active
  <2>2. \A x \in Task : db'[x] = db[x]
    BY <1>6, <2>1 DEF MarkOverdueTasks, ArchiveInv, Shelved, Status, OverdueExempt
  <2>3. Thaw' = Thaw /\ project' = project
    BY <1>6, <2>2 DEF MarkOverdueTasks, Thaw
  <2> QED
    BY <2>1, <2>3 DEF WaitInv, Active
<1>7. ASSUME NEW t \in Task, DeadlinePasses(t) PROVE WaitInv'
  BY <1>7, WaitingShelved DEF DeadlinePasses
<1>8. ASSUME NEW u \in User, AddMember(u) \/ RemoveMember(u) PROVE WaitInv'
  BY <1>5, <1>8 DEF AddMember, RemoveMember
<1>9. MarkOverdueTasks => project' = project
  BY DEF MarkOverdueTasks
<1> QED
  BY <1>1, <1>2, <1>3, <1>4, <1>5, <1>6, <1>7, <1>8, <1>9 DEF ProjectOperation

LEMMA WaitInvStep ==
  ASSUME {"updateContent", "updateRole", "archivedDependency"} \cap Ops = {},
         TypeOK, ArchiveInv, WaitInv, Next
  PROVE  WaitInv'
<1>0. db \in Table
  BY DEF TypeOK, Table
<1>1. ASSUME NEW d \in todo, ReconcileDependent(d) PROVE WaitInv'
  <2>1. Active /\ project' = "active" /\ todo' = todo \ {d} /\ db' = Reconcile(db, d)
    BY <1>1 DEF ReconcileDependent, ArchiveInv, Active
  <2>2. d \in Task /\ todo \subseteq Task
    BY DEF TypeOK
  <2>3. Task \ todo \in SUBSET Task /\ WaitingIn(db, Task \ todo)
    BY <2>1 DEF WaitInv
  <2>4. WaitingIn(db', (Task \ todo) \cup {d})
    BY <1>0, <2>1, <2>2, <2>3, ReconciledWaits
  <2>5. WaitingIn(db', Task \ todo')
    BY <2>1, <2>4 DEF WaitingIn
  <2> QED
    BY <2>1, <2>5 DEF WaitInv, Active
<1>2. ASSUME NEW t \in Task, TaskOperation(t), todo = {} PROVE WaitInv'
  <2>1. Active
    BY <1>2 DEF TaskOperation, CreateTask, Update, UpdateTask, DeleteTask, UpdateTaskDeadline,
       ClaimTask, AssignTask, ReturnTask, StartTask, SubmitTask, CancelTask, ApproveTask,
       RejectTask, ResetTask
  <2>2. WaitingIn(db, Task)
    BY <1>2, <2>1 DEF WaitInv
  <2>3. WaitingIn(db', Task \ todo')
    BY <1>2, <2>2, TaskWaits
  <2>4. project' = "active"
    BY <1>2, <2>1, TaskSavesNothing DEF Active
  <2> QED
    BY <2>3, <2>4 DEF WaitInv, Active
<1>3. ASSUME NEW t \in Task, NEW d \in Task, DependencyOperation(t, d), todo = {}
      PROVE  WaitInv'
  <2>1. Active
    BY <1>3 DEF DependencyOperation, Calls
  <2>2. WaitingIn(db, Task)
    BY <1>3, <2>1 DEF WaitInv
  <2>3. WaitingIn(db', Task)
    BY <1>3, <2>2, DependencyMakes, LinkedWaits
  <2>4. project' = "active" /\ todo' = {}
    BY <1>3, <2>1 DEF DependencyOperation, CreateDependency, RemoveDependency, Active
  <2> QED
    BY <2>3, <2>4 DEF WaitInv, Active
<1> QED
  BY <1>1, <1>2, <1>3, ProjectWaits DEF Next

\* No task of a configured role waits in an active project for work that is all
\* done, whichever handlers ran before: every completion unlocks, every deletion
\* and change of dependencies reconciles, a cascade leaves each task it puts back
\* below one that is not completed, and the archive gives back what it took.
\* Left out are an edit of a task's content, whose cascade may put back a
\* dependent of a task that itself stays completed, a change of role, which
\* reconciles nothing, and dependencies made while the project is archived.
THEOREM NoUnlockIsLost ==
  ASSUME {"updateContent", "updateRole", "archivedDependency"} \cap Ops = {}
  PROVE  Spec => []PendingMeansWaiting
<1>1. Init => ArchiveInv /\ WaitInv
  BY DEF Init, NoRow, ArchiveInv, Active, WaitInv, WaitingIn, WaitsRightly
<1>2. TypeOK /\ ArchiveInv /\ WaitInv /\ [Next]_vars => ArchiveInv' /\ WaitInv'
  <2> SUFFICES ASSUME TypeOK, ArchiveInv, WaitInv, [Next]_vars
               PROVE  ArchiveInv' /\ WaitInv'
    OBVIOUS
  <2>1. CASE UNCHANGED vars
    BY <2>1, StaysShelved, WaitingShelved DEF vars
  <2>2. CASE Next
    BY <2>2, ArchiveInvStep, WaitInvStep
  <2> QED
    BY <2>1, <2>2
<1>3. WaitInv => PendingMeansWaiting
  BY DEF WaitInv, WaitingIn, WaitsRightly, PendingMeansWaiting
<1> QED
  BY <1>1, <1>2, <1>3, TypeCorrect, PTL DEF Spec

=============================================================================
