------------------------------ MODULE ProjectPage ------------------------------
(***************************************************************************)
(* The task sheet and the preview dialog of the project page, in one       *)
(* browser.  The page shows a snapshot of the project; what is opened on   *)
(* it asks the server for more, and the answers come in any order, after   *)
(* the user has opened something else, or after the page was loaded again. *)
(* Loading takes the tabs off the page: what was open in them is closed,   *)
(* and answers that were to come to them open nothing.  What they had the  *)
(* server change still loads the page again when it is answered, and the   *)
(* first of several loads to end shows the tabs while others are under way.*)
(*                                                                         *)
(* Every task has at most one file, with versions; a file kept for a stage *)
(* and no task is left out.                                                *)
(***************************************************************************)
EXTENDS Naturals, FiniteSets, FiniteSetsExt

CONSTANTS
  Task,         \* numbers, in the order of created_at
  RoleOf,       \* the role of each task
  OrderOf,      \* the translation order of those that have one, 0 for the others
  UnitOf,       \* the unit of each task
  WorkflowRoles,\* the roles the project's configuration enables, in pipeline order
  Version,      \* numbers of file versions
  MaxAsked,     \* bound: answers of one kind outstanding at a time
  MaxCalls      \* bound: changes, and loads of the page, under way at a time

Nothing == 0
ASSUME Task \subseteq Nat \ {Nothing} /\ Version \subseteq Nat \ {Nothing}

VARIABLES
  server,    \* the tasks there are, those completed, those with a file
  page,      \* the snapshot fetchProject got
  loading,   \* the tabs are off the page
  selected,  \* the task whose sheet is open
  results,   \* previousResultFiles: the tasks whose files are listed on the sheet
  asked,     \* requests for previous results that were not cancelled
  sheets,    \* requests of handleOpenTask for a task's details
  calls,     \* changes the tabs have asked for
  reloads,   \* snapshots under way to the page
  created,   \* tasks made from what is in the dialog of handleCreateTask
  preview,   \* the file whose preview dialog is open
  shown,     \* previewData and compareData: the file and the version
  previews   \* requests for them

pageVars == <<server, page, loading, selected, results, asked, sheets, calls, reloads, created>>
previewVars == <<preview, shown, previews>>
projectPageVars == <<pageVars, previewVars>>

Snapshot == [tasks : SUBSET Task, completed : SUBSET Task, files : SUBSET Task]
NoPreview == [file |-> Nothing, version |-> Nothing]
Slot == {"preview", "compare"}

\* here: the tabs it was asked from are still on the page, with its button off.
Call == [what : {"act", "upload", "create"}, task : Task, before : SUBSET Task,
         done : BOOLEAN, here : BOOLEAN]

PageTypeOK ==
  /\ {server, page} \subseteq Snapshot
  /\ server.completed \cup server.files \subseteq server.tasks
  /\ loading \in BOOLEAN
  /\ selected \in Task \cup {Nothing}
  /\ results \subseteq Task /\ sheets \subseteq Task /\ created \subseteq Task
  /\ asked \subseteq [task : Task, given : Snapshot]
  /\ calls \subseteq Call /\ reloads \subseteq [of : {"act", "upload", "create"}, given : Snapshot]
  /\ preview \in Task \cup {Nothing}
  /\ shown \in [Slot -> [file : Task \cup {Nothing}, version : Version \cup {Nothing}]]
  /\ previews \subseteq [file : Task, version : Version, slot : Slot]

PageInit ==
  /\ \E made \in SUBSET Task, done \in SUBSET Task :
       /\ done \subseteq made
       /\ server = [tasks |-> made, completed |-> done, files |-> done]
  /\ page = server /\ loading = FALSE /\ selected = Nothing
  /\ results = {} /\ asked = {} /\ sheets = {}
  /\ calls = {} /\ reloads = {} /\ created = {}
  /\ preview = Nothing /\ shown = [s \in Slot |-> NoPreview] /\ previews = {}

-----------------------------------------------------------------------------
(* The stage before.                                                       *)

Newest(tasks) == IF tasks = {} THEN {} ELSE {Max(tasks)}
InUnit(tasks, t) == {u \in tasks : UnitOf[u] = UnitOf[t]}
Translations(tasks, t) == {u \in InUnit(tasks, t) : RoleOf[u] = "translation"}

StageBefore(r) == {WorkflowRoles[k] : k \in {j \in DOMAIN WorkflowRoles :
                    j + 1 \in DOMAIN WorkflowRoles /\ WorkflowRoles[j + 1] = r}}

\* getPreviousResultTarget: the one translation before, the last translation, or
\* whatever there is of the stage before.
PreviousOf(tasks, t) ==
  IF RoleOf[t] = "translation" /\ OrderOf[t] > 1
    THEN Newest({u \in Translations(tasks, t) \ {t} : OrderOf[u] + 1 = OrderOf[t]})
  ELSE IF RoleOf[t] = "post_production"
    THEN Newest({u \in Translations(tasks, t) :
           OrderOf[u] > 0 /\ \A v \in Translations(tasks, t) : OrderOf[v] <= OrderOf[u]})
  ELSE {u \in InUnit(tasks, t) : RoleOf[u] \in StageBefore(RoleOf[t])}

\* Nothing comes before the first stage.
HasNone(t) == /\ ~(RoleOf[t] = "translation" /\ OrderOf[t] > 1)
              /\ RoleOf[t] # "post_production" /\ StageBefore(RoleOf[t]) = {}

\* filterPreviousResultFiles, with the tasks of the snapshot the sheet was opened on.
Listed(files, t, given) == files \cap PreviousOf(given.tasks, t) \cap given.completed

\* findPipelinePredecessor: of the nearest earlier stage with a task, the newest.
PredecessorOf(tasks, t) ==
  LET place == CHOOSE k \in DOMAIN WorkflowRoles : WorkflowRoles[k] = RoleOf[t]
      Of(k) == {u \in InUnit(tasks, t) : RoleOf[u] = WorkflowRoles[k]}
      filled == {k \in 1 .. place - 1 : Of(k) # {}}
  IN IF filled = {} THEN {} ELSE Newest(Of(Max(filled)))

-----------------------------------------------------------------------------
(* The sheet.                                                              *)

\* The effect that follows the task and the snapshot: what was asked before is
\* cancelled, what the page knows is listed, and the server is asked.
CancelledMutant == asked
Cancelled == {}
FollowSelection(t, given) ==
  IF t = Nothing \/ HasNone(t)
    THEN results' = {} /\ asked' = Cancelled
    ELSE /\ results' = Listed(given.files, t, given)
         /\ asked' = Cancelled \cup {[task |-> t, given |-> given]}

Select(t) == selected' = t /\ FollowSelection(t, page)

HandleOpenTask(t) ==
  /\ ~loading /\ t \in page.tasks /\ t \notin sheets /\ Cardinality(sheets) < MaxAsked
  /\ Select(t) /\ sheets' = sheets \cup {t}
  /\ UNCHANGED <<server, page, loading, calls, reloads, created, previewVars>>

CloseSheet ==
  /\ selected # Nothing /\ Select(Nothing)
  /\ UNCHANGED <<server, page, loading, sheets, calls, reloads, created, previewVars>>

\* The details arrive and open their task's sheet, whatever is open by then.
SheetArrives(t) ==
  /\ t \in sheets /\ sheets' = sheets \ {t}
  /\ IF t \in server.tasks THEN Select(t) ELSE UNCHANGED <<selected, results, asked>>
  /\ UNCHANGED <<server, page, loading, calls, reloads, created, previewVars>>

ResultsArrive(a) ==
  /\ a \in asked /\ asked' = asked \ {a}
  /\ results' = Listed(server.files, a.task, a.given)
  /\ UNCHANGED <<server, page, loading, selected, sheets, calls, reloads, created, previewVars>>

ResultsFail(a) ==
  /\ a \in asked /\ asked' = asked \ {a}
  /\ UNCHANGED <<server, page, loading, selected, results, sheets, calls, reloads, created, previewVars>>

-----------------------------------------------------------------------------
(* Loading the page, and what the user has the server change.              *)

\* The tabs leave the page, or another one is shown: their state is lost.
TabsClose ==
  /\ selected' = Nothing /\ results' = {} /\ asked' = Cancelled /\ sheets' = {} /\ created' = {}
  /\ preview' = Nothing /\ shown' = [s \in Slot |-> NoPreview] /\ previews' = {}

Left(rest) == {[c EXCEPT !.here = FALSE] : c \in rest}

SwitchTab ==
  /\ ~loading /\ selected = Nothing /\ preview = Nothing
  /\ TabsClose /\ calls' = Left(calls)
  /\ UNCHANGED <<server, page, loading, reloads>>

\* The end of any load shows the tabs; one that ends later replaces the snapshot
\* under whatever was opened since.
ProjectArrives(r) ==
  /\ r \in reloads /\ reloads' = reloads \ {r}
  /\ loading' = FALSE /\ page' = r.given
  /\ FollowSelection(selected, r.given)
  /\ UNCHANGED <<server, selected, sheets, calls, created, previewVars>>

ProjectFails(r) ==
  /\ r \in reloads /\ reloads' = reloads \ {r} /\ loading' = FALSE
  /\ UNCHANGED <<server, page, selected, results, asked, sheets, calls, created, previewVars>>

CallServer(what, t, before) ==
  /\ ~loading /\ \A c \in calls : ~(c.here /\ c.what = what)
  /\ Cardinality(calls) + Cardinality(reloads) < MaxCalls
  /\ calls' = calls \cup {[what |-> what, task |-> t, before |-> before, done |-> FALSE, here |-> TRUE]}
  /\ UNCHANGED <<server, page, loading, selected, results, asked, sheets, reloads, created, previewVars>>

\* handleTaskAction, handleAssignTask, handleResetTask, handleDeleteTask.
HandleTaskAction(t) == selected = t /\ CallServer("act", t, {})

\* handleTaskUpload on the sheet; handleUpload on the files' tab replaces a file.
HandleUpload(t) ==
  /\ selected = t \/ (selected = Nothing /\ t \in page.files)
  /\ CallServer("upload", t, {})

\* handleCreateTask: the task, then a dependency on the stage before, as the page
\* knew it.
HandleCreateTask(t) ==
  /\ selected = Nothing /\ t \notin server.tasks
  /\ CallServer("create", t, PredecessorOf(page.tasks, t))

Moved(t) ==
  {[server EXCEPT !.completed = @ \cup {t}, !.files = @ \cup {t}],
   [server EXCEPT !.completed = @ \ {t}],
   [tasks |-> server.tasks \ {t}, completed |-> server.completed \ {t}, files |-> server.files \ {t}]}

\* The server does what a call asks for.
CallDone(c) ==
  /\ c \in calls /\ ~c.done /\ calls' = (calls \ {c}) \cup {[c EXCEPT !.done = TRUE]}
  /\ (c.task \in server.tasks) = (c.what # "create")
  /\ CASE c.what = "act" -> server' \in Moved(c.task)
       [] c.what = "upload" -> server' = [server EXCEPT !.files = @ \cup {c.task}]
       [] c.what = "create" -> server' = [server EXCEPT !.tasks = @ \cup {c.task}]
  /\ UNCHANGED <<page, loading, selected, results, asked, sheets, reloads, created, previewVars>>

\* The answer has the page load anew, whatever it is doing by then: fetchProject.
CallAnswered(c) ==
  /\ c \in calls /\ c.done /\ c.before \subseteq server.tasks
  /\ reloads' = reloads \cup {[of |-> c.what, given |-> server]} /\ loading' = TRUE
  /\ TabsClose /\ calls' = Left(calls \ {c})
  /\ UNCHANGED <<server, page>>

\* A failure changes nothing on the page: a dialog stays, with all that was filled
\* in, also when the task was made and only its dependency was not.
CallFails(c) ==
  /\ c \in calls /\ calls' = calls \ {c}
  /\ created' = IF c.what = "create" /\ c.done /\ c.here THEN created \cup {c.task} ELSE created
  /\ UNCHANGED <<server, page, loading, selected, results, asked, sheets, reloads, previewVars>>

OthersMove(t) ==
  /\ t \in server.tasks /\ server' \in Moved(t)
  /\ UNCHANGED <<page, loading, selected, results, asked, sheets, calls, reloads, created, previewVars>>

-----------------------------------------------------------------------------
(* The preview dialog: nothing is cancelled when another file is opened.   *)

Ask(f, v, slot) ==
  /\ Cardinality(previews) < MaxAsked
  /\ previews' = previews \cup {[file |-> f, version |-> v, slot |-> slot]}

HandleOpenPreview(f) ==
  /\ ~loading /\ preview = Nothing /\ f \in page.files
  /\ preview' = f /\ shown' = [s \in Slot |-> NoPreview]
  /\ Ask(f, Max(Version), "preview")
  /\ UNCHANGED pageVars

HandlePreviewVersionChange(v) ==
  /\ preview # Nothing /\ shown' = [s \in Slot |-> NoPreview]
  /\ Ask(preview, v, "preview")
  /\ UNCHANGED <<pageVars, preview>>

HandleCompareVersionChange(v) ==
  /\ preview # Nothing /\ shown' = [shown EXCEPT !["compare"] = NoPreview]
  /\ Ask(preview, v, "compare")
  /\ UNCHANGED <<pageVars, preview>>

PreviewArrives(p) ==
  /\ p \in previews /\ previews' = previews \ {p}
  /\ shown' = [shown EXCEPT ![p.slot] = [file |-> p.file, version |-> p.version]]
  /\ UNCHANGED <<pageVars, preview>>

ResetPreviewState ==
  /\ preview # Nothing /\ preview' = Nothing /\ shown' = [s \in Slot |-> NoPreview]
  /\ UNCHANGED <<pageVars, previews>>

SheetNext ==
  \/ CloseSheet
  \/ \E t \in Task : \/ HandleOpenTask(t) \/ SheetArrives(t) \/ HandleTaskAction(t)
                     \/ HandleUpload(t) \/ OthersMove(t)
  \/ \E a \in asked : ResultsArrive(a) \/ ResultsFail(a)

DialogNext ==
  \/ ResetPreviewState
  \/ \E t \in Task : HandleOpenPreview(t) \/ HandleCreateTask(t)
  \/ \E v \in Version : HandlePreviewVersionChange(v) \/ HandleCompareVersionChange(v)
  \/ \E p \in previews : PreviewArrives(p)

LoadNext ==
  \/ SwitchTab
  \/ \E c \in calls : CallDone(c) \/ CallAnswered(c) \/ CallFails(c)
  \/ \E r \in reloads : ProjectArrives(r) \/ ProjectFails(r)

PageSpec == PageInit /\ [][SheetNext \/ DialogNext \/ LoadNext]_projectPageVars

-----------------------------------------------------------------------------
\* The files a sheet lists as the results of the stage before belong to completed
\* tasks that come before the task whose sheet it is, in its own unit: an answer
\* for a sheet closed, changed or loaded again in the meantime is not listed.
ResultsFollowSelection ==
  /\ selected = Nothing => results = {}
  /\ selected # Nothing =>
       results \subseteq PreviousOf(page.tasks, selected) \cap page.completed

\* The dialog shows the file it was opened for.
PreviewIsOfOpened ==
  preview # Nothing => \A s \in Slot : shown[s].file \in {preview, Nothing}

\* What was filled in once makes one task.
OneTaskPerForm == Cardinality(created) <= 1
=============================================================================
