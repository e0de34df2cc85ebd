# Verification of the subtitle group pipeline

TLA+ models of the back end (`src/backend/src`) and of the parts of the web front
end that keep state (`src/frontend/app/src`), TLC configurations that check them
on small instances, and TLAPS proofs of most of what they check, for instances of
any size. The models are translated from the code; where a document or a comment
says something else, the disagreement is in section 5.

    tlc -workers 2 -config unlock_race.cfg MCTaskUnlock     # check a run
    tlapm TaskUnlockProofs.tla                              # check a proof module

## 1. The system

An Express server over a Prisma database, a web front end, a bot bridge and cron
jobs in the server's process. A *project* (a show) has *units* (episodes), each
unit has *tasks* for the stages of its pipeline (source, timing, translation,
post-production, encoding, release), members claim and hand in the tasks,
supervisors review them, and the completion of a stage unlocks the next.

A request is an async function; its steps between two `await`s are atomic and
requests interleave at every `await`. Only a few writes share a transaction
(claiming, deleting a file, archiving), and almost no update is conditional on
the row still being what was read. A page of the front end shows a snapshot; the
answers to what it asked arrive in any order, also after the user went elsewhere.

| Component (code) | State | Operations | What makes it correct | Hard because |
|---|---|---|---|---|
| Task workflow (`modules/task`) | task and dependency rows, status before archive | create, update, delete, claim, assign, start, submit, approve, reject, reset, return, cancel, link, unlink | waiting tasks are unlocked exactly when everything before them is complete; withdrawn work takes what was built on it along | cascades over dependency rows and configured stages, interleavings, recursion |
| Translation stage (same file) | claims of segments and their queue | claim, abandon, submit, approve, reject, reset | disjoint segments, one at work at a time, the queue moves, the next stage opens on approved work | check and write apart, many paths leave the queue |
| Projects, seasons, members (`modules/project`) | project state, episodes, memberships, join requests | archive, recycle, restore, edit a season, add and remove members, ask to join | what was archived comes back; an unconfirmed edit deletes no work; holders are members | round trips across a job that writes too; reads long before the transaction |
| Project access (`project-access.ts`, `task.service.ts`) | tags, grants, configurations | show a project, claim | shown exactly to those who may claim | two modules answer one question from the same rows |
| Templates, upload policies (`modules/template`, `file.service.ts`) | templates and defaults; policies | edit, make default, make a project; check a file | a type keeps a default; a file obeys the policy it was checked by | two writes; two checks for two roles |
| Jobs (`jobs`) | none of their own | overdue, escalation, retention clean-ups | they change only what is still due | read a list, write later; runs overlap |
| Files (`modules/file`) | files, versions and flags, links | upload, replace, approve, delete, link, download | a file keeps a current version, deleted files are gone, links lead where asked | flags cleared and set in separate statements |
| Storage (`modules/storage`) | backends, usage counters, cached adapters | upload, remove, count, reconfigure | what is counted is what is held; versions are found | a request may fail at every await |
| Subtitles (`modules/subtitle`) | merge jobs, conflicts, texts | merge, resolve, parse, write | a merge keeps every line and tells every clash | replay of patches against a moving base |
| Notifications (`modules/notification`) | notifications, deliveries, preferences | create, deliver, escalate, read, dismiss | each is announced once, and reminded of | crash between sending and recording |
| Accounts (`modules/auth`) | users, sessions, codes | register, log in, refresh, reset, rebind, roles | one super administrator; what was handed in is not accepted again | two-step confirmations, overlapping uses |
| Captcha (`modules/captcha`) | attempts, proofs, outage tickets | issue, verify, consume | a proof lets one log-in through | check then act |
| Wiki (`modules/wiki`), set-up (`modules/setup`) | pages with a pending text; the databases and the env file | edit, decide; complete the set-up | the first change waits; a restart finds a whole system | stale reviews; a stop between two writes |
| Web front end (`frontend/app/src`) | pages' lists, dialogs, sessions | ask, show, answer | what is shown, approved or edited is what was opened | late answers, stale rows |
| Announcements, timeline, audit, system settings, API layers, bot bridge, start-up | single rows or none | – | – | nothing a model would add to a test |

`PROJECT.json` lists every component with its status, every hazard with its line and
the lines each definition translates.

## 2. The modules

    TaskRules, TaskWorkflow    every handler and lifecycle operation, handlers atomic
    TaskUnlock                 completing, unlocking, assigning, creating: await by await
    TaskGate, TaskUnlockGate   what unlocking promises, and that TaskUnlock implements it
    TaskClaiming               claiming, starting, returning, assigning: await by await
    TranslationClaims          the translation stage of an episode, handlers atomic
    SegmentClaiming            the claims' queue: await by await
    Seasons                    a season's episodes and the work on them: await by await
    JoinRequests               members and those who ask to be: await by await
    ProjectAccess              who is shown a project, who may claim
    UploadPolicies             which files a project takes, checked twice
    Templates, ProjectWizard   templates; the wizard that opens projects
    FileVersions               the files of a task: await by await
    FileReading, FilesPage     links and permissions; the files page in a browser
    StorageBackends            objects, counters, adapters, admins: await by await
    BrowserUpload              a file in parts: workers, server, object store
    Subtitles, AssFiles        merging and conflicts; files as text
    Outbox, Inbox              notifications going out; the page that shows them
    Accounts                   accounts, sessions, codes
    BrowserSession, MembersPage  one browser's session; the members page
    CaptchaGate                the captcha in front of the log-in: await by await
    WikiPages, SystemSetup     one page and its reviews; the first set-up and its stops
    ProjectPage, LineDiff      the task sheet and the preview; the comparison of versions

`MC...` modules instantiate these for TLC. Small services that share no state are
checked together: `MCServices`, `MCAccounts` and `MCProjects` pick a part in `Init`
and only its operations move, so that one run checks several modules. The theorems
are in eight modules (`ClaimingProofs`, `TaskUnlockProofs`, `TaskWorkflowProofs`,
`TranslationClaimsProofs`, `FilesProofs`, `AccountsProofs`, `ServicesProofs`,
`ProjectsProofs`), each of which extends the modules it is about.

Two kinds of module divide the workflow. *TaskWorkflow* and *TranslationClaims* take
a handler as one step and cover all handlers and their effects on each other;
*TaskUnlock*, *TaskClaiming*, *SegmentClaiming* and *FileVersions* take every
`await` as a step and cover the few handlers whose overlap matters, over as
little state as that needs.

**TaskRules, TaskWorkflow** (`task.service.ts`, `project.service.ts`,
`overdue.task.ts`, `recyclebin.cleanup.ts`). `db` is the task table: status, role,
assignee, `status_before_archive` and the dependency rows of each task;
`project`, `members` and `late` are the project row, the memberships and
which due dates have passed. One action per handler, with the call that ends it:
`ApproveTask` unlocks downstream, `ResetTask` cascades, `CancelTask` freezes.
`deleteTask` reconciles its dependents one by one in an order the database
chooses, so `ReconcileDependent` is a step of its own, before any other
(`todo`). The recursions over dependents, which keep no visited set, are
modelled by what they reach (`Reach`) and by whether they return (`HasCycle`, which
sets `hung`). All tasks are of one project; roles exclude translation, whose
handlers branch off; the configured pipeline is a constant; `Managers` are the users
for whom `canManageProjectTasks` holds by role or ownership; review rows, timeline
and audit entries are left out, since no handler reads them back; `Ops` switches
operations off, so that a run spends its states on what it asks.

**TaskUnlock.** Requests `Handler` complete tasks: write `completed`, list the
downstream rows, ask for each pending one in two parallel queries whether
everything before it is completed, and write it unlocked *by id alone*. The
supervisor's `assignTask` and `createTask` run between them as a read, a decision and a
write. **TaskGate** is the promise without any of this; `TaskUnlockGate` maps the one
to the other, with `finished` remembering which tasks ever were.

**TaskClaiming, SegmentClaiming.** The row a request read decides what it writes
later. Claiming writes in a transaction whose first statement is conditional
(`ClaimWrite` or `ClaimConflict`); every other write is unconditional.

**FileVersions.** The flags `is_current`, `is_latest`, `is_latest_approved` are
sets of version numbers per file; `appendFileVersion`, `approveVersion` and
`resolveCurrentVersion` are split at each `await`.

**StorageBackends.** A version has no backend of its own: it is looked for on the
one its file names. Requests and jobs note where they are in `task`; `cache` is
`adapterCache`, by the configuration an adapter was made of. `Overlap` says whether
requests run at the same time; the promises are for those that do not, but they fail
half-way wherever they can.

**UploadPolicies.** A rule names extensions, MIME types and file types. The server
(`Allows`) looks for the first of three policies with a rule that names anything and
goes by its extensions, its size and its list; the chooser (`Offered`) goes by the
project's own rule, MIME and file types included, and by the role's file types where
there is none. `PoliciesAgree` speaks of rules that name extensions, where the two mean
the same; section 5 has what is offered and refused besides. `BeginUpload` keeps the
role a file's metadata name; `given` tells whether the role was checked.

**ProjectPage.** A change asked for from the page is three steps: the request, what the
server does, and the answer, which comes whatever the page is doing by then and loads it
again. A load takes the tabs off the page, and the first to end puts them back: one
that ends later replaces the snapshot under an open sheet, and the effect that lists the
results of the stage before runs again. `here` tells whether the tabs a change was asked
from are still there; if so, its button is off.

**AssFiles, LineDiff.** What the server and the page compute from texts, as the code
computes it: loops are recursive functions over the number of turns made (`Process`
parses a line, `Walk` goes a line on through the two texts, `Extend` adds a range). A
line is a record of what the parser tells apart in it, a text of a dialogue line a
sequence of words and of the marks the format replaces. The state holds what a request
was given and what it answered, so a property relates the two.

**BrowserUpload.** Workers share `nextPartNumber` and push what was answered;
the sort before completion is `InPartOrder`. A failed initiation starts no worker.

**Outbox, Inbox.** A delivery is a row written before the message goes out and again
after it; `Crash` stops the server in between. The scheduler starts the escalation job
every half hour and keeps no run from overlapping with the next (`scheduler.ts:33`):
`Job` is the set of the runs that may, and the promises are stated in its size. The page asks for its list once and
from then on believes what it is told.

## 3. The runs

| Run | Instance | Shows |
|---|---|---|
| `wf_flow` | three tasks in a chain, dependency rows beside the stages, a supervisor and a member, seven kinds of handlers besides the workers' own | `PendingMeansWaiting`, `StaleWorkIsReset`, `CancelFreezesDownstream`, `AssigneesAreMembers` |
| `wf_all` | two tasks that may change role, dependencies upstream to downstream and on themselves, all operations but late dependency edits | `ArchiveRoundTrip`: every status survives archive, recycle bin and the overdue job |
| `unlock_race` | two completing requests on the two tasks a third waits for, one by a row, one by its stage; another task assigned and one created meanwhile | `ImplementsGate` (the refinement), `EventuallyUnlocked` |
| `claim_race` | four requests of any kind on a task, three users | `OneWinner` |
| `tr_all` | a task, three claims, all operations, segments that overlap, touch and contain each other | `SegmentsDisjoint`, `OpenStageRestsOnFinishedWork` |
| `tr_serial` | two tasks, two claims; no reset and no member removed | `OneAtATime`, `QueueMoves` |
| `seg_queue` | three claiming and two ending requests | `QueueKeepsMoving` |
| `file_race` | five requests of any kind, two file ids, three versions | `SomeVersionIsCurrent`, `DeletedIsGone` |
| `accounts` | three accounts, two QQ numbers, two sessions, four codes, both registration modes; two captcha callers and providers; a members page; two templates and administrators; a wizard with two projects (1.5 million states) | `OneSuperAdmin`, `LoggedOutStaysOut`, `RebindNeedsOldNumber`, `ProofsAreSpentOnce`, `NumbersSurviveEdits`, `RecoveryStaysRestricted`, `DefaultSurvives`, `CreatedIsWhole` |
| `services` | three lines and translators; a notification, two overlapping runs of the escalation job, or one run and a stop; two notifications on a page; two backends and uploads, one backend bound; three databases and two set-ups; two editors and a reviewer; four parts and three workers; links and a files page; join requests (577 000 states) | `TypeOK`, `RemindersAreFew`, `MergeKeepsWork`, `StorageAddsUp`, `FilesLeadWhereAsked`, `RemoteIsReady`, `FirstChangeWaits`, `CompleteNamesEveryPart`, `AssFilesTellAll`, `ShownReadIsRead`, `EventuallyReminded`, `SavesWhatIsShown` |
| `projects` | two episodes, three rows of work; two roles, tags and every tag set; three policies and the default, with rules that name extensions, MIME types or file types, and an uploader; a page with two translations, the first of which is done, undone or deleted, and two changes under way, and one with a third task to be made; all texts of up to five lines of two words (1.3 million states) | `UnforcedKeepsWork`, `CandidatesMayClaim`, `PoliciesAgree`, `ResultsFollowSelection`, `DiffTellsTheChange` |
| `merge_decisions` | two conflicting translations and a supervisor | violation of `DecisionsAreMerged`, section 5 |

Bounds. Three tasks are a chain with a middle, which is what a cascade can stop
short at; two completing requests are what it takes for each to miss the other's
write. Segments are drawn from three seconds, enough for two that are apart, touch,
overlap or contain each other. `MaxVersion` = 3 lets an upload overlap with another
that overlaps with a third. Two answers under way (`MaxAnswers`, `MaxReplies`,
`MaxMail`, `MaxRequests`) are what it takes for one to overtake another. One crash and
one server stop fall at every point of a run. Requests are made at most once each in
the modules split at awaits, which end when all have been made: the deadlock check is
off there, and where a permanently deleted project admits nothing (`wf_all`).

Symmetry is used for requests, claims and file ids, which no action tells apart, in
runs without liveness.

Fairness. Two runs check liveness. `EventuallyUnlocked` assumes weak fairness of the
steps of a request that has begun (`Continue(h)`, `EditorStep`): the event loop resumes
an `await` when its query answers. `EventuallyReminded` assumes it of the escalation
job (`JobStep`), which the scheduler starts every time its hour comes. Nothing is
assumed of people: nobody is made to work, hand in, review, read or click.

## 4. The proofs

All for any tasks, users, dependencies, requests, messages and bounds. The
assumptions are those named in the modules (`...Assumption`), which TLC evaluates in
every run, and the hypotheses in the table; each excludes exactly a case in which the
code does otherwise (section 5).

| Theorem | States | Argument |
|---|---|---|
| `TaskUnlockProofs!UnlockImplementsGate` | `ImplementsGate`, if what is assigned or created meanwhile is of a first stage (`FreeEdits`) | every write is one step of the gate or none: a request that checks a task has asked only about tasks that were completed once (`finished`) |
| `TaskUnlockProofs!UnlocksAreKept` | no unlock is lost between requests, if `FirstStageEdits` | an answer *no* means another request has still to complete its task |
| `TaskWorkflowProofs!NoUnlockIsLost` | `PendingMeansWaiting`, if no content or role is edited and archived dependencies are left alone | `WaitInv` with the archive's: a cascade leaves every task it puts back below one not completed. Without the hypotheses it fails: an edit's cascade puts a dependent back below a task that itself stays completed, a role change reconciles nothing |
| `…!WithdrawnWorkIsReset`, `CancelReachesDownstream` | `StaleWorkIsReset`, `CancelFreezesDownstream` | what the recursion reaches is closed under dependencies, cycles included |
| `…!ArchiveGivesBack` | `ArchiveRoundTrip`, if archived dependencies are left alone | `status_before_archive` agrees with the history while the project is archived, whatever the overdue job does |
| `…!HoldersStayMembers` | `AssigneesAreMembers`, if assignees are not edited and members not removed | the removal after a return counts the tasks of the table the handler leaves |
| `…!AcyclicHandlersReturn` | every recursion ends, if `DepEdges` has no cycle | a subset of an acyclic relation is acyclic |
| `ClaimingProofs!PoolStaysFree`, `ClaimsHaveOneWinner` | `OneWinner` | a win stands for the current epoch of its task and leaves it held; only a return ends the epoch |
| `ClaimingProofs!QueueAlwaysMoves` | `QueueKeepsMoving` | every request writes its claim before it looks |
| `TranslationClaimsProofs!ClaimsAreDisjoint` | `SegmentsDisjoint` | nothing moves a segment or revives a claim but `claimTranslationSegment`, which asks the live ones |
| `…!WorkIsSerial` | `OneAtATime`, without resets | `ActivateNext` asks whether anybody works; who leaves is alone |
| `…!StageNeverStalls` | `QueueMoves`, without removals of members | every other path out of the queue ends in `ActivateNext`; some claim of a finite set is the first |
| `…!NextStageRestsOnFinishedWork` | `OpenStageRestsOnFinishedWork` | whatever takes a claim or a task of a completed stage up again is a reset, whose cascade closes the stage after it in the same step |
| `FilesProofs!FilesStayServable` | `SomeVersionIsCurrent` | the flag is cleared only by a request that will set it |
| `FilesProofs!LatestIsNewest` | only the newest version is marked latest | versions are numbered without gaps, and while an upload's number is free nobody has marked a version since it cleared the marks |
| `FilesProofs!DeletedStaysGone` | `DeletedIsGone` | a late download gets no further than the look at the file |
| `FilesProofs!FilesAreTheOnesAsked` | `FilesLeadWhereAsked` | `LinksInv`: a reused link carries the version asked for and lasts longer than the threshold; verdicts are of the file the sheet is of |
| `FilesProofs!EveryPartIsNamed` | `CompleteNamesEveryPart` | `PartsInv`: every number below the counter is answered once or with one worker; the only rising arrangement of 1..n is the identity (minimal counterexample) |
| `FilesProofs!StorageKeepsItsBooks` | `StorageAddsUp`, for a project with a backend of its own | `StorageInv`: whoever works is alone; the counter holds the bytes of the objects there, less those written and not counted yet, plus those removed and still counted (`Counted`); `BytesOfOneMore` is the sum's step |
| `AccountsProofs!SuperAdminIsUnique` | `OneSuperAdmin` | rows that are gone are nobody's super administrator |
| `…!LogoutIsFinal` | `LoggedOutStaysOut` | what was handed in is revoked or past its time |
| `…!OldNumberConfirms` | `RebindNeedsOldNumber` | `RebindInv` relates the two challenges of a request |
| `…!RestrictionHolds`, `NumbersAreKept` | `RecoveryStaysRestricted`, `NumbersSurviveEdits` | what answers under way carry, and which session they are of |
| `…!OneLogInPerProof` | `ProofsAreSpentOnce` | `GateInv`: redeeming is conditional on the row, so of two overlapping callers one changes it |
| `ProjectsProofs!DefaultIsKept`, `CreatedProjectsAreWhole` | `DefaultSurvives`, `CreatedIsWhole` | `MarkInv`: whoever cleared the marks will set one; `WizardInv` counts the requests still out |
| `…!UnconfirmedEditsSpareWork` | `UnforcedKeepsWork` | `SeasonInv`: what the edit read covers what was there when it began |
| `…!ShownWorkMayBeClaimed`, `PolicyIsObeyed`, `SheetListsItsOwn` | `CandidatesMayClaim`, `PoliciesAgree`, `ResultsFollowSelection` | the two modules' conditions are compared entry by entry; `PoliciesInv`: what is about to be written was checked under the role it is recorded for, unless only its metadata name one; `SheetInv`: whatever is still awaited was asked for the task that is selected, on the snapshot that is shown |
| `ServicesProofs!RestartFindsWholeSystem` | `RemoteIsReady` | `SetupInv`: how far each set-up has come says what its database holds |
| `…!ChangeWaitsForReview` | `FirstChangeWaits` | `ReviewInv`: a request that will write the page read it before or after the approval, and either way does not touch the approved text |
| `…!NobodyIsPestered` | `RemindersAreFew`, runs of the job overlapping or not | `OutboxInv`: a message is out only with its row or with a request about to write it, and every run owes a notification at most one reminder: the reminders sent, with those still owed, do not exceed the runs times the starts of the server |
| `…!MergedWorkIsKept` | `MergeKeepsWork`, if no two claims share an event (`ClaimsAreDisjoint` proves it of claims that live) | `SubtitlesInv`: what a job has read are submissions of different claims in rising order; every step of the replay keeps what the steps before took over (`ReplayKeepsWork`, `PatchTakesOver`) |
| `…!FilesTellAll` | `AssFilesTellAll`, if the times of a file have no sign and a merge is given a file (`AssAssumption`) | `AssInv` says which computation each answer is. Reading numbers its lines from one and keeps times that fit; writing and reading again is the identity on such lines (`Process` goes back over what it wrote, section by section); the lines of a merge are put in order by `ByStart`, a bijection, and the pass over them leaves out a line only for an equal one before it |
| `…!DifferenceIsTold` | `DiffTellsTheChange`, if at least one row is kept around a change (`DiffAssumption`; the code keeps three) | `Path`: the rows found, by the table or by line numbers, go by every line of both texts in order. `RangesTo`: the ranges are in order and apart, and every change lies in one with its surroundings. So the texts agree between the ranges (`SameInBetween`), each header counts what its part of the path goes by (`HunkTells`), and the parts put together are the new text (`PatchedIsNew`). With no row kept around a change a hunk may hold no old line, its header says 0 for where it belongs, and nothing tells where to put it |
| `…!NothingUnreadIsHidden`, `SavedFormIsKept` | `ShownReadIsRead`, `SavesWhatIsShown` | answers under way are true (`AnswerIsTrue`), notifications only advance; kinds and hours read back from the row are those of the form |

Each module also proves its types. The pattern is the same throughout: `Init => IInv`,
`IInv /\ [Next]_vars => IInv'` with one step per action, `IInv => Inv`. The invariants
were checked by TLC as invariants of a run before they were proved (of `SubtitlesInv`,
whose lists may hold anything, `MergeKeepsWork` only).

Recursions. The library's induction theorems take an operator as a parameter, which the
provers cannot instantiate. What the recursive functions of `AssFiles` and `LineDiff`
compute for every text is proved without them: `LeastNumber` (a nonempty set of numbers
has a least element, from the library's well-founded relations) gives `StepByStep`,
induction over a *set* of numbers; `RecursionIsDefined` shows with it that a function
defined by what a turn makes of the turn before exists, so that the recursive definition
may be unfolded at every number; and each proof then names the set of turns after which
what it claims of the loop holds. `ReplayUnfolds` and `EveryPartIsNamed` take a least
counterexample.

Only model-checked:
 - `EventuallyUnlocked`, `EventuallyReminded`: liveness; the prover handles neither fairness nor `ENABLED`. What they rest on and is safety is proved (`UnlocksAreKept`, `NobodyIsPestered`);
 - `TypeOK` of `MCServices`: it joins the types of parts that share no state, which are proved part by part where the theorems above need them.

## 5. Known disagreements between the code and what is said of it

Listed run: `merge_decisions`, `DecisionsAreMerged`. `resolveConflict` starts every
decision from the translation it keeps and stores it as the newest version: of two
decisions only the last is in the text (`subtitle.service.ts:1803` "then regenerate
merged version").

Instances found while modelling, each confirmed with TLC. To see one, take the
configuration named, change the constants as listed and check the one property
(WP is `docs/WORKFLOW_AND_PERMISSIONS.md`, UG `docs/user-guide.md`; a property with
(a) is an action property: PROPERTY, and no SYMMETRY).

| Base, constants | Property | The code | What is said |
|---|---|---|---|
| `claim_race`: three requests, `Kinds` claim, return | `HoldersAreMembers` | a return deletes a membership after the user claimed again | WP:92 |
| `claim_race`: `Kinds` claim, return | `HolderReturns` (a) | a return takes a task from the user it was reassigned to | WP:157 |
| `claim_race`: two requests, `Kinds` claim, start | `StartKeepsHolder` (a) | a manager's start overwrites a claim that won since it read | WP:156 |
| `unlock_race`: `Task` left, right, bottom; `Assignable` bottom, `Creatable` none (or the reverse) | `EventuallyUnlocked` | `assignTask`, `createTask` write `pending_publish` decided before a completion | WP:100 |
| the same, both empty | `CompletedStays` | the unlocking write is by id alone: a task meanwhile completed goes back to claimable | WP:110 |
| `tr_all`: two claims, `Segments <- Halves`, `Ops` reset | `OneAtATime` | resetting a task makes a second claim active | README.md:21 |
| `tr_serial`: `Length` 0, `Ops` none | `ApprovedStageCompletes` | approving a claim followed by a claim of another task leaves the task submitted, and the stage never completes | `project.test.ts:2630` |
| `tr_serial`: one task and claim, `Segments <- Thirds`, `Length` 3, `Ops` none | `WholeEpisodeTranslated` | the stage completes when every task is approved, with parts never claimed | README.md:23 |
| `seg_queue`: two claimants, no enders, `Segments <- HalvesAndWhole` | `SegmentsDisjoint` | the overlap is checked before the transaction | WP:86 |
| `seg_queue`: two claimants, no enders | `OneAtATime` | two requests each find nobody at work | README.md:21 |
| `file_race`: three requests, `Kinds` upload, replace, approve | `CurrentIsResolved` | overlapping uploads and approvals leave two current versions, or the wrong one | `file.service.ts:1251` |
| `wf_flow`: two tasks, `Pipeline <- TwoStages`, no dependencies, `Ops` resetTask | `NextStageIsReset` | `cascadeResetDownstream` follows dependency rows only | WP:114 |
| the same with dependencies | `UnstartedStaysUnstarted` | the cascade puts an assigned task nobody started in progress | WP:116 |
| `wf_flow`: two tasks, no dependencies, `Ops` updateAssignee | `AssigneesAreMembers` | `updateTask` writes an assignee without a membership | WP:92 |
| `wf_all`: a supervisor and ann, `RolesOf <- StageRoles`, no dependencies, `Ops` removeMember | `OpenTasksHeldByMembers` | `removeMember` leaves pre-assigned pending and frozen tasks with the removed member | WP:163 |
| `wf_all`: `DepEdges <- LateLink`, `Ops` cancelTask, archiveProject, archivedDependency | `ManualFreezeKept` | dependencies may be edited in an archived project, which may unfreeze a task | WP:121 |
| `wf_all`: `DepEdges <- Loop`, `Ops` resetTask | `HandlersReturn` | two tasks may depend on each other, and a reset then recurses without end | `task.service.ts:3384` |
| `services`: `Binding` NoBackend, two resolvers | `VersionsReachable` | a file follows the default backend, its older versions do not | UG:613 |
| `services` | `EveryChangeWaits` | a second edit of a page replaces the first while it waits | UG:1798 |
| `services` | `FailedLeavesNothing` | the browser gives up on a completion that is then recorded | the page's own report |
| `services`: `MaxFileVersions` 4 | `ListShowsCurrent` | lists read a window of versions | the file's own page |
| `services` | `CodesAreKept`, `OneBucketPerTask` | cloud-drive links share a bucket row, written back from an old read | the list itself |
| `services` | `ReplacedWhereListed`, `ComparesOneFile` | a replace target outlives its dialog; a late preview joins another file's | the page itself |
| `services` | `RefusedStaysOut`, `GivenRoleKept` | two answers to one request; an invitation overwritten by an older answer | the answer given |
| `services` | `DismissedStaysGone`, `AllReadMeansRead`, `OnlyEditsAreSaved` (a) | dismissed notifications are listed again; "all read" is told to nobody; the form rounds what it saves | the page itself |
| `accounts` | `RebindIsConfirmed` | a later request's mark on the old challenge passes for a confirmation | `src/nonebot-bridge/README.md:183` |
| `accounts` | `RowsSettle`, `TagsOfNamed` (root and ann managed) | answers for one account overtake each other | the page itself |
| `accounts` | `ShownIsSignedIn`, `ResetsNamedAccount`, `SessionsEndByTheirOwn` (a) | answers of an earlier session are taken for the present one's | the page itself |
| `accounts` | `OneDefault`, `EditKeepsType` (a), `UsedTemplateStays` | two administrators, two writes; a form knows three of the types; a look before the delete | the page itself |
| `accounts` | `OneProjectPerForm`, `ChosenTypeKept`, `PlacesAsOffered` | the wizard creates again after a member failed; the template decides | the form |
| `projects` | `OfferedIsLetIn` | the chooser offers the files of a rule's MIME and file types (`taskWorkflow.ts:192`), and the role's own where the policy has no rule (`:261`); the server looks at extensions only, and asks the global policy then (`file.service.ts:390`) | the page itself |
| `projects` | `RecordedRoleIsObeyed` | a role that only the metadata name is kept (`file.service.ts:647`) and not checked | README.md:31 |
| `projects` | `TemplateEditsStayOut` (a) | required tags fall back to the template as it is now | WP:39 |
| `projects`: `MaxAsked` 2, two versions; four tasks | `PreviewIsOfOpened`; `OneTaskPerForm` | preview answers are not cancelled; a failed answer is retried with the same form | the dialog itself |

Where the front end and the documents or the server disagree without a run: the page
offers segment claims to assignees and managers only (`ProjectDetailPage.tsx:967`) while
WP:66 and WP:154 open them to holders of the tag; a start is offered to an assignee whose
claim is pending; members with `is_lead` manage on the server and are offered nothing;
a task holder who is no member may list a project's files and not open them;
`compareVersions` never fills `modified`; a presigned address outlives the deletion of
its file; an empty QQ number is sent as null, which the server reads as not sent; signing
out tells the server nothing; only the newest 20 notifications can be reached.

## 6. What is not modelled

Wording, formatting, routing, input validation, outgoing mail, the object store's own
protocol and the captcha service, which is another repository; announcements, timeline,
audit and system settings. Code that nothing calls: `createTranslationClaim`,
`releaseTranslationClaim` and `submitTranslation` of `subtitle.service.ts`,
`createConflict`, `createSnapshot`, `createMergeJobLegacy`, the notification hooks,
`processChannelEscalation`, `processOverdueEscalation`, `matchesAllowedType` and
`inferFileTypesFromFile`. Modelled as less than it is: `FileReading` has a disk backend
only; `createReview` and `updateReview` of subtitles write a task's status without
`approveTask`'s steps (a hazard without a property); a crash between two awaits is an
action of `Outbox` and `SystemSetup` only, since elsewhere the code has no recovery to
check (hazard at `task.service.ts:2689`); a `workflow_config` in object form, which
`project-access.ts:25` reads and nothing writes; a rule for everybody beside rules by
role, and the extensions and the size refused whatever the policies say; the recycle bin purges a project restored after
the job listed it.

## 7. Where to go on

1. The hypothesis of `StorageKeepsItsBooks` is what the code needs; a weaker one would be a finding about overlap.
2. Lemmas stated twice for different modules (newest of a set, ends of a queue) belong in a form all can cite.
3. Hazards without a property (`PROJECT.json`): each needs an operation that no module has yet, above all a crash between two awaits, once the code recovers from one.
