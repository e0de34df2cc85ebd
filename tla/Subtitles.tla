------------------------------- MODULE Subtitles -------------------------------
(***************************************************************************)
(* Merging the translations of one episode and settling their conflicts.   *)
(* A merge job replays the submissions of its claims in the order of their *)
(* segments, each as a patch against the one before; a job that finds      *)
(* conflicts stores no text, and a supervisor resolves them one at a time. *)
(*                                                                         *)
(* A subtitle is a function from its events (type, times, layer, style and *)
(* name identify one) to what is left of them: the text and the remaining  *)
(* fields.  Reading, merging and storing are a step each, between the      *)
(* awaits that let other requests in.                                      *)
(***************************************************************************)
EXTENDS Naturals, Sequences, FiniteSets

CONSTANTS
  Line,       \* the events of the episode, apart in time
  Text,       \* what an event may say
  Translator, \* the claims, numbered by segment_start and claimed_at
  Segment,    \* the events whose start lies in each claim's segment
  Resolver,   \* supervisors who may be resolving at a time
  MaxJobs, MaxSubmissions, MaxFiles   \* bounds

ASSUME SubtitlesAssumption == /\ Translator \subseteq Nat \ {0} /\ IsFiniteSet(Translator)
                              /\ Segment \in [Translator -> SUBSET Line]

VARIABLES
  claimStatus,  \* the status of each claim
  submission,   \* the latest submission of each claim
  submissions,  \* history: how many there were
  mergeJob,     \* the MergeJob rows
  conflict,     \* the SubtitleConflict rows
  file,         \* the current version of each subtitle file written here
  resolving     \* what each supervisor's request has read

subtitlesVars == <<claimStatus, submission, submissions, mergeJob, conflict, file, resolving>>

Gone == [text |-> "", fields |-> "none"]   \* the event is not in this subtitle
Event == [text : Text, fields : {"plain", "styled"}]
Subtitle == [Line -> Event \cup {Gone}]
Nothing == [l \in Line |-> Gone]
JobStatus == {"pending", "running", "waiting_conflict_resolution", "completed", "failed"}
None == [uploaded |-> FALSE, subtitle |-> Nothing]

SubtitlesTypeOK ==
  /\ claimStatus \in [Translator -> {"active", "submitted", "approved"}]
  /\ submission \in [Translator -> [uploaded : BOOLEAN, subtitle : Subtitle]]
  /\ submissions \in 0 .. MaxSubmissions
  /\ Len(mergeJob) <= MaxJobs
  /\ \A j \in DOMAIN mergeJob : /\ mergeJob[j].status \in JobStatus
                                /\ mergeJob[j].output \in 0 .. Len(file)
                                /\ mergeJob[j].claims \subseteq Translator
  /\ \A k \in DOMAIN conflict :
       /\ conflict[k].line \in Line
       /\ conflict[k].resolution \in {"unresolved", "resolved_manual", "ignored"}
  /\ Len(file) <= MaxFiles /\ \A f \in DOMAIN file : file[f].subtitle \in Subtitle
  /\ DOMAIN resolving = Resolver

SubtitlesInit ==
  /\ claimStatus = [c \in Translator |-> "active"]
  /\ submission = [c \in Translator |-> None]
  /\ submissions = 0
  /\ mergeJob = <<>> /\ conflict = <<>> /\ file = <<>>
  /\ resolving = [r \in Resolver |-> [at |-> "idle"]]

-----------------------------------------------------------------------------
(* applyAssTextPatch                                                       *)

InSegmentMutant(base, range) == {l \in Line : base[l] # Gone}

\* Events are looked for in the base, by their start time.
InSegment(base, range) == {l \in range : base[l] # Gone}

Clashes(base, current, theirs, l) ==
  \/ current[l] = Gone \/ theirs[l] = Gone
  \/ base[l].fields # theirs[l].fields
  \/ theirs[l].text \notin {base[l].text, current[l].text} /\ current[l].text # base[l].text

Conflicts(base, current, theirs, range) ==
  {l \in InSegment(base, range) : Clashes(base, current, theirs, l)}

\* Only texts change; what the patch adds or removes elsewhere is not looked at.
Patched(base, current, theirs, range) ==
  [l \in Line |->
     IF l \in InSegment(base, range) /\ theirs[l].text # base[l].text
       THEN [current[l] EXCEPT !.text = theirs[l].text]
       ELSE current[l]]

\* One input against the one before it; one that conflicts is left out, and the
\* job will wait.
ReplayStep(inputs, i, before) ==
  LET base == inputs[i - 1].subtitle
      theirs == inputs[i].subtitle
      range == Segment[inputs[i].claim]
      found == Conflicts(base, before.subtitle, theirs, range)
  IN IF found = {}
       THEN [before EXCEPT !.subtitle = Patched(base, @, theirs, range)]
       ELSE [before EXCEPT !.conflicts = @ \cup (found \X {i})]

\* processSerialTranslationMerge
Replay(inputs) ==
  LET upTo[i \in DOMAIN inputs] ==
        IF i = 1 THEN [subtitle |-> inputs[1].subtitle, conflicts |-> {}]
        ELSE ReplayStep(inputs, i, upTo[i - 1])
  IN upTo[Len(inputs)]

-----------------------------------------------------------------------------
(* Translators at work                                                     *)

\* A translator hands in, as text or as a file; for a file the submission
\* row has no text of its own.
SubmitTranslation(c, subtitle, uploaded) ==
  /\ claimStatus[c] = "active" /\ submissions < MaxSubmissions
  /\ submissions' = submissions + 1
  /\ submission' = [submission EXCEPT ![c] = [uploaded |-> uploaded, subtitle |-> subtitle]]
  /\ claimStatus' = [claimStatus EXCEPT ![c] = "submitted"]
  /\ UNCHANGED <<mergeJob, conflict, file, resolving>>

\* The review of the task: the claim is approved, or active again.
ReviewClaim(c, verdict) ==
  /\ claimStatus[c] = "submitted"
  /\ claimStatus' = [claimStatus EXCEPT ![c] = verdict]
  /\ UNCHANGED <<submission, submissions, mergeJob, conflict, file, resolving>>

-----------------------------------------------------------------------------
(* Merge jobs                                                              *)

HandedIn(claims) == {c \in claims : claimStatus[c] \in {"submitted", "approved"}}

CreateMergeJob(claims) ==
  /\ Len(mergeJob) < MaxJobs
  /\ HandedIn(claims) # {}
  /\ mergeJob' = Append(mergeJob, [status |-> "pending", claims |-> claims, output |-> 0,
                                   stage |-> "created", made |-> 0, inputs |-> <<>>])
  /\ UNCHANGED <<claimStatus, submission, submissions, conflict, file, resolving>>

\* createMergeJob lets it run once; a job somebody marked running or
\* completed before is left alone.
BeginMerge(j) ==
  /\ mergeJob[j].stage = "created"
  /\ mergeJob' = IF mergeJob[j].status \in {"running", "completed"}
                   THEN [mergeJob EXCEPT ![j].stage = "done"]
                   ELSE [mergeJob EXCEPT ![j].stage = "begun", ![j].status = "running"]
  /\ UNCHANGED <<claimStatus, submission, submissions, conflict, file, resolving>>

InOrder(claims) ==
  CHOOSE order \in [1 .. Cardinality(claims) -> claims] :
    \A i, k \in DOMAIN order : i < k => order[i] < order[k]

\* The claims and their latest submissions, as the merge reads them; a job
\* whose translations were all returned in the meantime fails.
ReadInputs(j) ==
  LET claims == HandedIn(mergeJob[j].claims)
      order == InOrder(claims) IN
  /\ mergeJob[j].stage = "begun"
  /\ mergeJob' =
       IF claims = {} THEN [mergeJob EXCEPT ![j].stage = "done", ![j].status = "failed"]
       ELSE [mergeJob EXCEPT ![j].stage = "read", ![j].inputs =
               [i \in DOMAIN order |-> [claim |-> order[i], uploaded |-> submission[order[i]].uploaded,
                                        subtitle |-> submission[order[i]].subtitle]]]
  /\ UNCHANGED <<claimStatus, submission, submissions, conflict, file, resolving>>

\* Every conflict becomes a row that names the inputs it is between, or the
\* text becomes a file of its own.
StoreMerged(j) ==
  LET inputs == mergeJob[j].inputs
      result == Replay(inputs)
      Row(c) == [line |-> c[1], a |-> inputs[c[2] - 1], b |-> inputs[c[2]],
                 resolution |-> "unresolved", text |-> Gone] IN
  /\ mergeJob[j].stage = "read"
  /\ IF result.conflicts # {}
       THEN /\ \E rows \in [1 .. Cardinality(result.conflicts) -> result.conflicts] :
                 /\ \A i, k \in DOMAIN rows : rows[i] = rows[k] => i = k
                 /\ conflict' = conflict \o [i \in DOMAIN rows |-> Row(rows[i])]
            /\ mergeJob' = [mergeJob EXCEPT ![j].stage = "done",
                                            ![j].status = "waiting_conflict_resolution"]
            /\ UNCHANGED file
       ELSE /\ Len(file) < MaxFiles
            /\ file' = Append(file, [subtitle |-> result.subtitle, of |-> inputs])
            /\ mergeJob' = [mergeJob EXCEPT ![j].stage = "stored", ![j].made = Len(file) + 1]
            /\ UNCHANGED conflict
  /\ UNCHANGED <<claimStatus, submission, submissions, resolving>>

FinishMerge(j) ==
  /\ mergeJob[j].stage = "stored"
  /\ mergeJob' = [mergeJob EXCEPT ![j].stage = "done", ![j].status = "completed",
                                  ![j].output = mergeJob[j].made]
  /\ UNCHANGED <<claimStatus, submission, submissions, conflict, file, resolving>>

\* A manager sets a status by hand; nothing else changes with it.
UpdateMergeJobStatus(j, status) ==
  /\ mergeJob[j].status # status
  /\ mergeJob' = [mergeJob EXCEPT ![j].status = status]
  /\ UNCHANGED <<claimStatus, submission, submissions, conflict, file, resolving>>

-----------------------------------------------------------------------------
(* resolveConflict                                                         *)

\* The source of one side: the text its submission holds, if it holds one.
Source(side) == IF side.uploaded THEN Nothing ELSE side.subtitle

\* keep is "a", "b" or the text the supervisor wrote.
Resolved(row, keep) ==
  LET preferred == Source(IF keep = "b" THEN row.b ELSE row.a)
      base == IF preferred # Nothing THEN preferred
              ELSE IF Source(row.a) # Nothing THEN Source(row.a) ELSE Source(row.b) IN
  [base EXCEPT ![row.line] = IF keep \in Text THEN [text |-> keep, fields |-> "plain"]
                             ELSE IF preferred[row.line] # Gone THEN preferred[row.line] ELSE @]

\* The conflict, and the job created last with the output it has.
BeginResolve(r, k, keep) ==
  LET j == Len(mergeJob) IN
  /\ resolving[r].at = "idle"
  /\ conflict[k].resolution = "unresolved"
  /\ resolving' = [resolving EXCEPT ![r] = [at |-> "store", conflict |-> k, keep |-> keep,
                                            job |-> j, output |-> mergeJob[j].output, text |-> Gone]]
  /\ UNCHANGED <<claimStatus, submission, submissions, mergeJob, conflict, file>>

\* A new version of the output that was read, or a new file.
StoreResolved(r) ==
  LET it == resolving[r]
      row == conflict[it.conflict]
      resolved == [subtitle |-> Resolved(row, it.keep), of |-> <<>>]
      f == IF it.output = 0 THEN Len(file) + 1 ELSE it.output IN
  /\ it.at = "store" /\ f <= MaxFiles
  /\ file' = IF it.output = 0 THEN Append(file, resolved) ELSE [file EXCEPT ![f] = resolved]
  /\ resolving' = [resolving EXCEPT ![r].at = "mark", ![r].output = f,
                                    ![r].text = resolved.subtitle[row.line]]
  /\ UNCHANGED <<claimStatus, submission, submissions, mergeJob, conflict>>

MarkResolved(r) ==
  LET it == resolving[r] IN
  /\ it.at = "mark"
  /\ conflict' = [conflict EXCEPT ![it.conflict].resolution = "resolved_manual",
                                  ![it.conflict].text = it.text]
  /\ resolving' = [resolving EXCEPT ![r].at = "finish"]
  /\ UNCHANGED <<claimStatus, submission, submissions, mergeJob, file>>

FinishResolve(r) ==
  LET it == resolving[r] IN
  /\ it.at = "finish"
  /\ mergeJob' = [mergeJob EXCEPT ![it.job].status = "completed", ![it.job].output = it.output]
  /\ resolving' = [resolving EXCEPT ![r] = [at |-> "idle"]]
  /\ UNCHANGED <<claimStatus, submission, submissions, conflict, file>>

\* Left for later: the row says ignored, and no text is written.
IgnoreConflict(k) ==
  /\ conflict[k].resolution = "unresolved"
  /\ conflict' = [conflict EXCEPT ![k].resolution = "ignored"]
  /\ UNCHANGED <<claimStatus, submission, submissions, mergeJob, file, resolving>>

\* Translators hand in whatever they like, and everything happens in any order.
SubtitlesNext ==
  \/ \E c \in Translator, subtitle \in Subtitle, uploaded \in BOOLEAN :
       SubmitTranslation(c, subtitle, uploaded)
  \/ \E c \in Translator, verdict \in {"active", "approved"} : ReviewClaim(c, verdict)
  \/ \E claims \in SUBSET Translator : CreateMergeJob(claims)
  \/ \E j \in DOMAIN mergeJob :
       \/ BeginMerge(j) \/ ReadInputs(j) \/ StoreMerged(j) \/ FinishMerge(j)
       \/ \E status \in JobStatus : UpdateMergeJobStatus(j, status)
  \/ \E r \in Resolver :
       \/ \E k \in DOMAIN conflict, keep \in {"a", "b"} \cup Text : BeginResolve(r, k, keep)
       \/ StoreResolved(r) \/ MarkResolved(r) \/ FinishResolve(r)
  \/ \E k \in DOMAIN conflict : IgnoreConflict(k)

SubtitlesSpec == SubtitlesInit /\ [][SubtitlesNext]_subtitlesVars

-----------------------------------------------------------------------------
(* What merging promises                                                   *)

\* A merge that stores a text has taken over from every translator what they
\* changed in their own segment, and the first one's segment as it is: nobody's
\* work is overwritten by a neighbour's edit, by an older copy or by the order.
MergeKeepsWork ==
  \A f \in DOMAIN file : LET of == file[f].of IN
    \A i \in DOMAIN of : \A l \in Segment[of[i].claim] :
      LET mine == of[i].subtitle[l]
          before == IF i = 1 THEN Gone ELSE of[i - 1].subtitle[l] IN
      \/ i = 1 /\ file[f].subtitle[l] = mine
      \/ i > 1 /\ before = Gone                      \* an added event is not looked for
      \/ i > 1 /\ before # Gone /\ mine = before     \* taken over unchanged
      \/ i > 1 /\ mine # Gone /\ file[f].subtitle[l] # Gone /\ file[f].subtitle[l].text = mine.text

\* Once every conflict of the unit is settled, the output shows all of the
\* decisions: "check if all conflicts for this unit are resolved, then
\* regenerate merged version" (the comment in resolveConflict).
DecisionsAreMerged ==
  LET settled == {k \in DOMAIN conflict : conflict[k].resolution = "resolved_manual"}
      output == IF mergeJob = <<>> THEN 0 ELSE mergeJob[Len(mergeJob)].output IN
  (/\ Len(mergeJob) = 1 /\ settled = DOMAIN conflict /\ settled # {}
   /\ \A r \in Resolver : resolving[r].at = "idle")
    => \A k \in settled : file[output].subtitle[conflict[k].line] = conflict[k].text
=============================================================================
