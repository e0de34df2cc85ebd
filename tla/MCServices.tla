------------------------------ MODULE MCServices ------------------------------
(***************************************************************************)
(* The services around the workflow, for TLC.  They share no state, so a   *)
(* behaviour plays one of them: Init picks the part, and only its          *)
(* operations move.  The merging and the resolving of subtitles are parts  *)
(* of their own: resolving starts from translations that do conflict.      *)
(***************************************************************************)
EXTENDS Subtitles, Inbox, StorageBackends, SystemSetup, WikiPages, BrowserUpload,
  AssFiles, FileReading, FilesPage, JoinRequests

CONSTANTS l1, l2, l3, s1, s2, n1, n2, j1, j2, b1, b2, u1, u2   \* model values

VARIABLE part
vars == <<subtitlesVars, outboxVars, storageVars, setupVars, wikiVars, uploadVars, assVars,
          readingVars, linkingVars, filesPageVars, joinVars, inboxVars, part>>

MCSegment == [c \in Translator |-> {<<l1, l2, l3>>[c]}]
MCSize == [u \in Upload |-> IF u = u1 THEN 1 ELSE 2]

-----------------------------------------------------------------------------
(* Subtitles: each translator works on the one before's, in turn.          *)

Own(c) == CHOOSE l \in Segment[c] : TRUE
Draft(c) == IF c > 1 /\ submission[c - 1] # None THEN submission[c - 1].subtitle
            ELSE [l \in Line |-> [text |-> "raw", fields |-> "plain"]]
Said(c, lines, t) ==
  [l \in Line |-> IF l \in lines /\ Draft(c)[l] # Gone THEN [Draft(c)[l] EXCEPT !.text = t] ELSE Draft(c)[l]]
Styled(c) == [Draft(c) EXCEPT ![Own(c)].fields = "styled"]
Removed(c) == [Draft(c) EXCEPT ![Own(c)] = Gone]
InTurn(c) == \A d \in Translator : d < c => claimStatus[d] # "active"
Merge(j) == BeginMerge(j) \/ ReadInputs(j) \/ StoreMerged(j) \/ FinishMerge(j)
Resolve(r) ==
  \/ \E k \in DOMAIN conflict, keep \in {"a", "b", "ours"} : BeginResolve(r, k, keep)
  \/ StoreResolved(r) \/ MarkResolved(r) \/ FinishResolve(r)

\* They edit their own line, and one of a neighbour's with it or not.
Merging ==
  \/ \E c \in Translator : InTurn(c) /\
       \/ \E l \in Line, t \in {"raw", "ours"} : SubmitTranslation(c, Said(c, {Own(c), l}, t), FALSE)
       \/ SubmitTranslation(c, Styled(c), FALSE) \/ SubmitTranslation(c, Removed(c), FALSE)
  \/ ReviewClaim(2, "active")
  \/ submissions >= 2 /\ CreateMergeJob(Translator)
  \/ \E j \in DOMAIN mergeJob : Merge(j)

\* Every translator changes the fields of their line, or the last line too.
Resolving ==
  \/ \E c \in Translator : InTurn(c) /\
       \/ SubmitTranslation(c, Styled(c), c = 3)
       \/ SubmitTranslation(c, Said(c, {Own(c), l3}, IF c = 3 THEN "theirs" ELSE "ours"), c = 3)
  \/ ReviewClaim(1, "approved")
  \/ submissions = 3 /\ CreateMergeJob(Translator)
  \/ \E j \in DOMAIN mergeJob : Merge(j) \/ UpdateMergeJobStatus(j, "completed")
  \/ \E k \in DOMAIN conflict : IgnoreConflict(k)
  \/ \E r \in Resolver : Resolve(r)

-----------------------------------------------------------------------------
\* One notification; the account may turn everything but the site off, not on again.
Sending ==
  \/ Create(n1) \/ RequestStep(n1) \/ NoteAges(n1) \/ MarkAsRead(n1) \/ DismissNotification(n1)
  \/ JobStep(j1)
  \/ \E d \in Deliveries : MailAges(d)
  \/ UpdateNotificationPreferences({"in_site"})
  \/ Crash

\* The next run starts before the last has ended.
Runs == \E j \in Job : JobStep(j)
Overlapping ==
  \/ Create(n1) \/ RequestStep(n1) \/ NoteAges(n1) \/ Runs
  \/ \E d \in Deliveries : MailAges(d)

-----------------------------------------------------------------------------
\* Times of 1.5 and 75 seconds, one that overlaps both, and a part of a time.
A == <<0, 0, 1, 50>>
B == <<0, 0, 75, 0>>
Long == <<0, 1, 16, 0>>
RawLines ==
  {Header(s) : s \in {"script info", "styles", "events", "fonts"}}
  \cup {Pair("Title", "t1"), Pair("Title", "t2"), Pair("WrapStyle", "0"), Style("Default"),
        [Style("Other") EXCEPT !.complete = FALSE],
        Dialogue(A, B, <<" ", "a", "\\n", "{tag}">>), Dialogue(B, B, <<"\\N", "a", "\\N">>),
        Dialogue(B, A, <<>>), [Dialogue(A, A, <<"a">>) EXCEPT !.complete = FALSE],
        Dialogue(A, <<0, 1>>, <<"a">>)}
MCAssFile == {<<Header(s), x, y, z>> : s \in {"script info", "events"}, x, y, z \in RawLines}
Lines == {Dialogue(s, e, x) : s \in {A, B}, e \in {<<0, 0, 2, 0>>, Long}, x \in {<<"a">>, <<"b">>}}
One == {<<Header("events"), l>> : l \in Lines}
Two == {<<Header("events"), k, l>> : k, l \in Lines}
MCMergeInput == {<<f, g>> : f \in One \cup Two, g \in One} \cup {<<f, g, h>> : f, g, h \in One}

-----------------------------------------------------------------------------
\* A video whose links last as the project or the settings say, or as asked; another
\* file; and a sensitive one, whose reader may lose their place in the project.
NoTtl == [s \in {"project", "retention"} |-> Unset]
Reads ==
  /\ kept.video \/ ttl = NoTtl
  /\ kept.sensitive => ~kept.video
  /\ ttl["project"] = Unset \/ ttl["retention"] = Unset
Reading ==
  \/ \E u \in Reader :
       \/ kept.sensitive /\ SetStanding(u, "timing")
       \/ \E asked \in 0 .. MaxFileVersions, t \in Ttls : GetDownloadLink(u, asked, t)
       \/ \E asked \in 0 .. MaxFileVersions : GetFilePreview(u, asked)
       \/ DeleteKept(u)
  \/ \E v \in Versions : ApproveVersion(v)
  \/ AddVersion \/ Tick

-----------------------------------------------------------------------------
\* The files page: whoever it is approves and deletes, the owner does the rest.
MCShelfOf == [f \in Shelf |-> IF f = "f2" THEN "p2" ELSE "p1"]
OnFilesPage == {"approving", "deleting", "replacing", "previewing"}
FilesPageStep ==
  /\ \/ Browsing
     \/ part = "approving" /\ Approving
     \/ part = "deleting" /\ (Deleting \/ Approving)
     \/ part = "replacing" /\ Replacing
     \/ part = "previewing" /\ Previewing

-----------------------------------------------------------------------------
Parts == OnFilesPage \cup {"merging", "resolving", "sending", "overlapping", "storing", "founding",
          "writing", "uploading", "parsing", "reading", "linking", "joining", "mailbox", "preferring"}

Init == /\ part \in Parts
        /\ OutboxInit
        /\ part = "sending" => "email" \in prefs \cap address
        /\ part = "overlapping" => prefs = {"in_site", "email"} /\ address = Channel
        /\ part \notin {"sending", "overlapping"} => address = {} /\ prefs = IF part = "preferring" THEN {"in_site", "email", "qq"} ELSE {}
        /\ SetupInit /\ (part # "founding" => envFile.names = "lite")
        /\ WikiInit /\ (part # "writing" => mustAsk)
        /\ FilesInit /\ present = {"f1", "f2"}
        /\ part \notin {"approving", "deleting"} => viewer = "owner"
        /\ ReadingInit /\ standing = [u \in Reader |-> "source"]
        /\ IF part = "reading" THEN Reads ELSE kept.video /\ ~kept.sensitive /\ ttl = NoTtl
        /\ SubtitlesInit /\ StorageInit /\ UploadInit /\ AssInit /\ JoinInit /\ InboxInit

\* What does not belong to the part keeps its state.
OnlyPart(ps, state) == IF part \in ps THEN TRUE ELSE UNCHANGED state
Elsewhere ==
  /\ OnlyPart({"merging", "resolving"}, subtitlesVars)
  /\ OnlyPart({"sending", "overlapping", "mailbox", "preferring"}, outboxVars)
  /\ OnlyPart({"mailbox", "preferring"}, inboxVars)
  /\ OnlyPart({"storing"}, storageVars)
  /\ OnlyPart({"founding"}, setupVars)
  /\ OnlyPart({"writing"}, wikiVars)
  /\ OnlyPart({"uploading"}, uploadVars)
  /\ OnlyPart({"parsing"}, assVars)
  /\ OnlyPart({"reading"}, readingVars)
  /\ OnlyPart({"linking"}, linkingVars)
  /\ OnlyPart(OnFilesPage, filesPageVars)
  /\ OnlyPart({"joining"}, joinVars)
  /\ UNCHANGED part

Next ==
  \/ part = "merging" /\ Merging /\ Elsewhere
  \/ part = "resolving" /\ Resolving /\ Elsewhere
  \/ part = "sending" /\ Sending /\ Elsewhere
  \/ part = "overlapping" /\ Overlapping /\ Elsewhere
  \/ part = "mailbox" /\ MailboxNext /\ Elsewhere
  \/ part = "preferring" /\ SettingsNext /\ Elsewhere
  \/ part = "storing" /\ StorageNext /\ Elsewhere
  \/ part = "founding" /\ SetupNext /\ Elsewhere
  \/ part = "writing" /\ WikiNext /\ Elsewhere
  \/ part = "uploading" /\ UploadNext /\ Elsewhere
  \/ part = "parsing" /\ AssNext /\ Elsewhere
  \/ part = "reading" /\ Reading /\ Elsewhere
  \/ part = "linking" /\ LinkingNext /\ Elsewhere
  \/ part = "joining" /\ JoinNext /\ Elsewhere
  \/ part \in OnFilesPage /\ FilesPageStep /\ Elsewhere

\* What OutboxFairness asks, of the parts that have jobs to run: some run goes on.
JobGoesOn ==
  \/ part = "sending" /\ JobStep(j1) /\ Elsewhere
  \/ part = "overlapping" /\ Runs /\ Elsewhere
Spec == Init /\ [][Next]_vars /\ WF_vars(JobGoesOn)

\* The state of the parts not played stays what Init makes it.
In(ps, typeOK) == part \in ps => typeOK
TypeOK ==
  /\ In({"merging", "resolving"}, SubtitlesTypeOK)
  /\ In({"sending", "overlapping"}, OutboxTypeOK)
  /\ In({"mailbox", "preferring"}, InboxTypeOK)
  /\ In({"storing"}, StorageTypeOK)
  /\ In({"founding"}, SetupTypeOK)
  /\ In({"writing"}, WikiTypeOK)
  /\ In({"uploading"}, UploadTypeOK)
  /\ In({"parsing"}, AssTypeOK)
  /\ In({"reading", "linking"}, ReadingTypeOK)
  /\ In({"joining"}, JoinTypeOK)
  /\ In(OnFilesPage, FilesTypeOK)
=============================================================================
