---------------------------- MODULE ServicesProofs ----------------------------
(***************************************************************************)
(* Proofs about the services around the workflow: what the setup leaves    *)
(* behind, what the review of the wiki keeps, how often a notification is  *)
(* announced, what the page with the notifications shows, and whose work a *)
(* merge of translations keeps; that what a subtitle file says comes       *)
(* through its writing, its reading and a merge, and what the comparison   *)
(* of two versions of a text says of them.                                 *)
(***************************************************************************)
EXTENDS Inbox, WikiPages, SystemSetup, Subtitles, AssFiles, LineDiff, SequenceTheorems,
  FiniteSetTheorems, WellFoundedInduction, TLAPS

-----------------------------------------------------------------------------
(* The setup                                                               *)

SetupPlace == {"waiting", "sync", "ask", "fill", "restart", "change over", "configure",
               "second check", "create"}

\* A request that has asked a remote database has pushed its schema, one that is
\* about to name it has filled it, and only the others change over first.
PlacesFit ==
  \A r \in Applicant :
    /\ applying[r].at \in {"ask", "fill", "restart"} => applying[r].into \in synced
    /\ applying[r].at = "restart" => applying[r].into \in founded
    /\ applying[r].at \in {"change over", "configure"} => applying[r].into \notin Remote

SetupInv ==
  /\ SetupTypeOK
  /\ applying \in [Applicant -> [at : SetupPlace, into : Database \cup {"none"}]]
  /\ PlacesFit
  /\ RemoteIsReady

\* What a request does to its own place keeps its record a record.
LEMMA AdvanceType ==
  ASSUME applying \in [Applicant -> [at : SetupPlace, into : Database \cup {"none"}]],
         NEW r \in Applicant, NEW place \in SetupPlace, Advance(r, place)
  PROVE  /\ applying' \in [Applicant -> [at : SetupPlace, into : Database \cup {"none"}]]
         /\ applying'[r].at = place /\ applying'[r].into = applying[r].into
         /\ \A s \in Applicant \ {r} : applying'[s] = applying[s]
BY DEF Advance

LEMMA GiveUpType ==
  ASSUME applying \in [Applicant -> [at : SetupPlace, into : Database \cup {"none"}]],
         NEW r \in Applicant, GiveUp(r)
  PROVE  /\ applying' \in [Applicant -> [at : SetupPlace, into : Database \cup {"none"}]]
         /\ applying'[r].at = "waiting"
         /\ \A s \in Applicant \ {r} : applying'[s] = applying[s]
BY DEF GiveUp, Waiting, SetupPlace

LEMMA SetupInitInv == SetupInit => SetupInv
<1> SUFFICES ASSUME SetupInit PROVE SetupInv
  OBVIOUS
<1>1. envFile \in [names : Database, written : BOOLEAN] /\ ~envFile.written /\ inUse \in Database
  BY DEF SetupInit
<1>2. 0 \in 0 .. MaxStops
  BY SetupAssumption
<1>3. /\ applying \in [Applicant -> [at : SetupPlace, into : Database \cup {"none"}]]
      /\ \A r \in Applicant : applying[r].at = "waiting"
  BY DEF SetupInit, Waiting, SetupPlace
<1>4. SetupTypeOK
  BY <1>1, <1>2, <1>3 DEF SetupInit, SetupTypeOK, AtStep
<1> QED BY <1>1, <1>3, <1>4 DEF SetupInv, PlacesFit, AtStep, RemoteIsReady

LEMMA SetupRequestInv ==
  ASSUME SetupInv, NEW r \in Applicant, SetupStep(r)
  PROVE  SetupInv'
<1> USE SetupAssumption DEF SetupInv, SetupTypeOK, PlacesFit, AtStep, RemoteIsReady
<1>1. CASE SyncSchema(r)
  <2> DEFINE d == applying[r].into
  <2>1. d \in Database
    BY <1>1 DEF SyncSchema
  <2>2. AfterSync(d) \in SetupPlace /\ (AfterSync(d) = "ask" \/ (AfterSync(d) = "change over" /\ d \notin Remote))
    BY DEF AfterSync, SetupPlace
  <2>3. CASE synced' = synced \cup {d} /\ Advance(r, AfterSync(d))
    <3>1. applying' \in [Applicant -> [at : SetupPlace, into : Database \cup {"none"}]]
      BY <2>2, <2>3, AdvanceType
    <3>2. applying'[r].at = AfterSync(d) /\ applying'[r].into = d
      BY <2>2, <2>3, AdvanceType
    <3>3. \A s \in Applicant \ {r} : applying'[s] = applying[s]
      BY <2>2, <2>3, AdvanceType
    <3>4. synced \subseteq synced' /\ d \in synced' /\ synced' \subseteq Database
      BY <2>1, <2>3
    <3>5. SetupTypeOK'
      BY <1>1, <2>1, <3>1, <3>2, <3>3, <3>4 DEF SyncSchema
    <3>6. PlacesFit'
      BY <1>1, <2>2, <3>2, <3>3, <3>4 DEF SyncSchema
    <3>7. RemoteIsReady'
      BY <1>1 DEF SyncSchema
    <3> HIDE DEF SetupTypeOK, PlacesFit, RemoteIsReady
    <3> QED BY <3>1, <3>3, <3>5, <3>6, <3>7
  <2>4. CASE GiveUp(r) /\ UNCHANGED synced
    BY <1>1, <2>4, GiveUpType DEF SyncSchema
  <2> QED BY <1>1, <2>3, <2>4 DEF SyncSchema
<1>2. CASE AskRemote(r)
  <2>1. CASE Advance(r, "fill")
    BY <1>2, <2>1, AdvanceType DEF AskRemote, SetupPlace
  <2>2. CASE GiveUp(r)
    BY <1>2, <2>2, GiveUpType DEF AskRemote
  <2> QED BY <1>2, <2>1, <2>2 DEF AskRemote
<1>3. CASE CreateRemoteRecords(r)
  <2> DEFINE d == applying[r].into
  <2>1. CASE founded' = founded \cup {d} /\ Advance(r, "restart")
    <3>1. /\ applying' \in [Applicant -> [at : SetupPlace, into : Database \cup {"none"}]]
          /\ applying'[r].at = "restart" /\ applying'[r].into = d
          /\ \A s \in Applicant \ {r} : applying'[s] = applying[s]
      BY <2>1, AdvanceType DEF SetupPlace
    <3>2. applying[r].at = "fill" /\ d \in synced
      BY <1>3 DEF CreateRemoteRecords
    <3>3. UNCHANGED <<envFile, inUse, reachable, synced, stops>>
      BY <1>3 DEF CreateRemoteRecords
    <3> QED BY <2>1, <3>1, <3>2, <3>3
  <2>2. CASE GiveUp(r) /\ UNCHANGED founded
    BY <1>3, <2>2, GiveUpType DEF CreateRemoteRecords
  <2> QED BY <1>3, <2>1, <2>2 DEF CreateRemoteRecords
<1>4. CASE NameRemote(r)
  BY <1>4, GiveUpType DEF NameRemote
<1>5. CASE NameSqlite(r)
  BY <1>5, AdvanceType DEF NameSqlite, SetupPlace
<1>6. CASE ConfigurePrisma(r)
  BY <1>6, AdvanceType DEF ConfigurePrisma, SetupPlace
<1>7. CASE SecondCheck(r)
  <2>1. CASE GiveUp(r)
    BY <1>7, <2>1, GiveUpType DEF SecondCheck
  <2>2. CASE Advance(r, "create")
    BY <1>7, <2>2, AdvanceType DEF SecondCheck, SetupPlace
  <2> QED BY <1>7, <2>1, <2>2 DEF SecondCheck
<1>8. CASE CreateRecords(r)
  <2>1. founded \subseteq founded' /\ founded' \subseteq synced
    BY <1>8 DEF CreateRecords
  <2> QED BY <1>8, <2>1, GiveUpType DEF CreateRecords
<1> QED BY <1>1, <1>2, <1>3, <1>4, <1>5, <1>6, <1>7, <1>8 DEF SetupStep

LEMMA SetupNextInv == SetupInv /\ [SetupNext]_setupVars => SetupInv'
<1> SUFFICES ASSUME SetupInv, [SetupNext]_setupVars PROVE SetupInv'
  OBVIOUS
<1>1. ASSUME NEW r \in Applicant, NEW d \in Database, BeginSetup(r, d)
      PROVE  SetupInv'
  BY <1>1, SetupAssumption DEF SetupInv, SetupTypeOK, PlacesFit, AtStep, RemoteIsReady, BeginSetup, SetupPlace
<1>2. ASSUME NEW r \in Applicant, SetupStep(r)
      PROVE  SetupInv'
  BY <1>2, SetupRequestInv
<1>3. CASE Restart
  <2>1. /\ applying' \in [Applicant -> [at : SetupPlace, into : Database \cup {"none"}]]
        /\ \A r \in Applicant : applying'[r].at = "waiting"
    BY <1>3 DEF Restart, Waiting, SetupPlace
  <2>2. stops' \in 0 .. MaxStops
    <3>1. stops \in 0 .. MaxStops /\ stops < MaxStops /\ stops' = stops + 1
      BY <1>3 DEF SetupInv, SetupTypeOK, Restart
    <3> QED BY <3>1, SetupAssumption
  <2>3. envFile' = envFile /\ founded' = founded /\ reachable' = reachable /\ inUse' = envFile.names
    BY <1>3 DEF Restart
  <2>4. synced \subseteq synced' /\ synced' \subseteq Database
    BY <1>3 DEF Restart, SetupInv, SetupTypeOK
  <2>5. SetupTypeOK'
    BY <2>1, <2>2, <2>3, <2>4 DEF SetupInv, SetupTypeOK, AtStep
  <2> QED BY <2>1, <2>3, <2>5 DEF SetupInv, PlacesFit, AtStep, RemoteIsReady
<1>4. ASSUME NEW d \in Database, DatabaseFails(d) \/ DatabaseReturns(d)
      PROVE  SetupInv'
  BY <1>4 DEF SetupInv, SetupTypeOK, PlacesFit, AtStep, RemoteIsReady, DatabaseFails, DatabaseReturns
<1>5. CASE UNCHANGED setupVars
  BY <1>5 DEF SetupInv, SetupTypeOK, PlacesFit, AtStep, RemoteIsReady, setupVars
<1> QED BY <1>1, <1>2, <1>3, <1>4, <1>5 DEF SetupNext

\* A remote database that a setup has named in the env file has its administrator
\* and its storage, and whatever has them has the schema, for any number of setups
\* under way, of databases and of stops of the server (completeSetup).
THEOREM RestartFindsWholeSystem == SetupSpec => [](SetupTypeOK /\ RemoteIsReady)
<1>1. SetupInv => SetupTypeOK /\ RemoteIsReady
  BY DEF SetupInv
<1> QED BY <1>1, SetupInitInv, SetupNextInv, PTL DEF SetupSpec

-----------------------------------------------------------------------------
(* The review of a wiki page                                               *)

PageRow == [content : Revision, pending : Revision, status : {"draft", "pending", "approved"}]

\* Edits are counted without a bound: that they are no more than the texts is
\* left to the model checker.
WikiShape ==
  /\ page \in PageRow
  /\ mustAsk \in BOOLEAN /\ loose \in BOOLEAN
  /\ asking \in [Editor \cup Reviewer -> [on : PageRow, text : Revision]]
  /\ latest \in Revision /\ approvedText \in Revision /\ edits \in Nat

\* Right after an approval the page is as approved, and nothing waits; after one
\* edit the text waits.  What was rejected while nothing waited is not counted.
ReviewInv ==
  /\ ~loose => mustAsk
  /\ (~loose /\ approvedText # 0 /\ edits <= 1) => page.content = approvedText
  /\ (~loose /\ approvedText # 0 /\ edits = 0) => page.status = "approved" /\ page.pending = 0
  /\ (~loose /\ approvedText # 0 /\ edits = 1) => page.pending # 0

WikiInv == WikiShape /\ ReviewInv

LEMMA WikiInitInv == WikiInit => WikiInv
<1> SUFFICES ASSUME WikiInit PROVE WikiInv
  OBVIOUS
<1>1. 0 \in Revision
  BY WikiAssumption DEF Revision
<1>2. NoPage \in PageRow
  BY <1>1 DEF NoPage, PageRow
<1>3. Quiet \in [on : PageRow, text : Revision]
  BY <1>1, <1>2 DEF Quiet
<1> QED BY <1>1, <1>2, <1>3 DEF WikiInit, WikiInv, WikiShape, ReviewInv

\* An answered request leaves quiet behind it.
LEMMA AnsweredShape ==
  ASSUME WikiShape, NEW e \in Editor \cup Reviewer,
         asking' = [asking EXCEPT ![e] = Quiet]
  PROVE  asking' \in [Editor \cup Reviewer -> [on : PageRow, text : Revision]]
<1>1. Quiet \in [on : PageRow, text : Revision]
  BY WikiAssumption DEF Quiet, NoPage, PageRow, Revision
<1> QED BY <1>1 DEF WikiShape

LEMMA WikiUpdateInv ==
  ASSUME WikiInv, NEW e \in Editor, UpdateWiki(e)
  PROVE  WikiInv'
<1> USE DEF WikiInv
<1> DEFINE it == asking[e]
<1>1. it.on \in PageRow /\ it.text \in Revision /\ it.text > 0
  BY DEF WikiShape, UpdateWiki
<1>2. page' \in PageRow
  BY <1>1 DEF WikiShape, UpdateWiki, PageRow
<1>3. loose' \in BOOLEAN /\ (~loose' => ~loose /\ it.on = page)
  BY DEF WikiShape, UpdateWiki, Answered
<1>4. WikiShape'
  <2>1. edits' \in Nat
    <3>1. edits \in Nat /\ edits' = edits + 1
      BY DEF WikiShape, UpdateWiki
    <3> QED BY <3>1
  <2>2. asking' \in [Editor \cup Reviewer -> [on : PageRow, text : Revision]]
    BY AnsweredShape DEF UpdateWiki, Answered
  <2>3. mustAsk' = mustAsk /\ latest' = latest /\ approvedText' = approvedText
    BY DEF UpdateWiki
  <2> QED BY <1>2, <1>3, <2>1, <2>2, <2>3 DEF WikiShape
<1>5. ASSUME ~loose', approvedText # 0, edits' <= 1
      PROVE  /\ edits' = 1
             /\ page'.content = approvedText /\ page'.pending # 0
  <2>1. edits = 0 /\ edits' = 1
    BY <1>5 DEF WikiShape, UpdateWiki
  <2>2. mustAsk /\ page.content = approvedText /\ page.status = "approved"
    BY <1>3, <1>5, <2>1 DEF ReviewInv
  <2>3. page' = [page EXCEPT !.pending = it.text, !.status = "pending"]
    BY <1>3, <1>5, <2>2 DEF UpdateWiki, IsApprovedEdit
  <2>4. it.text # 0
    BY <1>1 DEF Revision
  <2> QED BY <2>1, <2>2, <2>3, <2>4 DEF WikiShape, PageRow
<1>6. edits' # 0 /\ approvedText' = approvedText /\ mustAsk' = mustAsk
  BY DEF WikiShape, UpdateWiki
<1>7. edits' = 1 => edits' <= 1
  OBVIOUS
<1> QED BY <1>3, <1>4, <1>5, <1>6, <1>7 DEF ReviewInv

LEMMA WikiApproveInv ==
  ASSUME WikiInv, NEW r \in Reviewer, ApproveWikiChange(r)
  PROVE  WikiInv'
<1> USE DEF WikiInv
<1> DEFINE read == asking[r].on
           text == IF read.pending # 0 THEN read.pending ELSE read.content
<1>1. text \in Revision /\ 0 \in Revision
  BY WikiAssumption DEF WikiShape, PageRow, Revision
<1>2. page' = [content |-> text, pending |-> 0, status |-> "approved"] /\ approvedText' = text /\ edits' = 0
  BY DEF ApproveWikiChange
<1>3. loose' \in BOOLEAN /\ (~loose' => ~loose)
  BY DEF WikiShape, ApproveWikiChange, Answered
<1>4. WikiShape'
  <2>1. page' \in PageRow /\ approvedText' \in Revision /\ edits' \in Nat
    BY <1>1, <1>2 DEF PageRow
  <2>2. asking' \in [Editor \cup Reviewer -> [on : PageRow, text : Revision]]
    BY AnsweredShape DEF ApproveWikiChange, Answered
  <2>3. mustAsk' = mustAsk /\ latest' = latest
    BY DEF ApproveWikiChange
  <2> QED BY <1>3, <2>1, <2>2, <2>3 DEF WikiShape
<1> QED BY <1>2, <1>3, <1>4 DEF ReviewInv, ApproveWikiChange

LEMMA WikiRejectInv ==
  ASSUME WikiInv, NEW r \in Reviewer, RejectWikiChange(r)
  PROVE  WikiInv'
<1> USE DEF WikiInv
<1>1. /\ page' \in PageRow /\ page'.content = page.content /\ page'.pending = page.pending
  BY DEF WikiShape, RejectWikiChange, Rejected, PageRow
<1>2. loose' \in BOOLEAN /\ (~loose' => ~loose /\ page.pending # 0)
  BY DEF WikiShape, RejectWikiChange
<1>3. WikiShape'
  BY <1>1, <1>2, AnsweredShape DEF WikiShape, RejectWikiChange
<1> QED BY <1>1, <1>2, <1>3 DEF ReviewInv, RejectWikiChange

LEMMA WikiNextInv == WikiInv /\ [WikiNext]_wikiVars => WikiInv'
<1> SUFFICES ASSUME WikiInv, [WikiNext]_wikiVars PROVE WikiInv'
  OBVIOUS
<1> USE DEF WikiInv
<1>0. 0 \in Revision /\ NoPage \in PageRow
  BY WikiAssumption DEF NoPage, PageRow, Revision
<1>1. CASE CreateWiki
  <2>1. latest + 1 \in Revision
    BY <1>1, WikiAssumption DEF CreateWiki, WikiShape, Revision
  <2>2. page' \in PageRow
    BY <1>0, <1>1, <2>1 DEF CreateWiki, PageRow
  <2>3. WikiShape'
    <3>1. edits \in Nat /\ edits' = edits + 1
      BY <1>1 DEF CreateWiki, WikiShape
    <3> QED BY <1>1, <2>1, <2>2, <3>1 DEF CreateWiki, WikiShape
  <2>4. page.status = "draft" /\ page.pending = 0
    BY <1>1 DEF CreateWiki, NoPage
  <2>5. ~loose /\ approvedText # 0 => edits \notin {0, 1}
    BY <2>4 DEF ReviewInv
  <2>6. edits \in Nat /\ edits' = edits + 1
    BY <1>1 DEF CreateWiki, WikiShape
  <2>7. ~loose /\ approvedText # 0 => ~(edits' <= 1) /\ edits' # 0 /\ edits' # 1
    BY <2>5, <2>6
  <2> QED BY <1>1, <2>3, <2>7 DEF CreateWiki, ReviewInv
<1>2. ASSUME NEW e \in Editor \cup Reviewer, ReadPage(e)
      PROVE  WikiInv'
  <2>1. asking' \in [Editor \cup Reviewer -> [on : PageRow, text : Revision]] /\ latest' \in Revision
    <3>1. CASE asking' = [asking EXCEPT ![e] = [on |-> page, text |-> 0]] /\ UNCHANGED latest
      BY <1>0, <3>1 DEF WikiShape
    <3>2. CASE latest < MaxRevision /\ asking' = [asking EXCEPT ![e] = [on |-> page, text |-> latest + 1]] /\ latest' = latest + 1
      <4>1. latest + 1 \in Revision
        BY <3>2, WikiAssumption DEF WikiShape, Revision
      <4> QED BY <3>2, <4>1 DEF WikiShape
    <3> QED BY <1>2, <3>1, <3>2 DEF ReadPage
  <2> QED BY <1>2, <2>1 DEF ReadPage, WikiShape, ReviewInv
<1>3. ASSUME NEW status \in {"draft", "pending", "approved"}, SetStatus(status)
      PROVE  WikiInv'
  BY <1>3 DEF SetStatus, WikiShape, ReviewInv, PageRow
<1>4. CASE DeleteWiki
  BY <1>0, <1>4 DEF DeleteWiki, WikiShape, ReviewInv
<1>5. CASE ChangePolicy
  BY <1>5 DEF ChangePolicy, WikiShape, ReviewInv
<1>6. CASE UNCHANGED wikiVars
  BY <1>6 DEF wikiVars, WikiShape, ReviewInv
<1> QED BY <1>1, <1>2, <1>3, <1>4, <1>5, <1>6, WikiUpdateInv, WikiApproveInv, WikiRejectInv DEF WikiNext

\* The first change after an approval leaves the approved text alone and waits,
\* for any number of editors, reviewers and texts (updateWiki, approveWikiChange,
\* rejectWikiChange).
THEOREM ChangeWaitsForReview == WikiSpec => []FirstChangeWaits
<1>1. WikiInv => FirstChangeWaits
  BY DEF WikiInv, WikiShape, ReviewInv, FirstChangeWaits
<1> QED BY <1>1, WikiInitInv, WikiNextInv, PTL DEF WikiSpec

-----------------------------------------------------------------------------
(* Notifications on their way out                                          *)

NoteRow == [status : {"none", "unread", "read", "dismissed"}, mailed : BOOLEAN]
DeliveryRow == [note : Note, channel : Channel, old : BOOLEAN, status : {"pending", "sent", "failed"}]
Under == {"record", "send", "outcome", "delivered"}
Errand == [at : Under \cup {"start", "next", "mails", "unread"}, note : Note \cup {0}, channel : Channel,
           row : Nat, ok : BOOLEAN, reminder : BOOLEAN, todo : SUBSET (Channel \cup Note \cup Nat)]
Doing == Errand \cup {Idle}

OutboxShape ==
  /\ note \in [Note -> NoteRow]
  /\ delivery \in Seq(DeliveryRow)
  /\ work \in [Worker -> Doing]
  /\ crashes \in Nat
  /\ reminders \in [Note -> Nat] /\ messages \in [Note -> Nat]
  /\ address \subseteq Channel

Carries(r, ch) == r.at \in Under /\ r.channel = ch
Unannounced(n) == \A d \in Deliveries : ~(delivery[d].note = n /\ delivery[d].channel = "qq")

\* A request goes over the channels once, QQ at most once.
RequestOK(n, r) ==
  r.at # "idle" =>
    /\ r.at \in Under \cup {"start", "next"} /\ r.note = n /\ ~r.reminder /\ r.todo \subseteq Channel
    /\ note[n].status # "none"
    /\ (r.at = "start" \/ "qq" \in r.todo) => Unannounced(n)
    /\ Carries(r, "qq") => "qq" \notin r.todo

\* A run of the job mails each notification on its list once, and announces by QQ
\* only what the request is through with.
JobOK(r) ==
  r.at # "idle" =>
    /\ r.at \in Under \cup {"start", "mails", "unread"} /\ r.reminder
    /\ r.at \in Under => r.note \in Note /\ note[r.note].status # "none"
    /\ (r.at = "mails" \/ Carries(r, "email")) =>
         r.todo \subseteq {n \in Note : note[n].status # "none"}
    /\ (r.at = "unread" \/ Carries(r, "qq")) => r.todo \subseteq {d \in Deliveries : delivery[d].old}
    /\ Carries(r, "email") => r.note \notin r.todo
    /\ (r.at \in {"record", "send"} /\ r.channel = "qq") => At(r.note, "idle")

\* The row is written before the message goes out.
DeliveryOK(r) ==
  r.at \in {"send", "outcome"} =>
    /\ r.row \in Deliveries
    /\ delivery[r.row].note = r.note /\ delivery[r.row].channel = r.channel

WorkOK(w, r) == (w \in Note => RequestOK(w, r)) /\ (w \in Job => JobOK(r)) /\ DeliveryOK(r)

RowsOK ==
  \A d \in Deliveries : /\ note[delivery[d].note].status # "none"
                        /\ delivery[d].old => At(delivery[d].note, "idle")

\* Every announcement was handed over by one of those that found none on record,
\* or is in the hands of one.
Announces(r, n) == r.at \in {"record", "send"} /\ r.channel = "qq" /\ r.note = n
Announcing(n) == {w \in Job \cup {n} : Announces(work[w], n)}
MessagesOK ==
  \A n \in Note : /\ messages[n] + Cardinality(Announcing(n)) <= Cardinality(Job)
                  /\ Unannounced(n) => messages[n] = 0

\* A run of the job owes a notification a reminder while it has it on its list, and
\* may yet list it until one has been noted.
Listed(r, n) == (r.at = "mails" \/ Carries(r, "email")) /\ n \in r.todo
Reminds(r, n) == r.at \in {"record", "send"} /\ r.channel = "email" /\ r.note = n
Reminded(r, n) == r.at \in {"outcome", "delivered"} /\ r.channel = "email" /\ r.note = n
Owes(r, n) == Listed(r, n) \/ Reminds(r, n) \/ (~note[n].mailed /\ ~Reminded(r, n))
MayRemind(n) == {j \in Job : Owes(work[j], n)}
RemindersOK ==
  \A n \in Note : reminders[n] + Cardinality(MayRemind(n)) <= Cardinality(Job) * (1 + crashes)

OutboxInv ==
  /\ OutboxShape
  /\ \A w \in Worker : WorkOK(w, work[w])
  /\ RowsOK /\ MessagesOK /\ RemindersOK

\* Fewer are left to do it, or one of them has done it.
LEMMA FewerLeft ==
  ASSUME NEW S, IsFiniteSet(S), NEW T \in SUBSET S, NEW k \in Nat, NEW B \in Nat, k + Cardinality(S) <= B
  PROVE  k + Cardinality(T) <= B
<1>1. Cardinality(S) \in Nat /\ Cardinality(T) \in Nat /\ Cardinality(T) <= Cardinality(S)
  BY FS_Subset, FS_CardinalityType
<1> QED BY <1>1

LEMMA OneSpent ==
  ASSUME NEW S, IsFiniteSet(S), NEW w \in S, NEW T \in SUBSET (S \ {w}),
         NEW k \in Nat, NEW B \in Nat, k + Cardinality(S) <= B
  PROVE  (k + 1) + Cardinality(T) <= B
<1>1. IsFiniteSet(S \ {w}) /\ Cardinality(S \ {w}) = Cardinality(S) - 1
  BY FS_RemoveElement
<1>2. Cardinality(S) \in Nat /\ Cardinality(T) \in Nat /\ Cardinality(T) <= Cardinality(S \ {w})
  BY <1>1, FS_Subset, FS_CardinalityType
<1> QED BY <1>1, <1>2

LEMMA JobsAreSome == Cardinality(Job) \in Nat /\ Cardinality(Job) >= 1 /\ IsFiniteSet(Job)
<1>1. IsFiniteSet(Job) /\ Job # {}
  BY OutboxAssumption
<1>2. Cardinality(Job) \in Nat /\ Cardinality(Job) # 0
  BY <1>1, FS_CardinalityType, FS_EmptySet
<1> QED BY <1>1, <1>2

\* The request announces alone, or only runs of the job do.
LEMMA FewAnnounce ==
  ASSUME NEW f, NEW n \in Note, \A j \in Job : Announces(f[j], n) => ~Announces(f[n], n),
         NEW A, A = {w \in Job \cup {n} : Announces(f[w], n)}
  PROVE  IsFiniteSet(A) /\ Cardinality(A) \in Nat /\ Cardinality(A) <= Cardinality(Job)
<1>1. CASE Announces(f[n], n)
  <2>1. A = {n}
    BY <1>1
  <2>2. IsFiniteSet(A) /\ Cardinality(A) = 1
    BY <2>1, FS_Singleton
  <2> QED BY <2>2, JobsAreSome
<1>2. CASE ~Announces(f[n], n)
  <2>1. A \in SUBSET Job
    BY <1>2
  <2> QED BY <2>1, JobsAreSome, FS_Subset, FS_CardinalityType
<1> QED BY <1>1, <1>2

LEMMA OutboxInitInv == OutboxInit => OutboxInv
<1> SUFFICES ASSUME OutboxInit PROVE OutboxInv
  OBVIOUS
<1>1. delivery = <<>> /\ Deliveries = {}
  BY DEF OutboxInit, Deliveries
<1>2. \A w \in Worker : work[w] = Idle
  BY DEF OutboxInit
<1>3. OutboxShape
  <2>1. delivery \in Seq(DeliveryRow)
    BY <1>1
  <2>2. note \in [Note -> NoteRow]
    BY DEF OutboxInit, NoteRow
  <2> QED BY <2>1, <2>2 DEF OutboxInit, OutboxShape, Doing
<1>4. \A w \in Worker : WorkOK(w, work[w])
  BY <1>2 DEF WorkOK, RequestOK, JobOK, DeliveryOK, Idle
<1>5. RowsOK
  BY <1>1 DEF RowsOK
<1>6. MessagesOK
  <2> SUFFICES ASSUME NEW n \in Note
               PROVE  messages[n] = 0 /\ messages[n] + Cardinality(Announcing(n)) <= Cardinality(Job)
    BY DEF MessagesOK
  <2>1. messages[n] = 0
    BY DEF OutboxInit
  <2>2. \A j \in Job : ~Announces(work[j], n)
    BY <1>2 DEF Announces, Idle, Worker
  <2>3. Cardinality(Announcing(n)) \in Nat /\ Cardinality(Announcing(n)) <= Cardinality(Job)
    BY <2>2, FewAnnounce DEF Announcing
  <2> QED BY <2>1, <2>3, JobsAreSome
<1>7. RemindersOK
  <2> SUFFICES ASSUME NEW n \in Note
               PROVE  reminders[n] + Cardinality(MayRemind(n)) <= Cardinality(Job) * (1 + crashes)
    BY DEF RemindersOK
  <2>1. reminders[n] = 0 /\ crashes = 0
    BY DEF OutboxInit
  <2>2. MayRemind(n) \in SUBSET Job
    BY DEF MayRemind
  <2>3. Cardinality(MayRemind(n)) \in Nat /\ Cardinality(MayRemind(n)) <= Cardinality(Job)
    BY <2>2, JobsAreSome, FS_Subset, FS_CardinalityType
  <2> QED BY <2>1, <2>3, JobsAreSome
<1> QED BY <1>3, <1>4, <1>5, <1>6, <1>7 DEF OutboxInv

\* What a worker does next takes the place of what it did.
LEMMA GoShape ==
  ASSUME work \in [Worker -> Doing], NEW w \in Worker, NEW x \in Doing, Go(w, x)
  PROVE  /\ work' \in [Worker -> Doing]
         /\ work'[w] = x
         /\ \A v \in Worker \ {w} : work'[v] = work[v]
BY DEF Go

\* Those that announce get no more while an announcement is on record.
LEMMA MessagesStay ==
  ASSUME OutboxInv, NEW n \in Note, \A w \in Worker : WorkOK(w, work[w])',
         messages'[n] = messages[n], Unannounced(n)' => Unannounced(n),
         Unannounced(n)' \/ Announcing(n)' \subseteq Announcing(n)
  PROVE  /\ messages'[n] + Cardinality(Announcing(n)') <= Cardinality(Job)
         /\ Unannounced(n)' => messages'[n] = 0
<1>0. messages[n] \in Nat
  BY DEF OutboxInv, OutboxShape
<1>1. /\ messages[n] + Cardinality(Announcing(n)) <= Cardinality(Job)
      /\ Unannounced(n) => messages[n] = 0
  BY DEF OutboxInv, MessagesOK
<1>2. \A j \in Job : Announces(work'[j], n) => ~Announces(work'[n], n)
  BY DEF WorkOK, JobOK, Announces, Worker, At
<1>3. Cardinality(Announcing(n)') \in Nat /\ Cardinality(Announcing(n)') <= Cardinality(Job)
  BY <1>2, FewAnnounce DEF Announcing
<1>4. CASE Unannounced(n)'
  BY <1>0, <1>1, <1>3, <1>4
<1>5. CASE Announcing(n)' \subseteq Announcing(n)
  <2>1. \A j \in Job : Announces(work[j], n) => ~Announces(work[n], n)
    BY DEF OutboxInv, WorkOK, JobOK, Announces, Worker, At
  <2>2. IsFiniteSet(Announcing(n))
    BY <2>1, FewAnnounce DEF Announcing
  <2>3. messages[n] + Cardinality(Announcing(n)') <= Cardinality(Job)
    BY <1>0, <1>1, <1>5, <2>2, FewerLeft, JobsAreSome
  <2> QED BY <1>1, <2>3
<1> QED BY <1>4, <1>5

\* No run of the job gets to owe a reminder by a step that leaves those sent alone.
LEMMA RemindersStay ==
  ASSUME OutboxInv, NEW n \in Note, reminders'[n] = reminders[n], crashes' = crashes,
         MayRemind(n)' \subseteq MayRemind(n)
  PROVE  reminders'[n] + Cardinality(MayRemind(n)') <= Cardinality(Job) * (1 + crashes')
<1>1. reminders[n] + Cardinality(MayRemind(n)) <= Cardinality(Job) * (1 + crashes) /\ reminders[n] \in Nat
  BY DEF OutboxInv, RemindersOK, OutboxShape
<1>2. IsFiniteSet(MayRemind(n))
  BY JobsAreSome, FS_Subset DEF MayRemind
<1>3. Cardinality(Job) * (1 + crashes) \in Nat
  BY JobsAreSome DEF OutboxInv, OutboxShape
<1>4. \A B \in Nat : reminders[n] + Cardinality(MayRemind(n)) <= B => reminders[n] + Cardinality(MayRemind(n)') <= B
  BY <1>1, <1>2, FewerLeft
<1> QED BY <1>1, <1>3, <1>4

LEMMA RowTypes ==
  ASSUME OutboxShape, NEW d \in Deliveries
  PROVE  d \in Nat /\ delivery[d] \in DeliveryRow /\ delivery[d].note \in Note /\ delivery[d].channel \in Channel
<1>1. PICK L \in Nat : L = Len(delivery)
  BY DEF OutboxShape
<1>2. delivery \in [1 .. L -> DeliveryRow] /\ DOMAIN delivery = 1 .. L
  BY <1>1 DEF OutboxShape
<1> QED BY <1>2 DEF Deliveries, DeliveryRow

\* Rows are only added and aged, notifications only created, and a request that is
\* through stays so: what a worker knows stays true.
LEMMA WorkStaysOK ==
  ASSUME NEW w \in Worker, NEW r \in Doing, WorkOK(w, r),
         \A n \in Note : note[n].status # "none" => note'[n].status # "none",
         \A d \in Deliveries : /\ d \in Deliveries'
                               /\ delivery'[d].note = delivery[d].note
                               /\ delivery'[d].channel = delivery[d].channel
                               /\ delivery[d].old => delivery'[d].old,
         \A n \in Note : note[n].status # "none" /\ At(n, "idle") => At(n, "idle")',
         w \in Note /\ r.at # "idle" /\ (r.at = "start" \/ "qq" \in r.todo) /\ Unannounced(w) => Unannounced(w)'
  PROVE  WorkOK(w, r)'
<1>1. ASSUME w \in Note PROVE RequestOK(w, r)'
  BY <1>1 DEF WorkOK, RequestOK, Carries
<1>2. ASSUME w \in Job PROVE JobOK(r)'
  <2> SUFFICES ASSUME r.at # "idle" PROVE JobOK(r)'
    BY DEF JobOK
  <2>1. JobOK(r)
    BY <1>2 DEF WorkOK
  <2>2. r.at \in Under => r.note \in Note /\ note'[r.note].status # "none"
    BY <2>1 DEF JobOK
  <2>3. (r.at = "mails" \/ Carries(r, "email")) =>
          r.todo \subseteq {n \in Note : note'[n].status # "none"}
    BY <2>1 DEF JobOK
  <2>4. (r.at = "unread" \/ Carries(r, "qq")) => r.todo \subseteq {d \in Deliveries' : delivery'[d].old}
    BY <2>1 DEF JobOK
  <2>5. Carries(r, "email") => r.note \notin r.todo
    BY <2>1 DEF JobOK
  <2>6. (r.at \in {"record", "send"} /\ r.channel = "qq") => At(r.note, "idle")'
    BY <2>1 DEF JobOK, Under
  <2> QED BY <2>1, <2>2, <2>3, <2>4, <2>5, <2>6 DEF JobOK, Carries
<1>3. DeliveryOK(r)'
  BY DEF WorkOK, DeliveryOK
<1> QED BY <1>1, <1>2, <1>3 DEF WorkOK

\* A step by which one worker decides what to do next, and nothing is written.
LEMMA TurnInv ==
  ASSUME OutboxInv, NEW w \in Worker, NEW x \in Doing, Go(w, x), WorkOK(w, x),
         w \in Note => work[w].at # "idle",
         w \in Job => \A n \in Note : Owes(x, n) => Owes(work[w], n),
         x.at = "record" /\ x.channel = "qq" => Unannounced(x.note),
         x.at # "send",
         UNCHANGED <<note, delivery, address, counts>>
  PROVE  OutboxInv'
<1> USE DEF OutboxInv, counts
<1>1. /\ work' \in [Worker -> Doing] /\ work'[w] = x
      /\ \A v \in Worker \ {w} : work'[v] = work[v]
  BY GoShape DEF OutboxShape
<1>2. \A n \in Note : At(n, "idle") => At(n, "idle")'
  BY <1>1 DEF At, Worker
<1>3. note' = note /\ delivery' = delivery /\ messages' = messages /\ Deliveries' = Deliveries
  BY DEF Deliveries
<1>4. \A n : Unannounced(n) => Unannounced(n)'
  BY <1>3 DEF Unannounced
<1>5. \A r \in Doing, v \in Worker : WorkOK(v, r) => WorkOK(v, r)'
  <2> SUFFICES ASSUME NEW r \in Doing, NEW v \in Worker, WorkOK(v, r) PROVE WorkOK(v, r)'
    OBVIOUS
  <2> QED BY <1>2, <1>3, <1>4, WorkStaysOK
<1>6. \A v \in Worker : WorkOK(v, work[v])'
  <2> SUFFICES ASSUME NEW v \in Worker PROVE WorkOK(v, work[v])'
    OBVIOUS
  <2>1. PICK r \in Doing : r = work'[v] /\ WorkOK(v, r)
    BY <1>1 DEF OutboxShape
  <2>2. WorkOK(v, r)'
    BY <1>5, <2>1
  <2> QED BY <2>1, <2>2
<1>7. OutboxShape'
  BY <1>1 DEF OutboxShape
<1>8. RowsOK'
  BY <1>2, <1>3, RowTypes DEF RowsOK
<1>9. MessagesOK'
  <2> SUFFICES ASSUME NEW n \in Note
               PROVE  /\ messages'[n] + Cardinality(Announcing(n)') <= Cardinality(Job)
                      /\ Unannounced(n)' => messages'[n] = 0
    BY DEF MessagesOK
  <2>1. Unannounced(n)' <=> Unannounced(n)
    BY <1>3 DEF Unannounced
  <2>2. Unannounced(n)' \/ Announcing(n)' \subseteq Announcing(n)
    BY <1>1, <2>1 DEF Announcing, Announces, Worker
  <2> QED BY <1>3, <1>6, <2>1, <2>2, MessagesStay
<1>10. \A j \in Job, n \in Note : Owes(work[j], n)' => Owes(work[j], n)
  <2>1. \A r, n : Owes(r, n)' <=> Owes(r, n)
    BY <1>3 DEF Owes, Listed, Reminds, Reminded, Carries
  <2> QED BY <1>1, <2>1 DEF Worker
<1>11. RemindersOK'
  BY <1>10, RemindersStay DEF RemindersOK, MayRemind
<1> QED BY <1>6, <1>7, <1>8, <1>9, <1>11

\* What the fields of an errand are when a worker goes on with it.
LEMMA ErrandGoesOn ==
  ASSUME NEW r \in Errand,
         NEW a \in Under \cup {"start", "next", "mails", "unread"}
  PROVE  /\ [r EXCEPT !.at = a] \in Errand
         /\ [r EXCEPT !.at = a].at = a /\ [r EXCEPT !.at = a].note = r.note
         /\ [r EXCEPT !.at = a].channel = r.channel /\ [r EXCEPT !.at = a].row = r.row
         /\ [r EXCEPT !.at = a].ok = r.ok
         /\ [r EXCEPT !.at = a].reminder = r.reminder /\ [r EXCEPT !.at = a].todo = r.todo
BY DEF Errand

LEMMA ErrandOf == ASSUME OutboxInv, NEW w \in Worker, work[w].at # "idle" PROVE work[w] \in Errand
BY DEF OutboxInv, OutboxShape, Doing, Idle

LEMMA IdleIsOK == ASSUME NEW w \in Worker PROVE Idle \in Doing /\ WorkOK(w, Idle) /\ Idle.at = "idle"
BY DEF Doing, Idle, WorkOK, RequestOK, JobOK, DeliveryOK

LEMMA BeginInv == ASSUME OutboxInv, NEW n \in Note, Begin(n) PROVE OutboxInv'
<1>1. n \in Worker /\ n \notin Job /\ work[n].at = "start" /\ UNCHANGED <<note, delivery, address, counts>>
  BY OutboxAssumption DEF Begin, Worker, At, world
<1>2. CASE Go(n, Idle)
  BY <1>1, <1>2, IdleIsOK, TurnInv
<1>3. CASE Go(n, [work[n] EXCEPT !.at = "next", !.todo = prefs \cap address])
  <2> DEFINE x == [work[n] EXCEPT !.at = "next", !.todo = prefs \cap address]
  <2>1. work[n] \in Errand
    BY <1>1, ErrandOf
  <2>2. prefs \cap address \in SUBSET (Channel \cup Note \cup Nat) /\ prefs \cap address \subseteq Channel
    BY DEF OutboxInv, OutboxShape
  <2>3. /\ x \in Errand /\ x.at = "next" /\ x.note = work[n].note
        /\ x.reminder = work[n].reminder /\ x.todo = prefs \cap address
    BY <2>1, <2>2 DEF Errand
  <2>4. RequestOK(n, work[n])
    BY <1>1 DEF OutboxInv, WorkOK
  <2> HIDE DEF x
  <2>5. WorkOK(n, x)
    BY <1>1, <2>2, <2>3, <2>4 DEF WorkOK, RequestOK, DeliveryOK, Carries, Under
  <2>6. x \in Doing /\ Go(n, x)
    BY <1>3, <2>3 DEF Doing, x
  <2> QED BY <1>1, <2>3, <2>5, <2>6, TurnInv
<1> QED BY <1>2, <1>3 DEF Begin

LEMMA NextChannelInv == ASSUME OutboxInv, NEW n \in Note, NextChannel(n) PROVE OutboxInv'
<1> DEFINE rest == work[n].todo
           ch == IF "email" \in rest THEN "email" ELSE "qq"
           x == [work[n] EXCEPT !.at = "record", !.channel = ch, !.todo = rest \ {ch}]
<1>1. n \in Worker /\ n \notin Job /\ work[n].at \in {"next", "delivered"} /\ UNCHANGED <<note, delivery, address, counts>>
  BY OutboxAssumption DEF NextChannel, Worker, At, world
<1>2. CASE Go(n, Idle)
  BY <1>1, <1>2, IdleIsOK, TurnInv
<1>3. CASE rest # {} /\ Go(n, x)
  <2>1. work[n] \in Errand
    BY <1>1, ErrandOf
  <2>2. RequestOK(n, work[n]) /\ work[n].at # "idle"
    BY <1>1 DEF OutboxInv, WorkOK
  <2>3. rest \subseteq Channel /\ ch \in Channel /\ ch \in rest
    BY <1>3, <2>2 DEF RequestOK, Channel
  <2>4. rest \ {ch} \in SUBSET (Channel \cup Note \cup Nat)
    BY <2>3
  <2>5. /\ x \in Errand /\ x.at = "record" /\ x.note = work[n].note /\ x.channel = ch
        /\ x.reminder = work[n].reminder /\ x.todo = rest \ {ch}
    <3> HIDE DEF rest, ch
    <3> QED BY <2>1, <2>3, <2>4 DEF Errand, x, Under
  <2>6. "qq" \in rest => Unannounced(n)
    BY <2>2 DEF RequestOK
  <2> HIDE DEF x, ch, rest
  <2>7. WorkOK(n, x)
    <3>1. RequestOK(n, x)
      BY <2>2, <2>3, <2>5, <2>6 DEF RequestOK, Carries, Under
    <3>2. DeliveryOK(x)
      BY <2>5 DEF DeliveryOK
    <3> QED BY <1>1, <3>1, <3>2 DEF WorkOK
  <2>8. x \in Doing
    BY <2>5 DEF Doing
  <2>9. x.at = "record" /\ (x.channel = "qq" => Unannounced(x.note))
    BY <2>2, <2>3, <2>5, <2>6 DEF RequestOK
  <2> QED BY <1>1, <1>3, <2>2, <2>7, <2>8, <2>9, TurnInv
<1> QED BY <1>2, <1>3 DEF NextChannel

\* What the job does next, but for what it records.
LEMMA JobTurnInv ==
  ASSUME OutboxInv, NEW j \in Job,
         \/ StartJob(j) \/ ListMails(j) \/ ListUnread(j) \/ NextUnread(j) \/ EndJob(j)
         \/ \E n \in Note : RemindByMail(j, n)
         \/ \E d \in Deliveries : RemindByQQ(j, d)
  PROVE  OutboxInv'
<1>0. j \in Worker /\ j \notin Note
  BY OutboxAssumption DEF Worker
<1>1. JobOK(work[j]) /\ OutboxShape
  BY <1>0 DEF OutboxInv, WorkOK
<1>2. CASE StartJob(j)
  <2> DEFINE x == Blank(0, TRUE)
  <2>1. x \in Errand /\ x.at = "start" /\ x.reminder /\ x.channel = "email"
    BY DEF Blank, Errand, Channel
  <2> HIDE DEF x
  <2>2. WorkOK(j, x)
    BY <1>0, <2>1 DEF WorkOK, JobOK, DeliveryOK, Carries, Under
  <2>3. Go(j, x) /\ x \in Doing /\ work[j].at = "idle" /\ UNCHANGED <<note, delivery, address, counts>>
    BY <1>2, <2>1 DEF StartJob, At, world, Doing, x
  <2>4. \A n \in Note : Owes(x, n) => Owes(work[j], n)
    BY <2>1, <2>3 DEF Owes, Listed, Reminds, Reminded, Carries, Under
  <2> QED BY <1>0, <2>1, <2>2, <2>3, <2>4, TurnInv
<1>3. CASE ListMails(j)
  <2> DEFINE s == {n \in Note : MailDue(n)}
             x == [work[j] EXCEPT !.at = "mails", !.todo = s]
  <2>1. work[j].at = "start" /\ work[j] \in Errand
    BY <1>0, <1>3, ErrandOf DEF ListMails, At
  <2>2. /\ s \in SUBSET (Channel \cup Note \cup Nat)
        /\ s \subseteq {n \in Note : note[n].status # "none"}
        /\ \A n \in s : ~note[n].mailed
    BY DEF MailDue, Unread
  <2> HIDE DEF s
  <2>3. /\ x \in Errand /\ x.at = "mails" /\ x.channel = work[j].channel
        /\ x.reminder = work[j].reminder /\ x.todo = s
    BY <2>1, <2>2 DEF Errand
  <2> HIDE DEF x
  <2>4. WorkOK(j, x)
    BY <1>0, <1>1, <2>1, <2>2, <2>3 DEF WorkOK, JobOK, DeliveryOK, Carries, Under
  <2>5. Go(j, x) /\ x \in Doing /\ UNCHANGED <<note, delivery, address, counts>>
    BY <1>3, <2>3 DEF ListMails, world, Doing, x, s
  <2>6. \A n \in Note : Owes(x, n) => Owes(work[j], n)
    BY <2>1, <2>2, <2>3 DEF Owes, Listed, Reminds, Reminded, Carries, Under
  <2> QED BY <1>0, <2>1, <2>3, <2>4, <2>5, <2>6, TurnInv
<1>4. CASE ListUnread(j)
  <2> DEFINE s == {d \in Deliveries : QQDue(d)}
             x == [work[j] EXCEPT !.at = "unread", !.todo = s]
  <2>1. work[j].at = "mails" /\ work[j] \in Errand
    BY <1>0, <1>4, ErrandOf DEF ListUnread, At
  <2>2. s \in SUBSET (Channel \cup Note \cup Nat) /\ s \subseteq {d \in Deliveries : delivery[d].old}
    BY <1>1, RowTypes DEF QQDue
  <2> HIDE DEF s
  <2>3. /\ x \in Errand /\ x.at = "unread" /\ x.channel = work[j].channel
        /\ x.reminder = work[j].reminder /\ x.todo = s
    BY <2>1, <2>2 DEF Errand
  <2> HIDE DEF x
  <2>4. WorkOK(j, x)
    BY <1>0, <1>1, <2>1, <2>2, <2>3 DEF WorkOK, JobOK, DeliveryOK, Carries, Under
  <2>5. Go(j, x) /\ x \in Doing /\ UNCHANGED <<note, delivery, address, counts>>
    BY <1>4, <2>3 DEF ListUnread, world, Doing, x, s
  <2>6. \A n \in Note : Owes(x, n) => Owes(work[j], n)
    BY <2>1, <2>2, <2>3 DEF Owes, Listed, Reminds, Reminded, Carries, Under
  <2> QED BY <1>0, <2>1, <2>3, <2>4, <2>5, <2>6, TurnInv
<1>5. CASE NextUnread(j)
  <2> DEFINE x == [work[j] EXCEPT !.at = "unread"]
  <2>1. work[j].at = "delivered" /\ work[j].channel = "qq" /\ work[j] \in Errand
    BY <1>0, <1>5, ErrandOf DEF NextUnread, At
  <2>2. /\ x \in Errand /\ x.at = "unread" /\ x.channel = work[j].channel
        /\ x.reminder = work[j].reminder /\ x.todo = work[j].todo
    BY <2>1, ErrandGoesOn
  <2> HIDE DEF x
  <2>3. WorkOK(j, x)
    BY <1>0, <1>1, <2>1, <2>2 DEF WorkOK, JobOK, DeliveryOK, Carries, Under
  <2>4. Go(j, x) /\ x \in Doing /\ UNCHANGED <<note, delivery, address, counts>>
    BY <1>5, <2>2 DEF NextUnread, world, Doing, x
  <2>5. \A n \in Note : Owes(x, n) => Owes(work[j], n)
    BY <2>1, <2>2 DEF Owes, Listed, Reminds, Reminded, Carries, Under
  <2> QED BY <1>0, <2>2, <2>3, <2>4, <2>5, TurnInv
<1>6. CASE EndJob(j)
  <2>1. work[j].at = "unread" /\ Go(j, Idle) /\ UNCHANGED <<note, delivery, address, counts>>
    BY <1>6 DEF EndJob, At, world
  <2>2. Idle \in Doing /\ WorkOK(j, Idle) /\ Idle.at = "idle"
    BY <1>0, IdleIsOK
  <2>3. \A n \in Note : Owes(Idle, n) => Owes(work[j], n)
    BY <2>1, <2>2 DEF Owes, Listed, Reminds, Reminded, Carries, Under
  <2> QED BY <1>0, <2>1, <2>2, <2>3, TurnInv
<1>7. ASSUME NEW n \in Note, RemindByMail(j, n) PROVE OutboxInv'
  <2> DEFINE s == work[j].todo \ {n}
             x == [work[j] EXCEPT !.at = "record", !.note = n, !.channel = "email", !.todo = s]
  <2>1. work[j].at = "mails" /\ work[j] \in Errand /\ n \in work[j].todo
    BY <1>0, <1>7, ErrandOf DEF RemindByMail, At
  <2>2. s \in SUBSET (Channel \cup Note \cup Nat)
    BY <2>1 DEF Errand
  <2>3. work[j].todo \subseteq {m \in Note : note[m].status # "none"} /\ n \notin s
    BY <1>1, <2>1 DEF JobOK
  <2>4. s \subseteq work[j].todo
    OBVIOUS
  <2> HIDE DEF s
  <2>5. /\ x \in Errand /\ x.at = "record" /\ x.note = n /\ x.channel = "email"
        /\ x.reminder = work[j].reminder /\ x.todo = s
    BY <2>1, <2>2 DEF Errand, Channel, Under
  <2> HIDE DEF x
  <2>6. WorkOK(j, x)
    BY <1>0, <1>1, <2>1, <2>3, <2>4, <2>5 DEF WorkOK, JobOK, DeliveryOK, Carries, Under
  <2>7. Go(j, x) /\ x \in Doing /\ UNCHANGED <<note, delivery, address, counts>>
    BY <1>7, <2>5 DEF RemindByMail, world, Doing, x, s
  <2>8. \A m \in Note : Owes(x, m) => Owes(work[j], m)
    BY <2>1, <2>4, <2>5 DEF Owes, Listed, Reminds, Reminded, Carries, Under
  <2> QED BY <1>0, <2>5, <2>6, <2>7, <2>8, TurnInv
<1>8. ASSUME NEW d \in Deliveries, RemindByQQ(j, d) PROVE OutboxInv'
  <2> DEFINE n == delivery[d].note
             a == IF MayMessage(n) THEN "record" ELSE "unread"
             s == work[j].todo \ {d}
             x == [work[j] EXCEPT !.at = a, !.note = n, !.channel = "qq", !.todo = s]
  <2>1. work[j].at = "unread" /\ work[j] \in Errand /\ d \in work[j].todo
    BY <1>0, <1>8, ErrandOf DEF RemindByQQ, At
  <2>2. s \in SUBSET (Channel \cup Note \cup Nat) /\ s \subseteq work[j].todo
    BY <2>1 DEF Errand
  <2>3. work[j].todo \subseteq {e \in Deliveries : delivery[e].old}
    BY <1>1, <2>1 DEF JobOK
  <2>4. n \in Note /\ note[n].status # "none" /\ At(n, "idle")
    BY <1>1, <2>1, <2>3, RowTypes DEF OutboxInv, RowsOK
  <2>5. a = "record" => Unannounced(n)
    BY DEF MayMessage, DeliveriesOf, Unannounced
  <2>6. a \in {"record", "unread"}
    OBVIOUS
  <2> HIDE DEF s, a, n
  <2>7. /\ x \in Errand /\ x.at = a /\ x.note = n /\ x.channel = "qq"
        /\ x.reminder = work[j].reminder /\ x.todo = s
    BY <2>1, <2>2, <2>4, <2>6 DEF Errand, Channel, Under
  <2> HIDE DEF x
  <2>8. WorkOK(j, x)
    <3>1. JobOK(x)
      BY <1>1, <2>1, <2>2, <2>3, <2>4, <2>6, <2>7 DEF JobOK, Carries, Under
    <3>2. DeliveryOK(x)
      BY <2>6, <2>7 DEF DeliveryOK
    <3> QED BY <1>0, <3>1, <3>2 DEF WorkOK
  <2>9. Go(j, x) /\ x \in Doing /\ UNCHANGED <<note, delivery, address, counts>>
    BY <1>8, <2>7 DEF RemindByQQ, world, Doing, x, s, a, n
  <2>10. x.at # "send" /\ (x.at = "record" /\ x.channel = "qq" => Unannounced(x.note))
    BY <2>5, <2>6, <2>7
  <2>11. \A m \in Note : Owes(x, m) => Owes(work[j], m)
    BY <2>1, <2>6, <2>7 DEF Owes, Listed, Reminds, Reminded, Carries, Under
  <2> QED BY <1>0, <2>8, <2>9, <2>10, <2>11, TurnInv
<1> QED BY <1>2, <1>3, <1>4, <1>5, <1>6, <1>7, <1>8

-----------------------------------------------------------------------------
(* executeDelivery                                                         *)

\* A worker under way with a delivery has a notification that was created.
LEMMA UnderwayNote ==
  ASSUME OutboxInv, NEW w \in Worker, work[w].at \in Under
  PROVE  work[w] \in Errand /\ work[w].note \in Note /\ note[work[w].note].status # "none"
<1>1. work[w].at # "idle" /\ WorkOK(w, work[w])
  BY DEF Under, OutboxInv
<1>2. CASE w \in Note
  BY <1>1, <1>2, ErrandOf DEF WorkOK, RequestOK
<1>3. CASE w \in Job
  BY <1>1, <1>3, ErrandOf DEF WorkOK, JobOK
<1> QED BY <1>2, <1>3 DEF Worker

LEMMA RecordInv == ASSUME OutboxInv, NEW w \in Worker, Record(w) PROVE OutboxInv'
<1> DEFINE new == [note |-> work[w].note, channel |-> work[w].channel, old |-> FALSE, status |-> "pending"]
<1>0. work[w].at = "record" /\ UNCHANGED <<note, address, counts>> /\ delivery' = Append(delivery, new)
  BY DEF Record, At, world
<1>1. OutboxShape /\ WorkOK(w, work[w]) /\ RowsOK /\ MessagesOK /\ RemindersOK
  BY DEF OutboxInv
<1>2. work[w] \in Errand /\ work[w].note \in Note /\ note[work[w].note].status # "none"
  BY <1>0, UnderwayNote DEF Under
<1>3. PICK L \in Nat : L = Len(delivery)
  BY <1>1 DEF OutboxShape
<1>4. new \in DeliveryRow /\ delivery \in Seq(DeliveryRow)
  BY <1>1, <1>2 DEF DeliveryRow, Errand, OutboxShape
<1>5. /\ delivery' \in Seq(DeliveryRow)
      /\ Deliveries = 1 .. L /\ Deliveries' = 1 .. L + 1
      /\ \A d \in 1 .. L : delivery'[d] = delivery[d]
      /\ delivery'[L + 1] = new
  <2> HIDE DEF new
  <2> QED BY <1>0, <1>3, <1>4 DEF Deliveries
<1>6. /\ \A d \in Deliveries : d \in Deliveries' /\ delivery'[d] = delivery[d]
      /\ L + 1 \in Deliveries' /\ L + 1 \notin Deliveries
      /\ \A d \in Deliveries' : d = L + 1 \/ d \in Deliveries
  BY <1>5
<1>7. \A n : Unannounced(n)' <=> (Unannounced(n) /\ ~(work[w].note = n /\ work[w].channel = "qq"))
  <2>1. new.note = work[w].note /\ new.channel = work[w].channel
    OBVIOUS
  <2> HIDE DEF new
  <2> QED BY <1>5, <1>6, <2>1 DEF Unannounced
<1> DEFINE e == [work[w] EXCEPT !.at = "send", !.row = L + 1]
<1>8. /\ e \in Errand /\ e.at = "send" /\ e.note = work[w].note /\ e.channel = work[w].channel
      /\ e.reminder = work[w].reminder /\ e.todo = work[w].todo /\ e.row = L + 1
  <2>1. L + 1 \in Nat
    OBVIOUS
  <2> QED BY <1>2, <2>1 DEF Errand, Under
<1>9. e \in Doing /\ Go(w, e)
  BY <1>3, <1>8 DEF Doing, Record
<1> HIDE DEF e
<1>10. /\ work' \in [Worker -> Doing] /\ work'[w] = e /\ \A v \in Worker \ {w} : work'[v] = work[v]
  BY <1>1, <1>9, GoShape DEF OutboxShape
<1>11. \A n \in Note : At(n, "idle") => At(n, "idle")'
  BY <1>0, <1>10 DEF At, Worker
<1>12. WorkOK(w, work[w])'
  <2>1. PICK r \in Doing : r = e
    BY <1>9
  <2>2. RequestOK(w, r)' \/ w \notin Note
    <3> SUFFICES ASSUME w \in Note PROVE RequestOK(w, r)'
      OBVIOUS
    <3>1. RequestOK(w, work[w])
      BY <1>1 DEF WorkOK
    <3>2. "qq" \in work[w].todo => Unannounced(w)'
      BY <1>0, <1>7, <3>1 DEF RequestOK, Carries, Under
    <3>3. note' = note /\ r.at = "send" /\ r.note = work[w].note /\ r.todo = work[w].todo
          /\ r.reminder = work[w].reminder /\ r.channel = work[w].channel
      BY <1>0, <1>8, <2>1
    <3> QED BY <1>0, <3>1, <3>2, <3>3 DEF RequestOK, Carries, Under
  <2>3. JobOK(r)' \/ w \notin Job
    <3> SUFFICES ASSUME w \in Job PROVE JobOK(r)'
      OBVIOUS
    <3>1. JobOK(work[w])
      BY <1>1 DEF WorkOK
    <3>2. note' = note /\ r.at = "send" /\ r.note = work[w].note /\ r.todo = work[w].todo
          /\ r.reminder = work[w].reminder /\ r.channel = work[w].channel
      BY <1>0, <1>8, <2>1
    <3>3. {d \in Deliveries : delivery[d].old} \subseteq {d \in Deliveries' : delivery'[d].old}
      BY <1>6
    <3>4. work[w].channel = "qq" => work'[work[w].note].at = "idle"
      BY <1>0, <1>2, <1>11, <3>1 DEF JobOK, At
    <3>5. (r.at = "mails" \/ Carries(r, "email")) => Carries(work[w], "email")
      BY <1>0, <3>2 DEF Carries, Under
    <3>6. (r.at = "unread" \/ Carries(r, "qq")) => Carries(work[w], "qq")
      BY <1>0, <3>2 DEF Carries, Under
    <3>7. (r.at \in {"record", "send"} /\ r.channel = "qq") => At(r.note, "idle")'
      BY <3>2, <3>4 DEF At
    <3>8. r.at \in Under /\ work[w].at \in Under /\ work[w].at # "idle"
      BY <1>0, <3>2 DEF Under
    <3>9. (r.at = "unread" \/ Carries(r, "qq")) => r.todo \subseteq {d \in Deliveries' : delivery'[d].old}
      BY <3>1, <3>2, <3>3, <3>6, <3>8 DEF JobOK
    <3>10. Carries(r, "email")' <=> Carries(r, "email")
      BY DEF Carries
    <3>11. Carries(r, "qq")' <=> Carries(r, "qq")
      BY DEF Carries
    <3> QED BY <3>1, <3>2, <3>5, <3>7, <3>8, <3>9, <3>10, <3>11 DEF JobOK
  <2>4. DeliveryOK(r)'
    <3>1. new.note = work[w].note /\ new.channel = work[w].channel
      OBVIOUS
    <3> QED BY <1>5, <1>6, <1>8, <2>1, <3>1 DEF DeliveryOK
  <2> QED BY <1>10, <2>1, <2>2, <2>3, <2>4 DEF WorkOK
<1>13. ASSUME NEW v \in Worker, v # w PROVE WorkOK(v, work[v])'
  <2>1. PICK r \in Doing : r = work[v] /\ r = work'[v] /\ WorkOK(v, r)
    BY <1>1, <1>10, <1>13 DEF OutboxInv, OutboxShape
  <2>2. work[w].channel = "qq" => (v = work[w].note => r.at = "idle")
    <3>1. CASE w \in Note
      BY <1>0, <1>1, <1>13, <3>1 DEF WorkOK, RequestOK
    <3>2. CASE w \in Job
      BY <1>0, <1>1, <2>1, <3>2 DEF WorkOK, JobOK, At
    <3> QED BY <3>1, <3>2 DEF Worker
  <2>3. v \in Note /\ r.at # "idle" /\ Unannounced(v) => Unannounced(v)'
    BY <1>7, <2>2
  <2>4. WorkOK(v, r)'
    BY <1>0, <1>6, <1>11, <2>1, <2>3, WorkStaysOK
  <2> QED BY <2>1, <2>4
<1>14. OutboxShape'
  BY <1>0, <1>1, <1>5, <1>10 DEF OutboxShape, counts
<1>15. RowsOK'
  <2>1. new.note = work[w].note /\ ~new.old
    OBVIOUS
  <2>2. \A d \in Deliveries : delivery[d].note \in Note
    BY <1>1, RowTypes
  <2> HIDE DEF new
  <2> QED BY <1>0, <1>1, <1>2, <1>5, <1>6, <1>11, <2>1, <2>2, ZenonT(40) DEF RowsOK
<1>16. MessagesOK'
  <2> SUFFICES ASSUME NEW n \in Note
               PROVE  /\ messages'[n] + Cardinality(Announcing(n)') <= Cardinality(Job)
                      /\ Unannounced(n)' => messages'[n] = 0
    BY DEF MessagesOK
  <2>1. \A v \in Worker : WorkOK(v, work[v])'
    BY <1>12, <1>13
  <2>2. Announcing(n)' \subseteq Announcing(n)
    BY <1>0, <1>8, <1>10 DEF Announcing, Announces, Worker
  <2>3. messages' = messages /\ (Unannounced(n)' => Unannounced(n))
    BY <1>0, <1>7 DEF counts
  <2> QED BY <2>1, <2>2, <2>3, MessagesStay
<1>17. RemindersOK'
  <2>1. \A n \in Note : Owes(e, n) => Owes(work[w], n)
    BY <1>0, <1>8 DEF Owes, Listed, Reminds, Reminded, Carries, Under
  <2>2. \A r, n : Owes(r, n)' <=> Owes(r, n)
    BY <1>0 DEF Owes, Listed, Reminds, Reminded, Carries
  <2>3. \A n \in Note : MayRemind(n)' \subseteq MayRemind(n)
    BY <1>10, <2>1, <2>2 DEF MayRemind, Worker
  <2> QED BY <1>0, <2>3, RemindersStay DEF RemindersOK, counts
<1> QED BY <1>12, <1>13, <1>14, <1>15, <1>16, <1>17 DEF OutboxInv

LEMMA SendInv ==
  ASSUME OutboxInv, NEW w \in Worker, NEW ok \in BOOLEAN, Send(w, ok)
  PROVE  OutboxInv'
<1> DEFINE n == work[w].note
           e == [work[w] EXCEPT !.at = "outcome", !.ok = ok]
           mails == ok /\ work[w].channel = "email" /\ work[w].reminder
           says == ok /\ work[w].channel = "qq"
<1>0. /\ work[w].at = "send" /\ UNCHANGED <<note, delivery, address, crashes>> /\ Go(w, e)
      /\ reminders' = IF mails THEN [reminders EXCEPT ![n] = @ + 1] ELSE reminders
      /\ messages' = IF says THEN [messages EXCEPT ![n] = @ + 1] ELSE messages
  BY DEF Send, At, world
<1>1. OutboxShape /\ WorkOK(w, work[w]) /\ RowsOK /\ MessagesOK /\ RemindersOK
  BY DEF OutboxInv
<1>2. work[w] \in Errand /\ n \in Note /\ note[n].status # "none"
  BY <1>0, UnderwayNote DEF Under
<1>3. /\ e \in Errand /\ e.at = "outcome" /\ e.note = n /\ e.channel = work[w].channel
      /\ e.reminder = work[w].reminder /\ e.todo = work[w].todo /\ e.row = work[w].row
  BY <1>2 DEF Errand, Under
<1>4. e \in Doing
  BY <1>3 DEF Doing
<1> HIDE DEF e, n, mails, says
<1>5. /\ work' \in [Worker -> Doing] /\ work'[w] = e /\ \A v \in Worker \ {w} : work'[v] = work[v]
  BY <1>0, <1>1, <1>4, GoShape DEF OutboxShape
<1>6. \A m \in Note : At(m, "idle") => At(m, "idle")'
  BY <1>0, <1>5 DEF At, Worker
<1>7. note' = note /\ delivery' = delivery /\ Deliveries' = Deliveries
      /\ (\A m : Unannounced(m)' <=> Unannounced(m))
  BY <1>0 DEF Deliveries, Unannounced
<1>8. /\ messages' \in [Note -> Nat] /\ \A m \in Note \ {n} : messages'[m] = messages[m]
      /\ messages'[n] = IF says THEN messages[n] + 1 ELSE messages[n]
  BY <1>0, <1>1, <1>2 DEF OutboxShape
<1>9. /\ reminders' \in [Note -> Nat] /\ \A m \in Note \ {n} : reminders'[m] = reminders[m]
      /\ reminders'[n] = IF mails THEN reminders[n] + 1 ELSE reminders[n]
  BY <1>0, <1>1, <1>2 DEF OutboxShape
<1>10. WorkOK(w, work[w])'
  <2>1. PICK r \in Doing : r = e
    BY <1>4
  <2>2. WorkOK(w, r)
    <3>1. DeliveryOK(r)
      BY <1>0, <1>1, <1>3, <2>1 DEF WorkOK, DeliveryOK, n
    <3>2. w \in Note => RequestOK(w, r)
      BY <1>0, <1>1, <1>3, <2>1 DEF WorkOK, RequestOK, Carries, Under, n
    <3>3. w \in Job => JobOK(r)
      BY <1>0, <1>1, <1>3, <2>1 DEF WorkOK, JobOK, Carries, Under, n
    <3> QED BY <3>1, <3>2, <3>3 DEF WorkOK
  <2>3. WorkOK(w, r)'
    BY <1>0, <1>6, <1>7, <2>2, WorkStaysOK
  <2> QED BY <1>5, <2>1, <2>3
<1>11. ASSUME NEW v \in Worker, v # w PROVE WorkOK(v, work[v])'
  <2>1. PICK r \in Doing : r = work[v] /\ r = work'[v] /\ WorkOK(v, r)
    BY <1>1, <1>5, <1>11 DEF OutboxInv, OutboxShape
  <2>2. WorkOK(v, r)'
    BY <1>0, <1>6, <1>7, <2>1, WorkStaysOK
  <2> QED BY <2>1, <2>2
<1>12. OutboxShape'
  BY <1>0, <1>1, <1>5, <1>8, <1>9 DEF OutboxShape
<1>13. RowsOK'
  BY <1>1, <1>6, <1>7, RowTypes DEF RowsOK
<1>14. MessagesOK'
  <2> SUFFICES ASSUME NEW m \in Note
               PROVE  /\ messages'[m] + Cardinality(Announcing(m)') <= Cardinality(Job)
                      /\ Unannounced(m)' => messages'[m] = 0
    BY DEF MessagesOK
  <2>1. Announcing(m)' \subseteq Announcing(m) \ {w}
    BY <1>3, <1>5 DEF Announcing, Announces, Worker
  <2>2. CASE m = n /\ says
    <3>1. ~Unannounced(m)'
      BY <1>0, <1>1, <1>7, <2>2 DEF WorkOK, DeliveryOK, Unannounced, says, n
    <3>2. w \in Announcing(m)
      <4>1. w \in Job \cup {m}
        BY <1>0, <1>1, <2>2 DEF WorkOK, RequestOK, Worker, n
      <4> QED BY <1>0, <2>2, <4>1 DEF Announcing, Announces, says, n
    <3>3. \A j \in Job : Announces(work[j], m) => ~Announces(work[m], m)
      BY DEF OutboxInv, WorkOK, JobOK, Announces, Worker, At
    <3>4. IsFiniteSet(Announcing(m))
      BY <3>3, FewAnnounce DEF Announcing
    <3>5. messages[m] + Cardinality(Announcing(m)) <= Cardinality(Job)
      BY <1>1 DEF MessagesOK
    <3>6. messages[m] \in Nat
      BY <1>1 DEF OutboxShape
    <3>7. (messages[m] + 1) + Cardinality(Announcing(m)') <= Cardinality(Job)
      BY <2>1, <3>2, <3>4, <3>5, <3>6, OneSpent, JobsAreSome
    <3>8. messages'[m] = messages[m] + 1
      BY <1>8, <2>2
    <3> QED BY <3>1, <3>7, <3>8
  <2>3. CASE ~(m = n /\ says)
    <3>1. messages'[m] = messages[m]
      BY <1>8, <2>3
    <3>2. \A v \in Worker : WorkOK(v, work[v])'
      BY <1>10, <1>11
    <3>3. Announcing(m)' \subseteq Announcing(m) /\ (Unannounced(m)' => Unannounced(m))
      BY <1>7, <2>1
    <3> QED BY <3>1, <3>2, <3>3, MessagesStay
  <2> QED BY <2>2, <2>3
<1>15. RemindersOK'
  <2> SUFFICES ASSUME NEW m \in Note
               PROVE  reminders'[m] + Cardinality(MayRemind(m)') <= Cardinality(Job) * (1 + crashes')
    BY DEF RemindersOK
  <2>1. \A r : Owes(r, m)' <=> Owes(r, m)
    BY <1>0 DEF Owes, Listed, Reminds, Reminded, Carries
  <2>2. w \in Job => (Owes(e, m) => Owes(work[w], m))
    BY <1>0, <1>3 DEF Owes, Listed, Reminds, Reminded, Carries, Under, n
  <2>3. MayRemind(m)' \subseteq MayRemind(m)
    BY <1>5, <2>1, <2>2 DEF MayRemind, Worker
  <2>4. CASE m = n /\ mails
    <3>1. w \in Job
      BY <1>0, <1>1, <2>4 DEF WorkOK, RequestOK, Worker, mails
    <3>2. JobOK(work[w]) /\ work[w].channel = "email"
      BY <1>1, <2>4, <3>1 DEF WorkOK, mails
    <3>3. w \in MayRemind(m)
      BY <1>0, <2>4, <3>1, <3>2 DEF MayRemind, Owes, Reminds, n
    <3>4. m \notin work[w].todo
      BY <1>0, <2>4, <3>2 DEF JobOK, Carries, Under, n
    <3>5. ~Owes(e, m)
      BY <1>3, <2>4, <3>2, <3>4 DEF Owes, Listed, Reminds, Reminded
    <3>6. MayRemind(m)' \in SUBSET (MayRemind(m) \ {w})
      BY <1>5, <2>1, <2>3, <3>5 DEF MayRemind
    <3>7. IsFiniteSet(MayRemind(m))
      BY JobsAreSome, FS_Subset DEF MayRemind
    <3>8. reminders[m] \in Nat /\ reminders[m] + Cardinality(MayRemind(m)) <= Cardinality(Job) * (1 + crashes)
      BY <1>1 DEF OutboxShape, RemindersOK
    <3>9. Cardinality(Job) * (1 + crashes) \in Nat
      BY <1>1, JobsAreSome DEF OutboxShape
    <3>10. \A B \in Nat : reminders[m] + Cardinality(MayRemind(m)) <= B => (reminders[m] + 1) + Cardinality(MayRemind(m)') <= B
      BY <3>3, <3>6, <3>7, <3>8, OneSpent
    <3>11. reminders'[m] = reminders[m] + 1 /\ crashes' = crashes
      BY <1>0, <1>9, <2>4
    <3> QED BY <3>8, <3>9, <3>10, <3>11
  <2>5. CASE ~(m = n /\ mails)
    <3>1. reminders'[m] = reminders[m] /\ crashes' = crashes
      BY <1>0, <1>9, <2>5
    <3> QED BY <2>3, <3>1, RemindersStay
  <2> QED BY <2>4, <2>5
<1> QED BY <1>10, <1>11, <1>12, <1>13, <1>14, <1>15 DEF OutboxInv

\* A row is aged, or what came of its delivery is noted on it.
LEMMA RowChanged ==
  ASSUME OutboxShape, NEW k \in Deliveries, NEW row \in DeliveryRow,
         row.note = delivery[k].note, row.channel = delivery[k].channel, delivery[k].old => row.old,
         delivery' = [delivery EXCEPT ![k] = row]
  PROVE  /\ delivery' \in Seq(DeliveryRow) /\ Deliveries' = Deliveries
         /\ \A d \in Deliveries \ {k} : delivery'[d] = delivery[d]
         /\ delivery'[k] = row
         /\ \A d \in Deliveries : /\ delivery'[d].note = delivery[d].note
                                  /\ delivery'[d].channel = delivery[d].channel
                                  /\ delivery[d].old => delivery'[d].old
         /\ \A n : Unannounced(n)' <=> Unannounced(n)
<1>1. PICK L \in Nat : L = Len(delivery)
  BY DEF OutboxShape
<1>2. delivery \in [1 .. L -> DeliveryRow] /\ Deliveries = 1 .. L
  BY <1>1 DEF OutboxShape, Deliveries
<1>3. delivery' \in [1 .. L -> DeliveryRow] /\ Deliveries' = 1 .. L
  BY <1>2 DEF Deliveries
<1>4. delivery' \in Seq(DeliveryRow)
  <2>1. k \in 1 .. Len(delivery) /\ delivery \in Seq(DeliveryRow)
    BY <1>1, <1>2 DEF OutboxShape
  <2> QED BY <2>1, ExceptSeq
<1>5. \A d \in Deliveries \ {k} : delivery'[d] = delivery[d]
  BY <1>2
<1>6. delivery'[k] = row
  BY <1>2
<1>7. \A d \in Deliveries : /\ delivery'[d].note = delivery[d].note
                            /\ delivery'[d].channel = delivery[d].channel
                            /\ delivery[d].old => delivery'[d].old
  BY <1>5, <1>6
<1> QED BY <1>2, <1>3, <1>4, <1>5, <1>6, <1>7 DEF Unannounced

LEMMA OutcomeInv == ASSUME OutboxInv, NEW w \in Worker, Outcome(w) PROVE OutboxInv'
<1> DEFINE k == work[w].row
           row == [delivery[k] EXCEPT !.status = IF work[w].ok THEN "sent" ELSE "failed"]
           e == [work[w] EXCEPT !.at = "delivered"]
<1>0. /\ work[w].at = "outcome" /\ UNCHANGED <<note, address, counts>> /\ Go(w, e)
      /\ delivery' = [delivery EXCEPT ![k] = row]
  BY DEF Outcome, At, world
<1>1. OutboxShape /\ WorkOK(w, work[w]) /\ RowsOK /\ MessagesOK /\ RemindersOK
  BY DEF OutboxInv
<1>2. work[w] \in Errand /\ work[w].note \in Note
  BY <1>0, UnderwayNote DEF Under
<1>3. k \in Deliveries
  BY <1>0, <1>1 DEF WorkOK, DeliveryOK
<1>4. delivery[k] \in DeliveryRow
  BY <1>1, <1>3, RowTypes
<1>5. row \in DeliveryRow /\ row.note = delivery[k].note /\ row.channel = delivery[k].channel /\ row.old = delivery[k].old
  <2> HIDE DEF k
  <2> QED BY <1>4 DEF DeliveryRow
<1>6. /\ e \in Errand /\ e.at = "delivered" /\ e.note = work[w].note /\ e.channel = work[w].channel
      /\ e.reminder = work[w].reminder /\ e.todo = work[w].todo
  BY <1>2 DEF Errand, Under
<1>7. e \in Doing
  BY <1>6 DEF Doing
<1> HIDE DEF e, row, k
<1>8. /\ delivery' \in Seq(DeliveryRow) /\ Deliveries' = Deliveries
      /\ \A d \in Deliveries : /\ delivery'[d].note = delivery[d].note
                               /\ delivery'[d].channel = delivery[d].channel
                               /\ delivery[d].old => delivery'[d].old
      /\ \A n : Unannounced(n)' <=> Unannounced(n)
  BY <1>0, <1>1, <1>3, <1>5, RowChanged
<1>9. \A d \in Deliveries : delivery'[d].old = delivery[d].old
  BY <1>0, <1>1, <1>3, <1>5, RowChanged
<1>10. /\ work' \in [Worker -> Doing] /\ work'[w] = e /\ \A v \in Worker \ {w} : work'[v] = work[v]
  BY <1>0, <1>1, <1>7, GoShape DEF OutboxShape
<1>11. \A m \in Note : At(m, "idle") => At(m, "idle")'
  BY <1>0, <1>10 DEF At, Worker
<1>12. \A v \in Worker, r \in Doing : WorkOK(v, r) => WorkOK(v, r)'
  <2> SUFFICES ASSUME NEW v \in Worker, NEW r \in Doing, WorkOK(v, r) PROVE WorkOK(v, r)'
    OBVIOUS
  <2> QED BY <1>0, <1>8, <1>11, WorkStaysOK
<1>13. WorkOK(w, work[w])'
  <2>1. PICK r \in Doing : r = e
    BY <1>7
  <2>2. DeliveryOK(r)
    BY <1>6, <2>1 DEF DeliveryOK
  <2>3. w \in Note => RequestOK(w, r)
    BY <1>0, <1>1, <1>6, <2>1 DEF WorkOK, RequestOK, Carries, Under
  <2>4. w \in Job => JobOK(r)
    BY <1>0, <1>1, <1>6, <2>1 DEF WorkOK, JobOK, Carries, Under
  <2>5. WorkOK(w, r)'
    BY <1>12, <2>2, <2>3, <2>4 DEF WorkOK
  <2> QED BY <1>10, <2>1, <2>5
<1>14. ASSUME NEW v \in Worker, v # w PROVE WorkOK(v, work[v])'
  <2>1. PICK r \in Doing : r = work[v] /\ r = work'[v] /\ WorkOK(v, r)
    BY <1>1, <1>10, <1>14 DEF OutboxInv, OutboxShape
  <2> QED BY <1>12, <2>1
<1>15. OutboxShape'
  BY <1>0, <1>1, <1>8, <1>10 DEF OutboxShape, counts
<1>16. RowsOK'
  BY <1>0, <1>1, <1>8, <1>9, <1>11, RowTypes DEF RowsOK
<1>17. MessagesOK'
  <2> SUFFICES ASSUME NEW m \in Note
               PROVE  /\ messages'[m] + Cardinality(Announcing(m)') <= Cardinality(Job)
                      /\ Unannounced(m)' => messages'[m] = 0
    BY DEF MessagesOK
  <2>1. \A v \in Worker : WorkOK(v, work[v])'
    BY <1>13, <1>14
  <2>2. Announcing(m)' \subseteq Announcing(m)
    BY <1>6, <1>10 DEF Announcing, Announces, Worker
  <2>3. messages' = messages /\ (Unannounced(m)' => Unannounced(m))
    BY <1>0, <1>8 DEF counts
  <2> QED BY <2>1, <2>2, <2>3, MessagesStay
<1>18. RemindersOK'
  <2>1. \A m \in Note : Owes(e, m) => Owes(work[w], m)
    BY <1>0, <1>6 DEF Owes, Listed, Reminds, Reminded, Carries, Under
  <2>2. \A r, m : Owes(r, m)' <=> Owes(r, m)
    BY <1>0 DEF Owes, Listed, Reminds, Reminded, Carries
  <2>3. \A m \in Note : MayRemind(m)' \subseteq MayRemind(m)
    BY <1>10, <2>1, <2>2 DEF MayRemind, Worker
  <2> QED BY <1>0, <2>3, RemindersStay DEF RemindersOK, counts
<1> QED BY <1>13, <1>14, <1>15, <1>16, <1>17, <1>18 DEF OutboxInv

\* A step that changes notifications alone, and takes none back.
LEMMA NotesInv ==
  ASSUME OutboxInv, UNCHANGED <<delivery, work, address, counts>>,
         note' \in [Note -> NoteRow],
         \A n \in Note : note[n].status # "none" => note'[n].status # "none",
         \A n \in Note : note'[n].mailed = note[n].mailed
  PROVE  OutboxInv'
<1>0. OutboxShape /\ RowsOK /\ MessagesOK /\ RemindersOK /\ Deliveries' = Deliveries
  BY DEF OutboxInv, Deliveries
<1>1. \A v \in Worker : WorkOK(v, work[v])'
  <2> SUFFICES ASSUME NEW v \in Worker PROVE WorkOK(v, work[v])'
    OBVIOUS
  <2>1. PICK r \in Doing : r = work[v] /\ r = work'[v] /\ WorkOK(v, r)
    BY DEF OutboxInv, OutboxShape
  <2>2. WorkOK(v, r)'
    <3>1. \A n : Unannounced(n) => Unannounced(n)'
      BY <1>0 DEF Unannounced
    <3>2. \A n : At(n, "idle") => At(n, "idle")'
      BY DEF At
    <3> QED BY <1>0, <2>1, <3>1, <3>2, WorkStaysOK
  <2> QED BY <2>1, <2>2
<1>2. OutboxShape'
  BY <1>0 DEF OutboxShape, counts
<1>3. RowsOK'
  BY <1>0, RowTypes DEF RowsOK, At
<1>4. MessagesOK'
  BY <1>0 DEF MessagesOK, Unannounced, Announcing, counts
<1>5. RemindersOK'
  <2>1. \A n \in Note : MayRemind(n)' \subseteq MayRemind(n)
    BY DEF MayRemind, Owes, Listed, Reminds, Reminded, Carries
  <2> QED BY <2>1, RemindersStay DEF RemindersOK, counts
<1> QED BY <1>1, <1>2, <1>3, <1>4, <1>5 DEF OutboxInv

LEMMA CreateInv == ASSUME OutboxInv, NEW n \in Note, Create(n) PROVE OutboxInv'
<1> DEFINE e == Blank(n, FALSE)
<1>0. /\ note[n].status = "none" /\ UNCHANGED <<delivery, address, counts>> /\ Go(n, e)
      /\ note' = [note EXCEPT ![n].status = "unread"]
  BY DEF Create, world
<1>1. OutboxShape /\ WorkOK(n, work[n]) /\ RowsOK /\ MessagesOK /\ RemindersOK /\ n \in Worker /\ n \notin Job
  BY OutboxAssumption DEF OutboxInv, Worker
<1>2. /\ e \in Errand /\ e.at = "start" /\ e.note = n /\ ~e.reminder /\ e.todo = {} /\ e.channel = "email"
  BY DEF Blank, Errand, Channel
<1>3. e \in Doing
  BY <1>2 DEF Doing
<1> HIDE DEF e
<1>4. /\ note' \in [Note -> NoteRow] /\ note'[n].status = "unread"
      /\ \A m \in Note : note'[m].mailed = note[m].mailed
      /\ \A m \in Note \ {n} : note'[m].status = note[m].status
  BY <1>0, <1>1 DEF OutboxShape, NoteRow
<1>5. /\ work' \in [Worker -> Doing] /\ work'[n] = e /\ \A v \in Worker \ {n} : work'[v] = work[v]
  BY <1>0, <1>1, <1>3, GoShape DEF OutboxShape
<1>6. \A m \in Note : note[m].status # "none" /\ At(m, "idle") => At(m, "idle")'
  BY <1>0, <1>5 DEF At, Worker
<1>7. /\ messages' = messages /\ delivery' = delivery /\ Deliveries' = Deliveries
      /\ \A m : Unannounced(m)' <=> Unannounced(m)
  BY <1>0 DEF counts, Deliveries, Unannounced
<1>8. \A d \in Deliveries : delivery[d].note # n
  BY <1>0, <1>1 DEF RowsOK
<1>9. WorkOK(n, work[n])'
  <2>1. PICK r \in Doing : r = e
    BY <1>3
  <2>2. Unannounced(n)'
    BY <1>7, <1>8 DEF Unannounced
  <2>3. RequestOK(n, r)'
    BY <1>2, <1>4, <2>1, <2>2 DEF RequestOK, Carries, Under
  <2>4. DeliveryOK(r)'
    BY <1>2, <2>1 DEF DeliveryOK
  <2> QED BY <1>1, <1>5, <2>1, <2>3, <2>4 DEF WorkOK
<1>10. ASSUME NEW v \in Worker, v # n PROVE WorkOK(v, work[v])'
  <2>1. PICK r \in Doing : r = work[v] /\ r = work'[v] /\ WorkOK(v, r)
    BY <1>1, <1>5, <1>10 DEF OutboxInv, OutboxShape
  <2>2. \A m \in Note : note[m].status # "none" => note'[m].status # "none"
    BY <1>0, <1>4
  <2> QED BY <1>4, <1>6, <1>7, <2>1, <2>2, WorkStaysOK
<1>11. OutboxShape'
  BY <1>0, <1>1, <1>4, <1>5 DEF OutboxShape, counts
<1>12. RowsOK'
  BY <1>1, <1>4, <1>6, <1>7, <1>8, RowTypes DEF RowsOK
<1>13. MessagesOK'
  <2> SUFFICES ASSUME NEW m \in Note
               PROVE  /\ messages'[m] + Cardinality(Announcing(m)') <= Cardinality(Job)
                      /\ Unannounced(m)' => messages'[m] = 0
    BY DEF MessagesOK
  <2>1. \A v \in Worker : WorkOK(v, work[v])'
    BY <1>9, <1>10
  <2>2. Announcing(m)' \subseteq Announcing(m)
    BY <1>2, <1>5 DEF Announcing, Announces, Worker
  <2> QED BY <1>7, <2>1, <2>2, MessagesStay
<1>14. RemindersOK'
  <2>1. \A j \in Job : work'[j] = work[j]
    BY <1>1, <1>5 DEF Worker
  <2>2. \A m \in Note : MayRemind(m)' \subseteq MayRemind(m)
    BY <1>4, <2>1 DEF MayRemind, Owes, Listed, Reminds, Reminded, Carries
  <2> QED BY <1>0, <2>2, RemindersStay DEF RemindersOK, counts
<1> QED BY <1>9, <1>10, <1>11, <1>12, <1>13, <1>14 DEF OutboxInv

LEMMA NoteChannelInv == ASSUME OutboxInv, NEW j \in Job, NoteChannel(j) PROVE OutboxInv'
<1> DEFINE n == work[j].note
           e == [work[j] EXCEPT !.at = "mails"]
<1>0. /\ work[j].at = "delivered" /\ work[j].channel = "email"
      /\ UNCHANGED <<delivery, address, counts>> /\ Go(j, e)
      /\ note' = [note EXCEPT ![n].mailed = TRUE]
  BY DEF NoteChannel, Mailed, At, world
<1>1. OutboxShape /\ JobOK(work[j]) /\ RowsOK /\ MessagesOK /\ RemindersOK /\ j \in Worker /\ j \notin Note
  BY OutboxAssumption DEF OutboxInv, Worker, WorkOK
<1>2. work[j] \in Errand /\ n \in Note
  BY <1>0, <1>1, UnderwayNote DEF Under
<1>3. /\ e \in Errand /\ e.at = "mails" /\ e.channel = work[j].channel
      /\ e.reminder = work[j].reminder /\ e.todo = work[j].todo
  BY <1>2 DEF Errand
<1>4. e \in Doing
  BY <1>3 DEF Doing
<1> HIDE DEF e, n
<1>5. /\ note' \in [Note -> NoteRow] /\ note'[n].mailed
      /\ \A m \in Note : note'[m].status = note[m].status
      /\ \A m \in Note \ {n} : note'[m].mailed = note[m].mailed
  BY <1>0, <1>1, <1>2 DEF OutboxShape, NoteRow
<1>6. /\ work' \in [Worker -> Doing] /\ work'[j] = e /\ \A v \in Worker \ {j} : work'[v] = work[v]
  BY <1>0, <1>1, <1>4, GoShape DEF OutboxShape
<1>7. \A m \in Note : At(m, "idle") => At(m, "idle")'
  BY <1>1, <1>6 DEF At, Worker
<1>8. /\ messages' = messages /\ delivery' = delivery /\ Deliveries' = Deliveries
      /\ \A m : Unannounced(m)' <=> Unannounced(m)
  BY <1>0 DEF counts, Deliveries, Unannounced
<1>9. WorkOK(j, work[j])'
  <2>1. PICK r \in Doing : r = e
    BY <1>4
  <2>2. r.todo \subseteq {m \in Note : note[m].status # "none"} /\ r.reminder
    BY <1>0, <1>1, <1>3, <2>1 DEF JobOK, Carries, Under
  <2>3. r.todo \subseteq {m \in Note : note'[m].status # "none"}
    BY <1>5, <2>2
  <2>4. JobOK(r)'
    BY <1>0, <1>3, <2>1, <2>2, <2>3 DEF JobOK, Carries, Under
  <2>5. DeliveryOK(r)'
    BY <1>3, <2>1 DEF DeliveryOK
  <2> QED BY <1>1, <1>6, <2>1, <2>4, <2>5 DEF WorkOK
<1>10. ASSUME NEW v \in Worker, v # j PROVE WorkOK(v, work[v])'
  <2>1. PICK r \in Doing : r = work[v] /\ r = work'[v] /\ WorkOK(v, r)
    BY <1>1, <1>6, <1>10 DEF OutboxInv, OutboxShape
  <2> QED BY <1>5, <1>7, <1>8, <2>1, WorkStaysOK
<1>11. OutboxShape'
  BY <1>0, <1>1, <1>5, <1>6 DEF OutboxShape, counts
<1>12. RowsOK'
  BY <1>1, <1>5, <1>7, <1>8, RowTypes DEF RowsOK
<1>13. MessagesOK'
  <2> SUFFICES ASSUME NEW m \in Note
               PROVE  /\ messages'[m] + Cardinality(Announcing(m)') <= Cardinality(Job)
                      /\ Unannounced(m)' => messages'[m] = 0
    BY DEF MessagesOK
  <2>1. \A v \in Worker : WorkOK(v, work[v])'
    BY <1>9, <1>10
  <2>2. Announcing(m)' \subseteq Announcing(m)
    BY <1>3, <1>6 DEF Announcing, Announces, Worker
  <2> QED BY <1>8, <2>1, <2>2, MessagesStay
<1>14. RemindersOK'
  <2>1. \A m \in Note : (Owes(e, m) => Owes(work[j], m)) \/ m = n
    BY <1>0, <1>3 DEF Owes, Listed, Reminds, Reminded, Carries, Under, n
  <2>2. n \notin work[j].todo
    BY <1>0, <1>1 DEF JobOK, Carries, Under, n
  <2>3. \A r, m : r = e /\ m = n => ~Owes(r, m)'
    BY <1>3, <1>5, <2>2 DEF Owes, Listed, Reminds, Carries, Under
  <2>4. \A r : \A m \in Note : Owes(r, m)' => Owes(r, m)
    BY <1>5 DEF Owes, Listed, Reminds, Reminded, Carries
  <2>5. ASSUME NEW m \in Note, NEW i \in Job, Owes(work[i], m)' PROVE Owes(work[i], m)
    <3>1. CASE i = j
      BY <1>6, <2>1, <2>3, <2>4, <2>5, <3>1
    <3>2. CASE i # j
      BY <1>6, <2>4, <2>5, <3>2 DEF Worker
    <3> QED BY <3>1, <3>2
  <2>6. \A m \in Note : MayRemind(m)' \subseteq MayRemind(m)
    BY <2>5 DEF MayRemind
  <2> QED BY <1>0, <2>6, RemindersStay DEF RemindersOK, counts
<1> QED BY <1>9, <1>10, <1>11, <1>12, <1>13, <1>14 DEF OutboxInv

LEMMA MailAgesInv == ASSUME OutboxInv, NEW d \in Deliveries, MailAges(d) PROVE OutboxInv'
<1> DEFINE row == [delivery[d] EXCEPT !.old = TRUE]
<1>0. /\ UNCHANGED <<note, work, address, counts>> /\ delivery' = [delivery EXCEPT ![d] = row]
      /\ At(delivery[d].note, "idle")
  BY DEF MailAges, world
<1>1. OutboxShape /\ RowsOK /\ MessagesOK /\ RemindersOK
  BY DEF OutboxInv
<1>2. row \in DeliveryRow /\ row.note = delivery[d].note /\ row.channel = delivery[d].channel /\ row.old
  BY <1>1, RowTypes DEF DeliveryRow
<1> HIDE DEF row
<1>3. /\ delivery' \in Seq(DeliveryRow) /\ Deliveries' = Deliveries
      /\ \A k \in Deliveries : /\ delivery'[k].note = delivery[k].note
                               /\ delivery'[k].channel = delivery[k].channel
                               /\ delivery[k].old => delivery'[k].old
      /\ \A n : Unannounced(n)' <=> Unannounced(n)
  BY <1>0, <1>1, <1>2, RowChanged
<1>4. \A k \in Deliveries : delivery'[k].old => delivery[k].old \/ k = d
  BY <1>0, <1>1, <1>2, RowChanged
<1>5. ASSUME NEW v \in Worker PROVE WorkOK(v, work[v])'
  <2>1. PICK r \in Doing : r = work[v] /\ r = work'[v] /\ WorkOK(v, r)
    BY <1>0, <1>1 DEF OutboxInv, OutboxShape
  <2>2. \A n : At(n, "idle") => At(n, "idle")'
    BY <1>0 DEF At
  <2> QED BY <1>0, <1>3, <2>1, <2>2, WorkStaysOK
<1>6. RowsOK'
  BY <1>0, <1>1, <1>3, <1>4 DEF RowsOK, At
<1>7. OutboxShape'
  BY <1>0, <1>1, <1>3 DEF OutboxShape, counts
<1>8. MessagesOK'
  BY <1>0, <1>1, <1>3 DEF MessagesOK, Announcing, counts
<1>9. RemindersOK'
  <2>1. \A n \in Note : MayRemind(n)' \subseteq MayRemind(n)
    BY <1>0 DEF MayRemind, Owes, Listed, Reminds, Reminded, Carries
  <2> QED BY <1>0, <2>1, RemindersStay DEF RemindersOK, counts
<1> QED BY <1>5, <1>6, <1>7, <1>8, <1>9 DEF OutboxInv

LEMMA CrashInv == ASSUME OutboxInv, Crash PROVE OutboxInv'
<1>0. /\ UNCHANGED <<note, delivery, address, reminders, messages>> /\ crashes' = crashes + 1
      /\ work' = [w \in Worker |-> Idle]
  BY DEF Crash, world
<1>1. OutboxShape /\ RowsOK /\ MessagesOK /\ RemindersOK
  BY DEF OutboxInv
<1>2. work' \in [Worker -> Doing] /\ \A w \in Worker : work'[w] = Idle
  BY <1>0 DEF Doing
<1>3. \A w \in Worker : WorkOK(w, work[w])'
  BY <1>2 DEF WorkOK, RequestOK, JobOK, DeliveryOK, Idle
<1>4. RowsOK'
  BY <1>0, <1>1, <1>2, RowTypes DEF RowsOK, At, Idle, Worker, Deliveries
<1>5. MessagesOK'
  <2> SUFFICES ASSUME NEW n \in Note
               PROVE  /\ messages'[n] + Cardinality(Announcing(n)') <= Cardinality(Job)
                      /\ Unannounced(n)' => messages'[n] = 0
    BY DEF MessagesOK
  <2>1. Announcing(n)' \subseteq Announcing(n)
    BY <1>2 DEF Announcing, Announces, Idle, Worker
  <2>2. Unannounced(n)' => Unannounced(n)
    BY <1>0 DEF Unannounced, Deliveries
  <2> QED BY <1>0, <1>3, <2>1, <2>2, MessagesStay
<1>6. crashes \in Nat /\ crashes' \in Nat /\ reminders \in [Note -> Nat]
  BY <1>0, <1>1 DEF OutboxShape
<1>7. OutboxShape'
  BY <1>0, <1>1, <1>2, <1>6 DEF OutboxShape
<1>8. RemindersOK'
  <2> SUFFICES ASSUME NEW n \in Note
               PROVE  reminders'[n] + Cardinality(MayRemind(n)') <= Cardinality(Job) * (1 + crashes')
    BY DEF RemindersOK
  <2>1. reminders[n] \in Nat /\ reminders[n] + Cardinality(MayRemind(n)) <= Cardinality(Job) * (1 + crashes)
    BY <1>1, <1>6 DEF RemindersOK
  <2>2. MayRemind(n) \in SUBSET Job /\ MayRemind(n)' \in SUBSET Job
    BY DEF MayRemind
  <2>3. /\ Cardinality(MayRemind(n)) \in Nat
        /\ Cardinality(MayRemind(n)') \in Nat /\ Cardinality(MayRemind(n)') <= Cardinality(Job)
    BY <2>2, JobsAreSome, FS_Subset, FS_CardinalityType
  <2>4. Cardinality(Job) * (1 + (crashes + 1)) = Cardinality(Job) * (1 + crashes) + Cardinality(Job)
        /\ Cardinality(Job) * (1 + crashes) \in Nat
    BY <1>6, JobsAreSome
  <2> QED BY <1>0, <2>1, <2>3, <2>4, JobsAreSome
<1> QED BY <1>3, <1>4, <1>5, <1>7, <1>8 DEF OutboxInv

LEMMA OutboxStutters ==
  ASSUME OutboxInv, UNCHANGED <<note, delivery, work, address, counts>> PROVE OutboxInv'
<1>1. note' \in [Note -> NoteRow]
  BY DEF OutboxInv, OutboxShape
<1> QED BY <1>1, NotesInv

LEMMA ReadOrDismissed ==
  ASSUME OutboxInv, NEW n \in Note, MarkAsRead(n) \/ DismissNotification(n) PROVE OutboxInv'
<1>1. PICK s \in {"read", "dismissed"} : note' = [note EXCEPT ![n].status = s]
  BY DEF MarkAsRead, DismissNotification
<1>2. note \in [Note -> NoteRow]
  BY DEF OutboxInv, OutboxShape
<1>3. /\ note' \in [Note -> NoteRow] /\ \A m \in Note : note'[m].mailed = note[m].mailed
      /\ \A m \in Note : note[m].status # "none" => note'[m].status # "none"
  BY <1>1, <1>2 DEF NoteRow
<1>4. UNCHANGED <<delivery, work, address, counts>>
  BY DEF MarkAsRead, DismissNotification, world
<1> QED BY <1>3, <1>4, NotesInv

LEMMA DeliveryStepInv ==
  ASSUME OutboxInv, NEW w \in Worker, DeliveryStep(w) PROVE OutboxInv'
BY RecordInv, SendInv, OutcomeInv DEF DeliveryStep

LEMMA OutboxNextInv ==
  ASSUME OutboxInv, [OutboxNext]_outboxVars PROVE OutboxInv'
<1>1. ASSUME NEW n \in Note, Create(n) \/ RequestStep(n) PROVE OutboxInv'
  <2>1. n \in Worker
    BY DEF Worker
  <2> QED BY <1>1, <2>1, CreateInv, BeginInv, NextChannelInv, DeliveryStepInv DEF RequestStep
<1>2. ASSUME NEW n \in Note, NoteAges(n) \/ MarkAsRead(n) \/ DismissNotification(n) PROVE OutboxInv'
  BY <1>2, ReadOrDismissed, OutboxStutters DEF NoteAges, world
<1>3. ASSUME NEW j \in Job, JobStep(j) PROVE OutboxInv'
  <2>1. j \in Worker
    BY DEF Worker
  <2> QED BY <1>3, <2>1, JobTurnInv, NoteChannelInv, DeliveryStepInv DEF JobStep
<1>4. ASSUME NEW p, UpdateNotificationPreferences(p) PROVE OutboxInv'
  BY <1>4, OutboxStutters DEF UpdateNotificationPreferences
<1>5. CASE UNCHANGED outboxVars
  BY <1>5, OutboxStutters DEF outboxVars, counts
<1> QED BY <1>1, <1>2, <1>3, <1>4, <1>5, MailAgesInv, CrashInv DEF OutboxNext

\* A notification is announced by QQ no more often than there are runs of the job
\* under way at a time, and reminded of by mail once by each of them and once more
\* by each for every stop of the server, for any number of notifications, runs,
\* deliveries and stops (executeDelivery, escalateInSiteToEmail, escalateEmailToQQ).
THEOREM NobodyIsPestered == OutboxSpec => []RemindersAreFew
<1>1. OutboxInv => RemindersAreFew
  <2> SUFFICES ASSUME OutboxInv PROVE RemindersAreFew
    OBVIOUS
  <2>1. ASSUME NEW n \in Note PROVE messages[n] <= Cardinality(Job)
    <3>1. \A j \in Job : Announces(work[j], n) => ~Announces(work[n], n)
      BY DEF OutboxInv, WorkOK, JobOK, Announces, Worker, At
    <3>2. Cardinality(Announcing(n)) \in Nat
      BY <3>1, FewAnnounce DEF Announcing
    <3>3. messages[n] \in Nat
      BY DEF OutboxInv, OutboxShape
    <3>4. messages[n] + Cardinality(Announcing(n)) <= Cardinality(Job)
      BY DEF OutboxInv, MessagesOK
    <3> QED BY <3>2, <3>3, <3>4, JobsAreSome
  <2>2. ASSUME NEW n \in Note PROVE reminders[n] <= Cardinality(Job) * (1 + crashes)
    <3>1. Cardinality(MayRemind(n)) \in Nat
      BY JobsAreSome, FS_Subset, FS_CardinalityType DEF MayRemind
    <3>2. reminders[n] \in Nat /\ reminders[n] + Cardinality(MayRemind(n)) <= Cardinality(Job) * (1 + crashes)
      BY DEF OutboxInv, OutboxShape, RemindersOK
    <3>3. Cardinality(Job) * (1 + crashes) \in Nat
      BY JobsAreSome DEF OutboxInv, OutboxShape
    <3> QED BY <3>1, <3>2, <3>3
  <2> QED BY <2>1, <2>2 DEF RemindersAreFew, FewMessages, FewReminders
<1>2. OutboxInv /\ [OutboxNext]_outboxVars => OutboxInv'
  BY OutboxNextInv
<1> QED BY <1>1, <1>2, OutboxInitInv, PTL DEF OutboxSpec

-----------------------------------------------------------------------------
(* The page with the notifications                                         *)

Wishes == {"list", "read", "dismiss"}
Letter == [does : {"list", "read", "dismiss"}, of : Note \cup {""}, at : {"server", "page"}, ok : BOOLEAN,
           rows : [Note -> {"absent", "unread", "read"}], here : BOOLEAN]
Seen(n) == note[n].status \in {"read", "dismissed"}
Dismissed(n) == note[n].status = "dismissed"

InboxShape ==
  /\ note \in [Note -> NoteRow]
  /\ shown \in [Note -> {"absent", "unread", "read", "gone"}]
  /\ mail \subseteq Letter
  /\ \A m \in mail : m.does # "list" => m.of \in Note

\* What an answer says was so when it was given, and what was read or dismissed
\* is not new again.
AnswerIsTrue(m) ==
  m.at = "page" =>
    /\ m.does = "list" => \A n \in Note : m.rows[n] = "read" => Seen(n)
    /\ (m.does = "read" /\ m.ok) => Seen(m.of)
    /\ (m.does = "dismiss" /\ m.ok) => Dismissed(m.of)

InboxInv == InboxShape /\ (\A m \in mail : AnswerIsTrue(m)) /\ ShownReadIsRead

LEMMA InboxInitInv == InboxInit /\ OutboxInit => InboxInv
<1> SUFFICES ASSUME InboxInit, OutboxInit PROVE InboxInv
  OBVIOUS
<1>1. note \in [Note -> NoteRow]
  BY DEF OutboxInit, NoteRow
<1>2. shown = [n \in Note |-> "absent"] /\ mail = {}
  BY DEF InboxInit, NoRows
<1> QED BY <1>1, <1>2 DEF InboxInv, InboxShape, ShownReadIsRead

\* What a step may do to the notifications.
NotesAdvance ==
  /\ note' \in [Note -> NoteRow]
  /\ \A n \in Note : (Seen(n) => Seen(n)') /\ (Dismissed(n) => Dismissed(n)')

LEMMA AnswersStayTrue ==
  ASSUME InboxInv, NotesAdvance, NEW m \in mail
  PROVE  AnswerIsTrue(m)'
<1>1. m \in Letter /\ (m.does # "list" => m.of \in Note) /\ AnswerIsTrue(m)
  BY DEF InboxInv, InboxShape
<1> QED BY <1>1 DEF AnswerIsTrue, NotesAdvance

LEMMA ShownStaysTrue ==
  ASSUME InboxInv, NotesAdvance, UNCHANGED shown
  PROVE  ShownReadIsRead'
BY DEF InboxInv, ShownReadIsRead, NotesAdvance, Seen, Dismissed

LEMMA MarkAdvances ==
  ASSUME InboxInv, NEW n \in Note,
         \/ MarkAsRead(n) \/ DismissNotification(n) \/ Create(n)
  PROVE  /\ NotesAdvance
         /\ MarkAsRead(n) => note'[n].status = "read"
         /\ DismissNotification(n) => note'[n].status = "dismissed"
<1>1. note \in [Note -> NoteRow]
  BY DEF InboxInv, InboxShape
<1>2. CASE MarkAsRead(n)
  <2>1. note[n].status = "unread" /\ note' = [note EXCEPT ![n].status = "read"]
    BY <1>2 DEF MarkAsRead, Unread
  <2>2. ~DismissNotification(n)
    <3> SUFFICES ASSUME DismissNotification(n) PROVE FALSE
      OBVIOUS
    <3>1. note' = [note EXCEPT ![n].status = "dismissed"]
      BY DEF DismissNotification
    <3> QED BY <1>1, <2>1, <3>1 DEF NoteRow
  <2> QED BY <1>1, <2>1, <2>2 DEF NotesAdvance, Seen, Dismissed, NoteRow
<1>3. CASE DismissNotification(n) /\ ~MarkAsRead(n)
  <2>1. note' = [note EXCEPT ![n].status = "dismissed"]
    BY <1>3 DEF DismissNotification
  <2> QED BY <1>1, <1>3, <2>1 DEF NotesAdvance, Seen, Dismissed, NoteRow
<1>4. CASE Create(n) /\ ~MarkAsRead(n) /\ ~DismissNotification(n)
  <2>1. note[n].status = "none" /\ note' = [note EXCEPT ![n].status = "unread"]
    BY <1>4 DEF Create
  <2> QED BY <1>1, <1>4, <2>1 DEF NotesAdvance, Seen, Dismissed, NoteRow
<1> QED BY <1>2, <1>3, <1>4

LEMMA UnchangedAdvances == ASSUME InboxInv, UNCHANGED note PROVE NotesAdvance
BY DEF InboxInv, InboxShape, NotesAdvance, Seen, Dismissed

\* A question sent from the page.
LEMMA AskedIsALetter ==
  ASSUME NEW does \in Wishes, NEW n \in Note \cup {""}
  PROVE  /\ Asking(does, n) \in Letter /\ Asking(does, n).at = "server"
         /\ Asking(does, n).does = does /\ Asking(does, n).of = n
<1>1. NoRows \in [Note -> {"absent", "unread", "read"}]
  BY DEF NoRows
<1>2. PICK rows \in [Note -> {"absent", "unread", "read"}] : rows = NoRows
  BY <1>1
<1>3. Asking(does, n)
        = [does |-> does, of |-> n, at |-> "server", ok |-> FALSE, rows |-> rows, here |-> TRUE]
  BY <1>2 DEF Asking
<1>4. PICK a \in Letter :
        a = [does |-> does, of |-> n, at |-> "server", ok |-> FALSE, rows |-> rows, here |-> TRUE]
  BY DEF Letter, Wishes
<1>5. a.at = "server" /\ a.does = does /\ a.of = n
  BY <1>4
<1>6. Asking(does, n) = a
  BY <1>3, <1>4, Zenon
<1> QED BY <1>5, <1>6, Zenon

LEMMA AskForInv ==
  ASSUME InboxInv, NEW does \in {"read", "dismiss"}, NEW n \in Note, AskFor(does, n),
         UNCHANGED <<note, shown>>
  PROVE  InboxInv'
<1>1. NotesAdvance
  BY UnchangedAdvances
<1>2. mail' = mail \cup {Asking(does, n)}
  BY DEF AskFor
<1>3. /\ Asking(does, n) \in Letter /\ Asking(does, n).at = "server"
      /\ Asking(does, n).does = does /\ Asking(does, n).of = n
  <2>1. does \in Wishes /\ n \in Note \cup {""}
    BY DEF Wishes
  <2> QED BY <2>1, AskedIsALetter, Zenon
<1> DEFINE a == Asking(does, n)
<1> HIDE DEF a
<1>4. a \in Letter /\ a.at = "server" /\ a.of = n /\ mail' = mail \cup {a}
  BY <1>2, <1>3 DEF a
<1>5. InboxShape'
  BY <1>4 DEF InboxInv, InboxShape
<1>6. ASSUME NEW m \in mail' PROVE AnswerIsTrue(m)'
  BY <1>1, <1>4, AnswersStayTrue DEF AnswerIsTrue
<1> QED BY <1>1, <1>5, <1>6, ShownStaysTrue DEF InboxInv

LEMMA OpenPageInv == ASSUME InboxInv, OpenPage PROVE InboxInv'
<1>1. NotesAdvance /\ note' = note
  BY UnchangedAdvances DEF OpenPage, outboxVars
<1>2. Asking("list", "") \in Letter /\ Asking("list", "").at = "server" /\ Asking("list", "").does = "list"
  <2>1. "list" \in Wishes /\ "" \in Note \cup {""}
    BY DEF Wishes
  <2> QED BY <2>1, AskedIsALetter, Zenon
<1>3. ASSUME NEW m \in mail'
      PROVE  m \in Letter /\ m.at = "server" /\ (m.does # "list" => m.of \in Note)
  <2>1. CASE m = Asking("list", "")
    BY <1>2, <2>1
  <2>2. CASE m # Asking("list", "")
    <3>1. PICK k \in mail : k.at = "server" /\ m = [k EXCEPT !.here = FALSE]
      BY <1>3, <2>2 DEF OpenPage
    <3>2. k \in Letter /\ (k.does # "list" => k.of \in Note)
      BY DEF InboxInv, InboxShape
    <3> QED BY <3>1, <3>2 DEF Letter
  <2> QED BY <2>1, <2>2
<1>4. shown' = NoRows
  BY DEF OpenPage
<1>5. shown' \in [Note -> {"absent", "unread", "read", "gone"}] /\ \A n \in Note : shown'[n] = "absent"
  BY <1>4 DEF NoRows
<1>6. InboxShape'
  BY <1>1, <1>3, <1>5 DEF InboxInv, InboxShape
<1>7. \A m \in mail' : AnswerIsTrue(m)'
  BY <1>3 DEF AnswerIsTrue
<1>8. ShownReadIsRead'
  BY <1>5 DEF ShownReadIsRead
<1> QED BY <1>6, <1>7, <1>8 DEF InboxInv

LEMMA ServeMailInv == ASSUME InboxInv, NEW m \in mail, ServeMail(m) PROVE InboxInv'
<1>1. m \in Letter /\ (m.does # "list" => m.of \in Note) /\ note \in [Note -> NoteRow]
  BY DEF InboxInv, InboxShape
<1>2. /\ m.does = "list" => UNCHANGED note
      /\ m.does = "read" => IF Unread(m.of) THEN MarkAsRead(m.of) ELSE UNCHANGED note
      /\ m.does = "dismiss" => IF note[m.of].status = "dismissed" THEN UNCHANGED note
                               ELSE DismissNotification(m.of)
  BY DEF ServeMail, Served, outboxVars
<1>3. /\ NotesAdvance
      /\ m.does = "read" /\ Unread(m.of) => Seen(m.of)'
      /\ m.does = "dismiss" => Dismissed(m.of)'
  <2>1. CASE m.does = "list"
    BY <1>2, <2>1, UnchangedAdvances
  <2>2. CASE m.does = "read"
    BY <1>1, <1>2, <2>2, UnchangedAdvances, MarkAdvances DEF Seen
  <2>3. CASE m.does = "dismiss"
    BY <1>1, <1>2, <2>3, UnchangedAdvances, MarkAdvances DEF Dismissed
  <2> QED BY <1>1, <2>1, <2>2, <2>3 DEF Letter
<1> DEFINE fine == m.does # "read" \/ Unread(m.of)
           list == IF m.does = "list" THEN ListedRows ELSE NoRows
           a == [m EXCEPT !.at = "page", !.ok = fine, !.rows = list]
<1>4. mail' \subseteq (mail \ {m}) \cup {a} /\ shown' = shown
  BY DEF ServeMail
<1>5. list \in [Note -> {"absent", "unread", "read"}] /\ (m.does = "list" => list = ListedRows)
  BY DEF ListedRows, NoRows
<1>6. fine \in BOOLEAN
  BY DEF Unread
<1> HIDE DEF list, fine
<1>7. /\ a \in Letter /\ a.at = "page" /\ a.does = m.does /\ a.of = m.of
      /\ a.ok = fine /\ a.rows = list
  BY <1>1, <1>5, <1>6 DEF Letter
<1> HIDE DEF a
<1>8. PICK b \in Letter : b = a
  BY <1>7
<1>9. AnswerIsTrue(b)'
  <2>1. m.does = "list" => \A n \in Note : list[n] = "read" => note'[n].status \in {"read", "dismissed"}
    BY <1>2, <1>5 DEF ListedRows
  <2>2. (b.does = "read" /\ b.ok) => Seen(m.of)'
    BY <1>3, <1>7, <1>8 DEF fine
  <2>3. (b.does = "dismiss" /\ b.ok) => Dismissed(m.of)'
    BY <1>3, <1>7, <1>8
  <2> QED BY <1>7, <1>8, <2>1, <2>2, <2>3 DEF AnswerIsTrue, Seen, Dismissed
<1>10. InboxShape'
  BY <1>1, <1>3, <1>4, <1>7 DEF InboxInv, InboxShape, NotesAdvance
<1>11. ASSUME NEW k \in mail' PROVE AnswerIsTrue(k)'
  <2>1. CASE k = b
    BY <1>9, <2>1
  <2>2. CASE k \in mail
    BY <1>3, <2>2, AnswersStayTrue
  <2> QED BY <1>4, <1>8, <2>1, <2>2
<1> QED BY <1>3, <1>4, <1>10, <1>11, ShownStaysTrue DEF InboxInv

\* An answer that was heard: what it says is shown, if it says anything.
LEMMA ShownAfterTrue ==
  ASSUME InboxInv, NEW m \in Letter, m.does # "list", m.of \in Note, m.ok => m.at = "page" /\ AnswerIsTrue(m),
         UNCHANGED note, shown' = ShownAfter(m)
  PROVE  shown' \in [Note -> {"absent", "unread", "read", "gone"}] /\ ShownReadIsRead'
<1>1. shown \in [Note -> {"absent", "unread", "read", "gone"}] /\ ShownReadIsRead
  BY DEF InboxInv, InboxShape
<1> DEFINE v == IF ~m.ok THEN shown[m.of] ELSE IF m.does = "dismiss" THEN "gone"
                ELSE IF shown[m.of] = "unread" THEN "read" ELSE shown[m.of]
<1>2. shown' = [shown EXCEPT ![m.of] = v]
  BY DEF ShownAfter
<1>3. /\ v \in {"absent", "unread", "read", "gone"}
      /\ v = "read" => Seen(m.of)
      /\ v = "gone" => Dismissed(m.of)
  BY <1>1 DEF Letter, AnswerIsTrue, ShownReadIsRead, Seen, Dismissed
<1> HIDE DEF v
<1> QED BY <1>1, <1>2, <1>3 DEF ShownReadIsRead, Seen, Dismissed

LEMMA HearInv == ASSUME InboxInv, NEW m \in mail, Hear(m) PROVE InboxInv'
<1>1. m \in Letter /\ (m.does # "list" => m.of \in Note) /\ AnswerIsTrue(m) /\ m.at = "page"
  BY DEF InboxInv, InboxShape, Hear
<1>2. NotesAdvance /\ note' = note /\ mail' \subseteq mail
  BY UnchangedAdvances DEF Hear, outboxVars
<1>3. shown' \in [Note -> {"absent", "unread", "read", "gone"}] /\ ShownReadIsRead'
  <2>1. CASE m.does = "list"
    <3>1. shown' = m.rows /\ m.rows \in [Note -> {"absent", "unread", "read"}]
      BY <1>1, <2>1 DEF Hear, Letter
    <3>2. \A n \in Note : m.rows[n] = "read" => note'[n].status \in {"read", "dismissed"}
      BY <1>1, <1>2, <2>1 DEF AnswerIsTrue, Seen
    <3> QED BY <3>1, <3>2 DEF ShownReadIsRead
  <2>2. CASE m.does # "list"
    <3>1. shown' = ShownAfter(m)
      BY <2>2 DEF Hear
    <3> QED BY <1>1, <1>2, <2>2, <3>1, ShownAfterTrue
  <2> QED BY <2>1, <2>2
<1>4. \A k \in mail' : AnswerIsTrue(k)'
  BY <1>2, AnswersStayTrue
<1> QED BY <1>2, <1>3, <1>4 DEF InboxInv, InboxShape

LEMMA LoseInv == ASSUME InboxInv, NEW m \in mail, Lose(m) PROVE InboxInv'
<1>1. m \in Letter /\ (m.does # "list" => m.of \in Note)
  BY DEF InboxInv, InboxShape
<1>2. NotesAdvance /\ note' = note /\ mail' \subseteq mail
  BY UnchangedAdvances DEF Lose, outboxVars
<1>3. shown' \in [Note -> {"absent", "unread", "read", "gone"}] /\ ShownReadIsRead'
  <2>1. CASE m.does = "list"
    <3>1. UNCHANGED shown
      BY <2>1 DEF Lose
    <3> QED BY <1>2, <3>1, ShownStaysTrue DEF InboxInv, InboxShape
  <2>2. CASE m.does # "list"
    <3> DEFINE unheard == [m EXCEPT !.ok = FALSE]
    <3>0. unheard \in Letter /\ unheard.ok = FALSE /\ unheard.does = m.does /\ unheard.of = m.of
      BY <1>1 DEF Letter
    <3>1. PICK k \in Letter : k = [m EXCEPT !.ok = FALSE] /\ ~k.ok /\ k.does = m.does /\ k.of = m.of
      BY <3>0
    <3>2. shown' = ShownAfter(k)
      BY <2>2, <3>1 DEF Lose
    <3> QED BY <1>1, <1>2, <2>2, <3>1, <3>2, ShownAfterTrue
  <2> QED BY <2>1, <2>2
<1>4. \A k \in mail' : AnswerIsTrue(k)'
  BY <1>2, AnswersStayTrue
<1> QED BY <1>2, <1>3, <1>4 DEF InboxInv, InboxShape

\* A step that leaves the page and its mail alone.
LEMMA PageRests ==
  ASSUME InboxInv, NotesAdvance, UNCHANGED <<shown, mail>> PROVE InboxInv'
<1>1. \A k \in mail' : AnswerIsTrue(k)'
  BY AnswersStayTrue
<1> QED BY <1>1, ShownStaysTrue DEF InboxInv, InboxShape, NotesAdvance

LEMMA InboxNextInv == InboxInv /\ [MailboxNext \/ SettingsNext]_<<outboxVars, inboxVars>> => InboxInv'
<1> SUFFICES ASSUME InboxInv, [MailboxNext \/ SettingsNext]_<<outboxVars, inboxVars>> PROVE InboxInv'
  OBVIOUS
<1>1. ASSUME NEW n \in Note, Notify(n) PROVE InboxInv'
  BY <1>1, MarkAdvances, PageRests DEF Notify
<1>2. ASSUME NEW n \in Note, ClickRow(n) \/ ClickDelete(n) PROVE InboxInv'
  BY <1>2, AskForInv DEF ClickRow, ClickDelete, outboxVars
<1>3. CASE ClickAllRead
  BY <1>3, UnchangedAdvances, PageRests DEF ClickAllRead, outboxVars
<1>4. CASE MarkAllAsRead
  <2>1. note \in [Note -> NoteRow]
    BY DEF InboxInv, InboxShape
  <2>2. NotesAdvance
    BY <1>4, <2>1 DEF MarkAllAsRead, NotesAdvance, Seen, Dismissed, Unread, NoteRow
  <2> QED BY <1>4, <2>2, PageRests DEF MarkAllAsRead, inboxVars, boxVars
<1>5. CASE SettingsNext
  <2>1. UNCHANGED <<note, shown, mail>>
    BY <1>5 DEF SettingsNext, OpenSettings, ShowSettings, SaveSettings, SettingsSaved, SavingFailed,
                EditSettings, outboxVars, boxVars
  <2> QED BY <2>1, UnchangedAdvances, PageRests
<1>6. CASE UNCHANGED <<outboxVars, inboxVars>>
  BY <1>6, UnchangedAdvances, PageRests DEF outboxVars, inboxVars, boxVars
<1> QED BY <1>1, <1>2, <1>3, <1>4, <1>5, <1>6, OpenPageInv, ServeMailInv, HearInv, LoseInv DEF MailboxNext

LEMMA InboxIsInvariant == InboxSpec => []InboxInv
BY InboxInitInv, InboxNextInv, PTL DEF InboxSpec

\* What the page shows as read or deleted is so on the server, for any number of
\* notifications and of requests and answers that cross or get lost
\* (handleMarkAsRead, handleDismiss).
THEOREM NothingUnreadIsHidden == InboxSpec => []ShownReadIsRead
<1>1. InboxInv => ShownReadIsRead
  BY DEF InboxInv
<1> QED BY <1>1, InboxIsInvariant, PTL


-----------------------------------------------------------------------------
(* A form that was saved shows what was on it.                             *)
(*                                                                         *)
(* While a form is being saved the row holds what the form sent, and the   *)
(* conversion to the row and back gives the same kinds and hours: the keys *)
(* that stand for a kind are sent for that kind only, and whole hours      *)
(* survive the minutes they are kept in.                                   *)

FormRow == [channels : SUBSET {"in_site", "email", "qq"}, kinds : SUBSET Kinds,
            hours : Nat \ {0}, escalates : BOOLEAN]

KindsOf(row) == {k \in Kinds : ShownBy[k] \in row.wants}

FormShape ==
  /\ prefs \in SUBSET {"in_site", "email", "qq"}
  /\ saved \in [wants : SUBSET AllKeys, mail : Nat, qq : Nat]
  /\ form \in [at : {"closed", "loading", "open", "saving"}, now : FormRow, loaded : FormRow]

RowIsForm == /\ prefs = form.now.channels
             /\ KindsOf(saved) = form.now.kinds
             /\ saved.mail = form.now.hours * 60

FormInv == FormShape /\ (form.at = "saving" => RowIsForm)

LEMMA KindsAre == Kinds = {"task", "review", "file", "mention", "system"}
BY DEF Kinds, KeysOf

\* The key a kind is shown by is sent for that kind, and for no other.
LEMMA OneKindPerKey ==
  ASSUME NEW j \in Kinds, NEW k \in Kinds
  PROVE  /\ ShownBy[k] \in KeysOf[j] <=> j = k
         /\ ShownBy[k] \notin Unsent
         /\ KeysOf[k] \subseteq AllKeys
<1>1. k \in {"task", "review", "file", "mention", "system"} /\ j \in {"task", "review", "file", "mention", "system"}
  BY KindsAre
<1>2. ShownBy[k] \in KeysOf[j] <=> j = k
  BY <1>1 DEF ShownBy, KeysOf
<1>3. ShownBy[k] \notin Unsent
  BY <1>1 DEF ShownBy, Unsent
<1>4. KeysOf[k] \subseteq AllKeys
  BY DEF AllKeys
<1> QED BY <1>2, <1>3, <1>4

\* What is sent is a row, and reads back as what the form held.
LEMMA PayloadReadsBack ==
  ASSUME NEW f \in FormRow, NEW row \in [wants : SUBSET AllKeys, mail : Nat, qq : Nat]
  PROVE  /\ Payload(f, row) \in [wants : SUBSET AllKeys, mail : Nat, qq : Nat]
         /\ KindsOf(Payload(f, row)) = f.kinds
         /\ Payload(f, row).mail = f.hours * 60
<1> DEFINE W == (row.wants \cap Unsent) \cup UNION {KeysOf[k] : k \in f.kinds}
<1>1. f.kinds \subseteq Kinds /\ f.hours \in Nat
  BY DEF FormRow
<1>2. W \in SUBSET AllKeys
  BY <1>1, OneKindPerKey DEF AllKeys
<1>3. f.hours * 60 \in Nat /\ f.hours * 120 \in Nat
  BY <1>1
<1>4. \A k \in Kinds : ShownBy[k] \in W <=> k \in f.kinds
  BY <1>1, OneKindPerKey
<1> HIDE DEF W
<1>5. Payload(f, row) = [wants |-> W, mail |-> f.hours * 60, qq |-> f.hours * 120]
  BY DEF Payload, W
<1>6. KindsOf(Payload(f, row)) = {k \in Kinds : ShownBy[k] \in W}
  BY <1>5 DEF KindsOf
<1>7. {k \in Kinds : ShownBy[k] \in W} = f.kinds
  BY <1>1, <1>4
<1>8. Payload(f, row) \in [wants : SUBSET AllKeys, mail : Nat, qq : Nat] /\ Payload(f, row).mail = f.hours * 60
  BY <1>2, <1>3, <1>5
<1> QED BY <1>6, <1>7, <1>8

\* Whole hours are shown as they are; every row is shown with an hour at least.
LEMMA HoursReadBack ==
  /\ \A h \in Nat \ {0} : InHours(h * 60) = h
  /\ \A minutes \in Nat : InHours(minutes) \in Nat \ {0}
<1>1. ASSUME NEW h \in Nat \ {0} PROVE InHours(h * 60) = h
  <2>1. CASE h = 1
    BY <2>1 DEF InHours
  <2>2. CASE h # 1
    <3>1. h * 60 >= 90 /\ (h * 60 + 30) \div 60 = h
      BY <2>2
    <3> QED BY <3>1 DEF InHours
  <2> QED BY <2>1, <2>2
<1>2. ASSUME NEW minutes \in Nat PROVE InHours(minutes) \in Nat \ {0}
  <2>1. CASE minutes < 90
    BY <2>1 DEF InHours
  <2>2. CASE ~(minutes < 90)
    <3>1. (minutes + 30) \div 60 \in Nat \ {0}
      BY <2>2
    <3> QED BY <2>2, <3>1 DEF InHours
  <2> QED BY <2>1, <2>2
<1> QED BY <1>1, <1>2

LEMMA ShownIsAForm == ASSUME FormInv PROVE ShownForm(prefs, saved) \in FormRow
<1>1. InHours(saved.mail) \in Nat \ {0}
  BY HoursReadBack DEF FormInv, FormShape
<1>2. {k \in Kinds : ShownBy[k] \in saved.wants} \in SUBSET Kinds
  OBVIOUS
<1> QED BY <1>1, <1>2 DEF ShownForm, FormRow, FormInv, FormShape

LEMMA FormInit == InboxInit /\ OutboxInit => FormInv
<1> SUFFICES ASSUME InboxInit, OutboxInit PROVE FormInv
  OBVIOUS
<1>1. StoreDefaults \in FormRow
  BY KindsAre DEF StoreDefaults, FormRow
<1> QED BY <1>1 DEF InboxInit, OutboxInit, FormInv, FormShape

\* What the form is when a row is loaded or saved.
LEMMA SaveSettingsForm == ASSUME FormInv, SaveSettings PROVE FormInv'
<1>1. form' = [form EXCEPT !.at = "saving"] /\ form.now \in FormRow
  BY DEF SaveSettings, FormInv, FormShape
<1>2. form' \in [at : {"closed", "loading", "open", "saving"}, now : FormRow, loaded : FormRow]
  BY <1>1 DEF FormInv, FormShape
<1>3. form'.now = form.now
  BY <1>1 DEF FormInv, FormShape
<1>4. saved' = Payload(form.now, saved) /\ prefs' = form.now.channels
  BY DEF SaveSettings
<1>5. prefs' \in SUBSET {"in_site", "email", "qq"}
  BY <1>1, <1>4 DEF FormRow
<1>6. PICK p : p = Payload(form.now, saved)
  OBVIOUS
<1>7. /\ p \in [wants : SUBSET AllKeys, mail : Nat, qq : Nat]
      /\ KindsOf(p) = form.now.kinds /\ p.mail = form.now.hours * 60
  BY <1>1, <1>6, PayloadReadsBack DEF FormInv, FormShape
<1>8. KindsOf(saved)' = form.now.kinds
  BY <1>4, <1>6, <1>7 DEF KindsOf
<1> QED BY <1>2, <1>3, <1>4, <1>5, <1>6, <1>7, <1>8 DEF FormInv, FormShape, RowIsForm

LEMMA EditSettingsForm ==
  ASSUME FormInv, NEW f \in ChangedForms, EditSettings(f) PROVE FormInv'
<1>1. form' = [form EXCEPT !.now = f] /\ form.at = "open" /\ UNCHANGED <<prefs, saved>>
  BY DEF EditSettings, outboxVars
<1>2. form.now \in FormRow
  BY DEF FormInv, FormShape
<1>3. f \in FormRow
  <2>1. CASE f \in {[form.now EXCEPT !.channels = Toggle(@, c)] : c \in {"in_site", "email", "qq"}}
    BY <1>2, <2>1 DEF FormRow, Toggle
  <2>2. CASE f \in {[form.now EXCEPT !.kinds = Toggle(@, k)] : k \in Kinds}
    BY <1>2, <2>2 DEF FormRow, Toggle
  <2>3. CASE f \in {[form.now EXCEPT !.hours = h] : h \in IF form.now.escalates THEN {1, 3, 72} ELSE {}}
    BY <1>2, <2>3 DEF FormRow
  <2>4. CASE f \in {[form.now EXCEPT !.escalates = ~@]}
    BY <1>2, <2>4 DEF FormRow
  <2> QED BY <2>1, <2>2, <2>3, <2>4 DEF ChangedForms
<1> QED BY <1>1, <1>3 DEF FormInv, FormShape

LEMMA SettingsForm == ASSUME FormInv, SettingsNext PROVE FormInv'
<1> DEFINE F == [at : {"closed", "loading", "open", "saving"}, now : FormRow, loaded : FormRow]
<1>1. form \in F
  BY DEF FormInv, FormShape
<1>2. CASE OpenSettings
  <2>1. form' = [form EXCEPT !.at = "loading", !.now = form.loaded] /\ UNCHANGED <<prefs, saved>>
    BY <1>2 DEF OpenSettings, outboxVars
  <2>2. form' \in F /\ form'.at = "loading"
    BY <1>1, <2>1
  <2> QED BY <2>1, <2>2 DEF FormInv, FormShape
<1>3. CASE ShowSettings \/ SettingsSaved
  <2>1. PICK f \in FormRow : f = ShownForm(prefs, saved)
    BY ShownIsAForm
  <2>2. /\ form' \in {[at |-> "open", now |-> f, loaded |-> f], [form EXCEPT !.at = "open"]}
        /\ UNCHANGED <<prefs, saved>>
    BY <1>3, <2>1 DEF ShowSettings, SettingsSaved, outboxVars
  <2>3. form' \in F /\ form'.at = "open"
    BY <1>1, <2>2
  <2> QED BY <2>2, <2>3 DEF FormInv, FormShape
<1>4. CASE SavingFailed
  <2>1. form' = [form EXCEPT !.at = "open"] /\ UNCHANGED <<prefs, saved>>
    BY <1>4 DEF SavingFailed, outboxVars
  <2>2. form' \in F /\ form'.at = "open"
    BY <1>1, <2>1
  <2> QED BY <2>1, <2>2 DEF FormInv, FormShape
<1>5. CASE SaveSettings
  BY <1>5, SaveSettingsForm
<1>6. CASE \E f \in ChangedForms : EditSettings(f)
  BY <1>6, EditSettingsForm
<1> QED BY <1>2, <1>3, <1>4, <1>5, <1>6 DEF SettingsNext

\* The list and the form are two pages: what happens on the one leaves the other.
LEMMA MailboxLeavesForm == ASSUME InboxInv, MailboxNext PROVE UNCHANGED <<prefs, saved, form>>
<1>1. ASSUME NEW n \in Note, Notify(n) \/ ClickRow(n) \/ ClickDelete(n)
      PROVE  UNCHANGED <<prefs, saved, form>>
  BY <1>1 DEF Notify, Create, ClickRow, ClickDelete, outboxVars, world, formVars
<1>2. CASE OpenPage \/ ClickAllRead \/ MarkAllAsRead
  BY <1>2 DEF OpenPage, ClickAllRead, MarkAllAsRead, outboxVars, world, inboxVars, formVars
<1>3. ASSUME NEW m \in mail, ServeMail(m) PROVE UNCHANGED <<prefs, saved, form>>
  <2>1. Served(m) /\ UNCHANGED <<saved, form>>
    BY <1>3 DEF ServeMail, formVars
  <2>2. ASSUME NEW n, MarkAsRead(n) \/ DismissNotification(n) PROVE UNCHANGED prefs
    BY <2>2 DEF MarkAsRead, DismissNotification, world
  <2>3. UNCHANGED outboxVars => UNCHANGED prefs
    BY DEF outboxVars
  <2>4. m.does \in {"list", "read", "dismiss"}
    BY DEF InboxInv, InboxShape, Letter
  <2> QED BY <2>1, <2>2, <2>3, <2>4 DEF Served
<1>4. ASSUME NEW m \in mail, Hear(m) \/ Lose(m) PROVE UNCHANGED <<prefs, saved, form>>
  BY <1>4 DEF Hear, Lose, outboxVars, formVars
<1> QED BY <1>1, <1>2, <1>3, <1>4 DEF MailboxNext

LEMMA FormNext == InboxInv /\ FormInv /\ [MailboxNext \/ SettingsNext]_<<outboxVars, inboxVars>> => FormInv'
<1> SUFFICES ASSUME InboxInv, FormInv, [MailboxNext \/ SettingsNext]_<<outboxVars, inboxVars>> PROVE FormInv'
  OBVIOUS
<1>1. CASE SettingsNext
  BY <1>1, SettingsForm
<1>2. CASE UNCHANGED <<prefs, saved, form>>
  BY <1>2 DEF FormInv, FormShape, RowIsForm, KindsOf
<1>3. CASE UNCHANGED <<outboxVars, inboxVars>>
  BY <1>2, <1>3 DEF outboxVars, inboxVars, formVars
<1> QED BY <1>1, <1>2, <1>3, MailboxLeavesForm

\* What the server answers with is what was on the form.
LEMMA SavedIsShown ==
  ASSUME InboxInv, FormInv, [MailboxNext \/ SettingsNext]_<<outboxVars, inboxVars>>,
         form.at = "saving", form'.at = "open"
  PROVE  form'.now = form.now \/ form'.now = [form.now EXCEPT !.escalates = TRUE]
<1>1. form \in [at : {"closed", "loading", "open", "saving"}, now : FormRow, loaded : FormRow]
  BY DEF FormInv, FormShape
<1>2. CASE SettingsSaved
  <2>1. PICK f \in FormRow : f = ShownForm(prefs, saved)
    BY ShownIsAForm
  <2>2. form'.now = f
    BY <1>2, <2>1 DEF SettingsSaved
  <2>3. InHours(saved.mail) = form.now.hours
    BY <1>1, HoursReadBack DEF FormInv, RowIsForm, FormRow
  <2>4. f = [channels |-> form.now.channels, kinds |-> form.now.kinds, hours |-> form.now.hours,
             escalates |-> TRUE]
    BY <2>1, <2>3 DEF ShownForm, FormInv, RowIsForm, KindsOf
  <2>5. f = [form.now EXCEPT !.escalates = TRUE]
    <3>1. PICK r \in FormRow : r = form.now
      BY <1>1
    <3>2. f = [channels |-> r.channels, kinds |-> r.kinds, hours |-> r.hours, escalates |-> TRUE]
      BY <2>4, <3>1
    <3>3. PICK g : g = [r EXCEPT !.escalates = TRUE]
      OBVIOUS
    <3>4. g \in FormRow /\ g.channels = r.channels /\ g.kinds = r.kinds /\ g.hours = r.hours /\ g.escalates = TRUE
      BY <3>3 DEF FormRow
    <3>5. f = g
      BY <3>2, <3>4 DEF FormRow
    <3> QED BY <3>1, <3>3, <3>5
  <2> QED BY <2>2, <2>5
<1>3. CASE SavingFailed
  BY <1>1, <1>3 DEF SavingFailed
<1>4. CASE OpenSettings \/ ShowSettings \/ SaveSettings \/ \E f \in ChangedForms : EditSettings(f)
  BY <1>1, <1>4 DEF OpenSettings, ShowSettings, SaveSettings, EditSettings
<1>5. CASE UNCHANGED <<prefs, saved, form>>
  BY <1>1, <1>5
<1>6. CASE UNCHANGED <<outboxVars, inboxVars>>
  BY <1>1, <1>6 DEF inboxVars, formVars
<1> QED BY <1>2, <1>3, <1>4, <1>5, <1>6, MailboxLeavesForm DEF SettingsNext

\* A form that was saved shows what was on it, whatever happens to the
\* notifications meanwhile.
THEOREM SavedFormIsKept == InboxSpec => SavesWhatIsShown
<1>1. InboxSpec => []FormInv
  BY InboxIsInvariant, FormInit, FormNext, PTL DEF InboxSpec
<1>2. InboxInv /\ FormInv /\ [MailboxNext \/ SettingsNext]_<<outboxVars, inboxVars>>
      => [form.at = "saving" /\ form'.at = "open"
          => form'.now = form.now \/ form'.now = [form.now EXCEPT !.escalates = TRUE]]_form
  BY SavedIsShown
<1> QED BY <1>1, <1>2, InboxIsInvariant, PTL DEF InboxSpec, SavesWhatIsShown

-----------------------------------------------------------------------------
(* The merging of subtitles                                                *)

Input == [claim : Translator, uploaded : BOOLEAN, subtitle : Subtitle]

\* Inputs of different claims, one at least.
Inputs == {inputs \in Seq(Input) :
             inputs # <<>> /\ \A i, k \in DOMAIN inputs : inputs[i].claim = inputs[k].claim => i = k}

\* What the subtitle has of the work of input i: MergeKeepsWork says it of the stored
\* ones, and of all inputs.
Shows(subtitle, of, i) ==
  \A l \in Segment[of[i].claim] :
    LET mine == of[i].subtitle[l]
        before == IF i = 1 THEN Gone ELSE of[i - 1].subtitle[l] IN
    \/ i = 1 /\ subtitle[l] = mine
    \/ i > 1 /\ before = Gone
    \/ i > 1 /\ before # Gone /\ mine = before
    \/ i > 1 /\ mine # Gone /\ subtitle[l] # Gone /\ subtitle[l].text = mine.text

\* A set of numbers with something in it has a least one.
LEMMA LeastNumber ==
  ASSUME NEW S \in SUBSET Nat, S # {}
  PROVE  \E n \in S : \A m \in S : n <= m
<1>1. PICK n \in S : \A m \in S : ~ (<<m, n>> \in OpToRel(<, Nat))
  BY NatLessThanWellFounded, WFMin
<1>2. \A m \in S : ~(m < n)
  BY <1>1 DEF OpToRel
<1> QED
  BY <1>2

\* The claims of a job have an order that rises (the orderBy of the merge).
LEMMA RisingOrder ==
  ASSUME NEW S \in SUBSET Nat, IsFiniteSet(S)
  PROVE  \E order \in [1 .. Cardinality(S) -> S] : \A i, k \in DOMAIN order : i < k => order[i] < order[k]
<1> DEFINE Rises(order) == \A i, k \in DOMAIN order : i < k => order[i] < order[k]
           Ordered(T) == \E order \in [1 .. Cardinality(T) -> T] : Rises(order)
           Bad == {Cardinality(T) : T \in {T \in SUBSET S : ~Ordered(T)}}
<1>1. \A T \in SUBSET S : IsFiniteSet(T) /\ Cardinality(T) \in Nat
  BY FS_Subset, FS_CardinalityType
<1>2. SUFFICES ASSUME Bad # {} PROVE FALSE
  BY <1>1
<1>3. PICK n \in Bad : \A m \in Bad : n <= m
  <2>1. Bad \in SUBSET Nat
    BY <1>1
  <2> HIDE DEF Bad
  <2> QED
    BY <1>2, <2>1, LeastNumber
<1>4. PICK T \in SUBSET S : ~Ordered(T) /\ n = Cardinality(T)
  BY <1>3
<1>5. T # {}
  <2> SUFFICES ASSUME T = {} PROVE FALSE
    OBVIOUS
  <2>1. Cardinality(T) = 0
    BY FS_EmptySet
  <2> DEFINE none == [i \in 1 .. 0 |-> 0]
  <2>2. none \in [1 .. Cardinality(T) -> T] /\ Rises(none)
    BY <2>1
  <2> QED
    BY <1>4, <2>2
<1>6. PICK t \in T : \A u \in T : t <= u
  BY <1>5, LeastNumber
<1> DEFINE R == T \ {t}
<1>7. IsFiniteSet(R) /\ Cardinality(R) = n - 1 /\ n \in Nat /\ n >= 1
  BY <1>1, <1>4, <1>5, <1>6, FS_RemoveElement, FS_EmptySet, FS_CardinalityType
<1>8. Ordered(R)
  <2>1. R \in SUBSET S /\ ~(n <= Cardinality(R))
    BY <1>7
  <2> HIDE DEF Ordered
  <2> QED
    BY <1>3, <2>1
<1>9. PICK order \in [1 .. n - 1 -> R] : Rises(order)
  BY <1>7, <1>8
<1> DEFINE longer == [i \in 1 .. n |-> IF i = 1 THEN t ELSE order[i - 1]]
<1>10. longer \in [1 .. n -> T]
  BY <1>6, <1>7, <1>9
<1>11. \A i \in 1 .. n - 1 : t < order[i]
  <2> SUFFICES ASSUME NEW i \in 1 .. n - 1 PROVE t < order[i]
    OBVIOUS
  <2>1. order[i] \in T /\ order[i] # t
    BY <1>9
  <2>2. order[i] \in Nat /\ t \in Nat /\ t <= order[i]
    BY <1>4, <1>6, <2>1
  <2> QED
    BY <2>1, <2>2
<1>12. Rises(longer)
  <2> SUFFICES ASSUME NEW i \in 1 .. n, NEW k \in 1 .. n, i < k PROVE longer[i] < longer[k]
    BY <1>7
  <2>1. k - 1 \in 1 .. n - 1 /\ longer[k] = order[k - 1]
    BY <1>7
  <2>2. CASE i = 1
    BY <1>11, <2>1, <2>2
  <2>3. CASE i > 1
    <3>1. i - 1 \in 1 .. n - 1 /\ i - 1 < k - 1 /\ longer[i] = order[i - 1]
      BY <1>7, <2>3
    <3> QED
      BY <1>9, <2>1, <3>1
  <2> QED
    BY <2>2, <2>3
<1> QED
  BY <1>4, <1>10, <1>12

\* The recursion over the inputs is what it says, for any number of them.
LEMMA ReplayUnfolds ==
  ASSUME NEW inputs \in Inputs
  PROVE  \E upTo : /\ upTo[1] = [subtitle |-> inputs[1].subtitle, conflicts |-> {}]
                   /\ \A i \in 2 .. Len(inputs) : upTo[i] = ReplayStep(inputs, i, upTo[i - 1])
                   /\ Replay(inputs) = upTo[Len(inputs)]
<1> DEFINE first == [subtitle |-> inputs[1].subtitle, conflicts |-> {}]
           Value(f, i) == IF i = 1 THEN first ELSE ReplayStep(inputs, i, f[i - 1])
           Defined(n) == \E f : f = [i \in 1 .. n |-> Value(f, i)]
           N == Len(inputs)
           Bad == {n \in 1 .. N : ~Defined(n)}
<1>1. N \in Nat /\ N >= 1 /\ DOMAIN inputs = 1 .. N
  BY DEF Inputs
<1>2. Defined(N)
  <2>1. SUFFICES ASSUME Bad # {} PROVE FALSE
    <3>1. N \in 1 .. N
      BY <1>1
    <3> HIDE DEF Defined
    <3> QED
      BY <3>1
  <2>2. Bad \in SUBSET Nat
    BY <1>1
  <2>3. PICK n \in Bad : \A m \in Bad : n <= m
    BY <2>1, <2>2, LeastNumber
  <2>4. n \in 1 .. N /\ ~Defined(n)
    BY <2>3
  <2>5. CASE n = 1
    <3> DEFINE f == [i \in 1 .. 1 |-> first]
    <3>1. f = [i \in 1 .. n |-> Value(f, i)]
      BY <2>5
    <3> QED
      BY <2>4, <3>1
  <2>6. CASE n > 1
    <3>1. Defined(n - 1)
      <4>1. n - 1 \in 1 .. N /\ ~(n <= n - 1)
        BY <1>1, <2>4, <2>6
      <4> HIDE DEF Defined
      <4> QED
        BY <2>3, <4>1
    <3>2. PICK g : g = [i \in 1 .. n - 1 |-> Value(g, i)]
      BY <3>1
    <3> DEFINE f == [i \in 1 .. n |-> Value(g, i)]
    <3>3. \A i \in 1 .. n - 1 : f[i] = g[i]
      <4> HIDE DEF Value
      <4>1. \A i \in 1 .. n - 1 : g[i] = Value(g, i)
        BY <3>2
      <4>2. \A i \in 1 .. n - 1 : f[i] = Value(g, i)
        BY <2>4
      <4> QED
        BY <4>1, <4>2
    <3>4. \A i \in 1 .. n : Value(f, i) = Value(g, i)
      <4>1. ASSUME NEW i \in 1 .. n, i # 1 PROVE f[i - 1] = g[i - 1]
        <5>1. i - 1 \in 1 .. n - 1
          BY <2>4, <4>1
        <5> HIDE DEF f
        <5> QED
          BY <3>3, <5>1
      <4> HIDE DEF f
      <4> QED
        BY <4>1
    <3>5. f = [i \in 1 .. n |-> Value(f, i)]
      BY <3>4
    <3> QED
      BY <2>4, <3>5
  <2> QED
    BY <1>1, <2>4, <2>5, <2>6
<1> DEFINE upTo == CHOOSE f : f = [i \in 1 .. N |-> Value(f, i)]
<1>3. upTo = [i \in 1 .. N |-> Value(upTo, i)]
  BY <1>2
<1>4. Replay(inputs) = upTo[N]
  BY <1>1 DEF Replay
<1>5. upTo[1] = first /\ \A i \in 2 .. N : upTo[i] = ReplayStep(inputs, i, upTo[i - 1])
  <2>1. \A i \in 1 .. N : upTo[i] = Value(upTo, i)
    <3> HIDE DEF upTo, Value
    <3> QED
      BY <1>3
  <2>2. 1 \in 1 .. N /\ \A i \in 2 .. N : i # 1 /\ i \in 1 .. N
    BY <1>1
  <2> HIDE DEF upTo
  <2> QED
    BY <2>1, <2>2
<1> QED
  BY <1>4, <1>5

\* A patch without conflicts changes nothing outside its segment and says there what
\* the translator changed.
LEMMA PatchTakesOver ==
  ASSUME NEW base \in Subtitle, NEW current \in Subtitle, NEW theirs \in Subtitle,
         NEW range \in SUBSET Line, Conflicts(base, current, theirs, range) = {},
         NEW patched, patched = Patched(base, current, theirs, range)
  PROVE  /\ patched \in Subtitle
         /\ \A l \in Line \ range : patched[l] = current[l]
         /\ \A l \in range : base[l] # Gone /\ theirs[l] # base[l] =>
              theirs[l] # Gone /\ patched[l] # Gone /\ patched[l].text = theirs[l].text
<1>1. \A l \in InSegment(base, range) : ~Clashes(base, current, theirs, l)
  BY DEF Conflicts
<1>2. \A l \in Line : base[l] \in Event \cup {Gone} /\ current[l] \in Event \cup {Gone} /\ theirs[l] \in Event \cup {Gone}
  BY DEF Subtitle
<1>3. \A l \in InSegment(base, range) :
        l \in Line /\ base[l] # Gone /\ current[l] \in Event /\ theirs[l] \in Event /\ base[l].fields = theirs[l].fields
  BY <1>1, <1>2 DEF InSegment, Clashes
<1>4. Gone \notin Event
  BY DEF Gone, Event
<1>5. \A e \in Event, t \in Text : [e EXCEPT !.text = t] \in Event /\ [e EXCEPT !.text = t].text = t
  BY DEF Event
<1>6. \A l \in Line : patched[l] = IF l \in InSegment(base, range) /\ theirs[l].text # base[l].text
                                     THEN [current[l] EXCEPT !.text = theirs[l].text] ELSE current[l]
  BY DEF Patched
<1>7. \A l \in Line : patched[l] \in Event \cup {Gone}
  <2> SUFFICES ASSUME NEW l \in Line PROVE patched[l] \in Event \cup {Gone}
    OBVIOUS
  <2>1. CASE l \in InSegment(base, range) /\ theirs[l].text # base[l].text
    <3>1. theirs[l].text \in Text
      BY <1>3, <2>1 DEF Event
    <3>2. current[l] \in Event
      BY <1>3, <2>1
    <3>3. [current[l] EXCEPT !.text = theirs[l].text] \in Event
      BY <1>5, <3>1, <3>2, Zenon
    <3>4. patched[l] = [current[l] EXCEPT !.text = theirs[l].text]
      BY <1>6, <2>1, Zenon
    <3> QED
      BY <3>3, <3>4
  <2> QED
    BY <1>2, <1>6, <2>1
<1>8. patched \in Subtitle
  BY <1>7 DEF Patched, Subtitle
<1>9. \A l \in Line \ range : patched[l] = current[l]
  BY <1>6 DEF InSegment
<1>10. ASSUME NEW l \in range, base[l] # Gone, theirs[l] # base[l]
       PROVE  theirs[l] # Gone /\ patched[l] # Gone /\ patched[l].text = theirs[l].text
  <2>1. l \in InSegment(base, range) /\ l \in Line
    BY <1>10 DEF InSegment
  <2>2. base[l] \in Event /\ theirs[l] \in Event /\ theirs[l].text \in Text
    BY <1>2, <1>3, <1>10, <2>1 DEF Event
  <2>3. theirs[l].text # base[l].text
    BY <1>3, <1>10, <2>1, <2>2 DEF Event
  <2>4. patched[l] = [current[l] EXCEPT !.text = theirs[l].text] /\ current[l] \in Event
    BY <1>3, <1>6, <2>1, <2>3
  <2>5. patched[l] \in Event /\ patched[l].text = theirs[l].text
    BY <1>5, <2>2, <2>4
  <2> QED
    BY <1>4, <2>2, <2>5
<1> QED
  BY <1>8, <1>9, <1>10

\* Replaying the inputs without a conflict keeps everybody's work, if no two claims
\* share an event.
LEMMA ReplayKeepsWork ==
  ASSUME \A c, d \in Translator : c # d => Segment[c] \cap Segment[d] = {},
         NEW inputs \in Inputs, Replay(inputs).conflicts = {}
  PROVE  \A i \in 1 .. Len(inputs) : Shows(Replay(inputs).subtitle, inputs, i)
<1> DEFINE N == Len(inputs)
<1>1. /\ N \in Nat /\ N >= 1 /\ DOMAIN inputs = 1 .. N
      /\ \A i \in 1 .. N : inputs[i] \in Input
      /\ \A i, k \in 1 .. N : inputs[i].claim = inputs[k].claim => i = k
  BY DEF Inputs
<1>2. PICK upTo : /\ upTo[1] = [subtitle |-> inputs[1].subtitle, conflicts |-> {}]
                  /\ \A i \in 2 .. N : upTo[i] = ReplayStep(inputs, i, upTo[i - 1])
                  /\ Replay(inputs) = upTo[N]
  BY ReplayUnfolds
<1>3. \A i \in 1 .. N : /\ inputs[i].subtitle \in Subtitle /\ inputs[i].claim \in Translator
                        /\ Segment[inputs[i].claim] \in SUBSET Line
  BY <1>1, SubtitlesAssumption DEF Input
<1> DEFINE Shape(i) == upTo[i] = [subtitle |-> upTo[i].subtitle, conflicts |-> upTo[i].conflicts]
           Good(i) == /\ Shape(i)
                      /\ upTo[i].conflicts = {} => /\ upTo[i].subtitle \in Subtitle
                                                   /\ \A k \in 1 .. i : Shows(upTo[i].subtitle, inputs, k)
           Bad == {i \in 1 .. N : ~Good(i)}
<1>4. Good(1)
  <2>1. upTo[1].subtitle = inputs[1].subtitle /\ Shape(1)
    BY <1>2
  <2>2. Shows(inputs[1].subtitle, inputs, 1)
    BY DEF Shows
  <2> QED
    BY <1>1, <1>3, <2>1, <2>2
<1>5. ASSUME NEW n \in 2 .. N, Good(n - 1) PROVE Good(n)
  <2> DEFINE base == inputs[n - 1].subtitle
             theirs == inputs[n].subtitle
             range == Segment[inputs[n].claim]
             before == upTo[n - 1]
             found == Conflicts(base, before.subtitle, theirs, range)
             patched == Patched(base, before.subtitle, theirs, range)
  <2>1. n \in 1 .. N /\ n - 1 \in 1 .. N /\ n > 1
    BY <1>1
  <2>2. CASE found = {}
    <3>1. upTo[n] = [subtitle |-> patched, conflicts |-> before.conflicts]
      <4>1. upTo[n] = [before EXCEPT !.subtitle = Patched(base, before.subtitle, theirs, range)]
        BY <1>2, <2>2 DEF ReplayStep
      <4> HIDE DEF patched
      <4> QED
        BY <1>5, <4>1 DEF patched
    <3>2. SUFFICES ASSUME before.conflicts = {}
                   PROVE  patched \in Subtitle /\ \A k \in 1 .. n : Shows(patched, inputs, k)
      <4>1. upTo[n].subtitle = patched /\ upTo[n].conflicts = before.conflicts
        BY <3>1
      <4> HIDE DEF patched, before
      <4> QED
        BY <3>1, <4>1
    <3>3. before.subtitle \in Subtitle /\ \A k \in 1 .. n - 1 : Shows(before.subtitle, inputs, k)
      BY <1>5, <3>2
    <3>4. /\ patched \in Subtitle
          /\ \A l \in Line \ range : patched[l] = before.subtitle[l]
          /\ \A l \in range : base[l] # Gone /\ theirs[l] # base[l] =>
               theirs[l] # Gone /\ patched[l] # Gone /\ patched[l].text = theirs[l].text
      <4>1. base \in Subtitle /\ theirs \in Subtitle /\ range \in SUBSET Line /\ before.subtitle \in Subtitle
        BY <1>3, <2>1, <3>3
      <4> HIDE DEF base, theirs, range, before
      <4> QED
        BY <2>2, <4>1, PatchTakesOver
    <3> HIDE DEF patched
    <3>5. Shows(patched, inputs, n)
      BY <2>1, <3>4 DEF Shows
    <3>6. ASSUME NEW k \in 1 .. n - 1 PROVE Shows(patched, inputs, k)
      <4>1. k \in 1 .. N /\ k # n
        BY <2>1
      <4>2. Segment[inputs[k].claim] \subseteq Line \ range
        BY <1>1, <1>3, <2>1, <4>1
      <4> QED
        BY <3>3, <3>4, <3>6, <4>2 DEF Shows
    <3> QED
      BY <2>1, <3>4, <3>5, <3>6
  <2>3. CASE found # {}
    <3>1. upTo[n] = [subtitle |-> before.subtitle, conflicts |-> before.conflicts \cup (found \X {n})]
      <4>1. upTo[n] = [before EXCEPT !.conflicts = before.conflicts \cup (found \X {n})]
        BY <1>2, <2>3 DEF ReplayStep
      <4> HIDE DEF found
      <4> QED
        BY <1>5, <4>1
    <3> HIDE DEF found
    <3>2. PICK x : x \in found
      BY <2>3
    <3>3. <<x, n>> \in upTo[n].conflicts
      BY <3>1, <3>2
    <3>4. Shape(n) /\ upTo[n].conflicts # {}
      BY <3>1, <3>3
    <3> QED
      BY <3>4
  <2> QED
    BY <2>2, <2>3
<1>6. \A i \in 1 .. N : Good(i)
  <2>1. SUFFICES ASSUME Bad # {} PROVE FALSE
    BY Zenon
  <2>2. Bad \in SUBSET Nat
    BY <1>1
  <2>3. PICK n \in Bad : \A m \in Bad : n <= m
    BY <2>1, <2>2, LeastNumber
  <2> HIDE DEF Good
  <2>4. n \in 1 .. N /\ ~Good(n)
    BY <2>3
  <2>5. n \in 2 .. N /\ n - 1 \in 1 .. N
    BY <1>1, <1>4, <2>4
  <2>6. Good(n - 1)
    BY <2>3, <2>4, <2>5
  <2> QED
    BY <1>5, <2>4, <2>5, <2>6
<1>7. Good(N) /\ upTo[N].conflicts = {}
  BY <1>1, <1>2, <1>6
<1> QED
  BY <1>2, <1>7

\* The rows are lists; what a merge has read are submissions of different claims; and
\* the stored texts show their inputs' work.
SubtitlesInv ==
  /\ submission \in [Translator -> [uploaded : BOOLEAN, subtitle : Subtitle]]
  /\ (\E S : mergeJob \in Seq(S)) /\ (\E S : file \in Seq(S))
  /\ \A j \in DOMAIN mergeJob : /\ DOMAIN mergeJob[j] = {"status", "claims", "output", "stage", "made", "inputs"}
                                /\ mergeJob[j].claims \subseteq Translator
                                /\ mergeJob[j].stage = "read" => mergeJob[j].inputs \in Inputs
  /\ MergeKeepsWork

\* A merge that stores a text has taken over everybody's work, however the
\* translators hand in, are reviewed, merged and resolved meanwhile, if no two claims
\* share an event: SegmentsDisjoint says so of the claims (processMergeJob).
THEOREM MergedWorkIsKept ==
  ASSUME \A c, d \in Translator : c # d => Segment[c] \cap Segment[d] = {}
  PROVE  SubtitlesSpec => []MergeKeepsWork
<1> DEFINE RowShows(row) == \A i \in DOMAIN row.of : Shows(row.subtitle, row.of, i)
<1>0. /\ MergeKeepsWork <=> \A f \in DOMAIN file : RowShows(file[f])
      /\ MergeKeepsWork' <=> \A f \in DOMAIN file' : RowShows(file'[f])
  BY DEF MergeKeepsWork, Shows
<1>1. SubtitlesInit => SubtitlesInv
  <2> SUFFICES ASSUME SubtitlesInit PROVE SubtitlesInv
    OBVIOUS
  <2>1. submission \in [Translator -> [uploaded : BOOLEAN, subtitle : Subtitle]]
    BY DEF SubtitlesInit, None, Nothing, Subtitle
  <2>2. mergeJob \in Seq({}) /\ file \in Seq({}) /\ DOMAIN mergeJob = {} /\ DOMAIN file = {}
    BY DEF SubtitlesInit
  <2> QED
    BY <1>0, <2>1, <2>2 DEF SubtitlesInv
<1>2. ASSUME SubtitlesInv, [SubtitlesNext]_subtitlesVars PROVE SubtitlesInv'
  <2> DEFINE MergeOK(job) == /\ DOMAIN job = {"status", "claims", "output", "stage", "made", "inputs"}
                             /\ job.claims \subseteq Translator
                             /\ (job.stage = "read" => job.inputs \in Inputs)
  <2>1. PICK J : mergeJob \in Seq(J)
    BY <1>2 DEF SubtitlesInv
  <2>2. PICK F : file \in Seq(F)
    BY <1>2 DEF SubtitlesInv
  <2>3. \A j \in DOMAIN mergeJob : MergeOK(mergeJob[j])
    BY <1>2 DEF SubtitlesInv
  <2>4. \A f \in DOMAIN file : RowShows(file[f])
    BY <1>0, <1>2 DEF SubtitlesInv
  <2> HIDE DEF RowShows
  \* One row of the files more, or another text in one.
  <2>a. ASSUME NEW row, RowShows(row),
               file' = Append(file, row) \/ \E f : file' = [file EXCEPT ![f] = row]
        PROVE  MergeKeepsWork' /\ \E S : file' \in Seq(S)
    <3>1. file \in Seq(F \cup {row}) /\ row \in F \cup {row}
      BY <2>2
    <3>2. CASE file' = Append(file, row)
      <4>1. file' \in Seq(F \cup {row}) /\ \A f \in DOMAIN file' : file'[f] = row \/ (f \in DOMAIN file /\ file'[f] = file[f])
        BY <3>1, <3>2
      <4> QED
        BY <1>0, <2>4, <2>a, <4>1
    <3>3. ASSUME NEW f, file' = [file EXCEPT ![f] = row] PROVE MergeKeepsWork' /\ file' \in Seq(F \cup {row})
      <4>1. DOMAIN file' = DOMAIN file /\ \A g \in DOMAIN file' : file'[g] = row \/ file'[g] = file[g]
        BY <3>3
      <4>2. file \in [1 .. Len(file) -> F \cup {row}] /\ Len(file) \in Nat
        BY <3>1
      <4>3. file' \in [1 .. Len(file) -> F \cup {row}]
        BY <3>3, <4>2
      <4>4. file' \in Seq(F \cup {row})
        BY <4>2, <4>3
      <4> QED
        BY <1>0, <2>4, <2>a, <4>1, <4>4
    <3> QED
      BY <2>a, <3>2, <3>3
  <2>b. ASSUME UNCHANGED file PROVE MergeKeepsWork' /\ \E S : file' \in Seq(S)
    BY <1>0, <2>2, <2>4, <2>b
  \* One row of the jobs more, or other fields in one.
  <2>c. ASSUME NEW j \in DOMAIN mergeJob, NEW job, MergeOK(job), mergeJob' = [mergeJob EXCEPT ![j] = job]
        PROVE  (\E S : mergeJob' \in Seq(S)) /\ \A i \in DOMAIN mergeJob' : MergeOK(mergeJob'[i])
    <3>1. mergeJob' \in Seq(J \cup {job})
      BY <2>1, <2>c
    <3>2. \A i \in DOMAIN mergeJob' : i \in DOMAIN mergeJob /\ mergeJob'[i] = IF i = j THEN job ELSE mergeJob[i]
      BY <2>c
    <3> HIDE DEF MergeOK
    <3> QED
      BY <2>3, <2>c, <3>1, <3>2
  <2>d. ASSUME UNCHANGED mergeJob
        PROVE  (\E S : mergeJob' \in Seq(S)) /\ \A i \in DOMAIN mergeJob' : MergeOK(mergeJob'[i])
    BY <2>1, <2>3, <2>d
  <2>e. ASSUME submission' \in [Translator -> [uploaded : BOOLEAN, subtitle : Subtitle]],
               \E S : mergeJob' \in Seq(S), \A i \in DOMAIN mergeJob' : MergeOK(mergeJob'[i]),
               MergeKeepsWork', \E S : file' \in Seq(S)
        PROVE  SubtitlesInv'
    BY <2>e DEF SubtitlesInv
  <2>f. submission \in [Translator -> [uploaded : BOOLEAN, subtitle : Subtitle]]
    BY <1>2 DEF SubtitlesInv
  <2> HIDE DEF MergeOK
  <2>5. ASSUME NEW c \in Translator, NEW subtitle \in Subtitle, NEW uploaded \in BOOLEAN,
               SubmitTranslation(c, subtitle, uploaded)
        PROVE  submission' \in [Translator -> [uploaded : BOOLEAN, subtitle : Subtitle]] /\ UNCHANGED <<mergeJob, file>>
    BY <2>f, <2>5 DEF SubmitTranslation
  <2>6. ASSUME NEW claims \in SUBSET Translator, CreateMergeJob(claims)
        PROVE  (\E S : mergeJob' \in Seq(S)) /\ \A j \in DOMAIN mergeJob' : MergeOK(mergeJob'[j])
    <3> DEFINE job == [status |-> "pending", claims |-> claims, output |-> 0,
                       stage |-> "created", made |-> 0, inputs |-> <<>>]
    <3>1. mergeJob' = Append(mergeJob, job) /\ MergeOK(job)
      BY <2>6 DEF CreateMergeJob, MergeOK
    <3> HIDE DEF job
    <3>2. mergeJob \in Seq(J \cup {job}) /\ mergeJob' \in Seq(J \cup {job})
      BY <2>1, <3>1
    <3>3. \A i \in DOMAIN mergeJob' : mergeJob'[i] = job \/ (i \in DOMAIN mergeJob /\ mergeJob'[i] = mergeJob[i])
      BY <2>1, <3>1
    <3> QED
      BY <2>3, <3>1, <3>2, <3>3
  \* The steps that leave claims and inputs alone, and what was not read unread.
  <2>7. ASSUME NEW j \in DOMAIN mergeJob, NEW job, mergeJob' = [mergeJob EXCEPT ![j] = job],
               DOMAIN job = DOMAIN mergeJob[j], job.claims = mergeJob[j].claims, job.inputs = mergeJob[j].inputs,
               job.stage = "read" => mergeJob[j].stage = "read"
        PROVE  (\E S : mergeJob' \in Seq(S)) /\ \A i \in DOMAIN mergeJob' : MergeOK(mergeJob'[i])
    BY <2>3, <2>7, <2>c DEF MergeOK
  <2>m. \A j \in DOMAIN mergeJob : DOMAIN mergeJob[j] = {"status", "claims", "output", "stage", "made", "inputs"}
    BY <2>3 DEF MergeOK
  <2>8. ASSUME NEW j \in DOMAIN mergeJob, ReadInputs(j)
        PROVE  (\E S : mergeJob' \in Seq(S)) /\ \A i \in DOMAIN mergeJob' : MergeOK(mergeJob'[i])
    <3> DEFINE claims == HandedIn(mergeJob[j].claims)
               order == InOrder(claims)
               inputs == [i \in DOMAIN order |-> [claim |-> order[i], uploaded |-> submission[order[i]].uploaded,
                                                  subtitle |-> submission[order[i]].subtitle]]
    <3>1. claims \in SUBSET Translator /\ claims \in SUBSET Nat /\ IsFiniteSet(claims)
      BY <2>3, <2>8, SubtitlesAssumption, FS_Subset DEF MergeOK, HandedIn
    <3>2. CASE claims = {}
      <4> DEFINE job == [mergeJob[j] EXCEPT !.stage = "done", !.status = "failed"]
      <4>1. mergeJob' = [mergeJob EXCEPT ![j] = job]
        BY <2>8, <3>2 DEF ReadInputs
      <4> QED
        BY <2>m, <2>7, <4>1
    <3>3. CASE claims # {}
      <4>1. order \in [1 .. Cardinality(claims) -> claims] /\ \A i, k \in DOMAIN order : i < k => order[i] < order[k]
        BY <3>1, RisingOrder DEF InOrder
      <4>2. Cardinality(claims) \in Nat /\ Cardinality(claims) >= 1
        BY <3>1, <3>3, FS_CardinalityType, FS_EmptySet
      <4> HIDE DEF order
      <4>3. inputs \in [1 .. Cardinality(claims) -> Input]
        BY <2>f, <3>1, <4>1 DEF Input
      <4>4. inputs \in Seq(Input) /\ inputs # <<>> /\ DOMAIN inputs = 1 .. Cardinality(claims)
        BY <4>2, <4>3
      <4>5. \A i, k \in DOMAIN order : order[i] = order[k] => i = k
        BY <3>1, <4>1, <4>2
      <4>6. inputs \in Inputs
        BY <4>1, <4>4, <4>5 DEF Inputs
      <4> DEFINE job == [mergeJob[j] EXCEPT !.stage = "read", !.inputs = inputs]
      <4>7. mergeJob' = [mergeJob EXCEPT ![j] = job]
        BY <2>8, <3>3 DEF ReadInputs, order
      <4>8. MergeOK(job)
        BY <2>3, <4>6 DEF MergeOK
      <4> HIDE DEF job
      <4> QED
        BY <2>c, <4>7, <4>8
    <3> QED
      BY <3>2, <3>3
  <2>9. ASSUME NEW j \in DOMAIN mergeJob, StoreMerged(j)
        PROVE  /\ (\E S : mergeJob' \in Seq(S)) /\ \A i \in DOMAIN mergeJob' : MergeOK(mergeJob'[i])
               /\ MergeKeepsWork' /\ \E S : file' \in Seq(S)
    <3> DEFINE inputs == mergeJob[j].inputs
               result == Replay(inputs)
               row == [subtitle |-> result.subtitle, of |-> inputs]
    <3>1. inputs \in Inputs
      BY <2>3, <2>9 DEF StoreMerged, MergeOK
    <3>2. CASE result.conflicts # {}
      <4> DEFINE job == [mergeJob[j] EXCEPT !.stage = "done", !.status = "waiting_conflict_resolution"]
      <4>1. mergeJob' = [mergeJob EXCEPT ![j] = job] /\ UNCHANGED file
        BY <2>9, <3>2 DEF StoreMerged
      <4> QED
        BY <2>m, <2>7, <2>b, <4>1
    <3>3. CASE result.conflicts = {}
      <4>1. file' = Append(file, row)
        BY <2>9, <3>3 DEF StoreMerged
      <4>2. \A i \in 1 .. Len(inputs) : Shows(result.subtitle, inputs, i)
        BY <3>1, <3>3, ReplayKeepsWork
      <4>3. DOMAIN inputs = 1 .. Len(inputs)
        BY <3>1 DEF Inputs
      <4>4. RowShows(row)
        BY <4>2, <4>3 DEF RowShows
      <4> DEFINE job == [mergeJob[j] EXCEPT !.stage = "stored", !.made = Len(file) + 1]
      <4>5. mergeJob' = [mergeJob EXCEPT ![j] = job]
        BY <2>9, <3>3 DEF StoreMerged
      <4>6. MergeKeepsWork' /\ \E S : file' \in Seq(S)
        BY <2>a, <4>1, <4>4
      <4> QED
        BY <2>m, <2>7, <4>5, <4>6
    <3> QED
      BY <3>2, <3>3
  <2>10. ASSUME NEW r \in Resolver, StoreResolved(r)
         PROVE  MergeKeepsWork' /\ \E S : file' \in Seq(S)
    <3> DEFINE row == [subtitle |-> Resolved(conflict[resolving[r].conflict], resolving[r].keep), of |-> <<>>]
    <3>1. RowShows(row)
      BY DEF RowShows
    <3>2. file' = Append(file, row) \/ \E f : file' = [file EXCEPT ![f] = row]
      BY <2>10 DEF StoreResolved
    <3> HIDE DEF row
    <3> QED
      BY <2>a, <3>1, <3>2
  <2>11. ASSUME NEW r \in Resolver, FinishResolve(r)
         PROVE  (\E S : mergeJob' \in Seq(S)) /\ \A i \in DOMAIN mergeJob' : MergeOK(mergeJob'[i])
    <3> DEFINE j == resolving[r].job
               job == [mergeJob[j] EXCEPT !.status = "completed", !.output = resolving[r].output]
    <3>1. mergeJob' = [mergeJob EXCEPT ![j] = job]
      BY <2>11 DEF FinishResolve
    <3>2. CASE j \in DOMAIN mergeJob
      BY <2>m, <2>7, <3>1, <3>2
    <3>3. CASE j \notin DOMAIN mergeJob
      BY <2>1, <2>d, <3>1, <3>3
    <3> QED
      BY <3>2, <3>3
  <2>12. ASSUME NEW j \in DOMAIN mergeJob,
                BeginMerge(j) \/ FinishMerge(j) \/ \E status \in JobStatus : UpdateMergeJobStatus(j, status)
         PROVE  (\E S : mergeJob' \in Seq(S)) /\ \A i \in DOMAIN mergeJob' : MergeOK(mergeJob'[i])
    <3>1. \E job : /\ mergeJob' = [mergeJob EXCEPT ![j] = job]
                   /\ DOMAIN job = DOMAIN mergeJob[j] /\ job.claims = mergeJob[j].claims /\ job.inputs = mergeJob[j].inputs
                   /\ job.stage = "read" => mergeJob[j].stage = "read"
      BY <2>m, <2>12 DEF BeginMerge, FinishMerge, UpdateMergeJobStatus
    <3> QED
      BY <2>7, <3>1
  <2>13. CASE UNCHANGED subtitlesVars
    BY <2>b, <2>d, <2>e, <2>f, <2>13 DEF subtitlesVars
  <2> QED
    <3>1. CASE \E c \in Translator, subtitle \in Subtitle, uploaded \in BOOLEAN : SubmitTranslation(c, subtitle, uploaded)
      BY <2>5, <2>b, <2>d, <2>e, <3>1
    <3>2. CASE \E c \in Translator, verdict \in {"active", "approved"} : ReviewClaim(c, verdict)
      BY <2>b, <2>d, <2>e, <2>f, <3>2 DEF ReviewClaim
    <3>3. CASE \E claims \in SUBSET Translator : CreateMergeJob(claims)
      BY <2>6, <2>b, <2>e, <2>f, <3>3 DEF CreateMergeJob
    <3>4. ASSUME NEW j \in DOMAIN mergeJob, BeginMerge(j) \/ FinishMerge(j) \/ \E status \in JobStatus : UpdateMergeJobStatus(j, status)
          PROVE  SubtitlesInv'
      BY <2>12, <2>b, <2>f, <2>e, <3>4 DEF BeginMerge, FinishMerge, UpdateMergeJobStatus
    <3>5. ASSUME NEW j \in DOMAIN mergeJob, ReadInputs(j) PROVE SubtitlesInv'
      BY <2>8, <2>b, <2>f, <2>e, <3>5 DEF ReadInputs
    <3>6. ASSUME NEW j \in DOMAIN mergeJob, StoreMerged(j) PROVE SubtitlesInv'
      BY <2>9, <2>f, <2>e, <3>6 DEF StoreMerged
    <3>7. ASSUME NEW r \in Resolver, StoreResolved(r) PROVE SubtitlesInv'
      BY <2>10, <2>d, <2>f, <2>e, <3>7 DEF StoreResolved
    <3>8. ASSUME NEW r \in Resolver, FinishResolve(r) PROVE SubtitlesInv'
      BY <2>11, <2>b, <2>f, <2>e, <3>8 DEF FinishResolve
    <3>9. CASE \/ \E r \in Resolver, k \in DOMAIN conflict, keep \in {"a", "b"} \cup Text : BeginResolve(r, k, keep)
               \/ \E r \in Resolver : MarkResolved(r)
               \/ \E k \in DOMAIN conflict : IgnoreConflict(k)
      BY <2>b, <2>d, <2>e, <2>f, <3>9 DEF BeginResolve, MarkResolved, IgnoreConflict
    <3> QED
      BY <1>2, <2>13, <3>1, <3>2, <3>3, <3>4, <3>5, <3>6, <3>7, <3>8, <3>9 DEF SubtitlesNext
<1> QED
  BY <1>1, <1>2, PTL DEF SubtitlesSpec, SubtitlesInv

-----------------------------------------------------------------------------
(* Subtitle files: recursions over numbers, for the texts and the files    *)

\* What holds at the first number and is handed on holds up to the last.
LEMMA StepByStep ==
  ASSUME NEW m \in Nat, NEW n \in Nat, NEW P, m \in P,
         \A k \in m .. n - 1 : k \in P => k + 1 \in P
  PROVE  m .. n \subseteq P
<1> DEFINE Bad == {k \in m .. n : k \notin P}
<1>1. SUFFICES ASSUME Bad # {} PROVE FALSE
  OBVIOUS
<1>2. PICK k \in Bad : \A j \in Bad : k <= j
  <2>1. Bad \in SUBSET Nat
    OBVIOUS
  <2> HIDE DEF Bad
  <2> QED
    BY <1>1, <2>1, LeastNumber
<1>3. k - 1 \in m .. n - 1 /\ k - 1 \notin Bad
  BY <1>2
<1>4. k - 1 \in P /\ (k - 1) + 1 = k
  BY <1>3
<1> QED
  BY <1>2, <1>3, <1>4

\* f begins with b and says at every later number what the step makes of the value before.
Follows(f, m, n, b, step) == f[m] = b /\ \A k \in m .. n : k # m => f[k] = step[f[k - 1]][k]

LEMMA RecursionIsDefined ==
  ASSUME NEW m \in Nat, NEW n \in Nat, m <= n, NEW S, NEW b \in S,
         NEW step \in [S -> [m .. n -> S]]
  PROVE  \E f \in [m .. n -> S] : Follows(f, m, n, b, step)
<1> DEFINE Value(f, k) == IF k = m THEN b ELSE step[f[k - 1]][k]
           Defined(j) == \E f \in [m .. j -> S] : f = [k \in m .. j |-> Value(f, k)]
           P == {j \in m .. n : Defined(j)}
<1>1. m \in P
  <2> DEFINE f == [k \in m .. m |-> b]
  <2>1. f \in [m .. m -> S] /\ f = [k \in m .. m |-> Value(f, k)]
    OBVIOUS
  <2>2. Defined(m)
    <3> HIDE DEF f
    <3> QED
      BY <2>1
  <2> HIDE DEF Defined
  <2> QED
    BY <2>2
<1>2. ASSUME NEW j \in m .. n - 1, j \in P PROVE j + 1 \in P
  <2>1. PICK g \in [m .. j -> S] : g = [k \in m .. j |-> Value(g, k)]
    BY <1>2
  <2> DEFINE f == [k \in m .. j + 1 |-> Value(g, k)]
  <2>2. \A k \in m .. j : g[k] = Value(g, k)
    BY <2>1
  <2>3. ASSUME NEW k \in m .. j + 1 PROVE Value(g, k) \in S
    <3>1. CASE k = m
      BY <3>1
    <3>2. CASE k # m
      <4>1. k - 1 \in m .. j /\ k \in m .. n
        BY <3>2
      <4>2. g[k - 1] \in S
        BY <4>1
      <4> QED
        BY <3>2, <4>1, <4>2
    <3> QED
      BY <3>1, <3>2
  <2>4. f \in [m .. j + 1 -> S]
    BY <2>3
  <2>5. \A k \in m .. j : f[k] = g[k]
    <3> HIDE DEF Value
    <3> QED
      BY <2>2
  <2>6. ASSUME NEW k \in m .. j + 1 PROVE Value(f, k) = Value(g, k)
    <3>1. CASE k = m
      BY <3>1
    <3>2. CASE k # m
      <4>1. k - 1 \in m .. j
        BY <3>2
      <4>2. f[k - 1] = g[k - 1]
        BY <2>5, <4>1
      <4> HIDE DEF f
      <4> QED
        BY <4>2
    <3> QED
      BY <3>1, <3>2
  <2>7. f = [k \in m .. j + 1 |-> Value(f, k)]
    <3> HIDE DEF Value
    <3> QED
      BY <2>6
  <2>8. Defined(j + 1)
    <3> HIDE DEF f, Value
    <3> QED
      BY <2>4, <2>7
  <2> HIDE DEF Defined
  <2> QED
    BY <2>8
<1>3. m .. n \subseteq P
  <2> HIDE DEF P
  <2> QED
    BY <1>1, <1>2, StepByStep
<1>4. PICK f \in [m .. n -> S] : f = [k \in m .. n |-> Value(f, k)]
  <2>1. n \in P
    <3> HIDE DEF P
    <3> QED
      BY <1>3
  <2> QED
    BY <2>1
<1>5. \A k \in m .. n : f[k] = Value(f, k)
  <2> HIDE DEF Value
  <2> QED
    BY <1>4
<1>6. Follows(f, m, n, b, step)
  BY <1>5 DEF Follows
<1> QED
  BY <1>6

\* A text is processed token by token.
LEMMA TextIsProcessed ==
  ASSUME NEW text \in Seq(Token)
  PROVE  \E f :
           /\ f[0] = <<>>
           /\ \A k \in 1 .. Len(text) : f[k] = Process(f[k - 1], text[k])
           /\ ProcessAssText(text) = f[Len(text)]
<1> DEFINE n == Len(text)
           S == Seq(Token)
           step == [said \in S |-> [k \in 0 .. n |-> IF k = 0 THEN said ELSE Process(said, text[k])]]
           Value(f, k) == IF k = 0 THEN <<>> ELSE Process(f[k - 1], text[k])
<1>1. n \in Nat /\ 0 <= n /\ 0 \in Nat /\ <<>> \in S
  OBVIOUS
<1>2. step \in [S -> [0 .. n -> S]]
  <2> SUFFICES ASSUME NEW said \in S, NEW k \in 1 .. n PROVE Process(said, text[k]) \in S
    OBVIOUS
  <2>1. text[k] \in Token
    OBVIOUS
  <2>3. "newline" \in Token /\ " " \in Token
    BY DEF Token
  <2>2. \A c \in Token : Append(said, c) \in S
    OBVIOUS
  <2> HIDE DEF S
  <2> QED
    BY <2>1, <2>2, <2>3 DEF Process
<1> DEFINE none == <<>>
<1>3. PICK f \in [0 .. n -> S] : Follows(f, 0, n, none, step)
  <2>1. none \in S
    BY <1>1
  <2> HIDE DEF step, S, n, none
  <2> QED
    BY <1>1, <1>2, <2>1, RecursionIsDefined
<1>4. f = [k \in 0 .. n |-> Value(f, k)]
  <2>1. ASSUME NEW k \in 0 .. n PROVE f[k] = Value(f, k)
    <3>1. CASE k # 0
      <4>1. k - 1 \in 0 .. n
        BY <3>1
      <4>2. f[k - 1] \in S
        BY <4>1
      <4>3. f[k] = step[f[k - 1]][k]
        BY <1>3, <3>1 DEF Follows
      <4> QED
        BY <3>1, <4>2, <4>3
    <3> QED
      BY <1>3, <3>1 DEF Follows
  <2> HIDE DEF Value
  <2> QED
    BY <2>1
<1> DEFINE processed == CHOOSE g : g = [k \in 0 .. n |-> Value(g, k)]
<1>5. processed = [k \in 0 .. n |-> Value(processed, k)]
  BY <1>4
<1>6. ProcessAssText(text) = processed[n]
  BY DEF ProcessAssText
<1>7. processed[0] = <<>> /\ \A k \in 1 .. n : processed[k] = Process(processed[k - 1], text[k])
  <2>1. \A k \in 0 .. n : processed[k] = Value(processed, k)
    <3> HIDE DEF processed, Value
    <3> QED
      BY <1>5
  <2> HIDE DEF processed
  <2> QED
    BY <1>1, <2>1
<1> QED
  BY <1>6, <1>7

\* A text the parser has been through: nothing is left in it to be read otherwise.
Plain == Token \ {"\\N", "\\n", "{tag}"}

LEMMA Beginnings ==
  ASSUME NEW S, NEW s \in Seq(S)
  PROVE  SubSeq(s, 1, 0) = <<>> /\ SubSeq(s, 1, Len(s)) = s
<1>1. SubSeq(s, 1, 0) = <<>>
  OBVIOUS
<1>2. SubSeq(s, 1, Len(s)) = s
  OBVIOUS
<1> QED
  BY <1>1, <1>2

LEMMA OneMore ==
  ASSUME NEW S, NEW s \in Seq(S), NEW k \in 0 .. Len(s) - 1
  PROVE  Append(SubSeq(s, 1, k), s[k + 1]) = SubSeq(s, 1, k + 1)
<1> DEFINE before == SubSeq(s, 1, k)
           after == SubSeq(s, 1, k + 1)
<1>1. before \in Seq(S) /\ Len(before) = k /\ after \in Seq(S) /\ Len(after) = k + 1 /\ s[k + 1] \in S
  OBVIOUS
<1>2. \A i \in 1 .. k : before[i] = s[i]
  OBVIOUS
<1>3. \A i \in 1 .. k + 1 : after[i] = s[i]
  OBVIOUS
<1> HIDE DEF before, after
<1>4. /\ Append(before, s[k + 1]) \in Seq(S) /\ Len(Append(before, s[k + 1])) = k + 1
      /\ \A i \in 1 .. k : Append(before, s[k + 1])[i] = before[i]
      /\ Append(before, s[k + 1])[k + 1] = s[k + 1]
  BY <1>1, AppendProperties
<1>5. \A i \in 1 .. k + 1 : Append(before, s[k + 1])[i] = after[i]
  BY <1>1, <1>2, <1>3, <1>4
<1>6. Append(before, s[k + 1]) = after
  BY <1>1, <1>4, <1>5, SeqEqual
<1> QED
  BY <1>6 DEF before, after

\* An escaped text is a text, token for token.
LEMMA EscapedIsText ==
  ASSUME NEW text \in Seq(Plain), NEW raw, raw = EscapeAssText(text)
  PROVE  /\ raw \in Seq(Token) /\ Len(raw) = Len(text) /\ DOMAIN raw = 1 .. Len(text)
         /\ \A k \in 1 .. Len(text) : raw[k] = IF text[k] = "newline" THEN "\\N" ELSE text[k]
<1> DEFINE n == Len(text)
<1>1. n \in Nat /\ DOMAIN text = 1 .. n /\ \A k \in 1 .. n : text[k] \in Plain
  OBVIOUS
<1>2. \A k \in 1 .. n : raw[k] = IF text[k] = "newline" THEN "\\N" ELSE text[k]
  BY <1>1 DEF EscapeAssText
<1>3. \A k \in 1 .. n : raw[k] \in Token
  BY <1>1, <1>2 DEF Plain, Token
<1>4. raw \in [1 .. n -> Token]
  BY <1>1, <1>3 DEF EscapeAssText
<1> QED
  BY <1>1, <1>2, <1>4

\* What was written is read as it was, newlines and all.
LEMMA EscapedIsReadBack ==
  ASSUME NEW text \in Seq(Plain)
  PROVE  ProcessAssText(EscapeAssText(text)) = text
<1> DEFINE n == Len(text)
           raw == EscapeAssText(text)
<1>1. n \in Nat /\ DOMAIN text = 1 .. n /\ \A k \in 1 .. n : text[k] \in Plain
  OBVIOUS
<1>2. \A k \in 1 .. n : raw[k] = IF text[k] = "newline" THEN "\\N" ELSE text[k]
  BY EscapedIsText
<1>3. raw \in Seq(Token) /\ Len(raw) = n
  BY EscapedIsText
<1> HIDE DEF raw
<1>4. PICK f : /\ f[0] = <<>>
               /\ \A k \in 1 .. n : f[k] = Process(f[k - 1], raw[k])
               /\ ProcessAssText(raw) = f[n]
  BY <1>3, TextIsProcessed
<1> DEFINE P == {k \in 0 .. n : f[k] = SubSeq(text, 1, k)}
<1>5. 0 \in P
  <2>1. SubSeq(text, 1, 0) = <<>>
    OBVIOUS
  <2>2. f[0] = SubSeq(text, 1, 0) /\ 0 \in 0 .. n
    BY <1>1, <1>4, <2>1
  <2> QED
    BY <2>2
<1>6. ASSUME NEW k \in 0 .. n - 1, k \in P PROVE k + 1 \in P
  <2>1. k + 1 \in 1 .. n /\ (k + 1) - 1 = k
    BY <1>1
  <2>2. f[k + 1] = Process(f[k], raw[k + 1])
    BY <1>4, <2>1
  <2>3. Process(f[k], raw[k + 1]) = Append(f[k], text[k + 1])
    BY <1>1, <1>2, <2>1 DEF Process, Plain
  <2>4. Append(SubSeq(text, 1, k), text[k + 1]) = SubSeq(text, 1, k + 1)
    BY OneMore
  <2>5. f[k + 1] = SubSeq(text, 1, k + 1)
    BY <1>6, <2>2, <2>3, <2>4
  <2> QED
    BY <2>1, <2>5
<1>7. 0 .. n \subseteq P
  <2> HIDE DEF P
  <2> QED
    BY <1>1, <1>5, <1>6, StepByStep
<1>8. f[n] = SubSeq(text, 1, n)
  BY <1>1, <1>7
<1>9. SubSeq(text, 1, n) = text
  OBVIOUS
<1> QED
  BY <1>4, <1>8, <1>9 DEF raw

\* What is read is plain.
LEMMA ReadIsPlain ==
  ASSUME NEW text \in Seq(Token)
  PROVE  ProcessAssText(text) \in Seq(Plain)
<1> DEFINE n == Len(text)
<1>1. n \in Nat /\ \A k \in 1 .. n : text[k] \in Token
  OBVIOUS
<1>2. PICK f : /\ f[0] = <<>>
               /\ \A k \in 1 .. n : f[k] = Process(f[k - 1], text[k])
               /\ ProcessAssText(text) = f[n]
  BY TextIsProcessed
<1> DEFINE P == {k \in 0 .. n : f[k] \in Seq(Plain)}
<1>3. 0 \in P
  <2>1. <<>> \in Seq(Plain)
    OBVIOUS
  <2>2. f[0] \in Seq(Plain) /\ 0 \in 0 .. n
    BY <1>1, <1>2, <2>1
  <2> QED
    BY <2>2
<1>4. ASSUME NEW k \in 0 .. n - 1, k \in P PROVE k + 1 \in P
  <2>1. k + 1 \in 1 .. n /\ (k + 1) - 1 = k
    BY <1>1
  <2>2. f[k + 1] = Process(f[k], text[k + 1])
    BY <1>2, <2>1
  <2>3. "newline" \in Plain /\ " " \in Plain
    BY DEF Plain, Token
  <2>4. text[k + 1] \in {"\\N", "\\n", "{tag}"} \/ text[k + 1] \in Plain
    BY <1>1, <2>1 DEF Plain
  <2>5. Process(f[k], text[k + 1]) \in {f[k]} \cup {Append(f[k], c) : c \in Plain}
    BY <2>3, <2>4 DEF Process
  <2>6. \A c \in Plain : Append(f[k], c) \in Seq(Plain)
    BY <1>4
  <2>7. f[k + 1] \in Seq(Plain)
    BY <1>4, <2>2, <2>5, <2>6
  <2> QED
    BY <2>1, <2>7
<1>5. 0 .. n \subseteq P
  <2> HIDE DEF P
  <2> QED
    BY <1>1, <1>3, <1>4, StepByStep
<1> QED
  BY <1>1, <1>2, <1>5

\* A set of numbers up to n with something in it has a first and a last.
LEMMA Extremes ==
  ASSUME NEW n \in Nat, NEW S \in SUBSET (1 .. n), S # {}
  PROVE  /\ Min(S) \in S /\ Max(S) \in S
         /\ \A k \in S : Min(S) <= k /\ k <= Max(S)
<1>1. \E k \in S : \A j \in S : k <= j
  <2>1. S \in SUBSET Nat
    OBVIOUS
  <2> QED
    BY <2>1, LeastNumber
<1>2. \E k \in S : \A j \in S : j <= k
  <2> DEFINE T == {n - k : k \in S}
  <2>1. T \in SUBSET Nat /\ T # {}
    <3>1. \A k \in S : n - k \in Nat
      OBVIOUS
    <3>2. T \subseteq Nat
      BY <3>1
    <3> QED
      BY <3>2
  <2>2. PICK m \in T : \A i \in T : m <= i
    <3> HIDE DEF T
    <3> QED
      BY <2>1, LeastNumber
  <2>3. PICK k \in S : m = n - k
    BY <2>2
  <2>4. \A j \in S : n - k <= n - j
    BY <2>2, <2>3
  <2> QED
    BY <2>3, <2>4
<1> QED
  BY <1>1, <1>2 DEF Min, Max

\* From the first to the last token that is not a space.
Cut(text, a, b) ==
  /\ a \in DOMAIN text /\ b \in DOMAIN text /\ a <= b /\ text[a] # " " /\ text[b] # " "
  /\ \A k \in DOMAIN text : text[k] # " " => a <= k /\ k <= b

LEMMA TrimCuts ==
  ASSUME NEW S, NEW text \in Seq(S)
  PROVE  /\ (\A k \in DOMAIN text : text[k] = " ") => Trim(text) = <<>>
         /\ \A a, b : Cut(text, a, b) => Trim(text) = SubSeq(text, a, b)
         /\ (\E k \in DOMAIN text : text[k] # " ") => \E a, b : Cut(text, a, b)
<1> DEFINE said == {k \in DOMAIN text : text[k] # " "}
<1>1. DOMAIN text = 1 .. Len(text) /\ Len(text) \in Nat /\ said \in SUBSET (1 .. Len(text))
  <2>1. DOMAIN text = 1 .. Len(text) /\ Len(text) \in Nat
    OBVIOUS
  <2>2. said \subseteq 1 .. Len(text)
    BY <2>1
  <2> QED
    BY <2>1, <2>2
<1>2. Trim(text) = IF said = {} THEN <<>> ELSE SubSeq(text, Min(said), Max(said))
  BY DEF Trim
<1>3. ASSUME said # {}
      PROVE  Min(said) \in said /\ Max(said) \in said /\ \A k \in said : Min(said) <= k /\ k <= Max(said)
  <2> HIDE DEF said
  <2> QED
    BY <1>1, <1>3, Extremes
<1>4. ASSUME NEW a, NEW b, Cut(text, a, b) PROVE Trim(text) = SubSeq(text, a, b)
  <2>1. a \in said /\ b \in said /\ \A k \in said : a <= k /\ k <= b
    BY <1>4 DEF Cut
  <2>2. Min(said) \in Nat /\ Max(said) \in Nat /\ a \in Nat /\ b \in Nat
    <3> HIDE DEF said
    <3>1. said \subseteq Nat /\ said # {}
      BY <1>1, <2>1
    <3> QED
      BY <1>3, <2>1, <3>1
  <2>3. Min(said) = a /\ Max(said) = b
    <3> HIDE DEF said
    <3> QED
      BY <1>3, <2>1, <2>2
  <2> HIDE DEF said
  <2> QED
    BY <1>2, <2>1, <2>3
<1>5. ASSUME said # {} PROVE Cut(text, Min(said), Max(said))
  <2>1. Min(said) <= Max(said)
    BY <1>3, <1>5
  <2> DEFINE a == Min(said)
             b == Max(said)
  <2>2. a \in said /\ b \in said /\ \A k \in said : a <= k /\ k <= b
    BY <1>3, <1>5
  <2> HIDE DEF a, b
  <2>3. Cut(text, a, b)
    BY <2>1, <2>2 DEF Cut, a, b
  <2> QED
    BY <2>3 DEF a, b
<1>6. (\E k \in DOMAIN text : text[k] # " ") => said # {}
  OBVIOUS
<1>7. (\A k \in DOMAIN text : text[k] = " ") => said = {}
  OBVIOUS
<1> HIDE DEF said
<1> QED
  BY <1>2, <1>4, <1>5, <1>6, <1>7

\* A text that begins and ends with a word is not cut, and any other is cut to one.
LEMMA TrimmedOnce ==
  ASSUME NEW S, NEW text \in Seq(S)
  PROVE  /\ Trim(text) \in Seq(S)
         /\ Trim(Trim(text)) = Trim(text)
<1>1. DOMAIN text = 1 .. Len(text) /\ Len(text) \in Nat
  OBVIOUS
<1>2. CASE \A k \in DOMAIN text : text[k] = " "
  <2> DEFINE none == <<>>
  <2>1. Trim(text) = none
    BY <1>2, TrimCuts
  <2>2. none \in Seq(S) /\ \A k \in DOMAIN none : none[k] = " "
    OBVIOUS
  <2> HIDE DEF none
  <2>3. Trim(none) = <<>>
    BY <2>2, TrimCuts
  <2> QED
    BY <2>1, <2>2, <2>3 DEF none
<1>3. CASE \E k \in DOMAIN text : text[k] # " "
  <2>1. PICK a, b : Cut(text, a, b)
    BY <1>3, TrimCuts
  <2>2. a \in 1 .. Len(text) /\ b \in 1 .. Len(text) /\ a <= b
    BY <1>1, <2>1 DEF Cut
  <2> DEFINE t == SubSeq(text, a, b)
             m == b - a + 1
  <2>3. Trim(text) = t
    BY <2>1, TrimCuts
  <2>4. a \in Nat /\ b \in Nat /\ m \in Nat /\ 1 <= m
    BY <1>1, <2>2
  <2>5. t \in Seq(S) /\ Len(t) = m /\ DOMAIN t = 1 .. m /\ \A k \in 1 .. m : t[k] = text[a + k - 1]
    BY <1>1, <2>2, <2>4
  <2>6. Cut(t, 1, m)
    <3>1. a + 1 - 1 = a /\ a + m - 1 = b
      BY <2>4
    <3> HIDE DEF t, m
    <3>2. 1 \in 1 .. m /\ m \in 1 .. m
      BY <2>4
    <3>3. t[1] = text[a] /\ t[m] = text[b]
      BY <2>5, <3>1, <3>2
    <3>4. text[a] # " " /\ text[b] # " "
      BY <2>1 DEF Cut
    <3>5. \A k \in 1 .. m : 1 <= k /\ k <= m
      BY <2>4
    <3> QED
      BY <2>4, <2>5, <3>2, <3>3, <3>4, <3>5 DEF Cut
  <2>7. Trim(t) = SubSeq(t, 1, m)
    <3> HIDE DEF t, m
    <3> QED
      BY <2>5, <2>6, TrimCuts
  <2>8. SubSeq(t, 1, m) = t
    <3> HIDE DEF t, m
    <3> QED
      BY <2>5
  <2> QED
    BY <2>3, <2>5, <2>7, <2>8
<1> QED
  BY <1>2, <1>3

\* Spaces are where they were when the newlines are escaped.
LEMMA EscapedIsTrimmedAlike ==
  ASSUME NEW text \in Seq(Plain)
  PROVE  Trim(EscapeAssText(text)) = EscapeAssText(Trim(text))
<1> DEFINE n == Len(text)
           raw == EscapeAssText(text)
<1>1. n \in Nat /\ DOMAIN text = 1 .. n /\ \A k \in 1 .. n : text[k] \in Plain
  OBVIOUS
<1>2. \A k \in 1 .. n : raw[k] = IF text[k] = "newline" THEN "\\N" ELSE text[k]
  BY EscapedIsText
<1>3. raw \in Seq(Token) /\ Len(raw) = n /\ DOMAIN raw = 1 .. n
  BY EscapedIsText
<1> HIDE DEF raw
<1>4. \A k \in 1 .. n : raw[k] = " " <=> text[k] = " "
  BY <1>2
<1>5. CASE \A k \in 1 .. n : text[k] = " "
  <2>1. Trim(text) = <<>> /\ Trim(raw) = <<>>
    BY <1>1, <1>3, <1>4, <1>5, TrimCuts
  <2>2. EscapeAssText(<<>>) = <<>>
    BY DEF EscapeAssText
  <2> QED
    BY <2>1, <2>2 DEF raw
<1>6. CASE \E k \in 1 .. n : text[k] # " "
  <2>1. PICK a, b : Cut(text, a, b)
    BY <1>1, <1>6, TrimCuts
  <2>2. a \in 1 .. n /\ b \in 1 .. n /\ a <= b
    BY <1>1, <2>1 DEF Cut
  <2>3. Cut(raw, a, b)
    BY <1>1, <1>3, <1>4, <2>1 DEF Cut
  <2>4. Trim(text) = SubSeq(text, a, b) /\ Trim(raw) = SubSeq(raw, a, b)
    BY <1>3, <2>1, <2>3, TrimCuts
  <2> DEFINE m == b - a + 1
             t == SubSeq(text, a, b)
             r == SubSeq(raw, a, b)
  <2>5. /\ m \in Nat /\ t \in Seq(Plain) /\ Len(t) = m /\ DOMAIN t = 1 .. m
        /\ \A k \in 1 .. m : t[k] = text[a + k - 1] /\ a + k - 1 \in 1 .. n
    BY <1>1, <2>2
  <2>6. r \in Seq(Token) /\ Len(r) = m /\ \A k \in 1 .. m : r[k] = raw[a + k - 1]
    BY <1>1, <1>3, <2>2
  <2> HIDE DEF t, r, m
  <2>7. EscapeAssText(t) = [k \in 1 .. m |-> IF t[k] = "newline" THEN "\\N" ELSE t[k]]
    BY <2>5 DEF EscapeAssText
  <2>8. \A k \in 1 .. m : r[k] = IF t[k] = "newline" THEN "\\N" ELSE t[k]
    BY <1>2, <2>5, <2>6
  <2>9. r = [k \in 1 .. m |-> r[k]]
    BY <2>5, <2>6
  <2>10. r = EscapeAssText(t)
    BY <2>7, <2>8, <2>9
  <2> QED
    BY <2>4, <2>10 DEF raw, t, r
<1> QED
  BY <1>5, <1>6

\* A text written and read again is the same, but for spaces at its ends.
LEMMA TextComesBack ==
  ASSUME NEW text \in Seq(Plain)
  PROVE  Trim(ProcessAssText(Trim(EscapeAssText(text)))) = Trim(text)
<1>1. Trim(text) \in Seq(Plain) /\ Trim(Trim(text)) = Trim(text)
  BY TrimmedOnce
<1>2. ProcessAssText(EscapeAssText(Trim(text))) = Trim(text)
  BY <1>1, EscapedIsReadBack
<1> QED
  BY <1>1, <1>2, EscapedIsTrimmedAlike

\* A time that was written is read as it was.
LEMMA TimeComesBack ==
  ASSUME NEW n \in Nat
  PROVE  /\ SecondsToAssTime(n) \in Seq(Nat) /\ WellFormed(SecondsToAssTime(n))
         /\ AssTimeToSeconds(SecondsToAssTime(n)) = n
<1> DEFINE h == n \div 360000
           r == n % 360000
           m == r \div 6000
           t == r % 6000
<1>1. h \in Nat /\ r \in Nat /\ n = h * 360000 + r
  BY SMT
<1>2. (n % 6000) = t /\ (n % 100) = (t % 100)
  BY SMT
<1>3. m \in Nat /\ t \in Nat /\ r = m * 6000 + t
  BY SMT
<1>4. t \div 100 \in Nat /\ (t % 100) \in Nat /\ t = (t \div 100) * 100 + (t % 100)
  BY SMT
<1>5. SecondsToAssTime(n) = <<h, m, t \div 100, t % 100>>
  BY <1>2, SMT DEF SecondsToAssTime
<1> DEFINE c == t \div 100
           d == t % 100
<1>6. c \in Nat /\ d \in Nat /\ n = h * 360000 + m * 6000 + c * 100 + d
  BY <1>1, <1>3, <1>4, SMT
<1>7. SecondsToAssTime(n) = <<h, m, c, d>>
  BY <1>5, SMT
<1> DEFINE time == <<h, m, c, d>>
<1>8. h \in Nat /\ m \in Nat
  BY <1>1, <1>3, SMT
<1> HIDE DEF h, r, m, t, c, d
<1>9. time \in Seq(Nat) /\ Len(time) = 4 /\ time[1] = h /\ time[2] = m /\ time[3] = c /\ time[4] = d
  BY <1>6, <1>8, SMT
<1> HIDE DEF time
<1>10. AssTimeToSeconds(time) = n
  BY <1>6, <1>8, <1>9, SMT DEF AssTimeToSeconds
<1> QED
  BY <1>7, <1>9, <1>10, SMT DEF WellFormed, time

-----------------------------------------------------------------------------
(* Lines in order                                                          *)

\* A line as it was read.
DialogueLine == [id : Nat, start : Nat, end : Nat, text : Seq(Plain)]
Numbered(lines) == \A i, j \in DOMAIN lines : lines[i].id = lines[j].id => i = j
Sorts(lines, q) == \A i, j \in DOMAIN lines : i < j => Before(lines[q[i]], lines[q[j]])

\* Of some lines with numbers of their own one comes before the others.
LEMMA FirstLine ==
  ASSUME NEW lines \in Seq(DialogueLine), Numbered(lines), NEW T \in SUBSET DOMAIN lines, T # {}
  PROVE  \E t \in T : \A k \in T \ {t} : Before(lines[t], lines[k])
<1>1. \A k \in DOMAIN lines : lines[k].start \in Nat /\ lines[k].id \in Nat
  <2>1. \A k \in DOMAIN lines : lines[k] \in DialogueLine
    OBVIOUS
  <2> QED
    BY <2>1 DEF DialogueLine
<1> DEFINE starts == {lines[k].start : k \in T}
<1>2. starts \in SUBSET Nat /\ starts # {}
  BY <1>1
<1>3. PICK s \in starts : \A u \in starts : s <= u
  <2> HIDE DEF starts
  <2> QED
    BY <1>2, LeastNumber
<1> DEFINE ids == {lines[k].id : k \in {j \in T : lines[j].start = s}}
<1>4. ids \in SUBSET Nat /\ ids # {}
  BY <1>1, <1>3
<1>5. PICK d \in ids : \A e \in ids : d <= e
  <2> HIDE DEF ids
  <2> QED
    BY <1>4, LeastNumber
<1>6. PICK t \in T : lines[t].start = s /\ lines[t].id = d
  BY <1>5
<1>7. ASSUME NEW k \in T \ {t} PROVE Before(lines[t], lines[k])
  <2>1. lines[t].start <= lines[k].start
    BY <1>3, <1>6
  <2>2. ASSUME lines[k].start = lines[t].start PROVE lines[t].id < lines[k].id
    <3>1. lines[k].id \in ids
      BY <1>6, <2>2
    <3>2. lines[t].id <= lines[k].id
      BY <1>5, <1>6, <3>1
    <3>3. lines[t].id # lines[k].id
      BY <1>7 DEF Numbered
    <3> QED
      BY <1>1, <1>7, <3>2, <3>3
  <2> QED
    BY <1>1, <1>7, <2>1, <2>2 DEF Before
<1> QED
  BY <1>7

\* Lines with numbers of their own have an order (the sort of parseASS).
LEMMA LinesHaveOrder ==
  ASSUME NEW lines \in Seq(DialogueLine), Numbered(lines)
  PROVE  \E q \in Bijection(DOMAIN lines, DOMAIN lines) : Sorts(lines, q)
<1> DEFINE D == DOMAIN lines
           N == Len(lines)
           Rises(o) == \A i, k \in DOMAIN o : i < k => Before(lines[o[i]], lines[o[k]])
           Onto(o, T) == \A x \in T : \E i \in DOMAIN o : o[i] = x
           Ordered(T) == \E o \in [1 .. Cardinality(T) -> T] : Rises(o) /\ Onto(o, T)
           Bad == {Cardinality(T) : T \in {T \in SUBSET D : ~Ordered(T)}}
<1>1. D = 1 .. N /\ N \in Nat /\ IsFiniteSet(D) /\ Cardinality(D) = N
  <2>1. D = 1 .. N /\ N \in Nat
    OBVIOUS
  <2>2. 1 \in Int /\ N \in Int
    BY <2>1
  <2>3. IsFiniteSet(1 .. N) /\ Cardinality(1 .. N) = IF 1 > N THEN 0 ELSE N - 1 + 1
    BY <2>2, FS_Interval
  <2> QED
    BY <2>1, <2>3
<1>2. \A T \in SUBSET D : IsFiniteSet(T) /\ Cardinality(T) \in Nat
  BY <1>1, FS_Subset, FS_CardinalityType
<1>3. ASSUME Bad # {} PROVE FALSE
  <2>1. PICK n \in Bad : \A m \in Bad : n <= m
    <3>1. Bad \in SUBSET Nat
      BY <1>2
    <3> HIDE DEF Bad
    <3> QED
      BY <1>3, <3>1, LeastNumber
  <2>2. PICK T \in SUBSET D : ~Ordered(T) /\ n = Cardinality(T)
    BY <2>1
  <2>3. T # {}
    <3> SUFFICES ASSUME T = {} PROVE FALSE
      OBVIOUS
    <3>1. Cardinality(T) = 0
      BY FS_EmptySet
    <3> DEFINE none == [i \in 1 .. 0 |-> 0]
    <3>2. none \in [1 .. Cardinality(T) -> T] /\ Rises(none) /\ Onto(none, T)
      BY <3>1
    <3> QED
      BY <2>2, <3>2
  <2>4. PICK t \in T : \A k \in T \ {t} : Before(lines[t], lines[k])
    BY <2>3, FirstLine
  <2> DEFINE R == T \ {t}
  <2>5. IsFiniteSet(R) /\ Cardinality(R) = n - 1 /\ n \in Nat /\ n >= 1
    BY <1>2, <2>2, <2>3, <2>4, FS_RemoveElement, FS_EmptySet, FS_CardinalityType
  <2>6. Ordered(R)
    <3>1. R \in SUBSET D /\ ~(n <= Cardinality(R))
      BY <2>5
    <3> HIDE DEF Ordered
    <3> QED
      BY <2>1, <3>1
  <2>7. PICK o \in [1 .. n - 1 -> R] : Rises(o) /\ Onto(o, R)
    BY <2>5, <2>6
  <2> DEFINE longer == [i \in 1 .. n |-> IF i = 1 THEN t ELSE o[i - 1]]
  <2>8. longer \in [1 .. n -> T]
    BY <2>5, <2>7
  <2>9. ASSUME NEW i \in 1 .. n, NEW k \in 1 .. n, i < k PROVE Before(lines[longer[i]], lines[longer[k]])
    <3>1. k - 1 \in 1 .. n - 1 /\ longer[k] = o[k - 1] /\ o[k - 1] \in R
      BY <2>5, <2>7, <2>9
    <3>2. CASE i = 1
      BY <2>4, <3>1, <3>2
    <3>3. CASE i > 1
      <4>1. i - 1 \in 1 .. n - 1 /\ i - 1 < k - 1 /\ longer[i] = o[i - 1]
        BY <2>5, <2>9, <3>3
      <4>2. DOMAIN o = 1 .. n - 1
        BY <2>7
      <4>3. Before(lines[o[i - 1]], lines[o[k - 1]])
        BY <2>7, <3>1, <4>1, <4>2
      <4> QED
        BY <3>1, <4>1, <4>3
    <3> QED
      BY <3>2, <3>3
  <2>10. Onto(longer, T)
    <3> SUFFICES ASSUME NEW x \in T PROVE \E i \in 1 .. n : longer[i] = x
      OBVIOUS
    <3>1. CASE x = t
      <4>1. 1 \in 1 .. n /\ longer[1] = t
        BY <2>5
      <4> QED
        BY <3>1, <4>1
    <3>2. CASE x # t
      <4>1. PICK i \in 1 .. n - 1 : o[i] = x
        BY <2>7, <3>2
      <4>2. i + 1 \in 1 .. n /\ longer[i + 1] = x
        BY <2>5, <4>1
      <4> QED
        BY <4>2
    <3> QED
      BY <3>1, <3>2
  <2>11. longer \in [1 .. Cardinality(T) -> T] /\ Rises(longer)
    BY <2>2, <2>8, <2>9
  <2> HIDE DEF longer, Rises, Onto
  <2> QED
    BY <2>2, <2>10, <2>11
<1>4. Ordered(D)
  <2> HIDE DEF Ordered
  <2> QED
    BY <1>3
<1>5. PICK o \in [D -> D] : Rises(o) /\ Onto(o, D)
  BY <1>1, <1>4
<1>6. ASSUME NEW i \in D, NEW k \in D, o[i] = o[k] PROVE i = k
  <2>1. ~Before(lines[o[i]], lines[o[k]]) /\ ~Before(lines[o[k]], lines[o[i]])
    <3>1. lines[o[i]] \in DialogueLine
      BY <1>1
    <3>2. lines[o[i]].start \in Nat /\ lines[o[i]].id \in Nat
      BY <3>1 DEF DialogueLine
    <3> QED
      BY <1>6, <3>2 DEF Before
  <2>2. ~(i < k) /\ ~(k < i)
    BY <1>5, <2>1
  <2> QED
    BY <1>1, <2>2
<1>7. o \in Bijection(D, D)
  BY <1>5, <1>6 DEF Bijection, Injection, Surjection, IsInjective
<1> QED
  BY <1>5, <1>7 DEF Sorts

LEMMA LinesAreSorted ==
  ASSUME NEW lines \in Seq(DialogueLine), Numbered(lines)
  PROVE  \E q \in Bijection(DOMAIN lines, DOMAIN lines) :
           Sorts(lines, q) /\ ByStart(lines) = [k \in DOMAIN lines |-> lines[q[k]]]
<1> DEFINE D == DOMAIN lines
           Good(q) == \A i, j \in D : i < j => Before(lines[q[i]], lines[q[j]])
           turn == CHOOSE q \in Bijection(D, D) : Good(q)
<1>1. \E q \in Bijection(D, D) : Good(q)
  BY LinesHaveOrder DEF Sorts
<1>2. turn \in Bijection(D, D) /\ Good(turn)
  <2> HIDE DEF Good
  <2> QED
    BY <1>1
<1>3. ByStart(lines) = [k \in D |-> lines[turn[k]]]
  BY DEF ByStart
<1> HIDE DEF turn
<1> QED
  BY <1>2, <1>3 DEF Sorts

LEMMA SortedLinesAreLines ==
  ASSUME NEW lines \in Seq(DialogueLine), Numbered(lines)
  PROVE  /\ ByStart(lines) \in Seq(DialogueLine) /\ Len(ByStart(lines)) = Len(lines) /\ Numbered(ByStart(lines))
         /\ \A i, j \in DOMAIN lines : i < j => ByStart(lines)[i].start <= ByStart(lines)[j].start
<1> DEFINE N == Len(lines)
           sorted == ByStart(lines)
<1>1. N \in Nat /\ DOMAIN lines = 1 .. N /\ \A k \in 1 .. N : lines[k] \in DialogueLine
  OBVIOUS
<1>2. PICK q \in Bijection(1 .. N, 1 .. N) : Sorts(lines, q) /\ sorted = [k \in 1 .. N |-> lines[q[k]]]
  BY <1>1, LinesAreSorted
<1>3. q \in [1 .. N -> 1 .. N]
  BY <1>2 DEF Bijection, Injection
<1>4. \A k \in 1 .. N : sorted[k] = lines[q[k]] /\ sorted[k] \in DialogueLine
  BY <1>1, <1>2, <1>3
<1>5. sorted \in [1 .. N -> DialogueLine]
  BY <1>2, <1>4
<1>6. ASSUME NEW i \in 1 .. N, NEW j \in 1 .. N, i < j PROVE sorted[i].start <= sorted[j].start
  <2>1. Before(sorted[i], sorted[j])
    BY <1>1, <1>2, <1>4, <1>6 DEF Sorts
  <2>2. sorted[i].start \in Nat /\ sorted[j].start \in Nat
    BY <1>4 DEF DialogueLine
  <2> QED
    BY <2>1, <2>2 DEF Before
<1>n. ASSUME NEW i \in 1 .. N, NEW j \in 1 .. N, sorted[i].id = sorted[j].id PROVE i = j
  <2>1. q[i] = q[j]
    BY <1>1, <1>3, <1>4, <1>n DEF Numbered
  <2>2. \A x, y \in 1 .. N : q[x] = q[y] => x = y
    BY <1>2 DEF Bijection, Injection, IsInjective
  <2> QED
    BY <2>1, <2>2
<1> HIDE DEF sorted
<1>7. sorted \in Seq(DialogueLine) /\ Len(sorted) = N
  BY <1>1, <1>5
<1>8. Numbered(sorted)
  BY <1>n, <1>7 DEF Numbered
<1> QED
  BY <1>1, <1>6, <1>7, <1>8 DEF sorted

\* A rising arrangement of the numbers up to N leaves each at its place.
LEMMA RisingIsIdentity ==
  ASSUME NEW N \in Nat, NEW t \in Bijection(1 .. N, 1 .. N),
         \A i, j \in 1 .. N : i < j => t[i] <= t[j]
  PROVE  t = [i \in 1 .. N |-> i]
<1>1. t \in [1 .. N -> 1 .. N] /\ (\A i, j \in 1 .. N : t[i] = t[j] => i = j) /\ \A p \in 1 .. N : \E i \in 1 .. N : t[i] = p
  BY DEF Bijection, Injection, Surjection, IsInjective
<1>2. ASSUME NEW i \in 1 .. N, t[i] # i PROVE FALSE
  <2> DEFINE Moved == {k \in 1 .. N : t[k] # k}
  <2>1. Moved \in SUBSET Nat /\ Moved # {}
    BY <1>2
  <2>2. PICK m \in Moved : \A k \in Moved : m <= k
    <3> HIDE DEF Moved
    <3> QED
      BY <2>1, LeastNumber
  <2>3. \A k \in 1 .. N : k < m => t[k] = k
    BY <2>1, <2>2
  <2>4. t[m] \in 1 .. N /\ m \in 1 .. N /\ t[m] # m
    BY <1>1
  <2>5. ~(t[m] < m)
    BY <1>1, <2>3, <2>4
  <2>6. PICK k \in 1 .. N : t[k] = m
    BY <1>1, <2>4
  <2>7. k # m /\ ~(k < m)
    BY <2>3, <2>4, <2>6
  <2>8. t[m] <= t[k]
    BY <2>4, <2>7
  <2> QED
    BY <2>4, <2>5, <2>6, <2>8
<1> QED
  BY <1>1, <1>2

\* Lines that are in order stay where they are.
LEMMA OrderedLinesStay ==
  ASSUME NEW lines \in Seq(DialogueLine), Numbered(lines),
         \A i, j \in DOMAIN lines : i < j => Before(lines[i], lines[j])
  PROVE  ByStart(lines) = lines
<1> DEFINE N == Len(lines)
<1>1. N \in Nat /\ DOMAIN lines = 1 .. N /\ \A k \in 1 .. N : lines[k] \in DialogueLine
  OBVIOUS
<1>2. PICK q \in Bijection(1 .. N, 1 .. N) : Sorts(lines, q) /\ ByStart(lines) = [k \in 1 .. N |-> lines[q[k]]]
  BY <1>1, LinesAreSorted
<1>3. q \in [1 .. N -> 1 .. N]
  BY <1>2 DEF Bijection, Injection
<1>4. ASSUME NEW i \in 1 .. N, NEW j \in 1 .. N, i < j PROVE q[i] <= q[j]
  <2>1. Before(lines[q[i]], lines[q[j]])
    BY <1>1, <1>2, <1>4 DEF Sorts
  <2>2. q[i] \in 1 .. N /\ q[j] \in 1 .. N
    BY <1>3
  <2>3. ASSUME q[j] < q[i] PROVE FALSE
    <3>1. Before(lines[q[j]], lines[q[i]])
      BY <1>1, <2>2, <2>3
    <3>2. /\ lines[q[i]].start \in Nat /\ lines[q[j]].start \in Nat
          /\ lines[q[i]].id \in Nat /\ lines[q[j]].id \in Nat
      BY <1>1, <2>2 DEF DialogueLine
    <3> QED
      BY <2>1, <3>1, <3>2 DEF Before
  <2> QED
    BY <1>1, <2>2, <2>3
<1>5. q = [i \in 1 .. N |-> i]
  BY <1>1, <1>4, RisingIsIdentity
<1>6. ByStart(lines) = [k \in 1 .. N |-> lines[k]]
  BY <1>2, <1>5
<1>7. lines = [k \in 1 .. N |-> lines[k]]
  BY <1>1
<1> QED
  BY <1>6, <1>7

-----------------------------------------------------------------------------
(* Reading                                                                 *)

\* Lines as they may stand in a file, written by hand or by generateASS.
Section == STRING \cup {"none", "script info", "styles", "events"}
Styled == [kind : {"style"}, complete : BOOLEAN, name : STRING]
Spoken == [kind : {"dialogue"}, complete : BOOLEAN, start : Seq(Nat), end : Seq(Nat), text : Seq(Token)]
Key == STRING \cup {"style", "dialogue", "Format"}
Value == STRING \cup {"styles", "events"} \cup Styled \cup Spoken
Headers == [kind : {"header"}, section : Section]
Pairs == [kind : {"pair"}, key : Key, value : Value]
AnyLine == Headers \cup Pairs \cup Styled \cup Spoken

Entry == [key : Key, value : Value]
KeysApart(info) == \A i, j \in DOMAIN info : info[i].key = info[j].key => i = j

\* What has been read of a file.
HalfRead ==
  {st \in [valid : BOOLEAN, section : Section, index : Nat, info : Seq(Entry),
           styles : Seq(STRING), lines : Seq(DialogueLine)] :
     KeysApart(st.info) /\ Numbered(st.lines) /\ \A k \in DOMAIN st.lines : st.lines[k].id < st.index}

LEMMA RawLinesAreLines == RawLine \subseteq AnyLine
<1> SUFFICES ASSUME NEW line \in RawLine PROVE line \in AnyLine
  OBVIOUS
<1>1. CASE line \in [kind : {"header"}, section : STRING]
  BY <1>1 DEF AnyLine, Headers, Section
<1>2. CASE line \in [kind : {"pair"}, key : STRING, value : STRING]
  BY <1>2 DEF AnyLine, Pairs, Key, Value
<1>3. CASE line \in Styled
  BY <1>3 DEF AnyLine
<1>4. CASE line \in Spoken
  BY <1>4 DEF AnyLine
<1> QED
  BY <1>1, <1>2, <1>3, <1>4 DEF RawLine, Styled, Spoken

\* An entry takes the place of the one of its key, and there is one of each.
LEMMA EnteredOnce ==
  ASSUME NEW info \in Seq(Entry), KeysApart(info), NEW e \in Entry
  PROVE  /\ Entered(info, e) \in Seq(Entry) /\ KeysApart(Entered(info, e))
         /\ (\A k \in DOMAIN info : info[k].key # e.key) => Entered(info, e) = Append(info, e)
<1> DEFINE n == Len(info)
           there == \E k \in DOMAIN info : info[k].key = e.key
<1>1. n \in Nat /\ DOMAIN info = 1 .. n /\ \A k \in 1 .. n : info[k] \in Entry
  OBVIOUS
<1>2. CASE there
  <2> DEFINE after == [k \in 1 .. n |-> IF info[k].key = e.key THEN e ELSE info[k]]
  <2>1. Entered(info, e) = after
    BY <1>1, <1>2 DEF Entered
  <2>2. \A k \in 1 .. n : after[k] \in Entry /\ after[k].key = info[k].key
    BY <1>1
  <2>3. after \in [1 .. n -> Entry] /\ DOMAIN after = 1 .. n
    BY <2>2
  <2> HIDE DEF after
  <2>4. after \in Seq(Entry)
    BY <1>1, <2>3
  <2>5. KeysApart(after)
    BY <1>1, <2>2, <2>3 DEF KeysApart
  <2> QED
    BY <1>2, <2>1, <2>4, <2>5
<1>3. CASE ~there
  <2> DEFINE after == Append(info, e)
  <2>1. Entered(info, e) = after
    BY <1>3 DEF Entered
  <2>2. /\ after \in Seq(Entry) /\ DOMAIN after = 1 .. n + 1 /\ after[n + 1] = e
        /\ \A k \in 1 .. n : after[k] = info[k]
    BY <1>1
  <2> HIDE DEF after
  <2>3. ASSUME NEW i \in 1 .. n + 1, NEW j \in 1 .. n + 1, after[i].key = after[j].key PROVE i = j
    <3>1. \A k \in 1 .. n : after[k].key = info[k].key /\ info[k].key # e.key
      BY <1>1, <1>3, <2>2
    <3>2. CASE i \in 1 .. n /\ j \in 1 .. n
      BY <1>1, <2>3, <3>1, <3>2 DEF KeysApart
    <3>3. CASE i = n + 1 /\ j = n + 1
      BY <3>3
    <3>4. CASE i = n + 1 /\ j \in 1 .. n
      BY <2>2, <2>3, <3>1, <3>4
    <3>5. CASE i \in 1 .. n /\ j = n + 1
      BY <2>2, <2>3, <3>1, <3>5
    <3> QED
      BY <1>1, <3>2, <3>3, <3>4, <3>5
  <2>4. KeysApart(after)
    BY <2>2, <2>3 DEF KeysApart
  <2> QED
    BY <2>1, <2>2, <2>4 DEF after
<1> QED
  BY <1>2, <1>3

\* Whatever the line is, what has been read stays well-formed.
LEMMA ReadingGoesOn ==
  ASSUME NEW st \in HalfRead, NEW line \in AnyLine
  PROVE  ReadLine(st, line) \in HalfRead
<1>1. /\ st \in [valid : BOOLEAN, section : Section, index : Nat, info : Seq(Entry),
                 styles : Seq(STRING), lines : Seq(DialogueLine)]
      /\ KeysApart(st.info) /\ Numbered(st.lines) /\ \A k \in DOMAIN st.lines : st.lines[k].id < st.index
  BY DEF HalfRead
<1>2. st.info \in Seq(Entry) /\ st.styles \in Seq(STRING) /\ st.lines \in Seq(DialogueLine) /\ st.index \in Nat
  BY <1>1
<1>3. CASE line.kind = "header"
  <2>1. line.section \in Section
    BY <1>3 DEF AnyLine, Headers, Pairs, Styled, Spoken
  <2>2. ReadLine(st, line) = [st EXCEPT !.section = line.section]
    BY <1>3 DEF ReadLine, ReadHeader
  <2> QED
    BY <1>1, <2>1, <2>2 DEF HalfRead
<1>4. CASE line.kind # "header" /\ st.section = "script info"
  <2> DEFINE e == ParseScriptInfoLine(line)
             info == Entered(st.info, e)
  <2>1. e \in Entry
    BY <1>4 DEF ParseScriptInfoLine, Entry, AnyLine, Headers, Pairs, Styled, Spoken, Key, Value
  <2>2. info \in Seq(Entry) /\ KeysApart(info)
    <3> HIDE DEF e
    <3> QED
      BY <1>1, <1>2, <2>1, EnteredOnce
  <2>3. ReadLine(st, line) = [st EXCEPT !.info = info]
    BY <1>4 DEF ReadLine, ReadPair
  <2> HIDE DEF info
  <2> QED
    BY <1>1, <2>2, <2>3 DEF HalfRead
<1>5. CASE line.kind = "style" /\ st.section = "styles"
  <2>1. line.name \in STRING
    BY <1>5 DEF AnyLine, Headers, Pairs, Styled, Spoken
  <2>2. ReadLine(st, line) = IF line.complete THEN [st EXCEPT !.styles = Append(@, line.name)] ELSE st
    BY <1>5 DEF ReadLine, ReadStyle
  <2>3. Append(st.styles, line.name) \in Seq(STRING)
    BY <1>2, <2>1
  <2> QED
    BY <1>1, <2>2, <2>3 DEF HalfRead
<1>6. CASE line.kind = "dialogue" /\ st.section = "events"
  <2>1. line \in Spoken
    BY <1>6 DEF AnyLine, Headers, Pairs, Styled
  <2> DEFINE next == [st EXCEPT !.index = @ + 1]
             new == ParseDialogueLine(line, st.index)
             lines == Append(st.lines, new)
  <2>2. ReadLine(st, line) =
          IF ~line.complete THEN next
          ELSE IF ~WellFormed(line.start) \/ ~WellFormed(line.end) THEN [next EXCEPT !.valid = FALSE]
          ELSE [next EXCEPT !.lines = Append(@, new)]
    BY <1>6 DEF ReadLine, ReadDialogue
  <2> DEFINE State == [valid : BOOLEAN, section : Section, index : Nat, info : Seq(Entry),
                       styles : Seq(STRING), lines : Seq(DialogueLine)]
  <2>3. /\ next \in State /\ next.info = st.info /\ next.lines = st.lines /\ next.index = st.index + 1
        /\ \A k \in DOMAIN st.lines : st.lines[k].id < st.index + 1
    <3>1. \A k \in DOMAIN st.lines : st.lines[k].id \in Nat
      <4>1. \A k \in DOMAIN st.lines : st.lines[k] \in DialogueLine
        BY <1>2
      <4> QED
        BY <4>1 DEF DialogueLine
    <3>2. \A k \in DOMAIN st.lines : st.lines[k].id < st.index + 1
      BY <1>1, <1>2, <3>1
    <3>3. st \in State /\ st.index + 1 \in Nat
      BY <1>1, <1>2
    <3>4. next \in State
      BY <3>3
    <3>5. next.info = st.info /\ next.lines = st.lines /\ next.index = st.index + 1
      BY <3>3
    <3> QED
      BY <3>2, <3>4, <3>5
  <2> HIDE DEF next
  <2>4. next \in HalfRead /\ [next EXCEPT !.valid = FALSE] \in HalfRead
    BY <1>1, <2>3 DEF HalfRead
  <2>5. ASSUME WellFormed(line.start), WellFormed(line.end) PROVE [next EXCEPT !.lines = Append(@, new)] \in HalfRead
    <3>1. new \in DialogueLine /\ new.id = st.index
      <4>1. line.start \in Seq(Nat) /\ line.end \in Seq(Nat) /\ line.text \in Seq(Token)
        BY <2>1 DEF Spoken
      <4>2. AssTimeToSeconds(line.start) \in Nat /\ AssTimeToSeconds(line.end) \in Nat
        <5>1. ASSUME NEW t \in Seq(Nat), Len(t) = 4 PROVE AssTimeToSeconds(t) \in Nat
          <6>1. \A a, b, c, d \in Nat : a * 360000 + b * 6000 + c * 100 + d \in Nat
            BY SMT
          <6>2. 1 \in 1 .. Len(t) /\ 2 \in 1 .. Len(t) /\ 3 \in 1 .. Len(t) /\ 4 \in 1 .. Len(t)
            BY <5>1
          <6>3. t[1] \in Nat /\ t[2] \in Nat /\ t[3] \in Nat /\ t[4] \in Nat
            BY <6>2, ElementOfSeq
          <6> DEFINE a == t[1]
                     b == t[2]
                     c == t[3]
                     d == t[4]
          <6>4. AssTimeToSeconds(t) = a * 360000 + b * 6000 + c * 100 + d
            BY SMT DEF AssTimeToSeconds
          <6> HIDE DEF a, b, c, d
          <6>5. a \in Nat /\ b \in Nat /\ c \in Nat /\ d \in Nat
            BY <6>3 DEF a, b, c, d
          <6> QED
            BY <6>1, <6>4, <6>5, SMT
        <5> QED
          BY <2>5, <4>1, <5>1 DEF WellFormed
      <4>3. ProcessAssText(Trim(line.text)) \in Seq(Plain)
        BY <4>1, TrimmedOnce, ReadIsPlain
      <4> QED
        BY <1>2, <4>2, <4>3 DEF ParseDialogueLine, DialogueLine
    <3> DEFINE n == Len(st.lines)
    <3>2. n \in Nat /\ DOMAIN st.lines = 1 .. n /\ \A k \in 1 .. n : st.lines[k] \in DialogueLine
      BY <1>2
    <3> HIDE DEF new
    <3>3. /\ lines \in Seq(DialogueLine) /\ DOMAIN lines = 1 .. n + 1 /\ lines[n + 1] = new
          /\ \A k \in 1 .. n : lines[k] = st.lines[k]
      BY <1>2, <3>1, <3>2
    <3> HIDE DEF lines
    <3>4. \A k \in 1 .. n : lines[k].id < st.index /\ lines[k].id \in Nat
      BY <1>1, <3>2, <3>3 DEF DialogueLine
    <3>5. \A k \in DOMAIN lines : lines[k].id < st.index + 1
      <4>1. \A k \in 1 .. n + 1 : k \in 1 .. n \/ k = n + 1
        BY <3>2
      <4> QED
        BY <1>2, <3>1, <3>3, <3>4, <4>1
    <3>6. Numbered(lines)
      <4> SUFFICES ASSUME NEW i \in 1 .. n + 1, NEW j \in 1 .. n + 1, lines[i].id = lines[j].id PROVE i = j
        BY <3>3 DEF Numbered
      <4>1. CASE i \in 1 .. n /\ j \in 1 .. n
        BY <1>1, <3>2, <3>3, <4>1 DEF Numbered
      <4>2. CASE i = n + 1 /\ j = n + 1
        BY <4>2
      <4>3. CASE i = n + 1 /\ j \in 1 .. n
        BY <1>2, <3>1, <3>3, <3>4, <4>3
      <4>4. CASE i \in 1 .. n /\ j = n + 1
        BY <1>2, <3>1, <3>3, <3>4, <4>4
      <4> QED
        BY <3>2, <4>1, <4>2, <4>3, <4>4
    <3>7. [next EXCEPT !.lines = Append(@, new)] = [next EXCEPT !.lines = lines]
      BY <2>3 DEF lines
    <3> DEFINE after == [next EXCEPT !.lines = lines]
    <3>8. after \in State /\ after.info = st.info /\ after.lines = lines /\ after.index = st.index + 1
      BY <2>3, <3>3
    <3> HIDE DEF after
    <3>9. after \in HalfRead
      BY <1>1, <3>5, <3>6, <3>8 DEF HalfRead
    <3> QED
      BY <3>7, <3>9 DEF after
  <2> HIDE DEF new
  <2> QED
    BY <2>2, <2>4, <2>5
<1>7. CASE /\ line.kind # "header" /\ st.section # "script info"
           /\ ~(line.kind = "style" /\ st.section = "styles")
           /\ ~(line.kind = "dialogue" /\ st.section = "events")
  <2>1. ReadLine(st, line) = st
    BY <1>7 DEF ReadLine
  <2> QED
    BY <2>1
<1> QED
  BY <1>3, <1>4, <1>5, <1>6, <1>7

\* A file is read line by line, until a time is none.
LEMMA FileIsRead ==
  ASSUME NEW written \in Seq(AnyLine)
  PROVE  \E f :
           /\ f[0] = BlankFile
           /\ \A k \in 1 .. Len(written) :
                f[k] = IF f[k - 1].valid THEN ReadLine(f[k - 1], written[k]) ELSE f[k - 1]
           /\ \A k \in 0 .. Len(written) : f[k] \in HalfRead
           /\ ParseASS(written) = [valid |-> f[Len(written)].valid, info |-> f[Len(written)].info,
                                   styles |-> f[Len(written)].styles, lines |-> ByStart(f[Len(written)].lines)]
<1> DEFINE n == Len(written)
           Step(st, k) == IF st.valid THEN ReadLine(st, written[k]) ELSE st
           step == [st \in HalfRead |-> [k \in 0 .. n |-> IF k = 0 THEN st ELSE Step(st, k)]]
           Read(f, k) == IF k = 0 THEN BlankFile ELSE Step(f[k - 1], k)
           read == CHOOSE g : g = [k \in 0 .. n |-> Read(g, k)]
<1>1. n \in Nat /\ 0 <= n /\ 0 \in Nat /\ \A k \in 1 .. n : written[k] \in AnyLine
  OBVIOUS
<1>2. BlankFile \in HalfRead
  <2>1. <<>> \in Seq(Entry) /\ <<>> \in Seq(STRING) /\ <<>> \in Seq(DialogueLine) /\ DOMAIN <<>> = {}
    OBVIOUS
  <2>2. "none" \in Section
    BY DEF Section
  <2> QED
    BY <2>1, <2>2 DEF BlankFile, HalfRead, KeysApart, Numbered
<1>3. ASSUME NEW st \in HalfRead, NEW k \in 1 .. n PROVE Step(st, k) \in HalfRead
  BY <1>1, <1>3, ReadingGoesOn
<1>4. step \in [HalfRead -> [0 .. n -> HalfRead]]
  <2> HIDE DEF Step
  <2> QED
    BY <1>3
<1>5. PICK f \in [0 .. n -> HalfRead] : Follows(f, 0, n, BlankFile, step)
  <2> HIDE DEF step, n
  <2> QED
    BY <1>1, <1>2, <1>4, RecursionIsDefined
<1>6. f = [k \in 0 .. n |-> Read(f, k)]
  <2>1. ASSUME NEW k \in 0 .. n PROVE f[k] = Read(f, k)
    <3>1. CASE k # 0
      <4>1. k - 1 \in 0 .. n
        BY <1>1, <3>1
      <4>2. f[k - 1] \in HalfRead
        BY <4>1
      <4>3. f[k] = step[f[k - 1]][k]
        BY <1>5, <3>1 DEF Follows
      <4> HIDE DEF Step
      <4> QED
        BY <3>1, <4>2, <4>3
    <3> QED
      BY <1>5, <3>1 DEF Follows
  <2> HIDE DEF Read
  <2> QED
    BY <2>1
<1>7. read = [k \in 0 .. n |-> Read(read, k)]
  BY <1>6
<1>8. ParseASS(written) = [valid |-> read[n].valid, info |-> read[n].info, styles |-> read[n].styles,
                           lines |-> ByStart(read[n].lines)]
  BY DEF ParseASS
<1>9. read[0] = BlankFile /\ \A k \in 1 .. n : read[k] = Step(read[k - 1], k)
  <2>1. \A k \in 0 .. n : read[k] = Read(read, k)
    <3> HIDE DEF read, Read
    <3> QED
      BY <1>7
  <2> HIDE DEF read, Step
  <2> QED
    BY <1>1, <2>1
<1> HIDE DEF read
<1> DEFINE P == {k \in 0 .. n : read[k] \in HalfRead}
<1>10. 0 \in P
  BY <1>1, <1>2, <1>9
<1>11. ASSUME NEW k \in 0 .. n - 1, k \in P PROVE k + 1 \in P
  <2>1. k + 1 \in 1 .. n /\ (k + 1) - 1 = k
    BY <1>1
  <2>2. read[k + 1] = Step(read[k], k + 1)
    BY <1>9, <2>1
  <2>3. Step(read[k], k + 1) \in HalfRead
    BY <1>3, <1>11, <2>1
  <2> QED
    BY <2>1, <2>2, <2>3
<1>12. 0 .. n \subseteq P
  <2> HIDE DEF P
  <2> QED
    BY <1>1, <1>10, <1>11, StepByStep
<1>13. \A k \in 0 .. n : read[k] \in HalfRead
  BY <1>12
<1> QED
  BY <1>8, <1>9, <1>13

\* What is read of a file: keys once each, texts without what the parser would read
\* otherwise, and the lines in order.
LEMMA WhatIsRead ==
  ASSUME NEW written \in Seq(AnyLine)
  PROVE  LET r == ParseASS(written) IN
         /\ r.valid \in BOOLEAN /\ r.info \in Seq(Entry) /\ KeysApart(r.info) /\ r.styles \in Seq(STRING)
         /\ r.lines \in Seq(DialogueLine) /\ Numbered(r.lines)
         /\ \A i, j \in DOMAIN r.lines : i < j => r.lines[i].start <= r.lines[j].start
<1>1. PICK st \in HalfRead : ParseASS(written) = [valid |-> st.valid, info |-> st.info,
                                                 styles |-> st.styles, lines |-> ByStart(st.lines)]
  <2>1. Len(written) \in 0 .. Len(written)
    OBVIOUS
  <2> QED
    BY <2>1, FileIsRead
<1>2. /\ st.valid \in BOOLEAN /\ st.info \in Seq(Entry) /\ st.styles \in Seq(STRING) /\ st.lines \in Seq(DialogueLine)
      /\ KeysApart(st.info) /\ Numbered(st.lines)
  BY DEF HalfRead
<1> DEFINE sorted == ByStart(st.lines)
<1>3. /\ sorted \in Seq(DialogueLine) /\ Len(sorted) = Len(st.lines) /\ Numbered(sorted)
      /\ \A i, j \in DOMAIN st.lines : i < j => sorted[i].start <= sorted[j].start
  BY <1>2, SortedLinesAreLines
<1> HIDE DEF sorted
<1>4. DOMAIN sorted = DOMAIN st.lines
  BY <1>2, <1>3
<1> QED
  BY <1>1, <1>2, <1>3, <1>4 DEF sorted

-----------------------------------------------------------------------------
(* Writing and reading again                                               *)

LEMMA JoinedLines ==
  ASSUME NEW S, NEW x \in Seq(S), NEW y \in Seq(S)
  PROVE  /\ x \o y \in Seq(S) /\ Len(x \o y) = Len(x) + Len(y)
         /\ \A k \in 1 .. Len(x) : (x \o y)[k] = x[k]
         /\ \A k \in 1 .. Len(y) : (x \o y)[Len(x) + k] = y[k]
<1>1. x \o y \in Seq(S) /\ Len(x \o y) = Len(x) + Len(y) /\ Len(x) \in Nat /\ Len(y) \in Nat
  OBVIOUS
<1>2. \A k \in 1 .. Len(x) + Len(y) : (x \o y)[k] = IF k <= Len(x) THEN x[k] ELSE y[k - Len(x)]
  OBVIOUS
<1>3. ASSUME NEW k \in 1 .. Len(y) PROVE (x \o y)[Len(x) + k] = y[k]
  <2>1. Len(x) + k \in 1 .. Len(x) + Len(y) /\ ~(Len(x) + k <= Len(x)) /\ (Len(x) + k) - Len(x) = k
    BY <1>1
  <2> QED
    BY <1>2, <2>1
<1>4. ASSUME NEW k \in 1 .. Len(x) PROVE (x \o y)[k] = x[k]
  <2>1. k \in 1 .. Len(x) + Len(y) /\ k <= Len(x)
    BY <1>1
  <2> QED
    BY <1>2, <2>1
<1> QED
  BY <1>1, <1>3, <1>4

\* The line that a dialogue is written as.
DialogueOf(line) == Dialogue(SecondsToAssTime(line.start), SecondsToAssTime(line.end), EscapeAssText(line.text))

\* The file that is written, line by line.
LEMMA FileIsWritten ==
  ASSUME NEW info \in Seq(Entry), NEW styles \in Seq(STRING), NEW lines \in Seq(DialogueLine)
  PROVE  LET p == Len(info)
             s == Len(styles)
             l == Len(lines)
             w == GenerateASS(info, styles, lines) IN
         /\ w \in Seq(AnyLine) /\ Len(w) = p + s + l + 5
         /\ w[1] = Header("script info")
         /\ \A k \in 1 .. p : w[1 + k] = Pair(info[k].key, info[k].value)
         /\ w[p + 2] = Header("styles") /\ w[p + 3] = Pair("Format", "styles")
         /\ \A k \in 1 .. s : w[p + 3 + k] = Style(styles[k])
         /\ w[p + s + 4] = Header("events") /\ w[p + s + 5] = Pair("Format", "events")
         /\ \A k \in 1 .. l : w[p + s + 5 + k] = DialogueOf(lines[k])
<1> DEFINE p == Len(info)
           s == Len(styles)
           l == Len(lines)
           w == GenerateASS(info, styles, lines)
<1>1. /\ p \in Nat /\ s \in Nat /\ l \in Nat
      /\ DOMAIN info = 1 .. p /\ DOMAIN styles = 1 .. s /\ DOMAIN lines = 1 .. l
  OBVIOUS
<1> HIDE DEF p, s, l
<1> DEFINE a == <<Header("script info")>>
           b == [k \in 1 .. p |-> Pair(info[k].key, info[k].value)]
           c == <<Header("styles"), Pair("Format", "styles")>>
           d == [k \in 1 .. s |-> Style(styles[k])]
           e == <<Header("events"), Pair("Format", "events")>>
           f == [k \in 1 .. l |-> DialogueOf(lines[k])]
<1>2. /\ Header("script info") \in AnyLine /\ Header("styles") \in AnyLine /\ Header("events") \in AnyLine
  BY DEF Header, AnyLine, Headers, Section
<1>3. Pair("Format", "styles") \in AnyLine /\ Pair("Format", "events") \in AnyLine
  BY DEF Pair, AnyLine, Pairs, Key, Value
<1>one. ASSUME NEW x \in AnyLine PROVE <<x>> \in Seq(AnyLine) /\ Len(<<x>>) = 1 /\ <<x>>[1] = x
  OBVIOUS
<1>two. ASSUME NEW x \in AnyLine, NEW y \in AnyLine
        PROVE  <<x, y>> \in Seq(AnyLine) /\ Len(<<x, y>>) = 2 /\ <<x, y>>[1] = x /\ <<x, y>>[2] = y
  OBVIOUS
<1>4. a \in Seq(AnyLine) /\ Len(a) = 1 /\ a[1] = Header("script info")
  BY <1>2, <1>one
<1>5. c \in Seq(AnyLine) /\ Len(c) = 2 /\ c[1] = Header("styles") /\ c[2] = Pair("Format", "styles")
  BY <1>2, <1>3, <1>two
<1>6. e \in Seq(AnyLine) /\ Len(e) = 2 /\ e[1] = Header("events") /\ e[2] = Pair("Format", "events")
  BY <1>2, <1>3, <1>two
<1>7. b \in Seq(AnyLine) /\ Len(b) = p /\ \A k \in 1 .. p : b[k] = Pair(info[k].key, info[k].value)
  <2>1. ASSUME NEW k \in 1 .. p PROVE Pair(info[k].key, info[k].value) \in AnyLine
    <3>1. info[k] \in Entry
      BY <1>1
    <3> QED
      BY <3>1 DEF Entry, Pair, AnyLine, Pairs
  <2>2. b \in [1 .. p -> AnyLine] /\ \A k \in 1 .. p : b[k] = Pair(info[k].key, info[k].value)
    BY <2>1
  <2> HIDE DEF b
  <2> QED
    BY <1>1, <2>2
<1>8. d \in Seq(AnyLine) /\ Len(d) = s /\ \A k \in 1 .. s : d[k] = Style(styles[k])
  <2>1. ASSUME NEW k \in 1 .. s PROVE Style(styles[k]) \in AnyLine
    <3>1. styles[k] \in STRING
      BY <1>1
    <3> QED
      BY <3>1 DEF Style, AnyLine, Styled
  <2>2. d \in [1 .. s -> AnyLine] /\ \A k \in 1 .. s : d[k] = Style(styles[k])
    BY <2>1
  <2> HIDE DEF d
  <2> QED
    BY <1>1, <2>2
<1>9. f \in Seq(AnyLine) /\ Len(f) = l /\ \A k \in 1 .. l : f[k] = DialogueOf(lines[k])
  <2>1. ASSUME NEW k \in 1 .. l PROVE DialogueOf(lines[k]) \in AnyLine
    <3>1. lines[k].start \in Nat /\ lines[k].end \in Nat /\ lines[k].text \in Seq(Plain)
      <4>1. lines[k] \in DialogueLine
        BY <1>1
      <4> QED
        BY <4>1 DEF DialogueLine
    <3>2. SecondsToAssTime(lines[k].start) \in Seq(Nat) /\ SecondsToAssTime(lines[k].end) \in Seq(Nat)
      BY <3>1, TimeComesBack
    <3>3. EscapeAssText(lines[k].text) \in Seq(Token)
      BY <3>1, EscapedIsText
    <3> QED
      BY <3>2, <3>3 DEF DialogueOf, Dialogue, AnyLine, Spoken
  <2>2. f \in [1 .. l -> AnyLine] /\ \A k \in 1 .. l : f[k] = DialogueOf(lines[k])
    BY <2>1
  <2> HIDE DEF f
  <2> QED
    BY <1>1, <2>2
<1>10. w = a \o b \o c \o d \o e \o f
  BY <1>1 DEF GenerateASS, DialogueOf
<1> HIDE DEF a, b, c, d, e, f, w
<1> DEFINE ab == a \o b
           abc == ab \o c
           abcd == abc \o d
           abcde == abcd \o e
<1> DEFINE Joins(z, x, y, m, n) ==
             /\ z \in Seq(AnyLine) /\ Len(z) = m + n
             /\ \A k \in 1 .. m : z[k] = x[k]
             /\ \A k \in 1 .. n : z[m + k] = y[k]
<1>cat. ASSUME NEW x \in Seq(AnyLine), NEW y \in Seq(AnyLine) PROVE Joins(x \o y, x, y, Len(x), Len(y))
  BY JoinedLines
<1>11. /\ ab \in Seq(AnyLine) /\ Len(ab) = p + 1 /\ ab[1] = Header("script info")
       /\ \A k \in 1 .. p : ab[1 + k] = Pair(info[k].key, info[k].value)
  <2>1. /\ ab \in Seq(AnyLine) /\ Len(ab) = 1 + p /\ \A k \in 1 .. 1 : ab[k] = a[k]
        /\ \A k \in 1 .. p : ab[1 + k] = b[k]
    <3>1. Joins(ab, a, b, 1, p)
      <4> HIDE DEF Joins
      <4> QED
        BY <1>4, <1>7, <1>cat
    <3> QED
      BY <3>1
  <2> HIDE DEF ab
  <2>2. p + 1 = 1 + p /\ 1 \in 1 .. 1
    BY <1>1
  <2> QED
    BY <1>4, <1>7, <2>1, <2>2
<1> HIDE DEF ab
<1>12. /\ abc \in Seq(AnyLine) /\ Len(abc) = p + 3 /\ \A k \in 1 .. p + 1 : abc[k] = ab[k]
       /\ abc[p + 2] = Header("styles") /\ abc[p + 3] = Pair("Format", "styles")
  <2>1. /\ abc \in Seq(AnyLine) /\ Len(abc) = p + 1 + 2 /\ \A k \in 1 .. p + 1 : abc[k] = ab[k]
        /\ \A k \in 1 .. 2 : abc[p + 1 + k] = c[k]
    <3>1. Joins(abc, ab, c, p + 1, 2)
      <4> HIDE DEF Joins
      <4> QED
        BY <1>5, <1>11, <1>cat
    <3> QED
      BY <3>1
  <2> HIDE DEF abc
  <2> QED
    BY <1>1, <1>5, <2>1
<1> HIDE DEF abc
<1>13. /\ abcd \in Seq(AnyLine) /\ Len(abcd) = p + 3 + s /\ \A k \in 1 .. p + 3 : abcd[k] = abc[k]
       /\ \A k \in 1 .. s : abcd[p + 3 + k] = Style(styles[k])
  <2>1. /\ abcd \in Seq(AnyLine) /\ Len(abcd) = p + 3 + s /\ \A k \in 1 .. p + 3 : abcd[k] = abc[k]
        /\ \A k \in 1 .. s : abcd[p + 3 + k] = d[k]
    <3>1. Joins(abcd, abc, d, p + 3, s)
      <4> HIDE DEF Joins
      <4> QED
        BY <1>8, <1>12, <1>cat
    <3> QED
      BY <3>1
  <2> HIDE DEF abcd
  <2> QED
    BY <1>8, <2>1
<1> HIDE DEF abcd
<1>14. /\ abcde \in Seq(AnyLine) /\ Len(abcde) = p + s + 5 /\ \A k \in 1 .. p + 3 + s : abcde[k] = abcd[k]
       /\ abcde[p + s + 4] = Header("events") /\ abcde[p + s + 5] = Pair("Format", "events")
  <2>1. /\ abcde \in Seq(AnyLine) /\ Len(abcde) = p + 3 + s + 2 /\ \A k \in 1 .. p + 3 + s : abcde[k] = abcd[k]
        /\ \A k \in 1 .. 2 : abcde[p + 3 + s + k] = e[k]
    <3>1. Joins(abcde, abcd, e, p + 3 + s, 2)
      <4> HIDE DEF Joins
      <4> QED
        BY <1>6, <1>13, <1>cat
    <3> QED
      BY <3>1
  <2>2. p + 3 + s + 1 = p + s + 4 /\ p + 3 + s + 2 = p + s + 5
    BY <1>1
  <2> HIDE DEF abcde
  <2> QED
    BY <1>1, <1>6, <2>1, <2>2
<1> HIDE DEF abcde
<1>15. /\ w \in Seq(AnyLine) /\ Len(w) = p + s + 5 + l /\ \A k \in 1 .. p + s + 5 : w[k] = abcde[k]
       /\ \A k \in 1 .. l : w[p + s + 5 + k] = DialogueOf(lines[k])
  <2>1. w = abcde \o f
    BY <1>10 DEF abcde, abcd, abc, ab
  <2>2. /\ abcde \o f \in Seq(AnyLine) /\ Len(abcde \o f) = p + s + 5 + l
        /\ \A k \in 1 .. p + s + 5 : (abcde \o f)[k] = abcde[k]
        /\ \A k \in 1 .. l : (abcde \o f)[p + s + 5 + k] = f[k]
    <3>1. Joins(abcde \o f, abcde, f, p + s + 5, l)
      <4> HIDE DEF Joins
      <4> QED
        BY <1>9, <1>14, <1>cat
    <3> QED
      BY <3>1
  <2> QED
    BY <1>9, <2>1, <2>2
<1>16. ASSUME NEW k \in 1 .. p + 3 PROVE w[k] = abc[k]
  <2>1. k \in 1 .. p + 3 + s /\ k \in 1 .. p + s + 5
    BY <1>1
  <2> QED
    BY <1>13, <1>14, <1>15, <2>1
<1>17. ASSUME NEW k \in 1 .. s PROVE w[p + 3 + k] = Style(styles[k])
  <2>1. p + 3 + k \in 1 .. p + 3 + s /\ p + 3 + k \in 1 .. p + s + 5
    BY <1>1
  <2> QED
    BY <1>13, <1>14, <1>15, <2>1
<1>18. ASSUME NEW k \in 1 .. p PROVE w[1 + k] = Pair(info[k].key, info[k].value)
  <2>1. 1 + k \in 1 .. p + 3 /\ 1 + k \in 1 .. p + 1
    BY <1>1
  <2> QED
    BY <1>11, <1>12, <1>16, <2>1
<1>19. w[1] = Header("script info") /\ w[p + 2] = Header("styles") /\ w[p + 3] = Pair("Format", "styles")
  <2>1. /\ 1 \in 1 .. p + 3 /\ 1 \in 1 .. p + 1 /\ p + 2 \in 1 .. p + 3 /\ p + 3 \in 1 .. p + 3
    BY <1>1
  <2> QED
    BY <1>11, <1>12, <1>16, <2>1
<1>20. w[p + s + 4] = Header("events") /\ w[p + s + 5] = Pair("Format", "events")
  <2>1. p + s + 4 \in 1 .. p + s + 5 /\ p + s + 5 \in 1 .. p + s + 5
    BY <1>1
  <2> QED
    BY <1>14, <1>15, <2>1
<1>21. Len(w) = p + s + l + 5
  BY <1>1, <1>15
<1> QED
  BY <1>15, <1>17, <1>18, <1>19, <1>20, <1>21 DEF p, s, l, w

\* What has been read of a file without an invalid time.
Half(section, index, info, styles, lines) ==
  [valid |-> TRUE, section |-> section, index |-> index, info |-> info, styles |-> styles, lines |-> lines]
Again(line, n) ==
  [id |-> n, start |-> line.start, end |-> line.end, text |-> ProcessAssText(Trim(EscapeAssText(line.text)))]

WithIndex(st, n) == [st EXCEPT !.index = n]
WithLines(st, lines) == [st EXCEPT !.lines = lines]
LEMMA HalfNumbered ==
  ASSUME NEW section, NEW i, NEW info, NEW styles, NEW lines, NEW o
  PROVE  WithIndex(Half(section, i, info, styles, lines), o) = Half(section, o, info, styles, lines)
<1> DEFINE Fields == {"valid", "section", "index", "info", "styles", "lines"}
           r == Half(section, i, info, styles, lines)
           e == [r EXCEPT !.index = o]
           h == Half(section, o, info, styles, lines)
<1>1. DOMAIN r = Fields
  BY DEF Half
<1>2. e = [x \in Fields |-> IF x = "index" THEN o ELSE r[x]]
  BY <1>1
<1>3. h.index = o /\ h.valid = r.valid /\ h.section = r.section /\ h.info = r.info /\ h.styles = r.styles /\ h.lines = r.lines
  BY DEF Half
<1>4. h = [x \in Fields |-> h[x]]
  BY DEF Half
<1> HIDE DEF h, e, r
<1>5. \A x \in Fields : h[x] = IF x = "index" THEN o ELSE r[x]
  BY <1>3
<1> HIDE DEF Fields
<1> QED
  BY <1>2, <1>4, <1>5 DEF h, e, r, WithIndex

LEMMA HalfWithLines ==
  ASSUME NEW section, NEW i, NEW info, NEW styles, NEW lines, NEW o
  PROVE  WithLines(Half(section, i, info, styles, lines), o) = Half(section, i, info, styles, o)
<1> DEFINE Fields == {"valid", "section", "index", "info", "styles", "lines"}
           r == Half(section, i, info, styles, lines)
           e == [r EXCEPT !.lines = o]
           h == Half(section, i, info, styles, o)
<1>1. DOMAIN r = Fields
  BY DEF Half
<1>2. e = [x \in Fields |-> IF x = "lines" THEN o ELSE r[x]]
  BY <1>1
<1>3. h.lines = o /\ h.valid = r.valid /\ h.section = r.section /\ h.index = r.index /\ h.info = r.info /\ h.styles = r.styles
  BY DEF Half
<1>4. h = [x \in Fields |-> h[x]]
  BY DEF Half
<1> HIDE DEF h, e, r
<1>5. \A x \in Fields : h[x] = IF x = "lines" THEN o ELSE r[x]
  BY <1>3
<1> HIDE DEF Fields
<1> QED
  BY <1>2, <1>4, <1>5 DEF h, e, r, WithLines

\* What each line that is written adds to what has been read.
LEMMA HeaderIsReadBack ==
  ASSUME NEW section, NEW i, NEW info, NEW styles, NEW lines, NEW x
  PROVE  ReadLine(Half(section, i, info, styles, lines), Header(x)) = Half(x, i, info, styles, lines)
BY DEF ReadLine, ReadHeader, Header, Half

ScriptInfo == "script info"
LEMMA PairIsReadBack ==
  ASSUME NEW i, NEW info, NEW styles, NEW lines, NEW key, NEW value
  PROVE  ReadLine(Half(ScriptInfo, i, info, styles, lines), Pair(key, value)) =
           Half(ScriptInfo, i, Entered(info, [key |-> key, value |-> value]), styles, lines)
<1> DEFINE st == Half(ScriptInfo, i, info, styles, lines)
<1>1. ParseScriptInfoLine(Pair(key, value)) = [key |-> key, value |-> value]
  BY DEF ParseScriptInfoLine, Pair
<1>2. ReadLine(st, Pair(key, value)) = ReadPair(st, Pair(key, value))
  BY DEF ReadLine, Pair, Half, ScriptInfo
<1> QED
  BY <1>1, <1>2 DEF ReadPair, Half

LEMMA PairIsPassedOver ==
  ASSUME NEW section \in {"styles", "events"}, NEW i, NEW info, NEW styles, NEW lines, NEW key, NEW value
  PROVE  ReadLine(Half(section, i, info, styles, lines), Pair(key, value)) = Half(section, i, info, styles, lines)
BY DEF ReadLine, Pair, Half

LEMMA StyleIsReadBack ==
  ASSUME NEW i, NEW info, NEW styles, NEW lines, NEW name
  PROVE  ReadLine(Half("styles", i, info, styles, lines), Style(name)) =
           Half("styles", i, info, Append(styles, name), lines)
BY DEF ReadLine, ReadStyle, Style, Half

LEMMA DialogueIsReadBack ==
  ASSUME NEW i \in Nat, NEW info, NEW styles, NEW lines, NEW line \in DialogueLine
  PROVE  ReadLine(Half("events", i, info, styles, lines), DialogueOf(line)) =
           Half("events", i + 1, info, styles, Append(lines, Again(line, i)))
<1> DEFINE section == "events"
           st == Half(section, i, info, styles, lines)
<1> DEFINE a == SecondsToAssTime(line.start)
           b == SecondsToAssTime(line.end)
           t == EscapeAssText(line.text)
<1>1. line.start \in Nat /\ line.end \in Nat
  BY DEF DialogueLine
<1>2. WellFormed(a) /\ WellFormed(b) /\ AssTimeToSeconds(a) = line.start /\ AssTimeToSeconds(b) = line.end
  BY <1>1, TimeComesBack
<1>3. DialogueOf(line) = Dialogue(a, b, t)
  BY DEF DialogueOf
<1> HIDE DEF a, b, t
<1>4. ReadLine(st, Dialogue(a, b, t)) = ReadDialogue(st, Dialogue(a, b, t))
  BY DEF ReadLine, Dialogue, Half
<1>5. ParseDialogueLine(Dialogue(a, b, t), i) =
        [id |-> i, start |-> line.start, end |-> line.end, text |-> ProcessAssText(Trim(t))]
  BY <1>2 DEF ParseDialogueLine, Dialogue
<1>6. ParseDialogueLine(Dialogue(a, b, t), i) = Again(line, i)
  BY <1>5 DEF Again, t
<1> DEFINE next == Half(section, i + 1, info, styles, lines)
           new == ParseDialogueLine(Dialogue(a, b, t), i)
<1> DEFINE d == Dialogue(a, b, t)
<1>7. ReadDialogue(st, d) = [next EXCEPT !.lines = Append(next.lines, new)]
  <2>1. d.complete /\ d.start = a /\ d.end = b
    BY DEF Dialogue
  <2>2. [st EXCEPT !.index = @ + 1] = next /\ st.index = i
    <3>2. st.index = i
      BY DEF Half
    <3> HIDE DEF st
    <3>3. [st EXCEPT !.index = @ + 1] = [st EXCEPT !.index = i + 1]
      BY <3>2
    <3>4. WithIndex(Half(section, i, info, styles, lines), i + 1) = Half(section, i + 1, info, styles, lines)
      BY HalfNumbered
    <3> QED
      BY <3>2, <3>3, <3>4 DEF st, WithIndex
  <2> HIDE DEF d, st, next
  <2> QED
    BY <1>2, <2>1, <2>2 DEF ReadDialogue, new, d
<1> HIDE DEF new, d
<1>8. [next EXCEPT !.lines = Append(next.lines, new)] = Half(section, i + 1, info, styles, Append(lines, new))
  <2>1. next.lines = lines
    BY DEF Half
  <2>2. WithLines(Half(section, i + 1, info, styles, lines), Append(lines, new)) =
          Half(section, i + 1, info, styles, Append(lines, new))
    BY HalfWithLines
  <2> QED
    BY <2>1, <2>2 DEF WithLines
<1> QED
  BY <1>3, <1>4, <1>6, <1>7, <1>8 DEF new, d

\* A function on 1 .. n is a sequence of length n.
LEMMA ListedInOrder ==
  ASSUME NEW S, NEW n \in Nat, NEW g \in [1 .. n -> S]
  PROVE  g \in Seq(S) /\ Len(g) = n
  OBVIOUS

\* What was written is read as it was, with new numbers.
LEMMA FileIsReadBack ==
  ASSUME NEW info \in Seq(Entry), KeysApart(info), NEW styles \in Seq(STRING), NEW lines \in Seq(DialogueLine),
         \A i, j \in DOMAIN lines : i < j => lines[i].start <= lines[j].start
  PROVE  ParseASS(GenerateASS(info, styles, lines)) =
           [valid |-> TRUE, info |-> info, styles |-> styles,
            lines |-> [k \in DOMAIN lines |-> Again(lines[k], k - 1)]]
<1> DEFINE p == Len(info)
           s == Len(styles)
           l == Len(lines)
           w == GenerateASS(info, styles, lines)
           again == [k \in 1 .. l |-> Again(lines[k], k - 1)]
           none == <<>>
<1>1. /\ p \in Nat /\ s \in Nat /\ l \in Nat
      /\ DOMAIN info = 1 .. p /\ DOMAIN styles = 1 .. s /\ DOMAIN lines = 1 .. l
  OBVIOUS
<1>2. /\ w \in Seq(AnyLine) /\ Len(w) = p + s + l + 5
      /\ w[1] = Header(ScriptInfo)
      /\ \A k \in 1 .. p : w[1 + k] = Pair(info[k].key, info[k].value)
      /\ w[p + 2] = Header("styles") /\ w[p + 3] = Pair("Format", "styles")
      /\ \A k \in 1 .. s : w[p + 3 + k] = Style(styles[k])
      /\ w[p + s + 4] = Header("events") /\ w[p + s + 5] = Pair("Format", "events")
      /\ \A k \in 1 .. l : w[p + s + 5 + k] = DialogueOf(lines[k])
  BY FileIsWritten DEF ScriptInfo
<1> HIDE DEF p, s, l, w
<1>3. PICK f :
        /\ f[0] = BlankFile
        /\ \A k \in 1 .. Len(w) : f[k] = IF f[k - 1].valid THEN ReadLine(f[k - 1], w[k]) ELSE f[k - 1]
        /\ \A k \in 0 .. Len(w) : f[k] \in HalfRead
        /\ ParseASS(w) = [valid |-> f[Len(w)].valid, info |-> f[Len(w)].info,
                          styles |-> f[Len(w)].styles, lines |-> ByStart(f[Len(w)].lines)]
  BY <1>2, FileIsRead
<1>len. Len(w) = p + s + l + 5
  BY <1>2
<1>valid. ASSUME NEW section, NEW i, NEW a, NEW b, NEW c PROVE Half(section, i, a, b, c).valid
  BY DEF Half
<1>4. ASSUME NEW k \in 0 .. p + s + l + 4, NEW j, j = k + 1, f[k].valid
      PROVE  f[j] = ReadLine(f[k], w[j])
  <2>1. j \in 1 .. Len(w) /\ j - 1 = k
    BY <1>1, <1>4, <1>len
  <2> QED
    BY <1>3, <1>4, <2>1
<1>5. f[0] = Half("none", 0, none, none, none)
  BY <1>3 DEF BlankFile, Half
<1> HIDE DEF none
<1>6. f[1] = Half(ScriptInfo, 0, none, none, none)
  <2>1. 0 \in 0 .. p + s + l + 4 /\ 1 = 0 + 1
    BY <1>1
  <2>2. f[0].valid
    BY <1>5, <1>valid
  <2>3. f[1] = ReadLine(f[0], w[1])
    <3>1. \A k \in 0 .. p + s + l + 4 : f[k].valid => f[k + 1] = ReadLine(f[k], w[k + 1])
      BY <1>4
    <3> QED
      BY <2>1, <2>2, <3>1
  <2>4. w[1] = Header(ScriptInfo)
    BY <1>2
  <2> QED
    BY <1>5, <2>3, <2>4, HeaderIsReadBack
<1> DEFINE Entries == {k \in 0 .. p : f[1 + k] = Half(ScriptInfo, 0, SubSeq(info, 1, k), none, none)}
<1>7. 0 \in Entries
  <2>1. SubSeq(info, 1, 0) = none /\ 1 + 0 = 1
    BY Beginnings DEF none
  <2>2. f[1 + 0] = Half(ScriptInfo, 0, SubSeq(info, 1, 0), none, none)
    BY <1>6, <2>1
  <2>3. 0 \in 0 .. p
    BY <1>1
  <2> QED
    BY <2>2, <2>3
<1>8. ASSUME NEW k \in 0 .. p - 1, k \in Entries PROVE k + 1 \in Entries
  <2> DEFINE some == SubSeq(info, 1, k)
             e == [key |-> info[k + 1].key, value |-> info[k + 1].value]
  <2>1. k \in 0 .. p /\ k + 1 \in 1 .. p /\ 1 + k \in 0 .. p + s + l + 4 /\ 1 + (k + 1) = (1 + k) + 1 /\ k \in Nat
    BY <1>1
  <2>2. info[k + 1] = e /\ e \in Entry
    <3>1. info[k + 1] \in Entry
      BY <1>1, <2>1
    <3> QED
      BY <3>1 DEF Entry
  <2>3. some \in Seq(Entry) /\ DOMAIN some = 1 .. k /\ \A j \in 1 .. k : some[j] = info[j]
    BY <1>1, <2>1
  <2> HIDE DEF some
  <2>4. KeysApart(some)
    BY <1>1, <2>1, <2>3 DEF KeysApart
  <2>5. ASSUME NEW j \in 1 .. k PROVE info[j].key # info[k + 1].key
    <3>1. j \in 1 .. p /\ j # k + 1
      BY <1>1, <2>1
    <3> QED
      BY <1>1, <2>1, <3>1 DEF KeysApart
  <2>6. \A j \in DOMAIN some : some[j].key # e.key
    BY <2>2, <2>3, <2>5
  <2> HIDE DEF e
  <2>7. Entered(some, e) = Append(some, e)
    BY <2>2, <2>3, <2>4, <2>6, EnteredOnce
  <2>8. Append(some, e) = SubSeq(info, 1, k + 1)
    BY <1>1, <2>1, <2>2, OneMore DEF some
  <2>9. f[1 + (k + 1)] = ReadLine(Half(ScriptInfo, 0, some, none, none), Pair(info[k + 1].key, info[k + 1].value))
    <3>1. f[1 + k] = Half(ScriptInfo, 0, some, none, none)
      BY <1>8 DEF some
    <3>2. w[1 + (k + 1)] = Pair(info[k + 1].key, info[k + 1].value)
      BY <1>2, <2>1
    <3> QED
      BY <1>4, <1>valid, <2>1, <3>1, <3>2
  <2>10. f[1 + (k + 1)] = Half(ScriptInfo, 0, Entered(some, [key |-> info[k + 1].key, value |-> info[k + 1].value]), none, none)
    BY <2>9, PairIsReadBack
  <2>11. f[1 + (k + 1)] = Half(ScriptInfo, 0, Append(some, e), none, none)
    BY <2>7, <2>10 DEF e
  <2> QED
    BY <2>1, <2>8, <2>11
<1>9. f[1 + p] = Half(ScriptInfo, 0, info, none, none)
  <2>1. p \in 0 .. p /\ 0 .. p \subseteq Entries
    <3> HIDE DEF Entries
    <3>1. p \in 0 .. p
      BY <1>1
    <3> QED
      BY <1>1, <3>1, <1>7, <1>8, StepByStep
  <2>2. f[1 + p] = Half(ScriptInfo, 0, SubSeq(info, 1, p), none, none)
    BY <2>1
  <2>3. SubSeq(info, 1, p) = info
    BY Beginnings DEF p
  <2> QED
    BY <2>2, <2>3
<1> HIDE DEF Entries
<1>10. f[p + 3] = Half("styles", 0, info, none, none)
  <2>1. /\ 1 + p \in 0 .. p + s + l + 4 /\ p + 2 = (1 + p) + 1
        /\ p + 2 \in 0 .. p + s + l + 4 /\ p + 3 = (p + 2) + 1
    BY <1>1
  <2>2. w[p + 2] = Header("styles") /\ w[p + 3] = Pair("Format", "styles")
    BY <1>2
  <2>3. f[p + 2] = ReadLine(Half(ScriptInfo, 0, info, none, none), Header("styles"))
    BY <1>4, <1>9, <1>valid, <2>1, <2>2
  <2>4. f[p + 2] = Half("styles", 0, info, none, none)
    BY <2>3, HeaderIsReadBack
  <2>5. f[p + 3] = ReadLine(Half("styles", 0, info, none, none), Pair("Format", "styles"))
    BY <1>4, <1>valid, <2>1, <2>2, <2>4
  <2> QED
    BY <2>5, PairIsPassedOver
<1> DEFINE o == p + 3
<1>o. /\ o \in Nat /\ o = p + 3 /\ f[o] = Half("styles", 0, info, none, none)
      /\ \A k \in 1 .. s : w[o + k] = Style(styles[k])
  <2>1. o \in Nat /\ f[o] = Half("styles", 0, info, none, none)
    BY <1>1, <1>10
  <2>2. \A k \in 1 .. s : w[o + k] = Style(styles[k])
    BY <1>2
  <2> QED
    BY <2>1, <2>2
<1> HIDE DEF o
<1> DEFINE Styles == {k \in 0 .. s : f[o + k] = Half("styles", 0, info, SubSeq(styles, 1, k), none)}
<1>11. 0 \in Styles
  <2>1. SubSeq(styles, 1, 0) = none /\ o + 0 = o
    BY <1>o, Beginnings DEF none
  <2>2. f[o + 0] = Half("styles", 0, info, SubSeq(styles, 1, 0), none)
    BY <1>o, <2>1
  <2>3. 0 \in 0 .. s
    BY <1>1
  <2> QED
    BY <2>2, <2>3
<1>12. ASSUME NEW k \in 0 .. s - 1, k \in Styles PROVE k + 1 \in Styles
  <2>1. k \in 0 .. s /\ k + 1 \in 1 .. s
    BY <1>1
  <2>o. o + k \in 0 .. p + s + l + 4 /\ o + (k + 1) = (o + k) + 1
    BY <1>1, <1>o
  <2> DEFINE some == SubSeq(styles, 1, k)
  <2>2. f[o + k] = Half("styles", 0, info, some, none)
    BY <1>12
  <2>3. Append(some, styles[k + 1]) = SubSeq(styles, 1, k + 1)
    BY <1>1, <2>1, OneMore
  <2> HIDE DEF some
  <2>4. w[o + (k + 1)] = Style(styles[k + 1])
    BY <1>o, <2>1
  <2>5. f[o + (k + 1)] = ReadLine(Half("styles", 0, info, some, none), Style(styles[k + 1]))
    <3>1. f[o + k].valid
      BY <1>valid, <2>2
    <3>2. f[o + (k + 1)] = ReadLine(f[o + k], w[o + (k + 1)])
      BY <1>4, <2>o, <3>1
    <3> QED
      BY <2>2, <2>4, <3>2
  <2>6. f[o + (k + 1)] = Half("styles", 0, info, Append(some, styles[k + 1]), none)
    BY <2>5, StyleIsReadBack
  <2>7. f[o + (k + 1)] = Half("styles", 0, info, SubSeq(styles, 1, k + 1), none)
    BY <2>3, <2>6
  <2> QED
    BY <2>1, <2>7
<1>13. f[o + s] = Half("styles", 0, info, styles, none)
  <2>1. s \in 0 .. s /\ 0 .. s \subseteq Styles
    <3> HIDE DEF Styles
    <3>1. s \in 0 .. s
      BY <1>1
    <3> QED
      BY <1>1, <3>1, <1>11, <1>12, StepByStep
  <2>2. f[o + s] = Half("styles", 0, info, SubSeq(styles, 1, s), none)
    BY <1>1, <2>1
  <2>3. SubSeq(styles, 1, s) = styles
    BY Beginnings DEF s
  <2> QED
    BY <2>2, <2>3
<1> HIDE DEF Styles
<1>14. f[p + s + 5] = Half("events", 0, info, styles, none)
  <2>1. /\ p + 3 + s \in 0 .. p + s + l + 4 /\ p + s + 4 = (p + 3 + s) + 1
        /\ p + s + 4 \in 0 .. p + s + l + 4 /\ p + s + 5 = (p + s + 4) + 1
    BY <1>1
  <2>o. f[p + 3 + s] = Half("styles", 0, info, styles, none)
    BY <1>13, <1>o
  <2>2. w[p + s + 4] = Header("events") /\ w[p + s + 5] = Pair("Format", "events")
    BY <1>2
  <2>3. f[p + s + 4] = ReadLine(Half("styles", 0, info, styles, none), Header("events"))
    BY <1>4, <1>valid, <2>1, <2>2, <2>o
  <2>4. f[p + s + 4] = Half("events", 0, info, styles, none)
    BY <2>3, HeaderIsReadBack
  <2>5. f[p + s + 5] = ReadLine(Half("events", 0, info, styles, none), Pair("Format", "events"))
    BY <1>4, <1>valid, <2>1, <2>2, <2>4
  <2> QED
    BY <2>5, PairIsPassedOver
<1>15. again \in Seq(DialogueLine) /\ Len(again) = l /\ \A k \in 1 .. l : again[k] = Again(lines[k], k - 1)
  <2>1. ASSUME NEW k \in 1 .. l PROVE Again(lines[k], k - 1) \in DialogueLine
    <3>1. lines[k] \in DialogueLine
      BY <1>1
    <3>2. lines[k].start \in Nat /\ lines[k].end \in Nat /\ lines[k].text \in Seq(Plain)
      BY <3>1 DEF DialogueLine
    <3>3. ProcessAssText(Trim(EscapeAssText(lines[k].text))) \in Seq(Plain) /\ k - 1 \in Nat
      BY <3>2, EscapedIsText, TrimmedOnce, ReadIsPlain
    <3> QED
      BY <1>1, <3>2, <3>3 DEF Again, DialogueLine
  <2>2. again \in [1 .. l -> DialogueLine] /\ \A k \in 1 .. l : again[k] = Again(lines[k], k - 1)
    BY <2>1
  <2>3. l \in Nat
    BY <1>1
  <2> HIDE DEF again
  <2>4. again \in Seq(DialogueLine) /\ Len(again) = l
    BY <2>2, <2>3, ListedInOrder
  <2> QED
    BY <2>2, <2>4
<1> HIDE DEF again
<1> DEFINE m == p + s + 5
<1>m. /\ m \in Nat /\ m + l - 1 = p + s + l + 4 /\ m + l = Len(w) /\ f[m] = Half("events", 0, info, styles, none)
      /\ \A k \in 1 .. l : w[m + k] = DialogueOf(lines[k])
  <2>n. p \in Nat /\ s \in Nat /\ l \in Nat
    BY <1>1
  <2>w. m \in Nat /\ m + l - 1 = p + s + l + 4 /\ m + l = p + s + l + 5
    BY <2>n
  <2>1. m \in Nat /\ m + l - 1 = p + s + l + 4 /\ m + l = Len(w)
    BY <1>len, <2>w
  <2>2. f[m] = Half("events", 0, info, styles, none)
    BY <1>14
  <2>3. \A k \in 1 .. l : w[m + k] = DialogueOf(lines[k])
    BY <1>2
  <2> QED
    BY <2>1, <2>2, <2>3
<1> HIDE DEF m
<1> DEFINE Lines == {k \in 0 .. l : f[m + k] = Half("events", k, info, styles, SubSeq(again, 1, k))}
<1>16. 0 \in Lines
  <2>1. m + 0 = m
    BY <1>m
  <2>2. SubSeq(again, 1, 0) = none
    BY <1>15, Beginnings DEF none
  <2>3. f[m + 0] = Half("events", 0, info, styles, SubSeq(again, 1, 0))
    BY <1>m, <2>1, <2>2
  <2>4. 0 \in 0 .. l
    BY <1>1
  <2> QED
    BY <2>3, <2>4
<1>17. ASSUME NEW k \in 0 .. l - 1, k \in Lines PROVE k + 1 \in Lines
  <2>1. /\ k \in 0 .. l /\ k + 1 \in 1 .. l /\ k \in Nat /\ (k + 1) - 1 = k
        /\ m + k \in 0 .. m + l - 1 /\ m + (k + 1) = (m + k) + 1
    BY <1>1, <1>m
  <2> DEFINE some == SubSeq(again, 1, k)
  <2>2. f[m + k] = Half("events", k, info, styles, some)
    BY <1>17
  <2>3. Append(some, again[k + 1]) = SubSeq(again, 1, k + 1)
    BY <1>1, <1>15, <2>1, OneMore
  <2> HIDE DEF some
  <2>4. w[m + (k + 1)] = DialogueOf(lines[k + 1])
    BY <1>m, <2>1
  <2>5. f[m + (k + 1)] = ReadLine(Half("events", k, info, styles, some), DialogueOf(lines[k + 1]))
    <3>1. m + k \in 0 .. p + s + l + 4 /\ f[m + k].valid
      BY <1>m, <1>valid, <2>1, <2>2
    <3>2. f[m + (k + 1)] = ReadLine(f[m + k], w[m + (k + 1)])
      BY <1>4, <2>1, <3>1
    <3> QED
      BY <2>2, <2>4, <3>2
  <2>6. lines[k + 1] \in DialogueLine
    BY <1>1, <2>1
  <2>7. f[m + (k + 1)] = Half("events", k + 1, info, styles, Append(some, Again(lines[k + 1], k)))
    BY <2>1, <2>5, <2>6, DialogueIsReadBack
  <2>8. again[k + 1] = Again(lines[k + 1], k)
    BY <1>15, <2>1
  <2>9. f[m + (k + 1)] = Half("events", k + 1, info, styles, SubSeq(again, 1, k + 1))
    BY <2>3, <2>7, <2>8
  <2> QED
    BY <2>1, <2>9
<1>18. f[m + l] = Half("events", l, info, styles, again)
  <2>1. l \in 0 .. l /\ 0 .. l \subseteq Lines
    <3> HIDE DEF Lines
    <3>1. l \in 0 .. l
      BY <1>1
    <3> QED
      BY <1>1, <3>1, <1>16, <1>17, StepByStep
  <2>2. f[m + l] = Half("events", l, info, styles, SubSeq(again, 1, l))
    BY <1>1, <2>1
  <2>3. SubSeq(again, 1, l) = again
    BY <1>15, Beginnings
  <2> QED
    BY <2>2, <2>3
<1> HIDE DEF Lines
<1>19. f[Len(w)] = Half("events", l, info, styles, again) /\ Half("events", l, info, styles, again) \in HalfRead
  <2>1. Len(w) = m + l /\ Len(w) \in 0 .. Len(w)
    BY <1>1, <1>m, <1>len
  <2> QED
    BY <1>3, <1>18, <2>1
<1>20. Numbered(again)
  BY <1>19 DEF Half, HalfRead
<1>21. ByStart(again) = again
  <2>1. ASSUME NEW i \in 1 .. l, NEW j \in 1 .. l, i < j PROVE Before(again[i], again[j])
    <3>1. lines[i].start <= lines[j].start /\ lines[i] \in DialogueLine /\ lines[j] \in DialogueLine
      BY <1>1, <2>1
    <3>2. lines[i].start \in Nat /\ lines[j].start \in Nat
      BY <3>1 DEF DialogueLine
    <3>3. /\ again[i].start = lines[i].start /\ again[i].id = i - 1
          /\ again[j].start = lines[j].start /\ again[j].id = j - 1
      BY <1>15 DEF Again
    <3>4. i - 1 < j - 1 /\ (lines[i].start < lines[j].start \/ lines[i].start = lines[j].start)
      BY <1>1, <2>1, <3>1, <3>2
    <3> QED
      BY <3>3, <3>4 DEF Before
  <2>2. DOMAIN again = 1 .. l
    BY <1>15
  <2> QED
    BY <1>15, <1>20, <2>1, <2>2, OrderedLinesStay
<1> DEFINE last == Half("events", l, info, styles, again)
<1>22. last.valid = TRUE /\ last.info = info /\ last.styles = styles /\ last.lines = again
  BY DEF Half
<1> HIDE DEF last
<1>23. ParseASS(w) = [valid |-> last.valid, info |-> last.info, styles |-> last.styles, lines |-> ByStart(last.lines)]
  BY <1>3, <1>19 DEF last
<1>24. ParseASS(w) = [valid |-> TRUE, info |-> info, styles |-> styles, lines |-> again]
  BY <1>21, <1>22, <1>23
<1> QED
  BY <1>1, <1>24 DEF w, again

\* A line but for its number and the spaces around its text.
BareLine(line) == [line EXCEPT !.id = 0, !.text = Trim(@)]
Bare(lines) == [k \in DOMAIN lines |-> BareLine(lines[k])]

LEMMA BareFields ==
  ASSUME NEW line, DOMAIN line = {"id", "start", "end", "text"}
  PROVE  BareLine(line) = [id |-> 0, start |-> line.start, end |-> line.end, text |-> Trim(line.text)]
<1> DEFINE Fields == {"id", "start", "end", "text"}
           e == BareLine(line)
           h == [id |-> 0, start |-> line.start, end |-> line.end, text |-> Trim(line.text)]
<1>1. DOMAIN e = Fields /\ e.id = 0 /\ e.start = line.start /\ e.end = line.end /\ e.text = Trim(line.text)
  BY DEF BareLine
<1>2. e = [x \in Fields |-> e[x]]
  BY DEF BareLine
<1>3. h = [x \in Fields |-> h[x]]
  OBVIOUS
<1>4. h.id = 0 /\ h.start = line.start /\ h.end = line.end /\ h.text = Trim(line.text)
  OBVIOUS
<1> HIDE DEF h, e
<1>5. \A x \in Fields : h[x] = e[x]
  BY <1>1, <1>4
<1> HIDE DEF Fields
<1> QED
  BY <1>2, <1>3, <1>5 DEF h, e

LEMMA FileComesBack ==
  ASSUME NEW written \in Seq(AnyLine), NEW r, r = ParseASS(written)
  PROVE  LET again == ParseASS(GenerateASS(r.info, r.styles, r.lines)) IN
         /\ again.valid /\ again.info = r.info /\ again.styles = r.styles
         /\ Bare(again.lines) = Bare(r.lines)
<1> DEFINE again == ParseASS(GenerateASS(r.info, r.styles, r.lines))
           lines == [k \in DOMAIN r.lines |-> Again(r.lines[k], k - 1)]
<1>1. /\ r.info \in Seq(Entry) /\ KeysApart(r.info) /\ r.styles \in Seq(STRING) /\ r.lines \in Seq(DialogueLine)
      /\ \A i, j \in DOMAIN r.lines : i < j => r.lines[i].start <= r.lines[j].start
  BY WhatIsRead
<1>2. again = [valid |-> TRUE, info |-> r.info, styles |-> r.styles, lines |-> lines]
  BY <1>1, FileIsReadBack
<1> HIDE DEF again
<1>3. again.valid /\ again.info = r.info /\ again.styles = r.styles /\ again.lines = lines
  BY <1>2
<1>4. ASSUME NEW k \in DOMAIN r.lines PROVE BareLine(Again(r.lines[k], k - 1)) = BareLine(r.lines[k])
  <2> DEFINE line == r.lines[k]
             new == Again(line, k - 1)
  <2>1. line \in DialogueLine
    BY <1>1
  <2>2. line.text \in Seq(Plain) /\ DOMAIN line = {"id", "start", "end", "text"}
    BY <2>1 DEF DialogueLine
  <2>3. /\ DOMAIN new = {"id", "start", "end", "text"}
        /\ new.start = line.start /\ new.end = line.end /\ new.text = ProcessAssText(Trim(EscapeAssText(line.text)))
    BY DEF Again
  <2> HIDE DEF line, new
  <2>4. Trim(new.text) = Trim(line.text)
    BY <2>2, <2>3, TextComesBack
  <2>5. BareLine(new) = [id |-> 0, start |-> new.start, end |-> new.end, text |-> Trim(new.text)]
    BY <2>3, BareFields
  <2>6. BareLine(line) = [id |-> 0, start |-> line.start, end |-> line.end, text |-> Trim(line.text)]
    BY <2>2, BareFields
  <2>7. BareLine(new) = BareLine(line)
    BY <2>3, <2>4, <2>5, <2>6
  <2> QED
    BY <2>7 DEF new, line
<1>5. DOMAIN lines = DOMAIN r.lines /\ \A k \in DOMAIN r.lines : lines[k] = Again(r.lines[k], k - 1)
  OBVIOUS
<1> HIDE DEF lines
<1>6. Bare(lines) = Bare(r.lines)
  BY <1>4, <1>5 DEF Bare
<1> QED
  BY <1>3, <1>6 DEF again

LEMMA AssWrittenIsRead ==
  ASSUME NEW written \in Seq(AnyLine), assRead = ParseASS(written),
         assWritten # <<>> => assWritten = GenerateASS(assRead.info, assRead.styles, assRead.lines)
  PROVE  WrittenIsRead
<1> SUFFICES ASSUME assWritten # <<>> PROVE WrittenIsRead
  BY DEF WrittenIsRead
<1> DEFINE again == ParseASS(assWritten)
<1>1. /\ again.valid /\ again.info = assRead.info /\ again.styles = assRead.styles
      /\ Bare(again.lines) = Bare(assRead.lines)
  BY FileComesBack
<1> HIDE DEF again
<1> QED
  BY <1>1 DEF WrittenIsRead, Bare, BareLine, again

---------------------------------------------------------
(* Merging                                                                 *)

\* What a line says, whatever its number, and whether two say different things at one time.
Says(line) == <<line.start, line.end, line.text>>
Clashing(a, b) == a.text # b.text /\ (SameTimes(a, b) \/ TimeRangesOverlap(a, b))

Clash == [type : {"content_mismatch", "timing_conflict"}, a : Nat, b : Nat]
HalfMerged == [processed : SUBSET Nat, merged : Seq(DialogueLine), conflicts : SUBSET Clash]

\* What is said settles whether lines are duplicates, and whether they clash.
LEMMA SayingTells ==
  ASSUME NEW a, NEW b
  PROVE  /\ IsExactDuplicate(a, b) <=> Says(a) = Says(b)
         /\ Clashing(a, b) => Says(a) # Says(b)
         /\ Clashing(a, b) => Clashing(b, a)
         /\ Clashing(a, b) <=> HasTextConflict(a, b) \/ HasOverlapConflict(a, b)
         /\ \A c, d : Says(a) = Says(c) /\ Says(b) = Says(d) /\ Clashing(a, b) => Clashing(c, d)
<1>1. Says(a) = Says(b) <=> a.start = b.start /\ a.end = b.end /\ a.text = b.text
  BY DEF Says
<1>2. IsExactDuplicate(a, b) <=> Says(a) = Says(b)
  BY <1>1 DEF IsExactDuplicate, SameTimes
<1>3. Clashing(a, b) => Says(a) # Says(b)
  BY <1>1 DEF Clashing
<1>4. Clashing(a, b) => Clashing(b, a)
  BY DEF Clashing, SameTimes, TimeRangesOverlap
<1>5. Clashing(a, b) <=> HasTextConflict(a, b) \/ HasOverlapConflict(a, b)
  BY DEF Clashing, HasTextConflict, HasOverlapConflict
<1>6. ASSUME NEW c, NEW d, Says(a) = Says(c), Says(b) = Says(d), Clashing(a, b) PROVE Clashing(c, d)
  <2>1. a.start = c.start /\ a.end = c.end /\ a.text = c.text
    BY <1>6 DEF Says
  <2>2. b.start = d.start /\ b.end = d.end /\ b.text = d.text
    BY <1>6 DEF Says
  <2>3. a.text # b.text /\ (SameTimes(a, b) \/ TimeRangesOverlap(a, b))
    BY <1>6 DEF Clashing
  <2> QED
    BY <2>1, <2>2, <2>3 DEF Clashing, SameTimes, TimeRangesOverlap
<1> QED
  BY <1>2, <1>3, <1>4, <1>5, <1>6

\* A line that was taken out changes nothing.
LEMMA ProcessedIsSkipped ==
  ASSUME NEW all, NEW st, NEW i \in st.processed
  PROVE  MergeStep(all, st, i) = st
BY DEF MergeStep

\* Another one is merged, takes its equals out, and is noted with each it clashes with.
LEMMA LineIsMerged ==
  ASSUME NEW all \in Seq(DialogueLine), NEW st \in HalfMerged, NEW i \in 1 .. Len(all), i \notin st.processed
  PROVE  LET after == MergeStep(all, st, i)
             later == i + 1 .. Len(all) \ st.processed IN
         /\ after \in HalfMerged
         /\ after.processed = st.processed \cup {j \in later : Says(all[i]) = Says(all[j])} \cup {i}
         /\ after.merged = Append(st.merged, all[i])
         /\ st.conflicts \subseteq after.conflicts
         /\ \A c \in after.conflicts : c \in st.conflicts \/ (c.a = i /\ c.b \in later /\ Clashing(all[i], all[c.b]))
         /\ \A j \in later : Clashing(all[i], all[j]) => \E c \in after.conflicts : c.a = i /\ c.b = j
<1> DEFINE n == Len(all)
           later == i + 1 .. n \ st.processed
           equal == {j \in later : IsExactDuplicate(all[i], all[j])}
           mismatches == {[type |-> "content_mismatch", a |-> i, b |-> j] :
                            j \in {k \in later \ equal : HasTextConflict(all[i], all[k])}}
           overlaps == {[type |-> "timing_conflict", a |-> i, b |-> j] :
                          j \in {k \in later \ equal : HasOverlapConflict(all[i], all[k])}}
           after == MergeStep(all, st, i)
<1>1. n \in Nat /\ i \in 1 .. n /\ all[i] \in DialogueLine /\ later \subseteq Nat
  <2>1. n \in Nat /\ i \in 1 .. n /\ all[i] \in DialogueLine
    OBVIOUS
  <2>2. later \subseteq Nat
    BY <2>1
  <2> QED
    BY <2>1, <2>2
<1>2. after = [processed |-> st.processed \cup equal \cup {i}, merged |-> Append(st.merged, all[i]),
               conflicts |-> st.conflicts \cup mismatches \cup overlaps]
  BY DEF MergeStep
<1>3. equal = {j \in later : Says(all[i]) = Says(all[j])}
  BY SayingTells
<1>4. \A c \in mismatches \cup overlaps : c \in Clash /\ c.a = i /\ c.b \in later /\ Clashing(all[i], all[c.b])
  <2>1. ASSUME NEW j \in later, HasTextConflict(all[i], all[j]) \/ HasOverlapConflict(all[i], all[j])
        PROVE  Clashing(all[i], all[j])
    BY <2>1, SayingTells
  <2>2. ASSUME NEW c \in mismatches PROVE c \in Clash /\ c.a = i /\ c.b \in later /\ Clashing(all[i], all[c.b])
    <3>1. PICK j \in later : HasTextConflict(all[i], all[j]) /\ c = [type |-> "content_mismatch", a |-> i, b |-> j]
      OBVIOUS
    <3> HIDE DEF later
    <3> QED
      BY <1>1, <2>1, <3>1 DEF Clash
  <2>3. ASSUME NEW c \in overlaps PROVE c \in Clash /\ c.a = i /\ c.b \in later /\ Clashing(all[i], all[c.b])
    <3>1. PICK j \in later : HasOverlapConflict(all[i], all[j]) /\ c = [type |-> "timing_conflict", a |-> i, b |-> j]
      OBVIOUS
    <3> HIDE DEF later
    <3> QED
      BY <1>1, <2>1, <3>1 DEF Clash
  <2> HIDE DEF mismatches, overlaps, later
  <2> QED
    BY <2>2, <2>3
<1>5. ASSUME NEW j \in later, Clashing(all[i], all[j]) PROVE \E c \in mismatches \cup overlaps : c.a = i /\ c.b = j
  <2>1. j \notin equal
    <3>1. Says(all[i]) # Says(all[j])
      BY <1>5, SayingTells
    <3> HIDE DEF equal
    <3> QED
      BY <1>3, <3>1
  <2>2. CASE HasTextConflict(all[i], all[j])
    <3>1. [type |-> "content_mismatch", a |-> i, b |-> j] \in mismatches
      <4> HIDE DEF later, equal
      <4> QED
        BY <1>5, <2>1, <2>2
    <3> HIDE DEF mismatches, overlaps
    <3> QED
      BY <3>1
  <2>3. CASE HasOverlapConflict(all[i], all[j])
    <3>1. [type |-> "timing_conflict", a |-> i, b |-> j] \in overlaps
      <4> HIDE DEF later, equal
      <4> QED
        BY <1>5, <2>1, <2>3
    <3> HIDE DEF mismatches, overlaps
    <3> QED
      BY <3>1
  <2> QED
    BY <1>5, <2>2, <2>3, SayingTells
<1> HIDE DEF after, mismatches, overlaps, equal, later
<1>6. st.processed \in SUBSET Nat /\ st.merged \in Seq(DialogueLine) /\ st.conflicts \in SUBSET Clash
  BY DEF HalfMerged
<1>7. /\ after.processed = st.processed \cup equal \cup {i} /\ after.merged = Append(st.merged, all[i])
      /\ after.conflicts = st.conflicts \cup mismatches \cup overlaps
  BY <1>2
<1>8. after \in HalfMerged
  <2>1. st.processed \cup equal \cup {i} \in SUBSET Nat
    <3>1. equal \subseteq Nat
      BY <1>1, <1>3
    <3>2. i \in Nat
      BY <1>1
    <3>3. st.processed \subseteq Nat
      BY <1>6
    <3> QED
      BY <3>1, <3>2, <3>3
  <2>2. Append(st.merged, all[i]) \in Seq(DialogueLine)
    BY <1>1, <1>6
  <2>3. st.conflicts \cup mismatches \cup overlaps \in SUBSET Clash
    BY <1>4, <1>6
  <2> QED
    BY <1>2, <2>1, <2>2, <2>3 DEF HalfMerged
<1>9. \A c \in after.conflicts : c \in st.conflicts \/ (c.a = i /\ c.b \in later /\ Clashing(all[i], all[c.b]))
  BY <1>4, <1>7
<1>10. \A j \in later : Clashing(all[i], all[j]) => \E c \in after.conflicts : c.a = i /\ c.b = j
  BY <1>5, <1>7
<1>11. st.conflicts \subseteq after.conflicts
  BY <1>7
<1> QED
  BY <1>3, <1>7, <1>8, <1>9, <1>10, <1>11 DEF after, later

\* The lines are merged one after the other.
LEMMA LinesAreMerged ==
  ASSUME NEW all \in Seq(DialogueLine)
  PROVE  \E f :
           /\ f[0] = [processed |-> {}, merged |-> <<>>, conflicts |-> {}]
           /\ \A k \in 1 .. Len(all) : f[k] = MergeStep(all, f[k - 1], k)
           /\ \A k \in 0 .. Len(all) : f[k] \in HalfMerged
           /\ MergeLines(all) = f[Len(all)]
<1> DEFINE n == Len(all)
           blank == [processed |-> {}, merged |-> <<>>, conflicts |-> {}]
           step == [st \in HalfMerged |-> [k \in 0 .. n |-> IF k = 0 THEN st ELSE MergeStep(all, st, k)]]
           Merge(f, k) == IF k = 0 THEN blank ELSE MergeStep(all, f[k - 1], k)
           done == CHOOSE g : g = [k \in 0 .. n |-> Merge(g, k)]
<1>1. n \in Nat /\ 0 <= n /\ 0 \in Nat
  OBVIOUS
<1>2. blank \in HalfMerged
  <2>1. <<>> \in Seq(DialogueLine)
    OBVIOUS
  <2> QED
    BY <2>1 DEF HalfMerged
<1>3. ASSUME NEW st \in HalfMerged, NEW k \in 1 .. n PROVE MergeStep(all, st, k) \in HalfMerged
  <2>1. CASE k \in st.processed
    BY <2>1, ProcessedIsSkipped
  <2>2. CASE k \notin st.processed
    BY <2>2, LineIsMerged
  <2> QED
    BY <2>1, <2>2
<1> HIDE DEF blank
<1>4. step \in [HalfMerged -> [0 .. n -> HalfMerged]]
  BY <1>3
<1>5. PICK f \in [0 .. n -> HalfMerged] : Follows(f, 0, n, blank, step)
  <2> HIDE DEF step, n
  <2> QED
    BY <1>1, <1>2, <1>4, RecursionIsDefined
<1>6. f = [k \in 0 .. n |-> Merge(f, k)]
  <2>1. ASSUME NEW k \in 0 .. n PROVE f[k] = Merge(f, k)
    <3>1. CASE k # 0
      <4>1. k - 1 \in 0 .. n
        BY <1>1, <3>1
      <4>2. f[k - 1] \in HalfMerged
        BY <4>1
      <4>3. f[k] = step[f[k - 1]][k]
        BY <1>5, <3>1 DEF Follows
      <4> QED
        BY <3>1, <4>2, <4>3
    <3> QED
      BY <1>5, <3>1 DEF Follows
  <2> HIDE DEF Merge
  <2> QED
    BY <2>1
<1>7. done = [k \in 0 .. n |-> Merge(done, k)]
  BY <1>6
<1>8. MergeLines(all) = done[n]
  BY DEF MergeLines, blank
<1>9. done[0] = blank /\ \A k \in 1 .. n : done[k] = MergeStep(all, done[k - 1], k)
  <2>1. \A k \in 0 .. n : done[k] = Merge(done, k)
    <3> HIDE DEF done, Merge
    <3> QED
      BY <1>7
  <2> HIDE DEF done
  <2> QED
    BY <1>1, <2>1
<1> HIDE DEF done
<1> DEFINE P == {k \in 0 .. n : done[k] \in HalfMerged}
<1>10. 0 \in P
  BY <1>1, <1>2, <1>9
<1>11. ASSUME NEW k \in 0 .. n - 1, k \in P PROVE k + 1 \in P
  <2>1. k + 1 \in 1 .. n /\ k + 1 \in 0 .. n /\ (k + 1) - 1 = k
    BY <1>1
  <2>2. done[k + 1] = MergeStep(all, done[k], k + 1)
    BY <1>9, <2>1
  <2>3. MergeStep(all, done[k], k + 1) \in HalfMerged
    BY <1>3, <1>11, <2>1
  <2> QED
    BY <2>1, <2>2, <2>3
<1>12. 0 .. n \subseteq P
  <2> HIDE DEF P
  <2> QED
    BY <1>1, <1>10, <1>11, StepByStep
<1>13. \A k \in 0 .. n : done[k] \in HalfMerged
  BY <1>12
<1> QED
  BY <1>8, <1>9, <1>13 DEF blank

\* What the lines up to the k-th have made of the merge.
SaidBefore(all, k, j) == \E i \in 1 .. k : i <= j /\ Says(all[i]) = Says(all[j])
First(all, j) == \A i \in 1 .. j - 1 : Says(all[i]) # Says(all[j])
MergedSoFar(all, k, st) ==
  /\ st.processed \subseteq 1 .. Len(all)
  /\ \A j \in 1 .. Len(all) : j \in st.processed <=> SaidBefore(all, k, j)
  /\ \A m \in DOMAIN st.merged : \E i \in 1 .. k : st.merged[m] = all[i]
  /\ \A i \in 1 .. k : \E m \in DOMAIN st.merged : Says(st.merged[m]) = Says(all[i])
  /\ \A m, o \in DOMAIN st.merged : Says(st.merged[m]) = Says(st.merged[o]) => m = o
  /\ \A c \in st.conflicts : c.a \in 1 .. Len(all) /\ c.b \in 1 .. Len(all) /\ Clashing(all[c.a], all[c.b])
  /\ \A i \in 1 .. k, j \in 1 .. Len(all) :
       i < j /\ First(all, i) /\ First(all, j) /\ Clashing(all[i], all[j])
         => \E c \in st.conflicts : c.a = i /\ c.b = j

LEMMA MergeGoesOn ==
  ASSUME NEW all \in Seq(DialogueLine), NEW k \in 0 .. Len(all) - 1, NEW st \in HalfMerged, MergedSoFar(all, k, st)
  PROVE  MergedSoFar(all, k + 1, MergeStep(all, st, k + 1))
<1> DEFINE n == Len(all)
           i == k + 1
           after == MergeStep(all, st, i)
           later == i + 1 .. n \ st.processed
<1>1. /\ n \in Nat /\ k \in Nat /\ i \in Nat /\ i \in 1 .. n /\ i \in 1 .. i /\ i = k + 1 /\ i - 1 = k
      /\ (\A j \in 1 .. k : j \in 1 .. i /\ j \in 1 .. n /\ j # i) /\ (\A j \in 1 .. i : j \in 1 .. k \/ j = i)
      /\ \A j \in 1 .. n : j = i \/ j < i \/ j \in i + 1 .. n
  OBVIOUS
<1> HIDE DEF i, n
<1>2. \A j \in 1 .. n : j \in st.processed <=> SaidBefore(all, k, j)
  BY DEF MergedSoFar, n
<1>3. \A m \in DOMAIN st.merged : \E j \in 1 .. k : st.merged[m] = all[j]
  BY DEF MergedSoFar
<1>4. \A j \in 1 .. k : \E m \in DOMAIN st.merged : Says(st.merged[m]) = Says(all[j])
  BY DEF MergedSoFar
<1>5. \A m, o \in DOMAIN st.merged : Says(st.merged[m]) = Says(st.merged[o]) => m = o
  BY DEF MergedSoFar
<1>6. \A c \in st.conflicts : c.a \in 1 .. n /\ c.b \in 1 .. n /\ Clashing(all[c.a], all[c.b])
  BY DEF MergedSoFar, n
<1>7. \A h \in 1 .. k, j \in 1 .. n :
        h < j /\ First(all, h) /\ First(all, j) /\ Clashing(all[h], all[j])
          => \E c \in st.conflicts : c.a = h /\ c.b = j
  BY DEF MergedSoFar, n
<1>p. st.processed \subseteq 1 .. n
  BY DEF MergedSoFar, n
<1>8. ASSUME NEW j \in 1 .. n PROVE SaidBefore(all, i, j) <=> SaidBefore(all, k, j) \/ (i <= j /\ Says(all[i]) = Says(all[j]))
  BY <1>1 DEF SaidBefore
<1>9. i \in st.processed <=> ~First(all, i)
  <2>1. SaidBefore(all, k, i) <=> ~First(all, i)
    <3>1. \A h \in 1 .. k : h <= i
      BY <1>1
    <3> QED
      BY <1>1, <3>1 DEF SaidBefore, First
  <2> QED
    BY <1>1, <1>2, <2>1
<1>10. CASE i \in st.processed
  <2>1. after = st
    BY <1>10, ProcessedIsSkipped
  <2>2. PICK h \in 1 .. k : h <= i /\ Says(all[h]) = Says(all[i])
    BY <1>1, <1>2, <1>10 DEF SaidBefore
  <2>3. \A j \in 1 .. n : j \in st.processed <=> SaidBefore(all, i, j)
    <3>1. ASSUME NEW j \in 1 .. n, i <= j, Says(all[i]) = Says(all[j]) PROVE SaidBefore(all, k, j)
      <4>1. h <= j /\ Says(all[h]) = Says(all[j])
        BY <1>1, <2>2, <3>1
      <4> QED
        BY <4>1 DEF SaidBefore
    <3> QED
      BY <1>2, <1>8, <3>1
  <2>4. \A m \in DOMAIN st.merged : \E j \in 1 .. i : st.merged[m] = all[j]
    BY <1>1, <1>3
  <2>5. \A j \in 1 .. i : \E m \in DOMAIN st.merged : Says(st.merged[m]) = Says(all[j])
    <3>1. \E m \in DOMAIN st.merged : Says(st.merged[m]) = Says(all[i])
      BY <1>4, <2>2
    <3> QED
      BY <1>1, <1>4, <3>1
  <2>6. \A g \in 1 .. i, j \in 1 .. n :
          g < j /\ First(all, g) /\ First(all, j) /\ Clashing(all[g], all[j])
            => \E c \in st.conflicts : c.a = g /\ c.b = j
    BY <1>1, <1>7, <1>9, <1>10
  <2> HIDE DEF after
  <2>7. MergedSoFar(all, i, st)
    BY <1>p, <1>5, <1>6, <2>3, <2>4, <2>5, <2>6 DEF MergedSoFar, n
  <2> QED
    BY <2>1, <2>7 DEF after, i
<1>11. CASE i \notin st.processed
  <2>1. /\ after.processed = st.processed \cup {j \in later : Says(all[i]) = Says(all[j])} \cup {i}
        /\ after.merged = Append(st.merged, all[i])
        /\ st.conflicts \subseteq after.conflicts
        /\ \A c \in after.conflicts : c \in st.conflicts \/ (c.a = i /\ c.b \in later /\ Clashing(all[i], all[c.b]))
        /\ \A j \in later : Clashing(all[i], all[j]) => \E c \in after.conflicts : c.a = i /\ c.b = j
    <3>1. i \in 1 .. Len(all)
      BY <1>1 DEF n
    <3> HIDE DEF after
    <3>2. /\ after.processed = st.processed \cup {j \in later : Says(all[i]) = Says(all[j])} \cup {i}
          /\ after.merged = Append(st.merged, all[i])
      BY <1>11, <3>1, LineIsMerged DEF n, after
    <3>3. st.conflicts \subseteq after.conflicts
      BY <1>11, <3>1, LineIsMerged DEF n, after
    <3>4. \A c \in after.conflicts : c \in st.conflicts \/ (c.a = i /\ c.b \in later /\ Clashing(all[i], all[c.b]))
      BY <1>11, <3>1, LineIsMerged DEF n, after
    <3>5. \A j \in later : Clashing(all[i], all[j]) => \E c \in after.conflicts : c.a = i /\ c.b = j
      BY <1>11, <3>1, LineIsMerged DEF n, after
    <3> QED
      BY <3>2, <3>3, <3>4, <3>5
  <2>2. First(all, i)
    BY <1>9, <1>11
  <2> HIDE DEF after
  <2>3. later \subseteq 1 .. n /\ i \in 1 .. n
    BY <1>1
  <2>4. ASSUME NEW j \in 1 .. n PROVE j \in after.processed <=> SaidBefore(all, i, j)
    <3>1. CASE j = i
      <4>1. i <= j /\ Says(all[i]) = Says(all[j])
        BY <1>1, <3>1
      <4>2. SaidBefore(all, i, j)
        BY <1>8, <4>1
      <4> QED
        BY <2>1, <3>1, <4>2
    <3>2. CASE j \in i + 1 .. n
      <4>1. i <= j /\ j # i
        BY <1>1, <3>2
      <4>2. j \in after.processed <=> j \in st.processed \/ Says(all[i]) = Says(all[j])
        <5> HIDE DEF later
        <5>1. j \in later <=> j \notin st.processed
          BY <3>2 DEF later
        <5> QED
          BY <2>1, <4>1, <5>1
      <4> QED
        BY <1>2, <1>8, <4>1, <4>2
    <3>3. CASE j < i
      <4>1. ~(i <= j) /\ j # i /\ j \notin later
        BY <1>1, <3>3
      <4>2. j \in after.processed <=> j \in st.processed
        <5> HIDE DEF later
        <5> QED
          BY <2>1, <4>1
      <4> QED
        BY <1>2, <1>8, <4>1, <4>2
    <3> QED
      BY <1>1, <3>1, <3>2, <3>3
  <2> DEFINE l == Len(st.merged)
  <2>5. /\ l \in Nat /\ DOMAIN st.merged = 1 .. l /\ DOMAIN after.merged = 1 .. l + 1
        /\ (\A m \in 1 .. l : after.merged[m] = st.merged[m]) /\ after.merged[l + 1] = all[i]
        /\ \A m \in 1 .. l + 1 : m \in 1 .. l \/ m = l + 1
    <3>1. st.merged \in Seq(DialogueLine)
      BY DEF HalfMerged
    <3>2. all[i] \in DialogueLine
      BY <1>1 DEF n
    <3>3. l \in Nat /\ DOMAIN st.merged = 1 .. l
      BY <3>1
    <3>4. /\ DOMAIN Append(st.merged, all[i]) = 1 .. l + 1
          /\ \A m \in 1 .. l : Append(st.merged, all[i])[m] = st.merged[m]
          /\ Append(st.merged, all[i])[l + 1] = all[i]
      BY <3>1, <3>2, <3>3
    <3> HIDE DEF l
    <3>5. \A m \in 1 .. l + 1 : m \in 1 .. l \/ m = l + 1
      BY <3>3
    <3> QED
      BY <2>1, <3>3, <3>4, <3>5
  <2> HIDE DEF l
  <2>6. ASSUME NEW m \in DOMAIN after.merged PROVE \E j \in 1 .. i : after.merged[m] = all[j]
    <3>1. CASE m \in 1 .. l
      <4>1. PICK j \in 1 .. k : st.merged[m] = all[j]
        BY <1>3, <2>5, <3>1
      <4> QED
        BY <1>1, <2>5, <3>1, <4>1
    <3>2. CASE m = l + 1
      BY <1>1, <2>5, <3>2
    <3> QED
      BY <2>5, <3>1, <3>2
  <2>7. ASSUME NEW j \in 1 .. i PROVE \E m \in DOMAIN after.merged : Says(after.merged[m]) = Says(all[j])
    <3>1. CASE j \in 1 .. k
      <4>1. PICK m \in 1 .. l : Says(st.merged[m]) = Says(all[j])
        BY <1>4, <2>5, <3>1
      <4>2. m \in 1 .. l + 1
        BY <2>5
      <4> QED
        BY <2>5, <4>1, <4>2
    <3>2. CASE j = i
      <4>1. l + 1 \in 1 .. l + 1
        BY <2>5
      <4> QED
        BY <2>5, <3>2, <4>1
    <3> QED
      BY <1>1, <3>1, <3>2
  <2>8. ASSUME NEW m \in 1 .. l, Says(after.merged[m]) = Says(all[i]) PROVE FALSE
    <3>1. PICK j \in 1 .. k : st.merged[m] = all[j]
      BY <1>3, <2>5
    <3>2. Says(all[j]) = Says(all[i])
      BY <2>5, <2>8, <3>1
    <3> QED
      BY <1>1, <2>2, <3>2 DEF First
  <2>9. ASSUME NEW m \in DOMAIN after.merged, NEW o \in DOMAIN after.merged, Says(after.merged[m]) = Says(after.merged[o])
        PROVE  m = o
    <3>1. CASE m \in 1 .. l /\ o \in 1 .. l
      BY <1>5, <2>5, <2>9, <3>1
    <3>2. CASE m = l + 1 /\ o = l + 1
      BY <3>2
    <3>3. CASE m \in 1 .. l /\ o = l + 1
      BY <2>5, <2>8, <2>9, <3>3
    <3>4. CASE o \in 1 .. l /\ m = l + 1
      BY <2>5, <2>8, <2>9, <3>4
    <3> QED
      BY <2>5, <3>1, <3>2, <3>3, <3>4
  <2>10. ASSUME NEW c \in after.conflicts
         PROVE  c.a \in 1 .. n /\ c.b \in 1 .. n /\ Clashing(all[c.a], all[c.b])
    <3> HIDE DEF later
    <3> QED
      BY <1>6, <2>1, <2>3
  <2>11. ASSUME NEW g \in 1 .. i, NEW j \in 1 .. n, g < j, First(all, g), First(all, j), Clashing(all[g], all[j])
         PROVE  \E c \in after.conflicts : c.a = g /\ c.b = j
    <3>1. CASE g \in 1 .. k
      <4>1. PICK c \in st.conflicts : c.a = g /\ c.b = j
        BY <1>7, <2>11, <3>1
      <4> QED
        BY <2>1, <4>1
    <3>2. CASE g = i
      <4>1. j \notin st.processed
        <5>1. ASSUME NEW h \in 1 .. k, h <= j, Says(all[h]) = Says(all[j]) PROVE FALSE
          <6>1. h \in 1 .. j - 1
            BY <1>1, <2>11, <3>2
          <6> QED
            BY <2>11, <5>1, <6>1 DEF First
        <5>2. ~SaidBefore(all, k, j)
          BY <5>1 DEF SaidBefore
        <5> QED
          BY <1>2, <5>2
      <4>2. j \in i + 1 .. n
        BY <1>1, <2>11, <3>2
      <4>3. j \in later
        BY <4>1, <4>2
      <4> HIDE DEF later
      <4> QED
        BY <2>1, <2>11, <3>2, <4>3
    <3> QED
      BY <1>1, <3>1, <3>2
  <2>p. after.processed \subseteq 1 .. n
    <3> HIDE DEF later
    <3> QED
      BY <1>p, <2>1, <2>3
  <2>12. MergedSoFar(all, i, after)
    BY <2>p, <2>4, <2>6, <2>7, <2>9, <2>10, <2>11 DEF MergedSoFar, n
  <2> QED
    BY <2>12 DEF after, i
<1> QED
  BY <1>10, <1>11

LEMMA MergedToTheEnd ==
  ASSUME NEW all \in Seq(DialogueLine)
  PROVE  MergeLines(all) \in HalfMerged /\ MergedSoFar(all, Len(all), MergeLines(all))
<1> DEFINE n == Len(all)
           blank == [processed |-> {}, merged |-> <<>>, conflicts |-> {}]
<1>1. n \in Nat /\ 0 \in 0 .. n /\ n \in 0 .. n /\ 1 .. 0 = {}
  OBVIOUS
<1>2. PICK f : /\ f[0] = blank
               /\ \A k \in 1 .. n : f[k] = MergeStep(all, f[k - 1], k)
               /\ \A k \in 0 .. n : f[k] \in HalfMerged
               /\ MergeLines(all) = f[n]
  BY LinesAreMerged
<1> DEFINE P == {k \in 0 .. n : MergedSoFar(all, k, f[k])}
<1>3. 0 \in P
  <2>1. MergedSoFar(all, 0, blank)
    <3>1. blank.processed = {} /\ DOMAIN blank.merged = {} /\ blank.conflicts = {}
      OBVIOUS
    <3> HIDE DEF blank
    <3>2. \A j : ~SaidBefore(all, 0, j)
      BY <1>1 DEF SaidBefore
    <3> QED
      BY <1>1, <3>1, <3>2 DEF MergedSoFar
  <2> HIDE DEF blank
  <2> QED
    BY <1>1, <1>2, <2>1
<1>4. ASSUME NEW k \in 0 .. n - 1, k \in P PROVE k + 1 \in P
  <2>1. k \in 0 .. n /\ k + 1 \in 0 .. n /\ k + 1 \in 1 .. n /\ (k + 1) - 1 = k
    BY <1>1
  <2>2. MergedSoFar(all, k + 1, MergeStep(all, f[k], k + 1))
    BY <1>2, <1>4, <2>1, MergeGoesOn
  <2>3. f[k + 1] = MergeStep(all, f[k], k + 1)
    BY <1>2, <2>1
  <2> QED
    BY <2>1, <2>2, <2>3
<1>5. 0 .. n \subseteq P
  <2> HIDE DEF P
  <2> QED
    BY <1>1, <1>3, <1>4, StepByStep
<1>6. f[n] \in HalfMerged /\ MergedSoFar(all, n, f[n])
  BY <1>1, <1>2, <1>5
<1> QED
  BY <1>2, <1>6

\* Every line has a first one that says the same.
LEMMA SaidFirst ==
  ASSUME NEW all \in Seq(DialogueLine), NEW j \in 1 .. Len(all)
  PROVE  \E i \in 1 .. Len(all) : First(all, i) /\ Says(all[i]) = Says(all[j])
<1> DEFINE Same == {i \in 1 .. Len(all) : Says(all[i]) = Says(all[j])}
<1>1. Same \in SUBSET Nat /\ Same # {}
  OBVIOUS
<1>2. PICK i \in Same : \A h \in Same : i <= h
  <2> HIDE DEF Same
  <2> QED
    BY <1>1, LeastNumber
<1>3. i \in 1 .. Len(all) /\ Says(all[i]) = Says(all[j]) /\ Len(all) \in Nat
  BY <1>2
<1>4. ASSUME NEW h \in 1 .. i - 1, Says(all[h]) = Says(all[i]) PROVE FALSE
  <2>1. h \in 1 .. Len(all) /\ ~(i <= h)
    BY <1>3
  <2>2. h \in Same
    BY <1>3, <1>4, <2>1
  <2> QED
    BY <1>2, <2>1, <2>2
<1>5. First(all, i)
  BY <1>4 DEF First
<1> QED
  BY <1>3, <1>5

\* A merge says everything, once, and tells of every clash.
LEMMA MergeTells ==
  ASSUME NEW all \in Seq(DialogueLine), NEW done, done = MergeLines(all)
  PROVE  /\ done.processed = DOMAIN all
         /\ {Says(l) : l \in ToSet(done.merged)} = {Says(l) : l \in ToSet(all)}
         /\ Cardinality({Says(l) : l \in ToSet(done.merged)}) = Len(done.merged)
         /\ {{Says(all[c.a]), Says(all[c.b])} : c \in done.conflicts} =
              {{Says(p[1]), Says(p[2])} : p \in {q \in ToSet(all) \X ToSet(all) : Clashing(q[1], q[2])}}
<1> DEFINE n == Len(all)
           merged == done.merged
           l == Len(merged)
<1>1. n \in Nat /\ DOMAIN all = 1 .. n
  OBVIOUS
<1>2. done \in HalfMerged /\ MergedSoFar(all, n, done)
  BY MergedToTheEnd
<1>3. merged \in Seq(DialogueLine) /\ l \in Nat /\ DOMAIN merged = 1 .. l
  BY <1>2 DEF HalfMerged
<1>4. \A m \in 1 .. l : \E i \in 1 .. n : merged[m] = all[i]
  <2>1. \A m \in DOMAIN merged : \E i \in 1 .. n : merged[m] = all[i]
    BY <1>2 DEF MergedSoFar
  <2> QED
    BY <1>3, <2>1
<1>5. \A i \in 1 .. n : \E m \in 1 .. l : Says(merged[m]) = Says(all[i])
  BY <1>2, <1>3 DEF MergedSoFar
<1>6. \A m, o \in 1 .. l : Says(merged[m]) = Says(merged[o]) => m = o
  BY <1>2, <1>3 DEF MergedSoFar
<1>7. \A c \in done.conflicts : c.a \in 1 .. n /\ c.b \in 1 .. n /\ Clashing(all[c.a], all[c.b])
  BY <1>2 DEF MergedSoFar
<1>8. \A i \in 1 .. n, j \in 1 .. n :
        i < j /\ First(all, i) /\ First(all, j) /\ Clashing(all[i], all[j])
          => \E c \in done.conflicts : c.a = i /\ c.b = j
  BY <1>2 DEF MergedSoFar
<1>p. done.processed = 1 .. n
  <2>1. done.processed \subseteq 1 .. n /\ \A j \in 1 .. n : j \in done.processed <=> SaidBefore(all, n, j)
    BY <1>2 DEF MergedSoFar
  <2>2. ASSUME NEW j \in 1 .. n PROVE SaidBefore(all, n, j)
    <3>1. j <= j
      BY <1>1
    <3> QED
      BY <3>1 DEF SaidBefore
  <2> QED
    BY <2>1, <2>2
<1>9. ToSet(all) = {all[i] : i \in 1 .. n} /\ ToSet(merged) = {merged[m] : m \in 1 .. l}
  BY <1>1, <1>3 DEF ToSet
<1> HIDE DEF n, merged, l
<1> DEFINE Sayings == {Says(merged[m]) : m \in 1 .. l}
<1>10. {Says(x) : x \in ToSet(merged)} = Sayings
  BY <1>9
<1>11. {Says(x) : x \in ToSet(all)} = {Says(all[i]) : i \in 1 .. n}
  BY <1>9
<1>12. Sayings = {Says(all[i]) : i \in 1 .. n}
  <2>1. ASSUME NEW m \in 1 .. l PROVE Says(merged[m]) \in {Says(all[i]) : i \in 1 .. n}
    BY <1>4
  <2>2. ASSUME NEW i \in 1 .. n PROVE Says(all[i]) \in Sayings
    BY <1>5
  <2> QED
    BY <2>1, <2>2
<1>13. Cardinality(Sayings) = l
  <2> DEFINE g == [m \in 1 .. l |-> Says(merged[m])]
  <2>1. g \in Bijection(1 .. l, Sayings)
    <3>1. g \in [1 .. l -> Sayings] /\ \A m \in 1 .. l : g[m] = Says(merged[m])
      OBVIOUS
    <3>2. \A x \in Sayings : \E m \in 1 .. l : g[m] = x
      OBVIOUS
    <3> HIDE DEF g, Sayings
    <3> QED
      BY <1>6, <3>1, <3>2 DEF Bijection, Injection, Surjection, IsInjective
  <2>2. IsFiniteSet(1 .. l) /\ Cardinality(1 .. l) = l
    <3>1. 1 .. l = 1 .. l /\ 1 \in Int /\ l \in Int /\ (1 > l => l = 0)
      BY <1>3
    <3> QED
      BY <1>3, <3>1, FS_Interval
  <2> HIDE DEF Sayings, g
  <2>3. ExistsBijection(1 .. l, Sayings)
    BY <2>1 DEF ExistsBijection
  <2> QED
    BY <2>2, <2>3, FS_Bijection
<1> DEFINE Told == {{Says(all[c.a]), Says(all[c.b])} : c \in done.conflicts}
           Pairings == {q \in ToSet(all) \X ToSet(all) : Clashing(q[1], q[2])}
           ClashingPairs == {{Says(p[1]), Says(p[2])} : p \in Pairings}
<1>14. ASSUME NEW c \in done.conflicts PROVE {Says(all[c.a]), Says(all[c.b])} \in ClashingPairs
  <2> DEFINE p == <<all[c.a], all[c.b]>>
  <2>1. p \in Pairings /\ p[1] = all[c.a] /\ p[2] = all[c.b]
    BY <1>7, <1>9
  <2> HIDE DEF p, Pairings
  <2> QED
    BY <2>1
<1>15. ASSUME NEW p \in Pairings PROVE {Says(p[1]), Says(p[2])} \in Told
  <2>1. p[1] \in ToSet(all) /\ p[2] \in ToSet(all) /\ Clashing(p[1], p[2])
    OBVIOUS
  <2>2. PICK i0 \in 1 .. n, j0 \in 1 .. n : p[1] = all[i0] /\ p[2] = all[j0]
    BY <1>9, <2>1
  <2>3. PICK i \in 1 .. n : First(all, i) /\ Says(all[i]) = Says(all[i0])
    BY <2>2, SaidFirst DEF n
  <2>4. PICK j \in 1 .. n : First(all, j) /\ Says(all[j]) = Says(all[j0])
    BY <2>2, SaidFirst DEF n
  <2>5. Clashing(all[i], all[j]) /\ Clashing(all[j], all[i])
    <3>1. Clashing(all[i0], all[j0])
      BY <2>1, <2>2
    <3>2. Says(all[i0]) = Says(all[i]) /\ Says(all[j0]) = Says(all[j])
      BY <2>3, <2>4
    <3>3. Clashing(all[i], all[j])
      BY <3>1, <3>2, SayingTells
    <3> QED
      BY <3>3, SayingTells
  <2>6. i # j
    BY <2>5, SayingTells
  <2>7. CASE i < j
    <3>1. PICK c \in done.conflicts : c.a = i /\ c.b = j
      BY <1>8, <2>3, <2>4, <2>5, <2>7
    <3>2. {Says(all[c.a]), Says(all[c.b])} = {Says(p[1]), Says(p[2])}
      BY <2>2, <2>3, <2>4, <3>1
    <3> QED
      BY <3>2
  <2>8. CASE j < i
    <3>1. PICK c \in done.conflicts : c.a = j /\ c.b = i
      BY <1>8, <2>3, <2>4, <2>5, <2>8
    <3>2. {Says(all[c.a]), Says(all[c.b])} = {Says(p[1]), Says(p[2])}
      BY <2>2, <2>3, <2>4, <3>1
    <3> QED
      BY <3>2
  <2>9. i < j \/ j < i
    BY <1>1, <2>6
  <2> QED
    BY <2>7, <2>8, <2>9
<1>16. Told = ClashingPairs
  <2>1. ASSUME NEW x \in Told PROVE x \in ClashingPairs
    <3>1. PICK c \in done.conflicts : x = {Says(all[c.a]), Says(all[c.b])}
      OBVIOUS
    <3> HIDE DEF Told, ClashingPairs
    <3> QED
      BY <1>14, <3>1
  <2>2. ASSUME NEW x \in ClashingPairs PROVE x \in Told
    <3> HIDE DEF Pairings
    <3>1. PICK p \in Pairings : x = {Says(p[1]), Says(p[2])}
      OBVIOUS
    <3> HIDE DEF Told, ClashingPairs
    <3> QED
      BY <1>15, <3>1
  <2> HIDE DEF Told, ClashingPairs
  <2> QED
    BY <2>1, <2>2
<1> HIDE DEF Sayings
<1> QED
  BY <1>1, <1>p, <1>10, <1>11, <1>12, <1>13, <1>16 DEF merged, l, n

\* Sequences joined are one of the same things.
LEMMA JoinedSequence ==
  ASSUME NEW S, NEW seqs \in Seq(Seq(S))
  PROVE  FlattenSeq(seqs) \in Seq(S)
<1> DEFINE n == Len(seqs)
<1>1. n \in Nat /\ \A k \in 1 .. n : seqs[k] \in Seq(S)
  OBVIOUS
<1>2. CASE n = 0
  <2>1. seqs = <<>>
    BY <1>2
  <2>2. FlattenSeq(seqs) = seqs
    BY <1>2 DEF FlattenSeq
  <2>3. <<>> \in Seq(S)
    OBVIOUS
  <2> QED
    BY <2>1, <2>2, <2>3
<1>3. CASE n # 0
  <2> DEFINE T == Seq(S)
             Join(f, i) == IF i = 1 THEN seqs[i] ELSE f[i - 1] \o seqs[i]
             step == [s \in T |-> [i \in 1 .. n |-> IF i = 1 THEN s ELSE s \o seqs[i]]]
             flatten == CHOOSE g : g = [i \in 1 .. n |-> Join(g, i)]
  <2>1. 1 \in Nat /\ 1 <= n /\ 1 \in 1 .. n /\ n \in 1 .. n
    BY <1>1, <1>3
  <2>2. seqs[1] \in T
    BY <1>1, <2>1
  <2>3. ASSUME NEW s \in T, NEW i \in 1 .. n PROVE s \o seqs[i] \in T
    BY <1>1
  <2>4. step \in [T -> [1 .. n -> T]]
    <3> HIDE DEF T
    <3> QED
      BY <2>3
  <2>5. PICK f \in [1 .. n -> T] : Follows(f, 1, n, seqs[1], step)
    <3> HIDE DEF step, n, T
    <3> QED
      BY <1>1, <2>1, <2>2, <2>4, RecursionIsDefined
  <2>6. f = [i \in 1 .. n |-> Join(f, i)]
    <3>1. ASSUME NEW i \in 1 .. n PROVE f[i] = Join(f, i)
      <4>1. CASE i # 1
        <5>1. i - 1 \in 1 .. n
          BY <1>1, <4>1
        <5>2. f[i - 1] \in T
          BY <5>1
        <5>3. f[i] = step[f[i - 1]][i]
          BY <2>5, <4>1 DEF Follows
        <5> HIDE DEF T
        <5> QED
          BY <4>1, <5>2, <5>3
      <4> QED
        BY <2>5, <4>1 DEF Follows
    <3> HIDE DEF Join
    <3> QED
      BY <3>1
  <2>7. flatten = [i \in 1 .. n |-> Join(flatten, i)]
    BY <2>6
  <2>8. FlattenSeq(seqs) = flatten[n]
    BY <1>3 DEF FlattenSeq
  <2>9. \A i \in 1 .. n : flatten[i] = Join(flatten, i)
    <3> HIDE DEF flatten, Join
    <3> QED
      BY <2>7
  <2> HIDE DEF flatten
  <2> DEFINE P == {i \in 1 .. n : flatten[i] \in T}
  <2>10. 1 \in P
    BY <2>1, <2>2, <2>9
  <2>11. ASSUME NEW i \in 1 .. n - 1, i \in P PROVE i + 1 \in P
    <3>1. i + 1 \in 1 .. n /\ i + 1 # 1 /\ (i + 1) - 1 = i
      BY <1>1
    <3>2. flatten[i + 1] = flatten[i] \o seqs[i + 1]
      BY <2>9, <3>1
    <3>3. flatten[i] \in T
      BY <2>11
    <3> HIDE DEF T
    <3> QED
      BY <2>3, <3>1, <3>2, <3>3
  <2>12. 1 .. n \subseteq P
    <3> HIDE DEF P
    <3> QED
      BY <1>1, <2>1, <2>10, <2>11, StepByStep
  <2>13. flatten[n] \in T
    BY <2>1, <2>12
  <2> QED
    BY <2>8, <2>13
<1> QED
  BY <1>2, <1>3

\* The lines of some files are lines again, each with a number of its own.
LEMMA AllLinesAreLines ==
  ASSUME NEW files \in Seq(Seq(AnyLine))
  PROVE  AllLines([k \in DOMAIN files |-> ParseASS(files[k])]) \in Seq(DialogueLine)
<1> DEFINE n == Len(files)
           parsed == [k \in DOMAIN files |-> ParseASS(files[k])]
           each == [k \in DOMAIN parsed |-> parsed[k].lines]
           joined == FlattenSeq(each)
           numbered == [k \in DOMAIN joined |-> [joined[k] EXCEPT !.id = k]]
<1>1. n \in Nat /\ DOMAIN files = 1 .. n /\ \A k \in 1 .. n : files[k] \in Seq(AnyLine)
  OBVIOUS
<1>2. each = [k \in 1 .. n |-> ParseASS(files[k]).lines]
  BY <1>1
<1>3. each \in Seq(Seq(DialogueLine))
  <2>1. \A k \in 1 .. n : ParseASS(files[k]).lines \in Seq(DialogueLine)
    BY <1>1, WhatIsRead
  <2> HIDE DEF each
  <2>2. each \in [1 .. n -> Seq(DialogueLine)]
    BY <1>2, <2>1
  <2> HIDE DEF n
  <2> QED
    BY <1>1, <2>2
<1>4. joined \in Seq(DialogueLine)
  <2> HIDE DEF each
  <2> QED
    BY <1>3, JoinedSequence
<1>5. AllLines(parsed) = ByStart(numbered)
  BY DEF AllLines
<1> HIDE DEF joined
<1> DEFINE l == Len(joined)
<1>6. l \in Nat /\ DOMAIN joined = 1 .. l /\ \A k \in 1 .. l : joined[k] \in DialogueLine
  BY <1>4
<1>7. ASSUME NEW k \in 1 .. l PROVE [joined[k] EXCEPT !.id = k] \in DialogueLine /\ [joined[k] EXCEPT !.id = k].id = k
  <2>1. joined[k] \in DialogueLine /\ k \in Nat
    BY <1>6
  <2> QED
    BY <2>1 DEF DialogueLine
<1>8. numbered \in [1 .. l -> DialogueLine] /\ \A k \in 1 .. l : numbered[k].id = k
  BY <1>6, <1>7
<1> HIDE DEF numbered
<1>9. numbered \in Seq(DialogueLine) /\ DOMAIN numbered = 1 .. l
  BY <1>6, <1>8
<1>10. Numbered(numbered)
  BY <1>8, <1>9 DEF Numbered
<1> QED
  BY <1>5, <1>9, <1>10, SortedLinesAreLines

-----------------------------------------------------------------------------
\* A line that overlaps another is overlapped by it.
LEMMA OverlapsArePaired ==
  ASSUME NEW lines \in Seq(DialogueLine), Numbered(lines)
  PROVE  Cardinality(Timeline(lines).overlapping) # 1
<1> DEFINE n == Len(lines)
           Overlaps(j) == \E k \in 1 .. n \ {j} : TimeRangesOverlap(lines[j], lines[k])
           Shown == {lines[j].id : j \in {i \in 1 .. n : Overlaps(i)}}
<1>1. n \in Nat /\ DOMAIN lines = 1 .. n
  OBVIOUS
<1>2. Timeline(lines).overlapping = Shown
  BY <1>1 DEF Timeline
<1>3. IsFiniteSet(Shown)
  <2>1. IsFiniteSet(1 .. n)
    BY <1>1, FS_Interval
  <2>2. IsFiniteSet({i \in 1 .. n : Overlaps(i)})
    <3> HIDE DEF Overlaps
    <3> QED
      BY <2>1, FS_Subset
  <2> DEFINE T == {i \in 1 .. n : Overlaps(i)}
             g == [i \in T |-> lines[i].id]
  <2>3. g \in Surjection(T, Shown)
    <3>1. Shown = {lines[i].id : i \in T}
      OBVIOUS
    <3> HIDE DEF Shown, T
    <3>2. g \in [T -> Shown] /\ \A x \in Shown : \E i \in T : g[i] = x
      BY <3>1
    <3> HIDE DEF g
    <3> QED
      BY <3>2 DEF Surjection
  <2> HIDE DEF T, g, Shown
  <2> QED
    BY <2>2, <2>3, FS_Surjection DEF T
<1>4. ASSUME NEW x, Shown = {x} PROVE FALSE
  <2>1. PICK j \in 1 .. n : Overlaps(j) /\ lines[j].id = x
    BY <1>4
  <2>2. PICK k \in 1 .. n \ {j} : TimeRangesOverlap(lines[j], lines[k])
    BY <2>1
  <2>3. Overlaps(k)
    <3>1. TimeRangesOverlap(lines[k], lines[j]) /\ j \in 1 .. n \ {k}
      BY <2>2 DEF TimeRangesOverlap
    <3> QED
      BY <3>1
  <2>4. lines[k].id \in Shown
    <3> HIDE DEF Overlaps
    <3> QED
      BY <2>2, <2>3
  <2>5. lines[k].id = lines[j].id
    BY <1>4, <2>1, <2>4
  <2> QED
    BY <1>1, <2>2, <2>5 DEF Numbered
<1> HIDE DEF Shown
<1>5. ~(\E x : Shown = {x})
  BY <1>4
<1> QED
  BY <1>2, <1>3, <1>5, FS_Singleton

\* What the operations have made of what was read of real files.
AssInv ==
  /\ \E written \in Seq(AnyLine) : assRead = ParseASS(written)
  /\ assWritten # <<>> => assWritten = GenerateASS(assRead.info, assRead.styles, assRead.lines)
  /\ assMerge.all \in Seq(DialogueLine) /\ assMerge.done = MergeLines(assMerge.all)
  /\ \E lines \in Seq(DialogueLine) : Numbered(lines) /\ assShown.timeline = Timeline(lines)

LEMMA AssInvSays == AssInv => AssFilesTellAll
<1> SUFFICES ASSUME AssInv PROVE AssFilesTellAll
  OBVIOUS
<1>1. WrittenIsRead
  <2>1. PICK written \in Seq(AnyLine) : assRead = ParseASS(written)
    BY DEF AssInv
  <2> QED
    BY <2>1, AssWrittenIsRead DEF AssInv
<1>2. MergeTellsClashes
  <2> DEFINE all == assMerge.all
             done == assMerge.done
  <2>1. /\ {Says(l) : l \in ToSet(done.merged)} = {Says(l) : l \in ToSet(all)}
        /\ Cardinality({Says(l) : l \in ToSet(done.merged)}) = Len(done.merged)
        /\ {{Says(all[c.a]), Says(all[c.b])} : c \in done.conflicts} =
             {{Says(p[1]), Says(p[2])} : p \in {q \in ToSet(all) \X ToSet(all) : Clashing(q[1], q[2])}}
    BY MergeTells DEF AssInv
  <2>2. \A a, b : Clashing(a, b) <=>
          /\ Says(a) # Says(b) /\ a.text # b.text
          /\ SameTimes(a, b) \/ (a.start < b.end /\ b.start < a.end)
    <3> SUFFICES ASSUME NEW a, NEW b
                 PROVE  Clashing(a, b) <=> /\ Says(a) # Says(b) /\ a.text # b.text
                                           /\ SameTimes(a, b) \/ (a.start < b.end /\ b.start < a.end)
      OBVIOUS
    <3>1. Clashing(a, b) => Says(a) # Says(b)
      BY SayingTells
    <3> QED
      BY <3>1 DEF Clashing, TimeRangesOverlap
  <2> DEFINE Together(a, b) == Says(a) # Says(b) /\ a.text # b.text
                               /\ (SameTimes(a, b) \/ (a.start < b.end /\ b.start < a.end))
  <2>3. {q \in ToSet(all) \X ToSet(all) : Clashing(q[1], q[2])} = {q \in ToSet(all) \X ToSet(all) : Together(q[1], q[2])}
    BY <2>2
  <2>4. {{Says(all[c.a]), Says(all[c.b])} : c \in done.conflicts} =
          {{Says(p[1]), Says(p[2])} : p \in {q \in ToSet(all) \X ToSet(all) : Together(q[1], q[2])}}
    BY <2>1, <2>3
  <2> QED
    BY <2>1, <2>4, Zenon DEF MergeTellsClashes, Says
<1> QED
  BY <1>1, <1>2 DEF AssFilesTellAll

LEMMA AssInvTypes == AssInv => AssTypeOK
<1> SUFFICES ASSUME AssInv PROVE AssTypeOK
  OBVIOUS
<1>1. PICK written \in Seq(AnyLine) : assRead = ParseASS(written)
  BY DEF AssInv
<1>2. /\ assRead.valid \in BOOLEAN /\ assRead.lines \in Seq(DialogueLine)
      /\ \A i, j \in DOMAIN assRead.lines : i < j => assRead.lines[i].start <= assRead.lines[j].start
  BY <1>1, WhatIsRead
<1>3. ASSUME NEW k \in 1 .. Len(assRead.lines) - 1 PROVE assRead.lines[k].start <= assRead.lines[k + 1].start
  <2>1. k \in DOMAIN assRead.lines /\ k + 1 \in DOMAIN assRead.lines /\ k < k + 1
    BY <1>2
  <2> QED
    BY <1>2, <2>1
<1>4. assMerge.done.processed = DOMAIN assMerge.all
  BY MergeTells DEF AssInv
<1>5. Cardinality(assShown.timeline.overlapping) # 1
  BY OverlapsArePaired DEF AssInv
<1> QED
  BY <1>2, <1>3, <1>4, <1>5 DEF AssTypeOK

LEMMA AssInvInit == AssInit => AssInv
<1> SUFFICES ASSUME AssInit PROVE AssInv
  OBVIOUS
<1> DEFINE none == <<>>
<1>1. none \in Seq(AnyLine) /\ none \in Seq(DialogueLine)
  OBVIOUS
<1>2. assRead = ParseASS(none) /\ assWritten = <<>> /\ assMerge = [all |-> none, done |-> MergeLines(none)]
  BY DEF AssInit, Unused, NothingRead, NothingMerged
<1>s. assShown.timeline = Timeline(none) /\ Numbered(none)
  BY DEF AssInit, Unused, NothingShown, Numbered
<1> HIDE DEF none
<1>3. assMerge.all = none /\ assMerge.done = MergeLines(none)
  BY <1>2
<1> QED
  BY <1>s, <1>1, <1>2, <1>3 DEF AssInv

LEMMA AssInvNext == AssInv /\ [AssNext]_assVars => AssInv'
<1> SUFFICES ASSUME AssInv, [AssNext]_assVars PROVE AssInv'
  OBVIOUS
<1>1. ASSUME NEW f \in AssFile, Unused, ReadAss(f) PROVE AssInv'
  <2>1. f \in Seq(AnyLine)
    <3>1. f \in Seq(RawLine)
      BY AssAssumption
    <3> QED
      BY <3>1, RawLinesAreLines
  <2>2. assRead' = ParseASS(f) /\ assWritten' = <<>> /\ assMerge' = assMerge /\ assShown' = assShown
    BY <1>1 DEF ReadAss, Unused
  <2> QED
    BY <2>1, <2>2 DEF AssInv
<1>f. ASSUME NEW files \in MergeInput
      PROVE  files \in Seq(Seq(AnyLine)) /\ files[1] \in Seq(AnyLine) /\ files[Len(files)] \in Seq(AnyLine)
  <2>1. files \in Seq(Seq(RawLine)) /\ files # <<>>
    BY AssAssumption
  <2>2. Len(files) \in Nat /\ DOMAIN files = 1 .. Len(files) /\ \A k \in 1 .. Len(files) : files[k] \in Seq(RawLine)
    BY <2>1
  <2>3. \A f \in Seq(RawLine) : f \in Seq(AnyLine)
    BY RawLinesAreLines
  <2>4. files \in [1 .. Len(files) -> Seq(AnyLine)]
    BY <2>1, <2>2, <2>3
  <2>5. 1 \in 1 .. Len(files) /\ Len(files) \in 1 .. Len(files)
    BY <2>1, <2>2
  <2> QED
    BY <2>2, <2>3, <2>4, <2>5
<1>2. ASSUME NEW files \in MergeInput, MergeAss(files) PROVE AssInv'
  <2> DEFINE parsed == [k \in DOMAIN files |-> ParseASS(files[k])]
             all == AllLines(parsed)
  <2>1. files \in Seq(Seq(AnyLine))
    BY <1>f
  <2>2. all \in Seq(DialogueLine)
    BY <2>1, AllLinesAreLines
  <2>3. assMerge' = [all |-> all, done |-> MergeLines(all)] /\ assRead' = assRead /\ assWritten' = assWritten /\ assShown' = assShown
    BY <1>2 DEF MergeAss
  <2> HIDE DEF all
  <2>4. assMerge'.all = all /\ assMerge'.done = MergeLines(all)
    BY <2>3
  <2> QED
    BY <2>2, <2>3, <2>4 DEF AssInv
<1>3. ASSUME NEW older \in Seq(AnyLine), NEW new \in Seq(AnyLine), ShowAss(older, new) PROVE AssInv'
  <2> DEFINE lines == ParseASS(new).lines
  <2>1. lines \in Seq(DialogueLine) /\ Numbered(lines)
    BY WhatIsRead
  <2>2. /\ assShown' = [comparison |-> Comparison(ParseASS(older).lines, lines), timeline |-> Timeline(lines)]
        /\ assRead' = assRead /\ assWritten' = assWritten /\ assMerge' = assMerge
    BY <1>3 DEF ShowAss
  <2> HIDE DEF lines
  <2>3. assShown'.timeline = Timeline(lines)
    BY <2>2
  <2> QED
    BY <2>1, <2>2, <2>3 DEF AssInv
<1>4. CASE WriteAss
  BY <1>4 DEF WriteAss, AssInv
<1>5. CASE UNCHANGED assVars
  BY <1>5 DEF assVars, AssInv
<1> QED
  BY <1>f, <1>1, <1>2, <1>3, <1>4, <1>5 DEF AssNext

\* Nothing is changed on the way through a file and no clash is passed over, whatever
\* the files say (ass-parser.ts, processMergeJob).
THEOREM FilesTellAll == AssSpec => [](AssTypeOK /\ AssFilesTellAll)
<1>1. AssSpec => []AssInv
  BY AssInvInit, AssInvNext, PTL DEF AssSpec
<1> QED
  BY <1>1, AssInvSays, AssInvTypes, PTL

-----------------------------------------------------------------------------
(* Comparing two versions of a text                                        *)
(*                                                                         *)
(* The rows found, by the table or by the line numbers, are steps of a     *)
(* path through both texts: behind row k are P[k] lines of the old one and *)
(* Q[k] of the new one. The ranges around the changes are in order and     *)
(* apart, and hold every row that is not the same in both, so the texts    *)
(* agree in between, and a hunk holds the lines of either that its part of *)
(* the path goes by.                                                       *)

Row == [kind : {"same", "remove", "add"}, oldLine : Nat, newLine : Nat, text : TextLine]
TextLines == Seq(TextLine)

\* Row r leads from behind line i of a and j of b to behind i2 and j2.
Leads(a, b, r, i, j, i2, j2) ==
  \/ /\ i2 = i + 1 /\ j2 = j + 1 /\ i2 <= Len(a) /\ j2 <= Len(b) /\ a[i2] = b[j2]
     /\ r = SameLine(a, b, i2, j2)
  \/ i2 = i + 1 /\ j2 = j /\ i2 <= Len(a) /\ r = RemoveLine(a, i2)
  \/ i2 = i /\ j2 = j + 1 /\ j2 <= Len(b) /\ r = AddLine(b, j2)

\* Behind row k are P[k] lines of a and Q[k] of b.
Path(a, b, rows, P, Q) ==
  /\ P \in [0 .. Len(rows) -> Nat] /\ Q \in [0 .. Len(rows) -> Nat]
  /\ P[0] = 0 /\ Q[0] = 0
  /\ \A k \in 1 .. Len(rows) : Leads(a, b, rows[k], P[k - 1], Q[k - 1], P[k], Q[k])

\* The rows account for the first i lines of a and j of b, in order.
Script(a, b, rows, i, j) ==
  /\ rows \in Seq(Row)
  /\ \E P, Q : Path(a, b, rows, P, Q) /\ P[Len(rows)] = i /\ Q[Len(rows)] = j

LEMMA ScriptGrows ==
  ASSUME NEW a \in TextLines, NEW b \in TextLines, NEW rows, NEW i \in Nat, NEW j \in Nat,
         NEW r, NEW i2 \in Nat, NEW j2 \in Nat,
         Script(a, b, rows, i, j), Leads(a, b, r, i, j, i2, j2)
  PROVE  Script(a, b, Append(rows, r), i2, j2)
<1>1. PICK P, Q : Path(a, b, rows, P, Q) /\ P[Len(rows)] = i /\ Q[Len(rows)] = j
  BY DEF Script
<1>2. rows \in Seq(Row)
  BY DEF Script
<1>3. r \in Row
  <2>1. \A k \in 1 .. Len(a) : a[k] \in TextLine
    BY DEF TextLines
  <2>2. \A k \in 1 .. Len(b) : b[k] \in TextLine
    BY DEF TextLines
  <2> QED
    BY <2>1, <2>2 DEF Leads, SameLine, RemoveLine, AddLine, DiffRow, Row
<1> DEFINE n == Len(rows)
           more == Append(rows, r)
           P2 == [k \in 0 .. n + 1 |-> IF k = n + 1 THEN i2 ELSE P[k]]
           Q2 == [k \in 0 .. n + 1 |-> IF k = n + 1 THEN j2 ELSE Q[k]]
<1>4. n \in Nat /\ Len(more) = n + 1 /\ more[n + 1] = r /\ more \in Seq(Row)
      /\ \A k \in 1 .. n : more[k] = rows[k]
  BY <1>2, <1>3
<1>5. P \in [0 .. n -> Nat] /\ Q \in [0 .. n -> Nat] /\ P[0] = 0 /\ Q[0] = 0
  BY <1>1 DEF Path
<1>6. \A k \in 1 .. n : Leads(a, b, rows[k], P[k - 1], Q[k - 1], P[k], Q[k])
  BY <1>1 DEF Path
<1> HIDE DEF n, more
<1>7. P2 \in [0 .. n + 1 -> Nat] /\ Q2 \in [0 .. n + 1 -> Nat] /\ P2[0] = 0 /\ Q2[0] = 0
      /\ P2[n + 1] = i2 /\ Q2[n + 1] = j2
      /\ \A k \in 0 .. n : P2[k] = P[k] /\ Q2[k] = Q[k]
  BY <1>4, <1>5
<1> HIDE DEF P2, Q2
<1>8. ASSUME NEW k \in 1 .. n + 1 PROVE Leads(a, b, more[k], P2[k - 1], Q2[k - 1], P2[k], Q2[k])
  <2>1. CASE k = n + 1
    <3>1. k - 1 = n /\ n \in 0 .. n
      BY <1>4, <2>1
    <3>2. P2[k - 1] = i /\ Q2[k - 1] = j /\ P2[k] = i2 /\ Q2[k] = j2 /\ more[k] = r
      BY <1>1, <1>4, <1>7, <2>1, <3>1 DEF n
    <3> QED
      BY <3>2
  <2>2. CASE k # n + 1
    <3>1. k \in 1 .. n /\ k \in 0 .. n /\ k - 1 \in 0 .. n
      BY <1>4, <2>2
    <3>2. P2[k - 1] = P[k - 1] /\ Q2[k - 1] = Q[k - 1] /\ P2[k] = P[k] /\ Q2[k] = Q[k] /\ more[k] = rows[k]
      BY <1>4, <1>7, <3>1
    <3> QED
      BY <1>6, <3>1, <3>2
  <2> QED
    BY <2>1, <2>2
<1>9. Path(a, b, more, P2, Q2) /\ P2[Len(more)] = i2 /\ Q2[Len(more)] = j2
  BY <1>4, <1>7, <1>8 DEF Path
<1> QED
  BY <1>4, <1>9 DEF Script, more

LEMMA NoRowsYet ==
  ASSUME NEW a, NEW b PROVE Script(a, b, <<>>, 0, 0)
<1> DEFINE P == [k \in 0 .. 0 |-> 0]
<1>1. Path(a, b, <<>>, P, P) /\ P[0] = 0 /\ Len(<<>>) = 0
  BY DEF Path
<1> QED
  BY <1>1 DEF Script

-----------------------------------------------------------------------------
Walks(a, b) ==
  {walk \in [oldIndex : 0 .. Len(a), newIndex : 0 .. Len(b), rows : Seq(Row)] :
     Script(a, b, walk.rows, walk.oldIndex, walk.newIndex)}

LEMMA WalkGoesOn ==
  ASSUME NEW a \in TextLines, NEW b \in TextLines, NEW common, NEW walk \in Walks(a, b),
         NEW next, next = Walk(a, b, common, walk)
  PROVE  /\ next \in Walks(a, b)
         /\ walk.oldIndex + walk.newIndex = Len(a) + Len(b)
            \/ next.oldIndex + next.newIndex > walk.oldIndex + walk.newIndex
         /\ walk.oldIndex + walk.newIndex = Len(a) + Len(b) => next = walk
<1> DEFINE i == walk.oldIndex + 1
           j == walk.newIndex + 1
           same == i <= Len(a) /\ j <= Len(b) /\ a[i] = b[j]
           longer == common[i + 1, j] >= common[i, j + 1]
           removed == i <= Len(a) /\ (j > Len(b) \/ longer)
           end == i > Len(a) /\ j > Len(b)
<1>1. /\ walk.oldIndex \in 0 .. Len(a) /\ walk.newIndex \in 0 .. Len(b) /\ walk.rows \in Seq(Row)
      /\ Script(a, b, walk.rows, walk.oldIndex, walk.newIndex)
      /\ Len(a) \in Nat /\ Len(b) \in Nat /\ walk.oldIndex \in Nat /\ walk.newIndex \in Nat
  BY DEF Walks, TextLines
<1>2. i \in Nat /\ j \in Nat /\ i - 1 = walk.oldIndex /\ j - 1 = walk.newIndex
  BY <1>1
<1>3. next = CASE end -> walk
              [] same -> [oldIndex |-> i, newIndex |-> j, rows |-> Append(walk.rows, SameLine(a, b, i, j))]
              [] ~same /\ removed -> [oldIndex |-> i, newIndex |-> j - 1, rows |-> Append(walk.rows, RemoveLine(a, i))]
              [] ~same /\ ~removed /\ j <= Len(b) ->
                   [oldIndex |-> i - 1, newIndex |-> j, rows |-> Append(walk.rows, AddLine(b, j))]
  BY DEF Walk
<1> HIDE DEF longer
<1>g. (removed => i <= Len(a)) /\ (~removed => i > Len(a) \/ j <= Len(b))
  BY <1>1, <1>2
<1>4. CASE end
  <2>1. next = walk
    <3>1. ~same /\ ~removed /\ ~(j <= Len(b))
      BY <1>1, <1>2, <1>4
    <3> HIDE DEF same, removed, i, j
    <3> QED
      BY <1>3, <1>4, <3>1
  <2>2. walk.oldIndex + walk.newIndex = Len(a) + Len(b)
    BY <1>1, <1>4
  <2> QED
    BY <2>1, <2>2
<1>5. ASSUME NEW i2 \in 0 .. Len(a), NEW j2 \in 0 .. Len(b), NEW r, ~end,
             Leads(a, b, r, walk.oldIndex, walk.newIndex, i2, j2),
             next = [oldIndex |-> i2, newIndex |-> j2, rows |-> Append(walk.rows, r)]
      PROVE  /\ next \in Walks(a, b)
             /\ next.oldIndex + next.newIndex > walk.oldIndex + walk.newIndex
             /\ walk.oldIndex + walk.newIndex # Len(a) + Len(b)
  <2>1. i2 \in Nat /\ j2 \in Nat
    BY <1>1
  <2>2. Script(a, b, Append(walk.rows, r), i2, j2)
    BY <1>1, <1>5, <2>1, ScriptGrows
  <2>3. Append(walk.rows, r) \in Seq(Row)
    BY <2>2 DEF Script
  <2>4. i2 + j2 > walk.oldIndex + walk.newIndex
    BY <1>1, <1>5 DEF Leads
  <2>5. walk.oldIndex + walk.newIndex # Len(a) + Len(b)
    BY <1>1, <1>5
  <2> DEFINE more == Append(walk.rows, r)
  <2>6. next = [oldIndex |-> i2, newIndex |-> j2, rows |-> more] /\ more \in Seq(Row) /\ Script(a, b, more, i2, j2)
    BY <1>5, <2>2, <2>3
  <2> HIDE DEF more
  <2>7. next.oldIndex = i2 /\ next.newIndex = j2 /\ next.rows = more
    BY <2>6
  <2>8. next \in [oldIndex : 0 .. Len(a), newIndex : 0 .. Len(b), rows : Seq(Row)]
    BY <2>6
  <2>9. next \in Walks(a, b)
    BY <2>6, <2>7, <2>8 DEF Walks
  <2> QED
    BY <2>4, <2>5, <2>7, <2>9
<1>6. CASE ~end /\ same
  <2>1. Leads(a, b, SameLine(a, b, i, j), walk.oldIndex, walk.newIndex, i, j)
    BY <1>6 DEF Leads
  <2>2. i \in 0 .. Len(a) /\ j \in 0 .. Len(b)
    BY <1>1, <1>2, <1>6
  <2>3. next = [oldIndex |-> i, newIndex |-> j, rows |-> Append(walk.rows, SameLine(a, b, i, j))]
    <3> HIDE DEF same, removed, i, j, end
    <3> QED
      BY <1>3, <1>6
  <2> HIDE DEF i, j, end
  <2> QED
    BY <1>5, <1>6, <2>1, <2>2, <2>3
<1>7. CASE ~end /\ ~same /\ removed
  <2>1. Leads(a, b, RemoveLine(a, i), walk.oldIndex, walk.newIndex, i, j - 1)
    BY <1>2, <1>7 DEF Leads
  <2>2. i \in 0 .. Len(a) /\ j - 1 \in 0 .. Len(b)
    BY <1>1, <1>2, <1>7
  <2>3. next = [oldIndex |-> i, newIndex |-> j - 1, rows |-> Append(walk.rows, RemoveLine(a, i))]
    <3> HIDE DEF same, removed, i, j, end
    <3> QED
      BY <1>3, <1>7
  <2> HIDE DEF i, j, end
  <2> QED
    BY <1>5, <1>7, <2>1, <2>2, <2>3
<1>8. CASE ~end /\ ~same /\ ~removed
  <2>0. j <= Len(b)
    BY <1>1, <1>2, <1>8, <1>g
  <2>1. Leads(a, b, AddLine(b, j), walk.oldIndex, walk.newIndex, i - 1, j)
    BY <1>2, <2>0 DEF Leads
  <2>2. i - 1 \in 0 .. Len(a) /\ j \in 0 .. Len(b)
    BY <1>1, <1>2, <2>0
  <2>3. next = [oldIndex |-> i - 1, newIndex |-> j, rows |-> Append(walk.rows, AddLine(b, j))]
    <3> HIDE DEF same, removed, i, j, end
    <3> QED
      BY <1>3, <1>8, <2>0
  <2> HIDE DEF i, j, end
  <2> QED
    BY <1>5, <1>8, <2>1, <2>2, <2>3
<1> HIDE DEF same, removed, end
<1> QED
  BY <1>4, <1>6, <1>7, <1>8

LEMMA TableIsScript ==
  ASSUME NEW a \in TextLines, NEW b \in TextLines
  PROVE  Script(a, b, TableRows(a, b), Len(a), Len(b))
<1> DEFINE common == CommonLengths(a, b)
           n == Len(a) + Len(b)
           S == Walks(a, b)
           first == [oldIndex |-> 0, newIndex |-> 0, rows |-> <<>>]
           Turn(w) == Walk(a, b, common, w)
           step == [w \in S |-> [k \in 0 .. n |-> Turn(w)]]
           Found(f, k) == IF k = 0 THEN first ELSE Turn(f[k - 1])
           walk[k \in 0 .. n] == Found(walk, k)
<1> HIDE DEF common
<1>1. n \in Nat /\ 0 <= n /\ 0 \in Nat /\ Len(a) \in Nat /\ Len(b) \in Nat
  BY DEF TextLines
<1>2. first \in S
  <2>1. Script(a, b, <<>>, 0, 0) /\ 0 \in 0 .. Len(a) /\ 0 \in 0 .. Len(b) /\ <<>> \in Seq(Row)
    BY <1>1, NoRowsYet
  <2> QED
    BY <2>1 DEF Walks
<1>3. ASSUME NEW w \in S PROVE Turn(w) \in S
  BY WalkGoesOn
<1>4. step \in [S -> [0 .. n -> S]]
  <2> HIDE DEF Turn, S
  <2> QED
    BY <1>3
<1>5. PICK f \in [0 .. n -> S] : Follows(f, 0, n, first, step)
  <2> HIDE DEF step, n, first, S
  <2> QED
    BY <1>1, <1>2, <1>4, RecursionIsDefined
<1> HIDE DEF first, S, n
<1>6. f = [k \in 0 .. n |-> Found(f, k)]
  <2>1. ASSUME NEW k \in 0 .. n PROVE f[k] = Found(f, k)
    <3>1. CASE k # 0
      <4>1. k - 1 \in 0 .. n
        BY <1>1, <3>1
      <4>2. f[k - 1] \in S
        BY <4>1
      <4>3. f[k] = step[f[k - 1]][k]
        BY <1>5, <3>1 DEF Follows
      <4> HIDE DEF Turn
      <4> QED
        BY <3>1, <4>2, <4>3
    <3> QED
      BY <1>5, <3>1 DEF Follows
  <2> HIDE DEF Found
  <2> QED
    BY <2>1
<1>7. walk = [k \in 0 .. n |-> Found(walk, k)]
  <2> HIDE DEF Found
  <2> QED
    BY <1>6
<1>8. TableRows(a, b) = walk[n].rows
  BY DEF TableRows, common, n, first
<1>9. walk[0] = first /\ \A k \in 1 .. n : walk[k] = Turn(walk[k - 1])
  <2>1. \A k \in 0 .. n : walk[k] = Found(walk, k)
    <3> HIDE DEF walk, Found
    <3> QED
      BY <1>7
  <2> HIDE DEF walk, Turn
  <2> QED
    BY <1>1, <2>1
<1> HIDE DEF walk
<1> DEFINE P == {k \in 0 .. n : walk[k] \in S /\ walk[k].oldIndex + walk[k].newIndex >= k}
<1>10. 0 \in P
  BY <1>1, <1>2, <1>9 DEF first
<1>11. ASSUME NEW k \in 0 .. n - 1, k \in P PROVE k + 1 \in P
  <2>1. k + 1 \in 1 .. n /\ k + 1 \in 0 .. n /\ (k + 1) - 1 = k /\ k \in Nat
    BY <1>1
  <2>2. walk[k + 1] = Walk(a, b, common, walk[k])
    BY <1>9, <2>1
  <2>3. walk[k] \in Walks(a, b) /\ walk[k].oldIndex + walk[k].newIndex >= k
    BY <1>11 DEF S
  <2> DEFINE was == walk[k]
             is == walk[k + 1]
  <2>4. was \in Walks(a, b) /\ is = Walk(a, b, common, was)
    BY <2>2, <2>3
  <2> HIDE DEF was, is
  <2>5. /\ is \in Walks(a, b)
        /\ was.oldIndex + was.newIndex = n \/ is.oldIndex + is.newIndex > was.oldIndex + was.newIndex
        /\ was.oldIndex + was.newIndex = n => is = was
    BY <2>4, WalkGoesOn DEF n
  <2>6. was.oldIndex \in Nat /\ was.newIndex \in Nat /\ is.oldIndex \in Nat /\ is.newIndex \in Nat
    BY <1>1, <2>4, <2>5 DEF Walks
  <2>7. was.oldIndex + was.newIndex >= k
    BY <2>3 DEF was
  <2>8. is.oldIndex + is.newIndex >= k + 1
    BY <1>1, <2>1, <2>5, <2>6, <2>7
  <2> QED
    BY <2>1, <2>5, <2>8 DEF is, S
<1>12. 0 .. n \subseteq P
  <2> HIDE DEF P
  <2> QED
    BY <1>1, <1>10, <1>11, StepByStep
<1>13. walk[n] \in Walks(a, b) /\ walk[n].oldIndex + walk[n].newIndex >= n
  <2>1. n \in 0 .. n
    BY <1>1
  <2> QED
    BY <1>12, <2>1 DEF S
<1> DEFINE last == walk[n]
<1>14. last \in Walks(a, b) /\ last.oldIndex + last.newIndex >= Len(a) + Len(b)
  BY <1>13 DEF n
<1> HIDE DEF last
<1>15. last.oldIndex \in 0 .. Len(a) /\ last.newIndex \in 0 .. Len(b)
       /\ Script(a, b, last.rows, last.oldIndex, last.newIndex)
  BY <1>14 DEF Walks
<1>16. last.oldIndex = Len(a) /\ last.newIndex = Len(b)
  BY <1>1, <1>14, <1>15
<1>17. TableRows(a, b) = last.rows
  BY <1>8 DEF last
<1> QED
  BY <1>15, <1>16, <1>17

-----------------------------------------------------------------------------
LEMMA RowsAssociate ==
  ASSUME NEW x \in Seq(Row), NEW y \in Seq(Row), NEW z \in Seq(Row)
  PROVE  (x \o y) \o z = x \o (y \o z)
  BY ConcatAssociative

LEMMA LinesAtGoOn ==
  ASSUME NEW a \in TextLines, NEW b \in TextLines, NEW k \in Nat \ {0}, NEW rows,
         Script(a, b, rows, Smaller(Len(a), k - 1), Smaller(Len(b), k - 1))
  PROVE  Script(a, b, rows \o LinesAt(a, b, k), Smaller(Len(a), k), Smaller(Len(b), k))
<1> DEFINE i == Smaller(Len(a), k - 1)
           j == Smaller(Len(b), k - 1)
           i2 == Smaller(Len(a), k)
           j2 == Smaller(Len(b), k)
           same == k <= Len(a) /\ k <= Len(b) /\ a[k] = b[k]
<1>1. Len(a) \in Nat /\ Len(b) \in Nat /\ i \in Nat /\ j \in Nat /\ i2 \in Nat /\ j2 \in Nat
  BY DEF Smaller, TextLines
<1>2. rows \in Seq(Row)
  BY DEF Script
<1>3. \A r : rows \o <<r>> = Append(rows, r)
  BY <1>2
<1>4. k <= Len(a) => i = k - 1 /\ i2 = k
  BY <1>1 DEF Smaller
<1>5. ~(k <= Len(a)) => i2 = i
  BY <1>1 DEF Smaller
<1>6. k <= Len(b) => j = k - 1 /\ j2 = k
  BY <1>1 DEF Smaller
<1>7. ~(k <= Len(b)) => j2 = j
  BY <1>1 DEF Smaller
<1>8. Script(a, b, rows, i, j)
  OBVIOUS
<1> HIDE DEF i, j, i2, j2
<1>9. CASE same
  <2>1. Leads(a, b, SameLine(a, b, k, k), i, j, i2, j2)
    BY <1>1, <1>4, <1>6, <1>9 DEF Leads
  <2>2. LinesAt(a, b, k) = <<SameLine(a, b, k, k)>>
    BY <1>9 DEF LinesAt
  <2>3. Script(a, b, Append(rows, SameLine(a, b, k, k)), i2, j2)
    BY <1>1, <1>8, <2>1, ScriptGrows
  <2> QED
    BY <1>3, <2>2, <2>3 DEF i2, j2
<1>10. CASE ~same
  <2> DEFINE removed == IF k <= Len(a) THEN <<RemoveLine(a, k)>> ELSE <<>>
             new == IF k <= Len(b) THEN <<AddLine(b, k)>> ELSE <<>>
  <2>1. LinesAt(a, b, k) = removed \o new
    BY <1>10 DEF LinesAt
  <2>2. Script(a, b, rows \o removed, i2, j)
    <3>1. CASE k <= Len(a)
      <4>1. Leads(a, b, RemoveLine(a, k), i, j, i2, j)
        BY <1>1, <1>4, <3>1 DEF Leads
      <4>2. Script(a, b, Append(rows, RemoveLine(a, k)), i2, j)
        BY <1>1, <1>8, <4>1, ScriptGrows
      <4> QED
        BY <1>3, <3>1, <4>2
    <3>2. CASE ~(k <= Len(a))
      <4>1. rows \o removed = rows
        BY <1>2, <3>2, ConcatEmptySeq
      <4> QED
        BY <1>5, <1>8, <3>2, <4>1
    <3> QED
      BY <3>1, <3>2
  <2> DEFINE some == rows \o removed
  <2>3. Script(a, b, some, i2, j) /\ some \in Seq(Row)
    BY <2>2 DEF Script
  <2>4. some \o new = rows \o LinesAt(a, b, k)
    <3>1. k <= Len(a) => RemoveLine(a, k) \in Row
      BY <1>1 DEF RemoveLine, DiffRow, Row, TextLines
    <3>2. k <= Len(b) => AddLine(b, k) \in Row
      BY <1>1 DEF AddLine, DiffRow, Row, TextLines
    <3>3. removed \in Seq(Row) /\ new \in Seq(Row)
      BY <3>1, <3>2
    <3> HIDE DEF removed, new
    <3>4. (rows \o removed) \o new = rows \o (removed \o new)
      BY <1>2, <3>3, RowsAssociate
    <3> QED
      BY <2>1, <3>4
  <2> HIDE DEF some
  <2>5. Script(a, b, some \o new, i2, j2)
    <3>1. CASE k <= Len(b)
      <4>1. Leads(a, b, AddLine(b, k), i2, j, i2, j2)
        BY <1>1, <1>6, <3>1 DEF Leads
      <4>2. Script(a, b, Append(some, AddLine(b, k)), i2, j2)
        BY <1>1, <2>3, <4>1, ScriptGrows
      <4>3. some \o <<AddLine(b, k)>> = Append(some, AddLine(b, k))
        BY <2>3
      <4> QED
        BY <3>1, <4>2, <4>3
    <3>2. CASE ~(k <= Len(b))
      <4>1. some \o new = some
        BY <2>3, <3>2, ConcatEmptySeq
      <4> QED
        BY <1>7, <2>3, <3>2, <4>1
    <3> QED
      BY <3>1, <3>2
  <2> QED
    BY <2>4, <2>5 DEF i2, j2
<1> QED
  BY <1>9, <1>10

LEMMA FallbackIsScript ==
  ASSUME NEW a \in TextLines, NEW b \in TextLines
  PROVE  Script(a, b, FallbackRows(a, b), Len(a), Len(b))
<1> DEFINE n == Larger(Len(a), Len(b))
           S == {rows \in Seq(Row) : TRUE}
           Turn(r, k) == r \o LinesAt(a, b, k)
           Found(f, k) == IF k = 0 THEN <<>> ELSE Turn(f[k - 1], k)
           rows[k \in 0 .. n] == Found(rows, k)
           none == <<>>
           step == [r \in S |-> [k \in 0 .. n |-> IF k = 0 THEN none ELSE Turn(r, k)]]
<1>1. n \in Nat /\ 0 <= n /\ 0 \in Nat /\ Len(a) \in Nat /\ Len(b) \in Nat /\ Len(a) <= n /\ Len(b) <= n
  BY DEF Larger, TextLines
<1>2. none \in S
  OBVIOUS
<1>3. ASSUME NEW r \in S, NEW k \in 1 .. n PROVE Turn(r, k) \in S
  <2>1. k <= Len(a) => RemoveLine(a, k) \in Row /\ SameLine(a, b, k, k) \in Row
    BY <1>1 DEF RemoveLine, SameLine, DiffRow, Row, TextLines
  <2>2. k <= Len(b) => AddLine(b, k) \in Row
    BY <1>1 DEF AddLine, DiffRow, Row, TextLines
  <2>3. LinesAt(a, b, k) \in Seq(Row)
    <3> DEFINE removed == IF k <= Len(a) THEN <<RemoveLine(a, k)>> ELSE <<>>
               new == IF k <= Len(b) THEN <<AddLine(b, k)>> ELSE <<>>
    <3>1. removed \in Seq(Row) /\ new \in Seq(Row)
      BY <2>1, <2>2
    <3>2. removed \o new \in Seq(Row)
      <4> HIDE DEF removed, new
      <4> QED
        BY <3>1
    <3>3. k <= Len(a) => <<SameLine(a, b, k, k)>> \in Seq(Row)
      BY <2>1
    <3> QED
      BY <3>2, <3>3 DEF LinesAt
  <2>4. r \in Seq(Row)
    OBVIOUS
  <2> QED
    BY <2>3, <2>4
<1>4. step \in [S -> [0 .. n -> S]]
  <2> HIDE DEF Turn, S, none
  <2> QED
    BY <1>1, <1>2, <1>3
<1>5. PICK f \in [0 .. n -> S] : Follows(f, 0, n, none, step)
  <2> HIDE DEF step, n, none, S
  <2> QED
    BY <1>1, <1>2, <1>4, RecursionIsDefined
<1> HIDE DEF S, n
<1>6. f = [k \in 0 .. n |-> Found(f, k)]
  <2>1. ASSUME NEW k \in 0 .. n PROVE f[k] = Found(f, k)
    <3>1. CASE k # 0
      <4>1. k - 1 \in 0 .. n
        BY <1>1, <3>1
      <4>2. f[k - 1] \in S
        BY <4>1
      <4>3. f[k] = step[f[k - 1]][k]
        BY <1>5, <3>1 DEF Follows
      <4> HIDE DEF Turn
      <4> QED
        BY <3>1, <4>2, <4>3
    <3> QED
      BY <1>5, <3>1 DEF Follows
  <2> HIDE DEF Found
  <2> QED
    BY <2>1
<1>7. rows = [k \in 0 .. n |-> Found(rows, k)]
  <2> HIDE DEF Found
  <2> QED
    BY <1>6
<1>8. FallbackRows(a, b) = rows[n]
  BY DEF FallbackRows, n
<1>9. rows[0] = <<>> /\ \A k \in 1 .. n : rows[k] = rows[k - 1] \o LinesAt(a, b, k)
  <2>1. \A k \in 0 .. n : rows[k] = Found(rows, k)
    <3> HIDE DEF rows, Found
    <3> QED
      BY <1>7
  <2>2. \A k \in 1 .. n : rows[k] = Turn(rows[k - 1], k)
    <3> HIDE DEF rows, Turn
    <3> QED
      BY <1>1, <2>1
  <2> HIDE DEF rows
  <2> QED
    BY <1>1, <2>1, <2>2
<1> HIDE DEF rows
<1> DEFINE P == {k \in 0 .. n : Script(a, b, rows[k], Smaller(Len(a), k), Smaller(Len(b), k))}
<1>10. 0 \in P
  <2>1. Smaller(Len(a), 0) = 0 /\ Smaller(Len(b), 0) = 0
    BY <1>1 DEF Smaller
  <2> QED
    BY <1>1, <1>9, <2>1, NoRowsYet
<1>11. ASSUME NEW k \in 0 .. n - 1, k \in P PROVE k + 1 \in P
  <2>1. k + 1 \in 1 .. n /\ k + 1 \in 0 .. n /\ (k + 1) - 1 = k /\ k + 1 \in Nat \ {0}
    BY <1>1
  <2>2. rows[k + 1] = rows[k] \o LinesAt(a, b, k + 1)
    BY <1>9, <2>1
  <2>3. Script(a, b, rows[k], Smaller(Len(a), (k + 1) - 1), Smaller(Len(b), (k + 1) - 1))
    BY <1>11, <2>1
  <2>4. Script(a, b, rows[k] \o LinesAt(a, b, k + 1), Smaller(Len(a), k + 1), Smaller(Len(b), k + 1))
    BY <2>1, <2>3, LinesAtGoOn
  <2> QED
    BY <2>1, <2>2, <2>4
<1>12. 0 .. n \subseteq P
  <2> HIDE DEF P
  <2> QED
    BY <1>1, <1>10, <1>11, StepByStep
<1>13. Smaller(Len(a), n) = Len(a) /\ Smaller(Len(b), n) = Len(b) /\ n \in 0 .. n
  BY <1>1 DEF Smaller
<1> QED
  BY <1>8, <1>12, <1>13
-----------------------------------------------------------------------------
(* The rows around the changes.                                            *)

Near(n, k, r) == r.start <= Larger(1, k - Context) /\ Smaller(n, k + Context) <= r.end

\* The ranges found for the first k rows: in order, apart, and none begins later
\* than one of the next rows would.
RangesTo(rows, k) ==
  {ranges \in Seq([start : 1 .. Len(rows), end : 1 .. Len(rows)]) :
     /\ \A g \in DOMAIN ranges : /\ ranges[g].start <= ranges[g].end
                                 /\ ranges[g].start <= Larger(1, k - Context)
     /\ \A g, h \in DOMAIN ranges : g < h => ranges[g].end < ranges[h].start
     /\ \A c \in 1 .. k : rows[c].kind # "same" => \E h \in DOMAIN ranges : Near(Len(rows), c, ranges[h])}

Around(rows, k, ranges) ==
  IF rows[k].kind = "same" THEN ranges
  ELSE Extend(ranges, Larger(1, k - Context), Smaller(Len(rows), k + Context))

LEMMA AtMost ==
  ASSUME NEW x \in Int, NEW y \in Int, NEW z \in Int, x <= y, y <= z
  PROVE  x <= z
  OBVIOUS

LEMMA RangesGoOn ==
  ASSUME DiffAssumption, NEW rows \in Seq(Row), NEW k \in 1 .. Len(rows),
         NEW ranges \in RangesTo(rows, k - 1)
  PROVE  Around(rows, k, ranges) \in RangesTo(rows, k)
<1> DEFINE n == Len(rows)
           Range1 == [start : 1 .. n, end : 1 .. n]
           s == Larger(1, k - Context)
           e == Smaller(n, k + Context)
           m == Len(ranges)
           next == Around(rows, k, ranges)
<1>1. n \in Nat /\ k \in Nat /\ 1 <= k /\ k <= n /\ Context \in Nat /\ 1 <= Context /\ k - 1 \in Nat
  BY DEF DiffAssumption
<1>2. /\ ranges \in Seq(Range1) /\ m \in Nat /\ DOMAIN ranges = 1 .. m
      /\ \A g \in 1 .. m : ranges[g] \in Range1
  <2>1. ranges \in Seq(Range1)
    BY DEF RangesTo
  <2> HIDE DEF Range1
  <2> QED
    BY <2>1
<1>3. /\ \A g \in 1 .. m : /\ ranges[g].start <= ranges[g].end
                           /\ ranges[g].start <= Larger(1, (k - 1) - Context)
      /\ \A g, h \in 1 .. m : g < h => ranges[g].end < ranges[h].start
      /\ \A c \in 1 .. k - 1 : rows[c].kind # "same" => \E h \in 1 .. m : Near(n, c, ranges[h])
  BY <1>2 DEF RangesTo
<1>4. s \in 1 .. n /\ e \in 1 .. n /\ s <= k /\ k <= e /\ Larger(1, (k - 1) - Context) <= s
  BY <1>1 DEF Larger, Smaller
<1>5. \A g \in 1 .. m : ranges[g].start \in 1 .. n /\ ranges[g].end \in 1 .. n
  BY <1>2
<1>6. ASSUME NEW g \in 1 .. m PROVE ranges[g].start <= s
  <2> DEFINE near == Larger(1, (k - 1) - Context)
             start == ranges[g].start
  <2>1. near \in Int
    BY <1>1 DEF Larger
  <2>2. near <= s /\ s \in Int
    BY <1>4
  <2>3. start <= near
    BY <1>3
  <2>4. start \in Int
    BY <1>5
  <2> HIDE DEF near, start, s
  <2>5. start <= s
    BY <2>1, <2>2, <2>3, <2>4, AtMost
  <2> QED
    BY <2>5 DEF start
<1> HIDE DEF m
<1>7. ASSUME NEW new \in Seq(Range1),
             \A g \in 1 .. Len(new) : new[g].start <= new[g].end /\ new[g].start <= s,
             \A g, h \in 1 .. Len(new) : g < h => new[g].end < new[h].start,
             \A c \in 1 .. k : rows[c].kind # "same" => \E h \in 1 .. Len(new) : Near(n, c, new[h])
      PROVE  new \in RangesTo(rows, k)
  <2>1. DOMAIN new = 1 .. Len(new)
    OBVIOUS
  <2> QED
    BY <1>7, <2>1 DEF RangesTo
<1>8. CASE rows[k].kind = "same"
  <2>1. next = ranges
    BY <1>8 DEF Around
  <2>2. \A c \in 1 .. k : rows[c].kind # "same" => \E h \in 1 .. m : Near(n, c, ranges[h])
    <3>1. \A c \in 1 .. k : c = k \/ c \in 1 .. k - 1
      BY <1>1
    <3> QED
      BY <1>3, <1>8, <3>1
  <2>3. ranges \in RangesTo(rows, k)
    <3> HIDE DEF n, s
    <3> QED
      BY <1>2, <1>3, <1>6, <1>7, <2>2 DEF m
  <2> QED
    BY <2>1, <2>3
<1>9. CASE rows[k].kind # "same"
  <2> DEFINE last == ranges[m]
             long == [start |-> last.start, end |-> Larger(last.end, e)]
             new == [start |-> s, end |-> e]
             touches == ranges # <<>> /\ s <= last.end + 1
  <2>1. next = IF touches THEN Append(Front(ranges), long) ELSE Append(ranges, new)
    BY <1>9 DEF Around, Extend, m
  <2>2. CASE touches
    <3>1. m \in Nat /\ m >= 1 /\ m \in 1 .. m
      BY <1>2, <2>2 DEF m
    <3>2. last.start \in 1 .. n /\ last.end \in 1 .. n /\ last.start <= last.end /\ last.start <= s
      BY <1>3, <1>5, <1>6, <3>1
    <3>3. long \in Range1 /\ long.start = last.start /\ long.end = Larger(last.end, e)
      BY <1>4, <3>2 DEF Larger
    <3>4. Larger(last.end, e) \in 1 .. n /\ last.end <= Larger(last.end, e) /\ e <= Larger(last.end, e)
      <4> DEFINE end == last.end
      <4>1. end \in 1 .. n /\ e \in 1 .. n
        BY <1>4, <3>2
      <4> HIDE DEF end, e, n
      <4>2. Larger(end, e) \in 1 .. n /\ end <= Larger(end, e) /\ e <= Larger(end, e)
        BY <1>1, <4>1 DEF Larger
      <4> QED
        BY <4>2 DEF end
    <3>5. Front(ranges) \in Seq(Range1) /\ Len(Front(ranges)) = m - 1
          /\ \A g \in 1 .. m - 1 : Front(ranges)[g] = ranges[g]
      <4>1. Front(ranges) = SubSeq(ranges, 1, m - 1)
        BY DEF Front, m
      <4> HIDE DEF Range1
      <4> QED
        BY <1>2, <3>1, <4>1, SubSeqProperties
    <3> DEFINE front == Front(ranges)
               more == Append(front, long)
    <3> HIDE DEF front
    <3>6. more \in Seq(Range1) /\ Len(more) = m /\ more[m] = long /\ \A g \in 1 .. m - 1 : more[g] = ranges[g]
      <4> HIDE DEF long, Range1
      <4> QED
        BY <3>1, <3>3, <3>5 DEF front
    <3> HIDE DEF more, long
    <3>7. \A g \in 1 .. m : g = m \/ g \in 1 .. m - 1
      BY <3>1
    <3>8. \A g \in 1 .. m : more[g].start = ranges[g].start /\ ranges[g].end <= more[g].end
      <4>1. \A g \in 1 .. m - 1 : ranges[g].end <= ranges[g].end
        BY <1>1, <1>5, <3>1
      <4> QED
        BY <3>3, <3>4, <3>6, <3>7, <4>1
    <3>9. \A g \in 1 .. m : more[g].start <= more[g].end /\ more[g].start <= s
      <4>1. ASSUME NEW g \in 1 .. m PROVE more[g].start <= more[g].end
        <5>1. more[g] \in Range1
          <6> HIDE DEF Range1
          <6> QED
            BY <3>6
        <5>2. more[g].start \in Nat /\ more[g].end \in Nat /\ ranges[g].end \in Nat
          BY <1>5, <5>1
        <5>3. more[g].start = ranges[g].start /\ ranges[g].start <= ranges[g].end /\ ranges[g].end <= more[g].end
          BY <1>3, <3>8
        <5> QED
          BY <5>2, <5>3
      <4> QED
        BY <1>6, <3>8, <4>1
    <3>10. ASSUME NEW g \in 1 .. m, NEW h \in 1 .. m, g < h PROVE more[g].end < more[h].start
      <4>1. g \in 1 .. m - 1
        BY <3>1, <3>10
      <4> QED
        BY <1>3, <3>6, <3>8, <3>10, <4>1
    <3>11. ASSUME NEW c \in 1 .. k, rows[c].kind # "same" PROVE \E h \in 1 .. m : Near(n, c, more[h])
      <4>1. CASE c = k
        <5>1. more[m].start <= s /\ e <= more[m].end
          BY <3>1, <3>2, <3>3, <3>4, <3>6
        <5> QED
          BY <3>1, <4>1, <5>1 DEF Near
      <4>2. CASE c # k
        <5>1. c \in 1 .. k - 1
          BY <1>1, <4>2
        <5>2. PICK h \in 1 .. m : Near(n, c, ranges[h])
          BY <1>3, <3>11, <5>1
        <5>3. more[h].start <= Larger(1, c - Context) /\ Smaller(n, c + Context) <= ranges[h].end
          BY <3>8, <5>2 DEF Near
        <5>4. Smaller(n, c + Context) \in Nat /\ ranges[h].end \in Nat /\ more[h].end \in Nat
          <6>1. more[h] \in Range1
            <7> HIDE DEF Range1
            <7> QED
              BY <3>6
          <6> QED
            BY <1>1, <1>5, <6>1 DEF Smaller
        <5>5. Smaller(n, c + Context) <= more[h].end
          <6> DEFINE near == Smaller(n, c + Context)
                     end == ranges[h].end
                     end2 == more[h].end
          <6>1. near <= end /\ end <= end2
            BY <3>8, <5>3
          <6>2. near \in Int /\ end \in Int /\ end2 \in Int
            BY <5>4
          <6> HIDE DEF near, end, end2
          <6>3. near <= end2
            BY <6>1, <6>2, AtMost
          <6> QED
            BY <6>3 DEF near, end2
        <5> QED
          BY <5>3, <5>5 DEF Near
      <4> QED
        BY <4>1, <4>2
    <3>12. more \in RangesTo(rows, k)
      <4> HIDE DEF n, s
      <4> QED
        BY <1>7, <3>6, <3>9, <3>10, <3>11
    <3> QED
      BY <2>1, <2>2, <3>12 DEF more, front
  <2>3. CASE ~touches
    <3> DEFINE more == Append(ranges, new)
    <3>1. new \in Range1 /\ new.start = s /\ new.end = e
      BY <1>4
    <3>2. more \in Seq(Range1) /\ Len(more) = m + 1 /\ more[m + 1] = new /\ \A g \in 1 .. m : more[g] = ranges[g]
      <4> HIDE DEF new, Range1
      <4> QED
        BY <1>2, <3>1 DEF m
    <3> HIDE DEF more, new
    <3>3. \A g \in 1 .. m + 1 : g = m + 1 \/ g \in 1 .. m
      BY <1>2
    <3>4. \A g \in 1 .. m + 1 : more[g].start <= more[g].end /\ more[g].start <= s
      <4>1. s <= e /\ s <= s
        BY <1>1, <1>4
      <4> QED
        BY <1>3, <1>6, <3>1, <3>2, <3>3, <4>1
    <3>5. \A g \in 1 .. m : ranges[g].end < s
      <4>1. ASSUME NEW g \in 1 .. m PROVE ranges[g].end < s
        <5>1. m \in 1 .. m /\ ranges # <<>>
          BY <1>2 DEF m
        <5>2. ~(s <= last.end + 1)
          <6> HIDE DEF s, last
          <6> QED
            BY <2>3, <5>1
        <5>3. g = m \/ ranges[g].end < last.start
          BY <1>2, <1>3, <5>1
        <5>4. last.start <= last.end /\ last.start \in Nat /\ last.end \in Nat /\ ranges[g].end \in Nat
          <6>1. last.start <= last.end
            BY <1>3, <5>1
          <6>2. last.start \in 1 .. n /\ last.end \in 1 .. n /\ ranges[g].end \in 1 .. n
            BY <1>5, <5>1
          <6>3. \A x \in 1 .. n : x \in Nat
            BY <1>1
          <6> HIDE DEF n, last
          <6> QED
            BY <6>1, <6>2, <6>3
        <5>5. s \in Nat
          BY <1>4
        <5> HIDE DEF s, last
        <5>6. last.end < s
          BY <5>2, <5>4, <5>5
        <5> QED
          BY <5>3, <5>4, <5>5, <5>6 DEF last
      <4> QED
        BY <4>1
    <3>6. ASSUME NEW g \in 1 .. m + 1, NEW h \in 1 .. m + 1, g < h PROVE more[g].end < more[h].start
      <4>1. g \in 1 .. m
        BY <1>2, <3>6
      <4> QED
        BY <1>3, <3>1, <3>2, <3>3, <3>5, <3>6, <4>1
    <3>7. ASSUME NEW c \in 1 .. k, rows[c].kind # "same" PROVE \E h \in 1 .. m + 1 : Near(n, c, more[h])
      <4>1. CASE c = k
        <5>1. more[m + 1].start <= s /\ e <= more[m + 1].end /\ m + 1 \in 1 .. m + 1
          <6>1. m + 1 \in 1 .. m + 1
            BY <1>2
          <6>2. s \in Int /\ e \in Int
            BY <1>4
          <6> HIDE DEF s, e
          <6>3. s <= s /\ e <= e
            BY <6>2
          <6>4. more[m + 1].start = s /\ more[m + 1].end = e
            BY <3>1, <3>2
          <6> QED
            BY <6>1, <6>3, <6>4
        <5> QED
          BY <4>1, <5>1 DEF Near
      <4>2. CASE c # k
        <5>1. c \in 1 .. k - 1
          BY <1>1, <4>2
        <5>2. PICK h \in 1 .. m : Near(n, c, ranges[h])
          BY <1>3, <3>7, <5>1
        <5>3. h \in 1 .. m + 1 /\ more[h] = ranges[h]
          BY <1>2, <3>2
        <5> QED
          BY <5>2, <5>3
      <4> QED
        BY <4>1, <4>2
    <3>8. more \in RangesTo(rows, k)
      <4> HIDE DEF n, s
      <4> QED
        BY <1>7, <3>2, <3>4, <3>6, <3>7
    <3> QED
      BY <2>1, <2>3, <3>8 DEF more, new
  <2> QED
    BY <2>2, <2>3
<1> QED
  BY <1>8, <1>9

\* The ranges are what going through all rows comes to.
LEMMA RangesFound ==
  ASSUME DiffAssumption, NEW rows \in Seq(Row)
  PROVE  Ranges(rows) \in RangesTo(rows, Len(rows))
<1> DEFINE n == Len(rows)
           S == Seq([start : 1 .. n, end : 1 .. n])
           none == <<>>
           Found(f, k) == IF k = 0 THEN none ELSE Around(rows, k, f[k - 1])
           ranges[k \in 0 .. n] == Found(ranges, k)
           RowOf(k) == RangesTo(rows, k)
           \* a list that is of no use is not made worse
           step == [x \in S |-> [k \in 0 .. n |-> IF k # 0 /\ x \in RowOf(k - 1) THEN Around(rows, k, x) ELSE none]]
<1>1. n \in Nat /\ 0 <= n /\ 0 \in Nat
  OBVIOUS
<1>2. none \in S /\ none \in RowOf(0)
  BY DEF RangesTo
<1>3. ASSUME NEW k \in 1 .. n, NEW x \in RowOf(k - 1) PROVE Around(rows, k, x) \in RowOf(k) /\ Around(rows, k, x) \in S
  <2>1. Around(rows, k, x) \in RowOf(k)
    BY RangesGoOn
  <2> QED
    BY <2>1 DEF RangesTo
<1>4. step \in [S -> [0 .. n -> S]]
  <2>1. \A x \in S : \A k \in 0 .. n : (IF k # 0 /\ x \in RowOf(k - 1) THEN Around(rows, k, x) ELSE none) \in S
    <3> HIDE DEF RowOf, S, none, n
    <3> QED
      BY <1>1, <1>2, <1>3
  <2> HIDE DEF RowOf, S, none, n
  <2> QED
    BY <2>1
<1>5. PICK f \in [0 .. n -> S] : Follows(f, 0, n, none, step)
  <2> HIDE DEF step, n, none, S
  <2> QED
    BY <1>1, <1>2, <1>4, RecursionIsDefined
<1> HIDE DEF S, n, none, RowOf
<1> DEFINE G == {k \in 0 .. n : f[k] \in RowOf(k)}
<1>6. 0 .. n \subseteq G
  <2>1. 0 \in G
    BY <1>1, <1>2, <1>5 DEF Follows
  <2>2. ASSUME NEW k \in 0 .. n - 1, k \in G PROVE k + 1 \in G
    <3>1. k + 1 \in 1 .. n /\ k + 1 \in 0 .. n /\ (k + 1) - 1 = k /\ k + 1 # 0 /\ k \in 0 .. n
      BY <1>1
    <3>2. f[k] \in S /\ f[k] \in RowOf((k + 1) - 1)
      BY <2>2, <3>1
    <3>3. f[k + 1] = step[f[k]][k + 1]
      BY <1>5, <3>1 DEF Follows
    <3>4. f[k + 1] = Around(rows, k + 1, f[k])
      BY <3>1, <3>2, <3>3
    <3>5. f[k + 1] \in RowOf(k + 1)
      BY <1>3, <3>1, <3>2, <3>4
    <3> QED
      BY <3>1, <3>5
  <2> HIDE DEF G
  <2> QED
    BY <1>1, <2>1, <2>2, StepByStep
<1>7. f = [k \in 0 .. n |-> Found(f, k)]
  <2>1. ASSUME NEW k \in 0 .. n PROVE f[k] = Found(f, k)
    <3>1. CASE k # 0
      <4>1. k - 1 \in 0 .. n
        BY <1>1, <3>1
      <4>2. f[k - 1] \in S /\ f[k - 1] \in RowOf(k - 1)
        BY <1>6, <4>1
      <4>3. f[k] = step[f[k - 1]][k]
        BY <1>5, <3>1 DEF Follows
      <4> QED
        BY <3>1, <4>2, <4>3
    <3> QED
      BY <1>5, <3>1 DEF Follows
  <2> HIDE DEF Found
  <2> QED
    BY <2>1
<1>8. ranges = [k \in 0 .. n |-> Found(ranges, k)]
  <2> HIDE DEF Found
  <2> QED
    BY <1>7
<1>9. Ranges(rows) = ranges[n]
  BY DEF Ranges, n, none, Around
<1>10. ranges[0] = none /\ \A k \in 1 .. n : ranges[k] = Around(rows, k, ranges[k - 1])
  <2>1. \A k \in 0 .. n : ranges[k] = Found(ranges, k)
    <3> HIDE DEF ranges, Found
    <3> QED
      BY <1>8
  <2> HIDE DEF ranges
  <2> QED
    BY <1>1, <2>1
<1> HIDE DEF ranges
<1> DEFINE P == {k \in 0 .. n : ranges[k] \in RowOf(k)}
<1>11. 0 \in P
  BY <1>1, <1>2, <1>10
<1>12. ASSUME NEW k \in 0 .. n - 1, k \in P PROVE k + 1 \in P
  <2>1. k + 1 \in 1 .. n /\ k + 1 \in 0 .. n /\ (k + 1) - 1 = k
    BY <1>1
  <2> QED
    BY <1>3, <1>10, <1>12, <2>1
<1>13. 0 .. n \subseteq P
  <2> HIDE DEF P
  <2> QED
    BY <1>1, <1>11, <1>12, StepByStep
<1>14. n \in 0 .. n
  BY <1>1
<1> QED
  BY <1>9, <1>13, <1>14 DEF RowOf, n
-----------------------------------------------------------------------------
(* What a hunk says.                                                       *)

LEMMA FirstOfInterval ==
  ASSUME NEW i \in Nat, NEW j \in Nat, i < j
  PROVE  Min(i + 1 .. j) = i + 1
<1> DEFINE S == i + 1 .. j
<1>1. i + 1 \in S /\ \A y \in S : i + 1 <= y
  OBVIOUS
<1>2. \A x \in S : (\A y \in S : x <= y) => x = i + 1
  BY <1>1
<1> HIDE DEF S
<1>3. Min(S) \in S /\ \A y \in S : Min(S) <= y
  BY <1>1 DEF Min
<1> QED
  BY <1>2, <1>3 DEF S

LEMMA CountedInterval ==
  ASSUME NEW i \in Nat, NEW j \in Nat, i <= j
  PROVE  Cardinality(i + 1 .. j) = j - i
<1>1. i + 1 \in Int /\ j \in Int
  OBVIOUS
<1>2. Cardinality(i + 1 .. j) = IF i + 1 > j THEN 0 ELSE j - (i + 1) + 1
  BY <1>1, FS_Interval
<1> QED
  BY <1>2

\* A path goes on in both texts.
LEMMA PathRises ==
  ASSUME NEW a, NEW b, NEW rows \in Seq(Row), NEW P, NEW Q, Path(a, b, rows, P, Q),
         NEW k \in 0 .. Len(rows), NEW l \in k .. Len(rows)
  PROVE  P[k] \in Nat /\ Q[k] \in Nat /\ P[k] <= P[l] /\ Q[k] <= Q[l]
<1> DEFINE G == {m \in k .. Len(rows) : P[k] <= P[m] /\ Q[k] <= Q[m]}
<1>1. Len(rows) \in Nat /\ k \in Nat /\ l \in Nat
  OBVIOUS
<1>2. \A m \in 0 .. Len(rows) : P[m] \in Nat /\ Q[m] \in Nat
  BY DEF Path
<1>3. k \in G
  BY <1>1, <1>2
<1>4. ASSUME NEW m \in k .. Len(rows) - 1, m \in G PROVE m + 1 \in G
  <2>1. m \in 0 .. Len(rows) /\ m + 1 \in 1 .. Len(rows) /\ m + 1 \in 0 .. Len(rows) /\ (m + 1) - 1 = m
        /\ m + 1 \in k .. Len(rows)
    BY <1>1
  <2>2. Leads(a, b, rows[m + 1], P[m], Q[m], P[m + 1], Q[m + 1])
    BY <2>1 DEF Path
  <2>3. P[m] <= P[m + 1] /\ Q[m] <= Q[m + 1]
    BY <1>2, <2>1, <2>2 DEF Leads
  <2>4. P[k] \in Nat /\ Q[k] \in Nat /\ P[m] \in Nat /\ Q[m] \in Nat /\ P[m + 1] \in Nat /\ Q[m + 1] \in Nat
    BY <1>2, <2>1
  <2>5. P[k] <= P[m] /\ Q[k] <= Q[m]
    BY <1>4
  <2>6. P[k] <= P[m + 1] /\ Q[k] <= Q[m + 1]
    BY <2>3, <2>4, <2>5
  <2> QED
    BY <2>1, <2>6
<1>5. k .. Len(rows) \subseteq G
  <2> HIDE DEF G
  <2> QED
    BY <1>1, <1>3, <1>4, StepByStep
<1> QED
  BY <1>2, <1>5

LEMMA PathStaysInside ==
  ASSUME NEW a, NEW b, NEW rows \in Seq(Row), NEW P, NEW Q, Path(a, b, rows, P, Q),
         P[Len(rows)] = Len(a), Q[Len(rows)] = Len(b), NEW k \in 0 .. Len(rows)
  PROVE  P[k] \in 0 .. Len(a) /\ Q[k] \in 0 .. Len(b)
<1>1. Len(rows) \in k .. Len(rows) /\ Len(rows) \in 0 .. Len(rows)
  OBVIOUS
<1>2. P[k] \in Nat /\ Q[k] \in Nat /\ P[k] <= P[Len(rows)] /\ Q[k] <= Q[Len(rows)]
  BY <1>1, PathRises
<1>3. P[Len(rows)] \in Nat /\ Q[Len(rows)] \in Nat
  BY <1>1 DEF Path
<1> QED
  BY <1>2, <1>3

\* The old lines of rows s to e are those between the path's ends, and so the new ones.
OldOf(rows, s, e) == {rows[k].oldLine : k \in {c \in s .. e : rows[c].kind # "add"}}
NewOf(rows, s, e) == {rows[k].newLine : k \in {c \in s .. e : rows[c].kind # "remove"}}

LinesFit(rows, P, Q, s, e) ==
  /\ OldOf(rows, s, e) = P[s - 1] + 1 .. P[e]
  /\ NewOf(rows, s, e) = Q[s - 1] + 1 .. Q[e]

LEMMA LinesOfHunk ==
  ASSUME NEW a, NEW b, NEW rows \in Seq(Row), NEW P, NEW Q, Path(a, b, rows, P, Q),
         NEW s \in 1 .. Len(rows), NEW e \in s .. Len(rows)
  PROVE  LinesFit(rows, P, Q, s, e)
<1> DEFINE n == Len(rows)
           G == {m \in s - 1 .. e : /\ OldOf(rows, s, m) = P[s - 1] + 1 .. P[m]
                                    /\ NewOf(rows, s, m) = Q[s - 1] + 1 .. Q[m]}
<1>1. n \in Nat /\ s \in Nat /\ e \in Nat /\ s - 1 \in Nat /\ 1 <= s /\ s <= e /\ e <= n
  OBVIOUS
<1>2. \A m \in 0 .. n : P[m] \in Nat /\ Q[m] \in Nat
  BY DEF Path
<1>3. s - 1 \in G
  <2>1. s .. s - 1 = {} /\ s - 1 \in 0 .. n /\ s - 1 \in s - 1 .. e
    BY <1>1
  <2>2. OldOf(rows, s, s - 1) = {} /\ NewOf(rows, s, s - 1) = {}
    BY <2>1 DEF OldOf, NewOf
  <2>3. P[s - 1] + 1 .. P[s - 1] = {} /\ Q[s - 1] + 1 .. Q[s - 1] = {}
    <3>1. P[s - 1] \in Nat /\ Q[s - 1] \in Nat
      BY <1>2, <2>1
    <3>2. \A x \in Nat : x + 1 .. x = {}
      OBVIOUS
    <3> QED
      BY <3>1, <3>2
  <2> QED
    BY <2>1, <2>2, <2>3
<1>4. ASSUME NEW m \in s - 1 .. e - 1, m \in G PROVE m + 1 \in G
  <2>1. m \in 0 .. n /\ m + 1 \in 1 .. n /\ m + 1 \in 0 .. n /\ (m + 1) - 1 = m /\ m + 1 \in s - 1 .. e
        /\ s .. m + 1 = (s .. m) \cup {m + 1} /\ m \in s - 1 .. n /\ s - 1 \in 0 .. n
    BY <1>1
  <2> DEFINE r == rows[m + 1]
             p == P[m]
             q == Q[m]
             p2 == P[m + 1]
             q2 == Q[m + 1]
             o == P[s - 1]
             w == Q[s - 1]
  <2>2. Leads(a, b, r, p, q, p2, q2)
    BY <2>1 DEF Path
  <2>3. p \in Nat /\ q \in Nat /\ p2 \in Nat /\ q2 \in Nat /\ o \in Nat /\ w \in Nat /\ o <= p /\ w <= q
    BY <1>2, <2>1, PathRises
  <2>4. OldOf(rows, s, m + 1) = OldOf(rows, s, m) \cup (IF r.kind # "add" THEN {r.oldLine} ELSE {})
    BY <2>1 DEF OldOf
  <2>5. NewOf(rows, s, m + 1) = NewOf(rows, s, m) \cup (IF r.kind # "remove" THEN {r.newLine} ELSE {})
    BY <2>1 DEF NewOf
  <2>6. OldOf(rows, s, m) = o + 1 .. p /\ NewOf(rows, s, m) = w + 1 .. q
    BY <1>4
  <2> HIDE DEF r, p, q, p2, q2, o, w
  <2>7. IF r.kind # "add" THEN p2 = p + 1 /\ r.oldLine = p2 ELSE p2 = p
    BY <2>2, <2>3 DEF Leads, SameLine, RemoveLine, AddLine, DiffRow
  <2>8. IF r.kind # "remove" THEN q2 = q + 1 /\ r.newLine = q2 ELSE q2 = q
    BY <2>2, <2>3 DEF Leads, SameLine, RemoveLine, AddLine, DiffRow
  <2>9. (o + 1 .. p) \cup {p + 1} = o + 1 .. p + 1 /\ (w + 1 .. q) \cup {q + 1} = w + 1 .. q + 1
    BY <2>3
  <2>10. OldOf(rows, s, m + 1) = o + 1 .. p2
    BY <2>4, <2>6, <2>7, <2>9
  <2>11. NewOf(rows, s, m + 1) = w + 1 .. q2
    BY <2>5, <2>6, <2>8, <2>9
  <2> QED
    BY <2>1, <2>10, <2>11 DEF o, w, p2, q2
<1>5. s - 1 .. e \subseteq G
  <2> HIDE DEF G
  <2> QED
    BY <1>1, <1>3, <1>4, StepByStep
<1>6. e \in s - 1 .. e
  BY <1>1
<1> QED
  BY <1>5, <1>6 DEF LinesFit

\* A reader takes the new lines from a hunk as they are in the new text.
SidesAgree(rows, b, Q, s, e) == NewSide(SubSeq(rows, s, e)) = SubSeq(b, Q[s - 1] + 1, Q[e])

LEMMA NewSideIsCut ==
  ASSUME NEW a \in TextLines, NEW b \in TextLines, NEW rows \in Seq(Row), NEW P, NEW Q, Path(a, b, rows, P, Q),
         P[Len(rows)] = Len(a), Q[Len(rows)] = Len(b),
         NEW s \in 1 .. Len(rows), NEW e \in s .. Len(rows)
  PROVE  SidesAgree(rows, b, Q, s, e)
<1> DEFINE chunk == SubSeq(rows, s, e)
           n == Len(chunk)
           none == <<>>
           S == TextLines
           Turn(x, k) == IF chunk[k].kind = "remove" THEN x ELSE Append(x, chunk[k].text)
           Found(f, k) == IF k = 0 THEN none ELSE Turn(f[k - 1], k)
           said[k \in 0 .. n] == Found(said, k)
           step == [x \in S |-> [k \in 0 .. n |-> IF k = 0 THEN none ELSE Turn(x, k)]]
<1>1. Len(rows) \in Nat /\ s \in Nat /\ e \in Nat /\ s - 1 \in Nat /\ 1 <= s /\ s <= e /\ e <= Len(rows)
      /\ s \in Int /\ e \in Int
  OBVIOUS
<1>2. n = e - s + 1 /\ \A k \in 1 .. n : chunk[k] = rows[s + k - 1] /\ chunk[k] \in Row
  <2>1. \A i \in s .. e : rows[i] \in Row
    <3> HIDE DEF Row
    <3> QED
      BY <1>1
  <2>2. Len(SubSeq(rows, s, e)) = e - s + 1 /\ \A i \in 1 .. e - s + 1 : SubSeq(rows, s, e)[i] = rows[s + i - 1]
    BY <1>1, <2>1, SubSeqProperties
  <2>3. \A k \in 1 .. e - s + 1 : s + k - 1 \in s .. e
    BY <1>1
  <2> HIDE DEF Row
  <2> QED
    BY <2>1, <2>2, <2>3
<1>3. n \in Nat /\ 0 <= n /\ 0 \in Nat
  BY <1>1, <1>2
<1> HIDE DEF chunk, n
<1>4. none \in S
  BY DEF TextLines
<1>5. ASSUME NEW x \in S, NEW k \in 1 .. n PROVE Turn(x, k) \in S
  <2>1. chunk[k].text \in TextLine
    BY <1>2 DEF Row
  <2> QED
    BY <2>1 DEF TextLines
<1>6. step \in [S -> [0 .. n -> S]]
  <2> HIDE DEF Turn, S, none
  <2> QED
    BY <1>3, <1>4, <1>5
<1>7. PICK f \in [0 .. n -> S] : Follows(f, 0, n, none, step)
  <2> HIDE DEF step, none, S
  <2> QED
    BY <1>3, <1>4, <1>6, RecursionIsDefined
<1> HIDE DEF S
<1>8. f = [k \in 0 .. n |-> Found(f, k)]
  <2>1. ASSUME NEW k \in 0 .. n PROVE f[k] = Found(f, k)
    <3>1. CASE k # 0
      <4>1. k - 1 \in 0 .. n
        BY <1>3, <3>1
      <4>2. f[k - 1] \in S
        BY <4>1
      <4>3. f[k] = step[f[k - 1]][k]
        BY <1>7, <3>1 DEF Follows
      <4> HIDE DEF Turn
      <4> QED
        BY <3>1, <4>2, <4>3
    <3> QED
      BY <1>7, <3>1 DEF Follows
  <2> HIDE DEF Found
  <2> QED
    BY <2>1
<1>9. said = [k \in 0 .. n |-> Found(said, k)]
  <2> HIDE DEF Found
  <2> QED
    BY <1>8
<1>10. NewSide(chunk) = said[n]
  BY DEF NewSide, n
<1>11. said[0] = none /\ \A k \in 1 .. n : said[k] = Turn(said[k - 1], k)
  <2>1. \A k \in 0 .. n : said[k] = Found(said, k)
    <3> HIDE DEF said, Found
    <3> QED
      BY <1>9
  <2> HIDE DEF said, Turn
  <2> QED
    BY <1>3, <2>1
<1> HIDE DEF said
<1> DEFINE w == Q[s - 1]
           G == {k \in 0 .. n : said[k] = SubSeq(b, w + 1, Q[(s - 1) + k])}
<1>12. \A m \in 0 .. Len(rows) : Q[m] \in 0 .. Len(b)
  BY PathStaysInside
<1>13. 0 \in G
  <2>1. (s - 1) + 0 = s - 1 /\ s - 1 \in 0 .. Len(rows)
    BY <1>1
  <2>2. w \in Nat /\ w < w + 1 /\ w \in Int /\ w + 1 \in Int
    BY <1>12, <2>1
  <2>3. SubSeq(b, w + 1, w) = <<>>
    <3> HIDE DEF w
    <3> QED
      BY <2>2, SubSeqEmpty
  <2>4. Q[(s - 1) + 0] = Q[s - 1]
    BY <2>1
  <2>5. said[0] = SubSeq(b, w + 1, Q[(s - 1) + 0])
    <3>1. said[0] = <<>>
      BY <1>11
    <3> QED
      BY <2>3, <2>4, <3>1
  <2> QED
    BY <1>3, <2>5
<1>14. ASSUME NEW k \in 0 .. n - 1, k \in G PROVE k + 1 \in G
  <2> DEFINE m == (s - 1) + k
             q == Q[m]
             q2 == Q[m + 1]
             r == rows[m + 1]
  <2>1. /\ k + 1 \in 1 .. n /\ (k + 1) - 1 = k /\ s + (k + 1) - 1 = m + 1 /\ (s - 1) + (k + 1) = m + 1
        /\ m \in 0 .. Len(rows) /\ m + 1 \in 1 .. Len(rows) /\ m + 1 \in 0 .. Len(rows) /\ (m + 1) - 1 = m
        /\ s - 1 \in 0 .. Len(rows) /\ m \in s - 1 .. Len(rows) /\ k + 1 \in 0 .. n
    BY <1>1, <1>2, <1>3
  <2>2. Leads(a, b, r, P[m], q, P[m + 1], q2)
    BY <2>1 DEF Path
  <2>3. q \in 0 .. Len(b) /\ q2 \in 0 .. Len(b) /\ w \in 0 .. Len(b) /\ w <= q /\ Len(b) \in Nat
    <3>1. q \in 0 .. Len(b) /\ q2 \in 0 .. Len(b) /\ w \in 0 .. Len(b)
      BY <1>12, <2>1
    <3>2. w <= q
      BY <2>1, PathRises
    <3> QED
      BY <3>1, <3>2 DEF TextLines
  <2>4. said[k + 1] = IF r.kind = "remove" THEN said[k] ELSE Append(said[k], r.text)
    BY <1>2, <1>11, <2>1
  <2>5. said[k] = SubSeq(b, w + 1, q)
    BY <1>14
  <2> HIDE DEF r, q, q2, w
  <2>6. CASE r.kind = "remove"
    <3>1. q2 = q
      BY <2>2, <2>6 DEF Leads, SameLine, RemoveLine, AddLine, DiffRow
    <3> QED
      BY <2>1, <2>4, <2>5, <2>6, <3>1 DEF q2, w
  <2>7. CASE r.kind # "remove"
    <3>1. q2 = q + 1 /\ r.text = b[q2]
      BY <2>2, <2>7 DEF Leads, SameLine, RemoveLine, AddLine, DiffRow
    <3>2. w + 1 \in 1 .. Len(b) /\ q2 \in w + 1 .. Len(b) /\ q2 - 1 = q
      BY <2>3, <3>1
    <3>3. SubSeq(b, w + 1, q2) = SubSeq(b, w + 1, q2 - 1) \o <<b[q2]>>
      BY <3>2, SubSeqRecursiveSecond DEF TextLines
    <3>4. SubSeq(b, w + 1, q) \in Seq(TextLine) /\ b[q2] \in TextLine
      <4>1. \A i \in w + 1 .. q : b[i] \in TextLine
        BY <2>3 DEF TextLines
      <4>2. w + 1 \in Int /\ q \in Int
        BY <2>3
      <4>3. SubSeq(b, w + 1, q) \in Seq(TextLine)
        BY <4>1, <4>2, SubSeqProperties
      <4> QED
        BY <2>3, <3>1, <4>3 DEF TextLines
    <3>5. Append(SubSeq(b, w + 1, q), b[q2]) = SubSeq(b, w + 1, q) \o <<b[q2]>>
      BY <3>4, AppendIsConcat
    <3>6. said[k + 1] = SubSeq(b, w + 1, q2)
      BY <2>4, <2>5, <2>7, <3>1, <3>2, <3>3, <3>5
    <3> QED
      BY <2>1, <3>6 DEF q2, w
  <2> QED
    BY <2>6, <2>7
<1>15. 0 .. n \subseteq G
  <2> HIDE DEF G
  <2> QED
    BY <1>3, <1>13, <1>14, StepByStep
<1>16. n \in 0 .. n /\ (s - 1) + n = e
  BY <1>1, <1>2, <1>3
<1> QED
  <2>1. NewSide(chunk) = SubSeq(b, Q[s - 1] + 1, Q[e])
    BY <1>10, <1>15, <1>16
  <2> QED
    BY <2>1 DEF chunk, SidesAgree
-----------------------------------------------------------------------------
(* The hunks put in their places.                                          *)

SayTheSame(a, b, P, Q, l, m) == SubSeq(a, P[l] + 1, P[m]) = SubSeq(b, Q[l] + 1, Q[m])
Unchanged(rows, l, m) == \A k \in l + 1 .. m : rows[k].kind = "same"

Cuts(x, text, p, d) ==
  x \in Seq(TextLine) /\ Len(x) = d /\ \A i \in 1 .. d : x[i] = text[p + i]

LEMMA CutText ==
  ASSUME NEW text \in TextLines, NEW p \in Nat, NEW d \in Nat, p + d <= Len(text)
  PROVE  Cuts(SubSeq(text, p + 1, p + d), text, p, d)
<1> DEFINE x == SubSeq(text, p + 1, p + d)
<1>1. \A i \in p + 1 .. p + d : text[i] \in TextLine
  BY DEF TextLines
<1>2. p + 1 \in Int /\ p + d \in Int
  OBVIOUS
<1>3. x \in Seq(TextLine) /\ Len(x) = (IF p + 1 <= p + d THEN (p + d) - (p + 1) + 1 ELSE 0)
      /\ \A i \in 1 .. (p + d) - (p + 1) + 1 : x[i] = text[(p + 1) + i - 1]
  BY <1>1, <1>2, SubSeqProperties
<1>4. (p + d) - (p + 1) + 1 = d /\ \A i \in 1 .. d : (p + 1) + i - 1 = p + i
  OBVIOUS
<1>5. Len(x) = d
  <2> HIDE DEF x
  <2> QED
    BY <1>3
<1> HIDE DEF x
<1>6. \A i \in 1 .. d : x[i] = text[p + i]
  BY <1>3, <1>4
<1> QED
  BY <1>3, <1>5, <1>6 DEF Cuts, x

LEMMA SameInBetween ==
  ASSUME NEW a \in TextLines, NEW b \in TextLines, NEW rows \in Seq(Row), NEW P, NEW Q, Path(a, b, rows, P, Q),
         P[Len(rows)] = Len(a), Q[Len(rows)] = Len(b),
         NEW l \in 0 .. Len(rows), NEW m \in l .. Len(rows),
         Unchanged(rows, l, m)
  PROVE  SayTheSame(a, b, P, Q, l, m)
<1> DEFINE p == P[l]
           q == Q[l]
           G == {k \in l .. m : P[k] = p + (k - l) /\ Q[k] = q + (k - l)}
<1>1. Len(rows) \in Nat /\ l \in Nat /\ m \in Nat /\ l <= m /\ m <= Len(rows)
  OBVIOUS
<1>2. \A k \in 0 .. Len(rows) : P[k] \in 0 .. Len(a) /\ Q[k] \in 0 .. Len(b)
  BY PathStaysInside
<1>3. Len(a) \in Nat /\ Len(b) \in Nat /\ p \in Nat /\ q \in Nat
  BY <1>1, <1>2 DEF TextLines
<1>4. \A k \in l + 1 .. m : P[k] = P[k - 1] + 1 /\ Q[k] = Q[k - 1] + 1 /\ a[P[k]] = b[Q[k]]
  <2> TAKE k \in l + 1 .. m
  <2>1. k \in 1 .. Len(rows)
    BY <1>1
  <2>2. Leads(a, b, rows[k], P[k - 1], Q[k - 1], P[k], Q[k])
    BY <2>1 DEF Path
  <2> QED
    BY <2>2 DEF Leads, RemoveLine, AddLine, DiffRow, Unchanged
<1> HIDE DEF p, q
<1>5. l \in G
  BY <1>1, <1>3 DEF p, q
<1>6. ASSUME NEW k \in l .. m - 1, k \in G PROVE k + 1 \in G
  <2>1. k + 1 \in l + 1 .. m /\ (k + 1) - 1 = k /\ k \in Nat /\ k + 1 \in l .. m
    BY <1>1
  <2>2. P[k + 1] = P[k] + 1 /\ Q[k + 1] = Q[k] + 1
    BY <1>4, <2>1
  <2>3. P[k + 1] = p + ((k + 1) - l) /\ Q[k + 1] = q + ((k + 1) - l)
    BY <1>1, <1>3, <1>6, <2>1, <2>2
  <2> QED
    BY <2>1, <2>3
<1>7. l .. m \subseteq G
  <2> HIDE DEF G
  <2> QED
    BY <1>1, <1>5, <1>6, StepByStep
<1> DEFINE d == m - l
<1>8. P[m] = p + d /\ Q[m] = q + d /\ d \in Nat /\ p + d <= Len(a) /\ q + d <= Len(b)
  <2>1. m \in l .. m /\ m \in 0 .. Len(rows) /\ d \in Nat
    BY <1>1
  <2>2. P[m] = p + d /\ Q[m] = q + d
    BY <1>7, <2>1
  <2>3. P[m] <= Len(a) /\ Q[m] <= Len(b)
    BY <1>2, <2>1
  <2> QED
    BY <2>1, <2>2, <2>3
<1>9. \A i \in 1 .. d : a[p + i] = b[q + i]
  <2> TAKE i \in 1 .. d
  <2>1. l + i \in l + 1 .. m /\ l + i \in l .. m /\ (l + i) - l = i
    BY <1>1, <1>8
  <2>2. P[l + i] = p + i /\ Q[l + i] = q + i
    BY <1>7, <2>1
  <2> QED
    BY <1>4, <2>1, <2>2
<1> HIDE DEF d
<1> DEFINE x == SubSeq(a, p + 1, p + d)
           y == SubSeq(b, q + 1, q + d)
<1>10. Cuts(x, a, p, d)
  BY <1>3, <1>8, CutText
<1>11. Cuts(y, b, q, d)
  BY <1>3, <1>8, CutText
<1>12. x = y
  <2> HIDE DEF x, y
  <2>1. x \in Seq(TextLine) /\ Len(x) = d /\ \A i \in 1 .. d : x[i] = a[p + i]
    BY <1>10 DEF Cuts
  <2>2. y \in Seq(TextLine) /\ Len(y) = d /\ \A i \in 1 .. d : y[i] = b[q + i]
    BY <1>11 DEF Cuts
  <2>3. \A i \in 1 .. d : x[i] = y[i]
    BY <1>9, <2>1, <2>2
  <2> QED
    BY <2>1, <2>2, <2>3, SeqEqual
<1> QED
  BY <1>8, <1>12 DEF p, q, SayTheSame

\* What is known of the hunks' ranges.
FitRanges(rows, R) ==
  /\ R \in Seq([start : 1 .. Len(rows), end : 1 .. Len(rows)])
  /\ \A h \in 1 .. Len(R) : R[h].start <= R[h].end
  /\ \A g, h \in 1 .. Len(R) : g < h => R[g].end < R[h].start
  /\ \A c \in 1 .. Len(rows) : rows[c].kind # "same" => \E h \in 1 .. Len(R) : Near(Len(rows), c, R[h])

LEMMA RangesFit ==
  ASSUME DiffAssumption, NEW rows \in Seq(Row)
  PROVE  FitRanges(rows, Ranges(rows))
<1> DEFINE R == Ranges(rows)
<1>1. R \in RangesTo(rows, Len(rows))
  BY RangesFound
<1>2. R \in Seq([start : 1 .. Len(rows), end : 1 .. Len(rows)])
  BY <1>1 DEF RangesTo
<1>3. DOMAIN R = 1 .. Len(R)
  BY <1>2
<1> HIDE DEF R
<1>4. FitRanges(rows, R)
  BY <1>1, <1>2, <1>3 DEF RangesTo, FitRanges
<1> QED
  BY <1>4 DEF R

Edge(R, h) == IF h = 0 THEN 0 ELSE R[h].end

\* Between two ranges nothing changes.
LEMMA NothingBetween ==
  ASSUME DiffAssumption, NEW rows \in Seq(Row), NEW R, FitRanges(rows, R), NEW h \in 1 .. Len(R) + 1
  PROVE  /\ Edge(R, h - 1) \in 0 .. Len(rows)
         /\ LET last == IF h = Len(R) + 1 THEN Len(rows) ELSE R[h].start - 1
            IN Edge(R, h - 1) <= last /\ \A k \in Edge(R, h - 1) + 1 .. last : rows[k].kind = "same"
<1> DEFINE n == Len(rows)
           N == Len(R)
           edge == Edge(R, h - 1)
           last == IF h = N + 1 THEN n ELSE R[h].start - 1
<1>1. n \in Nat /\ N \in Nat /\ h \in Nat /\ h - 1 \in Nat /\ Context \in Nat
  BY DEF FitRanges, DiffAssumption
<1>2. \A g \in 1 .. N : R[g].start \in 1 .. n /\ R[g].end \in 1 .. n /\ R[g].start <= R[g].end
  <2> TAKE g \in 1 .. N
  <2> DEFINE Range1 == [start : 1 .. n, end : 1 .. n]
  <2>1. R[g] \in Range1
    <3>1. R \in Seq(Range1)
      BY DEF FitRanges
    <3> HIDE DEF Range1
    <3> QED
      BY <3>1
  <2> QED
    BY <2>1 DEF FitRanges
<1>3. \A g, i \in 1 .. N : g < i => R[g].end < R[i].start
  BY DEF FitRanges
<1> HIDE DEF n, N
<1>4. edge \in 0 .. n
  <2>1. CASE h = 1
    BY <1>1, <2>1 DEF Edge
  <2>2. CASE h # 1
    <3>1. h - 1 \in 1 .. N /\ h - 1 # 0
      BY <1>1, <2>2 DEF N
    <3> QED
      BY <1>1, <1>2, <3>1 DEF Edge
  <2> QED
    BY <2>1, <2>2
<1>5. last \in 0 .. n /\ (h \in 1 .. N => last = R[h].start - 1) /\ (h \notin 1 .. N => h = N + 1 /\ last = n)
  <2>1. CASE h = N + 1
    BY <1>1, <2>1
  <2>2. CASE h # N + 1
    <3>1. h \in 1 .. N
      BY <1>1, <2>2 DEF N
    <3>2. R[h].start \in 1 .. n
      BY <1>2, <3>1
    <3> QED
      BY <1>1, <2>2, <3>1, <3>2
  <2> QED
    BY <2>1, <2>2
<1> HIDE DEF last
<1>6. edge <= last
  <2>1. CASE h = 1
    BY <1>1, <1>5, <2>1 DEF Edge
  <2>2. CASE h # 1
    <3>1. h - 1 \in 1 .. N /\ h - 1 # 0 /\ h - 1 < h
      BY <1>1, <2>2 DEF N
    <3>2. edge = R[h - 1].end /\ R[h - 1].end \in 1 .. n
      BY <1>2, <3>1 DEF Edge
    <3>3. CASE h \in 1 .. N
      <4>1. R[h - 1].end < R[h].start /\ R[h].start \in 1 .. n
        BY <1>2, <1>3, <3>1, <3>3
      <4> QED
        BY <1>1, <1>5, <3>2, <3>3, <4>1
    <3>4. CASE h \notin 1 .. N
      BY <1>1, <1>5, <3>2, <3>4
    <3> QED
      BY <3>3, <3>4
  <2> QED
    BY <2>1, <2>2
<1>7. ASSUME NEW k \in edge + 1 .. last PROVE rows[k].kind = "same"
  <2>1. k \in 1 .. n /\ edge < k /\ k <= last
    BY <1>1, <1>4, <1>5
  <2>2. SUFFICES ASSUME rows[k].kind # "same" PROVE FALSE
    OBVIOUS
  <2>3. PICK g \in 1 .. N : Near(n, k, R[g])
    BY <2>1, <2>2 DEF FitRanges, n, N
  <2> DEFINE start == R[g].start
             end == R[g].end
  <2>4. start <= Larger(1, k - Context) /\ Smaller(n, k + Context) <= end /\ start \in 1 .. n /\ end \in 1 .. n
    BY <1>2, <2>3 DEF Near
  <2>n. n \in Nat /\ k \in Nat /\ Context \in Nat /\ start \in Nat /\ end \in Nat
        /\ edge \in Nat /\ last \in Nat /\ 1 <= k /\ k <= n
    <3>1. n \in Nat /\ Context \in Nat /\ edge \in 0 .. n /\ last \in 0 .. n /\ k \in 1 .. n
      BY <1>1, <1>4, <1>5, <2>1
    <3>2. start \in 1 .. n /\ end \in 1 .. n
      BY <2>4
    <3> HIDE DEF start, end, edge
    <3> QED
      BY <3>1, <3>2
  <2>r. start = R[g].start /\ end = R[g].end
    OBVIOUS
  <2> HIDE DEF start, end, edge
  <2>5. start <= k /\ k <= end
    <3>1. Larger(1, k - Context) <= k /\ Larger(1, k - Context) \in Int
      BY <2>n DEF Larger
    <3>2. k <= Smaller(n, k + Context) /\ Smaller(n, k + Context) \in Int
      BY <2>n DEF Smaller
    <3> QED
      BY <2>4, <2>n, <3>1, <3>2
  <2>6. CASE g < h
    <3>1. h - 1 \in 1 .. N /\ h - 1 # 0 /\ (g = h - 1 \/ g < h - 1)
      BY <1>1, <2>6 DEF N
    <3> DEFINE before == R[h - 1].start
    <3>2. edge = R[h - 1].end
      BY <1>2, <3>1 DEF Edge, edge
    <3>a. before <= edge
      BY <1>2, <3>1, <3>2
    <3>b. before \in Nat
      BY <1>2, <3>1
    <3>3. end <= edge
      <4>1. CASE g = h - 1
        <5>1. end = edge
          BY <2>r, <3>2, <4>1
        <5> QED
          BY <2>n, <5>1
      <4>2. CASE g < h - 1
        <5>1. end < before
          BY <1>3, <2>r, <3>1, <4>2
        <5>2. before \in Nat /\ edge \in Nat /\ end \in Nat /\ before <= edge
          BY <2>n, <3>a, <3>b
        <5> HIDE DEF before
        <5> QED
          BY <5>1, <5>2
      <4> QED
        BY <3>1, <4>1, <4>2
    <3>4. edge < k
      BY <2>1
    <3> QED
      BY <2>n, <2>5, <3>3, <3>4
  <2>7. CASE ~(g < h)
    <3>1. h \in 1 .. N /\ (g = h \/ h < g)
      BY <1>1, <2>7
    <3> DEFINE first == R[h].start
               final == R[h].end
    <3>2. last = first - 1
      BY <1>5, <3>1
    <3>f. first <= final /\ first \in Nat /\ final \in Nat
      BY <1>2, <3>1
    <3>3. first <= start
      <4>1. CASE g = h
        <5>1. first = start
          BY <2>r, <4>1
        <5> QED
          BY <2>n, <5>1
      <4>2. CASE h < g
        <5>1. final < start
          BY <1>3, <2>r, <3>1, <4>2
        <5> HIDE DEF first, final
        <5> QED
          BY <2>n, <3>f, <5>1
      <4> QED
        BY <3>1, <4>1, <4>2
    <3>4. k <= last
      BY <2>1
    <3> HIDE DEF first, final
    <3> QED
      BY <2>n, <2>5, <3>2, <3>3, <3>4, <3>f
  <2> QED
    BY <2>6, <2>7
<1> QED
  BY <1>4, <1>6, <1>7 DEF last, n, N

LEMMA HunkInside ==
  ASSUME NEW n \in Nat, NEW s \in 1 .. n, NEW e \in 1 .. n, s <= e
  PROVE  e \in s .. n /\ s - 1 \in 0 .. n /\ e \in 0 .. n /\ e \in s - 1 .. n
  OBVIOUS

LEMMA InsideHunk ==
  ASSUME NEW n \in Nat, NEW s \in 1 .. n, NEW e \in s .. n, NEW c \in s .. e
  PROVE  /\ c \in 1 .. n /\ c - 1 \in 0 .. n /\ c \in 0 .. n
         /\ c \in s - 1 .. n /\ c - 1 \in s - 1 .. n /\ e \in c .. n
  OBVIOUS

LEMMA OnlyEndsAreNear ==
  ASSUME NEW n \in Nat, NEW s \in 1 .. n, NEW e \in 1 .. n, NEW near \in Nat, 1 <= near,
         s <= Larger(1, s - near), Smaller(n, e + near) <= e
  PROVE  s = 1 /\ e = n
  BY DEF Larger, Smaller

\* The header of a hunk is true, and a hunk holds an old line: one without any would
\* reach from end to end of a text that has none.
HunkFits(hunk, rows, P, Q, s, e) ==
  /\ s \in 1 .. Len(rows) /\ e \in s .. Len(rows)
  /\ hunk.rows = SubSeq(rows, s, e)
  /\ hunk.oldStart = P[s - 1] + 1 /\ hunk.oldLength = P[e] - P[s - 1] /\ P[s - 1] < P[e]
  /\ hunk.newLength = Q[e] - Q[s - 1]
  /\ hunk.newStart = IF Q[e] = Q[s - 1] THEN 0 ELSE Q[s - 1] + 1

LEMMA HunkTells ==
  ASSUME DiffAssumption, NEW a \in TextLines, NEW b \in TextLines, a # <<>>,
         NEW rows \in Seq(Row), NEW P, NEW Q, Path(a, b, rows, P, Q),
         P[Len(rows)] = Len(a), Q[Len(rows)] = Len(b),
         NEW R, FitRanges(rows, R), NEW h \in 1 .. Len(R),
         NEW s, s = R[h].start, NEW e, e = R[h].end, NEW hunk, hunk = Hunk(rows, R[h])
  PROVE  HunkFits(hunk, rows, P, Q, s, e)
<1> DEFINE n == Len(rows)
           p == P[s - 1]
           p2 == P[e]
           q == Q[s - 1]
           q2 == Q[e]
           oldLines == p + 1 .. p2
           newLines == q + 1 .. q2
           BeginsAt(lines) == IF lines = {} THEN 0 ELSE Min(lines)
<1>1. n \in Nat /\ \A g \in 1 .. Len(R) : R[g].start \in 1 .. n /\ R[g].end \in 1 .. n /\ R[g].start <= R[g].end
  <2> DEFINE Range1 == [start : 1 .. n, end : 1 .. n]
  <2>1. R \in Seq(Range1)
    BY DEF FitRanges
  <2>2. ASSUME NEW g \in 1 .. Len(R) PROVE R[g] \in Range1
    <3> HIDE DEF Range1
    <3> QED
      BY <2>1
  <2>3. \A g \in 1 .. Len(R) : R[g].start \in 1 .. n /\ R[g].end \in 1 .. n
    BY <2>2
  <2>4. \A g \in 1 .. Len(R) : R[g].start <= R[g].end
    BY DEF FitRanges
  <2>5. n \in Nat
    OBVIOUS
  <2> QED
    BY <2>3, <2>4, <2>5
<1>2. s \in 1 .. n /\ e \in s .. n /\ e \in 1 .. n /\ s \in Nat /\ e \in Nat /\ s <= e /\ s - 1 \in 0 .. n /\ e \in 0 .. n
      /\ e \in s - 1 .. n
  <2>1. R[h].start \in 1 .. n /\ R[h].end \in 1 .. n /\ R[h].start <= R[h].end
    BY <1>1
  <2>2. n \in Nat /\ s \in 1 .. n /\ e \in 1 .. n /\ s <= e
    BY <1>1, <2>1
  <2> HIDE DEF n
  <2>3. s \in Nat /\ e \in Nat /\ 1 <= s /\ e <= n
    BY <2>2
  <2>4. e \in s .. n /\ s - 1 \in 0 .. n /\ e \in 0 .. n /\ e \in s - 1 .. n
    BY <2>2, HunkInside
  <2> QED
    BY <2>2, <2>3, <2>4
<1>3. p \in Nat /\ p2 \in Nat /\ q \in Nat /\ q2 \in Nat /\ p <= p2 /\ q <= q2
  <2>1. p \in Nat /\ q \in Nat /\ p <= p2 /\ q <= q2
    BY <1>2, PathRises
  <2>2. p2 \in Nat /\ q2 \in Nat
    BY <1>2 DEF Path
  <2> QED
    BY <2>1, <2>2
<1>4. OldOf(rows, s, e) = oldLines /\ NewOf(rows, s, e) = newLines
  <2>1. s \in 1 .. Len(rows) /\ e \in s .. Len(rows)
    BY <1>2
  <2>2. LinesFit(rows, P, Q, s, e)
    BY <2>1, LinesOfHunk
  <2> QED
    BY <2>2 DEF LinesFit
<1>5. hunk = [oldStart |-> BeginsAt(OldOf(rows, s, e)), oldLength |-> Cardinality(OldOf(rows, s, e)),
              newStart |-> BeginsAt(NewOf(rows, s, e)), newLength |-> Cardinality(NewOf(rows, s, e)),
              rows |-> SubSeq(rows, s, e)]
  BY DEF Hunk, OldOf, NewOf
<1>6. p < p2
  <2>1. SUFFICES ASSUME p = p2 PROVE FALSE
    BY <1>3
  <2>2. ASSUME NEW c \in s .. e PROVE rows[c].kind = "add"
    <3>1. c \in 1 .. n /\ c - 1 \in 0 .. n /\ c \in 0 .. n /\ c \in s - 1 .. n /\ c - 1 \in s - 1 .. n /\ e \in c .. n
      <4>1. n \in Nat /\ s \in 1 .. n /\ e \in s .. n
        BY <1>1, <1>2
      <4> HIDE DEF n
      <4> QED
        BY <4>1, InsideHunk
    <3>2. p <= P[c - 1] /\ P[c] <= p2 /\ P[c] \in Nat
      BY <1>2, <3>1, PathRises
    <3>3. Leads(a, b, rows[c], P[c - 1], Q[c - 1], P[c], Q[c])
      BY <3>1 DEF Path
    <3>4. P[c - 1] \in Nat
      BY <3>1 DEF Path
    <3>5. P[c] # P[c - 1] + 1
      <4> HIDE DEF p, p2
      <4> QED
        BY <1>3, <2>1, <3>2, <3>4
    <3> QED
      BY <3>3, <3>5 DEF Leads, AddLine, DiffRow
  <2>3. ASSUME NEW c \in s .. e PROVE s <= Larger(1, c - Context) /\ Smaller(n, c + Context) <= e
    <3>0. n \in Nat /\ s \in 1 .. n /\ e \in s .. n
      BY <1>1, <1>2
    <3>1. c \in 1 .. n /\ rows[c].kind # "same"
      <4>1. c \in 1 .. n
        <5> HIDE DEF n
        <5> QED
          BY <3>0, InsideHunk
      <4> QED
        BY <2>2, <4>1
    <3>2. PICK g \in 1 .. Len(R) : Near(n, c, R[g])
      BY <3>1 DEF FitRanges
    <3> DEFINE start == R[g].start
               end == R[g].end
    <3>3. start <= Larger(1, c - Context) /\ Smaller(n, c + Context) <= end
      BY <3>2 DEF Near
    <3>4. start \in 1 .. n /\ end \in 1 .. n /\ start <= end
      BY <1>1
    <3>5. (g < h => end < s) /\ (h < g => e < start)
      BY DEF FitRanges
    <3>6. g = h => start = s /\ end = e
      OBVIOUS
    <3>n. n \in Nat /\ c \in Nat /\ Context \in Nat /\ 1 <= c /\ c <= n /\ s <= c /\ c <= e
      BY <1>1, <1>2, <3>1 DEF DiffAssumption
    <3>g. g = h \/ g < h \/ h < g
      <4>1. Len(R) \in Nat
        BY DEF FitRanges
      <4> QED
        BY <4>1
    <3> HIDE DEF start, end, n
    <3>7. Larger(1, c - Context) <= c /\ Larger(1, c - Context) \in Int
      BY <3>n DEF Larger
    <3>8. c <= Smaller(n, c + Context) /\ Smaller(n, c + Context) \in Int
      BY <3>n DEF Smaller
    <3>t. start \in Nat /\ end \in Nat /\ s \in Nat /\ e \in Nat
      BY <1>2, <3>4, <3>n
    <3>9. start <= c /\ c <= end
      <4> DEFINE x == Larger(1, c - Context)
                 y == Smaller(n, c + Context)
      <4>1. x \in Int /\ y \in Int /\ start <= x /\ x <= c /\ c <= y /\ y <= end
        BY <3>3, <3>7, <3>8
      <4> HIDE DEF x, y
      <4> QED
        BY <3>n, <3>t, <4>1
    <3>10. ~(g < h) /\ ~(h < g)
      <4>1. ~(end < s)
        BY <3>9, <3>n, <3>t
      <4>2. ~(e < start)
        BY <3>9, <3>n, <3>t
      <4> QED
        BY <3>5, <4>1, <4>2
    <3> QED
      BY <3>3, <3>6, <3>10, <3>g
  <2>4. s <= Larger(1, s - Context) /\ Smaller(n, e + Context) <= e
    <3>1. s \in s .. e /\ e \in s .. e
      BY <1>2
    <3> QED
      BY <2>3, <3>1
  <2>5. Context \in Nat /\ 1 <= Context
    BY DEF DiffAssumption
  <2>6. s = 1 /\ e = n
    <3> HIDE DEF n
    <3> QED
      BY <1>1, <1>2, <2>4, <2>5, OnlyEndsAreNear
  <2>7. p = 0 /\ p2 = Len(a)
    BY <2>6 DEF Path
  <2>8. Len(a) # 0
    BY DEF TextLines
  <2> QED
    BY <2>1, <2>7, <2>8
<1> HIDE DEF n, p, p2, q, q2
<1>7. Cardinality(oldLines) = p2 - p /\ Cardinality(newLines) = q2 - q
  BY <1>3, CountedInterval
<1>8. BeginsAt(oldLines) = p + 1
  <2>1. p + 1 \in oldLines
    BY <1>3, <1>6
  <2>2. Min(oldLines) = p + 1
    BY <1>3, <1>6, FirstOfInterval
  <2> HIDE DEF oldLines
  <2> QED
    BY <2>1, <2>2
<1>9. BeginsAt(newLines) = IF q2 = q THEN 0 ELSE q + 1
  <2>1. CASE q2 = q
    <3>1. newLines = {}
      BY <1>3, <2>1
    <3> QED
      BY <2>1, <3>1
  <2>2. CASE q2 # q
    <3>1. q < q2
      BY <1>3, <2>2
    <3>2. q + 1 \in newLines
      BY <1>3, <3>1
    <3>3. Min(newLines) = q + 1
      BY <1>3, <3>1, FirstOfInterval
    <3> HIDE DEF newLines
    <3> QED
      BY <2>2, <3>2, <3>3
  <2> QED
    BY <2>1, <2>2
<1> HIDE DEF oldLines, newLines, BeginsAt
<1>10. hunk = [oldStart |-> p + 1, oldLength |-> p2 - p,
               newStart |-> IF q2 = q THEN 0 ELSE q + 1, newLength |-> q2 - q, rows |-> SubSeq(rows, s, e)]
  BY <1>4, <1>5, <1>7, <1>8, <1>9
<1> DEFINE cut == SubSeq(rows, s, e)
           from == IF q2 = q THEN 0 ELSE q + 1
<1> HIDE DEF cut, from
<1>11. hunk = [oldStart |-> p + 1, oldLength |-> p2 - p, newStart |-> from, newLength |-> q2 - q, rows |-> cut]
  BY <1>10 DEF cut, from
<1>12. /\ hunk.oldStart = p + 1 /\ hunk.oldLength = p2 - p /\ hunk.newStart = from
       /\ hunk.newLength = q2 - q /\ hunk.rows = cut
  BY <1>11
<1> QED
  BY <1>2, <1>6, <1>12 DEF n, p, p2, q, q2, cut, from, HunkFits

\* The reader who puts the hunks in their places has the new text.
LEMMA PatchedIsNew ==
  ASSUME DiffAssumption, NEW a \in TextLines, NEW b \in TextLines, a # <<>>,
         NEW rows, Script(a, b, rows, Len(a), Len(b)),
         NEW hs, hs = Unified(rows)
  PROVE  PatchedText(a, hs) = b
<1> DEFINE R == Ranges(rows)
           N == Len(R)
           n == Len(rows)
<1>1. PICK P, Q : Path(a, b, rows, P, Q) /\ P[n] = Len(a) /\ Q[n] = Len(b)
  BY DEF Script
<1>2. rows \in Seq(Row) /\ n \in Nat /\ Len(a) \in Nat /\ Len(b) \in Nat
  BY DEF Script, TextLines
<1>3. FitRanges(rows, R)
  BY <1>2, RangesFit
<1>4. N \in Nat /\ DOMAIN R = 1 .. N
  BY <1>3 DEF FitRanges
<1>5. hs = [h \in 1 .. N |-> Hunk(rows, R[h])]
  BY <1>4 DEF Unified
<1>6. Len(hs) = N /\ \A h \in 1 .. N : hs[h] = Hunk(rows, R[h])
  BY <1>4, <1>5
<1> HIDE DEF R, N, n
<1> DEFINE s(h) == R[h].start
           e(h) == R[h].end
           edge(h) == Edge(R, h)
<1>7. ASSUME NEW h \in 1 .. N
      PROVE  /\ s(h) \in 1 .. n /\ e(h) \in s(h) .. n
             /\ hs[h].rows = SubSeq(rows, s(h), e(h))
             /\ hs[h].oldStart = P[s(h) - 1] + 1 /\ hs[h].oldLength = P[e(h)] - P[s(h) - 1]
  <2>1. hs[h] = Hunk(rows, R[h])
    BY <1>6
  <2>2. s(h) = R[h].start /\ e(h) = R[h].end
    OBVIOUS
  <2>3. h \in 1 .. Len(R) /\ rows \in Seq(Row) /\ Path(a, b, rows, P, Q)
    BY <1>1, <1>2 DEF N
  <2>4. P[Len(rows)] = Len(a) /\ Q[Len(rows)] = Len(b)
    BY <1>1 DEF n
  <2> HIDE DEF s, e
  <2>5. HunkFits(hs[h], rows, P, Q, s(h), e(h))
    BY <1>3, <2>1, <2>2, <2>3, <2>4, HunkTells
  <2> QED
    BY <2>5 DEF HunkFits, n
<1>8. \A k \in 0 .. n : P[k] \in 0 .. Len(a) /\ Q[k] \in 0 .. Len(b)
  BY <1>1, <1>2, PathStaysInside DEF n
<1>9. ASSUME NEW h \in 0 .. N PROVE edge(h) \in 0 .. n /\ After(hs, h) = P[edge(h)] + 1
  <2>1. CASE h = 0
    BY <1>1, <1>2, <2>1 DEF After, Path, Edge
  <2>2. CASE h # 0
    <3>1. h \in 1 .. N
      BY <1>4, <2>2
    <3>2. s(h) \in 1 .. n /\ e(h) \in s(h) .. n /\ hs[h].oldStart = P[s(h) - 1] + 1
          /\ hs[h].oldLength = P[e(h)] - P[s(h) - 1]
      BY <1>7, <3>1
    <3> HIDE DEF s, e
    <3>3. e(h) \in 0 .. n /\ s(h) - 1 \in 0 .. n
      BY <1>2, <3>2
    <3>4. P[e(h)] \in Nat /\ P[s(h) - 1] \in Nat
      BY <1>1, <3>3 DEF Path, n
    <3>5. After(hs, h) = P[e(h)] + 1
      <4> DEFINE x == P[s(h) - 1]
                 y == P[e(h)]
      <4>1. After(hs, h) = (x + 1) + (y - x)
        BY <2>2, <3>2 DEF After
      <4>2. x \in Nat /\ y \in Nat
        BY <3>4
      <4> HIDE DEF x, y
      <4>3. After(hs, h) = y + 1
        BY <4>1, <4>2
      <4> QED
        BY <4>3 DEF y
    <3>6. edge(h) = e(h)
      BY <2>2 DEF Edge, e
    <3> QED
      BY <3>3, <3>5, <3>6
  <2> QED
    BY <2>1, <2>2
<1> DEFINE Final(h) == IF h = N + 1 THEN n ELSE s(h) - 1
<1>10. ASSUME NEW h \in 1 .. N + 1
       PROVE  /\ Final(h) \in edge(h - 1) .. n /\ h - 1 \in 0 .. N
              /\ SubSeq(a, P[edge(h - 1)] + 1, P[Final(h)]) = SubSeq(b, Q[edge(h - 1)] + 1, Q[Final(h)])
  <2>1. h - 1 \in 0 .. N
    BY <1>4
  <2>2. edge(h - 1) \in 0 .. n
    BY <1>9, <2>1
  <2>3. edge(h - 1) <= Final(h) /\ \A k \in edge(h - 1) + 1 .. Final(h) : rows[k].kind = "same"
    BY <1>2, <1>3, NothingBetween DEF N, n
  <2>4. Final(h) \in Nat /\ Final(h) <= n
    <3>1. CASE h = N + 1
      BY <1>2, <3>1
    <3>2. CASE h # N + 1
      <4>1. h \in 1 .. N
        BY <1>4, <3>2
      <4>2. s(h) \in 1 .. n
        BY <1>7, <4>1
      <4> HIDE DEF s
      <4> QED
        BY <1>2, <3>2, <4>2
    <3> QED
      BY <3>1, <3>2
  <2> HIDE DEF edge, Final
  <2>5. Final(h) \in edge(h - 1) .. n
    BY <1>2, <2>2, <2>3, <2>4
  <2>6. SubSeq(a, P[edge(h - 1)] + 1, P[Final(h)]) = SubSeq(b, Q[edge(h - 1)] + 1, Q[Final(h)])
    <3>1. P[Len(rows)] = Len(a) /\ Q[Len(rows)] = Len(b) /\ Path(a, b, rows, P, Q) /\ rows \in Seq(Row)
      BY <1>1, <1>2 DEF n
    <3>2. edge(h - 1) \in 0 .. Len(rows) /\ Final(h) \in edge(h - 1) .. Len(rows)
      BY <2>2, <2>5 DEF n
    <3>3. Unchanged(rows, edge(h - 1), Final(h))
      BY <2>3 DEF Unchanged
    <3>4. SayTheSame(a, b, P, Q, edge(h - 1), Final(h))
      BY <3>1, <3>2, <3>3, SameInBetween
    <3> QED
      BY <3>4 DEF SayTheSame
  <2> QED
    BY <2>1, <2>5, <2>6
<1>11. ASSUME NEW h \in 1 .. N
       PROVE  NewSide(hs[h].rows) = SubSeq(b, Q[s(h) - 1] + 1, Q[e(h)])
  <2>1. s(h) \in 1 .. n /\ e(h) \in s(h) .. n /\ hs[h].rows = SubSeq(rows, s(h), e(h))
    BY <1>7
  <2> HIDE DEF s, e
  <2>2. P[Len(rows)] = Len(a) /\ Q[Len(rows)] = Len(b) /\ Path(a, b, rows, P, Q) /\ rows \in Seq(Row)
    BY <1>1, <1>2 DEF n
  <2>3. s(h) \in 1 .. Len(rows) /\ e(h) \in s(h) .. Len(rows)
    BY <2>1 DEF n
  <2>4. SidesAgree(rows, b, Q, s(h), e(h))
    BY <2>2, <2>3, NewSideIsCut
  <2> QED
    BY <2>1, <2>4 DEF SidesAgree
<1> DEFINE none == <<>>
           S == TextLines
           Between(h) == SubSeq(a, After(hs, h - 1), hs[h].oldStart - 1)
           Turn(x, h) == x \o Between(h) \o NewSide(hs[h].rows)
           Found(f, h) == IF h = 0 THEN none ELSE Turn(f[h - 1], h)
           upTo[h \in 0 .. N] == Found(upTo, h)
           step == [x \in S |-> [h \in 0 .. N |-> IF h = 0 THEN none ELSE Turn(x, h)]]
<1>12. ASSUME NEW i \in 0 .. n, NEW j \in 0 .. n
       PROVE  SubSeq(b, Q[i] + 1, Q[j]) \in TextLines
  <2>1. Q[i] \in 0 .. Len(b) /\ Q[j] \in 0 .. Len(b)
    BY <1>8
  <2>2. \A k \in Q[i] + 1 .. Q[j] : b[k] \in TextLine
    <3>1. \A k \in Q[i] + 1 .. Q[j] : k \in 1 .. Len(b)
      BY <1>2, <2>1 DEF TextLines
    <3>2. \A k \in 1 .. Len(b) : b[k] \in TextLine
      BY <1>2 DEF TextLines
    <3> QED
      BY <3>1, <3>2
  <2>3. Q[i] + 1 \in Int /\ Q[j] \in Int
    BY <1>2, <2>1
  <2> QED
    BY <2>2, <2>3, SubSeqProperties DEF TextLines
<1>13. ASSUME NEW h \in 1 .. N
       PROVE  /\ Between(h) = SubSeq(b, Q[edge(h - 1)] + 1, Q[s(h) - 1]) /\ Between(h) \in TextLines
              /\ NewSide(hs[h].rows) \in TextLines
              /\ edge(h - 1) \in 0 .. n /\ s(h) - 1 \in edge(h - 1) .. n /\ e(h) \in s(h) .. n
              /\ s(h) \in 1 .. n /\ h - 1 \in 0 .. N /\ edge(h) = e(h)
  <2>1. h \in 1 .. N + 1 /\ h # N + 1 /\ h # 0
    BY <1>4
  <2>2. Final(h) = s(h) - 1
    BY <2>1
  <2>3. s(h) - 1 \in edge(h - 1) .. n /\ h - 1 \in 0 .. N
        /\ SubSeq(a, P[edge(h - 1)] + 1, P[s(h) - 1]) = SubSeq(b, Q[edge(h - 1)] + 1, Q[s(h) - 1])
    <3> HIDE DEF s, edge, Final
    <3> QED
      BY <1>10, <2>1, <2>2
  <2>4. s(h) \in 1 .. n /\ e(h) \in s(h) .. n /\ hs[h].oldStart = P[s(h) - 1] + 1
    BY <1>7
  <2>5. edge(h - 1) \in 0 .. n /\ After(hs, h - 1) = P[edge(h - 1)] + 1
    BY <1>9, <2>3
  <2>6. edge(h) = e(h)
    BY <2>1 DEF Edge
  <2> HIDE DEF s, e, edge, Final
  <2>7. s(h) - 1 \in 0 .. n /\ e(h) \in 0 .. n
    BY <1>2, <2>4
  <2>8. hs[h].oldStart - 1 = P[s(h) - 1]
    <3>1. P[s(h) - 1] \in 0 .. Len(a)
      BY <1>8, <2>7
    <3> QED
      BY <1>2, <2>4, <3>1
  <2>9. Between(h) = SubSeq(b, Q[edge(h - 1)] + 1, Q[s(h) - 1])
    BY <2>3, <2>5, <2>8
  <2>10. Between(h) \in TextLines
    BY <1>12, <2>5, <2>7, <2>9
  <2>11. NewSide(hs[h].rows) \in TextLines
    BY <1>11, <1>12, <2>7
  <2> QED
    BY <2>3, <2>4, <2>5, <2>6, <2>9, <2>10, <2>11
<1> HIDE DEF Between
<1>14. none \in S /\ 0 \in Nat /\ 0 <= N
  BY <1>4 DEF TextLines
<1>15. ASSUME NEW x \in S, NEW h \in 1 .. N PROVE Turn(x, h) \in S
  <2>1. Between(h) \in Seq(TextLine) /\ NewSide(hs[h].rows) \in Seq(TextLine) /\ x \in Seq(TextLine)
    BY <1>13 DEF TextLines
  <2> DEFINE newLines == NewSide(hs[h].rows)
             oldLines == Between(h)
  <2> HIDE DEF newLines, oldLines
  <2>2. x \o oldLines \in Seq(TextLine)
    BY <2>1 DEF oldLines
  <2>3. (x \o oldLines) \o newLines \in Seq(TextLine)
    BY <2>1, <2>2, ConcatProperties DEF newLines
  <2> QED
    BY <2>3 DEF newLines, oldLines, TextLines
<1>16. step \in [S -> [0 .. N -> S]]
  <2> HIDE DEF Turn, S, none
  <2> QED
    BY <1>4, <1>14, <1>15
<1>17. PICK f \in [0 .. N -> S] : Follows(f, 0, N, none, step)
  <2> HIDE DEF step, none, S
  <2> QED
    BY <1>4, <1>14, <1>16, RecursionIsDefined
<1> HIDE DEF S
<1>18. f = [h \in 0 .. N |-> Found(f, h)]
  <2>1. ASSUME NEW h \in 0 .. N PROVE f[h] = Found(f, h)
    <3>1. CASE h # 0
      <4>1. h - 1 \in 0 .. N
        BY <1>4, <3>1
      <4>2. f[h - 1] \in S
        BY <4>1
      <4>3. f[h] = step[f[h - 1]][h]
        BY <1>17, <3>1 DEF Follows
      <4> HIDE DEF Turn
      <4> QED
        BY <3>1, <4>2, <4>3
    <3> QED
      BY <1>17, <3>1 DEF Follows
  <2> HIDE DEF Found
  <2> QED
    BY <2>1
<1>19. upTo = [h \in 0 .. N |-> Found(upTo, h)]
  <2> HIDE DEF Found
  <2> QED
    BY <1>18
<1>20. PatchedText(a, hs) = upTo[N] \o SubSeq(a, After(hs, N), Len(a))
  BY <1>6 DEF PatchedText, Between
<1>21. upTo[0] = none /\ \A h \in 1 .. N : upTo[h] = Turn(upTo[h - 1], h)
  <2>1. \A h \in 0 .. N : upTo[h] = Found(upTo, h)
    <3> HIDE DEF upTo, Found
    <3> QED
      BY <1>19
  <2> HIDE DEF upTo, Turn
  <2> QED
    BY <1>4, <2>1
<1> HIDE DEF upTo
<1> DEFINE G == {h \in 0 .. N : upTo[h] = SubSeq(b, 1, Q[edge(h)])}
\* Parts of the new text that adjoin, from its beginning on.
<1>22. ASSUME NEW i \in 0 .. n, NEW j \in i .. n
       PROVE  SubSeq(b, 1, Q[i]) \o SubSeq(b, Q[i] + 1, Q[j]) = SubSeq(b, 1, Q[j])
  <2>1. Q[i] \in 0 .. Len(b) /\ Q[j] \in 0 .. Len(b) /\ Q[i] <= Q[j]
    <3>1. j \in 0 .. n
      BY <1>2
    <3>2. Q[i] <= Q[j]
      BY <1>1, <1>2, PathRises DEF n
    <3> QED
      BY <1>8, <3>1, <3>2
  <2>2. 1 \in 1 .. Len(b) + 1 /\ Q[i] \in 1 - 1 .. Len(b) /\ Q[j] \in Q[i] .. Len(b)
    BY <1>2, <2>1
  <2> QED
    BY <2>2, ConcatAdjacentSubSeq DEF TextLines
<1>23. 0 \in G
  <2>1. edge(0) = 0 /\ Q[0] = 0
    BY <1>1 DEF Edge, Path
  <2>2. SubSeq(b, 1, 0) = <<>>
    BY SubSeqEmpty
  <2>3. Q[edge(0)] = 0 /\ upTo[0] = <<>>
    BY <1>21, <2>1
  <2>4. upTo[0] = SubSeq(b, 1, Q[edge(0)])
    <3> HIDE DEF edge
    <3> QED
      BY <2>2, <2>3
  <2>5. 0 \in 0 .. N
    BY <1>4
  <2> HIDE DEF edge
  <2> QED
    BY <2>4, <2>5
<1>24. ASSUME NEW g \in 0 .. N - 1, g \in G PROVE g + 1 \in G
  <2> DEFINE h == g + 1
  <2>1. h \in 1 .. N /\ h - 1 = g /\ h \in 0 .. N
    BY <1>4
  <2> HIDE DEF h
  <2>2. upTo[h - 1] = SubSeq(b, 1, Q[edge(h - 1)])
    BY <1>24, <2>1
  <2>3. /\ Between(h) = SubSeq(b, Q[edge(h - 1)] + 1, Q[s(h) - 1])
        /\ edge(h - 1) \in 0 .. n /\ s(h) - 1 \in edge(h - 1) .. n /\ e(h) \in s(h) .. n
        /\ s(h) \in 1 .. n /\ edge(h) = e(h)
    BY <1>13, <2>1
  <2>4. NewSide(hs[h].rows) = SubSeq(b, Q[s(h) - 1] + 1, Q[e(h)])
    BY <1>11, <2>1
  <2>5. upTo[h] = (upTo[h - 1] \o Between(h)) \o NewSide(hs[h].rows)
    BY <1>21, <2>1
  <2> HIDE DEF s, e, edge
  <2>6. SubSeq(b, 1, Q[edge(h - 1)]) \o SubSeq(b, Q[edge(h - 1)] + 1, Q[s(h) - 1]) = SubSeq(b, 1, Q[s(h) - 1])
    BY <1>22, <2>3
  <2>7. s(h) - 1 \in 0 .. n /\ e(h) \in s(h) - 1 .. n
    BY <1>2, <2>3
  <2>8. SubSeq(b, 1, Q[s(h) - 1]) \o SubSeq(b, Q[s(h) - 1] + 1, Q[e(h)]) = SubSeq(b, 1, Q[e(h)])
    BY <1>22, <2>7
  <2>9. upTo[h] = SubSeq(b, 1, Q[edge(h)])
    BY <2>2, <2>3, <2>4, <2>5, <2>6, <2>8
  <2> QED
    BY <2>1, <2>9 DEF h
<1>25. 0 .. N \subseteq G
  <2> HIDE DEF G
  <2> QED
    BY <1>4, <1>14, <1>23, <1>24, StepByStep
<1>26. upTo[N] = SubSeq(b, 1, Q[edge(N)]) /\ N \in 0 .. N /\ N + 1 \in 1 .. N + 1 /\ (N + 1) - 1 = N
  BY <1>4, <1>25
<1>27. After(hs, N) = P[edge(N)] + 1 /\ edge(N) \in 0 .. n
  BY <1>9, <1>26
<1>28. n \in edge(N) .. n /\ SubSeq(a, P[edge(N)] + 1, P[n]) = SubSeq(b, Q[edge(N)] + 1, Q[n])
  <2>1. Final(N + 1) = n
    OBVIOUS
  <2> HIDE DEF Final, edge
  <2> QED
    BY <1>10, <1>26, <2>1
<1> HIDE DEF edge
<1>29. PatchedText(a, hs) = SubSeq(b, 1, Q[edge(N)]) \o SubSeq(b, Q[edge(N)] + 1, Q[n])
  BY <1>1, <1>20, <1>26, <1>27, <1>28
<1>30. PatchedText(a, hs) = SubSeq(b, 1, Len(b))
  BY <1>1, <1>22, <1>27, <1>28, <1>29
<1> QED
  BY <1>30, SubSeqFull DEF TextLines
-----------------------------------------------------------------------------
DiffInv ==
  \/ oldText = <<>> /\ newText = <<>> /\ hunks = <<>>
  \/ /\ oldText \in TextsUpTo(MaxLines) /\ newText \in TextsUpTo(MaxLines)
     /\ hunks = BuildLineDiff(oldText, newText)

LEMMA TextsAreTexts ==
  ASSUME NEW a \in TextsUpTo(MaxLines)
  PROVE  a \in TextLines /\ a # <<>>
<1>1. PICK k \in 1 .. MaxLines : a \in [1 .. k -> TextLine]
  BY DEF TextsUpTo
<1>2. k \in Nat /\ 1 \in 1 .. k
  BY <1>1
<1>3. a \in Seq(TextLine) /\ Len(a) = k
  BY <1>1, <1>2
<1> QED
  BY <1>2, <1>3 DEF TextLines

\* Whichever way the rows were found, they go through both texts.
LEMMA RowsAreScript ==
  ASSUME DiffAssumption, NEW a \in TextLines, NEW b \in TextLines
  PROVE  \E rows : BuildLineDiff(a, b) = Unified(rows) /\ Script(a, b, rows, Len(a), Len(b))
<1>1. CASE Len(a) * Len(b) > MaxCells
  <2>1. BuildLineDiff(a, b) = Unified(FallbackRows(a, b))
    BY <1>1 DEF BuildLineDiff
  <2> QED
    BY <2>1, FallbackIsScript
<1>2. CASE ~(Len(a) * Len(b) > MaxCells)
  <2>1. BuildLineDiff(a, b) = Unified(TableRows(a, b))
    BY <1>2 DEF BuildLineDiff
  <2> QED
    BY <2>1, TableIsScript
<1> QED
  BY <1>1, <1>2

\* Each hunk is found where its header says.
LEMMA HunksAreFound ==
  ASSUME DiffAssumption, NEW a \in TextLines, NEW b \in TextLines, a # <<>>,
         NEW rows, Script(a, b, rows, Len(a), Len(b)),
         NEW hs, hs = Unified(rows), NEW hunk \in ToSet(hs)
  PROVE  /\ SubSeq(b, hunk.newStart, hunk.newStart + hunk.newLength - 1) = NewSide(hunk.rows)
         /\ hunk.oldLength + hunk.newLength > 0
<1> DEFINE R == Ranges(rows)
           n == Len(rows)
<1>1. PICK P, Q : Path(a, b, rows, P, Q) /\ P[n] = Len(a) /\ Q[n] = Len(b)
  BY DEF Script
<1>2. rows \in Seq(Row) /\ n \in Nat /\ Len(b) \in Nat /\ P[Len(rows)] = Len(a) /\ Q[Len(rows)] = Len(b)
  BY <1>1 DEF Script, TextLines
<1>3. FitRanges(rows, R)
  BY <1>2, RangesFit
<1>4. DOMAIN R = 1 .. Len(R)
  BY <1>3 DEF FitRanges
<1>5. PICK h \in 1 .. Len(R) : hunk = Hunk(rows, R[h])
  <2>1. hs = [h \in 1 .. Len(R) |-> Hunk(rows, R[h])]
    BY <1>4 DEF Unified
  <2> HIDE DEF R
  <2>2. \E h \in DOMAIN hs : hunk = hs[h]
    BY DEF ToSet
  <2> QED
    BY <2>1, <2>2
<1> DEFINE s == R[h].start
           e == R[h].end
<1>6. HunkFits(hunk, rows, P, Q, s, e)
  <2>1. s = R[h].start /\ e = R[h].end
    OBVIOUS
  <2> HIDE DEF s, e, R
  <2> QED
    BY <1>1, <1>2, <1>3, <1>5, <2>1, HunkTells
<1> HIDE DEF s, e
<1> DEFINE p == P[s - 1]
           p2 == P[e]
           q == Q[s - 1]
           q2 == Q[e]
<1>7. /\ s \in 1 .. n /\ e \in s .. n /\ hunk.rows = SubSeq(rows, s, e)
      /\ hunk.oldLength = p2 - p /\ p < p2
      /\ hunk.newLength = q2 - q /\ hunk.newStart = IF q2 = q THEN 0 ELSE q + 1
  BY <1>6 DEF HunkFits
<1>8. s - 1 \in 0 .. n /\ e \in s - 1 .. n /\ e \in 0 .. n
  <2> HIDE DEF n
  <2> QED
    BY <1>2, <1>7
<1>9. p \in Nat /\ q \in 0 .. Len(b) /\ q <= q2 /\ q2 \in 0 .. Len(b) /\ p2 \in Nat
  <2>1. P[s - 1] \in 0 .. Len(a) /\ Q[s - 1] \in 0 .. Len(b) /\ P[e] \in 0 .. Len(a) /\ Q[e] \in 0 .. Len(b)
    BY <1>1, <1>2, <1>8, PathStaysInside
  <2>2. Q[s - 1] <= Q[e]
    BY <1>1, <1>2, <1>8, PathRises
  <2>3. Len(a) \in Nat
    BY DEF TextLines
  <2> QED
    BY <2>1, <2>2, <2>3
<1>10. NewSide(hunk.rows) = SubSeq(b, q + 1, q2)
  <2>1. s \in 1 .. Len(rows) /\ e \in s .. Len(rows)
    BY <1>7
  <2>2. SidesAgree(rows, b, Q, s, e)
    BY <1>1, <1>2, <2>1, NewSideIsCut
  <2> QED
    BY <1>7, <2>2 DEF SidesAgree
<1> HIDE DEF p, p2, q, q2
<1>11. SubSeq(b, hunk.newStart, hunk.newStart + hunk.newLength - 1) = SubSeq(b, q + 1, q2)
  <2>1. CASE q2 = q
    <3>1. hunk.newStart = 0 /\ hunk.newStart + hunk.newLength - 1 = -1
      BY <1>2, <1>7, <1>9, <2>1
    <3>2. SubSeq(b, 0, -1) = <<>>
      BY SubSeqEmpty
    <3>3. SubSeq(b, q + 1, q2) = <<>>
      <4>1. q + 1 \in Int /\ q2 \in Int /\ q2 < q + 1
        BY <1>2, <1>9, <2>1
      <4> QED
        BY <4>1, SubSeqEmpty
    <3> QED
      BY <3>1, <3>2, <3>3
  <2>2. CASE q2 # q
    <3>1. hunk.newStart = q + 1 /\ hunk.newStart + hunk.newLength - 1 = q2
      BY <1>2, <1>7, <1>9, <2>2
    <3> QED
      BY <3>1
  <2> QED
    BY <2>1, <2>2
<1>12. hunk.oldLength + hunk.newLength > 0
  BY <1>2, <1>7, <1>9
<1> QED
  BY <1>10, <1>11, <1>12

LEMMA DiffInvSays == DiffAssumption /\ DiffInv => DiffTypeOK /\ DiffTellsTheChange
<1> SUFFICES ASSUME DiffAssumption, DiffInv PROVE DiffTypeOK /\ DiffTellsTheChange
  OBVIOUS
<1>1. CASE oldText = <<>> /\ newText = <<>> /\ hunks = <<>>
  <2>1. ToSet(hunks) = {}
    BY <1>1 DEF ToSet
  <2> QED
    BY <1>1, <2>1 DEF DiffTypeOK, DiffTellsTheChange
<1>2. CASE /\ oldText \in TextsUpTo(MaxLines) /\ newText \in TextsUpTo(MaxLines)
           /\ hunks = BuildLineDiff(oldText, newText)
  <2>1. oldText \in TextLines /\ oldText # <<>> /\ newText \in TextLines
    BY <1>2, TextsAreTexts
  <2>2. PICK rows : hunks = Unified(rows) /\ Script(oldText, newText, rows, Len(oldText), Len(newText))
    BY <1>2, <2>1, RowsAreScript
  <2>3. PatchedText(oldText, hunks) = newText
    BY <2>1, <2>2, PatchedIsNew
  <2>4. ASSUME NEW h \in ToSet(hunks)
        PROVE  /\ SubSeq(newText, h.newStart, h.newStart + h.newLength - 1) = NewSide(h.rows)
               /\ h.oldLength + h.newLength > 0
    BY <2>1, <2>2, HunksAreFound
  <2>5. DiffTellsTheChange
    BY <2>3, <2>4 DEF DiffTellsTheChange
  <2>6. DiffTypeOK
    BY <1>2, <2>4 DEF DiffTypeOK
  <2> QED
    BY <2>5, <2>6
<1> QED
  BY <1>1, <1>2 DEF DiffInv

\* The hunks shown turn the old version into the new one, and every header says where
\* its hunk belongs, for any texts, however they are compared (buildLineDiff) and
\* however many rows are kept around a change, but for none (buildUnifiedDiffRows).
THEOREM DifferenceIsTold == DiffSpec => [](DiffTypeOK /\ DiffTellsTheChange)
<1>1. DiffInit => DiffInv
  BY DEF DiffInit, DiffInv
<1>2. DiffInv /\ [DiffNext]_diffVars => DiffInv'
  <2> SUFFICES ASSUME DiffInv, [DiffNext]_diffVars PROVE DiffInv'
    OBVIOUS
  <2>1. CASE DiffNext
    BY <2>1 DEF DiffNext, CompareVersions, DiffInv
  <2>2. CASE UNCHANGED diffVars
    BY <2>2 DEF diffVars, DiffInv
  <2> QED
    BY <2>1, <2>2
<1>3. DiffInv => DiffTypeOK /\ DiffTellsTheChange
  BY DiffAssumption, DiffInvSays
<1> QED
  BY <1>1, <1>2, <1>3, PTL DEF DiffSpec
===============================================================================
