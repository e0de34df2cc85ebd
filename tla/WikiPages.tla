------------------------------- MODULE WikiPages -------------------------------
(***************************************************************************)
(* One wiki page, its editors and the supervisors who review its changes.  *)
(* A request reads the page, waits for permission and policy, and writes   *)
(* what it decided on the page as it had read it.  While changes need      *)
(* approval, a change of an approved page waits in pending_content.        *)
(***************************************************************************)
EXTENDS Naturals

CONSTANTS
  Editor, Reviewer,  \* requests that may be under way at a time
  MaxRevision        \* bound on the texts; they are numbered, 0 is no text

ASSUME WikiAssumption == MaxRevision \in Nat /\ Editor \cap Reviewer = {}

VARIABLES
  page,       \* the WikiDocument row; content 0: there is none
  mustAsk,    \* isWikiApprovalRequired
  asking,     \* what each request has read and wants
  latest,     \* history: the text edited last
  approvedText, \* history: the text approved last
  edits,      \* history: edits written since then
  loose       \* history: a write that was decided on an older page, a rejection of
              \* nothing, a status set by hand, a time without approval, a deletion

wikiVars == <<page, mustAsk, asking, latest, approvedText, edits, loose>>

Revision == 0 .. MaxRevision
NoPage == [content |-> 0, pending |-> 0, status |-> "draft"]
Quiet == [on |-> NoPage, text |-> 0]

WikiTypeOK ==
  /\ page \in [content : Revision, pending : Revision, status : {"draft", "pending", "approved"}]
  /\ mustAsk \in BOOLEAN /\ loose \in BOOLEAN
  /\ DOMAIN asking = Editor \cup Reviewer
  /\ {latest, approvedText, edits} \subseteq Revision

WikiInit ==
  /\ page = NoPage /\ mustAsk \in BOOLEAN
  /\ asking = [e \in Editor \cup Reviewer |-> Quiet]
  /\ latest = 0 /\ approvedText = 0 /\ edits = 0
  /\ loose = ~mustAsk

\* Request e is answered; it was decided on the page as it is, or not.
Answered(e) ==
  /\ asking' = [asking EXCEPT ![e] = Quiet]
  /\ loose' = (loose \/ asking[e].on # page)

-----------------------------------------------------------------------------
CreateWiki ==
  /\ page = NoPage /\ latest < MaxRevision
  /\ page' = [NoPage EXCEPT !.content = latest + 1]
  /\ latest' = latest + 1 /\ edits' = edits + 1
  /\ UNCHANGED <<mustAsk, asking, approvedText, loose>>

\* An editor comes with a text of their own.
ReadPage(e) ==
  /\ asking[e] = Quiet /\ page # NoPage
  /\ \/ e \in Reviewer /\ asking' = [asking EXCEPT ![e] = [on |-> page, text |-> 0]] /\ UNCHANGED latest
     \/ /\ e \in Editor /\ latest < MaxRevision
        /\ asking' = [asking EXCEPT ![e] = [on |-> page, text |-> latest + 1]]
        /\ latest' = latest + 1
  /\ UNCHANGED <<page, mustAsk, approvedText, edits, loose>>

IsApprovedEdit(row) == mustAsk /\ row.status = "approved"

\* Anything else replaces the content, whatever waits.
UpdateWiki(e) ==
  LET it == asking[e] IN
  /\ it.text > 0 /\ page # NoPage
  /\ page' = IF IsApprovedEdit(it.on)
               THEN [page EXCEPT !.pending = it.text, !.status = "pending"]
               ELSE [page EXCEPT !.content = it.text]
  /\ edits' = edits + 1
  /\ Answered(e)
  /\ UNCHANGED <<mustAsk, latest, approvedText>>

\* The status alone, by the same route.
SetStatus(status) ==
  /\ page # NoPage /\ status # page.status
  /\ page' = [page EXCEPT !.status = status]
  /\ loose' = TRUE
  /\ UNCHANGED <<mustAsk, asking, latest, approvedText, edits>>

ApproveWikiChange(r) ==
  LET read == asking[r].on
      text == IF read.pending # 0 THEN read.pending ELSE read.content IN
  /\ r \in Reviewer /\ asking[r] # Quiet /\ page # NoPage
  /\ page' = [content |-> text, pending |-> 0, status |-> "approved"]
  /\ approvedText' = text /\ edits' = 0
  /\ Answered(r)
  /\ UNCHANGED <<mustAsk, latest>>

RejectedMutant == [page EXCEPT !.status = "draft", !.pending = 0]

\* The text that was turned down stays in pending_content.
Rejected == [page EXCEPT !.status = "draft"]

RejectWikiChange(r) ==
  /\ r \in Reviewer /\ asking[r] # Quiet /\ page # NoPage
  /\ page' = Rejected
  /\ asking' = [asking EXCEPT ![r] = Quiet]
  /\ loose' = (loose \/ asking[r].on # page \/ page.pending = 0)
  /\ UNCHANGED <<mustAsk, latest, approvedText, edits>>

DeleteWiki ==
  /\ page # NoPage
  /\ page' = NoPage
  /\ loose' = TRUE
  /\ UNCHANGED <<mustAsk, asking, latest, approvedText, edits>>

\* A supervisor or an administrator changes the policy.
ChangePolicy ==
  /\ mustAsk' = ~mustAsk
  /\ loose' = TRUE
  /\ UNCHANGED <<page, asking, latest, approvedText, edits>>

WikiNext ==
  \/ CreateWiki \/ DeleteWiki \/ ChangePolicy
  \/ \E e \in Editor \cup Reviewer : ReadPage(e)
  \/ \E e \in Editor : UpdateWiki(e)
  \/ \E r \in Reviewer : ApproveWikiChange(r) \/ RejectWikiChange(r)
  \/ \E status \in {"draft", "pending", "approved"} : SetStatus(status)

WikiSpec == WikiInit /\ [][WikiNext]_wikiVars

-----------------------------------------------------------------------------
(* What the review promises                                                *)

\* The first change after an approval leaves the approved text alone, and is
\* still there to be approved whatever was rejected or approved in between.
\* (As long as requests do not overlap and nobody steps round the review.)
FirstChangeWaits ==
  (~loose /\ approvedText # 0 /\ edits <= 1) =>
    /\ page.content = approvedText
    /\ edits = 1 => page.pending # 0

\* "Changes take effect only once a supervisor has approved them": the same of
\* every change.
EveryChangeWaits == (~loose /\ approvedText # 0) => page.content = approvedText
=============================================================================
