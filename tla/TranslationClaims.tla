-------------------------- MODULE TranslationClaims --------------------------
(***************************************************************************)
(* The translation stage of one episode: its translation tasks, the time   *)
(* segments people claim on them, and the serial order in which the claims *)
(* are worked on, submitted and approved until the next stage opens.       *)
(*                                                                         *)
(* The stage before is completed and the project active throughout; the    *)
(* next stage is one post-production task that depends on every            *)
(* translation task, followed until somebody takes it.  Handlers are atomic *)
(* (SegmentClaiming splits one).                                           *)
(***************************************************************************)
EXTENDS Integers, FiniteSets

CONSTANTS
  Task,       \* the translation tasks of the unit
  Rank,       \* their place by translation_order, then created_at
  User, NoUser,
  Managers,   \* canManageProjectTasks
  Tagged,     \* users with the translation tag
  Claim,      \* the TranslationClaim rows that may be created
  Segments,   \* the segments <<segment_start, segment_end>> users ask for
  Length,     \* episode_length, 0 when it is not known
  MaxLength,  \* maxSegmentLength, the total one user may hold
  Ops         \* the operations called besides claiming, submitting and approving

AllOps == {"abandon", "start", "submitTranslation", "reject", "reset", "return",
           "removeMember", "assign"}

ASSUME TaskAssumption ==
  /\ Task # {}
  /\ Rank \in [Task -> Nat]
  /\ \A s, t \in Task : Rank[s] = Rank[t] => s = t
ASSUME UserAssumption == NoUser \notin User /\ User # {} /\ Managers \subseteq User
                         /\ Managers # {} /\ Tagged \subseteq User
ASSUME ClaimAssumption == IsFiniteSet(Claim)
ASSUME NumberAssumption ==
  /\ Length \in Nat
  /\ MaxLength \in Nat
  /\ Segments \subseteq Nat \X Nat
ASSUME OpsAssumption == Ops \subseteq AllOps

VARIABLES
  claim,     \* the TranslationClaim rows
  status,    \* the status of each translation task
  assignee,  \* its assignee_id
  members,   \* the users with a ProjectMember row
  post       \* the status of the post-production task

vars == <<claim, status, assignee, members, post>>

ClaimStatus == {"pending", "active", "submitted", "approved", "abandoned"}
TaskStatus == {"claimable", "assigned", "in_progress", "submitted",
               "review_approved", "review_rejected", "completed"}
ClaimRow == [status : ClaimStatus \cup {"none"}, task : Task,
             user : User \cup {NoUser}, start : Nat, end : Nat]

TypeOK ==
  /\ claim \in [Claim -> ClaimRow]
  /\ status \in [Task -> TaskStatus]
  /\ assignee \in [Task -> User \cup {NoUser}]
  /\ members \subseteq User
  /\ post \in {"pending_publish", "claimable", "assigned", "in_progress"}

Init ==
  /\ claim = [c \in Claim |-> [status |-> "none", task |-> CHOOSE t \in Task : TRUE,
                               user |-> NoUser, start |-> 0, end |-> 0]]
  /\ status = [t \in Task |-> "claimable"]
  /\ assignee = [t \in Task |-> NoUser]
  /\ members = {}
  /\ post = "pending_publish"

-----------------------------------------------------------------------------
(* The rows a query finds                                                  *)

Reserved == {"pending", "active", "submitted"}   \* RESERVED_TRANSLATION_CLAIM_STATUSES
Live == Reserved \cup {"approved"}
Working == {"active", "submitted"}

With(cl, statuses) == {c \in Claim : cl[c].status \in statuses}

Seconds(row) == {s \in 0..row.end : row.start <= s /\ s < row.end}

\* compareTranslationClaims; live claims of a task never start together.
Before(cl, c, d) ==
  \/ Rank[cl[c].task] < Rank[cl[d].task]
  \/ cl[c].task = cl[d].task /\ cl[c].start <= cl[d].start

FirstOf(cl, S) == CHOOSE c \in S : \A d \in S : Before(cl, c, d)
LastOf(cl, S)  == CHOOSE c \in S : \A d \in S : Before(cl, d, c)

\* getTranslationCoverageSeconds, of the live claims of the unit.
CoverageSeconds(cl) == Cardinality(UNION {Seconds(cl[c]) : c \in With(cl, Live)})

CoverageComplete(cl) == Length # 0 /\ CoverageSeconds(cl) >= Length

Overlaps(row, first, last) == row.start < last /\ row.end > first

Total(cl, u) ==
  Cardinality(UNION {{c} \X Seconds(cl[c]) :
                       c \in {d \in With(cl, Reserved) : cl[d].user = u}})

\* The claims, task statuses and assignees a handler is about to leave.
Rows(cl, st, as) == [claim |-> cl, status |-> st, assignee |-> as]

\* One claim gets another status.
Mark(cl, c, s) == [cl EXCEPT ![c].status = s]

\* activateNextTranslationClaim: somebody is at work already, or the first
\* pending claim becomes active and its task is assigned to whoever claimed it.
\* Mutant: it does not ask whether somebody is at work.
ActivateNextMutant(r) ==
  LET waiting == With(r.claim, {"pending"})
      c == FirstOf(r.claim, waiting)
  IN  IF waiting = {} THEN r
      ELSE Rows(Mark(r.claim, c, "active"),
                [r.status EXCEPT ![r.claim[c].task] = "assigned"],
                [r.assignee EXCEPT ![r.claim[c].task] = r.claim[c].user])
ActivateNext(r) ==
  LET waiting == With(r.claim, {"pending"})
      c == FirstOf(r.claim, waiting)
  IN  IF With(r.claim, Working) # {} \/ waiting = {} THEN r
      ELSE Rows(Mark(r.claim, c, "active"),
                [r.status EXCEPT ![r.claim[c].task] = "assigned"],
                [r.assignee EXCEPT ![r.claim[c].task] = r.claim[c].user])

NextClaimExists(r) == With(r.claim, Reserved) # {}

Leave(r) == claim' = r.claim /\ status' = r.status /\ assignee' = r.assignee

\* removeProjectMemberIfNoBindings, on the rows the handler leaves.
MembersWithout(a, r) ==
  IF \/ a \in Managers
     \/ \E t \in Task : r.assignee[t] = a
     \/ \E c \in With(r.claim, Reserved) : r.claim[c].user = a
  THEN members ELSE members \ {a}

-----------------------------------------------------------------------------
(* Claiming and abandoning segments                                        *)

\* Mutant: a segment may start before the end of a claimed one.
FreeSegmentMutant(first, last) ==
  \A c \in With(claim, Live) : ~(claim[c].start = first \/ claim[c].end = last)
FreeSegment(first, last) ==
  \A c \in With(claim, Live) : ~Overlaps(claim[c], first, last)

ClaimTranslationSegment(c, t, u, first, last) ==
  LET row == [status |-> "pending", task |-> t, user |-> u, start |-> first, end |-> last]
      r == ActivateNext(Rows([claim EXCEPT ![c] = row], status, assignee))
  IN  /\ claim[c].status = "none"
      /\ status[t] \in {"claimable", "assigned", "in_progress", "submitted",
                        "review_approved"}
      /\ u \in Managers \cup Tagged
      /\ first < last
      /\ Length # 0 => last <= Length /\ ~CoverageComplete(claim)
      /\ Total(claim, u) + (last - first) <= MaxLength
      /\ FreeSegment(first, last)
      /\ claim' = r.claim
      /\ assignee' = r.assignee
      /\ status' = [x \in Task |->
                      IF CoverageComplete(r.claim) /\ r.status[x] = "claimable"
                      THEN "assigned" ELSE r.status[x]]
      /\ members' = members \cup {u}
      /\ UNCHANGED post

\* Mutant: the next claim is not activated when one is abandoned.
AfterAbandonMutant(r) == r
AfterAbandon(r) == ActivateNext(r)

AbandonTranslationSegment(c) ==
  LET t == claim[c].task
      u == claim[c].user
      r == AfterAbandon(Rows(Mark(claim, c, "abandoned"), status, assignee))
      left == IF ~NextClaimExists(r) /\ r.assignee[t] = u
              THEN Rows(r.claim, [r.status EXCEPT ![t] = "claimable"],
                        [r.assignee EXCEPT ![t] = NoUser])
              ELSE r
  IN  /\ claim[c].status \in {"active", "pending"}
      /\ Leave(left)
      /\ members' = MembersWithout(u, left)
      /\ UNCHANGED post

-----------------------------------------------------------------------------
(* Working on the stage                                                    *)

HasActiveClaim(u) == \E c \in With(claim, {"active"}) : claim[c].user = u

StartTask(t, u) ==
  /\ status[t] \in {"assigned", "claimable"}
  /\ u \in Managers \/ HasActiveClaim(u)
  /\ status' = [status EXCEPT ![t] = "in_progress"]
  /\ assignee' = [assignee EXCEPT ![t] =
                    IF status[t] = "claimable" /\ @ = NoUser THEN u ELSE @]
  /\ UNCHANGED <<claim, members, post>>

\* The active claim of the unit a submission by u is taken for.
SubmittedFor(c, u) ==
  claim[c].status = "active" /\ (u \in Managers \/ claim[c].user = u)

SubmitTask(t, u, c) ==
  /\ status[t] \in {"in_progress", "review_rejected"}
  /\ u \in Managers \/ assignee[t] = u
  /\ SubmittedFor(c, u)
  /\ claim' = Mark(claim, c, "submitted")
  /\ status' = [status EXCEPT ![t] = "submitted"]
  /\ UNCHANGED <<assignee, members, post>>

SubmitTranslation(t, u, c) ==
  /\ status[t] \in {"assigned", "in_progress", "review_rejected"}
  /\ SubmittedFor(c, u)
  /\ claim' = Mark(claim, c, "submitted")
  /\ status' = [status EXCEPT ![t] = "submitted"]
  /\ assignee' = [assignee EXCEPT ![t] = claim[c].user]
  /\ UNCHANGED <<members, post>>

AssignTask(t, a) ==
  /\ status[t] \in {"claimable", "assigned"}
  /\ status' = [status EXCEPT ![t] = "assigned"]
  /\ assignee' = [assignee EXCEPT ![t] = a]
  /\ members' = members \cup {a}
  /\ UNCHANGED <<claim, post>>

-----------------------------------------------------------------------------
(* Reviewing                                                               *)

\* getSubmittedTranslationClaimForApproval: the claims it chooses the first of.
ToApprove(t) ==
  IF With(claim, {"submitted"}) # {} THEN With(claim, {"submitted"})
  ELSE {c \in With(claim, {"active"}) :
          assignee[t] # NoUser => claim[c].user = assignee[t]}

\* areAllTranslationTasksApproved, when t is the task being approved.
AllTasksApproved(t) ==
  \A x \in Task \ {t} : status[x] \in {"review_approved", "completed"}

\* Mutant: the stage is completed without asking for the claims still to come.
StageGoesOnMutant(r) == FALSE
StageGoesOn(r) == NextClaimExists(r)

ApproveTask(t) ==
  LET c == FirstOf(claim, ToApprove(t))
      r == ActivateNext(Rows(Mark(claim, c, "approved"), status, assignee))
  IN  /\ status[t] = "submitted"
      /\ ToApprove(t) # {}
      /\ \/ /\ StageGoesOn(r)
            /\ Leave(r)
            /\ UNCHANGED post
         \/ /\ ~StageGoesOn(r)
            /\ CoverageComplete(r.claim) \/ AllTasksApproved(t)
            /\ Leave(Rows(r.claim, [x \in Task |-> "completed"], r.assignee))
            /\ post' = IF post = "pending_publish" THEN "claimable" ELSE post
         \/ /\ ~StageGoesOn(r)
            /\ ~(CoverageComplete(r.claim) \/ AllTasksApproved(t))
            /\ Leave(Rows(r.claim, [r.status EXCEPT ![t] = "review_approved"],
                        [r.assignee EXCEPT ![t] = claim[c].user]))
            /\ UNCHANGED post
      /\ UNCHANGED members

RejectTask(t) ==
  LET waiting == With(claim, {"submitted"})
      c == FirstOf(claim, waiting)
  IN  /\ status[t] = "submitted"
      /\ IF waiting = {}
         THEN Leave(Rows(claim, [status EXCEPT ![t] = "review_rejected"], assignee))
         ELSE Leave(Rows(Mark(claim, c, "active"),
                         [status EXCEPT ![t] = "assigned"],
                         [assignee EXCEPT ![t] = claim[c].user]))
      /\ UNCHANGED <<members, post>>

-----------------------------------------------------------------------------
(* The next stage, and taking work back                                    *)

\* claimTask, of the post-production task; what becomes of it afterwards is
\* TaskWorkflow's.
ClaimPostProduction ==
  /\ post = "claimable"
  /\ post' = "assigned"
  /\ UNCHANGED <<claim, status, assignee, members>>

\* cascadeResetDownstream, of the post-production task: it waits again if nobody
\* has taken it, and is to be done again if somebody has.
\* Mutant: a task that nobody has taken is left as it is.
PostAfterCascadeMutant ==
  IF post \in {"assigned", "in_progress"} THEN "in_progress" ELSE post
PostAfterCascade ==
  IF post \in {"assigned", "in_progress"} THEN "in_progress" ELSE "pending_publish"

ResetTask(t) ==
  LET done == {c \in With(claim, {"active", "submitted", "approved"}) :
                 claim[c].task = t}
      own  == {c \in done : assignee[t] # NoUser /\ claim[c].user = assignee[t]}
      c    == LastOf(claim, IF own # {} THEN own ELSE done)
  IN  /\ status[t] # "claimable"
      /\ IF done = {}
         THEN Leave(Rows(claim, [status EXCEPT ![t] = "in_progress"], assignee))
         ELSE Leave(Rows(Mark(claim, c, "active"),
                         [status EXCEPT ![t] = "in_progress"],
                         [assignee EXCEPT ![t] = claim[c].user]))
      /\ post' = PostAfterCascade
      /\ UNCHANGED members

ReturnTask(t) ==
  LET r == Rows(claim, [status EXCEPT ![t] = "claimable"],
                [assignee EXCEPT ![t] = NoUser])
  IN  /\ status[t] \in {"assigned", "in_progress", "review_rejected"}
      /\ Leave(r)
      /\ members' = MembersWithout(assignee[t], r)
      /\ post' = PostAfterCascade

RemoveMember(u) ==
  /\ u \in members
  /\ claim' = [c \in Claim |->
                 IF claim[c].user = u /\ claim[c].status \in {"pending", "active"}
                 THEN [claim[c] EXCEPT !.status = "abandoned"] ELSE claim[c]]
  /\ LET back == {t \in Task : /\ assignee[t] = u
                               /\ status[t] \in {"assigned", "in_progress",
                                                 "review_rejected"}}
     IN  /\ status' = [t \in Task |-> IF t \in back THEN "claimable" ELSE status[t]]
         /\ assignee' = [t \in Task |-> IF t \in back THEN NoUser ELSE assignee[t]]
  /\ members' = members \ {u}
  /\ UNCHANGED post

-----------------------------------------------------------------------------
Calls(op) == op \in Ops

Next ==
  \/ \E c \in Claim, t \in Task, u \in User, s \in Segments :
       ClaimTranslationSegment(c, t, u, s[1], s[2])
  \/ Calls("abandon") /\ \E c \in Claim : AbandonTranslationSegment(c)
  \/ \E t \in Task :
       \/ \E u \in User, c \in Claim :
            \/ SubmitTask(t, u, c)
            \/ Calls("submitTranslation") /\ SubmitTranslation(t, u, c)
       \/ \E u \in User : StartTask(t, u)
       \/ ApproveTask(t)
       \/ Calls("reject") /\ RejectTask(t)
       \/ Calls("reset") /\ ResetTask(t)
       \/ Calls("return") /\ ReturnTask(t)
       \/ Calls("assign") /\ \E a \in User : AssignTask(t, a)
  \/ Calls("removeMember") /\ \E u \in User : RemoveMember(u)
  \/ ClaimPostProduction

Spec == Init /\ [][Next]_vars

-----------------------------------------------------------------------------
(* Properties                                                              *)

\* No second of the episode is claimed twice among the claims that count, also
\* after abandoning, resetting and re-claiming.
SegmentsDisjoint ==
  \A c, d \in With(claim, Live) :
    c # d => Seconds(claim[c]) \cap Seconds(claim[d]) = {}

\* The stage never stalls: while claims wait in the queue, one claim is being
\* worked on or reviewed, whose end will activate the next
\* (activateNextTranslationClaim is called wherever one leaves).
QueueMoves == With(claim, {"pending"}) # {} => With(claim, Working) # {}

\* The translation of an episode is serial: one claim at most is being worked
\* on or reviewed at any time.
OneAtATime == \A c, d \in With(claim, Working) : c = d

\* While post-production is open to be taken nothing before it is unfinished: no
\* claim waits, is worked on or reviewed, and every translation task is completed,
\* also after work was approved, reset, returned or handed to somebody else
\* (approveTask opens the stage, cascadeResetDownstream closes it again).
OpenStageRestsOnFinishedWork ==
  post = "claimable" =>
    /\ With(claim, Reserved) = {}
    /\ \A t \in Task : status[t] = "completed"

\* Post-production opens only when the whole episode is translated and approved.
WholeEpisodeTranslated ==
  [][post = "pending_publish" /\ post' = "claimable" /\ Length # 0 =>
       Cardinality(UNION {Seconds(claim'[c]) : c \in With(claim', {"approved"})})
         >= Length]_vars

\* When the translation work is all approved the stage is completed: it does
\* not rest with an approved claim on every task and nothing left to review.
ApprovedStageCompletes ==
  /\ With(claim, Reserved) = {}
  /\ \A t \in Task : \E c \in With(claim, {"approved"}) : claim[c].task = t
  => post # "pending_publish"
=============================================================================
