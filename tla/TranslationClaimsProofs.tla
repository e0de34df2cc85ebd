----------------------- MODULE TranslationClaimsProofs -----------------------
(***************************************************************************)
(* Theorems about TranslationClaims, for any tasks, people, segments and   *)
(* any finite number of claims.                                            *)
(*                                                                         *)
(* What the handlers do to the claims is one of two things: a new row, or  *)
(* another status on one row (on several, when a member is removed).  The  *)
(* lemmas say so once, and the invariants follow from that alone.          *)
(***************************************************************************)
EXTENDS TranslationClaims, FiniteSetTheorems, TLAPS

-----------------------------------------------------------------------------
(* The first and the last of some claims                                   *)

\* A total, transitive relation on a finite set that is not empty has a last
\* element: a smallest set without one would still lack it with one element less.
LEMMA FiniteHasLast ==
  ASSUME NEW S, IsFiniteSet(S), S # {}, NEW R,
         \A a, b \in S : <<a, b>> \in R \/ <<b, a>> \in R,
         \A a, b, c \in S : <<a, b>> \in R /\ <<b, c>> \in R => <<a, c>> \in R
  PROVE  \E c \in S : \A d \in S : <<d, c>> \in R
<1> DEFINE HasLast(U) == \E c \in U : \A d \in U : <<d, c>> \in R
           T == {U \in SUBSET S : U # {} /\ ~HasLast(U)}
<1> SUFFICES ASSUME T # {} PROVE FALSE
  OBVIOUS
<1>1. T \subseteq FiniteSubsetsOf(S)
  BY FS_Subset DEF FiniteSubsetsOf
<1>2. PICK U \in T : \A V \in T : ~ (<<V, U>> \in StrictSubsetOrdering(S))
  <2>1. IsWellFoundedOn(StrictSubsetOrdering(S), FiniteSubsetsOf(S))
    BY FS_StrictSubsetOrderingWellFounded
  <2> HIDE DEF T
  <2> QED
    BY <1>1, <2>1, WFMin
<1>3. PICK x \in U : TRUE
  OBVIOUS
<1>4. U \ {x} \notin T
  <2>1. U \in SUBSET S /\ U \ {x} \in SUBSET S /\ U \ {x} # U
    BY <1>3
  <2>2. <<U \ {x}, U>> \in StrictSubsetOrdering(S)
    BY <2>1 DEF StrictSubsetOrdering
  <2> HIDE DEF T
  <2> QED
    BY <1>2, <2>2
<1>5. CASE U = {x}
  <2>1. HasLast(U)
    BY <1>5
  <2> QED
    BY <2>1
<1>6. CASE U # {x}
  <2>1. PICK m \in U \ {x} : \A d \in U \ {x} : <<d, m>> \in R
    BY <1>3, <1>4, <1>6
  <2>2. CASE <<x, m>> \in R
    <3>1. HasLast(U)
      BY <2>1, <2>2
    <3> QED
      BY <3>1
  <2>3. CASE <<m, x>> \in R
    <3>1. \A d \in U : <<d, x>> \in R
      BY <2>1, <2>3
    <3> QED
      BY <1>3, <3>1
  <2> QED
    BY <1>3, <2>1, <2>2, <2>3
<1> QED
  BY <1>5, <1>6

\* compareTranslationClaims orders any claims totally, so a sort has a first and
\* a last row.
LEMMA SortsClaims ==
  ASSUME NEW cl \in [Claim -> ClaimRow], NEW S \in SUBSET Claim, S # {}
  PROVE  FirstOf(cl, S) \in S /\ LastOf(cl, S) \in S
<1> DEFINE Up   == {p \in S \X S : Before(cl, p[1], p[2])}
           Down == {p \in S \X S : Before(cl, p[2], p[1])}
<1>1. IsFiniteSet(S)
  BY ClaimAssumption, FS_Subset
<1>2. \A c \in S : cl[c].task \in Task /\ Rank[cl[c].task] \in Nat /\ cl[c].start \in Nat
  BY TaskAssumption DEF ClaimRow
<1>3. \A a, b \in S : Before(cl, a, b) \/ Before(cl, b, a)
  BY <1>2, TaskAssumption DEF Before
<1>4. \A a, b, c \in S : Before(cl, a, b) /\ Before(cl, b, c) => Before(cl, a, c)
  BY <1>2 DEF Before
<1>5. \E c \in S : \A d \in S : <<d, c>> \in Up
  <2> HIDE DEF Up
  <2>1. \A a, b \in S : <<a, b>> \in Up <=> Before(cl, a, b)
    BY DEF Up
  <2> QED
    BY <1>1, <1>3, <1>4, <2>1, FiniteHasLast
<1>6. \E c \in S : \A d \in S : <<d, c>> \in Down
  <2> HIDE DEF Down
  <2>1. \A a, b \in S : <<a, b>> \in Down <=> Before(cl, b, a)
    BY DEF Down
  <2> QED
    BY <1>1, <1>3, <1>4, <2>1, FiniteHasLast
<1>7. \E c \in S : \A d \in S : Before(cl, d, c)
  BY <1>5
<1>8. \E c \in S : \A d \in S : Before(cl, c, d)
  BY <1>6
<1> QED
  BY <1>7, <1>8 DEF FirstOf, LastOf

-----------------------------------------------------------------------------
(* What the handlers leave                                                 *)

RowSet == [claim : [Claim -> ClaimRow], status : [Task -> TaskStatus],
           assignee : [Task -> User \cup {NoUser}]]

\* A row with another status is a row, of the same segment, task and user.
LEMMA Marked ==
  ASSUME NEW cl \in [Claim -> ClaimRow], NEW c \in Claim, NEW s \in ClaimStatus
  PROVE  /\ Mark(cl, c, s) \in [Claim -> ClaimRow]
         /\ Mark(cl, c, s)[c].status = s
         /\ \A d \in Claim \ {c} : Mark(cl, c, s)[d] = cl[d]
         /\ \A d \in Claim : /\ Mark(cl, c, s)[d].start = cl[d].start
                              /\ Mark(cl, c, s)[d].end = cl[d].end
                              /\ Mark(cl, c, s)[d].user = cl[d].user
BY DEF ClaimRow, Mark

LEMMA RowsAreRows ==
  ASSUME NEW cl \in [Claim -> ClaimRow], NEW st \in [Task -> TaskStatus],
         NEW as \in [Task -> User \cup {NoUser}]
  PROVE  /\ Rows(cl, st, as) \in RowSet
         /\ Rows(cl, st, as).claim = cl
         /\ Rows(cl, st, as).status = st
         /\ Rows(cl, st, as).assignee = as
BY DEF Rows, RowSet

\* activateNextTranslationClaim leaves everything as it is, or finds nobody at
\* work and makes one pending claim active.
LEMMA Activates ==
  ASSUME NEW r \in RowSet
  PROVE  /\ ActivateNext(r) \in RowSet
         /\ \/ /\ With(r.claim, Working) # {} \/ With(r.claim, {"pending"}) = {}
               /\ ActivateNext(r) = r
            \/ /\ With(r.claim, Working) = {}
               /\ \E c \in With(r.claim, {"pending"}) :
                    ActivateNext(r).claim = Mark(r.claim, c, "active")
<1> DEFINE waiting == With(r.claim, {"pending"})
<1>1. CASE With(r.claim, Working) # {} \/ waiting = {}
  BY <1>1 DEF ActivateNext
<1>2. CASE With(r.claim, Working) = {} /\ waiting # {}
  <2> DEFINE c == FirstOf(r.claim, waiting)
  <2>1. /\ r.claim \in [Claim -> ClaimRow] /\ waiting \in SUBSET Claim
        /\ r.status \in [Task -> TaskStatus] /\ r.assignee \in [Task -> User \cup {NoUser}]
    BY DEF RowSet, With
  <2>2. c \in waiting /\ c \in Claim
    BY <1>2, <2>1, SortsClaims
  <2>3. ActivateNext(r) = Rows(Mark(r.claim, c, "active"),
                               [r.status EXCEPT ![r.claim[c].task] = "assigned"],
                               [r.assignee EXCEPT ![r.claim[c].task] = r.claim[c].user])
    BY <1>2 DEF ActivateNext
  <2> HIDE DEF c, waiting
  <2>4. Mark(r.claim, c, "active") \in [Claim -> ClaimRow]
    BY <2>1, <2>2, Marked DEF ClaimStatus
  <2>5. /\ r.claim[c].user \in User \cup {NoUser}
        /\ "assigned" \in TaskStatus
    BY <2>1, <2>2 DEF ClaimRow, TaskStatus
  <2>6. /\ [r.status EXCEPT ![r.claim[c].task] = "assigned"] \in [Task -> TaskStatus]
        /\ [r.assignee EXCEPT ![r.claim[c].task] = r.claim[c].user]
             \in [Task -> User \cup {NoUser}]
    BY <2>1, <2>5
  <2>7. /\ ActivateNext(r) \in RowSet
        /\ ActivateNext(r).claim = Mark(r.claim, c, "active")
    BY <2>3, <2>4, <2>6, RowsAreRows
  <2> QED
    BY <1>2, <2>2, <2>7 DEF waiting
<1> QED
  BY <1>1, <1>2

-----------------------------------------------------------------------------
(* Types                                                                   *)

LEMMA LeavesRows ==
  ASSUME TypeOK, NEW r \in RowSet, Leave(r)
  PROVE  /\ claim' \in [Claim -> ClaimRow]
         /\ status' \in [Task -> TaskStatus]
         /\ assignee' \in [Task -> User \cup {NoUser}]
BY DEF Leave, RowSet

LEMMA TypesGiveRows == TypeOK => Rows(claim, status, assignee) \in RowSet
BY DEF TypeOK, Rows, RowSet

\* The row a request for a segment inserts.
NewRow(t, u, first, last) ==
  [status |-> "pending", task |-> t, user |-> u, start |-> first, end |-> last]

LEMMA ClaimType ==
  ASSUME TypeOK, NEW c \in Claim, NEW t \in Task, NEW u \in User, NEW s \in Segments,
         ClaimTranslationSegment(c, t, u, s[1], s[2])
  PROVE  TypeOK'
<1> DEFINE r0 == Rows([claim EXCEPT ![c] = NewRow(t, u, s[1], s[2])], status, assignee)
           r == ActivateNext(r0)
<1>1. NewRow(t, u, s[1], s[2]) \in ClaimRow
  BY NumberAssumption DEF NewRow, ClaimRow, ClaimStatus
<1>2. r0 \in RowSet
  <2>1. [claim EXCEPT ![c] = NewRow(t, u, s[1], s[2])] \in [Claim -> ClaimRow]
    BY <1>1 DEF TypeOK
  <2> QED
    BY <2>1, RowsAreRows DEF TypeOK
<1>3. r \in RowSet
  BY <1>2, Activates
<1>4. /\ claim' = r.claim /\ assignee' = r.assignee
      /\ status' = [x \in Task |->
                      IF CoverageComplete(r.claim) /\ r.status[x] = "claimable"
                      THEN "assigned" ELSE r.status[x]]
      /\ members' = members \cup {u} /\ post' = post
  BY DEF ClaimTranslationSegment, NewRow
<1> HIDE DEF r
<1> QED
  BY <1>3, <1>4 DEF TypeOK, RowSet, TaskStatus

LEMMA AbandonType ==
  ASSUME TypeOK, NEW c \in Claim, AbandonTranslationSegment(c)
  PROVE  TypeOK'
<1> DEFINE t == claim[c].task
           u == claim[c].user
           r == AfterAbandon(Rows(Mark(claim, c, "abandoned"), status, assignee))
           left == IF ~NextClaimExists(r) /\ r.assignee[t] = u
                   THEN Rows(r.claim, [r.status EXCEPT ![t] = "claimable"],
                             [r.assignee EXCEPT ![t] = NoUser])
                   ELSE r
<1>1. r \in RowSet
  <2>1. Mark(claim, c, "abandoned") \in [Claim -> ClaimRow]
    BY Marked DEF TypeOK, ClaimStatus
  <2> QED
    BY <2>1, RowsAreRows, Activates DEF TypeOK, AfterAbandon
<1>2. Leave(left) /\ members' = MembersWithout(u, left) /\ post' = post
  BY DEF AbandonTranslationSegment
<1>3. left \in RowSet
  <2> HIDE DEF r
  <2>1. /\ r.claim \in [Claim -> ClaimRow]
        /\ [r.status EXCEPT ![t] = "claimable"] \in [Task -> TaskStatus]
        /\ [r.assignee EXCEPT ![t] = NoUser] \in [Task -> User \cup {NoUser}]
    BY <1>1 DEF RowSet, TaskStatus
  <2> QED
    BY <1>1, <2>1, RowsAreRows
<1> HIDE DEF left
<1> QED
  BY <1>2, <1>3, LeavesRows DEF TypeOK, MembersWithout

LEMMA ApproveType ==
  ASSUME TypeOK, NEW t \in Task, ApproveTask(t)
  PROVE  TypeOK'
<1> DEFINE c == FirstOf(claim, ToApprove(t))
           r == ActivateNext(Rows(Mark(claim, c, "approved"), status, assignee))
<1>1. c \in ToApprove(t) /\ c \in Claim
  <2>1. ToApprove(t) # {} /\ ToApprove(t) \in SUBSET Claim
    BY DEF ApproveTask, ToApprove, With
  <2> QED
    BY <2>1, SortsClaims DEF TypeOK
<1>2. r \in RowSet
  <2> HIDE DEF c
  <2>1. Mark(claim, c, "approved") \in [Claim -> ClaimRow]
    BY <1>1, Marked DEF TypeOK, ClaimStatus
  <2> QED
    BY <2>1, RowsAreRows, Activates DEF TypeOK
<1>3. /\ \/ Leave(r)
         \/ Leave(Rows(r.claim, [x \in Task |-> "completed"], r.assignee))
         \/ Leave(Rows(r.claim, [r.status EXCEPT ![t] = "review_approved"],
                       [r.assignee EXCEPT ![t] = claim[c].user]))
      /\ members' = members
      /\ post' \in {post, "claimable"}
  BY DEF ApproveTask
<1>4. claim[c].user \in User \cup {NoUser}
  <2> HIDE DEF c
  <2> QED
    BY <1>1 DEF TypeOK, ClaimRow
<1> HIDE DEF r, c
<1>5. /\ Rows(r.claim, [x \in Task |-> "completed"], r.assignee) \in RowSet
      /\ Rows(r.claim, [r.status EXCEPT ![t] = "review_approved"],
              [r.assignee EXCEPT ![t] = claim[c].user]) \in RowSet
  <2>1. /\ r.claim \in [Claim -> ClaimRow]
        /\ r.assignee \in [Task -> User \cup {NoUser}]
        /\ [r.assignee EXCEPT ![t] = claim[c].user] \in [Task -> User \cup {NoUser}]
        /\ [r.status EXCEPT ![t] = "review_approved"] \in [Task -> TaskStatus]
        /\ [x \in Task |-> "completed"] \in [Task -> TaskStatus]
    BY <1>2, <1>4 DEF RowSet, TaskStatus
  <2> QED
    BY <2>1, RowsAreRows
<1> QED
  BY <1>2, <1>3, <1>5, LeavesRows DEF TypeOK

LEMMA RejectType ==
  ASSUME TypeOK, NEW t \in Task, RejectTask(t)
  PROVE  TypeOK'
<1> DEFINE waiting == With(claim, {"submitted"})
           c == FirstOf(claim, waiting)
<1>1. CASE waiting = {}
  <2>1. /\ Leave(Rows(claim, [status EXCEPT ![t] = "review_rejected"], assignee))
        /\ UNCHANGED <<members, post>>
    BY <1>1 DEF RejectTask
  <2>2. [status EXCEPT ![t] = "review_rejected"] \in [Task -> TaskStatus]
    BY DEF TypeOK, TaskStatus
  <2>3. Rows(claim, [status EXCEPT ![t] = "review_rejected"], assignee) \in RowSet
    BY <2>2, RowsAreRows DEF TypeOK
  <2> QED
    BY <2>1, <2>3, LeavesRows DEF TypeOK
<1>2. CASE waiting # {}
  <2>1. c \in waiting /\ c \in Claim
    <3>1. waiting \in SUBSET Claim
      BY DEF With
    <3> QED
      BY <1>2, <3>1, SortsClaims DEF TypeOK
  <2>2. /\ Leave(Rows(Mark(claim, c, "active"), [status EXCEPT ![t] = "assigned"],
                      [assignee EXCEPT ![t] = claim[c].user]))
        /\ UNCHANGED <<members, post>>
    BY <1>2 DEF RejectTask
  <2> HIDE DEF c
  <2>3. /\ Mark(claim, c, "active") \in [Claim -> ClaimRow]
        /\ [status EXCEPT ![t] = "assigned"] \in [Task -> TaskStatus]
    BY <2>1, Marked DEF TypeOK, TaskStatus, ClaimStatus
  <2>4. [assignee EXCEPT ![t] = claim[c].user] \in [Task -> User \cup {NoUser}]
    BY <2>1 DEF TypeOK, ClaimRow
  <2>5. Rows(Mark(claim, c, "active"), [status EXCEPT ![t] = "assigned"],
             [assignee EXCEPT ![t] = claim[c].user]) \in RowSet
    BY <2>3, <2>4, RowsAreRows
  <2> QED
    BY <2>2, <2>5, LeavesRows DEF TypeOK
<1> QED
  BY <1>1, <1>2

LEMMA ResetType ==
  ASSUME TypeOK, NEW t \in Task, ResetTask(t)
  PROVE  TypeOK'
<1> DEFINE done == {c \in With(claim, {"active", "submitted", "approved"}) :
                     claim[c].task = t}
           own  == {c \in done : assignee[t] # NoUser /\ claim[c].user = assignee[t]}
           c    == LastOf(claim, IF own # {} THEN own ELSE done)
<1>0. PostAfterCascade \in {"pending_publish", "in_progress"}
  BY DEF PostAfterCascade
<1>1. /\ IF done = {}
         THEN Leave(Rows(claim, [status EXCEPT ![t] = "in_progress"], assignee))
         ELSE Leave(Rows(Mark(claim, c, "active"), [status EXCEPT ![t] = "in_progress"],
                         [assignee EXCEPT ![t] = claim[c].user]))
      /\ post' = PostAfterCascade /\ members' = members
  BY DEF ResetTask
<1>2. [status EXCEPT ![t] = "in_progress"] \in [Task -> TaskStatus]
  BY DEF TypeOK, TaskStatus
<1>3. CASE done = {}
  <2>1. Rows(claim, [status EXCEPT ![t] = "in_progress"], assignee) \in RowSet
    BY <1>2, RowsAreRows DEF TypeOK
  <2> QED
    BY <1>0, <1>1, <1>3, <2>1, LeavesRows DEF TypeOK
<1>4. CASE done # {}
  <2>1. c \in Claim
    <3>1. (IF own # {} THEN own ELSE done) \in SUBSET Claim
          /\ (IF own # {} THEN own ELSE done) # {}
      BY <1>4 DEF With
    <3>2. c \in (IF own # {} THEN own ELSE done)
      BY <3>1, SortsClaims DEF TypeOK
    <3> QED
      BY <3>1, <3>2
  <2> HIDE DEF c, done
  <2>2. Mark(claim, c, "active") \in [Claim -> ClaimRow]
    BY <2>1, Marked DEF TypeOK, ClaimStatus
  <2>3. [assignee EXCEPT ![t] = claim[c].user] \in [Task -> User \cup {NoUser}]
    BY <2>1 DEF TypeOK, ClaimRow
  <2>4. Rows(Mark(claim, c, "active"), [status EXCEPT ![t] = "in_progress"],
             [assignee EXCEPT ![t] = claim[c].user]) \in RowSet
    BY <1>2, <2>2, <2>3, RowsAreRows
  <2> QED
    BY <1>0, <1>1, <1>4, <2>4, LeavesRows DEF TypeOK
<1> QED
  BY <1>3, <1>4

LEMMA ReturnType ==
  ASSUME TypeOK, NEW t \in Task, ReturnTask(t)
  PROVE  TypeOK'
<1> DEFINE r == Rows(claim, [status EXCEPT ![t] = "claimable"],
                     [assignee EXCEPT ![t] = NoUser])
<1>1. r \in RowSet
  <2>1. /\ [status EXCEPT ![t] = "claimable"] \in [Task -> TaskStatus]
        /\ [assignee EXCEPT ![t] = NoUser] \in [Task -> User \cup {NoUser}]
    BY DEF TypeOK, TaskStatus
  <2> QED
    BY <2>1, RowsAreRows DEF TypeOK
<1>2. Leave(r) /\ members' = MembersWithout(assignee[t], r) /\ post' = PostAfterCascade
  BY DEF ReturnTask
<1>3. PostAfterCascade \in {"pending_publish", "in_progress"}
  BY DEF PostAfterCascade
<1> HIDE DEF r
<1> QED
  BY <1>1, <1>2, <1>3, LeavesRows DEF TypeOK, MembersWithout

LEMMA RemoveMemberType ==
  ASSUME TypeOK, NEW u \in User, RemoveMember(u)
  PROVE  TypeOK'
<1>1. claim' \in [Claim -> ClaimRow]
  <2>1. \A c \in Claim : [claim[c] EXCEPT !.status = "abandoned"] \in ClaimRow
    BY DEF TypeOK, ClaimRow, ClaimStatus
  <2> QED
    BY <2>1 DEF RemoveMember, TypeOK
<1>2. /\ status' \in [Task -> TaskStatus] /\ assignee' \in [Task -> User \cup {NoUser}]
      /\ members' \subseteq User /\ post' = post
  BY DEF RemoveMember, TypeOK, TaskStatus
<1> QED
  BY <1>1, <1>2 DEF TypeOK

LEMMA SubmitType ==
  ASSUME TypeOK, NEW t \in Task, NEW u \in User, NEW c \in Claim,
         SubmitTask(t, u, c) \/ SubmitTranslation(t, u, c)
  PROVE  TypeOK'
<1>1. Mark(claim, c, "submitted") \in [Claim -> ClaimRow]
  BY Marked DEF TypeOK, ClaimStatus
<1>2. claim[c].user \in User \cup {NoUser}
  BY DEF TypeOK, ClaimRow
<1>3. CASE SubmitTask(t, u, c)
  BY <1>1, <1>3 DEF SubmitTask, TypeOK, TaskStatus
<1>4. CASE SubmitTranslation(t, u, c)
  BY <1>1, <1>2, <1>4 DEF SubmitTranslation, TypeOK, TaskStatus
<1> QED
  BY <1>3, <1>4

\* Type correctness: whatever is claimed, worked on, reviewed and taken back,
\* the claims and the tasks of the stage keep the types of their columns.
THEOREM TypeCorrect == Spec => []TypeOK
<1>1. Init => TypeOK
  <2>1. (CHOOSE t \in Task : TRUE) \in Task
    BY TaskAssumption
  <2> QED
    BY <2>1 DEF Init, TypeOK, ClaimRow, TaskStatus
<1>2. TypeOK /\ [Next]_vars => TypeOK'
  <2> SUFFICES ASSUME TypeOK, [Next]_vars PROVE TypeOK'
    OBVIOUS
  <2>1. ASSUME NEW c \in Claim, NEW t \in Task, NEW u \in User, NEW s \in Segments,
               ClaimTranslationSegment(c, t, u, s[1], s[2])
        PROVE  TypeOK'
    BY <2>1, ClaimType
  <2>2. ASSUME NEW c \in Claim, AbandonTranslationSegment(c) PROVE TypeOK'
    BY <2>2, AbandonType
  <2>3. ASSUME NEW t \in Task, NEW u \in User, NEW c \in Claim,
               SubmitTask(t, u, c) \/ SubmitTranslation(t, u, c)
        PROVE  TypeOK'
    BY <2>3, SubmitType
  <2>4. ASSUME NEW t \in Task, NEW u \in User, StartTask(t, u) \/ AssignTask(t, u)
        PROVE  TypeOK'
    BY <2>4 DEF StartTask, AssignTask, TypeOK, TaskStatus
  <2>5. ASSUME NEW t \in Task, ApproveTask(t) PROVE TypeOK'
    BY <2>5, ApproveType
  <2>6. ASSUME NEW t \in Task, RejectTask(t) PROVE TypeOK'
    BY <2>6, RejectType
  <2>7. ASSUME NEW t \in Task, ResetTask(t) PROVE TypeOK'
    BY <2>7, ResetType
  <2>8. ASSUME NEW t \in Task, ReturnTask(t) PROVE TypeOK'
    BY <2>8, ReturnType
  <2>9. ASSUME NEW u \in User, RemoveMember(u) PROVE TypeOK'
    BY <2>9, RemoveMemberType
  <2>10. CASE UNCHANGED vars
    BY <2>10 DEF vars, TypeOK
  <2>11. CASE ClaimPostProduction
    BY <2>11 DEF ClaimPostProduction, TypeOK
  <2> QED
    BY <2>1, <2>2, <2>3, <2>4, <2>5, <2>6, <2>7, <2>8, <2>9, <2>10, <2>11 DEF Next
<1> QED
  BY <1>1, <1>2, PTL DEF Spec

-----------------------------------------------------------------------------
(* What a step does to the claims                                          *)

\* What the steps other than a new claim leave of the claims cl: no segment
\* moves, and no claim that counted for nothing counts again.
Within(cl, to) ==
  \A c \in Claim : /\ to[c].start = cl[c].start
                   /\ to[c].end = cl[c].end
                   /\ to[c].status \in Live => cl[c].status \in Live

LEMMA WithinIsTransitive ==
  ASSUME NEW x, NEW y, NEW z, Within(x, y), Within(y, z)
  PROVE  Within(x, z)
BY DEF Within

LEMMA MarkedWithin ==
  ASSUME NEW cl \in [Claim -> ClaimRow], NEW c \in Claim, NEW s \in ClaimStatus,
         s \in Live => cl[c].status \in Live
  PROVE  Within(cl, Mark(cl, c, s))
BY Marked DEF Within

LEMMA ActivatedWithin ==
  ASSUME NEW r \in RowSet
  PROVE  Within(r.claim, ActivateNext(r).claim)
<1>1. r.claim \in [Claim -> ClaimRow]
  BY DEF RowSet
<1>2. CASE ActivateNext(r) = r
  BY <1>2 DEF Within
<1>3. ASSUME NEW c \in With(r.claim, {"pending"}),
             ActivateNext(r).claim = Mark(r.claim, c, "active")
      PROVE  Within(r.claim, ActivateNext(r).claim)
  BY <1>1, <1>3, MarkedWithin DEF With, Live, Reserved, ClaimStatus
<1> QED
  BY <1>2, <1>3, Activates

\* The step that marks a claim and then activates the next one.
LEMMA MarkAndActivate ==
  ASSUME TypeOK, NEW c \in Claim, NEW s \in ClaimStatus,
         s \in Live => claim[c].status \in Live
  PROVE  LET r == Rows(Mark(claim, c, s), status, assignee)
         IN  r \in RowSet /\ Within(claim, ActivateNext(r).claim)
<1> DEFINE r == Rows(Mark(claim, c, s), status, assignee)
<1>1. Mark(claim, c, s) \in [Claim -> ClaimRow] /\ Within(claim, Mark(claim, c, s))
  BY Marked, MarkedWithin DEF TypeOK
<1>2. r \in RowSet /\ r.claim = Mark(claim, c, s)
  BY <1>1, RowsAreRows DEF TypeOK
<1> HIDE DEF r
<1>3. Within(r.claim, ActivateNext(r).claim)
  BY <1>2, ActivatedWithin
<1>4. Within(claim, ActivateNext(r).claim)
  BY <1>1, <1>2, <1>3, WithinIsTransitive
<1> QED
  BY <1>2, <1>4 DEF r

\* The first of the claims an approval or a rejection chooses from, and the last
\* of those a reset does.
LEMMA ChosenForReview ==
  ASSUME TypeOK, NEW S \in SUBSET With(claim, Live), S # {}
  PROVE  /\ FirstOf(claim, S) \in S /\ LastOf(claim, S) \in S
         /\ FirstOf(claim, S) \in Claim /\ claim[FirstOf(claim, S)].status \in Live
         /\ LastOf(claim, S) \in Claim /\ claim[LastOf(claim, S)].status \in Live
<1>1. S \in SUBSET Claim
  BY DEF With
<1>2. FirstOf(claim, S) \in S /\ LastOf(claim, S) \in S
  BY <1>1, SortsClaims DEF TypeOK
<1> QED
  BY <1>2 DEF With

\* Every handler but the one that creates a claim.
OldClaims ==
  \/ \E c \in Claim : AbandonTranslationSegment(c)
  \/ \E t \in Task :
       \/ \E u \in User, c \in Claim : SubmitTask(t, u, c) \/ SubmitTranslation(t, u, c)
       \/ \E u \in User : StartTask(t, u) \/ AssignTask(t, u)
       \/ ApproveTask(t) \/ RejectTask(t) \/ ResetTask(t) \/ ReturnTask(t)
  \/ \E u \in User : RemoveMember(u)
  \/ ClaimPostProduction

LEMMA OldClaimsWithin ==
  ASSUME TypeOK, OldClaims
  PROVE  Within(claim, claim')
<1>1. ASSUME NEW c \in Claim, AbandonTranslationSegment(c) PROVE Within(claim, claim')
  <2> DEFINE r == ActivateNext(Rows(Mark(claim, c, "abandoned"), status, assignee))
  <2>1. claim' = r.claim
    BY <1>1 DEF AbandonTranslationSegment, AfterAbandon, Leave, Rows
  <2>2. "abandoned" \in ClaimStatus /\ "abandoned" \notin Live
    BY DEF ClaimStatus, Live, Reserved
  <2> QED
    BY <2>1, <2>2, MarkAndActivate
<1>2. ASSUME NEW t \in Task, NEW u \in User, NEW c \in Claim,
             SubmitTask(t, u, c) \/ SubmitTranslation(t, u, c)
      PROVE  Within(claim, claim')
  <2>1. claim' = Mark(claim, c, "submitted") /\ claim[c].status = "active"
    BY <1>2 DEF SubmitTask, SubmitTranslation, SubmittedFor
  <2> QED
    BY <2>1, MarkedWithin DEF TypeOK, ClaimStatus, Live, Reserved
<1>3. ASSUME NEW t \in Task, NEW u \in User, StartTask(t, u) \/ AssignTask(t, u)
      PROVE  Within(claim, claim')
  BY <1>3 DEF StartTask, AssignTask, Within
<1>4. ASSUME NEW t \in Task, ApproveTask(t) PROVE Within(claim, claim')
  <2> DEFINE c == FirstOf(claim, ToApprove(t))
             r == ActivateNext(Rows(Mark(claim, c, "approved"), status, assignee))
  <2>1. ToApprove(t) # {} /\ ToApprove(t) \in SUBSET With(claim, Live)
    BY <1>4 DEF ApproveTask, ToApprove, With, Live, Reserved
  <2>2. c \in Claim /\ claim[c].status \in Live
    BY <2>1, ChosenForReview
  <2>3. claim' = r.claim
    BY <1>4 DEF ApproveTask, Leave, Rows
  <2> QED
    BY <2>2, <2>3, MarkAndActivate DEF ClaimStatus
<1>5. ASSUME NEW t \in Task, RejectTask(t) PROVE Within(claim, claim')
  <2> DEFINE waiting == With(claim, {"submitted"})
             c == FirstOf(claim, waiting)
  <2>1. CASE waiting = {}
    BY <1>5, <2>1 DEF RejectTask, Leave, Rows, Within
  <2>2. CASE waiting # {}
    <3>1. waiting \in SUBSET With(claim, Live)
      BY DEF With, Live, Reserved
    <3>2. c \in Claim /\ claim[c].status \in Live
      BY <2>2, <3>1, ChosenForReview
    <3>3. claim' = Mark(claim, c, "active")
      BY <1>5, <2>2 DEF RejectTask, Leave, Rows
    <3> QED
      BY <3>2, <3>3, MarkedWithin DEF TypeOK, ClaimStatus
  <2> QED
    BY <2>1, <2>2
<1>6. ASSUME NEW t \in Task, ResetTask(t) PROVE Within(claim, claim')
  <2> DEFINE done == {c \in With(claim, {"active", "submitted", "approved"}) :
                       claim[c].task = t}
             own  == {c \in done : assignee[t] # NoUser /\ claim[c].user = assignee[t]}
             pool == IF own # {} THEN own ELSE done
             c    == LastOf(claim, pool)
  <2>1. CASE done = {}
    BY <1>6, <2>1 DEF ResetTask, Leave, Rows, Within
  <2>2. CASE done # {}
    <3>1. pool \in SUBSET With(claim, Live) /\ pool # {}
      BY <2>2 DEF With, Live, Reserved
    <3>2. c \in Claim /\ claim[c].status \in Live
      BY <3>1, ChosenForReview
    <3>3. claim' = Mark(claim, c, "active")
      BY <1>6, <2>2 DEF ResetTask, Leave, Rows
    <3> QED
      BY <3>2, <3>3, MarkedWithin DEF TypeOK, ClaimStatus
  <2> QED
    BY <2>1, <2>2
<1>7. ASSUME NEW t \in Task, ReturnTask(t) PROVE Within(claim, claim')
  BY <1>7 DEF ReturnTask, Leave, Rows, Within
<1>8. ASSUME NEW u \in User, RemoveMember(u) PROVE Within(claim, claim')
  BY <1>8 DEF RemoveMember, Within, TypeOK, ClaimRow, Live, Reserved
<1>9. CASE ClaimPostProduction
  BY <1>9 DEF ClaimPostProduction, Within
<1> QED
  BY <1>1, <1>2, <1>3, <1>4, <1>5, <1>6, <1>7, <1>8, <1>9 DEF OldClaims

-----------------------------------------------------------------------------
(* No second is claimed twice                                              *)

Disjoint(cl) ==
  \A c, d \in With(cl, Live) : c # d => Seconds(cl[c]) \cap Seconds(cl[d]) = {}

LEMMA WithinStaysDisjoint ==
  ASSUME NEW cl, NEW to, Disjoint(cl), Within(cl, to)
  PROVE  Disjoint(to)
BY DEF Disjoint, Within, With, Seconds

\* Segments that do not overlap share no second (checkClaimOverlap).
LEMMA FreeMeansDisjoint ==
  ASSUME NEW row \in ClaimRow, NEW new \in ClaimRow, new.start < new.end,
         ~Overlaps(row, new.start, new.end)
  PROVE  Seconds(row) \cap Seconds(new) = {}
BY DEF ClaimRow, Overlaps, Seconds

\* A new claim: the row is inserted, and somebody is activated.
LEMMA ClaimAddsRow ==
  ASSUME TypeOK, NEW c \in Claim, NEW t \in Task, NEW u \in User, NEW s \in Segments,
         ClaimTranslationSegment(c, t, u, s[1], s[2])
  PROVE  \E with \in [Claim -> ClaimRow] :
           /\ with = [claim EXCEPT ![c] = NewRow(t, u, s[1], s[2])]
           /\ NewRow(t, u, s[1], s[2]) \in ClaimRow
           /\ Rows(with, status, assignee) \in RowSet
           /\ Rows(with, status, assignee).claim = with
           /\ claim' = ActivateNext(Rows(with, status, assignee)).claim
<1> DEFINE with == [claim EXCEPT ![c] = NewRow(t, u, s[1], s[2])]
<1>1. NewRow(t, u, s[1], s[2]) \in ClaimRow
  BY NumberAssumption DEF NewRow, ClaimRow, ClaimStatus
<1>2. with \in [Claim -> ClaimRow]
  BY <1>1 DEF TypeOK
<1>3. claim' = ActivateNext(Rows(with, status, assignee)).claim
  BY DEF ClaimTranslationSegment, NewRow
<1>4. with = [claim EXCEPT ![c] = NewRow(t, u, s[1], s[2])]
  OBVIOUS
<1> HIDE DEF with
<1>5. Rows(with, status, assignee) \in RowSet /\ Rows(with, status, assignee).claim = with
  BY <1>2, RowsAreRows DEF TypeOK
<1> QED
  BY <1>1, <1>2, <1>3, <1>4, <1>5

\* No second of the episode is claimed twice, however claims are abandoned, reset,
\* removed and asked for again: claimTranslationSegment refuses a segment that
\* overlaps a live one, and no other handler moves a segment or revives a claim.
THEOREM ClaimsAreDisjoint == Spec => []SegmentsDisjoint
<1>1. Init => SegmentsDisjoint
  BY DEF Init, SegmentsDisjoint, With, Live, Reserved
<1>2. TypeOK /\ SegmentsDisjoint /\ [Next]_vars => SegmentsDisjoint'
  <2> SUFFICES ASSUME TypeOK, SegmentsDisjoint, [Next]_vars PROVE SegmentsDisjoint'
    OBVIOUS
  <2>1. Disjoint(claim) /\ (SegmentsDisjoint' <=> Disjoint(claim'))
    BY DEF SegmentsDisjoint, Disjoint
  <2>2. ASSUME NEW c \in Claim, NEW t \in Task, NEW u \in User, NEW s \in Segments,
               ClaimTranslationSegment(c, t, u, s[1], s[2])
        PROVE  Disjoint(claim')
    <3> DEFINE new  == NewRow(t, u, s[1], s[2])
    <3>1. PICK with \in [Claim -> ClaimRow] :
            /\ with = [claim EXCEPT ![c] = new]
            /\ new \in ClaimRow
            /\ Rows(with, status, assignee) \in RowSet
            /\ Rows(with, status, assignee).claim = with
            /\ claim' = ActivateNext(Rows(with, status, assignee)).claim
      BY <2>2, ClaimAddsRow
    <3>2. /\ new.start < new.end
          /\ \A d \in With(claim, Live) : ~Overlaps(claim[d], new.start, new.end)
          /\ claim[c].status = "none"
      BY <2>2 DEF ClaimTranslationSegment, FreeSegment, NewRow
    <3> HIDE DEF new
    <3>3. \A d \in With(claim, Live) : Seconds(claim[d]) \cap Seconds(new) = {}
      BY <3>1, <3>2, FreeMeansDisjoint DEF TypeOK, With
    <3>4. Disjoint(with)
      <4>1. /\ with[c] = new
            /\ \A d \in Claim \ {c} : with[d] = claim[d]
            /\ With(with, Live) \subseteq With(claim, Live) \cup {c}
        BY <3>1 DEF TypeOK, With
      <4>2. \A d \in With(with, Live) \ {c} : d \in With(claim, Live) /\ with[d] = claim[d]
        BY <4>1 DEF With
      <4> QED
        BY <2>1, <3>3, <4>1, <4>2 DEF Disjoint
    <3>5. Within(with, claim')
      BY <3>1, ActivatedWithin
    <3> QED
      BY <3>4, <3>5, WithinStaysDisjoint
  <2>3. CASE OldClaims
    BY <2>1, <2>3, OldClaimsWithin, WithinStaysDisjoint
  <2>4. CASE UNCHANGED vars
    BY <2>1, <2>4 DEF vars
  <2> QED
    BY <2>1, <2>2, <2>3, <2>4 DEF Next, OldClaims
<1> QED
  BY <1>1, <1>2, TypeCorrect, PTL DEF Spec

-----------------------------------------------------------------------------
(* One claim is worked on at a time                                        *)

One(cl) == \A c, d \in With(cl, Working) : c = d

LEMMA FewerStaysOne ==
  ASSUME NEW cl, NEW to, One(cl), With(to, Working) \subseteq With(cl, Working)
  PROVE  One(to)
BY DEF One

LEMMA MarkedOne ==
  ASSUME NEW cl \in [Claim -> ClaimRow], NEW c \in Claim, NEW s \in ClaimStatus, One(cl),
         s \in Working => cl[c].status \in Working \/ With(cl, Working) = {}
  PROVE  One(Mark(cl, c, s))
<1>1. /\ Mark(cl, c, s)[c].status = s
      /\ \A d \in Claim \ {c} : Mark(cl, c, s)[d] = cl[d]
  BY Marked
<1> QED
  BY <1>1 DEF One, With

LEMMA ActivatedOne ==
  ASSUME NEW r \in RowSet, One(r.claim)
  PROVE  One(ActivateNext(r).claim)
<1>1. r.claim \in [Claim -> ClaimRow]
  BY DEF RowSet
<1>2. CASE ActivateNext(r) = r
  BY <1>2
<1>3. ASSUME NEW c \in With(r.claim, {"pending"}), With(r.claim, Working) = {},
             ActivateNext(r).claim = Mark(r.claim, c, "active")
      PROVE  One(ActivateNext(r).claim)
  BY <1>1, <1>3, MarkedOne DEF With, ClaimStatus
<1> QED
  BY <1>2, <1>3, Activates

LEMMA MarkAndActivateOne ==
  ASSUME TypeOK, NEW c \in Claim, NEW s \in ClaimStatus \ Working, One(claim)
  PROVE  One(ActivateNext(Rows(Mark(claim, c, s), status, assignee)).claim)
<1>1. Mark(claim, c, s) \in [Claim -> ClaimRow] /\ One(Mark(claim, c, s))
  BY Marked, MarkedOne DEF TypeOK
<1> QED
  BY <1>1, RowsAreRows, ActivatedOne DEF TypeOK

LEMMA ApproveOne ==
  ASSUME TypeOK, One(claim), NEW t \in Task, ApproveTask(t)
  PROVE  One(claim')
<1> DEFINE c == FirstOf(claim, ToApprove(t))
<1>1. ToApprove(t) # {} /\ ToApprove(t) \in SUBSET With(claim, Live)
  BY DEF ApproveTask, ToApprove, With, Live, Reserved
<1>2. c \in Claim
  BY <1>1, ChosenForReview
<1>3. claim' = ActivateNext(Rows(Mark(claim, c, "approved"), status, assignee)).claim
  BY DEF ApproveTask, Leave, Rows
<1> HIDE DEF c
<1> QED
  BY <1>2, <1>3, MarkAndActivateOne DEF ClaimStatus, Working

LEMMA RejectOne ==
  ASSUME TypeOK, One(claim), NEW t \in Task, RejectTask(t)
  PROVE  One(claim')
<1> DEFINE waiting == With(claim, {"submitted"})
           c == FirstOf(claim, waiting)
<1>1. CASE waiting = {}
  BY <1>1 DEF RejectTask, Leave, Rows
<1>2. CASE waiting # {}
  <2>1. waiting \in SUBSET With(claim, Live)
    BY DEF With, Live, Reserved
  <2>2. c \in Claim /\ claim[c].status = "submitted"
    <3>1. c \in waiting
      BY <1>2, <2>1, ChosenForReview
    <3> QED
      BY <3>1 DEF With
  <2>3. claim' = Mark(claim, c, "active")
    BY <1>2 DEF RejectTask, Leave, Rows
  <2> QED
    BY <2>2, <2>3, MarkedOne DEF TypeOK, ClaimStatus, Working
<1> QED
  BY <1>1, <1>2

\* One claim at most is worked on or reviewed at any time, in whatever order
\* people claim, abandon, submit, approve and leave the project, while nobody
\* resets a finished task (resetTask reactivates a claim without looking at the
\* others).
THEOREM WorkIsSerial ==
  ASSUME "reset" \notin Ops
  PROVE  Spec => []OneAtATime
<1>1. Init => OneAtATime
  BY DEF Init, OneAtATime, With, Working
<1>2. TypeOK /\ OneAtATime /\ [Next]_vars => OneAtATime'
  <2> SUFFICES ASSUME TypeOK, OneAtATime, [Next]_vars PROVE OneAtATime'
    OBVIOUS
  <2>1. One(claim) /\ (OneAtATime' <=> One(claim'))
    BY DEF OneAtATime, One
  <2>2. ASSUME NEW c \in Claim, NEW t \in Task, NEW u \in User, NEW s \in Segments,
               ClaimTranslationSegment(c, t, u, s[1], s[2])
        PROVE  One(claim')
    <3> DEFINE new == NewRow(t, u, s[1], s[2])
    <3>1. PICK with \in [Claim -> ClaimRow] :
            /\ with = [claim EXCEPT ![c] = new]
            /\ new \in ClaimRow
            /\ Rows(with, status, assignee) \in RowSet
            /\ Rows(with, status, assignee).claim = with
            /\ claim' = ActivateNext(Rows(with, status, assignee)).claim
      BY <2>2, ClaimAddsRow
    <3>2. With(with, Working) \subseteq With(claim, Working)
      BY <3>1 DEF TypeOK, With, NewRow, Working
    <3>3. One(with)
      BY <2>1, <3>2, FewerStaysOne
    <3> QED
      BY <3>1, <3>3, ActivatedOne
  <2>3. ASSUME NEW c \in Claim, AbandonTranslationSegment(c) PROVE One(claim')
    <3>1. claim' = ActivateNext(Rows(Mark(claim, c, "abandoned"), status, assignee)).claim
      BY <2>3 DEF AbandonTranslationSegment, AfterAbandon, Leave, Rows
    <3> QED
      BY <2>1, <3>1, MarkAndActivateOne DEF ClaimStatus, Working
  <2>4. ASSUME NEW t \in Task, NEW u \in User, NEW c \in Claim,
               SubmitTask(t, u, c) \/ SubmitTranslation(t, u, c)
        PROVE  One(claim')
    <3>1. claim' = Mark(claim, c, "submitted") /\ claim[c].status = "active"
      BY <2>4 DEF SubmitTask, SubmitTranslation, SubmittedFor
    <3> QED
      BY <2>1, <3>1, MarkedOne DEF TypeOK, ClaimStatus, Working
  <2>5. ASSUME NEW t \in Task, ApproveTask(t) PROVE One(claim')
    BY <2>1, <2>5, ApproveOne
  <2>6. ASSUME NEW t \in Task, RejectTask(t) PROVE One(claim')
    BY <2>1, <2>6, RejectOne
  <2>7. ASSUME NEW u \in User, RemoveMember(u) PROVE One(claim')
    <3>1. With(claim', Working) \subseteq With(claim, Working)
      BY <2>7 DEF RemoveMember, With, Working, TypeOK, ClaimRow
    <3> QED
      BY <2>1, <3>1, FewerStaysOne
  <2>8. ASSUME NEW t \in Task, NEW u \in User,
               \/ StartTask(t, u) \/ AssignTask(t, u) \/ ReturnTask(t)
               \/ ClaimPostProduction \/ UNCHANGED vars
        PROVE  claim' = claim
    BY <2>8 DEF StartTask, AssignTask, ReturnTask, ClaimPostProduction, Leave, Rows, vars
  <2>9. Task # {} /\ User # {}
    BY TaskAssumption, UserAssumption
  <2> QED
    BY <2>1, <2>2, <2>3, <2>4, <2>5, <2>6, <2>7, <2>8, <2>9 DEF Next, Calls
<1> QED
  BY <1>1, <1>2, TypeCorrect, PTL DEF Spec

-----------------------------------------------------------------------------
(* The queue moves                                                         *)

Moves(cl) == With(cl, {"pending"}) # {} => With(cl, Working) # {}

LEMMA MarkedMoves ==
  ASSUME NEW cl \in [Claim -> ClaimRow], NEW c \in Claim, NEW s \in ClaimStatus \cap Working
  PROVE  Moves(Mark(cl, c, s))
<1>1. c \in With(Mark(cl, c, s), Working)
  BY Marked DEF With
<1> QED
  BY <1>1 DEF Moves

\* Whatever it was called on, activateNextTranslationClaim leaves a queue that
\* moves.
LEMMA ActivatedMoves ==
  ASSUME NEW r \in RowSet
  PROVE  Moves(ActivateNext(r).claim)
<1>1. r.claim \in [Claim -> ClaimRow]
  BY DEF RowSet
<1>2. CASE With(r.claim, Working) # {} \/ With(r.claim, {"pending"}) = {}
  BY <1>2, Activates DEF Moves
<1>3. ASSUME NEW c \in With(r.claim, {"pending"}),
             ActivateNext(r).claim = Mark(r.claim, c, "active")
      PROVE  Moves(ActivateNext(r).claim)
  BY <1>1, <1>3, MarkedMoves DEF With, ClaimStatus, Working
<1> QED
  BY <1>2, <1>3, Activates

LEMMA MarkAndActivateMoves ==
  ASSUME TypeOK, NEW c \in Claim, NEW s \in ClaimStatus
  PROVE  Moves(ActivateNext(Rows(Mark(claim, c, s), status, assignee)).claim)
<1>1. Mark(claim, c, s) \in [Claim -> ClaimRow]
  BY Marked DEF TypeOK
<1> QED
  BY <1>1, RowsAreRows, ActivatedMoves DEF TypeOK

LEMMA ReviewMoves ==
  ASSUME TypeOK, Moves(claim), NEW t \in Task,
         ApproveTask(t) \/ RejectTask(t) \/ ResetTask(t)
  PROVE  Moves(claim')
<1>1. CASE ApproveTask(t)
  <2> DEFINE c == FirstOf(claim, ToApprove(t))
  <2>1. ToApprove(t) # {} /\ ToApprove(t) \in SUBSET With(claim, Live)
    BY <1>1 DEF ApproveTask, ToApprove, With, Live, Reserved
  <2>2. c \in Claim
    BY <2>1, ChosenForReview
  <2>3. claim' = ActivateNext(Rows(Mark(claim, c, "approved"), status, assignee)).claim
    BY <1>1 DEF ApproveTask, Leave, Rows
  <2> HIDE DEF c
  <2> QED
    BY <2>2, <2>3, MarkAndActivateMoves DEF ClaimStatus
<1>2. CASE RejectTask(t)
  <2> DEFINE waiting == With(claim, {"submitted"})
             c == FirstOf(claim, waiting)
  <2>1. CASE waiting = {}
    BY <1>2, <2>1 DEF RejectTask, Leave, Rows
  <2>2. CASE waiting # {}
    <3>1. waiting \in SUBSET With(claim, Live)
      BY DEF With, Live, Reserved
    <3>2. c \in Claim
      BY <2>2, <3>1, ChosenForReview
    <3>3. claim' = Mark(claim, c, "active")
      BY <1>2, <2>2 DEF RejectTask, Leave, Rows
    <3> QED
      BY <3>2, <3>3, MarkedMoves DEF TypeOK, ClaimStatus, Working
  <2> QED
    BY <2>1, <2>2
<1>3. CASE ResetTask(t)
  <2> DEFINE done == {c \in With(claim, {"active", "submitted", "approved"}) :
                       claim[c].task = t}
             own  == {c \in done : assignee[t] # NoUser /\ claim[c].user = assignee[t]}
             pool == IF own # {} THEN own ELSE done
             c    == LastOf(claim, pool)
  <2>1. CASE done = {}
    BY <1>3, <2>1 DEF ResetTask, Leave, Rows
  <2>2. CASE done # {}
    <3>1. pool \in SUBSET With(claim, Live) /\ pool # {}
      BY <2>2 DEF With, Live, Reserved
    <3>2. c \in Claim
      BY <3>1, ChosenForReview
    <3>3. claim' = Mark(claim, c, "active")
      BY <1>3, <2>2 DEF ResetTask, Leave, Rows
    <3> QED
      BY <3>2, <3>3, MarkedMoves DEF TypeOK, ClaimStatus, Working
  <2> QED
    BY <2>1, <2>2
<1> QED
  BY <1>1, <1>2, <1>3

\* The translation stage never stalls with claims waiting and nobody at work, in
\* whatever order people claim, abandon, submit, approve, reset and return, while
\* nobody is removed from the project (the removal abandons a claim without
\* activating the next one).
THEOREM StageNeverStalls ==
  ASSUME "removeMember" \notin Ops
  PROVE  Spec => []QueueMoves
<1>1. Init => QueueMoves
  BY DEF Init, QueueMoves, With
<1>2. TypeOK /\ QueueMoves /\ [Next]_vars => QueueMoves'
  <2> SUFFICES ASSUME TypeOK, QueueMoves, [Next]_vars PROVE QueueMoves'
    OBVIOUS
  <2>1. Moves(claim) /\ (QueueMoves' <=> Moves(claim'))
    BY DEF QueueMoves, Moves
  <2>2. ASSUME NEW c \in Claim, NEW t \in Task, NEW u \in User, NEW s \in Segments,
               ClaimTranslationSegment(c, t, u, s[1], s[2])
        PROVE  Moves(claim')
    BY <2>2, ClaimAddsRow, ActivatedMoves
  <2>3. ASSUME NEW c \in Claim, AbandonTranslationSegment(c) PROVE Moves(claim')
    <3>1. claim' = ActivateNext(Rows(Mark(claim, c, "abandoned"), status, assignee)).claim
      BY <2>3 DEF AbandonTranslationSegment, AfterAbandon, Leave, Rows
    <3> QED
      BY <3>1, MarkAndActivateMoves DEF ClaimStatus
  <2>4. ASSUME NEW t \in Task, NEW u \in User, NEW c \in Claim,
               SubmitTask(t, u, c) \/ SubmitTranslation(t, u, c)
        PROVE  Moves(claim')
    <3>1. claim' = Mark(claim, c, "submitted")
      BY <2>4 DEF SubmitTask, SubmitTranslation
    <3> QED
      BY <3>1, MarkedMoves DEF TypeOK, ClaimStatus, Working
  <2>5. ASSUME NEW t \in Task, ApproveTask(t) \/ RejectTask(t) \/ ResetTask(t)
        PROVE  Moves(claim')
    BY <2>1, <2>5, ReviewMoves
  <2>6. ASSUME NEW t \in Task, NEW u \in User,
               \/ StartTask(t, u) \/ AssignTask(t, u) \/ ReturnTask(t)
               \/ ClaimPostProduction \/ UNCHANGED vars
        PROVE  claim' = claim
    BY <2>6 DEF StartTask, AssignTask, ReturnTask, ClaimPostProduction, Leave, Rows, vars
  <2>7. Task # {} /\ User # {}
    BY TaskAssumption, UserAssumption
  <2> QED
    BY <2>1, <2>2, <2>3, <2>4, <2>5, <2>6, <2>7 DEF Next, Calls
<1> QED
  BY <1>1, <1>2, TypeCorrect, PTL DEF Spec

-----------------------------------------------------------------------------
(* The next stage rests on finished work                                   *)

\* Nothing of the stage is left to do.
Finished(cl, st) == With(cl, Reserved) = {} /\ \A t \in Task : st[t] = "completed"

\* Who takes work back closes the next stage, unless somebody has taken it.
LEMMA CascadeCloses == PostAfterCascade # "claimable"
  BY DEF PostAfterCascade

\* An approval opens the next stage with nothing left to do.
LEMMA ApprovalFinishes ==
  ASSUME TypeOK, NEW t \in Task, ApproveTask(t), post' = "claimable", post # "claimable"
  PROVE  Finished(claim', status')
<1> DEFINE r == ActivateNext(Rows(Mark(claim, FirstOf(claim, ToApprove(t)), "approved"),
                                  status, assignee))
<1>1. /\ ~StageGoesOn(r)
      /\ Leave(Rows(r.claim, [x \in Task |-> "completed"], r.assignee))
  BY DEF ApproveTask
<1> HIDE DEF r
<1>2. /\ claim' = r.claim /\ status' = [x \in Task |-> "completed"]
  BY <1>1 DEF Leave, Rows
<1> QED
  BY <1>1, <1>2 DEF StageGoesOn, NextClaimExists, Finished

\* Once everything is completed nobody can claim, start, hand in, approve, refuse,
\* return or reassign: only a reset takes work up again, and it closes the stage.
LEMMA FinishedStays ==
  ASSUME TypeOK, post = "claimable", Finished(claim, status), [Next]_vars, post' = "claimable"
  PROVE  Finished(claim', status')
<1>1. \A t \in Task : status[t] = "completed"
  BY DEF Finished
<1>2. \A c \in Claim : claim[c].status \notin Reserved
  BY DEF Finished, With
<1>3. ASSUME NEW c \in Claim, NEW t \in Task, NEW u \in User, NEW x, NEW y,
             ClaimTranslationSegment(c, t, u, x, y)
      PROVE  FALSE
  BY <1>1, <1>3 DEF ClaimTranslationSegment
<1>4. ASSUME NEW c \in Claim, AbandonTranslationSegment(c) PROVE FALSE
  BY <1>2, <1>4 DEF AbandonTranslationSegment, Reserved
<1>5. ASSUME NEW t \in Task, NEW u \in User, NEW c \in Claim,
             SubmitTask(t, u, c) \/ SubmitTranslation(t, u, c)
      PROVE  FALSE
  BY <1>1, <1>5 DEF SubmitTask, SubmitTranslation
<1>6. ASSUME NEW t \in Task, NEW u \in User, StartTask(t, u) \/ AssignTask(t, u)
      PROVE  FALSE
  BY <1>1, <1>6 DEF StartTask, AssignTask
<1>7. ASSUME NEW t \in Task, ApproveTask(t) \/ RejectTask(t) PROVE FALSE
  BY <1>1, <1>7 DEF ApproveTask, RejectTask
<1>8. ASSUME NEW t \in Task, ResetTask(t) \/ ReturnTask(t) PROVE FALSE
  BY <1>8, CascadeCloses DEF ResetTask, ReturnTask
<1>9. ASSUME NEW u \in User, RemoveMember(u)
      PROVE  Finished(claim', status')
  <2>1. claim' = claim
    <3>1. \A c \in Claim : claim[c].status \notin {"pending", "active"}
      BY <1>2 DEF Reserved
    <3> QED
      BY <1>9, <3>1 DEF RemoveMember, TypeOK
  <2>2. \A t \in Task : status'[t] = "completed"
    BY <1>1, <1>9 DEF RemoveMember
  <2> QED
    BY <2>1, <2>2 DEF Finished
<1>10. CASE ClaimPostProduction
  BY <1>10 DEF ClaimPostProduction
<1>11. CASE UNCHANGED vars
  BY <1>11 DEF vars
<1>12. Task # {} /\ User # {}
  BY TaskAssumption, UserAssumption
<1> QED
  BY <1>3, <1>4, <1>5, <1>6, <1>7, <1>8, <1>9, <1>10, <1>11, <1>12 DEF Next

\* Only an approval opens the next stage.
LEMMA OnlyApprovalOpens ==
  ASSUME [Next]_vars, post # "claimable", post' = "claimable"
  PROVE  \E t \in Task : ApproveTask(t)
<1>1. ASSUME NEW c \in Claim, NEW t \in Task, NEW u \in User, NEW x, NEW y,
             ClaimTranslationSegment(c, t, u, x, y)
      PROVE  FALSE
  BY <1>1 DEF ClaimTranslationSegment
<1>2. ASSUME NEW c \in Claim, AbandonTranslationSegment(c) PROVE FALSE
  BY <1>2 DEF AbandonTranslationSegment
<1>3. ASSUME NEW t \in Task, NEW u \in User, NEW c \in Claim,
             SubmitTask(t, u, c) \/ SubmitTranslation(t, u, c)
      PROVE  FALSE
  BY <1>3 DEF SubmitTask, SubmitTranslation
<1>4. ASSUME NEW t \in Task, NEW u \in User,
             StartTask(t, u) \/ AssignTask(t, u) \/ RemoveMember(u)
      PROVE  FALSE
  BY <1>4 DEF StartTask, AssignTask, RemoveMember
<1>5. ASSUME NEW t \in Task, RejectTask(t) \/ ResetTask(t) \/ ReturnTask(t)
      PROVE  FALSE
  BY <1>5, CascadeCloses DEF RejectTask, ResetTask, ReturnTask
<1>6. ~ UNCHANGED vars /\ ~ClaimPostProduction
  BY DEF vars, ClaimPostProduction
<1>7. Task # {} /\ User # {}
  BY TaskAssumption, UserAssumption
<1> QED
  BY <1>1, <1>2, <1>3, <1>4, <1>5, <1>6, <1>7 DEF Next

\* While post-production is open to be taken no translation work is unfinished,
\* whatever is approved, reset, returned and handed on before: a completed stage
\* can only be taken up again by a reset, and the cascade of the reset closes what
\* it opened.
THEOREM NextStageRestsOnFinishedWork == Spec => []OpenStageRestsOnFinishedWork
<1>1. Init => OpenStageRestsOnFinishedWork
  BY DEF Init, OpenStageRestsOnFinishedWork
<1>2. TypeOK /\ OpenStageRestsOnFinishedWork /\ [Next]_vars => OpenStageRestsOnFinishedWork'
  <2> SUFFICES ASSUME TypeOK, OpenStageRestsOnFinishedWork, [Next]_vars, post' = "claimable"
               PROVE  Finished(claim', status')
    BY DEF OpenStageRestsOnFinishedWork, Finished, With
  <2>1. CASE post = "claimable"
    <3>1. Finished(claim, status)
      BY <2>1 DEF OpenStageRestsOnFinishedWork, Finished
    <3> QED
      BY <2>1, <3>1, FinishedStays
  <2>2. CASE post # "claimable"
    BY <2>2, OnlyApprovalOpens, ApprovalFinishes
  <2> QED
    BY <2>1, <2>2
<1> QED
  BY <1>1, <1>2, TypeCorrect, PTL DEF Spec
=============================================================================
