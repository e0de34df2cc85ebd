--------------------------- MODULE ClaimingProofs ---------------------------
(***************************************************************************)
(* Theorems about TaskClaiming, for any tasks, users and requests, and     *)
(* about SegmentClaiming, for any number of requests and any segments.     *)
(***************************************************************************)
EXTENDS TaskClaiming, SegmentClaiming, TLAPS

\* The requests that read a task row for the first time.
Reads(r, t, u) ==
  ClaimRead(r, t, u) \/ StartRead(r, t, u) \/ ReturnRead(r, t, u) \/ AssignRead(r, t, u)

LEMMA InitType == Init => TypeOK
<1> SUFFICES ASSUME Init PROVE TypeOK
  OBVIOUS
<1>1. Blank \in RequestData
  BY TaskAssumption DEF Blank, RequestData, AllKinds
<1> QED
  BY <1>1 DEF Init, TypeOK, Phase

\* What opening a request does to the two variables about requests.
LEMMA ReadsOpen ==
  ASSUME TypeOK, NEW r \in Request, NEW t \in Task, NEW u \in User, Reads(r, t, u)
  PROVE  /\ UNCHANGED <<status, assignee, members, epoch>>
         /\ phase[r] = "new"
         /\ \E p \in Phase \ {"new", "won"} : phase' = [phase EXCEPT ![r] = p]
         /\ \E d \in RequestData : req' = [req EXCEPT ![r] = d]
<1> USE DEF TypeOK
<1> DEFINE d(kind) == [kind |-> kind, task |-> t, user |-> u, seen |-> assignee[t],
                       free |-> status[t] = "claimable" /\ assignee[t] = NoUser,
                       joined |-> FALSE, at |-> 0]
<1>1. \A kind \in AllKinds : d(kind) \in RequestData
  <2>1. (status[t] = "claimable" /\ assignee[t] = NoUser) \in BOOLEAN
    OBVIOUS
  <2> QED
    BY <2>1 DEF RequestData
<1>2. ASSUME NEW kind \in AllKinds, NEW p \in Phase \ {"new", "won"}, Open(r, kind, t, u, p)
      PROVE  /\ UNCHANGED <<status, assignee, members, epoch>>
             /\ phase[r] = "new"
             /\ phase' = [phase EXCEPT ![r] = p]
             /\ req' = [req EXCEPT ![r] = d(kind)]
  BY <1>2 DEF Open
<1> HIDE DEF d
<1>3. CASE ClaimRead(r, t, u)
  BY <1>1, <1>2, <1>3 DEF ClaimRead, AllKinds, Phase
<1>4. CASE StartRead(r, t, u)
  BY <1>1, <1>2, <1>4 DEF StartRead, AllKinds, Phase
<1>5. CASE ReturnRead(r, t, u)
  BY <1>1, <1>2, <1>5 DEF ReturnRead, AllKinds, Phase
<1>6. CASE AssignRead(r, t, u)
  BY <1>1, <1>2, <1>6 DEF AssignRead, AllKinds, Phase
<1> QED
  BY <1>3, <1>4, <1>5, <1>6 DEF Reads

\* The members of a request's data that its later steps use.
LEMMA RequestTypes ==
  ASSUME TypeOK, NEW r \in Request
  PROVE  /\ req[r].task \in Task
         /\ req[r].user \in User
         /\ req[r].seen \in User \cup {NoUser}
         /\ req[r].at \in Nat
         /\ epoch[req[r].task] \in Nat
BY DEF TypeOK, RequestData

LEMMA ContinueType ==
  ASSUME TypeOK, NEW r \in Request, Continue(r)
  PROVE  TypeOK'
<1> USE RequestTypes DEF TypeOK, Phase, Go
<1>1. CASE ClaimReadMembership(r)
  <2>1. \A b \in BOOLEAN : [req EXCEPT ![r].joined = b] \in [Request -> RequestData]
    BY DEF RequestData
  <2>2. (req[r].user \in members) \in BOOLEAN
    OBVIOUS
  <2>3. req' \in [Request -> RequestData]
    BY <1>1, <2>1, <2>2 DEF ClaimReadMembership
  <2> QED
    BY <1>1, <2>3 DEF ClaimReadMembership
<1>2. CASE ClaimWrite(r)
  <2>1. req' \in [Request -> RequestData]
    BY <1>2 DEF ClaimWrite, RequestData
  <2> QED
    BY <1>2, <2>1 DEF ClaimWrite, HeldStatus
<1>3. CASE ClaimConflict(r)
  BY <1>3 DEF ClaimConflict
<1>4. CASE StartWrite(r)
  BY <1>4 DEF StartWrite, HeldStatus
<1>5. CASE ReturnWrite(r)
  BY <1>5 DEF ReturnWrite
<1>6. CASE ReturnCount(r)
  BY <1>6 DEF ReturnCount
<1>7. CASE ReturnLeave(r)
  BY <1>7 DEF ReturnLeave
<1>8. CASE AssignWrite(r)
  BY <1>8 DEF AssignWrite, HeldStatus
<1>9. CASE AssignJoin(r)
  BY <1>9 DEF AssignJoin
<1> QED
  BY <1>1, <1>2, <1>3, <1>4, <1>5, <1>6, <1>7, <1>8, <1>9 DEF Continue

\* Type correctness: whatever interleaves, the rows keep legal values and no
\* null user becomes a member.
THEOREM TypeCorrect == Spec => []TypeOK
<1>1. TypeOK /\ [Next]_vars => TypeOK'
  <2> SUFFICES ASSUME TypeOK, [Next]_vars PROVE TypeOK'
    OBVIOUS
  <2>1. ASSUME NEW r \in Request, NEW t \in Task, NEW u \in User, Reads(r, t, u)
        PROVE  TypeOK'
    BY <2>1, ReadsOpen DEF TypeOK
  <2>2. ASSUME NEW r \in Request, Continue(r) PROVE TypeOK'
    BY <2>2, ContinueType
  <2>3. CASE UNCHANGED vars
    BY <2>3 DEF vars, TypeOK
  <2> QED
    BY <2>1, <2>2, <2>3 DEF Next, Reads
<1> QED
  BY InitType, <1>1, PTL DEF Spec

-----------------------------------------------------------------------------
(* A task in the pool is free                                              *)

\* However claims, starts, returns and assignments interleave, no request
\* leaves a claimable task with an assignee.
THEOREM PoolStaysFree == Spec => []PoolIsFree
<1>1. Init => PoolIsFree
  BY DEF Init, PoolIsFree
<1>2. TypeOK /\ PoolIsFree /\ [Next]_vars => PoolIsFree'
  <2> SUFFICES ASSUME TypeOK, PoolIsFree, [Next]_vars PROVE PoolIsFree'
    OBVIOUS
  <2> USE RequestTypes DEF TypeOK, PoolIsFree
  <2>1. ASSUME NEW r \in Request, NEW t \in Task, NEW u \in User, Reads(r, t, u)
        PROVE  PoolIsFree'
    BY <2>1, ReadsOpen
  <2>2. ASSUME NEW r \in Request, Continue(r) PROVE PoolIsFree'
    BY <2>2 DEF Continue, ClaimReadMembership, ClaimWrite, ClaimConflict, StartWrite,
       ReturnWrite, ReturnCount, ReturnLeave, AssignWrite, AssignJoin
  <2>3. CASE UNCHANGED vars
    BY <2>3 DEF vars
  <2> QED
    BY <2>1, <2>2, <2>3 DEF Next, Reads
<1> QED
  BY <1>1, <1>2, TypeCorrect, PTL DEF Spec

-----------------------------------------------------------------------------
(* One winner.  A claim that succeeded since the task was last in the pool *)
(* still keeps it out of the pool, so the conditional update of a second   *)
(* claim finds no row.                                                     *)

Winners == {r \in Request : phase[r] = "won"}

WinnersHold ==
  \A r \in Winners :
    /\ req[r].at <= epoch[req[r].task]
    /\ req[r].at = epoch[req[r].task] => status[req[r].task] # "claimable"

\* A step that makes no winner, gives no task back to the pool and leaves the
\* tasks outside the pool outside it keeps both invariants.
LEMMA QuietStep ==
  ASSUME TypeOK, WinnersHold, OneWinner,
         epoch' = epoch,
         \A t \in Task : status'[t] = "claimable" => status[t] = "claimable",
         \A r \in Request : phase'[r] = "won" => phase[r] = "won" /\ req'[r] = req[r]
  PROVE  WinnersHold' /\ OneWinner'
<1> USE RequestTypes
<1>1. WinnersHold'
  BY DEF WinnersHold, Winners
<1>2. OneWinner'
  BY DEF OneWinner
<1> QED
  BY <1>1, <1>2

LEMMA ClaimKeepsOneWinner ==
  ASSUME TypeOK, WinnersHold, OneWinner, NEW r \in Request, ClaimWrite(r)
  PROVE  WinnersHold' /\ OneWinner'
<1> DEFINE t == req[r].task
<1> USE RequestTypes DEF TypeOK
<1>1. /\ phase' = [phase EXCEPT ![r] = "won"]
      /\ req' = [req EXCEPT ![r].at = epoch[t]]
      /\ epoch' = epoch
      /\ status' = [status EXCEPT ![t] = "assigned"]
      /\ status[t] = "claimable"
      /\ phase[r] = "claim"
  BY DEF ClaimWrite, MayTake, Go
<1>2. req'[r].task = t /\ req'[r].at = epoch[t]
  BY <1>1 DEF RequestData
<1>3. \A s \in Request \ {r} : req'[s] = req[s] /\ phase'[s] = phase[s]
  BY <1>1
<1>4. \A s \in Winners : req[s].task = t => req[s].at # epoch[t]
  BY <1>1 DEF WinnersHold
<1>5. WinnersHold'
  BY <1>1, <1>2, <1>3 DEF WinnersHold, Winners
<1>6. OneWinner'
  BY <1>2, <1>3, <1>4 DEF OneWinner, Winners
<1> QED
  BY <1>5, <1>6

LEMMA ReturnKeepsOneWinner ==
  ASSUME TypeOK, WinnersHold, OneWinner, NEW r \in Request, ReturnWrite(r)
  PROVE  WinnersHold' /\ OneWinner'
<1> DEFINE t == req[r].task
<1> USE RequestTypes DEF TypeOK
<1>1. /\ req' = req
      /\ epoch' = [epoch EXCEPT ![t] = @ + 1]
      /\ status' = [status EXCEPT ![t] = "claimable"]
      /\ \A s \in Request : phase'[s] = "won" => phase[s] = "won"
  BY DEF ReturnWrite, Go
<1>2. WinnersHold'
  <2> SUFFICES ASSUME NEW s \in Request, phase[s] = "won"
               PROVE  /\ req[s].at <= epoch'[req[s].task]
                      /\ req[s].at = epoch'[req[s].task]
                           => status'[req[s].task] # "claimable"
    BY <1>1 DEF WinnersHold, Winners
  <2>1. CASE req[s].task = t
    BY <1>1, <2>1 DEF WinnersHold, Winners
  <2>2. CASE req[s].task # t
    BY <1>1, <2>2 DEF WinnersHold, Winners
  <2> QED
    BY <2>1, <2>2
<1>3. OneWinner'
  BY <1>1 DEF OneWinner
<1> QED
  BY <1>2, <1>3

\* Of the requests that try to claim a task, one at most succeeds before the
\* task is given back, however many there are and whatever runs between their
\* steps: the conditional updateMany of claimTask is enough.
THEOREM ClaimsHaveOneWinner == Spec => []OneWinner
<1>1. Init => WinnersHold /\ OneWinner
  BY DEF Init, WinnersHold, Winners, OneWinner
<1>2. TypeOK /\ WinnersHold /\ OneWinner /\ [Next]_vars => WinnersHold' /\ OneWinner'
  <2> SUFFICES ASSUME TypeOK, WinnersHold, OneWinner, [Next]_vars
               PROVE  WinnersHold' /\ OneWinner'
    OBVIOUS
  <2>1. ASSUME NEW r \in Request, NEW t \in Task, NEW u \in User, Reads(r, t, u)
        PROVE  WinnersHold' /\ OneWinner'
    BY <2>1, ReadsOpen, QuietStep DEF TypeOK
  <2>2. ASSUME NEW r \in Request, Continue(r) PROVE WinnersHold' /\ OneWinner'
    <3>1. CASE ClaimWrite(r)
      BY <3>1, ClaimKeepsOneWinner
    <3>2. CASE ReturnWrite(r)
      BY <3>2, ReturnKeepsOneWinner
    <3>3. CASE ClaimReadMembership(r) \/ ClaimConflict(r)
      BY <3>3, QuietStep DEF ClaimReadMembership, ClaimConflict, Go, TypeOK
    <3>4. CASE StartWrite(r) \/ AssignWrite(r)
      BY <3>4, QuietStep, RequestTypes DEF StartWrite, AssignWrite, Go, TypeOK
    <3>5. CASE ReturnCount(r) \/ ReturnLeave(r) \/ AssignJoin(r)
      BY <3>5, QuietStep DEF ReturnCount, ReturnLeave, AssignJoin, Go, TypeOK
    <3> QED
      BY <2>2, <3>1, <3>2, <3>3, <3>4, <3>5 DEF Continue
  <2>3. CASE UNCHANGED vars
    BY <2>3, QuietStep DEF vars
  <2> QED
    BY <2>1, <2>2, <2>3 DEF Next, Reads
<1> QED
  BY <1>1, <1>2, TypeCorrect, PTL DEF Spec

-----------------------------------------------------------------------------
(* The queue of translation claims.  QueueKeepsMoving is inductive as it   *)
(* stands: a request writes its own claim before it looks for others, so   *)
(* the last one to look sees what all the others wrote.                    *)

LEMMA SegmentInitType == SegmentInit => SegmentTypeOK
<1> SUFFICES ASSUME SegmentInit PROVE SegmentTypeOK
  OBVIOUS
<1>1. (CHOOSE c \in Claimant : TRUE) \in Claimant
  BY RequestAssumption
<1> QED
  BY <1>1 DEF SegmentInit, SegmentTypeOK, ClaimStatus

\* Type correctness: every request only ever writes one of the statuses of a
\* claim, on the row of a claiming request.
THEOREM SegmentsTypeCorrect == SegmentSpec => []SegmentTypeOK
<1>1. SegmentTypeOK /\ [SegmentNext]_segmentVars => SegmentTypeOK'
  <2> SUFFICES ASSUME SegmentTypeOK, [SegmentNext]_segmentVars PROVE SegmentTypeOK'
    OBVIOUS
  <2> USE DEF SegmentTypeOK, ClaimStatus, Caller, Move, Write, With
  <2>1. ASSUME NEW r \in Claimant, CheckOverlap(r) \/ CreateClaim(r) \/ Submit(r)
        PROVE  SegmentTypeOK'
    BY <2>1 DEF CheckOverlap, CreateClaim, Submit
  <2>2. ASSUME NEW r \in Ender, NEW c \in Claimant, ReadToAbandon(r, c) \/ ReadToApprove(r, c)
        PROVE  SegmentTypeOK'
    BY <2>2 DEF ReadToAbandon, ReadToApprove
  <2>3. ASSUME NEW r \in Ender, EndClaim(r) PROVE SegmentTypeOK'
    BY <2>3 DEF EndClaim
  <2>4. ASSUME NEW r \in Caller, LookForWorking(r) \/ PickPending(r) \/ Activate(r)
        PROVE  SegmentTypeOK'
    BY <2>4 DEF LookForWorking, PickPending, Activate
  <2>5. CASE UNCHANGED segmentVars
    BY <2>5 DEF segmentVars
  <2> QED
    BY <2>1, <2>2, <2>3, <2>4, <2>5 DEF SegmentNext
<1> QED
  BY SegmentInitType, <1>1, PTL DEF SegmentSpec

-----------------------------------------------------------------------------
Looking(r) == pc[r] \in {"look", "pick", "activate"}

\* A request that does not move goes on looking, and a claim nobody writes keeps
\* its status.
LEMMA QueueStep ==
  ASSUME SegmentTypeOK, QueueKeepsMoving, NEW r \in Caller,
         \A q \in Caller \ {r} : pc'[q] = pc[q],
         Looking(r) => Looking(r)' \/ With({"pending"})' = {} \/ With(Working)' # {},
         With({"pending"})' # {} => With({"pending"}) # {} \/ Looking(r)',
         With(Working)' # {} \/ With(Working) = {} \/ Looking(r)'
  PROVE  QueueKeepsMoving'
BY DEF QueueKeepsMoving, Looking, Caller

LEMMA ClaimantKeepsMoving ==
  ASSUME SegmentTypeOK, QueueKeepsMoving, NEW r \in Claimant,
         CheckOverlap(r) \/ CreateClaim(r) \/ Submit(r)
  PROVE  QueueKeepsMoving'
<1> USE DEF SegmentTypeOK, Caller
<1>1. CASE CheckOverlap(r)
  BY <1>1, QueueStep DEF CheckOverlap, Move, Looking, With
<1>2. CASE CreateClaim(r)
  <2>1. Looking(r)'
    BY <1>2 DEF CreateClaim, Move, Looking
  <2> QED
    BY <2>1 DEF QueueKeepsMoving, Looking
<1>3. CASE Submit(r)
  <2>1. r \in With(Working)'
    BY <1>3 DEF Submit, Write, With, Working
  <2> QED
    BY <2>1 DEF QueueKeepsMoving
<1> QED
  BY <1>1, <1>2, <1>3

LEMMA EnderKeepsMoving ==
  ASSUME SegmentTypeOK, QueueKeepsMoving, NEW r \in Ender,
         EndClaim(r) \/ \E c \in Claimant : ReadToAbandon(r, c) \/ ReadToApprove(r, c)
  PROVE  QueueKeepsMoving'
<1> USE DEF SegmentTypeOK, Caller
<1>1. CASE EndClaim(r)
  <2>1. Looking(r)'
    BY <1>1 DEF EndClaim, Move, Looking
  <2> QED
    BY <2>1 DEF QueueKeepsMoving, Looking
<1>2. ASSUME NEW c \in Claimant, ReadToAbandon(r, c) \/ ReadToApprove(r, c)
      PROVE  QueueKeepsMoving'
  BY <1>2, QueueStep DEF ReadToAbandon, ReadToApprove, Move, Looking, With
<1> QED
  BY <1>1, <1>2

LEMMA SearchKeepsMoving ==
  ASSUME SegmentTypeOK, QueueKeepsMoving, NEW r \in Caller,
         LookForWorking(r) \/ PickPending(r) \/ Activate(r)
  PROVE  QueueKeepsMoving'
<1> USE DEF SegmentTypeOK
<1>1. CASE LookForWorking(r)
  BY <1>1, QueueStep DEF LookForWorking, Move, Looking, With
<1>2. CASE PickPending(r)
  BY <1>2, QueueStep DEF PickPending, Move, Looking, With
<1>3. CASE Activate(r)
  <2>1. target[r] \in With(Working)'
    BY <1>3 DEF Activate, Write, With, Working
  <2> QED
    BY <2>1 DEF QueueKeepsMoving
<1> QED
  BY <1>1, <1>2, <1>3

\* The queue of a unit never rests with a claim waiting, nobody at work and no
\* request about to activate the next claim, however many requests claim, submit,
\* abandon and approve at the same time (activateNextTranslationClaim).
THEOREM QueueAlwaysMoves == SegmentSpec => []QueueKeepsMoving
<1>1. SegmentInit => QueueKeepsMoving
  BY DEF SegmentInit, QueueKeepsMoving, With
<1>2. SegmentTypeOK /\ QueueKeepsMoving /\ [SegmentNext]_segmentVars => QueueKeepsMoving'
  <2> SUFFICES ASSUME SegmentTypeOK, QueueKeepsMoving, [SegmentNext]_segmentVars PROVE QueueKeepsMoving'
    OBVIOUS
  <2>1. CASE UNCHANGED segmentVars
    BY <2>1 DEF segmentVars, QueueKeepsMoving, With
  <2> QED
    BY <2>1, ClaimantKeepsMoving, EnderKeepsMoving, SearchKeepsMoving DEF SegmentNext
<1> QED
  BY <1>1, <1>2, SegmentsTypeCorrect, PTL DEF SegmentSpec
=============================================================================
