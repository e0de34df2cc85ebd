--------------------------- MODULE SegmentClaiming ---------------------------
(***************************************************************************)
(* The translation claims of one unit when requests interleave.            *)
(* claimTranslationSegment looks for an overlapping claim before its       *)
(* transaction, creates a pending claim in it, and after it calls          *)
(* activateNextTranslationClaim, which asks for claims being worked on,    *)
(* then for pending ones, and activates the first it read.  Requests that  *)
(* abandon or approve a claim end in the same call.                        *)
(*                                                                         *)
(* Only the claim rows are here; the task rows, the limits on a user and   *)
(* the completion of the stage are in TranslationClaims.                   *)
(***************************************************************************)
EXTENDS Naturals, FiniteSets

CONSTANTS
  Claimant,   \* requests claiming a segment: each creates at most the row of its name
  Ender,      \* requests abandoning or approving a claim
  Segments    \* the segments <<segment_start, segment_end>> asked for

ASSUME RequestAssumption == Claimant \cap Ender = {} /\ Claimant # {}
ASSUME SegmentAssumption ==
  Segments \subseteq {s \in Nat \X Nat : s[1] < s[2]} /\ Segments # {}

Caller == Claimant \cup Ender

VARIABLES
  claim,   \* the status of each TranslationClaim row
  want,    \* the segment each claiming request asks for
  pc,      \* where each request is
  target   \* the claim a request is about to write

segmentVars == <<claim, want, pc, target>>

ClaimStatus == {"none", "pending", "active", "submitted", "approved", "abandoned"}

SegmentTypeOK ==
  /\ claim \in [Claimant -> ClaimStatus]
  /\ want \in [Claimant -> Segments]
  /\ pc \in [Caller -> {"new", "create", "abandon", "approve", "look", "pick",
                        "activate", "done"}]
  /\ target \in [Caller -> Claimant]

SegmentInit ==
  /\ claim = [c \in Claimant |-> "none"]
  /\ want \in [Claimant -> Segments]
  /\ pc = [r \in Caller |-> "new"]
  /\ target = [r \in Caller |-> CHOOSE c \in Claimant : TRUE]

With(statuses) == {c \in Claimant : claim[c] \in statuses}

Reserved == {"pending", "active", "submitted"}
Live == Reserved \cup {"approved"}
Working == {"active", "submitted"}

Overlap(s, w) == s[1] < w[2] /\ w[1] < s[2]

Move(r, p) == pc' = [pc EXCEPT ![r] = p]

Write(c, s) == claim' = [claim EXCEPT ![c] = s]

-----------------------------------------------------------------------------
(* claimTranslationSegment                                                 *)

CheckOverlap(r) ==
  /\ pc[r] = "new"
  /\ \A c \in With(Live) : ~Overlap(want[c], want[r])
  /\ Move(r, "create")
  /\ UNCHANGED <<claim, want, target>>

CreateClaim(r) ==
  /\ pc[r] = "create"
  /\ Write(r, "pending")
  /\ Move(r, "look")
  /\ UNCHANGED <<want, target>>

-----------------------------------------------------------------------------
(* abandonTranslationSegment and the approval of a submitted claim         *)

ReadToAbandon(r, c) ==
  /\ pc[r] = "new"
  /\ claim[c] \in {"active", "pending"}
  /\ target' = [target EXCEPT ![r] = c]
  /\ Move(r, "abandon")
  /\ UNCHANGED <<claim, want>>

ReadToApprove(r, c) ==
  /\ pc[r] = "new"
  /\ claim[c] = "submitted"
  /\ \A d \in With({"submitted"}) : want[c][1] <= want[d][1]
  /\ target' = [target EXCEPT ![r] = c]
  /\ Move(r, "approve")
  /\ UNCHANGED <<claim, want>>

\* Mutant: the claim is ended after the next one was looked for.
EndClaimMutant(r) ==
  /\ pc[r] \in {"abandon", "approve"}
  /\ Write(target[r], IF pc[r] = "abandon" THEN "abandoned" ELSE "approved")
  /\ Move(r, "done")
  /\ UNCHANGED <<want, target>>
EndClaim(r) ==
  /\ pc[r] \in {"abandon", "approve"}
  /\ Write(target[r], IF pc[r] = "abandon" THEN "abandoned" ELSE "approved")
  /\ Move(r, "look")
  /\ UNCHANGED <<want, target>>

\* The translator hands in: a single write, unless somebody else was faster.
Submit(c) ==
  /\ claim[c] = "active"
  /\ Write(c, "submitted")
  /\ UNCHANGED <<want, pc, target>>

-----------------------------------------------------------------------------
(* activateNextTranslationClaim                                            *)

LookForWorking(r) ==
  /\ pc[r] = "look"
  /\ Move(r, IF With(Working) = {} THEN "pick" ELSE "done")
  /\ UNCHANGED <<claim, want, target>>

PickPending(r) ==
  /\ pc[r] = "pick"
  /\ \/ /\ With({"pending"}) = {}
        /\ Move(r, "done")
        /\ UNCHANGED target
     \/ \E c \in With({"pending"}) :
          /\ \A d \in With({"pending"}) : want[c][1] <= want[d][1]
          /\ target' = [target EXCEPT ![r] = c]
          /\ Move(r, "activate")
  /\ UNCHANGED <<claim, want>>

\* An unconditional write: the claim may be in another status by now.
Activate(r) ==
  /\ pc[r] = "activate"
  /\ Write(target[r], "active")
  /\ Move(r, "done")
  /\ UNCHANGED <<want, target>>

-----------------------------------------------------------------------------
SegmentNext ==
  \/ \E r \in Claimant : CheckOverlap(r) \/ CreateClaim(r) \/ Submit(r)
  \/ \E r \in Ender :
       \/ \E c \in Claimant : ReadToAbandon(r, c) \/ ReadToApprove(r, c)
       \/ EndClaim(r)
  \/ \E r \in Caller : LookForWorking(r) \/ PickPending(r) \/ Activate(r)

SegmentSpec == SegmentInit /\ [][SegmentNext]_segmentVars

-----------------------------------------------------------------------------
(* Properties                                                              *)

\* The queue never rests with a claim waiting and nobody at work: in every
\* interleaving of claims, submissions, abandonments and approvals some request
\* that can still activate the claim is under way, because each of them writes
\* its own claim before it looks for the next.
QueueKeepsMoving ==
  With({"pending"}) # {} =>
    \/ With(Working) # {}
    \/ \E r \in Caller : pc[r] \in {"look", "pick", "activate"}

\* Two claims that count never share a second, however requests interleave: the
\* check of the segment and the claim are said to be one atomic step.
SegmentsDisjoint ==
  \A c, d \in With(Live) : c # d => ~Overlap(want[c], want[d])

\* At most one claim is being worked on or reviewed, however requests interleave.
OneAtATime == \A c, d \in With(Working) : c = d
=============================================================================
