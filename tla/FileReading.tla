------------------------------- MODULE FileReading -------------------------------
(***************************************************************************)
(* Who reads a file and over which links: permissions, lists, previews,    *)
(* download links with their times, and the cloud-drive links kept as      *)
(* files of their own.  One request is a step; FileVersions has their      *)
(* interleavings with uploads and deletions.                               *)
(*                                                                         *)
(* There is one stored file, kept on a disk: an object store's own address *)
(* leads to the version that was current when it was asked for.  Time is   *)
(* counted in units of 30 seconds.                                         *)
(***************************************************************************)
EXTENDS Naturals, Sequences, FiniteSets, FiniteSetsExt

CONSTANTS
  Reader,      \* users
  Uploaded,    \* the one who uploaded the file
  Ttls,        \* times asked for or configured, in units
  ListWindow,  \* the versions a list reads of a file (5 in the code)
  Sharer,      \* requests that add a cloud-drive link
  ExtractCode, \* what a drive asks before it shows a link
  MaxFileVersions, MaxLinks, MaxClock   \* bounds

Unset == 0
MinimumTtl == 3       \* 90 seconds
\* No link is asked or configured to last longer than a certain time (seven days).
ASSUME FileReadingAssumption ==
  /\ Uploaded \in Reader /\ Ttls \subseteq Nat \ {Unset}
  /\ \E longest \in Ttls : \A t \in Ttls : t <= longest

VARIABLES
  standing,   \* what each user is to the project
  kept,     \* the file: versions 1 .. count, the one with is_current (0 if none), ...
  ttl,        \* what the project and the retention settings say of links
  clock,
  links,      \* the DownloadLink rows, in order of creation
  handed,     \* the links given out: for which version they were asked
  lasts,      \* the time the last one given out had left
  bucket,     \* the files that hold links of the task, in order of creation
  shared,     \* the LinkHistory rows
  sharing     \* the requests that add one

readingVars == <<standing, kept, ttl, clock, links, handed, lasts>>
linkingVars == <<bucket, shared, sharing>>

Standing == {"admin", "owner", "lead", "source", "timing", "holder", "none"}
Versions == 1 .. kept.count
NotSharing == [at |-> "none", bucket |-> 0, code |-> ""]

ReadingTypeOK ==
  /\ standing \in [Reader -> Standing]
  /\ kept.count \in 1 .. MaxFileVersions /\ kept.current \in Versions \cup {0}
  /\ clock \in 0 .. MaxClock /\ Len(links) <= MaxLinks
  /\ \A l \in DOMAIN links : links[l].pinned \in Versions \cup {0} /\ links[l].by \in Reader
  /\ \A h \in handed : h.link \in DOMAIN links /\ h.asked \in Versions \cup {0}
  /\ \A s \in DOMAIN shared : shared[s].bucket \in DOMAIN bucket
  /\ \A r \in Sharer : sharing[r].bucket \in DOMAIN bucket \cup {0}

ReadingInit ==
  /\ standing \in [Reader -> {"source", "timing"}]
  /\ \E video, sensitive \in BOOLEAN :
       kept = [count |-> 1, current |-> 1, approved |-> 0, deleted |-> FALSE,
                 video |-> video, sensitive |-> sensitive]
  /\ ttl \in [{"project", "retention"} -> {Unset, Max(Ttls)}]
  /\ clock = 0 /\ links = <<>> /\ handed = {} /\ lasts = 0
  /\ bucket = <<>> /\ shared = <<>> /\ sharing = [r \in Sharer |-> NotSharing]

-----------------------------------------------------------------------------
(* Permissions.                                                            *)

\* assertProjectViewPermission without open claims: a task held is enough to list.
SeesList(u) == standing[u] # "none"
\* assertFileViewPermission: it is not enough to open.
SeesFile(u) == standing[u] \notin {"none", "holder"} \/ u = Uploaded
\* assertSensitiveFileAccess: the owner and the uploader are not among them.
SeesContent(u) == SeesFile(u) /\ (kept.sensitive => standing[u] \in {"admin", "source"})
MayDelete(u) == standing[u] \in {"admin", "owner", "lead"} \/ u = Uploaded

SetStanding(u, s) ==
  /\ standing[u] # s /\ standing' = [standing EXCEPT ![u] = s]
  /\ UNCHANGED <<kept, ttl, clock, links, handed, lasts>>

-----------------------------------------------------------------------------
(* Versions.                                                               *)

\* The current one, else the latest approved, else the latest, which is the newest.
ResolvedVersion(versions) ==
  IF kept.current \in versions THEN kept.current
  ELSE IF kept.approved \in versions THEN kept.approved
  ELSE Max(versions)

\* resolvePreviewVersion and getFileById look at all versions, a list at the newest.
PreviewVersion == ResolvedVersion(Versions)
ListedVersion == ResolvedVersion({v \in Versions : v + ListWindow > kept.count})

\* An upload: current while nothing is approved.
AddVersion ==
  /\ kept.count < MaxFileVersions /\ ~kept.deleted
  /\ kept' = [kept EXCEPT !.count = @ + 1,
                              !.current = IF kept.approved = 0 THEN kept.count + 1 ELSE @]
  /\ UNCHANGED <<standing, ttl, clock, links, handed, lasts>>

ApproveVersion(v) ==
  /\ v \in Versions /\ kept' = [kept EXCEPT !.approved = v, !.current = v]
  /\ UNCHANGED <<standing, ttl, clock, links, handed, lasts>>

-----------------------------------------------------------------------------
(* Download links.                                                         *)

\* resolveConfiguredDownloadTtl and getMinimumTtl; the cap of seven days is left out.
TtlFor(asked) ==
  Max({MinimumTtl, IF ttl["project"] # Unset THEN ttl["project"]
                   ELSE IF ttl["retention"] # Unset THEN ttl["retention"] ELSE asked})

\* How much time a link must have left to be given again: more than 30 seconds,
\* for a video more than 60.
ReuseThreshold == IF kept.video THEN 2 ELSE 1

OwnLinks(u) ==
  {l \in DOMAIN links : links[l].by = u /\ links[l].active /\ links[l].expires > clock + 1}
\* Mutant: links made for a version are looked at as well.
ReusableMutant(u) == OwnLinks(u)
Reusable(u) == {l \in OwnLinks(u) : links[l].pinned = 0}

Give(l, asked, expires) ==
  /\ handed' = handed \cup {[link |-> l, asked |-> asked]}
  /\ lasts' = expires - clock

NewLink(u, asked, t) ==
  /\ Len(links) < MaxLinks
  /\ links' = Append(links, [by |-> u, pinned |-> asked, expires |-> clock + TtlFor(t), active |-> TRUE])
  /\ Give(Len(links) + 1, asked, clock + TtlFor(t))

\* Of the links that may be given again only the newest is looked at.
Link(u, asked, t) ==
  LET again == {l \in Reusable(u) : l = Max(Reusable(u)) /\ links[l].expires > clock + ReuseThreshold}
  IN IF asked = 0 /\ again # {}
       THEN \E l \in again : Give(l, asked, links[l].expires) /\ UNCHANGED links
       ELSE NewLink(u, asked, t)

GetDownloadLink(u, asked, t) ==
  /\ ~kept.deleted /\ SeesContent(u)
  /\ asked \in Versions \/ (asked = 0 /\ kept.current # 0)
  /\ Link(u, asked, t)
  /\ UNCHANGED <<standing, kept, ttl, clock>>

\* A video is shown over a link of its own to the version shown; a text is read.
GetFilePreview(u, asked) ==
  /\ ~kept.deleted /\ SeesContent(u) /\ asked \in Versions \cup {0} /\ kept.video
  /\ \E t \in Ttls : Link(u, IF asked = 0 THEN PreviewVersion ELSE asked, t)
  /\ UNCHANGED <<standing, kept, ttl, clock>>

\* verifyDownloadToken and downloadByToken: what is sent to whoever follows the link.
Opens(l) == links[l].active /\ links[l].expires >= clock /\ ~kept.deleted
VersionSent(l) == IF links[l].pinned # 0 THEN links[l].pinned ELSE kept.current

DeleteKept(u) ==
  /\ ~kept.deleted /\ MayDelete(u)
  /\ kept' = [kept EXCEPT !.deleted = TRUE]
  /\ links' = [l \in DOMAIN links |-> [links[l] EXCEPT !.active = FALSE]]
  /\ UNCHANGED <<standing, ttl, clock, handed, lasts>>

Tick == /\ clock < MaxClock /\ clock' = clock + 1
        /\ UNCHANGED <<standing, kept, ttl, links, handed, lasts>>

ReadingNext ==
  \/ \E u \in Reader : \/ \E s \in Standing : SetStanding(u, s)
                       \/ \E asked \in 0 .. MaxFileVersions, t \in Ttls : GetDownloadLink(u, asked, t)
                       \/ \E asked \in 0 .. MaxFileVersions : GetFilePreview(u, asked)
                       \/ DeleteKept(u)
  \/ \E v \in Versions : ApproveVersion(v)
  \/ AddVersion \/ Tick

-----------------------------------------------------------------------------
(* Cloud-drive links of a task.                                            *)

\* findLinkFileBucket: the newest that is not deleted.
FindLinkFileBucket(r, code) ==
  LET live == {b \in DOMAIN bucket : ~bucket[b].deleted}
  IN /\ sharing[r].at = "none"
     /\ sharing' = [sharing EXCEPT ![r] = [at |-> "found", code |-> code,
                      bucket |-> IF live = {} THEN 0 ELSE Max(live)]]
     /\ UNCHANGED <<bucket, shared>>

\* The bucket found takes the new link's code, or a new one is made.
WriteBucket(r) ==
  /\ sharing[r].at = "found"
  /\ IF sharing[r].bucket # 0
       THEN /\ bucket' = [bucket EXCEPT ![sharing[r].bucket].code = sharing[r].code]
            /\ sharing' = [sharing EXCEPT ![r].at = "filed"]
       ELSE /\ bucket' = Append(bucket, [code |-> sharing[r].code, deleted |-> FALSE])
            /\ sharing' = [sharing EXCEPT ![r].at = "filed", ![r].bucket = Len(bucket) + 1]
  /\ UNCHANGED shared

RecordLink(r) ==
  /\ sharing[r].at = "filed" /\ sharing' = [sharing EXCEPT ![r].at = "done"]
  /\ shared' = Append(shared, [bucket |-> sharing[r].bucket, code |-> sharing[r].code])
  /\ UNCHANGED bucket

DeleteLinkAsset(k) ==
  /\ shared' = SubSeq(shared, 1, k - 1) \o SubSeq(shared, k + 1, Len(shared))
  /\ UNCHANGED <<bucket, sharing>>

DeleteBucket(b) ==
  /\ ~bucket[b].deleted /\ bucket' = [bucket EXCEPT ![b].deleted = TRUE]
  /\ UNCHANGED <<shared, sharing>>

\* A list shows the links of each bucket as one item, of deleted buckets too.
LinkItems ==
  {[bucket |-> shared[s].bucket,
    code |-> bucket[shared[s].bucket].code,
    history |-> {t \in DOMAIN shared : shared[t].bucket = shared[s].bucket}] : s \in DOMAIN shared}

LinkingNext ==
  \/ \E r \in Sharer : \/ \E code \in ExtractCode : FindLinkFileBucket(r, code)
                       \/ WriteBucket(r) \/ RecordLink(r)
  \/ \E k \in DOMAIN shared : DeleteLinkAsset(k)
  \/ \E b \in DOMAIN bucket : DeleteBucket(b)

-----------------------------------------------------------------------------
\* A link handed out leads, as long as it opens, to what was asked for: the version
\* named, or the one that is current when it is followed, also when the link had been
\* handed out before; and it works for more than 30 seconds, for a video more than a
\* minute.
LinksLeadWhereAsked ==
  /\ handed # {} => lasts > ReuseThreshold
  /\ \A h \in handed : Opens(h.link) =>
       VersionSent(h.link) = IF h.asked = 0 THEN kept.current ELSE h.asked

\* A list and the file itself name the same current version.
ListShowsCurrent == ListedVersion = PreviewVersion

\* A link is listed with the code it was added with.
CodesAreKept == \A i \in LinkItems : \A s \in i.history : i.code = shared[s].code

\* The links of a task are listed as one item.
OneBucketPerTask == Cardinality(LinkItems) <= 1
=============================================================================
