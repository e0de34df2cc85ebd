----------------------------- MODULE FileVersions -----------------------------
(***************************************************************************)
(* The files handed in for one task and one role: uploads that find the    *)
(* task's file or create one, replacements, approvals of a version,        *)
(* deletion, download links and downloads.  None of file.service.ts runs   *)
(* in a transaction except the deletion, so every await is a step.         *)
(*                                                                         *)
(* The flags is_current, is_latest and is_latest_approved of the           *)
(* FileVersion rows are the sets of version numbers that carry them.       *)
(* Permissions, names, quotas and the FileEntity's copy of the newest      *)
(* version's path are left out: no step below depends on them.             *)
(***************************************************************************)
EXTENDS Naturals, TLC

CONSTANTS
  File,        \* the ids a FileEntity of the task may get
  Request,     \* the requests; a link carries the name of the request that made it
  Kinds,       \* the operations asked for
  MaxVersion   \* the bound on the versions of a file

ASSUME FileAssumption == File # {} /\ MaxVersion \in Nat \ {0}

VARIABLES
  file,      \* the status of each FileEntity row
  newer,     \* <<f, g>>: by the date findTaskFileBucket sorts on, f is newer than g
  rows,      \* the version numbers of each file
  current,   \* those with is_current
  latest,    \* those with is_latest
  approved,  \* those with is_latest_approved
  link,      \* the DownloadLink rows
  pc,        \* where each request is
  on,        \* the file a request works on
  num,       \* the version it creates, approves or makes current
  source     \* the link a download came with, and whether its file was deleted by then

flags == <<rows, current, latest, approved>>
vars == <<file, newer, flags, link, pc, on, num, source>>

Numbers == 1 .. MaxVersion

TypeOK ==
  /\ file \in [File -> {"none", "live", "deleted"}]
  /\ newer \subseteq File \X File
  /\ rows \in [File -> SUBSET Numbers]
  /\ current \in [File -> SUBSET Numbers]
  /\ latest \in [File -> SUBSET Numbers]
  /\ approved \in [File -> SUBSET Numbers]
  /\ link \in [Request -> {"none", "active", "inactive", "expired"}]
  /\ pc \in [Request -> {"new", "createFile", "createFirst", "append", "clearLatest",
                         "createVersion", "clearApproved", "setApproved", "resolve",
                         "clearCurrent", "setCurrent", "delete", "createLink",
                         "checkFile", "count", "served", "done", "failed"}]
  /\ on \in [Request -> File]
  /\ num \in [Request -> Numbers]
  /\ source \in [Request -> [link : Request, deleted : BOOLEAN]]

Init ==
  /\ file = [f \in File |-> "none"]
  /\ newer = {}
  /\ rows = [f \in File |-> {}]
  /\ current = rows /\ latest = rows /\ approved = rows
  /\ link = [r \in Request |-> "none"]
  /\ pc = [r \in Request |-> "new"]
  /\ on = [r \in Request |-> CHOOSE f \in File : TRUE]
  /\ num = [r \in Request |-> 1]
  /\ source = [r \in Request |-> [link |-> r, deleted |-> FALSE]]

Exists(f) == file[f] # "none"
Newest(versions) == CHOOSE v \in versions : \A w \in versions : w <= v

Go(r, p) == pc' = [pc EXCEPT ![r] = p]
Starts(r, kind) == pc[r] = "new" /\ kind \in Kinds
Aim(r, f) == on' = [on EXCEPT ![r] = f]

\* A new row is the newest date of its file.
Touch(f) == newer' = (newer \ (File \X {f})) \cup ({f} \X (File \ {f}))

-----------------------------------------------------------------------------
(* uploadFile: the file of the task and role, or a new one                 *)

FindBucket(r) ==
  LET live == {f \in File : file[f] = "live"} IN
  /\ Starts(r, "upload")
  /\ \/ live = {} /\ Go(r, "createFile") /\ UNCHANGED on
     \/ \E f \in live :
          /\ {f} \X (live \ {f}) \subseteq newer
          /\ Aim(r, f)
          /\ Go(r, "append")
  /\ UNCHANGED <<file, newer, flags, link, num, source>>

CreateFile(r) ==
  /\ pc[r] = "createFile"
  /\ \E f \in File :
       /\ ~Exists(f)
       /\ file' = [file EXCEPT ![f] = "live"]
       /\ Aim(r, f)
       /\ Touch(f)
  /\ Go(r, "createFirst")
  /\ UNCHANGED <<flags, link, num, source>>

\* The row of version v: refused when there is one, current and latest otherwise.
CreateRow(r, f, v, next) ==
  \/ /\ v \in rows[f]
     /\ Go(r, "failed")
     /\ UNCHANGED <<newer, flags, num>>
  \/ /\ v \notin rows[f]
     /\ rows' = [rows EXCEPT ![f] = @ \cup {v}]
     /\ current' = [current EXCEPT ![f] = @ \cup {v}]
     /\ latest' = [latest EXCEPT ![f] = @ \cup {v}]
     /\ num' = [num EXCEPT ![r] = v]
     /\ Touch(f)
     /\ Go(r, next)
     /\ UNCHANGED approved

CreateFirst(r) ==
  /\ pc[r] = "createFirst"
  /\ CreateRow(r, on[r], 1, "done")
  /\ UNCHANGED <<file, link, on, source>>

-----------------------------------------------------------------------------
(* replaceFile and appendFileVersion                                       *)

ReplaceFile(r, f) ==
  /\ Starts(r, "replace")
  /\ file[f] = "live"
  /\ Aim(r, f)
  /\ Go(r, "append")
  /\ UNCHANGED <<file, newer, flags, link, num, source>>

\* MaxVersion bounds the versions here and nowhere else.
ReadLatest(r) ==
  LET f == on[r]
      next == IF rows[f] = {} THEN 1 ELSE Newest(rows[f]) + 1 IN
  /\ pc[r] = "append"
  /\ \/ file[f] = "deleted" /\ Go(r, "failed") /\ UNCHANGED num
     \/ /\ file[f] = "live"
        /\ next \in Numbers
        /\ num' = [num EXCEPT ![r] = next]
        /\ Go(r, "clearLatest")
  /\ UNCHANGED <<file, newer, flags, link, on, source>>

ClearLatest(r) ==
  /\ pc[r] = "clearLatest"
  /\ latest' = [latest EXCEPT ![on[r]] = {}]
  /\ Go(r, "createVersion")
  /\ UNCHANGED <<file, newer, rows, current, approved, link, on, num, source>>

CreateVersion(r) ==
  /\ pc[r] = "createVersion"
  /\ CreateRow(r, on[r], num[r], "resolve")
  /\ UNCHANGED <<file, link, on, source>>

-----------------------------------------------------------------------------
(* approveVersion                                                          *)

ReadToApprove(r, f, v) ==
  /\ Starts(r, "approve")
  /\ v \in rows[f]
  /\ Aim(r, f)
  /\ num' = [num EXCEPT ![r] = v]
  /\ Go(r, "clearApproved")
  /\ UNCHANGED <<file, newer, flags, link, source>>

ClearApproved(r) ==
  /\ pc[r] = "clearApproved"
  /\ approved' = [approved EXCEPT ![on[r]] = {}]
  /\ Go(r, "setApproved")
  /\ UNCHANGED <<file, newer, rows, current, latest, link, on, num, source>>

SetApproved(r) ==
  /\ pc[r] = "setApproved"
  /\ approved' = [approved EXCEPT ![on[r]] = @ \cup {num[r]}]
  /\ Go(r, "resolve")
  /\ UNCHANGED <<file, newer, rows, current, latest, link, on, num, source>>

-----------------------------------------------------------------------------
(* resolveCurrentVersion                                                   *)

\* The versions to choose from: the approved ones, else the latest ones.
Candidates(f) == IF approved[f] # {} THEN approved[f] ELSE latest[f]

\* Mutant: the flag is cleared before the version to choose is known.
ResolveMutant(r) ==
  /\ pc[r] = "resolve"
  /\ \/ /\ Candidates(on[r]) = {}
        /\ current' = [current EXCEPT ![on[r]] = {}]
        /\ Go(r, "done")
        /\ UNCHANGED num
     \/ /\ Candidates(on[r]) # {}
        /\ num' = [num EXCEPT ![r] = Newest(Candidates(on[r]))]
        /\ Go(r, "clearCurrent")
        /\ UNCHANGED current
  /\ UNCHANGED <<file, newer, rows, latest, approved, link, on, source>>
\* Without a candidate, which a failed upload can leave behind, nothing is written.
Resolve(r) ==
  /\ pc[r] = "resolve"
  /\ \/ Candidates(on[r]) = {} /\ Go(r, "done") /\ UNCHANGED num
     \/ /\ Candidates(on[r]) # {}
        /\ num' = [num EXCEPT ![r] = Newest(Candidates(on[r]))]
        /\ Go(r, "clearCurrent")
  /\ UNCHANGED <<file, newer, flags, link, on, source>>

ClearCurrent(r) ==
  /\ pc[r] = "clearCurrent"
  /\ current' = [current EXCEPT ![on[r]] = {}]
  /\ Go(r, "setCurrent")
  /\ UNCHANGED <<file, newer, rows, latest, approved, link, on, num, source>>

SetCurrent(r) ==
  /\ pc[r] = "setCurrent"
  /\ current' = [current EXCEPT ![on[r]] = @ \cup {num[r]}]
  /\ Go(r, "done")
  /\ UNCHANGED <<file, newer, rows, latest, approved, link, on, num, source>>
-----------------------------------------------------------------------------
(* deleteFile, getDownloadLink and verifyDownloadToken                     *)

ReadToDelete(r, f) ==
  /\ Starts(r, "delete")
  /\ file[f] = "live"
  /\ Aim(r, f)
  /\ Go(r, "delete")
  /\ UNCHANGED <<file, newer, flags, link, num, source>>

\* The one transaction: the links that exist now go with the file.
DeleteFile(r) ==
  /\ pc[r] = "delete"
  /\ file' = [file EXCEPT ![on[r]] = "deleted"]
  /\ link' = [l \in Request |->
       IF link[l] = "active" /\ on[l] = on[r] THEN "inactive" ELSE link[l]]
  /\ Go(r, "done")
  /\ UNCHANGED <<newer, flags, on, num, source>>

\* A link to the current version or to one asked for by id; the user's own
\* link to the current one is used again while it is valid (whose a link is and
\* what version it names are left open, so any active one may be).
LinkOutcomes(f) ==
  IF file[f] = "deleted" THEN {"failed"}
  ELSE {p \in {"createLink", "failed", "done"} :
          CASE p = "createLink" -> rows[f] # {}
            [] p = "failed" -> current[f] = {}
            [] p = "done" ->
               current[f] # {} /\ \E l \in Request : link[l] = "active" /\ on[l] = f}

ReadForLink(r, f) ==
  /\ Starts(r, "link")
  /\ Exists(f)
  /\ Aim(r, f)
  /\ \E p \in LinkOutcomes(f) : Go(r, p)
  /\ UNCHANGED <<file, newer, flags, link, num, source>>

\* The file may have been deleted since it was read.
CreateLink(r) ==
  /\ pc[r] = "createLink"
  /\ link' = [link EXCEPT ![r] = "active"]
  /\ Go(r, "done")
  /\ UNCHANGED <<file, newer, flags, on, num, source>>

\* Time passes for a link, and the clean-up job deletes its row.
Expire(l) ==
  /\ link[l] = "active"
  /\ link' = [link EXCEPT ![l] = "expired"]
  /\ UNCHANGED <<file, newer, flags, pc, on, num, source>>

ReadLink(r, l) ==
  /\ Starts(r, "download")
  /\ link[l] # "none"
  /\ source' = [source EXCEPT ![r] = [link |-> l, deleted |-> file[on[l]] = "deleted"]]
  /\ Go(r, IF link[l] = "active" THEN "checkFile" ELSE "failed")
  /\ UNCHANGED <<file, newer, flags, link, on, num>>

\* Mutant: an active link is trusted to lead to a live file.
CheckFileMutant(r) ==
  /\ pc[r] = "checkFile"
  /\ Go(r, "count")
  /\ UNCHANGED <<file, newer, flags, link, on, num, source>>
CheckFile(r) ==
  /\ pc[r] = "checkFile"
  /\ Go(r, IF file[on[source[r].link]] = "deleted" THEN "failed" ELSE "count")
  /\ UNCHANGED <<file, newer, flags, link, on, num, source>>

\* Counting the download fails when the clean-up has deleted the row.
Count(r) ==
  /\ pc[r] = "count"
  /\ \/ Go(r, "served")
     \/ link[source[r].link] = "expired" /\ Go(r, "failed")
  /\ UNCHANGED <<file, newer, flags, link, on, num, source>>

-----------------------------------------------------------------------------
Next == \E r \in Request :
  \/ FindBucket(r) \/ CreateFile(r) \/ CreateFirst(r)
  \/ \E f \in File : ReplaceFile(r, f)
  \/ ReadLatest(r) \/ ClearLatest(r) \/ CreateVersion(r)
  \/ \E f \in File, v \in Numbers : ReadToApprove(r, f, v)
  \/ ClearApproved(r) \/ SetApproved(r)
  \/ Resolve(r) \/ ClearCurrent(r) \/ SetCurrent(r)
  \/ \E f \in File : ReadToDelete(r, f) \/ ReadForLink(r, f)
  \/ DeleteFile(r) \/ CreateLink(r) \/ Expire(r)
  \/ \E l \in Request : ReadLink(r, l)
  \/ CheckFile(r) \/ Count(r)

Spec == Init /\ [][Next]_vars

\* Requests differ in nothing but their names, and so do the ids of files.
Symmetry == Permutations(Request) \cup Permutations(File)

-----------------------------------------------------------------------------
(* Properties                                                              *)

\* A file with versions has a current one, whatever uploads and approvals
\* overlap, except while a request is between taking the flag away and giving it
\* back: resolveCurrentVersion clears only when it knows a version to choose,
\* and an upload refused for its number has cleared is_latest for nothing.
SomeVersionIsCurrent ==
  \A f \in File :
    rows[f] # {} => \/ current[f] # {}
                    \/ \E r \in Request : pc[r] = "setCurrent" /\ on[r] = f

\* Only the newest version is marked latest, however uploads overlap and fail:
\* a version is created under the number after the one its upload read, the mark
\* is cleared between the two, and the number is refused when it has been taken.
OnlyNewestIsLatest ==
  \A f \in File : latest[f] # {} => latest[f] = {Newest(rows[f])}

\* A download that starts after the file was deleted is refused, also over a
\* link that a request under way created after the deletion had gone through
\* the links: verifyDownloadToken looks at the file again.
DeletedIsGone == \A r \in Request : pc[r] = "served" => ~source[r].deleted

\* With no request under way the current version is the newest approved one, or
\* the newest one while none is approved, as resolveCurrentVersion has it.
CurrentIsResolved ==
  (\A r \in Request : pc[r] \in {"new", "served", "done", "failed"}) =>
    \A f \in File : Candidates(f) # {} => current[f] = {Newest(Candidates(f))}
=============================================================================
