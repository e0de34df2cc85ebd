----------------------------- MODULE FilesProofs ------------------------------
(***************************************************************************)
(* Theorems about files: the versions of a task's files, for any number of *)
(* files and requests; the links and the page that lead to them; the parts *)
(* of an upload, for any number of parts and workers; and the storage      *)
(* backends, for any number of backends and uploads.                       *)
(***************************************************************************)
EXTENDS FileVersions, FilesPage, StorageBackends, BrowserUpload, WellFoundedInduction,
  FiniteSetTheorems, TLAPS

-----------------------------------------------------------------------------
(* The versions of the files of a task                                     *)

\* Some version of a set that is not empty is the newest.
LEMMA NewestIsNewest ==
  ASSUME NEW S \in SUBSET Numbers, S # {}
  PROVE  Newest(S) \in S /\ \A w \in S : w <= Newest(S)
<1> DEFINE Back(v) == MaxVersion - v
           T == {Back(v) : v \in S}
<1>1. T \subseteq Nat /\ T # {}
  <2>1. \A v \in S : Back(v) \in Nat
    BY FileAssumption DEF Numbers
  <2> QED
    BY <2>1
<1>2. PICK x \in T : \A y \in T : ~ (<<y, x>> \in OpToRel(<, Nat))
  BY <1>1, NatLessThanWellFounded, WFMin
<1>3. PICK v \in S : x = Back(v)
  OBVIOUS
<1>4. \A w \in S : ~(Back(w) < Back(v))
  BY <1>1, <1>2, <1>3 DEF OpToRel
<1>5. \A w \in S : w <= v
  <2> SUFFICES ASSUME NEW w \in S PROVE w <= v
    OBVIOUS
  <2>1. PICK top \in Nat : top = MaxVersion
    BY FileAssumption
  <2>2. v \in 1 .. top /\ w \in 1 .. top /\ ~(top - w < top - v)
    BY <1>4, <2>1 DEF Numbers
  <2> QED
    BY <2>1, <2>2
<1> QED
  BY <1>5 DEF Newest

LEMMA InitType == Init => TypeOK
<1> SUFFICES ASSUME Init PROVE TypeOK
  OBVIOUS
<1>1. (CHOOSE f \in File : TRUE) \in File
  BY FileAssumption
<1>2. 1 \in Numbers
  BY FileAssumption DEF Numbers
<1>3. rows \in [File -> SUBSET Numbers] /\ \A f \in File : rows[f] = {}
  BY DEF Init
<1>4. source \in [Request -> [link : Request, deleted : BOOLEAN]]
  BY DEF Init
<1> QED
  BY <1>1, <1>2, <1>3, <1>4 DEF Init, TypeOK

\* Type correctness: whatever the requests do, the rows keep their columns'
\* types.
THEOREM TypeCorrect == Spec => []TypeOK
<1>1. TypeOK /\ [Next]_vars => TypeOK'
  <2> SUFFICES ASSUME TypeOK, [Next]_vars PROVE TypeOK'
    OBVIOUS
  <2> USE DEF TypeOK, Go, Aim, Starts, flags
  <2>1. ASSUME NEW r \in Request, FindBucket(r) PROVE TypeOK'
    BY <2>1 DEF FindBucket
  <2>2. ASSUME NEW r \in Request, CreateFile(r) PROVE TypeOK'
    BY <2>2 DEF CreateFile, Touch
  <2>row. ASSUME NEW r \in Request, NEW v \in Numbers, NEW next, CreateRow(r, on[r], v, next),
                next \in {"done", "resolve"}, UNCHANGED <<file, link, on, source>>
         PROVE  TypeOK'
    <3>1. on[r] \in File
      OBVIOUS
    <3>2. CASE UNCHANGED <<newer, flags, num>> /\ Go(r, "failed")
      BY <2>row, <3>2
    <3>3. CASE v \notin rows[on[r]] /\ Go(r, next) /\ Touch(on[r])
      <4>1. newer' \subseteq File \X File
        BY <3>1, <3>3 DEF Touch
      <4>2. /\ rows' \in [File -> SUBSET Numbers]
            /\ current' \in [File -> SUBSET Numbers]
            /\ latest' \in [File -> SUBSET Numbers]
            /\ num' \in [Request -> Numbers]
            /\ UNCHANGED approved
        BY <2>row, <3>1, <3>3, SMTT(20) DEF CreateRow
      <4>3. pc' \in [Request -> {"new", "createFile", "createFirst", "append", "clearLatest",
                         "createVersion", "clearApproved", "setApproved", "resolve",
                         "clearCurrent", "setCurrent", "delete", "createLink",
                         "checkFile", "count", "served", "done", "failed"}]
        BY <2>row, <3>3
      <4> QED
        BY <2>row, <4>1, <4>2, <4>3
    <3> QED
      BY <2>row, <3>2, <3>3 DEF CreateRow
  <2>3. ASSUME NEW r \in Request, CreateFirst(r) PROVE TypeOK'
    <3>1. 1 \in Numbers
      BY FileAssumption DEF Numbers
    <3> QED
      BY <2>3, <2>row, <3>1 DEF CreateFirst
  <2>4. ASSUME NEW r \in Request, CreateVersion(r) PROVE TypeOK'
    <3>1. num[r] \in Numbers
      OBVIOUS
    <3> QED
      BY <2>4, <2>row, <3>1 DEF CreateVersion
  <2>5. ASSUME NEW r \in Request, NEW f \in File, ReplaceFile(r, f) \/ ReadToDelete(r, f)
        PROVE  TypeOK'
    BY <2>5 DEF ReplaceFile, ReadToDelete
  <2>15. ASSUME NEW r \in Request, NEW f \in File, ReadForLink(r, f) PROVE TypeOK'
    <3>1. LinkOutcomes(f) \subseteq {"createLink", "failed", "done"}
      BY DEF LinkOutcomes
    <3> QED
      BY <2>15, <3>1 DEF ReadForLink
  <2>6. ASSUME NEW r \in Request, ReadLatest(r) \/ ClearLatest(r) PROVE TypeOK'
    BY <2>6, SMTT(20) DEF ReadLatest, ClearLatest
  <2>7. ASSUME NEW r \in Request, NEW f \in File, NEW v \in Numbers, ReadToApprove(r, f, v)
        PROVE  TypeOK'
    BY <2>7 DEF ReadToApprove
  <2>8. ASSUME NEW r \in Request, ClearApproved(r) \/ ClearCurrent(r) PROVE TypeOK'
    BY <2>8 DEF ClearApproved, ClearCurrent
  <2>9. ASSUME NEW r \in Request, Resolve(r) PROVE TypeOK'
    <3>1. Candidates(on[r]) \in SUBSET Numbers
      BY DEF Candidates
    <3> QED
      BY <2>9, <3>1, NewestIsNewest DEF Resolve
  <2>10. ASSUME NEW r \in Request, CreateLink(r) \/ Expire(r) PROVE TypeOK'
    BY <2>10 DEF CreateLink, Expire
  <2>16. ASSUME NEW r \in Request, DeleteFile(r) PROVE TypeOK'
    <3>1. link' \in [Request -> {"none", "active", "inactive", "expired"}]
      BY <2>16 DEF DeleteFile
    <3>2. file' \in [File -> {"none", "live", "deleted"}]
      BY <2>16 DEF DeleteFile
    <3> QED
      BY <2>16, <3>1, <3>2 DEF DeleteFile
  <2>11. ASSUME NEW r \in Request, NEW l \in Request, ReadLink(r, l) PROVE TypeOK'
    BY <2>11 DEF ReadLink
  <2>12. ASSUME NEW r \in Request, CheckFile(r) \/ Count(r) PROVE TypeOK'
    BY <2>12 DEF CheckFile, Count
  <2>13. ASSUME NEW r \in Request, SetApproved(r) \/ SetCurrent(r) PROVE TypeOK'
    BY <2>13, SMTT(20) DEF SetApproved, SetCurrent
  <2>14. CASE UNCHANGED vars
    BY <2>14 DEF vars
  <2> QED
    BY <2>1, <2>2, <2>3, <2>4, <2>5, <2>6, <2>7, <2>8, <2>9, <2>10, <2>11, <2>12,
       <2>13, <2>14, <2>15, <2>16 DEF Next
<1> QED
  BY InitType, <1>1, PTL DEF Spec
-----------------------------------------------------------------------------
(* A file with versions has a current one                                  *)

\* While a request has the flag of a file in its hands, it gives it back: the
\* property is inductive given the types.
THEOREM FilesStayServable == Spec => []SomeVersionIsCurrent
<1>1. Init => SomeVersionIsCurrent
  BY DEF Init, SomeVersionIsCurrent
<1>2. TypeOK /\ SomeVersionIsCurrent /\ [Next]_vars => SomeVersionIsCurrent'
  <2> SUFFICES ASSUME TypeOK, SomeVersionIsCurrent, [Next]_vars
               PROVE  SomeVersionIsCurrent'
    OBVIOUS
  <2> USE DEF TypeOK, Go, Aim, Starts, flags, SomeVersionIsCurrent
  <2>1. ASSUME NEW r \in Request, pc[r] # "setCurrent", UNCHANGED <<rows, current>>,
               \A q \in Request \ {r} : pc'[q] = pc[q] /\ on'[q] = on[q]
        PROVE  SomeVersionIsCurrent'
    BY <2>1
  <2>2. ASSUME NEW r \in Request, NEW v, NEW next, CreateRow(r, on[r], v, next),
               pc[r] # "setCurrent", UNCHANGED on
        PROVE  SomeVersionIsCurrent'
    <3>1. CASE UNCHANGED <<newer, flags, num>> /\ Go(r, "failed")
      BY <2>1, <2>2, <3>1
    <3>2. CASE v \notin rows[on[r]] /\ Go(r, next)
      <4>1. current'[on[r]] # {}
        <5>1. current' = [current EXCEPT ![on[r]] = current[on[r]] \cup {v}]
          BY <2>2, <3>2 DEF CreateRow
        <5>2. current'[on[r]] = current[on[r]] \cup {v}
          BY <5>1
        <5> QED
          BY <5>2
      <4>2. \A f \in File \ {on[r]} : rows'[f] = rows[f] /\ current'[f] = current[f]
        BY <2>2, <3>2 DEF CreateRow
      <4>3. \A q \in Request \ {r} : pc'[q] = pc[q] /\ on'[q] = on[q]
        BY <2>2, <3>2
      <4>4. ASSUME NEW f \in File, rows'[f] # {}, current'[f] = {}
            PROVE  \E q \in Request : pc'[q] = "setCurrent" /\ on'[q] = f
        <5>1. rows[f] # {} /\ current[f] = {}
          BY <4>1, <4>2, <4>4
        <5>2. PICK q \in Request : pc[q] = "setCurrent" /\ on[q] = f
          BY <5>1
        <5> QED
          BY <2>2, <4>3, <5>2
      <4> QED
        BY <4>4
    <3> QED
      BY <2>2, <3>1, <3>2 DEF CreateRow
  <2>3. ASSUME NEW r \in Request, CreateFirst(r) \/ CreateVersion(r)
        PROVE  SomeVersionIsCurrent'
    BY <2>2, <2>3 DEF CreateFirst, CreateVersion
  <2>4. ASSUME NEW r \in Request, ClearCurrent(r) PROVE SomeVersionIsCurrent'
    <3>1. pc'[r] = "setCurrent" /\ on' = on /\ rows' = rows
      BY <2>4 DEF ClearCurrent
    <3>2. \A f \in File \ {on[r]} : current'[f] = current[f]
      BY <2>4 DEF ClearCurrent
    <3>3. \A q \in Request \ {r} : pc'[q] = pc[q]
      BY <2>4 DEF ClearCurrent
    <3> QED
      BY <2>4, <3>1, <3>2, <3>3 DEF ClearCurrent
  <2>5. ASSUME NEW r \in Request, SetCurrent(r) PROVE SomeVersionIsCurrent'
    <3>1. current'[on[r]] # {} /\ on' = on /\ rows' = rows
      <4>1. current'[on[r]] = current[on[r]] \cup {num[r]}
        BY <2>5 DEF SetCurrent
      <4> QED
        BY <2>5, <4>1 DEF SetCurrent
    <3>2. \A f \in File \ {on[r]} : current'[f] = current[f]
      BY <2>5 DEF SetCurrent
    <3>3. \A q \in Request \ {r} : pc'[q] = pc[q]
      BY <2>5 DEF SetCurrent
    <3>4. ASSUME NEW f \in File, rows'[f] # {}, current'[f] = {}
          PROVE  \E q \in Request : pc'[q] = "setCurrent" /\ on'[q] = f
      <4>1. f # on[r] /\ rows[f] # {} /\ current[f] = {}
        BY <3>1, <3>2, <3>4
      <4>2. PICK q \in Request : pc[q] = "setCurrent" /\ on[q] = f
        BY <4>1
      <4> QED
        BY <3>1, <3>3, <4>1, <4>2
    <3> QED
      BY <3>4
  <2>6. ASSUME NEW r \in Request, FindBucket(r) \/ CreateFile(r) PROVE SomeVersionIsCurrent'
    <3>1. pc[r] # "setCurrent" /\ UNCHANGED <<rows, current>>
      BY <2>6 DEF FindBucket, CreateFile
    <3>2. (\E p : pc' = [pc EXCEPT ![r] = p])
          /\ (UNCHANGED on \/ \E f \in File : on' = [on EXCEPT ![r] = f])
      <4>1. CASE FindBucket(r)
        BY <4>1 DEF FindBucket
      <4>2. CASE CreateFile(r)
        BY <4>2 DEF CreateFile
      <4> QED
        BY <2>6, <4>1, <4>2
    <3>3. \A q \in Request \ {r} : pc'[q] = pc[q] /\ on'[q] = on[q]
      BY <3>2
    <3> QED
      BY <2>1, <3>1, <3>3
  <2>7. ASSUME NEW r \in Request, NEW f \in File,
               ReplaceFile(r, f) \/ ReadToDelete(r, f) \/ ReadForLink(r, f)
        PROVE  SomeVersionIsCurrent'
    <3>1. /\ pc[r] = "new" /\ UNCHANGED <<rows, current>>
          /\ \E p : pc' = [pc EXCEPT ![r] = p]
          /\ on' = [on EXCEPT ![r] = f]
      BY <2>7 DEF ReplaceFile, ReadToDelete, ReadForLink
    <3>2. \A q \in Request \ {r} : pc'[q] = pc[q] /\ on'[q] = on[q]
      BY <3>1
    <3> QED
      BY <2>1, <3>1, <3>2
  <2>8. ASSUME NEW r \in Request, ReadLatest(r) \/ ClearLatest(r) \/ Resolve(r)
        PROVE  SomeVersionIsCurrent'
    BY <2>1, <2>8 DEF ReadLatest, ClearLatest, Resolve
  <2>9. ASSUME NEW r \in Request, NEW f \in File, NEW v \in Numbers, ReadToApprove(r, f, v)
        PROVE  SomeVersionIsCurrent'
    BY <2>1, <2>9 DEF ReadToApprove
  <2>10. ASSUME NEW r \in Request, ClearApproved(r) \/ SetApproved(r) PROVE SomeVersionIsCurrent'
    BY <2>1, <2>10 DEF ClearApproved, SetApproved
  <2>11. ASSUME NEW r \in Request, DeleteFile(r) \/ CreateLink(r) PROVE SomeVersionIsCurrent'
    BY <2>1, <2>11 DEF DeleteFile, CreateLink
  <2>12. ASSUME NEW r \in Request, NEW l \in Request, ReadLink(r, l) PROVE SomeVersionIsCurrent'
    BY <2>1, <2>12 DEF ReadLink
  <2>13. ASSUME NEW r \in Request, CheckFile(r) \/ Count(r) PROVE SomeVersionIsCurrent'
    <3>1. /\ pc[r] # "setCurrent" /\ UNCHANGED <<rows, current, on>>
          /\ \E p : pc' = [pc EXCEPT ![r] = p]
      BY <2>13 DEF CheckFile, Count
    <3>2. \A q \in Request \ {r} : pc'[q] = pc[q] /\ on'[q] = on[q]
      BY <3>1
    <3> QED
      BY <2>1, <3>1, <3>2
  <2>14. ASSUME UNCHANGED <<rows, current, pc, on>> PROVE SomeVersionIsCurrent'
    BY <2>14
  <2>15. ASSUME NEW r \in Request, Expire(r) PROVE SomeVersionIsCurrent'
    BY <2>14, <2>15 DEF Expire
  <2>16. CASE UNCHANGED vars
    BY <2>14, <2>16 DEF vars
  <2> QED
    BY <2>3, <2>4, <2>5, <2>6, <2>7, <2>8, <2>9, <2>10, <2>11, <2>12, <2>13,
       <2>15, <2>16 DEF Next
<1> QED
  BY <1>1, <1>2, TypeCorrect, PTL DEF Spec

-----------------------------------------------------------------------------
(* Deleted files are gone                                                  *)

\* A link's maker is finished, so the file of the link stays the same; a download
\* that came after the deletion gets no further than looking at the file.
LinksKeepTheirFile == \A l \in Request : link[l] # "none" => pc[l] = "done"
LateDownloadsWait ==
  \A r \in Request :
    pc[r] \in {"checkFile", "count", "served"} =>
      /\ link[source[r].link] # "none"
      /\ source[r].deleted => file[on[source[r].link]] = "deleted" /\ pc[r] = "checkFile"
DeletionInv == LinksKeepTheirFile /\ LateDownloadsWait

\* Downloads begun after the deletion of their file fail, for any number of
\* files, links and requests.
THEOREM DeletedStaysGone == Spec => []DeletedIsGone
<1>1. Init => DeletionInv
  BY DEF Init, DeletionInv, LinksKeepTheirFile, LateDownloadsWait
<1>2. TypeOK /\ DeletionInv /\ [Next]_vars => DeletionInv'
  <2> SUFFICES ASSUME TypeOK, DeletionInv, [Next]_vars PROVE DeletionInv'
    OBVIOUS
  <2> USE DEF TypeOK, Go, Aim, Starts, flags, DeletionInv, LinksKeepTheirFile, LateDownloadsWait
  <2>1. ASSUME NEW r \in Request,
               pc[r] \notin {"checkFile", "count", "served", "done"},
               pc'[r] \notin {"checkFile", "count", "served"},
               UNCHANGED <<link, source>>,
               \A q \in Request \ {r} : pc'[q] = pc[q] /\ on'[q] = on[q],
               \A f \in File : file[f] = "deleted" => file'[f] = "deleted"
        PROVE  DeletionInv'
    BY <2>1
  <2>2. ASSUME NEW r \in Request, FindBucket(r) PROVE DeletionInv'
    BY <2>1, <2>2 DEF FindBucket
  <2>3. ASSUME NEW r \in Request, CreateFile(r) PROVE DeletionInv'
    <3>1. \A f \in File : file[f] = "deleted" => file'[f] = "deleted"
      BY <2>3 DEF CreateFile, Exists
    <3>2. \A q \in Request \ {r} : pc'[q] = pc[q] /\ on'[q] = on[q]
      BY <2>3 DEF CreateFile
    <3> QED
      BY <2>1, <2>3, <3>1, <3>2 DEF CreateFile
  <2>4. ASSUME NEW r \in Request, CreateFirst(r) \/ CreateVersion(r) PROVE DeletionInv'
    BY <2>1, <2>4 DEF CreateFirst, CreateVersion, CreateRow
  <2>5. ASSUME NEW r \in Request, NEW f \in File,
               ReplaceFile(r, f) \/ ReadToDelete(r, f)
        PROVE  DeletionInv'
    BY <2>1, <2>5 DEF ReplaceFile, ReadToDelete
  <2>6. ASSUME NEW r \in Request, NEW f \in File, ReadForLink(r, f) PROVE DeletionInv'
    <3>1. LinkOutcomes(f) \subseteq {"createLink", "failed", "done"}
      BY DEF LinkOutcomes
    <3> QED
      BY <2>1, <2>6, <3>1 DEF ReadForLink
  <2>7. ASSUME NEW r \in Request,
               ReadLatest(r) \/ ClearLatest(r) \/ Resolve(r) \/ ClearCurrent(r) \/ SetCurrent(r)
        PROVE  DeletionInv'
    BY <2>1, <2>7 DEF ReadLatest, ClearLatest, Resolve, ClearCurrent, SetCurrent
  <2>8. ASSUME NEW r \in Request, NEW f \in File, NEW v \in Numbers, ReadToApprove(r, f, v)
        PROVE  DeletionInv'
    BY <2>1, <2>8 DEF ReadToApprove
  <2>9. ASSUME NEW r \in Request, ClearApproved(r) \/ SetApproved(r) PROVE DeletionInv'
    BY <2>1, <2>9 DEF ClearApproved, SetApproved
  <2>10. ASSUME NEW r \in Request, DeleteFile(r) PROVE DeletionInv'
    <3>1. \A f \in File : file[f] = "deleted" => file'[f] = "deleted"
      BY <2>10 DEF DeleteFile
    <3>2. \A l \in Request : link'[l] # "none" <=> link[l] # "none"
      BY <2>10 DEF DeleteFile
    <3>3. \A q \in Request : IF q = r THEN pc'[q] = "done" ELSE pc'[q] = pc[q]
      BY <2>10 DEF DeleteFile
    <3> QED
      BY <2>10, <3>1, <3>2, <3>3 DEF DeleteFile
  <2>11. ASSUME NEW r \in Request, CreateLink(r) PROVE DeletionInv'
    BY <2>11 DEF CreateLink
  <2>12. ASSUME NEW r \in Request, Expire(r) PROVE DeletionInv'
    BY <2>12 DEF Expire
  <2>13. ASSUME NEW r \in Request, NEW l \in Request, ReadLink(r, l) PROVE DeletionInv'
    <3>1. /\ source' = [source EXCEPT ![r] = [link |-> l, deleted |-> file[on[l]] = "deleted"]]
          /\ pc[r] = "new" /\ pc'[r] \in {"checkFile", "failed"}
          /\ link[l] # "none"
          /\ UNCHANGED <<file, link, on>>
      BY <2>13 DEF ReadLink
    <3>2. \A q \in Request \ {r} : pc'[q] = pc[q] /\ source'[q] = source[q]
      BY <2>13, <3>1 DEF ReadLink
    <3>3. source'[r].link = l /\ (source'[r].deleted => file[on[l]] = "deleted")
      BY <3>1, ZenonT(40)
    <3>4. LinksKeepTheirFile'
      BY <3>1, <3>2
    <3>5. LateDownloadsWait'
      BY <3>1, <3>2, <3>3
    <3> QED
      BY <3>4, <3>5
  <2>14. ASSUME NEW r \in Request, CheckFile(r) \/ Count(r) PROVE DeletionInv'
    BY <2>14 DEF CheckFile, Count
  <2>15. CASE UNCHANGED vars
    BY <2>15 DEF vars
  <2> QED
    BY <2>2, <2>3, <2>4, <2>5, <2>6, <2>7, <2>8, <2>9, <2>10, <2>11, <2>12, <2>13,
       <2>14, <2>15 DEF Next
<1>3. DeletionInv => DeletedIsGone
  BY DEF DeletionInv, LateDownloadsWait, DeletedIsGone
<1> QED
  BY <1>1, <1>2, <1>3, TypeCorrect, PTL DEF Spec
-----------------------------------------------------------------------------
(* Only the newest version is marked latest                                *)

\* The versions of a file are numbered without gaps; an upload has seen every
\* number below its own; once it has cleared the marks, and while its own number
\* is free, nobody else can have marked a version.
Numbered == \A f \in File : \E n \in Nat : rows[f] = 1 .. n
MarksExist == \A f \in File : latest[f] \subseteq rows[f]
SeenBelow ==
  \A r \in Request :
    pc[r] \in {"clearLatest", "createVersion"} => 1 .. (num[r] - 1) \subseteq rows[on[r]]
ClearedWhileFree ==
  \A r \in Request :
    pc[r] = "createVersion" => num[r] \in rows[on[r]] \/ latest[on[r]] = {}
MarksAreNewest == \A f \in File : \A v \in latest[f], w \in rows[f] : w <= v
LatestInv ==
  Numbered /\ MarksExist /\ SeenBelow /\ ClearedWhileFree /\ MarksAreNewest

LEMMA NewestOfRange ==
  ASSUME NEW n \in Nat, n > 0
  PROVE  Newest(1 .. n) = n
<1>1. n \in 1 .. n /\ \A w \in 1 .. n : w <= n
  OBVIOUS
<1> QED
  BY <1>1 DEF Newest

\* A step that writes no version and no mark keeps the invariant when its request
\* is not between reading and creating.
LEMMA OtherStep ==
  ASSUME TypeOK, LatestInv, UNCHANGED <<rows, latest>>, NEW r \in Request,
         \A q \in Request \ {r} : pc'[q] = pc[q] /\ on'[q] = on[q] /\ num'[q] = num[q],
         pc'[r] \notin {"clearLatest", "createVersion"}
  PROVE  LatestInv'
<1>1. Numbered'
  BY DEF LatestInv, Numbered
<1>2. MarksExist' /\ MarksAreNewest'
  BY DEF LatestInv, MarksExist, MarksAreNewest
<1>3. ASSUME NEW q \in Request, pc'[q] \in {"clearLatest", "createVersion"}
      PROVE  q # r /\ pc'[q] = pc[q] /\ on'[q] = on[q] /\ num'[q] = num[q]
  BY <1>3
<1>4. SeenBelow'
  BY <1>3 DEF LatestInv, SeenBelow
<1>5. ClearedWhileFree'
  BY <1>3 DEF LatestInv, ClearedWhileFree
<1> QED
  BY <1>1, <1>2, <1>4, <1>5 DEF LatestInv

\* Creating the number after those read, when nothing is marked.
LEMMA NewRow ==
  ASSUME TypeOK, LatestInv, NEW r \in Request, NEW v \in Numbers, NEW next,
         next \in {"done", "resolve"},
         CreateRow(r, on[r], v, next), UNCHANGED on,
         1 .. (v - 1) \subseteq rows[on[r]],
         v \in rows[on[r]] \/ latest[on[r]] = {}
  PROVE  LatestInv'
<1> USE DEF TypeOK, Numbers
<1> DEFINE f == on[r]
<1>1. CASE UNCHANGED <<newer, flags, num>> /\ Go(r, "failed")
  <2>1. /\ UNCHANGED <<rows, latest>>
        /\ pc'[r] = "failed"
        /\ \A q \in Request \ {r} : pc'[q] = pc[q] /\ on'[q] = on[q] /\ num'[q] = num[q]
    BY <1>1 DEF Go, flags
  <2> QED
    BY <2>1, OtherStep
<1>2. CASE v \notin rows[f]
  <2>1. /\ rows' = [rows EXCEPT ![f] = rows[f] \cup {v}]
        /\ latest' = [latest EXCEPT ![f] = latest[f] \cup {v}]
        /\ pc' = [pc EXCEPT ![r] = next]
        /\ num' = [num EXCEPT ![r] = v]
    BY <1>2 DEF CreateRow, Go
  <2>2. /\ rows'[f] = rows[f] \cup {v}
        /\ latest'[f] = {v}
        /\ \A g \in File \ {f} : rows'[g] = rows[g] /\ latest'[g] = latest[g]
    BY <1>2, <2>1
  <2>3. PICK n \in Nat : rows[f] = 1 .. n
    BY DEF LatestInv, Numbered
  <2>4. v = n + 1
    <3>1. v \in Nat \ {0}
      BY FileAssumption
    <3>2. v > n
      BY <1>2, <2>3, <3>1
    <3>3. v - 1 = 0 \/ v - 1 \in 1 .. (v - 1)
      BY <3>1
    <3>4. v - 1 <= n
      <4>1. CASE v - 1 = 0
        BY <3>1, <4>1
      <4>2. CASE v - 1 \in 1 .. (v - 1)
        <5>1. v - 1 \in 1 .. n
          BY <2>3, <4>2
        <5> QED
          BY <5>1
      <4> QED
        BY <3>3, <4>1, <4>2
    <3> QED
      BY <3>1, <3>2, <3>4
  <2>5. rows'[f] = 1 .. (n + 1)
    BY <2>2, <2>3, <2>4
  <2>6. Numbered'
    <3>1. ASSUME NEW g \in File PROVE \E m \in Nat : rows'[g] = 1 .. m
      <4>1. CASE g = f
        <5>1. n + 1 \in Nat
          OBVIOUS
        <5> QED
          BY <2>5, <4>1, <5>1
      <4>2. CASE g # f
        <5>1. PICK m \in Nat : rows[g] = 1 .. m
          BY DEF LatestInv, Numbered
        <5>2. rows'[g] = rows[g]
          BY <2>2, <4>2
        <5> QED
          BY <5>1, <5>2
      <4> QED
        BY <4>1, <4>2
    <3> QED
      BY <3>1 DEF Numbered
  <2>7. MarksExist'
    BY <2>2 DEF LatestInv, MarksExist
  <2>8. MarksAreNewest'
    <3>1. \A w \in rows'[f] : w <= v
      BY <2>4, <2>5
    <3> QED
      BY <2>2, <3>1 DEF LatestInv, MarksAreNewest
  <2>9. \A q \in Request \ {r} : pc'[q] = pc[q] /\ on'[q] = on[q] /\ num'[q] = num[q]
    BY <2>1
  <2>10. pc'[r] \notin {"clearLatest", "createVersion"}
    BY <2>1
  <2>11. \A g \in File : rows[g] \subseteq rows'[g]
    BY <2>2
  <2>12. SeenBelow'
    BY <2>9, <2>10, <2>11 DEF LatestInv, SeenBelow
  <2>13. ASSUME NEW q \in Request, pc'[q] = "createVersion"
         PROVE  num'[q] \in rows'[on'[q]] \/ latest'[on'[q]] = {}
    <3>1. q # r /\ pc[q] = "createVersion" /\ on'[q] = on[q] /\ num'[q] = num[q]
      BY <2>9, <2>10, <2>13
    <3>2. CASE on[q] # f
      BY <2>2, <3>1, <3>2 DEF LatestInv, ClearedWhileFree
    <3>3. CASE on[q] = f /\ num[q] \in rows[f]
      BY <2>2, <3>1, <3>3
    <3>4. CASE on[q] = f /\ num[q] \notin rows[f]
      <4>1. 1 .. (num[q] - 1) \subseteq 1 .. n
        BY <2>3, <3>1, <3>4 DEF LatestInv, SeenBelow
      <4>2. num[q] \in Nat \ {0} /\ num[q] > n
        <5>1. num[q] \in Nat \ {0}
          BY FileAssumption
        <5> QED
          BY <2>3, <3>4, <5>1
      <4>3. num[q] - 1 = 0 \/ num[q] - 1 \in 1 .. (num[q] - 1)
        BY <4>2
      <4>4. num[q] = n + 1
        <5>1. CASE num[q] - 1 = 0
          BY <4>2, <5>1
        <5>2. CASE num[q] - 1 \in 1 .. (num[q] - 1)
          <6>1. num[q] - 1 \in 1 .. n
            BY <4>1, <5>2
          <6> QED
            BY <4>2, <6>1
        <5> QED
          BY <4>3, <5>1, <5>2
      <4> QED
        BY <2>2, <2>4, <3>1, <3>4, <4>4
    <3> QED
      BY <3>2, <3>3, <3>4
  <2> QED
    BY <2>6, <2>7, <2>8, <2>12, <2>13 DEF LatestInv, ClearedWhileFree
<1> QED
  BY <1>1, <1>2 DEF CreateRow

\* Only the newest version of a file is marked latest, for any number of uploads
\* that overlap.
THEOREM LatestIsNewest == Spec => []OnlyNewestIsLatest
<1>1. Init => LatestInv
  <2> SUFFICES ASSUME Init PROVE LatestInv
    OBVIOUS
  <2>1. \A f \in File : rows[f] = 1 .. 0 /\ latest[f] = {}
    <3>1. 1 .. 0 = {}
      OBVIOUS
    <3> QED
      BY <3>1 DEF Init
  <2> QED
    BY <2>1 DEF Init, LatestInv, Numbered, MarksExist, SeenBelow, ClearedWhileFree,
                MarksAreNewest
<1>2. TypeOK /\ LatestInv /\ [Next]_vars => LatestInv'
  <2> SUFFICES ASSUME TypeOK, LatestInv, [Next]_vars PROVE LatestInv'
    OBVIOUS
  <2> USE DEF TypeOK, Go, Aim, Starts, flags
  <2>1. ASSUME NEW r \in Request, FindBucket(r) \/ CreateFile(r) PROVE LatestInv'
    BY <2>1, OtherStep DEF FindBucket, CreateFile
  <2>2. ASSUME NEW r \in Request, CreateFirst(r) PROVE LatestInv'
    <3>1. 1 \in Numbers
      BY FileAssumption DEF Numbers
    <3>2. PICK n \in Nat : rows[on[r]] = 1 .. n
      BY DEF LatestInv, Numbered
    <3>3. 1 \in rows[on[r]] \/ latest[on[r]] = {}
      BY <3>2 DEF LatestInv, MarksExist
    <3> QED
      BY <2>2, <3>1, <3>3, NewRow DEF CreateFirst
  <2>3. ASSUME NEW r \in Request, CreateVersion(r) PROVE LatestInv'
    BY <2>3, NewRow DEF CreateVersion, LatestInv, SeenBelow, ClearedWhileFree
  <2>4. ASSUME NEW r \in Request, NEW f \in File,
               ReplaceFile(r, f) \/ ReadToDelete(r, f) \/ ReadForLink(r, f)
        PROVE  LatestInv'
    <3>1. LinkOutcomes(f) \subseteq {"createLink", "failed", "done"}
      BY DEF LinkOutcomes
    <3>2. /\ UNCHANGED <<rows, latest, num>>
          /\ on' = [on EXCEPT ![r] = f]
          /\ \E p \in {"append", "delete", "createLink", "failed", "done"} :
               pc' = [pc EXCEPT ![r] = p]
      BY <2>4, <3>1 DEF ReplaceFile, ReadToDelete, ReadForLink
    <3> QED
      BY <3>2, OtherStep
  <2>5. ASSUME NEW r \in Request, ReadLatest(r) PROVE LatestInv'
    <3>1. CASE pc' = [pc EXCEPT ![r] = "failed"] /\ num' = num
      BY <2>5, <3>1, OtherStep DEF ReadLatest
    <3>2. CASE /\ num' = [num EXCEPT ![r] =
                     IF rows[on[r]] = {} THEN 1 ELSE Newest(rows[on[r]]) + 1]
               /\ pc' = [pc EXCEPT ![r] = "clearLatest"]
      <4>1. PICK n \in Nat : rows[on[r]] = 1 .. n
        BY DEF LatestInv, Numbered
      <4>2. num'[r] = n + 1
        <5>1. CASE n = 0
          BY <3>2, <4>1, <5>1
        <5>2. CASE n > 0
          <6>1. 1 \in rows[on[r]]
            BY <4>1, <5>2
          <6>2. Newest(rows[on[r]]) = n
            BY <4>1, <5>2, NewestOfRange
          <6> QED
            BY <3>2, <6>1, <6>2
        <5> QED
          BY <5>1, <5>2
      <4>3. UNCHANGED <<rows, latest, on>>
        BY <2>5 DEF ReadLatest
      <4>4. \A q \in Request \ {r} : pc'[q] = pc[q] /\ num'[q] = num[q]
        BY <3>2
      <4>5. 1 .. (num'[r] - 1) \subseteq rows[on[r]]
        <5>1. num'[r] - 1 = n
          BY <4>2
        <5> QED
          BY <4>1, <5>1
      <4>6. pc'[r] = "clearLatest"
        BY <3>2
      <4>7. Numbered' /\ MarksExist' /\ MarksAreNewest'
        BY <4>3 DEF LatestInv, Numbered, MarksExist, MarksAreNewest
      <4>8. SeenBelow'
        BY <4>3, <4>4, <4>5 DEF LatestInv, SeenBelow
      <4>9. ClearedWhileFree'
        BY <4>3, <4>4, <4>6 DEF LatestInv, ClearedWhileFree
      <4> QED
        BY <4>7, <4>8, <4>9 DEF LatestInv
    <3> QED
      BY <2>5, <3>1, <3>2 DEF ReadLatest
  <2>6. ASSUME NEW r \in Request, ClearLatest(r) PROVE LatestInv'
    <3>1. /\ latest'[on[r]] = {}
          /\ \A g \in File \ {on[r]} : latest'[g] = latest[g]
          /\ UNCHANGED <<rows, on, num>>
          /\ pc[r] = "clearLatest" /\ pc'[r] = "createVersion"
          /\ \A q \in Request \ {r} : pc'[q] = pc[q]
      BY <2>6 DEF ClearLatest
    <3>2. Numbered'
      BY <3>1 DEF LatestInv, Numbered
    <3>3. MarksExist' /\ MarksAreNewest'
      BY <3>1 DEF LatestInv, MarksExist, MarksAreNewest
    <3>4. SeenBelow'
      BY <3>1 DEF LatestInv, SeenBelow
    <3>5. ClearedWhileFree'
      <4>1. \A g \in File : latest[g] = {} => latest'[g] = {}
        BY <3>1
      <4> QED
        BY <3>1, <4>1 DEF LatestInv, ClearedWhileFree
    <3> QED
      BY <3>2, <3>3, <3>4, <3>5 DEF LatestInv
  <2>7. ASSUME NEW r \in Request, NEW f \in File, NEW v \in Numbers, ReadToApprove(r, f, v)
        PROVE  LatestInv'
    BY <2>7, OtherStep DEF ReadToApprove
  <2>8. ASSUME NEW r \in Request, ClearApproved(r) \/ SetApproved(r) PROVE LatestInv'
    BY <2>8, OtherStep DEF ClearApproved, SetApproved
  <2>9. ASSUME NEW r \in Request, Resolve(r) \/ ClearCurrent(r) \/ SetCurrent(r)
        PROVE  LatestInv'
    BY <2>9, OtherStep DEF Resolve, ClearCurrent, SetCurrent
  <2>10. ASSUME NEW r \in Request, DeleteFile(r) \/ CreateLink(r) PROVE LatestInv'
    BY <2>10, OtherStep DEF DeleteFile, CreateLink
  <2>11. ASSUME NEW r \in Request, NEW l \in Request, ReadLink(r, l) PROVE LatestInv'
    BY <2>11, OtherStep DEF ReadLink
  <2>12. ASSUME NEW r \in Request, CheckFile(r) \/ Count(r) PROVE LatestInv'
    <3>1. /\ UNCHANGED <<rows, latest, on, num>>
          /\ \E p \in {"count", "failed", "served"} : pc' = [pc EXCEPT ![r] = p]
      BY <2>12 DEF CheckFile, Count
    <3> QED
      BY <3>1, OtherStep
  <2>13. ASSUME UNCHANGED <<rows, latest, pc, on, num>> PROVE LatestInv'
    BY <2>13 DEF LatestInv, Numbered, MarksExist, SeenBelow, ClearedWhileFree,
                 MarksAreNewest
  <2>14. ASSUME NEW r \in Request, Expire(r) PROVE LatestInv'
    BY <2>13, <2>14 DEF Expire
  <2>15. CASE UNCHANGED vars
    BY <2>13, <2>15 DEF vars
  <2> QED
    BY <2>1, <2>2, <2>3, <2>4, <2>5, <2>6, <2>7, <2>8, <2>9, <2>10, <2>11, <2>12,
       <2>14, <2>15 DEF Next
<1>3. TypeOK /\ LatestInv => OnlyNewestIsLatest
  <2> SUFFICES ASSUME TypeOK, LatestInv, NEW f \in File, latest[f] # {}
               PROVE  latest[f] = {Newest(rows[f])}
    BY DEF OnlyNewestIsLatest
  <2>1. rows[f] \in SUBSET Numbers /\ latest[f] \subseteq rows[f]
    BY DEF TypeOK, LatestInv, MarksExist
  <2>2. Newest(rows[f]) \in rows[f] /\ \A w \in rows[f] : w <= Newest(rows[f])
    BY <2>1, NewestIsNewest
  <2>3. \A v \in latest[f] : v = Newest(rows[f])
    BY <2>1, <2>2, FileAssumption DEF LatestInv, MarksAreNewest, Numbers
  <2> QED
    BY <2>3
<1> QED
  BY <1>1, <1>2, <1>3, TypeCorrect, PTL DEF Spec

-----------------------------------------------------------------------------
(* Links and the page with the files                                       *)

\* A DownloadLink row, as the reading of one file keeps it.
LinkRow == [by : Reader, pinned : Nat, expires : Nat, active : BOOLEAN]

\* The rows' types, and what every link given out was asked for.
LinksInv ==
  /\ kept \in [count : Nat \ {0}, current : Nat, approved : Nat, deleted : BOOLEAN, video : BOOLEAN, sensitive : BOOLEAN]
  /\ ttl \in [{"project", "retention"} -> Nat] /\ clock \in Nat /\ links \in Seq(LinkRow)
  /\ \A h \in handed : h.link \in DOMAIN links /\ links[h.link].pinned = h.asked
  /\ handed # {} => lasts \in Nat /\ lasts > ReuseThreshold

\* The greater of two is there and is no less than either.
LEMMA MaxOfTwo ==
  ASSUME NEW a \in Nat, NEW b \in Nat
  PROVE  Max({a, b}) \in Nat /\ Max({a, b}) >= a
<1>1. \E m \in {a, b} : \A x \in {a, b} : m >= x
  BY a >= b \/ b >= a
<1> QED
  BY <1>1 DEF Max

\* The version a request without one gets is there.
LEMMA PreviewIsVersion ==
  ASSUME LinksInv
  PROVE  PreviewVersion \in Nat
<1>1. kept.count \in Nat /\ kept.count >= 1
  BY DEF LinksInv
<1>2. PICK n \in Nat : n = kept.count /\ n >= 1
  BY <1>1
<1>3. Max(1 .. n) \in 1 .. n
  <2>1. n \in 1 .. n /\ \A x \in 1 .. n : n >= x
    BY <1>2
  <2> QED
    BY <2>1 DEF Max
<1> QED
  BY <1>2, <1>3 DEF LinksInv, PreviewVersion, ResolvedVersion, Versions

LEMMA TtlIsLongEnough ==
  ASSUME LinksInv, NEW t \in Ttls
  PROVE  TtlFor(t) \in Nat /\ TtlFor(t) >= 3
<1>1. PICK x \in Nat : TtlFor(t) = Max({3, x})
  BY FileReadingAssumption DEF LinksInv, TtlFor, MinimumTtl
<1> QED
  BY <1>1, MaxOfTwo

\* Giving a link keeps what was promised for it and for the others.
LEMMA LinkStep ==
  ASSUME LinksInv, NEW u \in Reader, NEW asked \in Nat, NEW t \in Ttls, Link(u, asked, t),
         UNCHANGED <<standing, kept, ttl, clock>>
  PROVE  LinksInv'
<1>1. ReuseThreshold \in 1 .. 2 /\ UNCHANGED ReuseThreshold
  BY DEF ReuseThreshold
<1>2. CASE NewLink(u, asked, t)
  <2>1. PICK life \in Nat : life = TtlFor(t) /\ life >= 3
    BY TtlIsLongEnough
  <2>2. PICK row \in LinkRow : links' = Append(links, row) /\ row.pinned = asked /\ row.expires = clock + life
    <3>1. [by |-> u, pinned |-> asked, expires |-> clock + life, active |-> TRUE] \in LinkRow
      BY DEF LinkRow, LinksInv
    <3>2. links' = Append(links, [by |-> u, pinned |-> asked, expires |-> clock + life, active |-> TRUE])
      BY <1>2, <2>1, Zenon DEF NewLink
    <3> QED
      BY <3>1, <3>2
  <2>3. handed' = handed \cup {[link |-> Len(links) + 1, asked |-> asked]} /\ lasts' = (clock + life) - clock
    <3>1. Give(Len(links) + 1, asked, clock + TtlFor(t))
      BY <1>2 DEF NewLink
    <3>2. Give(Len(links) + 1, asked, clock + life)
      BY <2>1, <3>1
    <3>3. handed' = handed \cup {[link |-> Len(links) + 1, asked |-> asked]}
      BY <3>2, Zenon DEF Give
    <3>4. lasts' = (clock + life) - clock
      BY <3>2, Zenon DEF Give
    <3> QED
      BY <3>3, <3>4
  <2>4. links \in Seq(LinkRow) /\ links' \in Seq(LinkRow) /\ Len(links) + 1 \in DOMAIN links'
        /\ links'[Len(links) + 1] = row /\ \A l \in DOMAIN links : l \in DOMAIN links' /\ links'[l] = links[l]
    BY <2>2 DEF LinksInv
  <2>5. lasts' = life
    BY <2>3 DEF LinksInv
  <2>6. \A h \in handed' : h.link \in DOMAIN links' /\ links'[h.link].pinned = h.asked
    BY <2>2, <2>3, <2>4 DEF LinksInv
  <2> QED
    BY <1>1, <2>1, <2>4, <2>5, <2>6 DEF LinksInv
<1>3. CASE asked = 0 /\ \E l \in Reusable(u) : links[l].expires > clock + ReuseThreshold
                                              /\ Give(l, asked, links[l].expires) /\ UNCHANGED links
  <2>1. PICK l \in Reusable(u) : links[l].expires > clock + ReuseThreshold /\ Give(l, asked, links[l].expires)
    BY <1>3
  <2>2. l \in DOMAIN links /\ links[l].pinned = 0
    BY DEF Reusable, OwnLinks
  <2>3. PICK e \in Nat : e = links[l].expires
    <3>1. links[l] \in LinkRow
      BY <2>2 DEF LinksInv
    <3> QED
      BY <3>1 DEF LinkRow
  <2>4. lasts' = e - clock /\ e > clock + ReuseThreshold /\ clock \in Nat
    BY <2>1, <2>3 DEF Give, LinksInv
  <2>5. lasts' \in Nat /\ lasts' > ReuseThreshold
    BY <1>1, <2>4
  <2>6. handed' = handed \cup {[link |-> l, asked |-> asked]}
    BY <2>1 DEF Give
  <2>7. \A h \in handed' : h.link \in DOMAIN links /\ links[h.link].pinned = h.asked
    BY <1>3, <2>2, <2>6 DEF LinksInv
  <2> QED
    BY <1>1, <1>3, <2>5, <2>7 DEF LinksInv
<1> QED
  BY <1>2, <1>3 DEF Link

\* Every link given out leads to the version it was asked for for as long as it was
\* promised, and the page approves versions of the file it shows only
\* (createDownloadLink; FileListPage).
THEOREM FilesAreTheOnesAsked == FilesSpec => []FilesLeadWhereAsked
<1> DEFINE Inv == LinksInv /\ ApprovalsStayInFile
           all == <<readingVars, linkingVars, filesPageVars>>
<1>1. ReadingInit /\ FilesInit => Inv
  <2> SUFFICES ASSUME ReadingInit, FilesInit PROVE Inv
    OBVIOUS
  <2>1. PICK video \in BOOLEAN, sensitive \in BOOLEAN :
          kept = [count |-> 1, current |-> 1, approved |-> 0, deleted |-> FALSE, video |-> video, sensitive |-> sensitive]
    BY DEF ReadingInit
  <2>2. Max(Ttls) \in Nat
    BY FileReadingAssumption DEF Max
  <2>3. ttl \in [{"project", "retention"} -> Nat]
    BY <2>2 DEF ReadingInit, Unset
  <2> QED
    BY <2>1, <2>3 DEF ReadingInit, FilesInit, LinksInv, ApprovalsStayInFile
<1>2. ASSUME Inv, [FilesNext]_all PROVE Inv'
  <2>1. ASSUME ReadingNext, UNCHANGED filesPageVars PROVE Inv'
    <3>0. ApprovalsStayInFile'
      BY <1>2, <2>1 DEF ApprovalsStayInFile, filesPageVars, filesVars
    <3>a. ASSUME UNCHANGED <<links, handed, lasts>>, UNCHANGED ttl, clock' \in Nat, kept'.video = kept.video,
                 kept' \in [count : Nat \ {0}, current : Nat, approved : Nat, deleted : BOOLEAN, video : BOOLEAN, sensitive : BOOLEAN]
          PROVE  LinksInv'
      BY <1>2, <3>a DEF LinksInv, ReuseThreshold
    <3>1. ASSUME NEW u \in Reader, NEW s \in Standing, SetStanding(u, s) PROVE LinksInv'
      BY <1>2, <3>1, <3>a DEF SetStanding, LinksInv
    <3>2. ASSUME NEW u \in Reader, NEW asked \in 0 .. MaxFileVersions, NEW t \in Ttls, GetDownloadLink(u, asked, t)
          PROVE  LinksInv'
      <4>1. asked \in Nat
        BY <1>2, <3>2 DEF GetDownloadLink, Versions, LinksInv
      <4> QED
        BY <1>2, <3>2, <4>1, LinkStep DEF GetDownloadLink
    <3>3. ASSUME NEW u \in Reader, NEW asked \in 0 .. MaxFileVersions, GetFilePreview(u, asked) PROVE LinksInv'
      <4>1. PICK t \in Ttls : Link(u, IF asked = 0 THEN PreviewVersion ELSE asked, t)
        BY <3>3 DEF GetFilePreview
      <4>2. (IF asked = 0 THEN PreviewVersion ELSE asked) \in Nat
        BY <1>2, <3>3, PreviewIsVersion DEF GetFilePreview, Versions
      <4> QED
        BY <1>2, <3>3, <4>1, <4>2, LinkStep DEF GetFilePreview
    <3>4. ASSUME NEW u \in Reader, DeleteKept(u) PROVE LinksInv'
      <4>1. kept' = [kept EXCEPT !.deleted = TRUE] /\ UNCHANGED <<ttl, clock, handed, lasts>>
            /\ links' = [l \in DOMAIN links |-> [links[l] EXCEPT !.active = FALSE]]
        BY <3>4 DEF DeleteKept
      <4>2. kept' \in [count : Nat \ {0}, current : Nat, approved : Nat, deleted : BOOLEAN, video : BOOLEAN, sensitive : BOOLEAN]
            /\ kept'.video = kept.video
        BY <1>2, <4>1 DEF LinksInv
      <4>3. \A l \in DOMAIN links : [links[l] EXCEPT !.active = FALSE] \in LinkRow
                                    /\ [links[l] EXCEPT !.active = FALSE].pinned = links[l].pinned
        <5> SUFFICES ASSUME NEW l \in DOMAIN links
                     PROVE  /\ [links[l] EXCEPT !.active = FALSE] \in LinkRow
                            /\ [links[l] EXCEPT !.active = FALSE].pinned = links[l].pinned
          OBVIOUS
        <5>1. PICK row \in LinkRow : row = links[l]
          BY <1>2 DEF LinksInv
        <5>2. [row EXCEPT !.active = FALSE] \in LinkRow /\ [row EXCEPT !.active = FALSE].pinned = row.pinned
          BY DEF LinkRow
        <5> QED
          BY <5>1, <5>2
      <4>4. links' \in Seq(LinkRow) /\ DOMAIN links' = DOMAIN links /\ \A l \in DOMAIN links : links'[l].pinned = links[l].pinned
        <5>1. links \in Seq(LinkRow) /\ DOMAIN links = 1 .. Len(links) /\ Len(links) \in Nat
          BY <1>2 DEF LinksInv
        <5>2. links' \in [1 .. Len(links) -> LinkRow] /\ DOMAIN links' = DOMAIN links
          BY <4>1, <4>3, <5>1
        <5>3. \A l \in DOMAIN links : links'[l].pinned = links[l].pinned
          BY <4>1, <4>3
        <5>4. PICK n \in Nat : n = Len(links)
          BY <5>1
        <5>5. links' \in Seq(LinkRow)
          BY <5>2, <5>4
        <5> QED
          BY <5>2, <5>3, <5>5
      <4> QED
        BY <1>2, <4>1, <4>2, <4>4 DEF LinksInv, ReuseThreshold
    <3>5. ASSUME NEW v \in Versions, ApproveVersion(v) PROVE LinksInv'
      <4>1. v \in Nat
        BY <1>2 DEF Versions, LinksInv
      <4> QED
        BY <1>2, <3>5, <3>a, <4>1 DEF ApproveVersion, LinksInv
    <3>6. ASSUME AddVersion PROVE LinksInv'
      <4>1. kept' = [kept EXCEPT !.count = @ + 1, !.current = IF kept.approved = 0 THEN kept.count + 1 ELSE @]
        BY <3>6 DEF AddVersion
      <4>2. kept.count + 1 \in Nat \ {0} /\ (IF kept.approved = 0 THEN kept.count + 1 ELSE kept.current) \in Nat
        BY <1>2 DEF LinksInv
      <4>3. kept' \in [count : Nat \ {0}, current : Nat, approved : Nat, deleted : BOOLEAN, video : BOOLEAN, sensitive : BOOLEAN]
            /\ kept'.video = kept.video
        BY <1>2, <4>1, <4>2 DEF LinksInv
      <4>4. UNCHANGED <<links, handed, lasts, ttl>> /\ clock' \in Nat
        BY <1>2, <3>6 DEF AddVersion, LinksInv
      <4> QED
        BY <3>a, <4>3, <4>4
    <3>7. ASSUME Tick PROVE LinksInv'
      <4>1. clock' \in Nat /\ UNCHANGED <<kept, ttl, links, handed, lasts>>
        BY <1>2, <3>7 DEF Tick, LinksInv
      <4> QED
        BY <1>2, <4>1 DEF LinksInv, ReuseThreshold
    <3> QED
      BY <2>1, <3>0, <3>1, <3>2, <3>3, <3>4, <3>5, <3>6, <3>7 DEF ReadingNext
  <2>2. ASSUME UNCHANGED readingVars PROVE LinksInv'
    BY <1>2, <2>2 DEF LinksInv, readingVars, ReuseThreshold
  <2>3. ASSUME FilesPageNext PROVE ApprovalsStayInFile'
    <3>1. CASE HandleApproveVersion
      BY <1>2, <3>1 DEF HandleApproveVersion, Accepts, ApprovalsStayInFile
    <3>2. ~HandleApproveVersion => UNCHANGED verdicts
      <4>1. CASE Browsing
        BY <4>1 DEF Browsing, LeaveProjectFiles, EnterProjectFiles, ListArrives
      <4>2. CASE Approving
        BY <4>2 DEF Approving, CloseHistory, ViewHistory, RowsArrive, ApprovedArrives
      <4>3. CASE Deleting
        BY <4>3 DEF Deleting, AskDelete, CancelDelete, HandleDeleteFile, DeletedArrives
      <4>4. CASE Replacing
        BY <4>4 DEF Replacing, HandleUpload, SetReplaceTarget, SetUploadMode, UploadedArrives
      <4>5. CASE Previewing
        BY <4>5 DEF Previewing, ResetPreview, OpenPreview, PreviewChange, PaneArrives, filesVars
      <4> QED
        BY <2>3, <4>1, <4>2, <4>3, <4>4, <4>5 DEF FilesPageNext
    <3> QED
      BY <1>2, <3>1, <3>2 DEF ApprovalsStayInFile
  <2>4. ASSUME UNCHANGED filesPageVars PROVE ApprovalsStayInFile'
    BY <1>2, <2>4 DEF ApprovalsStayInFile, filesPageVars, filesVars
  <2> QED
    BY <1>2, <2>1, <2>2, <2>3, <2>4 DEF FilesNext
<1>3. Inv => FilesLeadWhereAsked
  BY DEF LinksInv, ApprovalsStayInFile, FilesLeadWhereAsked, LinksLeadWhereAsked, VersionSent
<1> QED
  BY <1>1, <1>2, <1>3, PTL DEF FilesSpec

-----------------------------------------------------------------------------
(* The parts of an upload                                                  *)

\* A rising arrangement of the numbers up to N leaves each at its place.
LEMMA RisingIsIdentity ==
  ASSUME NEW N \in Nat, NEW t \in Bijection(1 .. N, 1 .. N),
         \A i, j \in 1 .. N : i < j => t[i] <= t[j]
  PROVE  t = [i \in 1 .. N |-> i]
<1>1. t \in [1 .. N -> 1 .. N] /\ (\A i, j \in 1 .. N : t[i] = t[j] => i = j) /\ \A p \in 1 .. N : \E i \in 1 .. N : t[i] = p
  BY DEF Bijection, Injection, Surjection, IsInjective
<1>2. ASSUME NEW i \in 1 .. N, t[i] # i PROVE FALSE
  <2> DEFINE Moved == {k \in 1 .. N : t[k] # k}
  <2>1. Moved \subseteq Nat /\ Moved # {}
    BY <1>2
  <2>2. PICK m \in Moved : \A k \in Moved : ~ (<<k, m>> \in OpToRel(<, Nat))
    BY <2>1, NatLessThanWellFounded, WFMin
  <2>3. \A k \in 1 .. N : k < m => t[k] = k
    BY <2>1, <2>2 DEF OpToRel
  <2>4. t[m] \in 1 .. N /\ m \in 1 .. N /\ t[m] # m
    BY <1>1
  <2>5. ~(t[m] < m)
    BY <1>1, <2>3, <2>4
  <2>6. PICK k \in 1 .. N : t[k] = m
    BY <1>1, <2>4
  <2>7. k # m /\ ~(k < m)
    BY <2>3, <2>4, <2>6
  <2>8. t[m] <= t[k]
    BY <2>4, <2>7
  <2> QED
    BY <2>4, <2>5, <2>6, <2>8
<1> QED
  BY <1>1, <1>2

\* Every part once, in whatever order, is sorted into 1 .. N.
LEMMA PartsInOrder ==
  ASSUME NEW N \in Nat, NEW s \in Seq(1 .. N),
         \A i, j \in DOMAIN s : s[i] = s[j] => i = j,
         \A p \in 1 .. N : \E i \in DOMAIN s : s[i] = p
  PROVE  InPartOrder(s) = [i \in 1 .. N |-> i]
<1> DEFINE D == DOMAIN s
           Sorts(q) == \A i, j \in D : i < j => s[q[i]] <= s[q[j]]
<1>1. s \in Bijection(D, 1 .. N) /\ s \in [D -> 1 .. N]
  BY DEF Bijection, Injection, Surjection, IsInjective
<1>2. D = 1 .. N
  <2>1. D = 1 .. Len(s) /\ Len(s) \in Nat
    OBVIOUS
  <2>2. 1 \in Int /\ N \in Int /\ Len(s) \in Int
    BY <2>1
  <2>3. IsFiniteSet(1 .. Len(s)) /\ Cardinality(1 .. Len(s)) = IF 1 > Len(s) THEN 0 ELSE Len(s) - 1 + 1
    BY <2>2, FS_Interval
  <2>4. Cardinality(1 .. N) = IF 1 > N THEN 0 ELSE N - 1 + 1
    BY <2>2, FS_Interval
  <2>5. ExistsBijection(D, 1 .. N)
    BY <1>1 DEF ExistsBijection
  <2>6. Cardinality(1 .. Len(s)) = Cardinality(1 .. N)
    BY <2>1, <2>3, <2>5, FS_Bijection
  <2>7. Len(s) = N
    <3>1. PICK n \in Nat : n = Len(s)
      BY <2>1
    <3>2. (IF 1 > n THEN 0 ELSE n - 1 + 1) = IF 1 > N THEN 0 ELSE N - 1 + 1
      BY <2>3, <2>4, <2>6, <3>1
    <3> QED
      BY <3>1, <3>2
  <2> QED
    BY <2>1, <2>7
<1>3. \E q \in Bijection(D, D) : Sorts(q)
  <2> DEFINE q == [v \in D |-> CHOOSE i \in D : s[i] = v]
  <2>1. \A v \in D : q[v] \in D /\ s[q[v]] = v
    BY <1>2
  <2>2. \A i \in D : q[s[i]] = i
    BY <1>1, <1>2, <2>1
  <2>3. q \in Bijection(D, D)
    <3>1. q \in [D -> D]
      BY <2>1
    <3>2. \A a, b \in D : q[a] = q[b] => a = b
      BY <2>1
    <3>3. \A i \in D : \E v \in D : q[v] = i
      BY <1>1, <1>2, <2>2
    <3> QED
      BY <3>1, <3>2, <3>3 DEF Bijection, Injection, Surjection, IsInjective
  <2>4. Sorts(q)
    <3> SUFFICES ASSUME NEW i \in D, NEW j \in D, i < j PROVE s[q[i]] <= s[q[j]]
      OBVIOUS
    <3>1. s[q[i]] = i /\ s[q[j]] = j
      BY <2>1
    <3>2. i \in 1 .. N /\ j \in 1 .. N
      BY <1>2, Zenon
    <3> HIDE DEF q
    <3> QED
      BY <3>1, <3>2
  <2> QED
    BY <2>3, <2>4
<1>4. PICK turn \in Bijection(D, D) : Sorts(turn) /\ InPartOrder(s) = [i \in D |-> s[turn[i]]]
  BY <1>3 DEF InPartOrder
<1> DEFINE t == [i \in D |-> s[turn[i]]]
<1>5. turn \in [D -> D] /\ (\A i, j \in D : turn[i] = turn[j] => i = j) /\ \A p \in D : \E i \in D : turn[i] = p
  BY <1>4 DEF Bijection, Injection, Surjection, IsInjective
<1>6. t \in Bijection(1 .. N, 1 .. N)
  <2>1. t \in [1 .. N -> 1 .. N]
    BY <1>1, <1>2, <1>5
  <2>2. \A a, b \in 1 .. N : t[a] = t[b] => a = b
    BY <1>2, <1>5, ZenonT(40)
  <2>3. \A p \in 1 .. N : \E i \in 1 .. N : t[i] = p
    BY <1>2, <1>5
  <2>4. DOMAIN t = 1 .. N
    BY <1>2
  <2> HIDE DEF t
  <2> QED
    BY <2>1, <2>2, <2>3, <2>4 DEF Bijection, Injection, Surjection, IsInjective
<1>7. \A i, j \in 1 .. N : i < j => t[i] <= t[j]
  BY <1>2, <1>4
<1>8. t = [i \in 1 .. N |-> i]
  BY <1>6, <1>7, RisingIsIdentity
<1> QED
  BY <1>4, <1>8

\* The worker has a part in hand; the parts answered so far.
Busy(w) == worker[w].at \in {"sign", "put", "failed"}
Answered == ToSet(completedParts)

\* What the variables of an upload range over.
PartsTypes ==
  /\ nextPartNumber \in 1 .. PartCount + 1
  /\ worker \in [PartWorker -> [at : {"none", "idle", "sign", "put", "over", "failed"}, part : 0 .. PartCount]]
  /\ completedParts \in Seq(Part) /\ stored \subseteq Part
  /\ server \in [at : {"none", "asked", "composed", "counted", "failing", "fine", "refused"}, parts : Seq(Nat)]
  /\ upload \in {"none", "open", "object", "gone"}

\* The numbers given out are with one worker each or answered once.
NumbersInv ==
  /\ \A w \in PartWorker : Busy(w) =>
       /\ worker[w].part \in Part /\ worker[w].part < nextPartNumber /\ worker[w].part \notin Answered
       /\ \A v \in PartWorker : Busy(v) /\ worker[v].part = worker[w].part => v = w
  /\ \A w \in PartWorker : worker[w].at = "over" => nextPartNumber = PartCount + 1
  /\ \A i, j \in DOMAIN completedParts : completedParts[i] = completedParts[j] => i = j
  /\ \A p \in Answered : p < nextPartNumber
  /\ \A p \in Part : p < nextPartNumber => p \in Answered \/ \E w \in PartWorker : Busy(w) /\ worker[w].part = p

\* The store holds what is answered while the upload is there, and completion is
\* asked for, with every part, when all workers are through.
StoreInv ==
  /\ browser = "initiate" => upload = "none" /\ \A w \in PartWorker : worker[w].at = "none"
  /\ browser \in {"initiate", "parts"} => server.at = "none"
  /\ upload = "none" => completedParts = <<>>
  /\ upload \in {"open", "object"} => Answered \subseteq stored
  /\ server.at # "none" => /\ \A w \in PartWorker : worker[w].at = "over"
                           /\ server.parts = [i \in Part |-> i]

\* What the browser's workers keep between them, whoever moves.
PartsInv == PartsTypes /\ NumbersInv /\ StoreInv

\* However many workers share the parts and however they interleave, the request
\* that completes the upload names every part once, in order, and what it names is
\* stored (uploadMultipartParts).
THEOREM EveryPartIsNamed == UploadSpec => []CompleteNamesEveryPart
<1>0. Part \subseteq Nat /\ PartCount \in Nat /\ PartCount >= 1
  BY UploadAssumption DEF Part
<1>1. UploadInit => PartsInv
  <2> SUFFICES ASSUME UploadInit PROVE PartsInv
    OBVIOUS
  <2>1. completedParts \in Seq(Part) /\ DOMAIN completedParts = {} /\ Answered = {}
    BY DEF UploadInit, Answered, ToSet
  <2>2. server = [at |-> "none", parts |-> <<>>] /\ <<>> \in Seq(Nat)
    BY DEF UploadInit, NoRequest
  <2>3. \A p \in Part : ~(p < nextPartNumber)
    BY <1>0 DEF UploadInit, Part
  <2>4. nextPartNumber \in 1 .. PartCount + 1
    BY <1>0 DEF UploadInit
  <2> QED
    BY <2>1, <2>2, <2>3, <2>4, <1>0 DEF UploadInit, PartsInv, PartsTypes, NumbersInv, StoreInv, Busy
<1>2. ASSUME PartsInv, [UploadNext]_uploadVars PROVE PartsInv'
  <2> USE <1>0
  <2> DEFINE Hands == <<nextPartNumber, worker, completedParts>>
  \* What neither the browser's own steps nor the server's move.
  <2>a. ASSUME UNCHANGED Hands PROVE UNCHANGED Answered /\ \A w : (Busy(w))' = Busy(w)
    BY <2>a DEF Answered, Busy
  <2>b. ASSUME UNCHANGED Hands, UNCHANGED <<upload, stored, server>>, browser' # "initiate",
               browser' = "parts" => server.at = "none"
        PROVE  PartsInv'
    BY <1>2, <2>a, <2>b DEF PartsInv, PartsTypes, NumbersInv, StoreInv
  <2>c. ASSUME UNCHANGED Hands, browser' = browser, server.at # "none",
               server' \in [at : {"asked", "composed", "counted", "failing", "fine", "refused"}, parts : {server.parts}],
               \/ UNCHANGED <<upload, stored>>
               \/ upload' = "gone" /\ stored' = {}
               \/ upload' = "object" /\ stored' = Part
        PROVE  PartsInv'
    <3>1. server' \in [at : {"none", "asked", "composed", "counted", "failing", "fine", "refused"}, parts : Seq(Nat)]
      BY <1>2, <2>c DEF PartsInv, PartsTypes, NumbersInv, StoreInv
    <3>2. server'.parts = server.parts /\ server'.at # "none" /\ browser \notin {"initiate", "parts"}
      BY <1>2, <2>c DEF PartsInv, PartsTypes, NumbersInv, StoreInv
    <3>3. stored' \subseteq Part /\ upload' \in {"none", "open", "object", "gone"}
      BY <1>2, <2>c DEF PartsInv, PartsTypes, NumbersInv, StoreInv
    <3>4. Answered \subseteq Part
      BY <1>2 DEF PartsInv, PartsTypes, NumbersInv, StoreInv, Answered, ToSet
    <3>5. /\ upload' = "none" => completedParts' = <<>>
          /\ upload' \in {"open", "object"} => Answered' \subseteq stored'
      BY <1>2, <2>a, <2>c, <3>4 DEF PartsInv, PartsTypes, NumbersInv, StoreInv
    <3> QED
      BY <1>2, <2>a, <2>c, <3>1, <3>2, <3>3, <3>5 DEF PartsInv, PartsTypes, NumbersInv, StoreInv
  <2>d. ASSUME NEW to \in {"asked", "composed", "counted", "failing", "fine", "refused"}, NEW from, Serve(from, to)
        PROVE  server' \in [at : {"asked", "composed", "counted", "failing", "fine", "refused"}, parts : {server.parts}]
    BY <1>2, <2>d DEF Serve, PartsInv, PartsTypes, NumbersInv, StoreInv
  <2>1. CASE Initiate
    <3>1. completedParts = <<>> /\ Answered = {} /\ Answered' = {}
      BY <1>2, <2>1 DEF Initiate, PartsInv, PartsTypes, NumbersInv, StoreInv, Answered, ToSet
    <3>2. CASE worker' = worker
      BY <1>2, <2>1, <3>1, <3>2 DEF Initiate, PartsInv, PartsTypes, NumbersInv, StoreInv, Busy
    <3>3. CASE worker' = [w \in PartWorker |-> [at |-> "idle", part |-> 0]] /\ browser' = "parts" /\ upload' = "open"
      <4>0. 1 \in Part /\ \A w \in PartWorker : ~Busy(w)
        BY <1>2, <2>1 DEF Initiate, PartsInv, StoreInv, Busy, Part
      <4>1. ~(1 < nextPartNumber)
        BY <1>2, <3>1, <4>0 DEF PartsInv, NumbersInv
      <4>2. \A w \in PartWorker : worker'[w] = [at |-> "idle", part |-> 0]
        BY <3>3
      <4>3. \A w \in PartWorker : ~(Busy(w))'
        BY <4>2 DEF Busy
      <4>4. \A p \in Part : ~(p < nextPartNumber)
        BY <1>2, <4>1 DEF PartsInv, PartsTypes, NumbersInv, StoreInv, Part
      <4>5. worker' \in [PartWorker -> [at : {"none", "idle", "sign", "put", "over", "failed"}, part : 0 .. PartCount]]
        BY <3>3
      <4> QED
        BY <1>2, <2>1, <3>1, <3>3, <4>2, <4>3, <4>4, <4>5 DEF Initiate, PartsInv, PartsTypes, NumbersInv, StoreInv
    <3> QED
      BY <2>1, <3>2, <3>3 DEF Initiate
  <2>2. ASSUME NEW w \in PartWorker, Claim(w) PROVE PartsInv'
    <3> USE <2>2 DEF Claim
    <3>0. UNCHANGED Answered /\ \A v \in PartWorker \ {w} : (Busy(v))' = Busy(v) /\ worker'[v] = worker[v]
      BY <1>2 DEF Answered, Busy, PartsInv, PartsTypes, NumbersInv, StoreInv, Set
    <3>n. server.at = "none" /\ browser # "initiate" /\ ~Busy(w)
      BY <1>2 DEF PartsInv, PartsTypes, NumbersInv, StoreInv, Busy
    <3>1. CASE nextPartNumber > PartCount
      <4>1. nextPartNumber = PartCount + 1 /\ nextPartNumber' = nextPartNumber
        BY <1>2, <3>1 DEF PartsInv, PartsTypes, NumbersInv, StoreInv
      <4>2. worker' = [worker EXCEPT ![w].at = "over"]
        BY <3>1 DEF Set
      <4>3. worker' \in [PartWorker -> [at : {"none", "idle", "sign", "put", "over", "failed"}, part : 0 .. PartCount]]
        BY <1>2, <4>2, SMTT(20) DEF PartsInv, PartsTypes, NumbersInv, StoreInv
      <4>4. worker'[w].at = "over" /\ ~(Busy(w))'
        BY <1>2, <4>2 DEF PartsInv, PartsTypes, Busy
      <4>5. NumbersInv'
        BY <1>2, <3>0, <3>n, <4>1, <4>4 DEF PartsInv, NumbersInv
      <4> QED
        BY <1>2, <3>0, <3>n, <4>1, <4>3, <4>5 DEF PartsInv, PartsTypes, StoreInv
    <3>2. CASE ~(nextPartNumber > PartCount)
      <4>1. nextPartNumber' = nextPartNumber + 1 /\ nextPartNumber \in Part /\ nextPartNumber' \in 1 .. PartCount + 1
        BY <1>2, <3>2 DEF PartsInv, PartsTypes, NumbersInv, StoreInv, Part
      <4>2. worker' = [worker EXCEPT ![w] = [at |-> "sign", part |-> nextPartNumber]]
        BY <3>2
      <4>3. worker' \in [PartWorker -> [at : {"none", "idle", "sign", "put", "over", "failed"}, part : 0 .. PartCount]]
        BY <1>2, <4>1, <4>2 DEF PartsInv, PartsTypes, NumbersInv, StoreInv, Part
      <4>4. worker'[w].at = "sign" /\ worker'[w].part = nextPartNumber /\ (Busy(w))'
        BY <1>2, <4>2 DEF PartsInv, PartsTypes, NumbersInv, StoreInv, Busy
      <4>5. \A v \in PartWorker : worker'[v].at # "over"
        <5>1. nextPartNumber # PartCount + 1
          BY <1>2, <4>1 DEF Part
        <5> QED
          BY <1>2, <3>0, <4>4, <5>1 DEF PartsInv, NumbersInv
      <4>6. \A v \in PartWorker \ {w} : Busy(v) => worker[v].part < nextPartNumber /\ worker[v].part \in Part
        BY <1>2 DEF PartsInv, PartsTypes, NumbersInv, StoreInv
      <4>7. \A v \in PartWorker : (Busy(v))' =>
              /\ worker'[v].part \in Part /\ worker'[v].part < nextPartNumber' /\ worker'[v].part \notin Answered
              /\ \A x \in PartWorker : (Busy(x))' /\ worker'[x].part = worker'[v].part => x = v
        <5>1. nextPartNumber \notin Answered
          BY <1>2, <4>1 DEF PartsInv, NumbersInv, Part
        <5>2. ASSUME NEW v \in PartWorker \ {w}, Busy(v)
              PROVE  /\ worker[v].part \in Part /\ worker[v].part < nextPartNumber' /\ worker[v].part \notin Answered
                     /\ worker[v].part # nextPartNumber
          BY <1>2, <4>1, <4>6, <5>2 DEF PartsInv, NumbersInv, Part
        <5>3. nextPartNumber < nextPartNumber'
          BY <4>1 DEF Part
        <5> QED
          BY <1>2, <3>0, <4>1, <4>4, <5>1, <5>2, <5>3 DEF PartsInv, NumbersInv
      <4>8. \A p \in Part : p < nextPartNumber' => p \in Answered \/ \E v \in PartWorker : (Busy(v))' /\ worker'[v].part = p
        <5> SUFFICES ASSUME NEW p \in Part, p < nextPartNumber', p \notin Answered
                     PROVE  \E v \in PartWorker : (Busy(v))' /\ worker'[v].part = p
          OBVIOUS
        <5>1. CASE p = nextPartNumber
          BY <4>4, <5>1
        <5>2. CASE p < nextPartNumber
          BY <1>2, <3>0, <3>n, <5>2, SMTT(20) DEF PartsInv, PartsTypes, NumbersInv, StoreInv
        <5> QED
          BY <1>2, <4>1, <5>1, <5>2 DEF PartsInv, PartsTypes, NumbersInv, StoreInv
      <4>9. \A p \in Answered : p < nextPartNumber'
        <5>1. Answered \subseteq Nat /\ nextPartNumber \in Nat
          BY <1>2, <4>1 DEF PartsInv, PartsTypes, Answered, ToSet, Part
        <5> QED
          BY <1>2, <4>1, <5>1 DEF PartsInv, NumbersInv
      <4>10. NumbersInv'
        BY <1>2, <3>0, <4>5, <4>7, <4>8, <4>9 DEF PartsInv, NumbersInv
      <4> QED
        BY <1>2, <3>0, <3>n, <4>1, <4>3, <4>10 DEF PartsInv, PartsTypes, StoreInv
    <3> QED
      BY <3>1, <3>2
  \* A worker that goes on with the number it has.
  <2>e. ASSUME NEW w \in PartWorker, NEW at \in {"put", "failed"}, worker[w].at \in {"sign", "put"}, Set(w, at),
               UNCHANGED <<nextPartNumber, browser, completedParts, upload, server>>,
               stored \subseteq stored', stored' \subseteq Part
        PROVE  PartsInv'
    <3>0. UNCHANGED Answered
      BY <2>e DEF Answered
    <3>1. worker' = [worker EXCEPT ![w].at = at]
      BY <2>e DEF Set
    <3>2. worker' \in [PartWorker -> [at : {"none", "idle", "sign", "put", "over", "failed"}, part : 0 .. PartCount]]
      BY <1>2, <3>1, SMTT(20) DEF PartsInv, PartsTypes, NumbersInv, StoreInv
    <3>3. \A v \in PartWorker : worker'[v].part = worker[v].part /\ (Busy(v))' = Busy(v)
      BY <1>2, <2>e, <3>1 DEF PartsInv, PartsTypes, NumbersInv, StoreInv, Busy
    <3>4. \A v \in PartWorker : worker'[v].at = "over" => worker[v].at = "over"
      BY <1>2, <2>e, <3>1 DEF PartsInv, PartsTypes, NumbersInv, StoreInv
    <3>5. server.at = "none" /\ browser # "initiate"
      BY <1>2, <2>e DEF PartsInv, PartsTypes, NumbersInv, StoreInv
    <3>6. NumbersInv'
      BY <1>2, <2>e, <3>0, <3>3, <3>4 DEF PartsInv, NumbersInv
    <3> QED
      BY <1>2, <2>e, <3>0, <3>2, <3>5, <3>6 DEF PartsInv, PartsTypes, StoreInv
  <2>3. ASSUME NEW w \in PartWorker, SignPart(w) PROVE PartsInv'
    <3>1. stored \subseteq stored' /\ stored' \subseteq Part
      BY <1>2, <2>3 DEF SignPart, PartsInv, PartsTypes, NumbersInv, StoreInv
    <3> QED
      BY <2>3, <2>e, <3>1 DEF SignPart
  <2>4. ASSUME NEW w \in PartWorker, PutPart(w) PROVE PartsInv'
    <3>1. worker[w].part \in Part /\ Busy(w)
      BY <1>2, <2>4 DEF PutPart, PartsInv, PartsTypes, NumbersInv, StoreInv, Busy
    <3>2. CASE Set(w, "failed")
      <4>1. UNCHANGED completedParts
        BY <1>2, <2>4, <3>2 DEF PutPart, Set, PartsInv, PartsTypes, NumbersInv, StoreInv
      <4>2. stored \subseteq stored' /\ stored' \subseteq Part
        BY <1>2, <2>4, <3>1 DEF PutPart, PartsInv, PartsTypes, NumbersInv, StoreInv
      <4> QED
        BY <2>4, <2>e, <3>2, <4>1, <4>2 DEF PutPart
    <3>3. CASE /\ upload = "open" /\ stored' = stored \cup {worker[w].part}
               /\ Set(w, "idle") /\ completedParts' = Append(completedParts, worker[w].part)
      <4>0. UNCHANGED <<nextPartNumber, browser, upload, server>>
        BY <2>4 DEF PutPart
      <4>1. worker' = [worker EXCEPT ![w].at = "idle"]
        BY <3>3 DEF Set
      <4>2. worker' \in [PartWorker -> [at : {"none", "idle", "sign", "put", "over", "failed"}, part : 0 .. PartCount]]
        BY <1>2, <4>1, SMTT(20) DEF PartsInv, PartsTypes, NumbersInv, StoreInv
      <4>3. ~(Busy(w))' /\ worker'[w].at = "idle" /\ \A v \in PartWorker \ {w} : worker'[v] = worker[v] /\ (Busy(v))' = Busy(v)
        BY <1>2, <4>1 DEF PartsInv, PartsTypes, NumbersInv, StoreInv, Busy
      <4>4. PICK n \in Part : n = worker[w].part
        BY <3>1
      <4>5. completedParts \in Seq(Part) /\ completedParts' = Append(completedParts, n) /\ n \notin Answered
        BY <1>2, <3>1, <3>3, <4>4 DEF PartsInv, PartsTypes, NumbersInv, StoreInv
      <4>6. /\ completedParts' \in Seq(Part)
            /\ Answered' = Answered \cup {n}
            /\ \A i, j \in DOMAIN completedParts' : completedParts'[i] = completedParts'[j] => i = j
        <5>1. /\ DOMAIN completedParts' = DOMAIN completedParts \cup {Len(completedParts) + 1}
              /\ \A i \in DOMAIN completedParts : completedParts'[i] = completedParts[i]
              /\ completedParts'[Len(completedParts) + 1] = n
              /\ completedParts' \in Seq(Part)
          BY <4>5
        <5>2. \A i \in DOMAIN completedParts : completedParts[i] # n
          BY <4>5 DEF Answered, ToSet
        <5>3. Answered' = Answered \cup {n}
          BY <5>1 DEF Answered, ToSet
        <5> QED
          BY <1>2, <5>1, <5>2, <5>3 DEF PartsInv, PartsTypes, NumbersInv, StoreInv
      <4>7. n < nextPartNumber /\ \A v \in PartWorker \ {w} : Busy(v) => worker[v].part # n
        BY <1>2, <3>1, <4>4 DEF PartsInv, PartsTypes, NumbersInv, StoreInv
      <4>8. server.at = "none" /\ browser # "initiate"
        BY <1>2, <2>4 DEF PartsInv, PartsTypes, NumbersInv, StoreInv, PutPart
      <4>9. stored' = stored \cup {n} /\ upload = "open"
        BY <3>3, <4>4
      <4>10. \A p \in Part : p < nextPartNumber => p \in Answered \cup {n} \/ \E v \in PartWorker : (Busy(v))' /\ worker'[v].part = p
        <5> SUFFICES ASSUME NEW p \in Part, p < nextPartNumber, p \notin Answered, p # n
                     PROVE  \E v \in PartWorker : (Busy(v))' /\ worker'[v].part = p
          OBVIOUS
        <5>1. PICK v \in PartWorker : Busy(v) /\ worker[v].part = p
          BY <1>2 DEF PartsInv, NumbersInv
        <5> QED
          BY <4>3, <4>4, <5>1
      <4>11. NumbersInv'
        BY <1>2, <4>0, <4>3, <4>6, <4>7, <4>10 DEF PartsInv, NumbersInv
      <4> QED
        BY <1>2, <4>0, <4>2, <4>6, <4>8, <4>9, <4>11 DEF PartsInv, PartsTypes, StoreInv
    <3> QED
      BY <2>4, <3>2, <3>3 DEF PutPart
  <2>5. CASE AskComplete
    <3>0. UNCHANGED <<nextPartNumber, worker, completedParts, upload, stored>> /\ UNCHANGED Answered
          /\ browser' = "complete" /\ \A w : (Busy(w))' = Busy(w)
      BY <2>5 DEF AskComplete, Answered, Busy
    <3>1. \A w \in PartWorker : worker[w].at = "over" /\ ~Busy(w)
      BY <2>5 DEF AskComplete, Busy
    <3>2. nextPartNumber = PartCount + 1
      BY <1>2, <3>1, UploadAssumption DEF PartsInv, PartsTypes, NumbersInv, StoreInv
    <3>3. \A p \in Part : p \in Answered
      BY <1>2, <3>1, <3>2 DEF PartsInv, PartsTypes, NumbersInv, StoreInv, Part
    <3>4. completedParts \in Seq(1 .. PartCount)
          /\ (\A i, j \in DOMAIN completedParts : completedParts[i] = completedParts[j] => i = j)
          /\ \A p \in 1 .. PartCount : \E i \in DOMAIN completedParts : completedParts[i] = p
      BY <1>2, <3>3 DEF PartsInv, PartsTypes, NumbersInv, StoreInv, Part, Answered, ToSet
    <3>5. InPartOrder(completedParts) = [i \in Part |-> i]
      BY <3>4, PartsInOrder DEF Part
    <3>6. server' = [at |-> "asked", parts |-> [i \in Part |-> i]]
      BY <2>5, <3>5 DEF AskComplete
    <3>7. [i \in Part |-> i] \in Seq(Nat)
      BY DEF Part
    <3>8. server' \in [at : {"none", "asked", "composed", "counted", "failing", "fine", "refused"}, parts : Seq(Nat)]
      BY <3>6, <3>7
    <3>9. server'.at = "asked" /\ server'.parts = [i \in Part |-> i]
      BY <3>6
    <3> QED
      BY <1>2, <3>0, <3>1, <3>8, <3>9 DEF PartsInv, PartsTypes, NumbersInv, StoreInv
  <2>6. CASE GiveUpParts \/ CompletionFails \/ CompletionSucceeds
    BY <2>6, <2>b DEF GiveUpParts, CompletionFails, CompletionSucceeds
  <2>7. CASE Abort
    <3>1. CASE UNCHANGED <<upload, stored>>
      BY <2>7, <2>b, <3>1 DEF Abort
    <3>2. CASE upload' = "gone" /\ stored' = {}
      BY <1>2, <2>7, <2>a, <3>2 DEF Abort, PartsInv, PartsTypes, NumbersInv, StoreInv
    <3> QED
      BY <2>7, <3>1, <3>2 DEF Abort
  <2>8. CASE Refuse
    <3>1. Serve("asked", "refused") /\ server.at # "none" /\ UNCHANGED Hands /\ browser' = browser
      BY <2>8 DEF Refuse, BrowserRests, Serve
    <3>2. UNCHANGED <<upload, stored>> \/ (upload' = "gone" /\ stored' = {})
      BY <2>8 DEF Refuse
    <3> QED
      BY <2>c, <2>d, <3>1, <3>2
  <2>9. CASE Compose
    <3>1. PICK to \in {"composed", "refused"} : Serve("asked", to)
      BY <2>9 DEF Compose
    <3>2. server.at # "none" /\ UNCHANGED Hands /\ browser' = browser
      BY <2>9 DEF Compose, BrowserRests
    <3>3. ToSet(server.parts) = Part
      <4>1. server.parts = [i \in Part |-> i]
        BY <1>2, <3>2 DEF PartsInv, PartsTypes, NumbersInv, StoreInv
      <4>2. ToSet([i \in Part |-> i]) = Part
        BY DEF ToSet
      <4> QED
        BY <4>1, <4>2
    <3>4. UNCHANGED <<upload, stored>> \/ (upload' = "object" /\ stored' = Part)
      BY <2>9, <3>3 DEF Compose
    <3> QED
      BY <2>c, <2>d, <3>1, <3>2, <3>4
  <2>10. CASE CheckSize
    <3>1. PICK to \in {"counted", "refused"} : Serve("composed", to)
      BY <2>10 DEF CheckSize
    <3>2. server.at # "none" /\ UNCHANGED Hands /\ browser' = browser
      BY <2>10, <3>1 DEF CheckSize, BrowserRests, Serve
    <3>3. UNCHANGED <<upload, stored>> \/ (upload' = "gone" /\ stored' = {})
      BY <2>10 DEF CheckSize
    <3> QED
      BY <2>c, <2>d, <3>1, <3>2, <3>3
  <2>11. CASE RecordUpload
    <3>1. PICK to \in {"fine", "failing"} : Serve("counted", to)
      BY <2>11 DEF RecordUpload
    <3>2. server.at # "none" /\ UNCHANGED Hands /\ browser' = browser /\ UNCHANGED <<upload, stored>>
      BY <2>11, <3>1 DEF RecordUpload, BrowserRests, Serve
    <3> QED
      BY <2>c, <2>d, <3>1, <3>2
  <2>12. CASE EraseObject
    <3>1. Serve("failing", "refused") /\ server.at # "none" /\ UNCHANGED Hands /\ browser' = browser
      BY <2>12 DEF EraseObject, BrowserRests, Serve
    <3>2. UNCHANGED <<upload, stored>> \/ (upload' = "gone" /\ stored' = {})
      BY <2>12 DEF EraseObject
    <3> QED
      BY <2>c, <2>d, <3>1, <3>2
  <2>13. CASE UNCHANGED uploadVars
    BY <1>2, <2>13 DEF PartsInv, PartsTypes, NumbersInv, StoreInv, Answered, Busy, uploadVars
  <2> QED
    BY <1>2, <2>1, <2>2, <2>3, <2>4, <2>5, <2>6, <2>7, <2>8, <2>9, <2>10, <2>11, <2>12, <2>13
    DEF UploadNext, BrowserStep, ServerStep, WorkerStep
<1>3. PartsInv => CompleteNamesEveryPart
  <2> SUFFICES ASSUME PartsInv, server.at # "none"
               PROVE  server.parts = [i \in Part |-> i] /\ (upload # "gone" => stored = Part)
    BY DEF CompleteNamesEveryPart
  <2>1. nextPartNumber = PartCount + 1 /\ \A w \in PartWorker : ~Busy(w)
    BY UploadAssumption DEF PartsInv, PartsTypes, NumbersInv, StoreInv, Busy
  <2>2. Part \subseteq Answered /\ 1 \in Part
    BY <1>0, <2>1 DEF PartsInv, PartsTypes, NumbersInv, StoreInv, Part
  <2>3. upload # "none"
    BY <2>2 DEF PartsInv, PartsTypes, NumbersInv, StoreInv, Answered, ToSet
  <2> QED
    BY <2>2, <2>3, ZenonT(40) DEF PartsInv, PartsTypes, NumbersInv, StoreInv
<1> QED
  BY <1>1, <1>2, <1>3, PTL DEF UploadSpec

-----------------------------------------------------------------------------
(* The storage backends                                                    *)

\* Who is in the middle of something, and where.
Works(a) == ~(Is(a, "rest") \/ Is(a, "done"))
At(a, places) == task[a].at \in places
\* The rows, what uploads and the clean-up remember, and what the admin may ask.
\* With a backend of its own, a project's jobs work on that backend.
Row == [active : BOOLEAN, isDefault : BOOLEAN, quota : Nat, config : Nat, used : Nat]
Job == [on : {Binding}, of : Upload, direct : BOOLEAN, config : Nat, used : Nat, 
        at : {"quota", "load", "keep", "put", "count", "add", "record", "undo", "subtract", "erase",
              "remove", "uncount", "take", "drop"}]
Change == {"new", "new default", "config", "default", "active", "quota", "delete"}
Idle == {Resting, [at |-> "done"]}

\* What the variables range over while the project has a backend of its own.
StorageTypes ==
  /\ backend \in [Backend -> Row] /\ cache \in [Backend -> Nat]
  /\ object \in [Upload -> {NoBackend, Binding}]
  /\ version \subseteq Upload /\ late \subseteq Upload /\ fileOn \in {NoBackend, Binding}
  /\ DOMAIN task = Actor

\* One actor works at a time, each on its own upload, and the admin never
\* deletes the project's backend.
TasksInv ==
  /\ \A u \in Upload : task[u] \in Idle \/ (task[u] \in Job /\ task[u].of = u /\ ~At(u, {"remove", "uncount", "take", "drop"}))
  /\ task["cleanup"] = Resting \/ (task["cleanup"] \in Job /\ At("cleanup", {"load", "keep", "remove", "uncount", "take", "drop"}))
  /\ \/ task["admin"] = Resting
     \/ /\ task["admin"] \in [at : {"clear", "write", "forget"}, on : Backend, change : Change, quota : Nat]
        /\ task["admin"].change \in {"new", "new default", "delete"} => task["admin"].on # Binding
  /\ \A a, b \in Actor : Works(a) /\ Works(b) => a = b

\* The project's backend stays, nothing is counted on another, adapters are fresh
\* but while the admin is about to forget one, and what was read of the row holds.
BackendsInv ==
  /\ backend[Binding].config >= 1
  /\ \A b \in Backend : b # Binding => backend[b].used = 0
  /\ \A b \in Backend : cache[b] \in {0, backend[b].config} \/ (At("admin", {"forget"}) /\ task["admin"].on = b)
  /\ \A u \in Upload : Works(u) => backend[Binding].active
  /\ \A a \in Upload \cup {"cleanup"} : At(a, {"keep"}) => task[a].config = backend[Binding].config
  /\ \A a \in Upload \cup {"cleanup"} : At(a, {"add", "subtract", "take"}) => task[a].used = backend[Binding].used

\* Where the object of an upload is at each step of its request and of the clean-up.
ObjectsInv ==
  /\ version # {} => fileOn = Binding
  /\ \A u \in Upload : At(u, {"rest", "quota", "load", "keep", "put"}) => object[u] = NoBackend /\ u \notin version
  /\ \A u \in Upload : At(u, {"count", "add", "record", "undo", "subtract", "erase"}) => object[u] = Binding
  /\ \A u \in Upload : At(u, {"count", "add", "record"}) => u \notin version
  /\ \A u \in Upload : At(u, {"undo", "subtract", "erase"}) => u \notin version \/ u \in late
  /\ \A u \in version \ late : object[u] = Binding \/ (At("cleanup", {"uncount", "take", "drop"}) /\ task["cleanup"].of = u)
  /\ Works("cleanup") => task["cleanup"].of \in version
  /\ At("cleanup", {"uncount", "take"}) => object[task["cleanup"].of] = NoBackend

\* What is held and not counted yet, or no longer; and counted but no longer held.
Uncounted == {u \in Upload : At(u, {"count", "add", "erase"})}
Overcounted == IF At("cleanup", {"uncount", "take"}) THEN {task["cleanup"].of} ELSE {}
Held == {u \in Upload : object[u] = Binding}
Counted == (Held \ Uncounted) \cup Overcounted
CountInv == late = {} => backend[Binding].used = Bytes(Counted)

\* The invariant: what is counted is what is held but for the step under way.
StorageInv == StorageTypes /\ TasksInv /\ BackendsInv /\ ObjectsInv /\ CountInv

\* No uploads have no bytes.
LEMMA BytesOfNone == Bytes({}) = 0
<1>1. UNION {{u} \X (1 .. Size[u]) : u \in {}} = {}
  OBVIOUS
<1> QED
  BY <1>1, FS_EmptySet DEF Bytes

\* One upload more, and its bytes are counted besides.
LEMMA BytesOfOneMore ==
  ASSUME NEW S \in SUBSET Upload, NEW u \in Upload, u \notin S
  PROVE  Bytes(S) \in Nat /\ Bytes(S \cup {u}) = Bytes(S) + Size[u]
<1> DEFINE OwnBytes(v) == {v} \X (1 .. Size[v])
           B == UNION {OwnBytes(v) : v \in S}
<1>1. ASSUME NEW v \in Upload PROVE IsFiniteSet(OwnBytes(v)) /\ Cardinality(OwnBytes(v)) = Size[v]
  <2>1. Size[v] \in Nat \ {0}
    BY StorageAssumption
  <2>2. PICK n \in Nat \ {0} : n = Size[v]
    BY <2>1
  <2>3. 1 \in Int /\ n \in Int
    BY <2>2
  <2>4. IsFiniteSet(1 .. n) /\ Cardinality(1 .. n) = IF 1 > n THEN 0 ELSE n - 1 + 1
    BY <2>3, FS_Interval
  <2>5. IsFiniteSet({v}) /\ Cardinality({v}) = 1
    BY FS_Singleton
  <2>6. IsFiniteSet({v} \X (1 .. n)) /\ Cardinality({v} \X (1 .. n)) = Cardinality({v}) * Cardinality(1 .. n)
    BY <2>4, <2>5, FS_Product
  <2>7. Cardinality(1 .. n) = n
    BY <2>2, <2>4
  <2>8. Cardinality({v}) * Cardinality(1 .. n) = n
    BY <2>2, <2>5, <2>7
  <2> QED
    BY <2>2, <2>6, <2>8
<1>2. IsFiniteSet(B)
  <2>1. IsFiniteSet(S)
    BY StorageAssumption, FS_Subset
  <2>2. IsFiniteSet({OwnBytes(v) : v \in S})
    <3> DEFINE f == [v \in S |-> OwnBytes(v)]
    <3>1. f \in Surjection(S, {OwnBytes(v) : v \in S})
      BY DEF Surjection
    <3> QED
      BY <2>1, <3>1, FS_Surjection
  <2>3. \A T \in {OwnBytes(v) : v \in S} : IsFiniteSet(T)
    BY <1>1
  <2> QED
    BY <2>2, <2>3, FS_UNION
<1>3. UNION {OwnBytes(v) : v \in S \cup {u}} = B \cup OwnBytes(u)
  OBVIOUS
<1>4. B \cap OwnBytes(u) = {}
  OBVIOUS
<1>5. Cardinality(B \cup OwnBytes(u)) = Cardinality(B) + Cardinality(OwnBytes(u)) - Cardinality(B \cap OwnBytes(u))
  BY <1>1, <1>2, FS_Union
<1>6. Cardinality(B) \in Nat /\ Cardinality({}) = 0 /\ Cardinality(OwnBytes(u)) = Size[u] /\ Size[u] \in Nat
  BY <1>1, <1>2, FS_CardinalityType, FS_EmptySet, StorageAssumption
<1>7. Cardinality(B \cup OwnBytes(u)) = Cardinality(B) + Size[u]
  <2>1. PICK m \in Nat, n \in Nat : m = Cardinality(B) /\ n = Size[u]
    BY <1>6
  <2>2. Cardinality(B \cup OwnBytes(u)) = m + n - 0
    BY <1>4, <1>5, <1>6, <2>1
  <2> HIDE DEF B, OwnBytes
  <2> QED
    BY <2>1, <2>2
<1> QED
  BY <1>3, <1>6, <1>7 DEF Bytes

-----------------------------------------------------------------------------
\* The places of a request before its object is written and after, those of the
\* clean-up alone, and all of them.
BeforePut == {"rest", "quota", "load", "keep", "put"}
Holding == {"count", "add", "record", "undo", "subtract", "erase"}
OnlyCleanup == {"remove", "uncount", "take", "drop"}
JobPlaces == {"quota", "load", "keep", "put", "count", "add", "record", "undo", "subtract", "erase",
           "remove", "uncount", "take", "drop"}

\* A request that moves keeps the rest.
LEMMA JobMoves ==
  ASSUME NEW j \in Job, NEW p \in JobPlaces
  PROVE  /\ [j EXCEPT !.at = p] \in Job /\ [j EXCEPT !.at = p].at = p /\ [j EXCEPT !.at = p].of = j.of
         /\ [j EXCEPT !.at = p].config = j.config /\ [j EXCEPT !.at = p].used = j.used
  BY DEF Job, JobPlaces

\* A request that moves and has read the bytes counted, or the configuration.
AtReads(j, p, n) == [j EXCEPT !.at = p, !.used = n]

\* It keeps its upload and knows what it read.
LEMMA JobReads ==
  ASSUME NEW j \in Job, NEW p \in JobPlaces, NEW n \in Nat
  PROVE  AtReads(j, p, n) \in Job /\ AtReads(j, p, n).at = p /\ AtReads(j, p, n).of = j.of /\ AtReads(j, p, n).used = n
<1>1. PICK i : i = [j EXCEPT !.at = p]
  OBVIOUS
<1>2. i \in Job /\ i.at = p /\ i.of = j.of
  BY <1>1 DEF Job, JobPlaces
<1>3. PICK k : k = [i EXCEPT !.used = n]
  OBVIOUS
<1>4. AtReads(j, p, n) = k
  BY <1>1, <1>3 DEF Job, AtReads
<1> QED
  BY <1>2, <1>3, <1>4 DEF Job

AtLoads(j, p, n) == [j EXCEPT !.at = p, !.config = n]

\* The same of the configuration.
LEMMA JobLoads ==
  ASSUME NEW j \in Job, NEW p \in JobPlaces, NEW n \in Nat
  PROVE  AtLoads(j, p, n) \in Job /\ AtLoads(j, p, n).at = p /\ AtLoads(j, p, n).of = j.of /\ AtLoads(j, p, n).config = n
<1>1. PICK i : i = [j EXCEPT !.at = p]
  OBVIOUS
<1>2. i \in Job /\ i.at = p /\ i.of = j.of
  BY <1>1 DEF Job, JobPlaces
<1>3. PICK k : k = [i EXCEPT !.config = n]
  OBVIOUS
<1>4. AtLoads(j, p, n) = k
  BY <1>1, <1>3 DEF Job, AtLoads
<1> QED
  BY <1>2, <1>3, <1>4 DEF Job

\* Whoever moves is alone.
LEMMA OneWorks ==
  ASSUME Binding # NoBackend, StorageInv, ~Overlap, NEW a \in Actor, Works(a) \/ MayStart(a)
  PROVE  \A b \in Actor \ {a} : task[b] \in Idle /\ ~Works(b)
<1>1. \A b \in Actor \ {a} : ~Works(b)
  BY DEF StorageInv, TasksInv, Works, MayStart, NobodyWorks
<1>2. \A b \in Actor : task[b] \in Idle \/ Works(b)
  BY DEF StorageInv, TasksInv, Works, Is, At, Job, Idle, Resting, Actor
<1> QED
  BY <1>1, <1>2

\* An upload that moves alone, what becomes of it and what its step may touch.
LEMMA UploadKeeps ==
  ASSUME Binding # NoBackend, StorageInv, ~Overlap, NEW u \in Upload, Works(u) \/ MayStart(u), StorageTypes',
         NEW next, task' = [task EXCEPT ![u] = next],
         next \in Idle \/ (next \in Job /\ next.of = u /\ next.at \notin OnlyCleanup),
         backend'[Binding].config = backend[Binding].config,
         \A b \in Backend : backend'[b].config = backend[b].config,
         \A b \in Backend : b # Binding => backend'[b] = backend[b],
         \A b \in Backend : cache'[b] = cache[b] \/ cache'[b] = backend[b].config,
         \A v \in Upload \ {u} : object'[v] = object[v] /\ (v \in version' <=> v \in version) /\ (v \in late' <=> v \in late),
         next \notin Idle => backend'[Binding].active,
         next.at = "keep" => next.config = backend[Binding].config,
         next.at \in {"add", "subtract"} => next.used = backend'[Binding].used,
         version' # {} => fileOn' = Binding,
         next.at \in BeforePut => object'[u] = NoBackend /\ u \notin version',
         next.at \in Holding => object'[u] = Binding,
         next.at \in {"count", "add", "record"} => u \notin version',
         next.at \in {"undo", "subtract", "erase"} => u \notin version' \/ u \in late',
         u \in version' \ late' => object'[u] = Binding
  PROVE  TasksInv' /\ BackendsInv' /\ ObjectsInv'
<1>0. /\ u \in Actor /\ "cleanup" \in Actor /\ "admin" \in Actor /\ u \notin {"cleanup", "admin"}
      /\ \A v \in Upload : v \in Actor
  BY StorageAssumption DEF Actor
<1>1. /\ \A b \in Actor \ {u} : task'[b] = task[b] /\ task[b] \in Idle
      /\ task'[u] = next
  <2>1. DOMAIN task = Actor
    BY DEF StorageInv, StorageTypes
  <2> QED
    BY <1>0, <2>1, OneWorks
<1>2. \A j \in Idle : j.at \in {"rest", "done"}
  BY DEF Idle, Resting
<1>3. task'["cleanup"] = Resting /\ task'["admin"] = Resting
  <2>1. task["cleanup"] \in Idle /\ task["admin"] \in Idle /\ task'["cleanup"] = task["cleanup"] /\ task'["admin"] = task["admin"]
    BY <1>0, <1>1
  <2>2. task["cleanup"].at \in {"rest", "done"} /\ task["admin"].at \in {"rest", "done"}
    BY <1>2, <2>1
  <2> QED
    BY <2>1, <2>2 DEF StorageInv, TasksInv, At
<1>4. \A b \in Actor \ {u} : task'[b].at \in {"rest", "done"} /\ (Works(b))' = FALSE
  BY <1>0, <1>1, <1>2 DEF Works, Is
<1>5. TasksInv'
  <2>1. \A v \in Upload : task'[v] \in Idle \/ (task'[v] \in Job /\ task'[v].of = v /\ task'[v].at \notin OnlyCleanup)
    BY <1>0, <1>1
  <2>2. \A a, b \in Actor : (Works(a))' /\ (Works(b))' => a = b
    BY <1>4
  <2> QED
    BY <1>3, <2>1, <2>2 DEF TasksInv, At, OnlyCleanup
<1>6. \A v \in Upload \ {u} : task'[v] = task[v] /\ task[v].at \in {"rest", "done"}
  BY <1>0, <1>1, <1>2
<1>7. task'["cleanup"].at = "rest" /\ task'["admin"].at = "rest"
  BY <1>3 DEF Resting
<1>8. BackendsInv'
  <2>1. \A b \in Backend : cache[b] \in {0, backend[b].config}
    <3>1. ~At("admin", {"forget"})
      BY <1>0, <1>1, <1>2 DEF At
    <3> QED
      BY <3>1 DEF StorageInv, BackendsInv
  <2>2. \A b \in Backend : cache'[b] \in {0, backend'[b].config}
    BY <2>1
  <2>3. \A v \in Upload : (Works(v))' => backend'[Binding].active
    BY <1>0, <1>1, <1>2, <1>4 DEF Works, Is
  <2>4. \A a \in Upload \cup {"cleanup"} : a # u => task'[a].at \in {"rest", "done"}
    BY <1>0, <1>4
  <2>5. backend'[Binding].config >= 1 /\ \A b \in Backend : b # Binding => backend'[b].used = 0
    BY DEF StorageInv, BackendsInv
  <2>6. \A a \in Upload \cup {"cleanup"} : task'[a].at \in {"keep"} => task'[a].config = backend'[Binding].config
    BY <1>1, <2>4
  <2>7. \A a \in Upload \cup {"cleanup"} : task'[a].at \in {"add", "subtract", "take"} => task'[a].used = backend'[Binding].used
    <3>1. next.at # "take"
      BY <1>2 DEF OnlyCleanup
    <3> QED
      BY <1>1, <2>4, <3>1
  <2> QED
    BY <2>2, <2>3, <2>5, <2>6, <2>7 DEF BackendsInv, At
<1>9. ObjectsInv'
  <2>1. \A v \in Upload \ {u} : v \in version' \ late' => object'[v] = Binding
    <3>1. ~At("cleanup", {"uncount", "take", "drop"})
      BY <1>0, <1>1, <1>2 DEF At
    <3> QED
      BY <3>1 DEF StorageInv, ObjectsInv
  <2>2. \A v \in Upload \ {u} : task'[v].at = "rest" => object'[v] = NoBackend /\ v \notin version'
    BY <1>6 DEF StorageInv, ObjectsInv, At
  <2>3. \A v \in Upload : v # u => task'[v].at \in {"rest", "done"}
    BY <1>6
  <2>4. \A v \in Upload : task'[v].at \in BeforePut => object'[v] = NoBackend /\ v \notin version'
    BY <1>1, <2>2, <2>3 DEF BeforePut
  <2>5. \A v \in Upload : task'[v].at \in Holding => object'[v] = Binding
    BY <1>1, <2>3 DEF Holding
  <2>6. \A v \in Upload : task'[v].at \in {"count", "add", "record"} => v \notin version'
    BY <1>1, <2>3
  <2>7. \A v \in Upload : task'[v].at \in {"undo", "subtract", "erase"} => v \notin version' \/ v \in late'
    BY <1>1, <2>3
  <2>8. ~(Works("cleanup"))' /\ ~(At("cleanup", {"uncount", "take"}))'
    BY <1>7 DEF Works, Is, At
  <2>9. \A v \in version' \ late' : object'[v] = Binding
    BY <2>1 DEF StorageTypes
  <2> QED
    BY <2>4, <2>5, <2>6, <2>7, <2>8, <2>9 DEF ObjectsInv, At, BeforePut, Holding
<1> QED
  BY <1>5, <1>8, <1>9

\* Whether the bytes of an upload are counted, when no clean-up works.
Counts(u) == object[u] = Binding /\ ~At(u, {"count", "add", "erase"})

\* What is counted while one upload alone moves.
LEMMA CountedAlone ==
  ASSUME Binding # NoBackend, StorageInv, ~Overlap, NEW u \in Upload, Works(u) \/ MayStart(u)
  PROVE  /\ Counted = {v \in Upload : Counts(v)}
         /\ \A v \in Upload \ {u} : Counts(v) <=> object[v] = Binding
         /\ late = {} /\ Counts(u) => backend[Binding].used \in Nat /\ backend[Binding].used >= Size[u]
<1>1. /\ u \in Actor /\ "cleanup" \in Actor /\ u # "cleanup" /\ \A v \in Upload : v \in Actor
  BY StorageAssumption DEF Actor
<1>2. \A b \in Actor \ {u} : task[b].at \in {"rest", "done"}
  BY OneWorks, <1>1 DEF Works, Is
<1>3. ~At("cleanup", {"uncount", "take"}) /\ \A v \in Upload \ {u} : ~At(v, {"count", "add", "erase"})
  BY <1>1, <1>2 DEF At
<1>4. Counted = {v \in Upload : Counts(v)}
  BY <1>3 DEF Counted, Held, Uncounted, Overcounted, Counts
<1>5. \A v \in Upload \ {u} : Counts(v) <=> object[v] = Binding
  BY <1>3 DEF Counts
<1>6. ASSUME late = {}, Counts(u) PROVE backend[Binding].used \in Nat /\ backend[Binding].used >= Size[u]
  <2>1. u \notin Counted \ {u} /\ Counted \ {u} \subseteq Upload /\ Counted = (Counted \ {u}) \cup {u}
    BY <1>4, <1>6
  <2>2. Bytes(Counted \ {u}) \in Nat /\ Bytes(Counted) = Bytes(Counted \ {u}) + Size[u]
    BY <2>1, BytesOfOneMore
  <2>3. Size[u] \in Nat /\ backend[Binding].used = Bytes(Counted)
    BY <1>6, StorageAssumption DEF StorageInv, CountInv
  <2> QED
    BY <2>2, <2>3
<1> QED
  BY <1>4, <1>5, <1>6

\* An upload that moves alone, and what it counts.
LEMMA UploadCounts ==
  ASSUME Binding # NoBackend, StorageInv, ~Overlap, NEW u \in Upload, Works(u) \/ MayStart(u), StorageTypes',
         \A b \in Actor \ {u} : task'[b] = task[b],
         \A v \in Upload \ {u} : object'[v] = object[v],
         late' = {} => late = {},
         late' = {} => \/ ((Counts(u))' <=> Counts(u)) /\ backend'[Binding].used = backend[Binding].used
                       \/ ~Counts(u) /\ (Counts(u))' /\ backend'[Binding].used = backend[Binding].used + Size[u]
                       \/ Counts(u) /\ ~(Counts(u))' /\ backend'[Binding].used = backend[Binding].used - Size[u]
  PROVE  CountInv'
<1> SUFFICES ASSUME late' = {} PROVE backend'[Binding].used = Bytes(Counted')
  BY DEF CountInv
<1>1. /\ u \in Actor /\ "cleanup" \in Actor /\ u # "cleanup" /\ \A v \in Upload : v \in Actor
  BY StorageAssumption DEF Actor
<1>2. \A b \in Actor \ {u} : task'[b].at \in {"rest", "done"}
  BY OneWorks, <1>1 DEF Works, Is
<1>3. ~(At("cleanup", {"uncount", "take"}))' /\ \A v \in Upload \ {u} : ~(At(v, {"count", "add", "erase"}))'
  BY <1>1, <1>2 DEF At
<1>4. Counted' = {v \in Upload : (Counts(v))'}
  BY <1>3 DEF Counted, Held, Uncounted, Overcounted, Counts
<1>5. \A v \in Upload \ {u} : (Counts(v))' <=> Counts(v)
  BY <1>3, CountedAlone DEF Counts
<1>6. PICK now, next : now = Counted /\ next = Counted'
  OBVIOUS
<1>7. now \subseteq Upload /\ next \subseteq Upload /\ next \ {u} = now \ {u} /\ (u \in now <=> Counts(u)) /\ (u \in next <=> (Counts(u))')
  BY <1>4, <1>5, <1>6, CountedAlone
<1>8. PICK k, l, m : k = backend[Binding].used /\ l = backend'[Binding].used /\ m = Size[u]
  OBVIOUS
<1>9. k \in Nat /\ l \in Nat /\ m \in Nat /\ k = Bytes(now)
  <2>1. backend \in [Backend -> Row] /\ backend' \in [Backend -> Row]
    BY DEF StorageInv, StorageTypes
  <2>2. Binding \in Backend
    BY StorageAssumption
  <2>3. backend[Binding].used \in Nat /\ backend'[Binding].used \in Nat
    BY <2>1, <2>2 DEF Row
  <2> QED
    BY <1>6, <1>8, <2>3, StorageAssumption DEF StorageInv, CountInv
<1>10. CASE ((Counts(u))' <=> Counts(u)) /\ l = k
  <2>1. next = now
    BY <1>7, <1>10
  <2> QED
    BY <1>6, <1>8, <1>9, <1>10, <2>1
<1>11. CASE ~Counts(u) /\ (Counts(u))' /\ l = k + m
  <2>1. next = now \cup {u} /\ u \notin now
    BY <1>7, <1>11
  <2>2. Bytes(next) = k + m
    BY <1>7, <1>8, <1>9, <2>1, BytesOfOneMore
  <2> QED
    BY <1>6, <1>8, <1>11, <2>2
<1>12. CASE Counts(u) /\ ~(Counts(u))' /\ l = k - m
  <2>1. now = next \cup {u} /\ u \notin next
    BY <1>7, <1>12
  <2>2. Bytes(next) \in Nat /\ k = Bytes(next) + m
    BY <1>7, <1>8, <1>9, <2>1, BytesOfOneMore
  <2> QED
    BY <1>6, <1>8, <1>9, <1>12, <2>2
<1> QED
  BY <1>8, <1>10, <1>11, <1>12

\* What an upload that is under way is, and what it finds.
LEMMA UploadFacts ==
  ASSUME Binding # NoBackend, StorageInv, NEW u \in Upload, Works(u)
  PROVE  /\ Binding \in Backend /\ backend[Binding].active /\ backend[Binding].config >= 1
         /\ backend[Binding].config \in Nat /\ backend[Binding].used \in Nat
         /\ task[u] \in Job /\ task[u].of = u /\ task[u].on = Binding
         /\ task[u].at \in JobPlaces /\ task[u].at \notin OnlyCleanup
         /\ task[u].at \in BeforePut => object[u] = NoBackend /\ u \notin version
         /\ task[u].at \in Holding => object[u] = Binding
         /\ task[u].at \in {"count", "add", "record"} => u \notin version
         /\ task[u].at \in {"undo", "subtract", "erase"} => u \notin version \/ u \in late
         /\ task[u].at = "keep" => task[u].config = backend[Binding].config
         /\ task[u].at \in {"add", "subtract"} => task[u].used = backend[Binding].used
<1>1. Binding \in Backend
  BY StorageAssumption
<1>2. backend[Binding] \in Row
  BY <1>1 DEF StorageInv, StorageTypes
<1>3. task[u] \in Job /\ task[u].of = u /\ task[u].at \notin OnlyCleanup
  <2>1. \A j \in Idle : j.at \in {"rest", "done"}
    BY DEF Idle, Resting
  <2>2. task[u] \notin Idle
    BY <2>1 DEF Works, Is
  <2> QED
    BY <2>2 DEF StorageInv, TasksInv, At, OnlyCleanup
<1>4. task[u].on = Binding /\ task[u].at \in JobPlaces
  BY <1>3 DEF Job, JobPlaces
<1>5. backend[Binding].active /\ backend[Binding].config >= 1
  BY DEF StorageInv, BackendsInv
<1>6. backend[Binding].config \in Nat /\ backend[Binding].used \in Nat
  BY <1>2 DEF Row
<1>7. /\ task[u].at \in BeforePut => object[u] = NoBackend /\ u \notin version
      /\ task[u].at \in Holding => object[u] = Binding
      /\ task[u].at \in {"count", "add", "record"} => u \notin version
      /\ task[u].at \in {"undo", "subtract", "erase"} => u \notin version \/ u \in late
  BY DEF StorageInv, ObjectsInv, At, BeforePut, Holding
<1>8. /\ task[u].at = "keep" => task[u].config = backend[Binding].config
      /\ task[u].at \in {"add", "subtract"} => task[u].used = backend[Binding].used
  BY DEF StorageInv, BackendsInv, At
<1> QED
  BY <1>1, <1>3, <1>4, <1>5, <1>6, <1>7, <1>8

\* A step of an upload that writes nothing but an adapter.
LEMMA UploadMoves ==
  ASSUME Binding # NoBackend, StorageInv, ~Overlap, NEW u \in Upload, Works(u) \/ MayStart(u), 
         NEW next, task' = [task EXCEPT ![u] = next],
         next = [at |-> "done"] \/ (next \in Job /\ next.of = u /\ next.at \notin OnlyCleanup),
         UNCHANGED <<backend, object, version, fileOn, late>>,
         \A b \in Backend : cache'[b] = cache[b] \/ cache'[b] = backend[b].config,
         cache' \in [Backend -> Nat], 
         next.at # "done" => backend[Binding].active,
         next.at = "keep" => next.config = backend[Binding].config,
         next.at \in {"add", "subtract"} => next.used = backend[Binding].used,
         next.at \in BeforePut => object[u] = NoBackend /\ u \notin version,
         next.at \in Holding => object[u] = Binding,
         next.at \in {"count", "add", "record"} => u \notin version,
         next.at \in {"undo", "subtract", "erase"} => u \notin version \/ u \in late,
         u \in version \ late => object[u] = Binding,
         object[u] = Binding => (next.at \in {"count", "add", "erase"} <=> task[u].at \in {"count", "add", "erase"})
  PROVE  StorageInv'
<1>1. u \in Actor /\ DOMAIN task = Actor
  BY DEF Actor, StorageInv, StorageTypes
<1>2. StorageTypes'
  BY <1>1 DEF StorageInv, StorageTypes
<1>3. next \in Idle \/ (next \in Job /\ next.of = u /\ next.at \notin OnlyCleanup)
  BY DEF Idle
<1>4. next \notin Idle => next.at # "done"
  <2>1. CASE next = [at |-> "done"]
    BY <2>1 DEF Idle
  <2>2. CASE next \in Job
    BY <2>2 DEF Job
  <2> QED
    BY <2>1, <2>2
<1>5. version # {} => fileOn = Binding
  BY DEF StorageInv, ObjectsInv
<1>6. \A b \in Actor \ {u} : task'[b] = task[b]
  BY <1>1
<1>7. task'[u] = next
  BY <1>1
<1>8. ((Counts(u))' <=> Counts(u))
  BY <1>7 DEF Counts, At
<1>9. CountInv'
  BY <1>2, <1>6, <1>8, UploadCounts
<1>10. \A b \in Backend : b # Binding => backend'[b] = backend[b]
  OBVIOUS
<1>11. TasksInv' /\ BackendsInv' /\ ObjectsInv'
  BY <1>2, <1>3, <1>4, <1>5, UploadKeeps
<1> QED
  BY <1>2, <1>9, <1>11 DEF StorageInv

\* Every step of an upload keeps the books.
LEMMA UploadStepKeeps ==
  ASSUME Binding # NoBackend, StorageInv, ~Overlap, NEW u \in Upload, UploadStep(u)
  PROVE  StorageInv'
<1>0. u \in Actor /\ DOMAIN task = Actor /\ Binding \in Backend /\ cache \in [Backend -> Nat]
  BY StorageAssumption DEF Actor, StorageInv, StorageTypes
<1> DEFINE j == task[u]
           Quiet == UNCHANGED <<backend, object, version, fileOn, late>>
<1>a. ASSUME NEW p \in JobPlaces, Is(u, p) PROVE Works(u) /\ task[u].at = p
  BY <1>a DEF Is, Works, JobPlaces
<1>b. BeforePut \cap Holding = {} /\ Holding \subseteq JobPlaces /\ {"quota", "load", "keep", "put"} \subseteq BeforePut \cap JobPlaces
  BY DEF BeforePut, Holding, JobPlaces
<1>m. ASSUME Works(u), NEW p \in JobPlaces
      PROVE  [j EXCEPT !.at = p] \in Job /\ [j EXCEPT !.at = p].of = u /\ [j EXCEPT !.at = p].at = p
  <2>1. PICK k \in Job : k = j /\ k.of = u
    BY <1>m, UploadFacts
  <2>2. [k EXCEPT !.at = p] \in Job /\ [k EXCEPT !.at = p].of = u /\ [k EXCEPT !.at = p].at = p
    BY <2>1, JobMoves
  <2> QED
    BY <2>1, <2>2
<1>1. ASSUME NEW b \in Backend, NEW direct \in BOOLEAN, StartUpload(u, b, direct) PROVE StorageInv'
  <2> DEFINE next == [at |-> "quota", on |-> b, of |-> u, direct |-> direct, config |-> 0, used |-> 0]
  <2>1. b = Binding
    <3>1. b \in Targets \/ b = fileOn
      BY <1>1 DEF StartUpload
    <3>2. Targets = {Binding}
      BY DEF Targets
    <3>3. fileOn \in {NoBackend, Binding} /\ b # NoBackend
      BY StorageAssumption DEF StorageInv, StorageTypes
    <3> QED
      BY <3>1, <3>2, <3>3
  <2>2. next \in Job /\ next.of = u /\ next.at = "quota"
    BY <2>1 DEF Job
  <2>3. backend[Binding].active
    BY <1>1, <2>1 DEF StartUpload, Active
  <2>4. MayStart(u) /\ task[u].at = "rest" /\ task' = [task EXCEPT ![u] = next] /\ Quiet /\ UNCHANGED cache
    BY <1>1 DEF StartUpload, MayStart, Is, Then
  <2>5. object[u] = NoBackend /\ u \notin version
    BY <2>4 DEF StorageInv, ObjectsInv, At
  <2> HIDE DEF next
  <2> QED
    BY <1>0, <2>2, <2>3, <2>4, <2>5, UploadMoves DEF BeforePut, Holding, OnlyCleanup
<1>2. ASSUME CheckQuota(u) PROVE StorageInv'
  <2>1. Works(u) /\ j.at = "quota"
    BY <1>2, <1>a DEF CheckQuota, JobPlaces
  <2>2. PICK next : task' = [task EXCEPT ![u] = next] /\ next \in {[at |-> "done"], [j EXCEPT !.at = "put"], [j EXCEPT !.at = "load"]}
    BY <1>2 DEF CheckQuota, Move, Then
  <2>3. next = [at |-> "done"] \/ (next \in Job /\ next.of = u /\ next.at \in {"put", "load"})
    <3>1. /\ [j EXCEPT !.at = "put"] \in Job /\ [j EXCEPT !.at = "put"].of = u /\ [j EXCEPT !.at = "put"].at = "put"
          /\ [j EXCEPT !.at = "load"] \in Job /\ [j EXCEPT !.at = "load"].of = u /\ [j EXCEPT !.at = "load"].at = "load"
      BY <2>1, <1>m DEF JobPlaces
    <3> QED
      BY <2>2, <3>1
  <2>4. Quiet /\ UNCHANGED cache
    BY <1>2 DEF CheckQuota
  <2>5. next.at \in {"done", "put", "load"} /\ (next.at # "done" => next \in Job)
    BY <2>3
  <2> QED
    BY <1>0, <2>1, <2>2, <2>3, <2>4, <2>5, UploadFacts, UploadMoves, ZenonT(40) DEF BeforePut, Holding, OnlyCleanup
<1>3. ASSUME LoadAdapter(u, "put") PROVE StorageInv'
  <2>1. Works(u) /\ j.at = "load"
    BY <1>3, <1>a DEF LoadAdapter, JobPlaces
  <2>2. PICK next : /\ task' = [task EXCEPT ![u] = next]
                    /\ next \in {[j EXCEPT !.at = "put"], [at |-> "done"], [j EXCEPT !.at = "keep", !.config = backend[Binding].config]}
    <3>1. HasRow(Binding) /\ j.on = Binding
      BY <2>1, UploadFacts DEF HasRow
    <3> QED
      BY <1>3, <3>1 DEF LoadAdapter, Then
  <2>3. \/ next = [at |-> "done"]
        \/ next \in Job /\ next.of = u /\ next.at = "put"
        \/ next \in Job /\ next.of = u /\ next.at = "keep" /\ next.config = backend[Binding].config
    <3>1. /\ [j EXCEPT !.at = "put"] \in Job /\ [j EXCEPT !.at = "put"].of = u /\ [j EXCEPT !.at = "put"].at = "put"
      BY <2>1, <1>m DEF JobPlaces
    <3>2. PICK n \in Nat : n = backend[Binding].config
      BY <2>1, UploadFacts
    <3>3. j \in Job /\ j.of = u /\ "keep" \in JobPlaces
      BY <2>1, UploadFacts DEF JobPlaces
    <3>4. PICK k : k = AtLoads(j, "keep", n)
      OBVIOUS
    <3>5. k \in Job /\ k.of = u /\ k.at = "keep" /\ k.config = n
      <4> HIDE DEF j
      <4> QED
        BY <3>2, <3>3, <3>4, JobLoads
    <3>6. k = [j EXCEPT !.at = "keep", !.config = backend[Binding].config]
      BY <3>2, <3>4 DEF AtLoads
    <3> QED
      BY <2>2, <3>1, <3>2, <3>5, <3>6
  <2>4. Quiet /\ UNCHANGED cache
    BY <1>3 DEF LoadAdapter
  <2>5. next.at \in {"done", "put", "keep"} /\ (next.at = "keep" => next.config = backend[Binding].config)
    BY <2>3
  <2> QED
    BY <1>0, <2>1, <2>2, <2>3, <2>4, <2>5, UploadFacts, UploadMoves, ZenonT(40) DEF BeforePut, Holding, OnlyCleanup
<1>4. ASSUME KeepAdapter(u, "put") PROVE StorageInv'
  <2>1. Works(u) /\ j.at = "keep"
    BY <1>4, <1>a DEF KeepAdapter, JobPlaces
  <2>2. task' = [task EXCEPT ![u] = [j EXCEPT !.at = "put"]] /\ Quiet
    BY <1>4 DEF KeepAdapter, Move, Then
  <2>3. PICK next : next = [j EXCEPT !.at = "put"] /\ next \in Job /\ next.of = u /\ next.at = "put"
    BY <2>1, <1>m, ZenonT(40) DEF JobPlaces
  <2>4. cache' = [cache EXCEPT ![Binding] = backend[Binding].config]
    BY <1>4, <2>1, UploadFacts DEF KeepAdapter
  <2>5. cache' \in [Backend -> Nat] /\ \A b \in Backend : cache'[b] = cache[b] \/ cache'[b] = backend[b].config
    BY <1>0, <2>1, <2>4, UploadFacts
  <2>6. object[u] = NoBackend /\ u \notin version /\ backend[Binding].active /\ NoBackend # Binding
    BY <2>1, UploadFacts DEF BeforePut
  <2>7. next.at \notin {"done", "keep", "add", "subtract", "count", "record", "undo", "erase"} \cup Holding \cup OnlyCleanup
    BY <2>3 DEF Holding, OnlyCleanup
  <2> QED
    BY <2>1, <2>2, <2>3, <2>5, <2>6, <2>7, UploadMoves
<1>5. ASSUME Put(u) PROVE StorageInv'
  <2>1. Works(u) /\ j.at = "put"
    BY <1>5, <1>a DEF Put, JobPlaces
  <2>2. PICK next : next = [j EXCEPT !.at = "count"] /\ next \in Job /\ next.of = u /\ next.at = "count"
    BY <2>1, <1>m, ZenonT(40) DEF JobPlaces
  <2>3. task' = [task EXCEPT ![u] = next] /\ UNCHANGED <<backend, cache, version, fileOn, late>>
        /\ object' = [object EXCEPT ![u] = Binding]
    BY <1>5, <2>1, <2>2, UploadFacts DEF Put, Move, Then
  <2>4. object \in [Upload -> {NoBackend, Binding}] /\ object'[u] = Binding
        /\ \A v \in Upload \ {u} : object'[v] = object[v]
    BY <2>3 DEF StorageInv, StorageTypes
  <2>5. StorageTypes'
    BY <1>0, <2>3, <2>4 DEF StorageInv, StorageTypes
  <2>6. ~Counts(u) /\ ~(Counts(u))' /\ task'[u] = next /\ \A b \in Actor \ {u} : task'[b] = task[b]
    BY <1>0, <2>1, <2>2, <2>3, UploadFacts DEF Counts, At, BeforePut
  <2>7. CountInv'
    BY <2>1, <2>3, <2>4, <2>5, <2>6, UploadCounts
  <2>8. version # {} => fileOn = Binding
    BY DEF StorageInv, ObjectsInv
  <2>9. u \notin version /\ backend[Binding].active
    BY <2>1, UploadFacts DEF BeforePut
  <2>10. next.at = "count" /\ next.at \notin BeforePut /\ next.at \notin OnlyCleanup
    BY <2>2 DEF BeforePut, OnlyCleanup
  <2>11. /\ \A b \in Backend : backend'[b] = backend[b] /\ cache'[b] = cache[b]
         /\ \A v \in Upload : (v \in version' <=> v \in version) /\ (v \in late' <=> v \in late)
         /\ backend'[Binding] = backend[Binding] /\ version' = version /\ fileOn' = fileOn
    BY <2>3
  <2>12. TasksInv' /\ BackendsInv' /\ ObjectsInv'
    BY <2>1, <2>2, <2>3, <2>4, <2>5, <2>8, <2>9, <2>10, <2>11, UploadKeeps, ZenonT(40)
  <2> QED
    BY <2>5, <2>7, <2>12 DEF StorageInv
<1>6. ASSUME ReadUsage(u, "count", "add") PROVE StorageInv'
  <2>1. Works(u) /\ j.at = "count"
    BY <1>6, <1>a DEF ReadUsage, JobPlaces
  <2>2. task' = [task EXCEPT ![u] = [j EXCEPT !.at = "add", !.used = backend[Binding].used]]
    <3>1. HasRow(Binding) /\ j.on = Binding
      BY <2>1, UploadFacts DEF HasRow
    <3> QED
      BY <1>6, <3>1 DEF ReadUsage, Then
  <2>3. PICK next : /\ next = [j EXCEPT !.at = "add", !.used = backend[Binding].used]
                    /\ next \in Job /\ next.of = u /\ next.at = "add" /\ next.used = backend[Binding].used
    <3>1. PICK n \in Nat : n = backend[Binding].used
      BY <2>1, UploadFacts
    <3>2. PICK next : next = AtReads(j, "add", n)
      OBVIOUS
    <3>3. j \in Job /\ j.of = u /\ "add" \in JobPlaces
      BY <2>1, UploadFacts DEF JobPlaces
    <3>4. next \in Job /\ next.of = u /\ next.at = "add" /\ next.used = n
      <4> HIDE DEF j
      <4> QED
        BY <3>1, <3>2, <3>3, JobReads
    <3>5. next = [j EXCEPT !.at = "add", !.used = backend[Binding].used]
      BY <3>1, <3>2 DEF AtReads
    <3> QED
      BY <3>4, <3>5, <3>1
  <2>4. Quiet /\ UNCHANGED cache
    BY <1>6 DEF ReadUsage
  <2> QED
    BY <1>0, <2>1, <2>2, <2>3, <2>4, UploadFacts, UploadMoves, ZenonT(40) DEF BeforePut, Holding, OnlyCleanup
<1>7. ASSUME ReadUsage(u, "undo", "subtract") PROVE StorageInv'
  <2>1. Works(u) /\ j.at = "undo"
    BY <1>7, <1>a DEF ReadUsage, JobPlaces
  <2>2. task' = [task EXCEPT ![u] = [j EXCEPT !.at = "subtract", !.used = backend[Binding].used]]
    <3>1. HasRow(Binding) /\ j.on = Binding
      BY <2>1, UploadFacts DEF HasRow
    <3> QED
      BY <1>7, <3>1 DEF ReadUsage, Then
  <2>3. PICK next : /\ next = [j EXCEPT !.at = "subtract", !.used = backend[Binding].used]
                    /\ next \in Job /\ next.of = u /\ next.at = "subtract" /\ next.used = backend[Binding].used
    <3>1. PICK n \in Nat : n = backend[Binding].used
      BY <2>1, UploadFacts
    <3>2. PICK next : next = AtReads(j, "subtract", n)
      OBVIOUS
    <3>3. j \in Job /\ j.of = u /\ "subtract" \in JobPlaces
      BY <2>1, UploadFacts DEF JobPlaces
    <3>4. next \in Job /\ next.of = u /\ next.at = "subtract" /\ next.used = n
      <4> HIDE DEF j
      <4> QED
        BY <3>1, <3>2, <3>3, JobReads
    <3>5. next = [j EXCEPT !.at = "subtract", !.used = backend[Binding].used]
      BY <3>1, <3>2 DEF AtReads
    <3> QED
      BY <3>4, <3>5, <3>1
  <2>4. Quiet /\ UNCHANGED cache
    BY <1>7 DEF ReadUsage
  <2> QED
    BY <1>0, <2>1, <2>2, <2>3, <2>4, UploadFacts, UploadMoves DEF BeforePut, Holding, OnlyCleanup
<1>c. ASSUME NEW p \in {"add", "subtract"}, NEW q \in {"record", "erase"}, NEW used \in Nat, WriteUsage(u, p, used, q),
             (p = "add" /\ q = "record" /\ used = backend[Binding].used + Size[u])
             \/ (p = "subtract" /\ q = "erase" /\ (late = {} => used = backend[Binding].used - Size[u]))
      PROVE  StorageInv'
  <2>1. Works(u) /\ j.at = p
    BY <1>c, <1>a DEF WriteUsage, JobPlaces
  <2>2. PICK next : next = [j EXCEPT !.at = q] /\ next \in Job /\ next.of = u /\ next.at = q
    BY <2>1, <1>m, ZenonT(40) DEF JobPlaces
  <2>3. task' = [task EXCEPT ![u] = next] /\ UNCHANGED <<cache, object, version, fileOn, late>>
        /\ backend' = [backend EXCEPT ![Binding].used = used]
    BY <1>c, <2>1, <2>2, UploadFacts DEF WriteUsage, Move, Then
  <2>4. PICK row \in Row : row = backend[Binding]
    BY <1>0 DEF StorageInv, StorageTypes
  <2>5. [row EXCEPT !.used = used] \in Row /\ [row EXCEPT !.used = used].used = used
        /\ [row EXCEPT !.used = used].config = row.config /\ [row EXCEPT !.used = used].active = row.active
    BY <1>c DEF Row
  <2>6. /\ backend' \in [Backend -> Row] /\ backend'[Binding].used = used
        /\ backend'[Binding].active = backend[Binding].active
        /\ \A b \in Backend : backend'[b].config = backend[b].config
        /\ \A b \in Backend : b # Binding => backend'[b] = backend[b]
    BY <1>0, <2>3, <2>4, <2>5 DEF StorageInv, StorageTypes
  <2>7. StorageTypes'
    BY <1>0, <2>3, <2>6 DEF StorageInv, StorageTypes
  <2>8. task'[u] = next /\ \A b \in Actor \ {u} : task'[b] = task[b]
    BY <1>0, <2>3
  <2>9. object[u] = Binding
    BY <1>c, <2>1, UploadFacts DEF Holding
  <2>10. Counts(u) <=> p = "subtract"
    BY <1>c, <2>1, <2>9 DEF Counts, At
  <2>11. (Counts(u))' <=> q = "record"
    BY <1>c, <2>2, <2>3, <2>8, <2>9 DEF Counts, At
  <2>12. CountInv'
    BY <1>c, <2>1, <2>3, <2>6, <2>7, <2>8, <2>10, <2>11, UploadCounts
  <2>13. version # {} => fileOn = Binding
    BY DEF StorageInv, ObjectsInv
  <2>14. TasksInv' /\ BackendsInv' /\ ObjectsInv'
    BY <1>c, <1>0, <2>1, <2>2, <2>3, <2>6, <2>7, <2>9, <2>13, UploadFacts, UploadKeeps, ZenonT(40) DEF BeforePut, Holding, OnlyCleanup, Idle
  <2> QED
    BY <2>7, <2>12, <2>14 DEF StorageInv
<1>8. ASSUME WriteUsage(u, "add", Added(u), "record") PROVE StorageInv'
  <2>1. Works(u) /\ j.at = "add"
    BY <1>8, <1>a DEF WriteUsage, JobPlaces
  <2>2. Size[u] \in Nat /\ Added(u) = backend[Binding].used + Size[u] /\ backend[Binding].used \in Nat
    BY <2>1, UploadFacts, StorageAssumption DEF Added
  <2>3. Added(u) \in Nat
    BY <2>2
  <2> QED
    BY <1>8, <1>c, <2>2, <2>3
<1>9. ASSUME WriteUsage(u, "subtract", Subtracted(u), "erase") PROVE StorageInv'
  <2>1. Works(u) /\ j.at = "subtract"
    BY <1>9, <1>a DEF WriteUsage, JobPlaces
  <2>2. PICK k \in Nat, m \in Nat : k = backend[Binding].used /\ m = Size[u]
    BY <2>1, UploadFacts, StorageAssumption
  <2>3. Subtracted(u) = IF k > m THEN k - m ELSE 0
    BY <2>1, <2>2, UploadFacts DEF Subtracted
  <2>4. late = {} => k >= m
    <3>1. Counts(u)
      BY <2>1, UploadFacts DEF Counts, At, Holding
    <3> QED
      BY <2>1, <2>2, <3>1, CountedAlone
  <2>5. Subtracted(u) \in Nat /\ (late = {} => Subtracted(u) = k - m)
    BY <2>2, <2>3, <2>4
  <2> QED
    BY <1>9, <1>c, <2>2, <2>5
<1>10. ASSUME RefuseVersion(u) PROVE StorageInv'
  <2>1. Works(u) /\ j.at = "record"
    BY <1>10, <1>a DEF RefuseVersion, JobPlaces
  <2>2. PICK next : task' = [task EXCEPT ![u] = next] /\ next \in {[at |-> "done"], [j EXCEPT !.at = "undo"]}
    BY <1>10 DEF RefuseVersion, AfterFailure, Move, Then
  <2>3. next = [at |-> "done"] \/ (next \in Job /\ next.of = u /\ next.at = "undo")
    <3>1. /\ [j EXCEPT !.at = "undo"] \in Job /\ [j EXCEPT !.at = "undo"].of = u /\ [j EXCEPT !.at = "undo"].at = "undo"
      BY <2>1, <1>m DEF JobPlaces
    <3> QED
      BY <2>2, <3>1
  <2>4. Quiet /\ UNCHANGED cache
    BY <1>10 DEF RefuseVersion
  <2>5. next.at \in {"done", "undo"}
    BY <2>3
  <2> QED
    BY <1>0, <2>1, <2>2, <2>3, <2>4, <2>5, UploadFacts, UploadMoves DEF BeforePut, Holding, OnlyCleanup
<1>11. ASSUME RecordVersion(u) \/ FailAfterRecord(u) PROVE StorageInv'
  <2>1. Works(u) /\ j.at = "record"
    BY <1>11, <1>a DEF RecordVersion, FailAfterRecord, JobPlaces
  <2>2. PICK next : /\ task' = [task EXCEPT ![u] = next]
                    /\ \/ next = [at |-> "done"] /\ late' \in {late, late \cup {u}}
                       \/ next = [j EXCEPT !.at = "undo"] /\ late' = late \cup {u}
    BY <1>11 DEF RecordVersion, FailAfterRecord, AfterFailure, Move, Then
  <2>3. version' = version \cup {u} /\ fileOn' = Binding /\ UNCHANGED <<backend, cache, object>>
    BY <1>11, <2>1, UploadFacts DEF RecordVersion, FailAfterRecord
  <2>4. \/ next = [at |-> "done"]
        \/ next \in Job /\ next.of = u /\ next.at = "undo" /\ u \in late'
    <3>1. /\ [j EXCEPT !.at = "undo"] \in Job /\ [j EXCEPT !.at = "undo"].of = u /\ [j EXCEPT !.at = "undo"].at = "undo"
      BY <2>1, <1>m DEF JobPlaces
    <3> QED
      BY <2>2, <3>1
  <2>5. next.at \in {"done", "undo"} /\ object[u] = Binding
    BY <2>1, <2>4, UploadFacts DEF Holding
  <2>6. task'[u] = next /\ \A b \in Actor \ {u} : task'[b] = task[b]
    BY <1>0, <2>2
  <2>7. StorageTypes'
    BY <1>0, <2>2, <2>3 DEF StorageInv, StorageTypes
  <2>8. Counts(u) /\ (Counts(u))'
    BY <2>1, <2>3, <2>5, <2>6 DEF Counts, At
  <2>9. late' = {} => late = {}
    BY <2>2
  <2>10. CountInv'
    BY <2>1, <2>3, <2>6, <2>7, <2>8, <2>9, UploadCounts
  <2>11. \A v \in Upload \ {u} : v \in late' <=> v \in late
    BY <2>2
  <2>12. TasksInv' /\ BackendsInv' /\ ObjectsInv'
    BY <1>0, <2>1, <2>2, <2>3, <2>4, <2>5, <2>7, <2>11, UploadFacts, UploadKeeps, ZenonT(40) DEF BeforePut, Holding, OnlyCleanup, Idle
  <2> QED
    BY <2>7, <2>10, <2>12 DEF StorageInv
<1>12. ASSUME Erase(u) PROVE StorageInv'
  <2>1. Works(u) /\ j.at = "erase"
    BY <1>12, <1>a DEF Erase, JobPlaces
  <2>2. PICK next : next = [at |-> "done"] /\ task' = [task EXCEPT ![u] = next]
    BY <1>12 DEF Erase, Move, Then
  <2>3. UNCHANGED <<backend, cache, version, fileOn, late>> /\ object' = [object EXCEPT ![u] = NoBackend]
    <3>1. Active(j.on)
      BY <2>1, UploadFacts DEF Active, HasRow
    <3> QED
      BY <1>12, <3>1 DEF Erase
  <2>4. object \in [Upload -> {NoBackend, Binding}] /\ object'[u] = NoBackend
        /\ \A v \in Upload \ {u} : object'[v] = object[v]
    BY <2>3 DEF StorageInv, StorageTypes
  <2>5. StorageTypes'
    BY <1>0, <2>2, <2>3, <2>4 DEF StorageInv, StorageTypes
  <2>6. ~Counts(u) /\ ~(Counts(u))' /\ \A b \in Actor \ {u} : task'[b] = task[b]
    BY <1>0, <2>1, <2>2, <2>4 DEF Counts, At
  <2>7. CountInv'
    BY <2>1, <2>3, <2>4, <2>5, <2>6, UploadCounts
  <2>8. (version # {} => fileOn = Binding) /\ (u \notin version \/ u \in late)
    BY <2>1, UploadFacts DEF StorageInv, ObjectsInv
  <2>9. next \in Idle /\ next.at = "done"
    BY <2>2 DEF Idle
  <2>10. next.at \notin BeforePut /\ next.at \notin Holding /\ u \notin version \ late
    BY <2>8, <2>9 DEF BeforePut, Holding
  <2>11. /\ \A b \in Backend : backend'[b] = backend[b] /\ cache'[b] = cache[b]
         /\ \A v \in Upload : (v \in version' <=> v \in version) /\ (v \in late' <=> v \in late)
         /\ backend'[Binding] = backend[Binding] /\ version' = version /\ fileOn' = fileOn /\ late' = late
    BY <2>3
  <2>12. TasksInv' /\ BackendsInv' /\ ObjectsInv'
    BY <2>1, <2>2, <2>3, <2>4, <2>5, <2>8, <2>9, <2>10, <2>11, UploadKeeps
  <2> QED
    BY <2>5, <2>7, <2>12 DEF StorageInv
<1> QED
  BY <1>1, <1>2, <1>3, <1>4, <1>5, <1>6, <1>7, <1>8, <1>9, <1>10, <1>11, <1>12 DEF UploadStep

-----------------------------------------------------------------------------
\* The places of the clean-up, and those after the object is gone.
CleanupPlaces == {"load", "keep", "remove", "uncount", "take", "drop"}
Removed == {"uncount", "take", "drop"}

\* What the clean-up under way is, and what it finds.
LEMMA CleanupFacts ==
  ASSUME Binding # NoBackend, StorageInv, Works("cleanup")
  PROVE  /\ Binding \in Backend /\ backend[Binding].config >= 1
         /\ backend[Binding].config \in Nat /\ backend[Binding].used \in Nat
         /\ task["cleanup"] \in Job /\ task["cleanup"].on = Binding /\ task["cleanup"].at \in CleanupPlaces
         /\ task["cleanup"].of \in Upload /\ task["cleanup"].of \in version
         /\ task["cleanup"].at \in {"uncount", "take"} => object[task["cleanup"].of] = NoBackend
         /\ task["cleanup"].at = "keep" => task["cleanup"].config = backend[Binding].config
         /\ task["cleanup"].at = "take" => task["cleanup"].used = backend[Binding].used
<1>1. Binding \in Backend
  BY StorageAssumption
<1>2. backend[Binding] \in Row
  BY <1>1 DEF StorageInv, StorageTypes
<1>3. task["cleanup"] \in Job /\ task["cleanup"].at \in CleanupPlaces
  <2>1. task["cleanup"] # Resting
    BY DEF Works, Is, Resting
  <2>2. TasksInv
    BY DEF StorageInv
  <2> QED
    BY <2>1, <2>2 DEF TasksInv, At, CleanupPlaces
<1>4. task["cleanup"].on = Binding /\ task["cleanup"].of \in Upload
  BY <1>3 DEF Job
<1>5. backend[Binding].config >= 1
  BY DEF StorageInv, BackendsInv
<1>6. backend[Binding].config \in Nat /\ backend[Binding].used \in Nat
  BY <1>2 DEF Row
<1>7. task["cleanup"].of \in version
  BY DEF StorageInv, ObjectsInv
<1>8. task["cleanup"].at \in {"uncount", "take"} => object[task["cleanup"].of] = NoBackend
  BY DEF StorageInv, ObjectsInv, At
<1>9. /\ task["cleanup"].at = "keep" => task["cleanup"].config = backend[Binding].config
      /\ task["cleanup"].at = "take" => task["cleanup"].used = backend[Binding].used
  BY DEF StorageInv, BackendsInv, At
<1> QED
  BY <1>1, <1>3, <1>4, <1>5, <1>6, <1>7, <1>8, <1>9

\* The clean-up that moves alone: what becomes of it and what its step may touch.
LEMMA CleanupKeeps ==
  ASSUME Binding # NoBackend, StorageInv, ~Overlap, Works("cleanup") \/ MayStart("cleanup"), StorageTypes',
         NEW next, task' = [task EXCEPT !["cleanup"] = next],
         next = Resting \/ (next \in Job /\ next.at \in CleanupPlaces /\ next.of \in version'),
         \A b \in Backend : backend'[b].config = backend[b].config,
         \A b \in Backend : b # Binding => backend'[b] = backend[b],
         \A b \in Backend : cache'[b] = cache[b] \/ cache'[b] = backend[b].config,
         \A u \in Upload : object'[u] \in {object[u], NoBackend},
         version' \subseteq version, UNCHANGED <<fileOn, late>>,
         next.at = "keep" => next.config = backend[Binding].config,
         next.at = "take" => next.used = backend'[Binding].used,
         \A u \in version' \ late : object'[u] = Binding \/ (next.at \in Removed /\ next.of = u),
         next.at \in {"uncount", "take"} => object'[next.of] = NoBackend
  PROVE  TasksInv' /\ BackendsInv' /\ ObjectsInv'
<1>0. /\ "cleanup" \in Actor /\ "admin" \in Actor /\ "cleanup" # "admin"
      /\ \A u \in Upload : u \in Actor /\ u # "cleanup"
  BY StorageAssumption DEF Actor
<1>1. /\ \A a \in Actor \ {"cleanup"} : task'[a] = task[a] /\ task[a] \in Idle
      /\ task'["cleanup"] = next
  <2>1. DOMAIN task = Actor
    BY DEF StorageInv, StorageTypes
  <2> QED
    BY <1>0, <2>1, OneWorks
<1>2. \A j \in Idle : j.at \in {"rest", "done"}
  BY DEF Idle, Resting
<1>3. task'["admin"] = Resting
  <2>1. task["admin"] \in Idle /\ task'["admin"] = task["admin"]
    BY <1>0, <1>1
  <2>2. task["admin"].at \in {"rest", "done"}
    BY <1>2, <2>1
  <2> QED
    BY <2>1, <2>2 DEF StorageInv, TasksInv, At
<1>4. \A a \in Actor \ {"cleanup"} : task'[a].at \in {"rest", "done"} /\ task[a].at \in {"rest", "done"}
  BY <1>1, <1>2
<1>5. TasksInv'
  <2>1. \A u \in Upload : task'[u] \in Idle
    BY <1>0, <1>1
  <2>2. \A a, b \in Actor : (Works(a))' /\ (Works(b))' => a = b
    BY <1>4 DEF Works, Is
  <2>3. task'["cleanup"] = Resting \/ (task'["cleanup"] \in Job /\ task'["cleanup"].at \in {"load", "keep", "remove", "uncount", "take", "drop"})
    BY <1>1 DEF CleanupPlaces
  <2> QED
    BY <1>3, <2>1, <2>2, <2>3 DEF TasksInv, At
<1>6. BackendsInv'
  <2>1. \A b \in Backend : cache[b] \in {0, backend[b].config}
    <3>1. ~At("admin", {"forget"})
      BY <1>0, <1>4 DEF At
    <3> QED
      BY <3>1 DEF StorageInv, BackendsInv
  <2>2. \A b \in Backend : cache'[b] \in {0, backend'[b].config}
    BY <2>1
  <2>3. \A u \in Upload : ~(Works(u))'
    BY <1>0, <1>4 DEF Works, Is
  <2>4. backend'[Binding].config >= 1 /\ \A b \in Backend : b # Binding => backend'[b].used = 0
    <3>1. Binding \in Backend
      BY StorageAssumption
    <3> QED
      BY <3>1 DEF StorageInv, BackendsInv
  <2>5. \A a \in Upload \cup {"cleanup"} : a # "cleanup" => task'[a].at \in {"rest", "done"}
    BY <1>0, <1>4
  <2>6. \A a \in Upload \cup {"cleanup"} : task'[a].at \in {"keep"} => task'[a].config = backend'[Binding].config
    <3>1. Binding \in Backend
      BY StorageAssumption
    <3> QED
      BY <1>1, <2>5, <3>1
  <2>7. \A a \in Upload \cup {"cleanup"} : task'[a].at \in {"add", "subtract", "take"} => task'[a].used = backend'[Binding].used
    <3>1. next.at \notin {"add", "subtract"}
      BY DEF CleanupPlaces, Resting
    <3> QED
      BY <1>1, <2>5, <3>1
  <2> QED
    BY <2>2, <2>3, <2>4, <2>6, <2>7 DEF BackendsInv, At
<1>7. ObjectsInv'
  <2>1. \A u \in Upload : task'[u].at \in {"rest", "done"} /\ task'[u] = task[u]
    BY <1>0, <1>1, <1>4
  <2>2. \A u \in Upload : task'[u].at = "rest" => object'[u] = NoBackend /\ u \notin version'
    BY <2>1 DEF StorageInv, ObjectsInv, At
  <2>3. \A u \in Upload : task'[u].at \in {"rest", "quota", "load", "keep", "put"} => object'[u] = NoBackend /\ u \notin version'
    BY <2>1, <2>2
  <2>4. \A u \in Upload : task'[u].at \notin {"count", "add", "record", "undo", "subtract", "erase"}
    BY <2>1
  <2>5. \A u \in version' \ late' : object'[u] = Binding \/ (task'["cleanup"].at \in {"uncount", "take", "drop"} /\ task'["cleanup"].of = u)
    BY <1>1 DEF Removed
  <2>6. (Works("cleanup"))' => task'["cleanup"].of \in version'
    BY <1>1 DEF Works, Is, Resting
  <2>7. version' # {} => fileOn' = Binding
    BY DEF StorageInv, ObjectsInv
  <2>8. task'["cleanup"].at \in {"uncount", "take"} => object'[task'["cleanup"].of] = NoBackend
    BY <1>1
  <2> QED
    BY <2>3, <2>4, <2>5, <2>6, <2>7, <2>8 DEF ObjectsInv, At
<1> QED
  BY <1>5, <1>6, <1>7

\* What is counted while the clean-up moves alone.
LEMMA CountedByCleanup ==
  ASSUME Binding # NoBackend, StorageInv, ~Overlap, Works("cleanup") \/ MayStart("cleanup"),
         \A a \in Actor \ {"cleanup"} : task'[a] = task[a]
  PROVE  Uncounted = {} /\ Uncounted' = {}
<1>0. \A u \in Upload : u \in Actor \ {"cleanup"}
  BY StorageAssumption DEF Actor
<1>1. \A j \in Idle : j.at \in {"rest", "done"}
  BY DEF Idle, Resting
<1>2. "cleanup" \in Actor
  BY DEF Actor
<1>3. \A u \in Upload : task[u].at \in {"rest", "done"} /\ task'[u].at \in {"rest", "done"}
  BY <1>0, <1>1, <1>2, OneWorks
<1> QED
  BY <1>3 DEF Uncounted, At

\* A step of the clean-up that writes nothing but an adapter.
LEMMA CleanupMoves ==
  ASSUME Binding # NoBackend, StorageInv, ~Overlap, Works("cleanup") \/ MayStart("cleanup"),
         NEW next, task' = [task EXCEPT !["cleanup"] = next],
         next \in Job, next.at \in CleanupPlaces, next.of \in version,
         UNCHANGED <<backend, object, version, fileOn, late>>,
         \A b \in Backend : cache'[b] = cache[b] \/ cache'[b] = backend[b].config,
         cache' \in [Backend -> Nat],
         next.at = "keep" => next.config = backend[Binding].config,
         next.at = "take" => next.used = backend[Binding].used,
         At("cleanup", Removed) => next.at \in Removed /\ next.of = task["cleanup"].of,
         next.at \in {"uncount", "take"} <=> At("cleanup", {"uncount", "take"})
  PROVE  StorageInv'
<1>1. "cleanup" \in Actor /\ DOMAIN task = Actor
  BY DEF Actor, StorageInv, StorageTypes
<1>2. StorageTypes'
  BY <1>1 DEF StorageInv, StorageTypes
<1>3. task'["cleanup"] = next /\ \A a \in Actor \ {"cleanup"} : task'[a] = task[a]
  BY <1>1
<1>4. \A u \in version \ late : object[u] = Binding \/ (next.at \in Removed /\ next.of = u)
  BY DEF StorageInv, ObjectsInv, At, Removed
<1>5. next.at \in {"uncount", "take"} => object[next.of] = NoBackend
  BY DEF StorageInv, ObjectsInv, At, Removed
<1>6. \A u \in Upload : object'[u] \in {object[u], NoBackend}
  OBVIOUS
<1>7. TasksInv' /\ BackendsInv' /\ ObjectsInv'
  BY <1>2, <1>4, <1>5, <1>6, CleanupKeeps
<1>8. Overcounted' = Overcounted
  BY <1>3 DEF Overcounted, At, Removed
<1>9. Uncounted = {} /\ Uncounted' = {}
  BY <1>3, CountedByCleanup
<1>10. Counted' = Counted
  BY <1>8, <1>9 DEF Counted, Held
<1>11. CountInv'
  BY <1>10 DEF StorageInv, CountInv
<1> QED
  BY <1>2, <1>7, <1>11 DEF StorageInv

\* Every step of the clean-up keeps the books.
LEMMA CleanupStepKeeps ==
  ASSUME Binding # NoBackend, StorageInv, ~Overlap, CleanupStep
  PROVE  StorageInv'
<1>0. "cleanup" \in Actor /\ DOMAIN task = Actor /\ Binding \in Backend /\ cache \in [Backend -> Nat]
  BY StorageAssumption DEF Actor, StorageInv, StorageTypes
<1> DEFINE j == task["cleanup"]
           Quiet == UNCHANGED <<backend, object, version, fileOn, late>>
<1>a. ASSUME NEW p \in CleanupPlaces, Is("cleanup", p) PROVE Works("cleanup") /\ task["cleanup"].at = p
  BY <1>a DEF Is, Works, CleanupPlaces
<1>m. ASSUME Works("cleanup"), NEW p \in CleanupPlaces
      PROVE  /\ [j EXCEPT !.at = p] \in Job /\ [j EXCEPT !.at = p].at = p
             /\ [j EXCEPT !.at = p].of = j.of /\ j.of \in version
  <2>1. PICK k \in Job : k = j
    BY <1>m, CleanupFacts
  <2>2. p \in JobPlaces
    BY DEF JobPlaces, CleanupPlaces
  <2>3. [k EXCEPT !.at = p] \in Job /\ [k EXCEPT !.at = p].of = k.of /\ [k EXCEPT !.at = p].at = p
    BY <2>2, JobMoves
  <2>4. j.of \in version
    BY <1>m, CleanupFacts
  <2> QED
    BY <2>1, <2>3, <2>4
<1>1. ASSUME NEW u \in Upload, StartRemoval(u) PROVE StorageInv'
  <2>1. MayStart("cleanup") /\ task["cleanup"].at = "rest" /\ u \in version
    BY <1>1 DEF StartRemoval, MayStart, Is
  <2>2. fileOn = Binding
    BY <2>1 DEF StorageInv, ObjectsInv
  <2>3. PICK next : next = [at |-> "load", on |-> Binding, of |-> u, direct |-> FALSE, config |-> 0, used |-> 0]
    OBVIOUS
  <2>4. task' = [task EXCEPT !["cleanup"] = next] /\ Quiet /\ UNCHANGED cache
    BY <1>1, <2>2, <2>3 DEF StartRemoval, Then
  <2>5. next \in Job /\ next.at = "load" /\ next.of = u
    BY <2>3 DEF Job
  <2> QED
    BY <1>0, <2>1, <2>4, <2>5, CleanupMoves DEF CleanupPlaces, Removed, At
<1>2. ASSUME LoadAdapter("cleanup", "remove") PROVE StorageInv'
  <2>1. Works("cleanup") /\ j.at = "load"
    BY <1>2, <1>a DEF LoadAdapter, CleanupPlaces
  <2>2. PICK next : /\ task' = [task EXCEPT !["cleanup"] = next]
                    /\ next \in {[j EXCEPT !.at = "remove"], [j EXCEPT !.at = "keep", !.config = backend[Binding].config]}
    <3>1. HasRow(Binding) /\ j.on = Binding
      BY <2>1, CleanupFacts DEF HasRow
    <3> QED
      BY <1>2, <3>1 DEF LoadAdapter, Then
  <2>3. \/ next \in Job /\ next.of \in version /\ next.at = "remove"
        \/ next \in Job /\ next.of \in version /\ next.at = "keep" /\ next.config = backend[Binding].config
    <3>1. [j EXCEPT !.at = "remove"] \in Job /\ [j EXCEPT !.at = "remove"].of \in version /\ [j EXCEPT !.at = "remove"].at = "remove"
      BY <2>1, <1>m DEF CleanupPlaces
    <3>2. PICK n \in Nat : n = backend[Binding].config
      BY <2>1, CleanupFacts
    <3>3. j \in Job /\ j.of \in version /\ "keep" \in JobPlaces
      BY <2>1, CleanupFacts DEF JobPlaces
    <3>4. PICK k : k = AtLoads(j, "keep", n)
      OBVIOUS
    <3>5. k \in Job /\ k.of \in version /\ k.at = "keep" /\ k.config = n
      <4> HIDE DEF j
      <4> QED
        BY <3>2, <3>3, <3>4, JobLoads
    <3>6. k = [j EXCEPT !.at = "keep", !.config = backend[Binding].config]
      BY <3>2, <3>4 DEF AtLoads
    <3> QED
      BY <2>2, <3>1, <3>2, <3>5, <3>6
  <2>4. Quiet /\ UNCHANGED cache
    BY <1>2 DEF LoadAdapter
  <2> QED
    BY <1>0, <2>1, <2>2, <2>3, <2>4, CleanupMoves DEF CleanupPlaces, Removed, At
<1>3. ASSUME KeepAdapter("cleanup", "remove") PROVE StorageInv'
  <2>1. Works("cleanup") /\ j.at = "keep"
    BY <1>3, <1>a DEF KeepAdapter, CleanupPlaces
  <2>2. task' = [task EXCEPT !["cleanup"] = [j EXCEPT !.at = "remove"]] /\ Quiet
    BY <1>3 DEF KeepAdapter, Move, Then
  <2>3. PICK next : next = [j EXCEPT !.at = "remove"] /\ next \in Job /\ next.of \in version /\ next.at = "remove"
    BY <2>1, <1>m DEF CleanupPlaces
  <2>4. cache' = [cache EXCEPT ![Binding] = backend[Binding].config]
    BY <1>3, <2>1, CleanupFacts DEF KeepAdapter
  <2>5. cache' \in [Backend -> Nat] /\ \A b \in Backend : cache'[b] = cache[b] \/ cache'[b] = backend[b].config
    BY <1>0, <2>1, <2>4, CleanupFacts
  <2> QED
    BY <2>1, <2>2, <2>3, <2>5, CleanupMoves DEF CleanupPlaces, Removed, At
<1>4. ASSUME RemovalFails PROVE StorageInv'
  <2>1. Works("cleanup") /\ j.at = "remove"
    BY <1>4, <1>a DEF RemovalFails, CleanupPlaces
  <2>2. task' = [task EXCEPT !["cleanup"] = [j EXCEPT !.at = "drop"]] /\ Quiet /\ UNCHANGED cache
    BY <1>4 DEF RemovalFails, Move, Then
  <2>3. PICK next : next = [j EXCEPT !.at = "drop"] /\ next \in Job /\ next.of \in version /\ next.at = "drop"
    BY <2>1, <1>m DEF CleanupPlaces
  <2> QED
    BY <1>0, <2>1, <2>2, <2>3, CleanupMoves DEF CleanupPlaces, Removed, At
<1>5. ASSUME ReadUsage("cleanup", "uncount", "take") PROVE StorageInv'
  <2>1. Works("cleanup") /\ j.at = "uncount"
    BY <1>5, <1>a DEF ReadUsage, CleanupPlaces
  <2>2. task' = [task EXCEPT !["cleanup"] = [j EXCEPT !.at = "take", !.used = backend[Binding].used]]
    <3>1. HasRow(Binding) /\ j.on = Binding
      BY <2>1, CleanupFacts DEF HasRow
    <3> QED
      BY <1>5, <3>1 DEF ReadUsage, Then
  <2>3. PICK next : /\ next = [j EXCEPT !.at = "take", !.used = backend[Binding].used]
                    /\ next \in Job /\ next.of = j.of /\ next.at = "take" /\ next.used = backend[Binding].used
    <3>1. PICK n \in Nat : n = backend[Binding].used
      BY <2>1, CleanupFacts
    <3>2. PICK next : next = AtReads(j, "take", n)
      OBVIOUS
    <3>3. j \in Job /\ "take" \in JobPlaces
      BY <2>1, CleanupFacts DEF JobPlaces
    <3>4. next \in Job /\ next.of = j.of /\ next.at = "take" /\ next.used = n
      <4> HIDE DEF j
      <4> QED
        BY <3>1, <3>2, <3>3, JobReads
    <3>5. next = [j EXCEPT !.at = "take", !.used = backend[Binding].used]
      BY <3>1, <3>2 DEF AtReads
    <3> QED
      BY <3>4, <3>5, <3>1
  <2>4. Quiet /\ UNCHANGED cache /\ j.of \in version
    BY <1>5, <2>1, CleanupFacts DEF ReadUsage
  <2> QED
    BY <1>0, <2>1, <2>2, <2>3, <2>4, CleanupMoves DEF CleanupPlaces, Removed, At
<1>6. ASSUME RemoveObject PROVE StorageInv'
  <2>1. Works("cleanup") /\ j.at = "remove"
    BY <1>6, <1>a DEF RemoveObject, CleanupPlaces
  <2>2. PICK next : next = [j EXCEPT !.at = "uncount"] /\ next \in Job /\ next.of = j.of /\ next.at = "uncount"
    BY <2>1, <1>m DEF CleanupPlaces
  <2>3. PICK u \in Upload : u = j.of /\ u \in version
    BY <2>1, CleanupFacts
  <2>4. /\ task' = [task EXCEPT !["cleanup"] = next] /\ UNCHANGED <<backend, cache, version, fileOn, late>>
        /\ object' = [object EXCEPT ![u] = IF @ = Binding THEN NoBackend ELSE @]
    BY <1>6, <2>1, <2>2, <2>3, CleanupFacts DEF RemoveObject, Move, Then
  <2>5. /\ object' \in [Upload -> {NoBackend, Binding}] /\ object'[u] = NoBackend
        /\ \A v \in Upload \ {u} : object'[v] = object[v]
    BY <2>4 DEF StorageInv, StorageTypes
  <2>6. StorageTypes'
    BY <1>0, <2>4, <2>5 DEF StorageInv, StorageTypes
  <2>7. \A v \in version \ late : object'[v] = Binding \/ v = u
    <3>1. ~At("cleanup", {"uncount", "take", "drop"}) /\ version \subseteq Upload
      BY <2>1 DEF At, StorageInv, StorageTypes
    <3> QED
      BY <2>5, <3>1 DEF StorageInv, ObjectsInv
  <2>8. \A v \in Upload : object'[v] \in {object[v], NoBackend}
    BY <2>5
  <2>9. TasksInv' /\ BackendsInv' /\ ObjectsInv'
    <3>1. next \in Job /\ next.at \in CleanupPlaces /\ next.of \in version' /\ version' \subseteq version
      BY <2>2, <2>3, <2>4 DEF CleanupPlaces
    <3>2. next.at \notin {"keep", "take"} /\ object'[next.of] = NoBackend
      BY <2>2, <2>3, <2>5
    <3>3. \A v \in version' \ late : object'[v] = Binding \/ (next.at \in Removed /\ next.of = v)
      BY <2>2, <2>3, <2>4, <2>7 DEF Removed
    <3>4. /\ \A b \in Backend : backend'[b].config = backend[b].config
          /\ \A b \in Backend : b # Binding => backend'[b] = backend[b]
          /\ \A b \in Backend : cache'[b] = cache[b] \/ cache'[b] = backend[b].config
      BY <2>4
    <3> QED
      BY <2>1, <2>4, <2>6, <2>8, <3>1, <3>2, <3>3, <3>4, CleanupKeeps
  <2>10. task'["cleanup"] = next /\ \A a \in Actor \ {"cleanup"} : task'[a] = task[a]
    BY <1>0, <2>4
  <2>11. CountInv'
    <3> SUFFICES ASSUME late = {} PROVE backend[Binding].used = Bytes(Counted')
      BY <2>4 DEF CountInv
    <3>1. Uncounted = {} /\ Uncounted' = {}
      BY <2>1, <2>10, CountedByCleanup
    <3>2. Overcounted = {} /\ Overcounted' = {u}
      BY <2>1, <2>2, <2>3, <2>10 DEF Overcounted, At
    <3>3. object[u] = Binding
      BY <2>1, <2>3 DEF StorageInv, ObjectsInv, At
    <3>4. Held = Held' \cup {u}
      BY <2>5, <3>3, StorageAssumption DEF Held
    <3>5. Counted' = Counted
      BY <3>1, <3>2, <3>4 DEF Counted
    <3> QED
      BY <3>5 DEF StorageInv, CountInv
  <2> QED
    BY <2>6, <2>9, <2>11 DEF StorageInv
<1>7. ASSUME WriteUsage("cleanup", "take", Subtracted("cleanup"), "drop") PROVE StorageInv'
  <2>1. Works("cleanup") /\ j.at = "take"
    BY <1>7, <1>a DEF WriteUsage, CleanupPlaces
  <2>2. PICK next : next = [j EXCEPT !.at = "drop"] /\ next \in Job /\ next.of = j.of /\ next.at = "drop"
    BY <2>1, <1>m DEF CleanupPlaces
  <2>3. PICK u \in Upload : u = j.of /\ u \in version
    BY <2>1, CleanupFacts
  <2>4. PICK k \in Nat, n \in Nat : k = backend[Binding].used /\ n = Size[u]
    BY <2>1, CleanupFacts, StorageAssumption
  <2>5. PICK used : used = IF k > n THEN k - n ELSE 0
    OBVIOUS
  <2>6. used \in Nat
    BY <2>5
  <2>7. task' = [task EXCEPT !["cleanup"] = next] /\ UNCHANGED <<cache, object, version, fileOn, late>>
        /\ backend' = [backend EXCEPT ![Binding].used = used]
    BY <1>7, <2>1, <2>2, <2>3, <2>4, <2>5, CleanupFacts DEF WriteUsage, Move, Then, Subtracted
  <2>8. PICK row \in Row : row = backend[Binding]
    BY <1>0 DEF StorageInv, StorageTypes
  <2>9. [row EXCEPT !.used = used] \in Row /\ [row EXCEPT !.used = used].used = used
        /\ [row EXCEPT !.used = used].config = row.config
    BY <2>6 DEF Row
  <2>10. /\ backend' \in [Backend -> Row] /\ backend'[Binding].used = used
         /\ \A b \in Backend : backend'[b].config = backend[b].config
         /\ \A b \in Backend : b # Binding => backend'[b] = backend[b]
    BY <1>0, <2>7, <2>8, <2>9 DEF StorageInv, StorageTypes
  <2>11. StorageTypes'
    BY <1>0, <2>7, <2>10 DEF StorageInv, StorageTypes
  <2>12. \A v \in version \ late : object[v] = Binding \/ v = u
    BY <2>3 DEF StorageInv, ObjectsInv
  <2>13. TasksInv' /\ BackendsInv' /\ ObjectsInv'
    <3>1. \A v \in Upload : object'[v] \in {object[v], NoBackend}
      BY <2>7
    <3>2. next \in Job /\ next.at \in CleanupPlaces /\ next.of \in version' /\ version' \subseteq version
      BY <2>2, <2>3, <2>7 DEF CleanupPlaces
    <3>3. next.at \notin {"keep", "uncount", "take"}
      BY <2>2
    <3>4. \A v \in version' \ late : object'[v] = Binding \/ (next.at \in Removed /\ next.of = v)
      BY <2>2, <2>3, <2>7, <2>12 DEF Removed
    <3>5. \A b \in Backend : cache'[b] = cache[b] \/ cache'[b] = backend[b].config
      BY <2>7
    <3> QED
      BY <2>1, <2>7, <2>10, <2>11, <3>1, <3>2, <3>3, <3>4, <3>5, CleanupKeeps
  <2>14. task'["cleanup"] = next /\ \A a \in Actor \ {"cleanup"} : task'[a] = task[a]
    BY <1>0, <2>7
  <2>15. CountInv'
    <3> SUFFICES ASSUME late = {} PROVE used = Bytes(Counted')
      BY <2>7, <2>10 DEF CountInv
    <3>1. Uncounted = {} /\ Uncounted' = {}
      BY <2>1, <2>14, CountedByCleanup
    <3>2. Overcounted = {u} /\ Overcounted' = {}
      BY <2>1, <2>2, <2>3, <2>14 DEF Overcounted, At
    <3>3. u \notin Held /\ Held' = Held /\ Held \subseteq Upload
      <4>1. object[u] = NoBackend
        BY <2>1, <2>3, CleanupFacts
      <4> QED
        BY <2>7, <4>1 DEF Held
    <3>4. Counted = Counted' \cup {u} /\ u \notin Counted' /\ Counted' \subseteq Upload
      BY <3>1, <3>2, <3>3 DEF Counted
    <3>5. PICK now, left : now = Counted /\ left = Counted'
      OBVIOUS
    <3>6. Bytes(left) \in Nat /\ k = Bytes(left) + n
      <4>1. k = Bytes(now)
        BY <2>4, <3>5 DEF StorageInv, CountInv
      <4>2. now = left \cup {u} /\ u \notin left /\ left \subseteq Upload
        BY <3>4, <3>5
      <4> QED
        BY <2>4, <4>1, <4>2, BytesOfOneMore
    <3>7. used = Bytes(left)
      <4>1. PICK m \in Nat : m = Bytes(left)
        BY <3>6
      <4>2. k = m + n
        BY <3>6, <4>1
      <4> QED
        BY <2>5, <4>1, <4>2
    <3> QED
      BY <3>5, <3>7
  <2> QED
    BY <2>11, <2>13, <2>15 DEF StorageInv
<1>8. ASSUME DropVersion PROVE StorageInv'
  <2>1. Works("cleanup") /\ j.at = "drop"
    BY <1>8, <1>a DEF DropVersion, CleanupPlaces
  <2>2. PICK u \in Upload : u = j.of /\ u \in version
    BY <2>1, CleanupFacts
  <2>3. PICK next : next = Resting
    OBVIOUS
  <2>4. task' = [task EXCEPT !["cleanup"] = next] /\ UNCHANGED <<backend, cache, object, fileOn, late>>
        /\ version' = version \ {u}
    BY <1>8, <2>2, <2>3 DEF DropVersion, Then
  <2>5. StorageTypes'
    BY <1>0, <2>4 DEF StorageInv, StorageTypes
  <2>6. \A v \in version' \ late : object'[v] = Binding
    BY <2>2, <2>4 DEF StorageInv, ObjectsInv
  <2>7. next.at = "rest"
    BY <2>3 DEF Resting
  <2>8. TasksInv' /\ BackendsInv' /\ ObjectsInv'
    <3>1. \A v \in Upload : object'[v] \in {object[v], NoBackend}
      BY <2>4
    <3>2. version' \subseteq version
      BY <2>4
    <3> QED
      BY <2>1, <2>3, <2>4, <2>5, <2>6, <2>7, <3>1, <3>2, CleanupKeeps DEF CleanupPlaces, Removed
  <2>9. task'["cleanup"] = next /\ \A a \in Actor \ {"cleanup"} : task'[a] = task[a]
    BY <1>0, <2>4
  <2>10. CountInv'
    <3>1. Uncounted = {} /\ Uncounted' = {}
      BY <2>1, <2>9, CountedByCleanup
    <3>2. Overcounted = {} /\ Overcounted' = {}
      BY <2>1, <2>7, <2>9 DEF Overcounted, At
    <3>3. Counted' = Counted
      BY <2>4, <3>1, <3>2 DEF Counted, Held
    <3> QED
      BY <2>4, <3>3 DEF StorageInv, CountInv
  <2> QED
    BY <2>5, <2>8, <2>10 DEF StorageInv
<1> QED
  BY <1>1, <1>2, <1>3, <1>4, <1>5, <1>6, <1>7, <1>8 DEF CleanupStep

-----------------------------------------------------------------------------
\* What the admin's request remembers; it never creates or deletes the project's backend.
AdminJob == [at : {"clear", "write", "forget"}, on : Backend, change : Change, quota : Nat]
Sparing(j) == j.change \in {"new", "new default", "delete"} => j.on # Binding

\* The admin moves alone: what becomes of the request and what its step may touch.
LEMMA AdminKeeps ==
  ASSUME Binding # NoBackend, StorageInv, ~Overlap, Works("admin") \/ MayStart("admin"),
         NEW next, task' = [task EXCEPT !["admin"] = next],
         next = Resting \/ (next \in AdminJob /\ Sparing(next)),
         UNCHANGED <<object, version, fileOn, late>>,
         backend' \in [Backend -> Row], cache' \in [Backend -> Nat],
         backend'[Binding].config >= 1, backend'[Binding].used = backend[Binding].used,
         \A b \in Backend : b # Binding => backend'[b].used = 0,
         \A b \in Backend : cache'[b] \in {0, backend'[b].config} \/ (next.at = "forget" /\ next.on = b)
  PROVE  StorageInv'
<1>0. /\ "cleanup" \in Actor /\ "admin" \in Actor /\ "cleanup" # "admin" /\ DOMAIN task = Actor
      /\ \A u \in Upload : u \in Actor /\ u # "admin"
  BY StorageAssumption DEF Actor, StorageInv, StorageTypes
<1>1. /\ \A a \in Actor \ {"admin"} : task'[a] = task[a] /\ task[a] \in Idle
      /\ task'["admin"] = next
  BY <1>0, OneWorks
<1>2. \A j \in Idle : j.at \in {"rest", "done"}
  BY DEF Idle, Resting
<1>3. \A a \in Actor \ {"admin"} : task'[a].at \in {"rest", "done"} /\ task[a].at \in {"rest", "done"}
  BY <1>1, <1>2
<1>4. StorageTypes'
  BY <1>0 DEF StorageInv, StorageTypes
<1>5. task'["cleanup"] = Resting
  <2>1. task["cleanup"] \in Idle /\ task'["cleanup"] = task["cleanup"] /\ task["cleanup"].at \in {"rest", "done"}
    BY <1>0, <1>1, <1>2
  <2> QED
    BY <2>1 DEF StorageInv, TasksInv, At
<1>6. TasksInv'
  <2>1. \A u \in Upload : task'[u] \in Idle
    BY <1>0, <1>1
  <2>2. \A a, b \in Actor : (Works(a))' /\ (Works(b))' => a = b
    BY <1>3 DEF Works, Is
  <2>3. \/ task'["admin"] = Resting
        \/ /\ task'["admin"] \in [at : {"clear", "write", "forget"}, on : Backend, change : Change, quota : Nat]
           /\ task'["admin"].change \in {"new", "new default", "delete"} => task'["admin"].on # Binding
    BY <1>1 DEF AdminJob, Sparing
  <2> QED
    BY <1>5, <2>1, <2>2, <2>3 DEF TasksInv
<1>7. BackendsInv'
  <2>1. \A b \in Backend : cache'[b] \in {0, backend'[b].config} \/ (task'["admin"].at \in {"forget"} /\ task'["admin"].on = b)
    BY <1>1
  <2>2. \A u \in Upload : ~(Works(u))'
    BY <1>0, <1>3 DEF Works, Is
  <2>3. \A a \in Upload \cup {"cleanup"} : task'[a].at \notin {"keep", "add", "subtract", "take"}
    BY <1>0, <1>3
  <2> QED
    BY <2>1, <2>2, <2>3 DEF BackendsInv, At
<1>8. ObjectsInv'
  <2>1. \A a \in Upload \cup {"cleanup"} : task'[a] = task[a]
    BY <1>0, <1>1
  <2> QED
    BY <2>1 DEF StorageInv, ObjectsInv, At, Works, Is
<1>9. CountInv'
  <2>1. Counted' = Counted
    <3>1. \A u \in Upload : task'[u] = task[u]
      BY <1>0, <1>1
    <3>2. task'["cleanup"] = task["cleanup"]
      BY <1>0, <1>1
    <3> QED
      BY <3>1, <3>2 DEF Counted, Held, Uncounted, Overcounted, At
  <2> QED
    BY <2>1 DEF StorageInv, CountInv
<1> QED
  BY <1>4, <1>6, <1>7, <1>8, <1>9 DEF StorageInv

\* Every step of the admin keeps the books.
LEMMA AdminStepKeeps ==
  ASSUME Binding # NoBackend, StorageInv, ~Overlap, AdminBackendStep
  PROVE  StorageInv'
<1>0. /\ "admin" \in Actor /\ DOMAIN task = Actor /\ Binding \in Backend
      /\ cache \in [Backend -> Nat] /\ backend \in [Backend -> Row]
  BY StorageAssumption DEF Actor, StorageInv, StorageTypes
<1>1. /\ backend[Binding].config >= 1
      /\ \A b \in Backend : b # Binding => backend[b].used = 0
  BY DEF StorageInv, BackendsInv
<1>2. MayStart("admin") => \A b \in Backend : cache[b] \in {0, backend[b].config}
  BY DEF StorageInv, BackendsInv, At, MayStart, Is
<1>3. ASSUME Works("admin")
      PROVE  task["admin"] \in AdminJob /\ Sparing(task["admin"])
  <2>1. task["admin"] # Resting
    BY <1>3 DEF Works, Is, Resting
  <2>2. TasksInv
    BY DEF StorageInv
  <2> QED
    BY <2>1, <2>2 DEF TasksInv, AdminJob, Sparing
<1>4. ASSUME NEW place \in {"clear", "write"}, NEW b \in Backend, NEW change \in Change, NEW quota \in Nat,
             Administer(place, b, change, quota), change \in {"new", "new default", "delete"} => b # Binding
      PROVE  StorageInv'
  <2>1. PICK next : next = [at |-> place, on |-> b, change |-> change, quota |-> quota]
    OBVIOUS
  <2>2. next \in AdminJob /\ Sparing(next)
    BY <1>4, <2>1 DEF AdminJob, Sparing
  <2>3. MayStart("admin") /\ task' = [task EXCEPT !["admin"] = next]
        /\ UNCHANGED <<backend, cache, object, version, fileOn, late>>
    BY <1>4, <2>1 DEF Administer, Then
  <2> QED
    BY <1>0, <1>1, <1>2, <2>2, <2>3, AdminKeeps
<1>5. ASSUME NEW b \in Backend, NEW isDefault \in BOOLEAN, NEW quota \in Quota, StartCreation(b, isDefault, quota)
      PROVE  StorageInv'
  <2>1. b # Binding /\ quota \in Nat
    BY <1>5, StorageAssumption DEF StartCreation, Unknown
  <2>2. Administer("clear", b, "new default", quota) \/ Administer("write", b, "new", quota)
    BY <1>5 DEF StartCreation
  <2> QED
    BY <1>4, <2>1, <2>2 DEF Change
<1>6. ASSUME NEW b \in Backend, NEW change \in {"config", "default", "active", "quota"}, NEW quota \in Nat,
             StartUpdate(b, change, quota)
      PROVE  StorageInv'
  <2>1. Administer("clear", b, change, quota) \/ Administer("write", b, change, quota)
    BY <1>6 DEF StartUpdate
  <2> QED
    BY <1>4, <2>1 DEF Change
<1>7. ASSUME NEW b \in Backend, StartDeletion(b) PROVE StorageInv'
  <2>1. b # Binding /\ Administer("write", b, "delete", 0)
    BY <1>7 DEF StartDeletion
  <2> QED
    BY <1>4, <2>1 DEF Change
<1>8. ASSUME ClearDefaults PROVE StorageInv'
  <2>1. task["admin"].at = "clear" /\ Works("admin")
    BY <1>8 DEF ClearDefaults, Is, Works
  <2>2. PICK j \in AdminJob : j = task["admin"] /\ Sparing(j)
    BY <1>3, <2>1
  <2>3. PICK next : next = [j EXCEPT !.at = "write"]
    OBVIOUS
  <2>4. next \in AdminJob /\ next.at = "write" /\ Sparing(next)
    BY <2>2, <2>3 DEF AdminJob, Sparing
  <2>5. task' = [task EXCEPT !["admin"] = next] /\ UNCHANGED <<cache, object, version, fileOn, late>>
        /\ backend' = [b \in Backend |-> [backend[b] EXCEPT !.isDefault = FALSE]]
    BY <1>8, <2>2, <2>3 DEF ClearDefaults, Move, Then
  <2>6. \A row \in Row : /\ [row EXCEPT !.isDefault = FALSE] \in Row
                         /\ [row EXCEPT !.isDefault = FALSE].config = row.config
                         /\ [row EXCEPT !.isDefault = FALSE].used = row.used
    BY DEF Row
  <2>7. /\ backend' \in [Backend -> Row]
        /\ \A b \in Backend : backend'[b].config = backend[b].config /\ backend'[b].used = backend[b].used
    BY <1>0, <2>5, <2>6
  <2>8. \A b \in Backend : cache'[b] \in {0, backend'[b].config}
    <3>1. ~At("admin", {"forget"})
      BY <2>1 DEF At
    <3> QED
      BY <2>5, <2>7, <3>1 DEF StorageInv, BackendsInv
  <2>9. /\ backend'[Binding].config >= 1 /\ backend'[Binding].used = backend[Binding].used
        /\ \A b \in Backend : b # Binding => backend'[b].used = 0
    BY <1>0, <1>1, <2>7
  <2>10. cache' \in [Backend -> Nat]
    BY <1>0, <2>5
  <2> QED
    BY <2>1, <2>4, <2>5, <2>7, <2>8, <2>9, <2>10, AdminKeeps
<1>9. ASSUME WriteBackend PROVE StorageInv'
  <2>1. task["admin"].at = "write" /\ Works("admin")
    BY <1>9 DEF WriteBackend, Is, Works
  <2>2. PICK j \in AdminJob : j = task["admin"] /\ Sparing(j)
    BY <1>3, <2>1
  <2>3. PICK next : next = [j EXCEPT !.at = "forget"]
    OBVIOUS
  <2>4. next \in AdminJob /\ next.at = "forget" /\ next.on = j.on /\ Sparing(next)
    BY <2>2, <2>3 DEF AdminJob, Sparing
  <2>5. j.on \in Backend /\ j.change \in Change /\ j.quota \in Nat
    BY DEF AdminJob
  <2>6. PICK row \in Row : row = backend[j.on]
    BY <1>0, <2>5
  <2>7. PICK new : new = Changed(row, j.change, j.quota)
    OBVIOUS
  <2>8. task' = [task EXCEPT !["admin"] = next] /\ UNCHANGED <<cache, object, version, fileOn, late>>
        /\ backend' = [backend EXCEPT ![j.on] = new]
    BY <1>9, <2>2, <2>3, <2>6, <2>7 DEF WriteBackend, Move, Then
  <2>9. /\ new \in Row
        /\ j.change \in {"new", "new default"} => new.used = 0
        /\ j.change \notin {"new", "new default"} => new.used = row.used
        /\ j.change \notin {"new", "new default", "delete"} => new.config >= row.config
    <3>1. CASE j.change \in {"new", "new default"}
      BY <2>5, <2>7, <3>1 DEF Changed, Row
    <3>2. CASE j.change = "config"
      <4>1. new = [row EXCEPT !.config = @ + 1]
        BY <2>7, <3>2 DEF Changed
      <4> QED
        BY <3>2, <4>1 DEF Row
    <3>3. CASE j.change = "default"
      <4>1. new = [row EXCEPT !.isDefault = TRUE]
        BY <2>7, <3>3 DEF Changed
      <4>2. new \in Row /\ new.used = row.used /\ new.config = row.config
        BY <4>1 DEF Row
      <4>3. row.config \in Nat
        BY DEF Row
      <4> QED
        BY <3>3, <4>2, <4>3
    <3>4. CASE j.change = "active"
      <4>1. new = [row EXCEPT !.active = ~@]
        BY <2>7, <3>4 DEF Changed
      <4>2. new \in Row /\ new.used = row.used /\ new.config = row.config
        BY <4>1 DEF Row
      <4>3. row.config \in Nat
        BY DEF Row
      <4> QED
        BY <3>4, <4>2, <4>3
    <3>5. CASE j.change = "quota"
      <4>1. new = [row EXCEPT !.quota = j.quota]
        BY <2>7, <3>5 DEF Changed
      <4> QED
        BY <2>5, <3>5, <4>1 DEF Row
    <3>6. CASE j.change = "delete"
      <4>1. new = [row EXCEPT !.config = 0]
        BY <2>7, <3>6 DEF Changed
      <4> QED
        BY <3>6, <4>1 DEF Row
    <3> QED
      BY <2>5, <3>1, <3>2, <3>3, <3>4, <3>5, <3>6 DEF Change
  <2>10. backend' \in [Backend -> Row] /\ backend'[j.on] = new /\ \A b \in Backend \ {j.on} : backend'[b] = backend[b]
    BY <1>0, <2>5, <2>8, <2>9
  <2>11. backend'[Binding].config >= 1 /\ backend'[Binding].used = backend[Binding].used
    <3>1. CASE j.on = Binding
      <4>1. j.change \notin {"new", "new default", "delete"}
        BY <2>2, <3>1 DEF Sparing
      <4>2. new.config >= row.config /\ row.config >= 1 /\ new.config \in Nat /\ row.config \in Nat
        BY <1>1, <2>6, <2>9, <3>1, <4>1 DEF Row
      <4>3. new.used = row.used /\ new = backend'[Binding] /\ row = backend[Binding]
        BY <2>6, <2>9, <2>10, <3>1, <4>1
      <4>4. new.config >= 1
        BY <4>2
      <4> QED
        BY <4>3, <4>4
    <3>2. CASE j.on # Binding
      BY <1>0, <1>1, <2>10, <3>2
    <3> QED
      BY <3>1, <3>2
  <2>12. \A b \in Backend : b # Binding => backend'[b].used = 0
    BY <1>1, <2>6, <2>9, <2>10
  <2>13. \A b \in Backend : cache'[b] \in {0, backend'[b].config} \/ (next.at = "forget" /\ next.on = b)
    <3>1. ~At("admin", {"forget"})
      BY <2>1 DEF At
    <3>2. \A b \in Backend : cache[b] \in {0, backend[b].config}
      BY <3>1 DEF StorageInv, BackendsInv
    <3> QED
      BY <2>4, <2>8, <2>10, <3>2
  <2> QED
    BY <1>0, <2>1, <2>4, <2>8, <2>10, <2>11, <2>12, <2>13, AdminKeeps
<1>10. ASSUME ForgetAdapter PROVE StorageInv'
  <2>1. task["admin"].at = "forget" /\ Works("admin")
    BY <1>10 DEF ForgetAdapter, Is, Works
  <2>2. PICK j \in AdminJob : j = task["admin"]
    BY <1>3, <2>1
  <2>3. PICK next : next = Resting
    OBVIOUS
  <2>4. task' = [task EXCEPT !["admin"] = next] /\ UNCHANGED <<backend, object, version, fileOn, late>>
        /\ cache' = [cache EXCEPT ![j.on] = 0]
    BY <1>10, <2>2, <2>3 DEF ForgetAdapter, Then, Forgotten
  <2>5. j.on \in Backend /\ cache' \in [Backend -> Nat]
    BY <1>0, <2>4 DEF AdminJob
  <2>6. \A b \in Backend : cache'[b] \in {0, backend'[b].config}
    BY <1>0, <2>2, <2>4, <2>5 DEF StorageInv, BackendsInv
  <2> QED
    BY <1>0, <1>1, <2>1, <2>3, <2>4, <2>5, <2>6, AdminKeeps
<1> QED
  <2>1. 0 \in Nat /\ Quota \subseteq Nat
    BY StorageAssumption
  <2> QED
    BY <1>5, <1>6, <1>7, <1>8, <1>9, <1>10, <2>1 DEF AdminBackendStep

\* They are right at first.
LEMMA StorageStarts ==
  ASSUME Binding # NoBackend, StorageInit
  PROVE  StorageInv
<1>1. Binding \in Backend /\ \A u \in Upload : u \in Actor /\ u # "cleanup" /\ u # "admin"
  BY StorageAssumption DEF Actor
<1>2. /\ backend = [b \in Backend |-> [active |-> b = Binding, isDefault |-> b = Binding, quota |-> 0,
                                       config |-> IF b = Binding THEN 1 ELSE 0, used |-> 0]]
      /\ cache = [b \in Backend |-> 0]
      /\ object = [u \in Upload |-> NoBackend]
      /\ version = {} /\ late = {} /\ fileOn = NoBackend
      /\ task = [a \in Actor |-> Resting]
  BY DEF StorageInit
<1>3. \A a \in Actor : task[a] = Resting /\ task[a].at = "rest"
  BY <1>2 DEF Resting
<1>4. StorageTypes
  BY <1>2 DEF StorageTypes, Row
<1>5. "cleanup" \in Actor /\ "admin" \in Actor
  BY DEF Actor
<1>6. \A a \in Actor : ~Works(a)
  BY <1>3 DEF Works, Is
<1>7. TasksInv
  BY <1>1, <1>3, <1>5, <1>6 DEF TasksInv, Idle
<1>8. BackendsInv
  <2>1. backend[Binding].config = 1 /\ \A b \in Backend : backend[b].used = 0 /\ cache[b] = 0
    BY <1>1, <1>2
  <2> QED
    BY <1>1, <1>3, <1>5, <1>6, <2>1 DEF BackendsInv, At
<1>9. ObjectsInv
  BY <1>1, <1>2, <1>3, <1>5, <1>6 DEF ObjectsInv, At
<1>10. CountInv
  <2>1. Counted = {}
    BY <1>1, <1>2, <1>3, <1>5, StorageAssumption DEF Counted, Held, Overcounted, At
  <2>2. backend[Binding].used = 0
    BY <1>1, <1>2
  <2> QED
    BY <2>1, <2>2, BytesOfNone DEF CountInv
<1> QED
  BY <1>4, <1>7, <1>8, <1>9, <1>10 DEF StorageInv

\* When nobody works they say what the storage promises.
LEMMA StoragePromises ==
  ASSUME Binding # NoBackend, StorageInv
  PROVE  StorageAddsUp
<1> SUFFICES ASSUME ~Overlap, NobodyWorks PROVE StorageAddsUp
  BY DEF StorageAddsUp, UsageCounts, VersionsReachable
<1>1. Binding \in Backend /\ NoBackend \notin Backend /\ "cleanup" \in Actor /\ "admin" \in Actor
      /\ \A u \in Upload : u \in Actor
  BY StorageAssumption DEF Actor
<1>2. \A a \in Actor : task[a].at \in {"rest", "done"}
  BY DEF NobodyWorks, Is
<1>3. Counted = Held
  BY <1>1, <1>2 DEF Counted, Uncounted, Overcounted, At
<1>4. UsageCounts
  <2> SUFFICES ASSUME late = {}, NEW b \in Backend, HasRow(b)
               PROVE  backend[b].used = Bytes({u \in Upload : object[u] = b})
    BY DEF UsageCounts
  <2>1. CASE b = Binding
    BY <1>3, <2>1 DEF StorageInv, CountInv, Held
  <2>2. CASE b # Binding
    <3>1. {u \in Upload : object[u] = b} = {}
      BY <1>1, <2>2 DEF StorageInv, StorageTypes
    <3> QED
      BY <2>2, <3>1, BytesOfNone DEF StorageInv, BackendsInv
  <2> QED
    BY <2>1, <2>2
<1>5. VersionsReachable
  <2>1. \A u \in version \ late : object[u] = fileOn
    BY <1>1, <1>2 DEF StorageInv, StorageTypes, ObjectsInv, At
  <2>2. \A b \in Backend : cache[b] \in {0, backend[b].config}
    BY <1>1, <1>2 DEF StorageInv, BackendsInv, At
  <2> QED
    BY <2>1, <2>2 DEF VersionsReachable
<1> QED
  BY <1>4, <1>5 DEF StorageAddsUp

\* For a project with a backend of its own, whichever requests fail half-way and
\* however the admin reconfigures the backends, between requests that do not overlap
\* every backend counts the bytes it holds and every version is found where its file
\* says, with the configuration saved last (storage.service).  Without a backend of
\* its own the default may move away from under a file: that is not assumed here.
THEOREM StorageKeepsItsBooks ==
  ASSUME Binding # NoBackend
  PROVE  StorageSpec => []StorageAddsUp
<1>1. CASE Overlap
  <2>1. StorageAddsUp
    BY <1>1 DEF StorageAddsUp, UsageCounts, VersionsReachable
  <2> QED
    BY <2>1, PTL
<1>2. CASE ~Overlap
  <2>1. StorageInit => StorageInv
    BY StorageStarts
  <2>2. StorageInv /\ [StorageNext]_storageVars => StorageInv'
    <3> SUFFICES ASSUME StorageInv, [StorageNext]_storageVars PROVE StorageInv'
      OBVIOUS
    <3>1. ASSUME NEW u \in Upload, UploadStep(u) PROVE StorageInv'
      BY <1>2, <3>1, UploadStepKeeps
    <3>2. CASE CleanupStep
      BY <1>2, <3>2, CleanupStepKeeps
    <3>3. CASE AdminBackendStep
      BY <1>2, <3>3, AdminStepKeeps
    <3>4. CASE UNCHANGED storageVars
      <4> USE <3>4 DEF storageVars
      <4>1. StorageTypes'
        BY DEF StorageInv, StorageTypes
      <4>2. TasksInv'
        BY DEF StorageInv, TasksInv, At, Works, Is
      <4>3. BackendsInv'
        BY DEF StorageInv, BackendsInv, At, Works, Is
      <4>4. ObjectsInv'
        BY DEF StorageInv, ObjectsInv, At, Works, Is
      <4>5. CountInv'
        BY DEF StorageInv, CountInv, Counted, Held, Uncounted, Overcounted, At
      <4> QED
        BY <4>1, <4>2, <4>3, <4>4, <4>5 DEF StorageInv
    <3> QED
      BY <3>1, <3>2, <3>3, <3>4 DEF StorageNext
  <2>3. StorageInv => StorageAddsUp
    BY StoragePromises
  <2> QED
    BY <2>1, <2>2, <2>3, PTL DEF StorageSpec
<1> QED
  BY <1>1, <1>2
=============================================================================
