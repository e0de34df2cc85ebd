------------------------------- MODULE LineDiff -------------------------------
(***************************************************************************)
(* The comparison of two versions of a text file on the project page:      *)
(* buildLineDiff walks a table of longest common subsequences, or pairs    *)
(* the lines by their numbers when the table would be too large, and       *)
(* buildUnifiedDiffRows keeps what is near a change, under headers that    *)
(* say where it belongs.                                                   *)
(***************************************************************************)
EXTENDS Integers, Sequences, FiniteSets, FiniteSetsExt, SequencesExt

CONSTANTS
  TextLine,    \* the contents of a line
  MaxLines,    \* the longest text; splitting gives at least one line
  MaxCells,    \* beyond it the table is not built (250 000 in the code)
  Context      \* the rows kept around a change

ASSUME DiffAssumption == {MaxLines, MaxCells} \subseteq Nat /\ Context \in Nat \ {0}

VARIABLES oldText, newText, hunks
diffVars == <<oldText, newText, hunks>>

TextsUpTo(n) == UNION {[1 .. k -> TextLine] : k \in 1 .. n}

Larger(m, n) == IF m >= n THEN m ELSE n
Smaller(m, n) == IF m <= n THEN m ELSE n

DiffRow(kind, i, j, text) == [kind |-> kind, oldLine |-> i, newLine |-> j, text |-> text]
SameLine(a, b, i, j) == DiffRow("same", i, j, a[i])
RemoveLine(a, i) == DiffRow("remove", i, 0, a[i])
AddLine(b, j) == DiffRow("add", 0, j, b[j])

\* common[i, j]: the length of a longest common subsequence of a from i and b from j.
CommonLengths(a, b) ==
  LET common[i \in 1 .. Len(a) + 1, j \in 1 .. Len(b) + 1] ==
        IF i > Len(a) \/ j > Len(b) THEN 0
        ELSE IF a[i] = b[j] THEN common[i + 1, j + 1] + 1
        ELSE Larger(common[i + 1, j], common[i, j + 1])
  IN common

\* One turn of the loops that go through both texts: a line they share, one that is
\* gone, or one that is new.
\* Mutant: what is left of the new text is not written out.
WalkMutant(a, b, common, walk) ==
  LET i == walk.oldIndex + 1
      j == walk.newIndex + 1
      same == i <= Len(a) /\ j <= Len(b) /\ a[i] = b[j]
      gone == i <= Len(a) /\ (j > Len(b) \/ common[i + 1, j] >= common[i, j + 1])
  IN CASE i > Len(a) -> walk
       [] same ->
            [oldIndex |-> i, newIndex |-> j, rows |-> Append(walk.rows, SameLine(a, b, i, j))]
       [] ~same /\ gone ->
            [oldIndex |-> i, newIndex |-> j - 1, rows |-> Append(walk.rows, RemoveLine(a, i))]
       [] OTHER ->
            [oldIndex |-> i - 1, newIndex |-> j, rows |-> Append(walk.rows, AddLine(b, j))]
Walk(a, b, common, walk) ==
  LET i == walk.oldIndex + 1
      j == walk.newIndex + 1
      same == i <= Len(a) /\ j <= Len(b) /\ a[i] = b[j]
      gone == i <= Len(a) /\ (j > Len(b) \/ common[i + 1, j] >= common[i, j + 1])
  IN CASE i > Len(a) /\ j > Len(b) -> walk
       [] same ->
            [oldIndex |-> i, newIndex |-> j, rows |-> Append(walk.rows, SameLine(a, b, i, j))]
       [] ~same /\ gone ->
            [oldIndex |-> i, newIndex |-> j - 1, rows |-> Append(walk.rows, RemoveLine(a, i))]
       [] ~same /\ ~gone /\ j <= Len(b) ->
            [oldIndex |-> i - 1, newIndex |-> j, rows |-> Append(walk.rows, AddLine(b, j))]

\* A turn goes one line on in a text at least.
TableRows(a, b) ==
  LET common == CommonLengths(a, b)
      walk[k \in 0 .. Len(a) + Len(b)] ==
        IF k = 0 THEN [oldIndex |-> 0, newIndex |-> 0, rows |-> <<>>]
        ELSE Walk(a, b, common, walk[k - 1])
  IN walk[Len(a) + Len(b)].rows

\* buildFallbackDiff: line k against line k.
LinesAt(a, b, k) ==
  IF k <= Len(a) /\ k <= Len(b) /\ a[k] = b[k] THEN <<SameLine(a, b, k, k)>>
  ELSE (IF k <= Len(a) THEN <<RemoveLine(a, k)>> ELSE <<>>)
       \o (IF k <= Len(b) THEN <<AddLine(b, k)>> ELSE <<>>)

FallbackRows(a, b) ==
  LET max == Larger(Len(a), Len(b))
      rows[k \in 0 .. max] == IF k = 0 THEN <<>> ELSE rows[k - 1] \o LinesAt(a, b, k)
  IN rows[max]

\* The range around a changed row makes the last one longer when it touches it.
Extend(ranges, start, end) ==
  LET last == ranges[Len(ranges)]
  IN IF ranges # <<>> /\ start <= last.end + 1
     THEN Append(Front(ranges), [start |-> last.start, end |-> Larger(last.end, end)])
     ELSE Append(ranges, [start |-> start, end |-> end])

Ranges(rows) ==
  LET ranges[k \in 0 .. Len(rows)] ==
        IF k = 0 THEN <<>>
        ELSE IF rows[k].kind = "same" THEN ranges[k - 1]
        ELSE Extend(ranges[k - 1], Larger(1, k - Context), Smaller(Len(rows), k + Context))
  IN ranges[Len(rows)]

\* A hunk's header gives the first line of each text it holds (0 if none) and how many.
Hunk(rows, range) ==
  LET chunk == range.start .. range.end
      old == {rows[k].oldLine : k \in {c \in chunk : rows[c].kind # "add"}}
      new == {rows[k].newLine : k \in {c \in chunk : rows[c].kind # "remove"}}
      First(lines) == IF lines = {} THEN 0 ELSE Min(lines)
  IN [oldStart |-> First(old), oldLength |-> Cardinality(old),
      newStart |-> First(new), newLength |-> Cardinality(new),
      rows |-> SubSeq(rows, range.start, range.end)]

\* buildUnifiedDiffRows keeps the rows near a change.
Unified(rows) == [h \in DOMAIN Ranges(rows) |-> Hunk(rows, Ranges(rows)[h])]

BuildLineDiff(a, b) ==
  Unified(IF Len(a) * Len(b) > MaxCells THEN FallbackRows(a, b) ELSE TableRows(a, b))

DiffInit == oldText = <<>> /\ newText = <<>> /\ hunks = <<>>

\* The two versions chosen in the dialog have arrived.
CompareVersions(a, b) ==
  /\ oldText = <<>>
  /\ oldText' = a /\ newText' = b /\ hunks' = BuildLineDiff(a, b)

DiffNext == \E a, b \in TextsUpTo(MaxLines) : CompareVersions(a, b)

DiffSpec == DiffInit /\ [][DiffNext]_diffVars

DiffTypeOK ==
  /\ {oldText, newText} \subseteq TextsUpTo(MaxLines) \cup {<<>>}
  /\ \A h \in ToSet(hunks) : h.oldLength + h.newLength > 0

-----------------------------------------------------------------------------
(* What a reader of a unified diff takes it to say.                        *)

NewSide(rows) ==
  LET said[k \in 0 .. Len(rows)] ==
        IF k = 0 THEN <<>>
        ELSE IF rows[k].kind = "remove" THEN said[k - 1] ELSE Append(said[k - 1], rows[k].text)
  IN said[Len(rows)]

\* Every hunk put in its place, and the old lines between hunks kept.
After(hs, h) == IF h = 0 THEN 1 ELSE hs[h].oldStart + hs[h].oldLength
PatchedText(a, hs) ==
  LET upTo[h \in 0 .. Len(hs)] ==
        IF h = 0 THEN <<>>
        ELSE upTo[h - 1] \o SubSeq(a, After(hs, h - 1), hs[h].oldStart - 1) \o NewSide(hs[h].rows)
  IN upTo[Len(hs)] \o SubSeq(a, After(hs, Len(hs)), Len(a))

\* The hunks shown, put in their places in the old version, give the new one,
\* whichever way the rows were found and however far apart the changes are; and
\* a reader who follows the headers finds each hunk where it says.
DiffTellsTheChange ==
  oldText # <<>> =>
    /\ PatchedText(oldText, hunks) = newText
    /\ \A h \in ToSet(hunks) :
         SubSeq(newText, h.newStart, h.newStart + h.newLength - 1) = NewSide(h.rows)
=============================================================================
