-------------------------------- MODULE AssFiles --------------------------------
(***************************************************************************)
(* Subtitle files as text: ass-parser.ts reads one line by line and writes *)
(* one from what it read, processMergeJob joins the lines of several, and  *)
(* two are compared or one is laid out on a timeline.                      *)
(*                                                                         *)
(* A written line is what the parser tells apart: a header, a pair, a      *)
(* style, a dialogue line, or one it passes over.  A text is a sequence of *)
(* tokens: words, spaces, the two newlines of the format, an override tag. *)
(* A time is four numbers when well-formed; read times are in hundredths.  *)
(***************************************************************************)
EXTENDS Naturals, Sequences, FiniteSets, FiniteSetsExt, SequencesExt

CONSTANTS
  AssFile,     \* files as written
  MergeInput   \* sequences of files one job merges

\* A text says words, and what the format or the parser gives a meaning.
Token == STRING \cup {" ", "newline", "\\N", "\\n", "{tag}"}

\* What the parser tells apart of a written line, whatever it says.
RawLine ==
  [kind : {"header"}, section : STRING]
  \cup [kind : {"pair"}, key : STRING, value : STRING]
  \cup [kind : {"style"}, complete : BOOLEAN, name : STRING]
  \cup [kind : {"dialogue"}, complete : BOOLEAN, start : Seq(Nat), end : Seq(Nat), text : Seq(Token)]

ASSUME AssAssumption ==
  /\ AssFile \subseteq Seq(RawLine)
  /\ MergeInput \subseteq Seq(Seq(RawLine)) \ {<<>>}

VARIABLES
  assRead,     \* what parseASS made of a file
  assWritten,  \* what generateASS made of that
  assMerge,    \* what processMergeJob made of several
  assShown     \* the comparison or the timeline the page asked for

assVars == <<assRead, assWritten, assMerge, assShown>>

-----------------------------------------------------------------------------
(* Conversions.                                                            *)

WellFormed(t) == Len(t) = 4
AssTimeToSeconds(t) == t[1] * 360000 + t[2] * 6000 + t[3] * 100 + t[4]
SecondsToAssTime(n) == <<n \div 360000, (n % 360000) \div 6000, (n % 6000) \div 100, n % 100>>

Trim(text) ==
  LET said == {k \in DOMAIN text : text[k] # " "}
  IN IF said = {} THEN <<>> ELSE SubSeq(text, Min(said), Max(said))

\* Both newlines are read, the soft one as a space, and override tags are left out.
Process(said, token) ==
  CASE token = "\\N" -> Append(said, "newline")
    [] token = "\\n" -> Append(said, " ")
    [] token = "{tag}" -> said
    [] OTHER -> Append(said, token)
ProcessAssText(text) ==
  LET processed[k \in 0 .. Len(text)] ==
        IF k = 0 THEN <<>> ELSE Process(processed[k - 1], text[k])
  IN processed[Len(text)]

EscapeAssTextMutant(text) ==
  [k \in DOMAIN text |-> IF text[k] = "newline" THEN "\\n" ELSE text[k]]
EscapeAssText(text) ==
  [k \in DOMAIN text |-> IF text[k] = "newline" THEN "\\N" ELSE text[k]]

-----------------------------------------------------------------------------
(* Reading.                                                                *)

\* Any line with a colon in [Script Info] is a pair; a later one of the same key
\* takes the earlier one's place.
ParseScriptInfoLine(line) ==
  [key |-> IF line.kind = "pair" THEN line.key ELSE line.kind,
   value |-> IF line.kind = "pair" THEN line.value ELSE line]
Entered(info, e) ==
  IF \E k \in DOMAIN info : info[k].key = e.key
    THEN [k \in DOMAIN info |-> IF info[k].key = e.key THEN e ELSE info[k]]
    ELSE Append(info, e)

ParseDialogueLine(line, index) ==
  [id |-> index, start |-> AssTimeToSeconds(line.start), end |-> AssTimeToSeconds(line.end),
   text |-> ProcessAssText(Trim(line.text))]

ReadHeader(st, line) == [st EXCEPT !.section = line.section]
ReadPair(st, line) == [st EXCEPT !.info = Entered(@, ParseScriptInfoLine(line))]
ReadStyle(st, line) == IF line.complete THEN [st EXCEPT !.styles = Append(@, line.name)] ELSE st
\* A line that lacks fields is numbered and passed over; a time that is not one
\* ends the reading.
ReadDialogue(st, line) ==
  LET next == [st EXCEPT !.index = @ + 1]
  IN IF ~line.complete THEN next
     ELSE IF ~WellFormed(line.start) \/ ~WellFormed(line.end) THEN [next EXCEPT !.valid = FALSE]
     ELSE [next EXCEPT !.lines = Append(@, ParseDialogueLine(line, st.index))]

ReadLine(st, line) ==
  CASE line.kind = "header" -> ReadHeader(st, line)
    [] line.kind # "header" /\ st.section = "script info" -> ReadPair(st, line)
    [] line.kind = "style" /\ st.section = "styles" -> ReadStyle(st, line)
    [] line.kind = "dialogue" /\ st.section = "events" -> ReadDialogue(st, line)
    [] OTHER -> st

\* The sort is stable: equal times stay in the order of their numbers.
Before(a, b) == a.start < b.start \/ (a.start = b.start /\ a.id < b.id)
ByStart(lines) ==
  LET turn == CHOOSE q \in Bijection(DOMAIN lines, DOMAIN lines) :
                \A i, j \in DOMAIN lines : i < j => Before(lines[q[i]], lines[q[j]])
  IN [k \in DOMAIN lines |-> lines[turn[k]]]

BlankFile == [valid |-> TRUE, section |-> "none", index |-> 0, info |-> <<>>, styles |-> <<>>, lines |-> <<>>]
ParseASS(written) ==
  LET read[k \in 0 .. Len(written)] ==
        IF k = 0 THEN BlankFile
        ELSE LET st == read[k - 1] IN IF st.valid THEN ReadLine(st, written[k]) ELSE st
      all == read[Len(written)]
  IN [valid |-> all.valid, info |-> all.info, styles |-> all.styles, lines |-> ByStart(all.lines)]

-----------------------------------------------------------------------------
(* Writing.                                                                *)

Header(section) == [kind |-> "header", section |-> section]
Pair(key, value) == [kind |-> "pair", key |-> key, value |-> value]
Style(name) == [kind |-> "style", complete |-> TRUE, name |-> name]
Dialogue(start, end, text) ==
  [kind |-> "dialogue", complete |-> TRUE, start |-> start, end |-> end, text |-> text]

GenerateASS(info, styles, lines) ==
  <<Header("script info")>>
  \o [k \in DOMAIN info |-> Pair(info[k].key, info[k].value)]
  \o <<Header("styles"), Pair("Format", "styles")>>
  \o [k \in DOMAIN styles |-> Style(styles[k])]
  \o <<Header("events"), Pair("Format", "events")>>
  \o [k \in DOMAIN lines |-> Dialogue(SecondsToAssTime(lines[k].start),
                                      SecondsToAssTime(lines[k].end), EscapeAssText(lines[k].text))]

-----------------------------------------------------------------------------
(* Merging: the branch of processMergeJob for jobs that name files.        *)

SameTimes(a, b) == a.start = b.start /\ a.end = b.end
TimeRangesOverlap(a, b) == a.start < b.end /\ b.start < a.end
IsExactDuplicateMutant(a, b) == SameTimes(a, b)
IsExactDuplicate(a, b) == SameTimes(a, b) /\ a.text = b.text
HasTextConflict(a, b) == SameTimes(a, b) /\ a.text # b.text
HasOverlapConflict(a, b) == TimeRangesOverlap(a, b) /\ a.text # b.text /\ ~HasTextConflict(a, b)

\* The loop over the lines of all files in order: a line takes the later ones equal
\* to it out, and a conflict is noted for each that clashes with it.
MergeStep(all, st, i) ==
  LET later == i + 1 .. Len(all) \ st.processed
      equal == {j \in later : IsExactDuplicate(all[i], all[j])}
  IN IF i \in st.processed THEN st
     ELSE [processed |-> st.processed \cup equal \cup {i},
           merged |-> Append(st.merged, all[i]),
           conflicts |-> st.conflicts
             \cup {[type |-> "content_mismatch", a |-> i, b |-> j] :
                     j \in {k \in later \ equal : HasTextConflict(all[i], all[k])}}
             \cup {[type |-> "timing_conflict", a |-> i, b |-> j] :
                     j \in {k \in later \ equal : HasOverlapConflict(all[i], all[k])}}]

MergeLines(all) ==
  LET done[k \in 0 .. Len(all)] ==
        IF k = 0 THEN [processed |-> {}, merged |-> <<>>, conflicts |-> {}]
        ELSE MergeStep(all, done[k - 1], k)
  IN done[Len(all)]

\* The lines of all files, numbered as they were read.
AllLines(parsed) ==
  LET joined == FlattenSeq([k \in DOMAIN parsed |-> parsed[k].lines])
  IN ByStart([k \in DOMAIN joined |-> [joined[k] EXCEPT !.id = k]])

-----------------------------------------------------------------------------
(* Looking.                                                                *)

\* compareVersions matches lines by their times; the last of equals counts.
Times(lines) == {<<l.start, l.end>> : l \in ToSet(lines)}
LastAt(lines, times) ==
  LET at == {k \in DOMAIN lines : <<lines[k].start, lines[k].end>> = times}
  IN lines[CHOOSE k \in at : \A j \in at : j <= k]

Comparison(old, new) ==
  LET common == Times(old) \cap Times(new)
      same == {t \in common : LastAt(old, t).text = LastAt(new, t).text}
  IN [added |-> {LastAt(new, t) : t \in Times(new) \ common},
      unchanged |-> {LastAt(new, t) : t \in same},
      removed |-> {LastAt(old, t) : t \in Times(old) \ same}]

Later(m, n) == IF m < n THEN n ELSE m
Earlier(m, n) == IF m < n THEN m ELSE n
OverlapRegions(lines) ==
  {<<Later(lines[p[1]].start, lines[p[2]].start), Earlier(lines[p[1]].end, lines[p[2]].end)>> :
     p \in {q \in (DOMAIN lines) \X (DOMAIN lines) :
              q[1] < q[2] /\ TimeRangesOverlap(lines[q[1]], lines[q[2]])}}

Timeline(lines) ==
  [overlapping |-> {lines[i].id : i \in {j \in DOMAIN lines :
                      \E k \in DOMAIN lines \ {j} : TimeRangesOverlap(lines[j], lines[k])}},
   regions |-> OverlapRegions(lines)]

-----------------------------------------------------------------------------
NothingRead == ParseASS(<<>>)
NothingMerged == [all |-> <<>>, done |-> MergeLines(<<>>)]
NothingShown == [comparison |-> Comparison(<<>>, <<>>), timeline |-> Timeline(<<>>)]

Unused == assRead = NothingRead /\ assWritten = <<>> /\ assMerge = NothingMerged /\ assShown = NothingShown

AssInit == Unused

ReadAss(f) ==
  /\ assRead' = ParseASS(f)
  /\ UNCHANGED <<assWritten, assMerge, assShown>>

WriteAss ==
  /\ assRead # NothingRead /\ assRead.valid /\ assWritten = <<>>
  /\ assWritten' = GenerateASS(assRead.info, assRead.styles, assRead.lines)
  /\ UNCHANGED <<assRead, assMerge, assShown>>

\* A file that cannot be read, or without lines, fails the job.
MergeAss(files) ==
  LET parsed == [k \in DOMAIN files |-> ParseASS(files[k])]
  IN /\ \A k \in DOMAIN files : parsed[k].valid /\ parsed[k].lines # <<>>
     /\ assMerge' = [all |-> AllLines(parsed), done |-> MergeLines(AllLines(parsed))]
     /\ UNCHANGED <<assRead, assWritten, assShown>>

ShowAss(old, new) ==
  /\ ParseASS(old).valid /\ ParseASS(new).valid
  /\ assShown' = [comparison |-> Comparison(ParseASS(old).lines, ParseASS(new).lines),
                  timeline |-> Timeline(ParseASS(new).lines)]
  /\ UNCHANGED <<assRead, assWritten, assMerge>>

\* The operations keep no state: a behaviour uses one of them, on one input.
AssNext ==
  \/ /\ Unused
     /\ \/ \E f \in AssFile : ReadAss(f)
        \/ \E files \in MergeInput : MergeAss(files) \/ ShowAss(files[1], files[Len(files)])
  \/ WriteAss

AssSpec == AssInit /\ [][AssNext]_assVars

AssTypeOK ==
  /\ assRead.valid \in BOOLEAN
  /\ \A k \in 1 .. Len(assRead.lines) - 1 : assRead.lines[k].start <= assRead.lines[k + 1].start
  /\ assMerge.done.processed = DOMAIN assMerge.all
  /\ Cardinality(assShown.timeline.overlapping) # 1

-----------------------------------------------------------------------------
\* What was read and written can be read again, and is the same: every entry and
\* style in its place, and the lines with their times and texts, but for spaces at
\* the ends of a text and the numbers of the lines.
WrittenIsRead ==
  LET again == ParseASS(assWritten)
      Bare(lines) == [k \in DOMAIN lines |-> [lines[k] EXCEPT !.id = 0, !.text = Trim(@)]]
  IN assWritten # <<>> =>
       /\ again.valid /\ again.info = assRead.info /\ again.styles = assRead.styles
       /\ Bare(again.lines) = Bare(assRead.lines)

\* A merge says everything its files say, once, and tells of every two lines that
\* say different things at one time.
MergeTellsClashes ==
  LET all == assMerge.all
      Said(l) == <<l.start, l.end, l.text>>
      merged == assMerge.done.merged
      Together(a, b) == Said(a) # Said(b) /\ a.text # b.text
                        /\ (SameTimes(a, b) \/ (a.start < b.end /\ b.start < a.end))
  IN /\ {Said(l) : l \in ToSet(merged)} = {Said(l) : l \in ToSet(all)}
     /\ Cardinality({Said(l) : l \in ToSet(merged)}) = Len(merged)
     /\ {{Said(all[c.a]), Said(all[c.b])} : c \in assMerge.done.conflicts} =
          {{Said(p[1]), Said(p[2])} : p \in {q \in ToSet(all) \X ToSet(all) : Together(q[1], q[2])}}

\* What is generated, read and merged says what went in: nothing is changed on the
\* way through a file, and no clash of two lines is passed over (processMergeJob).
AssFilesTellAll == WrittenIsRead /\ MergeTellsClashes
=============================================================================
