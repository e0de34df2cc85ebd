------------------------------- MODULE FilesPage --------------------------------
(***************************************************************************)
(* The files page in one browser: a project is entered, its files are      *)
(* listed, a file's versions are looked at, approved and compared, a file  *)
(* is deleted, replaced or added.  The server answers at once, and the     *)
(* answers arrive in any order, also after the user went elsewhere.        *)
(*                                                                         *)
(* FileReading has the links the page shows; the two share no state here.  *)
(* Search and filters narrow what is listed and ask for it again; the      *)
(* cloud-drive links among the files have no versions and are left out.    *)
(***************************************************************************)
EXTENDS FileReading

CONSTANTS
  Shelf,       \* files there are or may be
  ShelfOf,     \* the project of each
  MaxRequests  \* bound: answers outstanding at a time

Nowhere == "nowhere"
ASSUME Nowhere \notin Shelf

VARIABLES
  present,   \* the files on the server that are not deleted
  verdicts,  \* approvals the server made: under which file, of which file's version
  written,   \* replacements made: in which project the user was, of which file
  viewer,    \* what the user is to the project
  chosen,    \* selectedProjectId
  listed,    \* files
  history,   \* selectedFile, whose versions are asked for
  versionsOf, \* the file whose versions are listed on the sheet
  deleting,  \* deleteTarget, and whether its deletion is under way
  dialog,    \* the upload dialog: mode and target, kept while it is closed
  waiting,   \* requests whose answers have not arrived
  looked,    \* previewFile
  panes      \* previewData and compareData

filesVars == <<present, verdicts, written, viewer, chosen, listed, history, versionsOf, deleting, dialog, waiting>>
panesVars == <<looked, panes>>
filesPageVars == <<filesVars, panesVars>>

Places == {ShelfOf[f] : f \in Shelf}
Pane == {"preview", "compare"}
Empty == [file |-> Nowhere, version |-> 0]

\* One kind of request per row; "to" is where its answer goes.
PageRequest == [to : {"list"}, files : SUBSET Shelf]
           \cup [to : {"rows", "approved", "deleted", "uploaded"} \cup Pane, file : Shelf \cup {Nowhere}, version : 0 .. 2]

FilesTypeOK ==
  /\ present \subseteq Shelf /\ listed \subseteq Shelf
  /\ verdicts \subseteq [under : Shelf, of : Shelf] /\ written \subseteq [place : Places, file : Shelf]
  /\ chosen \in Places \cup {Nowhere} /\ {history, versionsOf, looked} \subseteq Shelf \cup {Nowhere}
  /\ deleting.file \in Shelf \cup {Nowhere} /\ deleting.sent \in BOOLEAN
  /\ dialog.mode \in {"new", "replace"} /\ dialog.target \in Shelf \cup {Nowhere}
  /\ waiting \subseteq PageRequest
  /\ \A p \in Pane : panes[p].file \in Shelf \cup {Nowhere}

FilesInit ==
  /\ present \in SUBSET Shelf /\ verdicts = {} /\ written = {}
  /\ viewer \in {"staff", "uploader", "owner", "supervisor", "lead", "member"}
  /\ chosen = Nowhere /\ listed = {} /\ history = Nowhere /\ versionsOf = Nowhere
  /\ deleting = [file |-> Nowhere, sent |-> FALSE]
  /\ dialog = [mode |-> "new", target |-> Nowhere]
  /\ waiting = {} /\ looked = Nowhere /\ panes = [p \in Pane |-> Empty]

-----------------------------------------------------------------------------
Ask(r) == Cardinality(waiting) < MaxRequests /\ r \notin waiting /\ waiting' = waiting \cup {r}
FetchFiles(place, there) == [to |-> "list", files |-> {f \in there : ShelfOf[f] = place}]
Of(to, f) == [to |-> to, file |-> f, version |-> 0]

EnterProjectFiles(p) ==
  /\ chosen = Nowhere /\ chosen' = p /\ Ask(FetchFiles(p, present))
  /\ history' = Nowhere /\ versionsOf' = Nowhere /\ looked' = Nowhere
  /\ UNCHANGED <<present, verdicts, written, viewer, listed, deleting, dialog, panes>>

LeaveProjectFiles ==
  /\ chosen # Nowhere /\ chosen' = Nowhere /\ listed' = {}
  /\ history' = Nowhere /\ versionsOf' = Nowhere /\ looked' = Nowhere
  /\ UNCHANGED <<present, verdicts, written, viewer, deleting, dialog, waiting, panes>>

ListArrives(r) ==
  /\ r \in waiting /\ r.to = "list" /\ waiting' = waiting \ {r} /\ listed' = r.files
  /\ UNCHANGED <<present, verdicts, written, viewer, chosen, history, versionsOf, deleting, dialog, panesVars>>

-----------------------------------------------------------------------------
(* The sheet with the versions of a file.                                  *)

ViewHistory(f) ==
  /\ chosen # Nowhere /\ f \in listed /\ history' = f /\ Ask(Of("rows", f))
  /\ UNCHANGED <<present, verdicts, written, viewer, chosen, listed, versionsOf, deleting, dialog, panesVars>>

CloseHistory ==
  /\ history' = Nowhere /\ versionsOf' = Nowhere
  /\ UNCHANGED <<present, verdicts, written, viewer, chosen, listed, deleting, dialog, waiting, panesVars>>

RowsArrive(r) ==
  /\ r \in waiting /\ r.to = "rows" /\ waiting' = waiting \ {r} /\ versionsOf' = r.file
  /\ UNCHANGED <<present, verdicts, written, viewer, chosen, listed, history, deleting, dialog, panesVars>>

\* The server: for whom, and that the version is one of the file's.
MayApprove == viewer \in {"staff", "owner", "supervisor", "lead"}
\* Mutant: the version is looked up by its own id alone.
AcceptsMutant(f, g) == MayApprove
Accepts(f, g) == MayApprove /\ f = g

\* The page approves a version it lists under the file the sheet was opened for.
HandleApproveVersion ==
  /\ history # Nowhere /\ versionsOf # Nowhere
  /\ IF Accepts(history, versionsOf)
       THEN verdicts' = verdicts \cup {[under |-> history, of |-> versionsOf]} /\ Ask(Of("approved", history))
       ELSE UNCHANGED <<verdicts, waiting>>
  /\ UNCHANGED <<present, written, viewer, chosen, listed, history, versionsOf, deleting, dialog, panesVars>>

\* The versions and the files are read again.
ApprovedArrives(r) ==
  /\ r \in waiting /\ r.to = "approved" /\ versionsOf' = r.file
  /\ waiting' = (waiting \ {r}) \cup {FetchFiles(ShelfOf[r.file], present)}
  /\ UNCHANGED <<present, verdicts, written, viewer, chosen, listed, history, deleting, dialog, panesVars>>

-----------------------------------------------------------------------------
(* Deleting: the confirmation covers the page until it is answered.        *)

CanDeleteFile == viewer \in {"staff", "uploader", "owner", "supervisor"}
ServerDeletes(f) == f \in present /\ viewer \in {"staff", "uploader", "owner", "supervisor", "lead"}

AskDelete(f) ==
  /\ chosen # Nowhere /\ f \in listed /\ CanDeleteFile /\ deleting' = [file |-> f, sent |-> FALSE]
  /\ UNCHANGED <<present, verdicts, written, viewer, chosen, listed, history, versionsOf, dialog, waiting, panesVars>>

CancelDelete ==
  /\ deleting.file # Nowhere /\ ~deleting.sent /\ deleting' = [deleting EXCEPT !.file = Nowhere]
  /\ UNCHANGED <<present, verdicts, written, viewer, chosen, listed, history, versionsOf, dialog, waiting, panesVars>>

\* A refusal leaves the confirmation open.
HandleDeleteFile ==
  /\ deleting.file # Nowhere /\ ~deleting.sent /\ ServerDeletes(deleting.file)
  /\ present' = present \ {deleting.file} /\ deleting' = [deleting EXCEPT !.sent = TRUE]
  /\ Ask(Of("deleted", deleting.file))
  /\ UNCHANGED <<verdicts, written, viewer, chosen, listed, history, versionsOf, dialog, panesVars>>

Closed(s, f) == IF s = f THEN Nowhere ELSE s
DeletedArrives(r) ==
  /\ r \in waiting /\ r.to = "deleted"
  /\ listed' = listed \ {r.file} /\ history' = Closed(history, r.file)
  /\ versionsOf' = IF history = r.file THEN Nowhere ELSE versionsOf
  /\ looked' = Closed(looked, r.file)
  /\ panes' = IF looked = r.file THEN [p \in Pane |-> Empty] ELSE panes
  /\ deleting' = [file |-> Nowhere, sent |-> FALSE]
  /\ waiting' = (waiting \ {r}) \cup {FetchFiles(chosen, present)}
  /\ UNCHANGED <<present, verdicts, written, viewer, chosen, dialog>>

-----------------------------------------------------------------------------
(* Uploading: the choice in the dialog outlives the dialog and the project. *)

SetUploadMode(m) ==
  /\ chosen # Nowhere /\ dialog' = [dialog EXCEPT !.mode = m]
  /\ UNCHANGED <<present, verdicts, written, viewer, chosen, listed, history, versionsOf, deleting, waiting, panesVars>>

SetReplaceTarget(f) ==
  /\ chosen # Nowhere /\ dialog.mode = "replace" /\ f \in listed /\ dialog' = [dialog EXCEPT !.target = f]
  /\ UNCHANGED <<present, verdicts, written, viewer, chosen, listed, history, versionsOf, deleting, waiting, panesVars>>

HandleUpload ==
  /\ chosen # Nowhere
  /\ \/ /\ dialog.mode = "replace" /\ dialog.target \in present
        /\ written' = written \cup {[place |-> chosen, file |-> dialog.target]} /\ UNCHANGED present
     \/ /\ dialog.mode = "new" /\ UNCHANGED written
        /\ \E f \in Shelf \ present : ShelfOf[f] = chosen /\ present' = present \cup {f}
  /\ Ask(Of("uploaded", Nowhere))
  /\ UNCHANGED <<verdicts, viewer, chosen, listed, history, versionsOf, deleting, dialog, panesVars>>

UploadedArrives(r) ==
  /\ r \in waiting /\ r.to = "uploaded" /\ dialog' = [dialog EXCEPT !.target = Nowhere]
  /\ waiting' = (waiting \ {r}) \cup {FetchFiles(chosen, present)}
  /\ UNCHANGED <<present, verdicts, written, viewer, chosen, listed, history, versionsOf, deleting, panesVars>>

-----------------------------------------------------------------------------
(* The preview, and a version to compare it with.                          *)

ResetPreview ==
  /\ looked' = Nowhere /\ panes' = [p \in Pane |-> Empty] /\ UNCHANGED filesVars

OpenPreview(f) ==
  /\ chosen # Nowhere /\ f \in listed /\ looked' = f /\ panes' = [p \in Pane |-> Empty]
  /\ Ask([to |-> "preview", file |-> f, version |-> 1])
  /\ UNCHANGED <<present, verdicts, written, viewer, chosen, listed, history, versionsOf, deleting, dialog>>

\* Another version, or one to compare with, of the file opened.
PreviewChange(pane, v) ==
  /\ looked # Nowhere /\ panes["preview"] # Empty
  /\ panes' = IF pane = "preview" THEN [p \in Pane |-> Empty] ELSE [panes EXCEPT !["compare"] = Empty]
  /\ Ask([to |-> pane, file |-> looked, version |-> v])
  /\ UNCHANGED <<present, verdicts, written, viewer, chosen, listed, history, versionsOf, deleting, dialog, looked>>

PaneArrives(r) ==
  /\ r \in waiting /\ r.to \in Pane /\ waiting' = waiting \ {r}
  /\ panes' = [panes EXCEPT ![r.to] = [file |-> r.file, version |-> r.version]]
  /\ UNCHANGED <<present, verdicts, written, viewer, chosen, listed, history, versionsOf, deleting, dialog, looked>>

-----------------------------------------------------------------------------
\* Under the confirmation nothing else can be reached.
Uncovered == deleting.file = Nowhere

Browsing ==
  \/ Uncovered /\ (LeaveProjectFiles \/ \E p \in Places : EnterProjectFiles(p))
  \/ \E r \in waiting : ListArrives(r)
Approving ==
  \/ Uncovered /\ (CloseHistory \/ HandleApproveVersion \/ \E f \in Shelf : ViewHistory(f))
  \/ \E r \in waiting : RowsArrive(r) \/ ApprovedArrives(r)
Deleting ==
  \/ Uncovered /\ \E f \in Shelf : AskDelete(f)
  \/ CancelDelete \/ HandleDeleteFile
  \/ \E r \in waiting : DeletedArrives(r)
Replacing ==
  \/ Uncovered /\ \/ HandleUpload
                  \/ \E f \in Shelf : SetReplaceTarget(f)
                  \/ \E m \in {"new", "replace"} : SetUploadMode(m)
  \/ \E r \in waiting : UploadedArrives(r)
Previewing ==
  \/ Uncovered /\ \/ ResetPreview
                  \/ \E f \in Shelf : OpenPreview(f)
                  \/ \E pane \in Pane, v \in 1 .. 2 : PreviewChange(pane, v)
  \/ \E r \in waiting : PaneArrives(r)

FilesPageNext == Browsing \/ Approving \/ Deleting \/ Replacing \/ Previewing

\* The page, and the reading behind it.
FilesNext ==
  \/ ReadingNext /\ UNCHANGED <<linkingVars, filesPageVars>>
  \/ LinkingNext /\ UNCHANGED <<readingVars, filesPageVars>>
  \/ FilesPageNext /\ UNCHANGED <<readingVars, linkingVars>>

FilesSpec == ReadingInit /\ FilesInit /\ [][FilesNext]_<<readingVars, linkingVars, filesPageVars>>

-----------------------------------------------------------------------------
\* However late the versions of a file come to a sheet opened for another, approving
\* one of them approves no version under a file that is not its own.
ApprovalsStayInFile == \A d \in verdicts : d.under = d.of

\* A link leads to the version it was asked for and can still be followed, and
\* the page approves no version under another file (getDownloadLink, FileListPage).
FilesLeadWhereAsked == LinksLeadWhereAsked /\ ApprovalsStayInFile

\* A file is replaced from the pages of its own project.
ReplacedWhereListed == \A w \in written : ShelfOf[w.file] = w.place

\* Two versions compared are of one file, the one that was opened.
ComparesOneFile ==
  \A p \in Pane : looked # Nowhere => panes[p].file \in {looked, Nowhere}
=============================================================================
