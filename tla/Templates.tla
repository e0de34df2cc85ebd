------------------------------ MODULE Templates ------------------------------
(***************************************************************************)
(* Project templates: the rows, of which one per project type is to be the *)
(* default, and the page each administrator keeps them on.                 *)
(*                                                                         *)
(* Making a template the default takes two writes, the first of which      *)
(* takes the mark from the others of its type; every write is a step.  A   *)
(* page has one request under way, and the list it last asked for.         *)
(***************************************************************************)
EXTENDS Naturals, FiniteSets

CONSTANTS
  Tpl,         \* template ids
  Admin,       \* administrators, each with the page open
  MaxText      \* bound: contents of a template

ASSUME TemplatesAssumption == MaxText \in Nat

VARIABLES
  row,        \* the ProjectTemplate rows: type, is_default and what the rest says
  uses,       \* template_id of the projects made so far, by project
  doing,       \* what each page's request is doing
  templates,     \* the rows each page shows
  editor,     \* the edit dialog of each page
  star,       \* the template each page shows as the default
  marked      \* history: types whose default was set, and none moved, deleted or missed since

pageState == <<templates, editor, star>>
templatesVars == <<row, uses, doing, pageState, marked>>

Type == {"anime", "movie", "ova", "other"}
FormType == {"anime", "movie", "collection"}
NoTpl == "none"
Absent == [type |-> NoTpl, default |-> FALSE, text |-> 0]
NoTurn == [at |-> "idle"]
NoEditor == [of |-> NoTpl]
IsThere(rows, t) == rows[t] # Absent

\* toBackendProjectType and fromBackendProjectType
ToBackend(type) == IF type = "collection" THEN "other" ELSE type
FromBackend(type) == IF type \in {"ova", "other"} THEN "collection" ELSE type

TemplatesTypeOK ==
  /\ row \in [Tpl -> [type : Type, default : BOOLEAN, text : 0 .. MaxText] \cup {Absent}]
  /\ DOMAIN doing = Admin
  /\ \A a \in Admin : doing[a].at # "idle" => doing[a].of \in Tpl /\ doing[a].type \in Type
  /\ \A a \in Admin : star[a] \in Tpl \cup {NoTpl} /\ editor[a].of \in Tpl \cup {NoTpl}
  /\ marked \subseteq Type

\* Setting up makes a default template; the other one was made by hand.
TemplatesInit ==
  /\ row \in {r \in [Tpl -> [type : {"anime", "ova"}, default : BOOLEAN, text : {0}]] :
                Cardinality({t \in Tpl : r[t].default}) = 1
                /\ \A t \in Tpl : r[t].default => r[t].type = "anime"}
  /\ uses = <<>>
  /\ doing = [a \in Admin |-> NoTurn]
  /\ templates = [a \in Admin |-> row]
  /\ editor = [a \in Admin |-> NoEditor] /\ star = [a \in Admin |-> NoTpl]
  /\ marked = {}

-----------------------------------------------------------------------------
(* The requests                                                            *)

Turn(a, next) == doing' = [doing EXCEPT ![a] = next]
Free(a) == doing[a].at = "idle"

\* fetchTemplates: the page rereads the list after what it created or changed.
FetchTemplates(a) == templates' = [templates EXCEPT ![a] = row']

Finish(a) == Turn(a, NoTurn)

StartSetDefault(a, t) ==
  /\ Free(a) /\ IsThere(templates[a], t) /\ star[a] # t
  /\ IF IsThere(row, t)
       THEN Turn(a, [at |-> "clear", does |-> "mark", of |-> t, type |-> row[t].type, text |-> 0])
       ELSE UNCHANGED doing
  /\ UNCHANGED <<row, uses, pageState, marked>>

\* Mutant: whatever type they are of.
ClearedMutant(type, kept) ==
  [t \in Tpl |-> IF IsThere(row, t) /\ t # kept THEN [row[t] EXCEPT !.default = FALSE] ELSE row[t]]

\* The others of the type lose the mark.
Cleared(type, kept) ==
  [t \in Tpl |-> IF row[t].type = type /\ t # kept THEN [row[t] EXCEPT !.default = FALSE] ELSE row[t]]

ClearOthers(a) ==
  /\ doing[a].at = "clear"
  /\ row' = Cleared(doing[a].type, doing[a].of)
  /\ Turn(a, [doing[a] EXCEPT !.at = "write"])
  /\ UNCHANGED <<uses, pageState, marked>>

\* setDefaultTemplate's last write; the row may be gone by now.
MarkDefault(a) ==
  LET t == doing[a].of IN
  /\ doing[a].at = "write" /\ doing[a].does = "mark"
  /\ IF IsThere(row, t)
       THEN /\ row' = [row EXCEPT ![t].default = TRUE]
            /\ star' = [star EXCEPT ![a] = t]
            /\ marked' = (marked \ {doing[a].type}) \cup {row[t].type}
       ELSE UNCHANGED <<row, star>> /\ marked' = marked \ {doing[a].type}
  /\ Finish(a)
  /\ UNCHANGED <<uses, templates, editor>>

\* createTemplate; the page never asks for a default one.
CreateTemplate(a, t, type, text) ==
  /\ Free(a) /\ ~IsThere(row, t)
  /\ row' = [row EXCEPT ![t] = [type |-> ToBackend(type), default |-> FALSE, text |-> text]]
  /\ FetchTemplates(a)
  /\ UNCHANGED <<uses, doing, editor, star, marked>>

OpenDialog(a, t) ==
  /\ IsThere(templates[a], t) /\ editor[a] = NoEditor
  /\ editor' = [editor EXCEPT ![a] =
       [of |-> t, type |-> FromBackend(templates[a][t].type), text |-> templates[a][t].text, chosen |-> FALSE]]
  /\ UNCHANGED <<row, uses, doing, templates, star, marked>>

EditDialog(a, type, text) ==
  /\ editor[a] # NoEditor /\ Free(a)
  /\ editor' = [editor EXCEPT ![a].type = type, ![a].text = text, ![a].chosen = @ \/ type # editor[a].type]
  /\ UNCHANGED <<row, uses, doing, templates, star, marked>>

\* What the form says, whatever the row says by now; the mark is not sent.
SubmitDialog(a) ==
  /\ editor[a] # NoEditor /\ Free(a) /\ IsThere(row, editor[a].of)
  /\ Turn(a, [at |-> "write", does |-> "update", of |-> editor[a].of,
            type |-> ToBackend(editor[a].type), text |-> editor[a].text])
  /\ UNCHANGED <<row, uses, pageState, marked>>

UpdateTemplate(a) ==
  LET w == doing[a] IN
  /\ w.at = "write" /\ w.does = "update"
  /\ IF IsThere(row, w.of)
       THEN /\ row' = [row EXCEPT ![w.of].type = w.type, ![w.of].text = w.text]
            /\ marked' = IF row[w.of].type = w.type THEN marked
                         ELSE marked \ {row[w.of].type, w.type}
            /\ editor' = [editor EXCEPT ![a] = NoEditor]
            /\ FetchTemplates(a)
       ELSE UNCHANGED <<row, marked, editor, templates>>
  /\ Finish(a)
  /\ UNCHANGED <<uses, star>>

CloseDialog(a) ==
  /\ editor[a] # NoEditor
  /\ editor' = [editor EXCEPT ![a] = NoEditor]
  /\ UNCHANGED <<row, uses, doing, templates, star, marked>>

\* deleteTemplate looks for a project first.
StartDelete(a, t) ==
  /\ Free(a) /\ IsThere(templates[a], t) /\ IsThere(row, t)
  /\ \A p \in DOMAIN uses : uses[p] # t
  /\ Turn(a, [at |-> "write", does |-> "delete", of |-> t, type |-> row[t].type, text |-> 0])
  /\ UNCHANGED <<row, uses, pageState, marked>>

\* A project made of it since loses it.
DeleteTemplate(a) ==
  LET t == doing[a].of IN
  /\ doing[a].at = "write" /\ doing[a].does = "delete"
  /\ IF IsThere(row, t)
       THEN /\ row' = [row EXCEPT ![t] = Absent]
            /\ uses' = [p \in DOMAIN uses |-> IF uses[p] = t THEN NoTpl ELSE uses[p]]
            /\ marked' = marked \ {row[t].type}
            /\ templates' = [templates EXCEPT ![a][t] = Absent]
       ELSE UNCHANGED <<row, uses, marked, templates>>
  /\ Finish(a)
  /\ UNCHANGED <<editor, star>>

\* The page is opened again: the star is only ever set by hand.
Reload(a) ==
  /\ Free(a)
  /\ templates' = [templates EXCEPT ![a] = row]
  /\ editor' = [editor EXCEPT ![a] = NoEditor] /\ star' = [star EXCEPT ![a] = NoTpl]
  /\ UNCHANGED <<row, uses, doing, marked>>

-----------------------------------------------------------------------------
TemplatesStep(a) ==
  \/ \E t \in Tpl : StartSetDefault(a, t) \/ OpenDialog(a, t) \/ StartDelete(a, t)
  \/ \E type \in FormType, text \in 1 .. MaxText : EditDialog(a, type, text)
                                                  \/ \E t \in Tpl : CreateTemplate(a, t, type, text)
  \/ ClearOthers(a) \/ MarkDefault(a) \/ SubmitDialog(a) \/ UpdateTemplate(a) \/ CloseDialog(a)
  \/ DeleteTemplate(a) \/ Reload(a)

TemplatesNext == \E a \in Admin : TemplatesStep(a)
TemplatesSpec == TemplatesInit /\ [][TemplatesNext]_templatesVars

-----------------------------------------------------------------------------
\* A type one of whose templates was made the default has a default, however
\* administrators make others the default meanwhile: each takes the mark from
\* the others before it sets its own.  (Unless its templates were moved to or
\* from another type, or one was deleted while it was to be the default.)
DefaultSurvives ==
  \A k \in marked :
    (\A a \in Admin : doing[a].at = "write" => doing[a].does # "mark")
    => \E t \in Tpl : row[t].type = k /\ row[t].default

\* Not so: two administrators mark two, or a marked one is moved to another type.
OneDefault == \A t, u \in Tpl : (t # u /\ row[t].default /\ row[u].default) => row[t].type # row[u].type

\* Not so: a form knows three of the types, and saves one of them whatever it was.
EditKeepsType ==
  [][\A a \in Admin : (doing[a].at = "write" /\ doing[a].does = "update" /\ doing'[a] = NoTurn
                       /\ ~editor[a].chosen /\ templates[a] = row)
                      => \A t \in Tpl : row'[t].type = row[t].type]_templatesVars
=============================================================================
