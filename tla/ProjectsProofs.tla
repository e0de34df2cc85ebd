---------------------------- MODULE ProjectsProofs ----------------------------
(***************************************************************************)
(* Theorems about projects: the templates they are made from and the       *)
(* wizard that makes them, the episodes of a season, who sees a project    *)
(* and who may claim in it, which files it takes, and its page.            *)
(***************************************************************************)
EXTENDS ProjectWizard, Seasons, ProjectAccess, UploadPolicies, ProjectPage,
        FiniteSetTheorems, SequenceTheorems, TLAPS

-----------------------------------------------------------------------------
(* Project templates                                                       *)
(*                                                                         *)
(* Between the write that takes the mark from the others and the one that  *)
(* sets it a type has no default: the invariant says that whoever took it  *)
(* is then still to set one.                                               *)

TemplateRow == [type : Type, default : BOOLEAN, text : 0 .. MaxText]
TemplateRows == [Tpl -> TemplateRow \cup {Absent}]
TemplateTurn == [at : {"clear", "write"}, does : {"mark", "update", "delete"}, of : Tpl,
                 type : Type, text : 0 .. MaxText]
TemplateForm == [of : Tpl, type : FormType, text : 0 .. MaxText, chosen : BOOLEAN]

TemplatesShape ==
  /\ row \in TemplateRows
  /\ doing \in [Admin -> TemplateTurn \cup {NoTurn}]
  /\ templates \in [Admin -> TemplateRows]
  /\ editor \in [Admin -> TemplateForm \cup {NoEditor}]
  /\ marked \subseteq Type

OnlyMarksClear == \A a \in Admin : doing[a].at = "clear" => doing[a].does = "mark"

HasDefault(k) == \E t \in Tpl : row[t].type = k /\ row[t].default
IsToMark(a, k) == doing[a].at = "write" /\ doing[a].does = "mark" /\ doing[a].type = k

MarkIsHeld == \A k \in marked : HasDefault(k) \/ \E a \in Admin : IsToMark(a, k)

MarkInv == TemplatesShape /\ OnlyMarksClear /\ MarkIsHeld

LEMMA TypesTranslate ==
  /\ \A type \in FormType : ToBackend(type) \in Type
  /\ \A type \in Type : FromBackend(type) \in FormType
BY DEF FormType, Type, ToBackend, FromBackend

LEMMA ThereIsARow ==
  ASSUME NEW listed \in TemplateRows, NEW t \in Tpl
  PROVE  /\ IsThere(listed, t) <=> listed[t] \in TemplateRow
         /\ listed[t] \in TemplateRow => listed[t].type \in Type /\ listed[t].text \in 0 .. MaxText
         /\ listed[t] = Absent => ~listed[t].default /\ listed[t].type \notin Type
<1>1. Absent \notin TemplateRow /\ ~Absent.default /\ Absent.type \notin Type
  BY DEF Absent, TemplateRow, Type, NoTpl
<1>2. listed[t] \in TemplateRow \cup {Absent}
  BY DEF TemplateRows
<1>3. listed[t] \in TemplateRow => listed[t].type \in Type /\ listed[t].text \in 0 .. MaxText
  BY DEF TemplateRow
<1> QED BY <1>1, <1>2, <1>3 DEF IsThere

LEMMA IdleIsNoTurn == NoTurn.at = "idle"
BY DEF NoTurn

LEMMA TurnIs ==
  ASSUME TemplatesShape, NEW a \in Admin, doing[a].at # "idle"
  PROVE  /\ doing[a] \in TemplateTurn
         /\ doing[a].of \in Tpl /\ doing[a].type \in Type /\ doing[a].text \in 0 .. MaxText
<1>1. doing[a] \in TemplateTurn
  BY IdleIsNoTurn DEF TemplatesShape
<1> QED BY <1>1 DEF TemplateTurn

\* A turn taken or finished: whoever was to mark still is, but for who takes it.
LEMMA NextTurn ==
  ASSUME MarkInv, NEW a \in Admin, NEW w \in TemplateTurn \cup {NoTurn}, Turn(a, w),
         w.at = "clear" => w.does = "mark"
  PROVE  /\ doing' \in [Admin -> TemplateTurn \cup {NoTurn}]
         /\ OnlyMarksClear'
         /\ doing'[a] = w
         /\ \A b \in Admin \ {a} : doing'[b] = doing[b]
BY DEF MarkInv, TemplatesShape, OnlyMarksClear, Turn

LEMMA MarkInit == TemplatesInit => MarkInv
<1> SUFFICES ASSUME TemplatesInit PROVE MarkInv
  OBVIOUS
<1>1. row \in [Tpl -> [type : {"anime", "ova"}, default : BOOLEAN, text : {0}]]
  BY DEF TemplatesInit
<1>2. row \in TemplateRows
  <2>1. 0 \in 0 .. MaxText
    BY TemplatesAssumption
  <2> QED BY <1>1, <2>1 DEF TemplateRows, TemplateRow, Type
<1>3. OnlyMarksClear
  BY IdleIsNoTurn DEF TemplatesInit, OnlyMarksClear
<1> QED BY <1>2, <1>3 DEF TemplatesInit, MarkInv, TemplatesShape, MarkIsHeld

\* Nobody's request and no row changes.
LEMMA PagesMove ==
  ASSUME MarkInv, UNCHANGED <<row, doing, marked>>,
         templates' \in [Admin -> TemplateRows], editor' \in [Admin -> TemplateForm \cup {NoEditor}]
  PROVE  MarkInv'
BY DEF MarkInv, TemplatesShape, OnlyMarksClear, MarkIsHeld, HasDefault, IsToMark

LEMMA StartSetDefaultInv ==
  ASSUME MarkInv, NEW a \in Admin, NEW t \in Tpl, StartSetDefault(a, t) PROVE MarkInv'
<1>1. UNCHANGED <<row, templates, editor, marked>> /\ Free(a)
  BY DEF StartSetDefault, pageState
<1>2. CASE IsThere(row, t)
  <2>1. PICK w : w = [at |-> "clear", does |-> "mark", of |-> t, type |-> row[t].type, text |-> 0]
    OBVIOUS
  <2>2. w \in TemplateTurn /\ w.at = "clear" /\ w.does = "mark"
    <3>1. row[t].type \in Type /\ 0 \in 0 .. MaxText
      BY <1>2, ThereIsARow, TemplatesAssumption DEF MarkInv, TemplatesShape
    <3> QED BY <2>1, <3>1 DEF TemplateTurn
  <2>3. Turn(a, w)
    BY <1>2, <2>1 DEF StartSetDefault
  <2>4. TemplatesShape' /\ OnlyMarksClear' /\ \A b \in Admin \ {a} : doing'[b] = doing[b]
    BY <1>1, <2>2, <2>3, NextTurn DEF MarkInv, TemplatesShape
  <2>5. doing[a].at = "idle"
    BY <1>1 DEF Free
  <2>6. MarkIsHeld'
    BY <1>1, <2>4, <2>5 DEF MarkInv, MarkIsHeld, HasDefault, IsToMark
  <2> QED BY <2>4, <2>6 DEF MarkInv
<1>3. CASE ~IsThere(row, t)
  <2>1. UNCHANGED doing
    BY <1>3 DEF StartSetDefault
  <2> QED BY <1>1, <2>1, PagesMove DEF MarkInv, TemplatesShape
<1> QED BY <1>2, <1>3

LEMMA ClearOthersInv == ASSUME MarkInv, NEW a \in Admin, ClearOthers(a) PROVE MarkInv'
<1>1. UNCHANGED <<templates, editor, marked>> /\ doing[a].at = "clear"
  BY DEF ClearOthers, pageState
<1>2. doing[a] \in TemplateTurn /\ doing[a].does = "mark"
  BY <1>1, TurnIs DEF MarkInv, OnlyMarksClear
<1>3. PICK w : w = [doing[a] EXCEPT !.at = "write"]
  OBVIOUS
<1>4. w \in TemplateTurn /\ w.at = "write" /\ w.does = "mark" /\ w.type = doing[a].type
  BY <1>2, <1>3 DEF TemplateTurn
<1>5. Turn(a, w) /\ row' = Cleared(doing[a].type, doing[a].of)
  BY <1>3 DEF ClearOthers
<1>6. \A t \in Tpl : /\ row'[t] \in TemplateRow \cup {Absent}
                     /\ row'[t].type = row[t].type
                     /\ row[t].type # doing[a].type => row'[t] = row[t]
  <2> SUFFICES ASSUME NEW t \in Tpl
               PROVE  /\ row'[t] \in TemplateRow \cup {Absent}
                      /\ row'[t].type = row[t].type
                      /\ row[t].type # doing[a].type => row'[t] = row[t]
    OBVIOUS
  <2>1. row'[t] = IF row[t].type = doing[a].type /\ t # doing[a].of
                    THEN [row[t] EXCEPT !.default = FALSE] ELSE row[t]
    BY <1>5 DEF Cleared
  <2>2. CASE row[t].type = doing[a].type /\ t # doing[a].of
    <3>1. row[t] \in TemplateRow
      BY <1>2, <2>2, ThereIsARow DEF MarkInv, TemplatesShape, TemplateTurn, TemplateRows
    <3>2. PICK g : g = [row[t] EXCEPT !.default = FALSE]
      OBVIOUS
    <3>3. g \in TemplateRow /\ g.type = row[t].type
      BY <3>1, <3>2 DEF TemplateRow
    <3>4. row'[t] = g
      BY <2>1, <2>2, <3>2
    <3> QED BY <2>2, <3>3, <3>4
  <2>3. CASE ~(row[t].type = doing[a].type /\ t # doing[a].of)
    <3>1. row'[t] = row[t]
      BY <2>1, <2>3
    <3> QED BY <3>1 DEF MarkInv, TemplatesShape, TemplateRows
  <2> QED BY <2>2, <2>3
<1>7. row' \in TemplateRows
  <2>1. row' = [t \in Tpl |-> row'[t]]
    BY <1>5 DEF Cleared
  <2> QED BY <1>6, <2>1 DEF TemplateRows
<1>8. TemplatesShape' /\ OnlyMarksClear' /\ doing'[a] = w /\ \A b \in Admin \ {a} : doing'[b] = doing[b]
  BY <1>1, <1>4, <1>5, <1>7, NextTurn DEF MarkInv, TemplatesShape
<1>9. ASSUME NEW k \in marked PROVE HasDefault(k)' \/ \E b \in Admin : IsToMark(b, k)'
  <2>1. CASE k = doing[a].type
    BY <1>4, <1>8, <2>1 DEF IsToMark
  <2>2. CASE k # doing[a].type
    <3>1. HasDefault(k) => HasDefault(k)'
      BY <1>6, <2>2 DEF HasDefault
    <3>2. ASSUME NEW b \in Admin, IsToMark(b, k) PROVE IsToMark(b, k)'
      BY <1>1, <1>8, <3>2 DEF IsToMark
    <3> QED BY <3>1, <3>2 DEF MarkInv, MarkIsHeld
  <2> QED BY <2>1, <2>2
<1> QED BY <1>1, <1>8, <1>9 DEF MarkInv, MarkIsHeld

\* The last step of a request: whoever else is to mark still is.
LEMMA Finished ==
  ASSUME MarkInv, NEW a \in Admin, Finish(a),
         row' \in TemplateRows, templates' \in [Admin -> TemplateRows],
         editor' \in [Admin -> TemplateForm \cup {NoEditor}], marked' \subseteq Type,
         \A k \in marked' : HasDefault(k)' \/ (k \in marked /\ (HasDefault(k) => HasDefault(k)')
                                                            /\ ~IsToMark(a, k))
  PROVE  MarkInv'
<1>1. /\ doing' \in [Admin -> TemplateTurn \cup {NoTurn}] /\ OnlyMarksClear'
      /\ \A b \in Admin \ {a} : doing'[b] = doing[b]
  BY IdleIsNoTurn, NextTurn DEF Finish
<1>2. MarkIsHeld'
  <2> SUFFICES ASSUME NEW k \in marked', ~HasDefault(k)'
               PROVE  \E b \in Admin : IsToMark(b, k)'
    BY DEF MarkIsHeld
  <2>1. PICK b \in Admin : IsToMark(b, k) /\ b # a
    BY DEF MarkInv, MarkIsHeld
  <2>2. IsToMark(b, k)'
    BY <1>1, <2>1 DEF IsToMark
  <2> QED BY <2>2
<1> QED BY <1>1, <1>2 DEF MarkInv, TemplatesShape

LEMMA MarkDefaultInv == ASSUME MarkInv, NEW a \in Admin, MarkDefault(a) PROVE MarkInv'
<1>1. doing[a].at = "write" /\ doing[a].does = "mark" /\ Finish(a) /\ UNCHANGED <<templates, editor>>
  BY DEF MarkDefault
<1>2. PICK t \in Tpl : t = doing[a].of
  BY <1>1, TurnIs DEF MarkInv
<1>3. CASE IsThere(row, t)
  <2>1. row' = [row EXCEPT ![t].default = TRUE] /\ marked' = (marked \ {doing[a].type}) \cup {row[t].type}
    BY <1>2, <1>3 DEF MarkDefault
  <2>2. row \in TemplateRows /\ row[t] \in TemplateRow /\ row[t].type \in Type
    BY <1>3, ThereIsARow DEF MarkInv, TemplatesShape
  <2>3. PICK g : g = [row[t] EXCEPT !.default = TRUE]
    OBVIOUS
  <2>4. g \in TemplateRow /\ g.type = row[t].type /\ g.default
    BY <2>2, <2>3 DEF TemplateRow
  <2>5. row' = [row EXCEPT ![t] = g]
    BY <2>1, <2>2, <2>3 DEF TemplateRows
  <2>6. row' \in TemplateRows
    BY <2>2, <2>4, <2>5 DEF TemplateRows
  <2>7. \A u \in Tpl : row'[u] = IF u = t THEN g ELSE row[u]
    BY <2>2, <2>5 DEF TemplateRows
  <2>8. ASSUME NEW k \in marked'
        PROVE HasDefault(k)' \/ (k \in marked /\ (HasDefault(k) => HasDefault(k)') /\ ~IsToMark(a, k))
    <3>1. CASE k = row[t].type
      BY <2>4, <2>7, <3>1 DEF HasDefault
    <3>2. CASE k # row[t].type
      BY <2>1, <2>7, <2>4, <3>2 DEF HasDefault, IsToMark
    <3> QED BY <3>1, <3>2
  <2>9. marked' \subseteq Type
    BY <2>1, <2>2 DEF MarkInv, TemplatesShape
  <2> QED BY <1>1, <2>6, <2>8, <2>9, Finished DEF MarkInv, TemplatesShape
<1>4. CASE ~IsThere(row, t)
  <2>1. UNCHANGED row /\ marked' = marked \ {doing[a].type}
    BY <1>2, <1>4 DEF MarkDefault
  <2>2. ASSUME NEW k \in marked'
        PROVE HasDefault(k)' \/ (k \in marked /\ (HasDefault(k) => HasDefault(k)') /\ ~IsToMark(a, k))
    BY <2>1 DEF HasDefault, IsToMark
  <2> QED BY <1>1, <2>1, <2>2, Finished DEF MarkInv, TemplatesShape
<1> QED BY <1>3, <1>4

LEMMA CreateTemplateInv ==
  ASSUME MarkInv, NEW a \in Admin, NEW t \in Tpl, NEW type \in FormType, NEW text \in 1 .. MaxText,
         CreateTemplate(a, t, type, text)
  PROVE  MarkInv'
<1>1. UNCHANGED <<doing, editor, marked>> /\ ~IsThere(row, t)
  BY DEF CreateTemplate
<1>2. PICK g : g = [type |-> ToBackend(type), default |-> FALSE, text |-> text]
  OBVIOUS
<1>3. g \in TemplateRow
  <2>1. text \in 0 .. MaxText
    BY TemplatesAssumption
  <2> QED BY <1>2, <2>1, TypesTranslate DEF TemplateRow
<1>4. row' = [row EXCEPT ![t] = g] /\ row \in TemplateRows
  BY <1>2 DEF CreateTemplate, MarkInv, TemplatesShape
<1>5. row' \in TemplateRows
  BY <1>3, <1>4 DEF TemplateRows
<1>6. \A u \in Tpl \ {t} : row'[u] = row[u]
  BY <1>4 DEF TemplateRows
<1>7. ~row[t].default
  BY <1>1, <1>4, ThereIsARow DEF IsThere
<1>8. ASSUME NEW k \in marked, HasDefault(k) PROVE HasDefault(k)'
  BY <1>6, <1>7, <1>8 DEF HasDefault
<1>9. templates' \in [Admin -> TemplateRows]
  BY <1>5 DEF CreateTemplate, FetchTemplates, MarkInv, TemplatesShape
<1>10. TemplatesShape' /\ OnlyMarksClear'
  BY <1>1, <1>5, <1>9 DEF MarkInv, TemplatesShape, OnlyMarksClear
<1> QED BY <1>1, <1>8, <1>10 DEF MarkInv, MarkIsHeld, IsToMark

LEMMA DialogInv ==
  ASSUME MarkInv, NEW a \in Admin,
         \/ \E t \in Tpl : OpenDialog(a, t)
         \/ \E type \in FormType, text \in 1 .. MaxText : EditDialog(a, type, text)
         \/ CloseDialog(a)
         \/ Reload(a)
  PROVE  MarkInv'
<1> DEFINE Forms == TemplateForm \cup {NoEditor}
<1>0. row \in TemplateRows /\ editor \in [Admin -> Forms] /\ templates \in [Admin -> TemplateRows]
  BY DEF MarkInv, TemplatesShape
<1>1. ASSUME NEW t \in Tpl, OpenDialog(a, t) PROVE MarkInv'
  <2>1. IsThere(templates[a], t) /\ UNCHANGED <<row, doing, templates, marked>>
    BY <1>1 DEF OpenDialog
  <2>2. templates[a][t].type \in Type /\ templates[a][t].text \in 0 .. MaxText
    BY <1>0, <2>1, ThereIsARow
  <2>3. PICK e : e = [of |-> t, type |-> FromBackend(templates[a][t].type),
                      text |-> templates[a][t].text, chosen |-> FALSE]
    OBVIOUS
  <2>4. e \in TemplateForm
    BY <2>2, <2>3, TypesTranslate DEF TemplateForm
  <2>5. editor' = [editor EXCEPT ![a] = e]
    BY <1>1, <2>3 DEF OpenDialog
  <2> QED BY <1>0, <2>1, <2>4, <2>5, PagesMove
<1>2. ASSUME NEW type \in FormType, NEW text \in 1 .. MaxText, EditDialog(a, type, text) PROVE MarkInv'
  <2>1. editor[a] \in TemplateForm /\ UNCHANGED <<row, doing, templates, marked>>
    BY <1>0, <1>2 DEF EditDialog
  <2>2. PICK e \in TemplateForm : e = editor[a]
    BY <2>1
  <2>3. PICK c \in BOOLEAN : c = (e.chosen \/ type # e.type)
    OBVIOUS
  <2>4. editor' = [editor EXCEPT ![a] = [e EXCEPT !.type = type, !.text = text, !.chosen = c]]
    BY <1>0, <1>2, <2>2, <2>3 DEF EditDialog
  <2>5. text \in 0 .. MaxText
    BY TemplatesAssumption
  <2>6. [e EXCEPT !.type = type, !.text = text, !.chosen = c] \in TemplateForm
    BY <2>5 DEF TemplateForm
  <2> QED BY <1>0, <2>1, <2>4, <2>6, PagesMove
<1>3. CASE CloseDialog(a)
  BY <1>0, <1>3, PagesMove DEF CloseDialog
<1>4. CASE Reload(a)
  BY <1>0, <1>4, PagesMove DEF Reload
<1> QED BY <1>1, <1>2, <1>3, <1>4

\* A request that is not to mark a template is begun.
LEMMA RequestBegun ==
  ASSUME MarkInv, NEW a \in Admin, NEW w \in TemplateTurn, w.at = "write", Turn(a, w), Free(a),
         UNCHANGED <<row, templates, editor, marked>>
  PROVE  MarkInv'
<1>1. /\ doing' \in [Admin -> TemplateTurn \cup {NoTurn}] /\ OnlyMarksClear'
      /\ \A b \in Admin \ {a} : doing'[b] = doing[b]
  BY NextTurn
<1>2. \A k : ~IsToMark(a, k)
  BY DEF Free, IsToMark
<1>3. MarkIsHeld'
  BY <1>1, <1>2 DEF MarkInv, MarkIsHeld, HasDefault, IsToMark
<1> QED BY <1>1, <1>3 DEF MarkInv, TemplatesShape

LEMMA SubmitDialogInv == ASSUME MarkInv, NEW a \in Admin, SubmitDialog(a) PROVE MarkInv'
<1>1. editor[a] \in TemplateForm
  BY DEF SubmitDialog, MarkInv, TemplatesShape
<1>2. PICK e \in TemplateForm : e = editor[a]
  BY <1>1
<1>3. PICK w : w = [at |-> "write", does |-> "update", of |-> e.of, type |-> ToBackend(e.type), text |-> e.text]
  OBVIOUS
<1>4. w \in TemplateTurn /\ w.at = "write"
  <2>1. e.of \in Tpl /\ ToBackend(e.type) \in Type /\ e.text \in 0 .. MaxText
    BY TypesTranslate DEF TemplateForm
  <2> QED BY <1>3, <2>1 DEF TemplateTurn
<1>5. Turn(a, w) /\ Free(a) /\ UNCHANGED <<row, templates, editor, marked>>
  BY <1>2, <1>3 DEF SubmitDialog, pageState
<1> QED BY <1>4, <1>5, RequestBegun

LEMMA StartDeleteInv ==
  ASSUME MarkInv, NEW a \in Admin, NEW t \in Tpl, StartDelete(a, t) PROVE MarkInv'
<1>1. PICK w : w = [at |-> "write", does |-> "delete", of |-> t, type |-> row[t].type, text |-> 0]
  OBVIOUS
<1>2. w \in TemplateTurn /\ w.at = "write"
  <2>1. row[t].type \in Type /\ 0 \in 0 .. MaxText
    BY ThereIsARow, TemplatesAssumption DEF StartDelete, MarkInv, TemplatesShape
  <2> QED BY <1>1, <2>1 DEF TemplateTurn
<1>3. Turn(a, w) /\ Free(a) /\ UNCHANGED <<row, templates, editor, marked>>
  BY <1>1 DEF StartDelete, pageState
<1> QED BY <1>2, <1>3, RequestBegun

LEMMA UpdateTemplateInv == ASSUME MarkInv, NEW a \in Admin, UpdateTemplate(a) PROVE MarkInv'
<1>0. /\ doing[a].at = "write" /\ doing[a].does = "update" /\ Finish(a)
      /\ row \in TemplateRows /\ editor \in [Admin -> TemplateForm \cup {NoEditor}] /\ templates \in [Admin -> TemplateRows]
      /\ marked \subseteq Type
  BY DEF UpdateTemplate, MarkInv, TemplatesShape
<1>1. \A k : ~IsToMark(a, k)
  BY <1>0 DEF IsToMark
<1>2. PICK w \in TemplateTurn : w = doing[a]
  BY <1>0, TurnIs DEF MarkInv
<1>3. PICK t \in Tpl : t = w.of
  BY DEF TemplateTurn
<1>4. CASE IsThere(row, t)
  <2>1. /\ row' = [row EXCEPT ![t].type = w.type, ![t].text = w.text]
        /\ marked' = IF row[t].type = w.type THEN marked ELSE marked \ {row[t].type, w.type}
        /\ editor' = [editor EXCEPT ![a] = NoEditor]
        /\ FetchTemplates(a)
    BY <1>2, <1>3, <1>4 DEF UpdateTemplate
  <2>2. row[t] \in TemplateRow
    BY <1>0, <1>4, ThereIsARow
  <2>3. PICK r \in TemplateRow : r = row[t]
    BY <2>2
  <2>4. PICK g : g = [r EXCEPT !.type = w.type, !.text = w.text]
    OBVIOUS
  <2>5. g \in TemplateRow /\ g.type = w.type /\ g.default = r.default
    BY <2>4 DEF TemplateRow, TemplateTurn
  <2>6. row' = [row EXCEPT ![t] = g]
    BY <1>0, <2>1, <2>3, <2>4 DEF TemplateRows
  <2>7. row' \in TemplateRows /\ \A u \in Tpl : row'[u] = IF u = t THEN g ELSE row[u]
    BY <1>0, <2>5, <2>6 DEF TemplateRows
  <2>8. templates' \in [Admin -> TemplateRows]
    BY <1>0, <2>1, <2>7 DEF FetchTemplates
  <2>9. ASSUME NEW k \in marked' PROVE k \in marked /\ (HasDefault(k) => HasDefault(k)')
    <3>1. CASE r.type = w.type
      BY <2>1, <2>3, <2>5, <2>7, <3>1, ZenonT(40) DEF HasDefault
    <3>2. CASE r.type # w.type
      <4>1. k \in marked /\ k # r.type
        BY <2>1, <2>3, <3>2
      <4> QED BY <2>3, <2>7, <4>1 DEF HasDefault
    <3> QED BY <3>1, <3>2
  <2>10. editor' \in [Admin -> TemplateForm \cup {NoEditor}] /\ marked' \subseteq Type
    BY <1>0, <2>1
  <2> QED BY <1>0, <1>1, <2>7, <2>8, <2>9, <2>10, Finished
<1>5. CASE ~IsThere(row, t)
  <2>1. UNCHANGED <<row, marked, editor, templates>>
    BY <1>2, <1>3, <1>5 DEF UpdateTemplate
  <2>2. \A k \in marked : HasDefault(k) => HasDefault(k)'
    BY <2>1 DEF HasDefault
  <2> QED BY <1>0, <1>1, <2>1, <2>2, Finished
<1> QED BY <1>4, <1>5

LEMMA DeleteTemplateInv == ASSUME MarkInv, NEW a \in Admin, DeleteTemplate(a) PROVE MarkInv'
<1>0. /\ doing[a].at = "write" /\ doing[a].does = "delete" /\ Finish(a) /\ UNCHANGED editor
      /\ row \in TemplateRows /\ editor \in [Admin -> TemplateForm \cup {NoEditor}] /\ templates \in [Admin -> TemplateRows]
      /\ marked \subseteq Type
  BY DEF DeleteTemplate, MarkInv, TemplatesShape
<1>1. \A k : ~IsToMark(a, k)
  BY <1>0 DEF IsToMark
<1>2. PICK t \in Tpl : t = doing[a].of
  BY <1>0, TurnIs DEF MarkInv
<1>3. CASE IsThere(row, t)
  <2>1. /\ row' = [row EXCEPT ![t] = Absent] /\ marked' = marked \ {row[t].type}
        /\ templates' = [templates EXCEPT ![a][t] = Absent]
    BY <1>2, <1>3 DEF DeleteTemplate
  <2>2. row' \in TemplateRows /\ \A u \in Tpl \ {t} : row'[u] = row[u]
    BY <1>0, <2>1 DEF TemplateRows
  <2>3. templates' \in [Admin -> TemplateRows]
    BY <1>0, <2>1 DEF TemplateRows
  <2>4. ASSUME NEW k \in marked' PROVE k \in marked /\ (HasDefault(k) => HasDefault(k)')
    BY <2>1, <2>2 DEF HasDefault
  <2> QED BY <1>0, <1>1, <2>1, <2>2, <2>3, <2>4, Finished
<1>4. CASE ~IsThere(row, t)
  <2>1. UNCHANGED <<row, marked, templates>>
    BY <1>2, <1>4 DEF DeleteTemplate
  <2>2. \A k \in marked : HasDefault(k) => HasDefault(k)'
    BY <2>1 DEF HasDefault
  <2> QED BY <1>0, <1>1, <2>1, <2>2, Finished
<1> QED BY <1>3, <1>4

\* What else the program does leaves the templates as they are.
LEMMA TemplatesNextInv ==
  ASSUME MarkInv, TemplatesNext \/ UNCHANGED <<row, doing, pageState, marked>> PROVE MarkInv'
<1>1. CASE UNCHANGED <<row, doing, pageState, marked>>
  BY <1>1, PagesMove DEF pageState, MarkInv, TemplatesShape
<1>2. ASSUME NEW a \in Admin, TemplatesStep(a) PROVE MarkInv'
  <2>1. CASE \E t \in Tpl : StartSetDefault(a, t) \/ StartDelete(a, t)
    BY <2>1, StartSetDefaultInv, StartDeleteInv
  <2>2. CASE \E t \in Tpl : OpenDialog(a, t)
    BY <2>2, DialogInv
  <2>3. ASSUME NEW type \in FormType, NEW text \in 1 .. MaxText, EditDialog(a, type, text)
        PROVE  MarkInv'
    BY <2>3, DialogInv
  <2>4. ASSUME NEW type \in FormType, NEW text \in 1 .. MaxText, NEW t \in Tpl, CreateTemplate(a, t, type, text)
        PROVE  MarkInv'
    BY <2>4, CreateTemplateInv
  <2>5. CASE CloseDialog(a) \/ Reload(a)
    BY <2>5, DialogInv
  <2>6. CASE ClearOthers(a) \/ MarkDefault(a) \/ SubmitDialog(a) \/ UpdateTemplate(a) \/ DeleteTemplate(a)
    BY <2>6, ClearOthersInv, MarkDefaultInv, SubmitDialogInv, UpdateTemplateInv, DeleteTemplateInv
  <2> QED BY <1>2, <2>1, <2>2, <2>3, <2>4, <2>5, <2>6 DEF TemplatesStep
<1> QED BY <1>1, <1>2 DEF TemplatesNext

\* A type that was given a default keeps one, however many administrators give
\* it others at once (template.service's setDefaultTemplate in two writes).
THEOREM DefaultIsKept == TemplatesSpec => []DefaultSurvives
<1>1. MarkInv /\ [TemplatesNext]_templatesVars => MarkInv'
  BY TemplatesNextInv DEF templatesVars
<1>2. MarkInv => DefaultSurvives
  BY DEF MarkInv, MarkIsHeld, HasDefault, IsToMark, DefaultSurvives
<1> QED BY <1>1, <1>2, MarkInit, PTL DEF TemplatesSpec

-----------------------------------------------------------------------------
(* Opening a project                                                       *)
(*                                                                         *)
(* Until the wizard is done, each place given is either taken or its       *)
(* request is still under way; a project being made has no such requests,  *)
(* so the write of the owner's membership overwrites nobody's.             *)

Member == [who : Person, role : PlaceRoles \cup {"supervisor"}]
Choice == Tpl \cup {NoTemplate}
Project == [template : Choice, stage : {"made", "owned", "whole"},
            members : SUBSET Member, units : Nat, type : Type, text : 0 .. MaxText]
Wizard == [step : 1 .. 5, at : {"filling", "creating", "adding", "done"},
           template : Choice, chosen : Choice, type : FormType, seats : SUBSET Seat, made : Nat]

WizardShape ==
  /\ project \in Seq(Project)
  /\ offered \in TemplateRows
  /\ wizard \in Wizard
  /\ adding \subseteq [to : DOMAIN project, seat : Seat]

OncePerProject == \A i \in DOMAIN project : \A s, m \in project[i].members : s.who = m.who => s = m

WholeHasUnits ==
  \A i \in DOMAIN project :
    project[i].stage = "whole" /\ project[i].template # NoTemplate => project[i].units > 0

UnderWay(s) == \E x \in adding : x.to = wizard.made /\ x.seat = s
NoneUnderWay == \A x \in adding : x.to # wizard.made

SeatsAreKept ==
  /\ wizard.at # "filling" => wizard.made \in DOMAIN project
  /\ wizard.at \in {"creating", "done"} => NoneUnderWay
  /\ wizard.at \in {"adding", "done"} =>
       /\ Opened.stage = "whole"
       /\ \A s \in wizard.seats : s \in Opened.members \/ UnderWay(s)

WizardInv == WizardShape /\ OncePerProject /\ WholeHasUnits /\ SeatsAreKept

LEMMA WizardInitInv == TemplatesInit /\ WizardInit => WizardInv
<1> SUFFICES ASSUME TemplatesInit, WizardInit PROVE WizardInv
  OBVIOUS
<1>1. MarkInv
  BY MarkInit
<1>2. offered \in TemplateRows /\ project = <<>> /\ adding = {}
  BY <1>1 DEF WizardInit, MarkInv, TemplatesShape
<1>3. \A t \in Tpl : row[t].type \in Type
  BY DEF TemplatesInit, Type
<1>4. wizard \in Wizard /\ wizard.at = "filling"
  <2>1. CASE wizard = [step |-> 1, at |-> "filling", template |-> NoTemplate, chosen |-> NoTemplate,
                       type |-> "anime", seats |-> {}, made |-> 0]
    BY <2>1 DEF Wizard, Choice, FormType
  <2>2. ASSUME NEW t \in Tpl, wizard = [step |-> 2, at |-> "filling", template |-> t, chosen |-> t,
                                        type |-> FromBackend(row[t].type), seats |-> {}, made |-> 0]
        PROVE  wizard \in Wizard /\ wizard.at = "filling"
    <3>1. FromBackend(row[t].type) \in FormType
      BY <1>3, TypesTranslate
    <3> QED BY <2>2, <3>1 DEF Wizard, Choice
  <2> QED BY <2>1, <2>2 DEF WizardInit
<1> QED BY <1>2, <1>4 DEF WizardInv, WizardShape, OncePerProject, WholeHasUnits, SeatsAreKept

\* While the form is filled in, nothing is promised of it.
LEMMA FillInv ==
  ASSUME WizardInv, NEW next \in Wizard, next.at = "filling", Fill(next) PROVE WizardInv'
BY DEF WizardInv, WizardShape, OncePerProject, WholeHasUnits, SeatsAreKept, Fill

\* The wizard once a template, or none, is chosen.
LEMMA ChosenIsWizard ==
  ASSUME NEW w \in Wizard, w.at = "filling", NEW t \in Choice, NEW type \in FormType
  PROVE  LET chosen == [w EXCEPT !.step = 2, !.template = t, !.chosen = t, !.seats = {}]
             typed == [w EXCEPT !.step = 2, !.template = t, !.chosen = t, !.type = type, !.seats = {}]
         IN  /\ chosen \in Wizard /\ chosen.at = "filling"
             /\ typed \in Wizard /\ typed.at = "filling"
<1>1. PICK g : g = [w EXCEPT !.step = 2]
  OBVIOUS
<1>2. g \in Wizard /\ g.at = "filling"
  BY <1>1 DEF Wizard
<1>3. PICK h : h = [g EXCEPT !.template = t, !.chosen = t]
  OBVIOUS
<1>4. h \in Wizard /\ h.at = "filling"
  BY <1>2, <1>3 DEF Wizard
<1>5. /\ [h EXCEPT !.seats = {}] \in Wizard /\ [h EXCEPT !.seats = {}].at = "filling"
      /\ [h EXCEPT !.type = type, !.seats = {}] \in Wizard
      /\ [h EXCEPT !.type = type, !.seats = {}].at = "filling"
  BY <1>4 DEF Wizard
<1>6. [w EXCEPT !.step = 2, !.template = t, !.chosen = t, !.seats = {}] = [h EXCEPT !.seats = {}]
  BY <1>1, <1>3
<1>7. [w EXCEPT !.step = 2, !.template = t, !.chosen = t, !.type = type, !.seats = {}]
      = [h EXCEPT !.type = type, !.seats = {}]
  BY <1>1, <1>3
<1> QED BY <1>5, <1>6, <1>7

LEMMA FormStepInv ==
  ASSUME WizardInv, Filling,
         \/ \E t \in Tpl : HandleSelectTemplate(t)
         \/ \E type \in FormType : ChooseType(type)
         \/ \E s \in Seat : TakeSeat(s)
         \/ WithoutTemplate \/ HandleNext \/ HandleBack
  PROVE  WizardInv'
<1>0. wizard \in Wizard /\ offered \in TemplateRows /\ wizard.at = "filling"
  BY DEF WizardInv, WizardShape, Filling
<1>1. ASSUME NEW t \in Tpl, HandleSelectTemplate(t) PROVE WizardInv'
  <2>1. FromBackend(offered[t].type) \in FormType
    BY <1>0, <1>1, ThereIsARow, TypesTranslate DEF HandleSelectTemplate
  <2>2. PICK next : next = [wizard EXCEPT !.step = 2, !.template = t, !.chosen = t,
                                          !.type = FromBackend(offered[t].type), !.seats = {}]
    OBVIOUS
  <2>3. next \in Wizard /\ next.at = "filling"
    BY <1>0, <2>1, <2>2, ChosenIsWizard DEF Choice
  <2> QED BY <1>1, <2>2, <2>3, FillInv DEF HandleSelectTemplate
<1>2. ASSUME NEW type \in FormType, ChooseType(type) PROVE WizardInv'
  <2>1. PICK next : next = [wizard EXCEPT !.type = type]
    OBVIOUS
  <2>2. next \in Wizard /\ next.at = "filling"
    BY <1>0, <2>1 DEF Wizard
  <2> QED BY <1>2, <2>1, <2>2, FillInv DEF ChooseType
<1>3. ASSUME NEW s \in Seat, TakeSeat(s) PROVE WizardInv'
  <2>1. PICK next : next = [wizard EXCEPT !.seats = @ \cup {s}]
    OBVIOUS
  <2>2. next \in Wizard /\ next.at = "filling"
    BY <1>0, <2>1 DEF Wizard
  <2> QED BY <1>3, <2>1, <2>2, FillInv DEF TakeSeat
<1>4. CASE WithoutTemplate
  <2>1. PICK next : next = [wizard EXCEPT !.step = 2, !.template = NoTemplate, !.chosen = NoTemplate,
                                          !.seats = {}]
    OBVIOUS
  <2>2. next \in Wizard /\ next.at = "filling"
    <3>1. PICK w \in Wizard : w = wizard
      BY <1>0
    <3>2. NoTemplate \in Choice /\ "anime" \in FormType
      BY DEF Choice, FormType
    <3> QED BY <1>0, <2>1, <3>1, <3>2, ChosenIsWizard
  <2> QED BY <1>4, <2>1, <2>2, FillInv DEF WithoutTemplate
<1>5. CASE HandleNext
  <2>1. PICK next : next = [wizard EXCEPT !.step = @ + 1]
    OBVIOUS
  <2>2. wizard.step + 1 \in 1 .. 5
    BY <1>0, <1>5 DEF HandleNext, Wizard
  <2>3. next \in Wizard /\ next.at = "filling"
    BY <1>0, <2>1, <2>2 DEF Wizard
  <2> QED BY <1>5, <2>1, <2>3, FillInv DEF HandleNext
<1>6. CASE HandleBack
  <2>1. PICK next : next = [wizard EXCEPT !.step = @ - 1]
    OBVIOUS
  <2>2. wizard.step - 1 \in 1 .. 5
    BY <1>0, <1>6 DEF HandleBack, Wizard
  <2>3. next \in Wizard /\ next.at = "filling"
    BY <1>0, <2>1, <2>2 DEF Wizard
  <2> QED BY <1>6, <2>1, <2>3, FillInv DEF HandleBack
<1> QED BY <1>1, <1>2, <1>3, <1>4, <1>5, <1>6

LEMMA HandleFormSubmitInv ==
  ASSUME WizardInv, MarkInv, HandleFormSubmit PROVE WizardInv'
<1>0. /\ wizard \in Wizard /\ wizard.at = "filling" /\ project \in Seq(Project) /\ Len(project) \in Nat
      /\ row \in TemplateRows
  BY DEF HandleFormSubmit, Filling, WizardInv, WizardShape, MarkInv, TemplatesShape
<1>1. PICK t \in Tpl \cup {NoTemplate} : t = wizard.template
  BY <1>0 DEF Wizard, Choice
<1>2. PICK p : p = Fresh(t)
  OBVIOUS
<1>3. p \in Project /\ p.members = {} /\ p.stage = "made"
  <2>1. CASE t = NoTemplate
    <3>1. p = [template |-> t, stage |-> "made", members |-> {}, units |-> 0,
               type |-> ToBackend(wizard.type), text |-> 0]
      BY <1>2, <2>1 DEF Fresh
    <3>2. ToBackend(wizard.type) \in Type /\ 0 \in 0 .. MaxText
      BY <1>0, TypesTranslate, TemplatesAssumption DEF Wizard
    <3> QED BY <3>1, <3>2 DEF Project, Choice
  <2>2. CASE t # NoTemplate
    <3>1. p = [template |-> t, stage |-> "made", members |-> {}, units |-> 0,
               type |-> row[t].type, text |-> row[t].text]
      BY <1>2, <2>2 DEF Fresh
    <3>2. row[t].type \in Type /\ row[t].text \in 0 .. MaxText
      BY <1>0, <1>1, <2>2, ThereIsARow DEF HandleFormSubmit
    <3> QED BY <1>1, <3>1, <3>2 DEF Project, Choice
  <2> QED BY <2>1, <2>2
<1>4. project' = Append(project, p) /\ UNCHANGED <<offered, adding>>
  BY <1>1, <1>2 DEF HandleFormSubmit
<1>5. /\ project' \in Seq(Project) /\ DOMAIN project' = DOMAIN project \cup {Len(project) + 1}
      /\ project'[Len(project) + 1] = p /\ \A i \in DOMAIN project : project'[i] = project[i]
  BY <1>0, <1>3, <1>4
<1>6. Len(project) + 1 \notin DOMAIN project /\ Len(project) + 1 \in Nat
  BY <1>0
<1>7. PICK w : w = [wizard EXCEPT !.at = "creating", !.made = Len(project) + 1]
  OBVIOUS
<1>8. w \in Wizard /\ w.at = "creating" /\ w.made = Len(project) + 1
  BY <1>0, <1>6, <1>7 DEF Wizard
<1>9. wizard' = w
  BY <1>7 DEF HandleFormSubmit
<1>10. WizardShape'
  BY <1>4, <1>5, <1>8, <1>9 DEF WizardInv, WizardShape
<1>11. OncePerProject' /\ WholeHasUnits'
  BY <1>3, <1>5 DEF WizardInv, OncePerProject, WholeHasUnits
<1>12. \A x \in adding : x.to # w.made
  BY <1>6, <1>8 DEF WizardInv, WizardShape
<1>13. SeatsAreKept'
  BY <1>4, <1>5, <1>8, <1>9, <1>12 DEF SeatsAreKept, NoneUnderWay
<1> QED BY <1>10, <1>11, <1>13 DEF WizardInv

\* One project written to.
LEMMA ProjectWritten ==
  ASSUME WizardInv, NEW i \in DOMAIN project, NEW p \in Project, project' = [project EXCEPT ![i] = p]
  PROVE  /\ project' \in Seq(Project) /\ DOMAIN project' = DOMAIN project
         /\ project'[i] = p /\ \A j \in DOMAIN project \ {i} : project'[j] = project[j]
<1>1. project \in Seq(Project)
  BY DEF WizardInv, WizardShape
<1> QED BY <1>1, ExceptSeq

LEMMA CreateProjectInv == ASSUME WizardInv, CreateProject PROVE WizardInv'
<1>0. /\ wizard \in Wizard /\ wizard.at = "creating" /\ wizard.made \in DOMAIN project /\ NoneUnderWay
      /\ UNCHANGED offered
  BY DEF CreateProject, WizardInv, WizardShape, SeatsAreKept
<1>1. PICK i \in DOMAIN project : i = wizard.made
  BY <1>0
<1>2. PICK p \in Project : p = project[i]
  BY DEF WizardInv, WizardShape
<1>3. ASSUME NEW q \in Project, project' = [project EXCEPT ![i] = q], UNCHANGED <<wizard, adding>>,
             \A s, m \in q.members : s.who = m.who => s = m,
             q.stage = "whole" /\ q.template # NoTemplate => q.units > 0
      PROVE  WizardInv'
  <2>1. WizardShape'
    BY <1>0, <1>3, ProjectWritten DEF WizardInv, WizardShape
  <2>2. OncePerProject' /\ WholeHasUnits'
    BY <1>3, ProjectWritten DEF WizardInv, OncePerProject, WholeHasUnits
  <2>3. SeatsAreKept'
    BY <1>0, <1>3, ProjectWritten DEF WizardInv, SeatsAreKept, NoneUnderWay
  <2> QED BY <2>1, <2>2, <2>3 DEF WizardInv
<1>4. CASE /\ project' = [project EXCEPT ![i].stage = "owned",
                                         ![i].members = {[who |-> Owner, role |-> "supervisor"]}]
           /\ UNCHANGED <<wizard, adding>>
  <2>1. PICK o \in Member : o = [who |-> Owner, role |-> "supervisor"]
    BY WizardAssumption DEF Member
  <2>2. PICK q : q = [p EXCEPT !.stage = "owned", !.members = {o}]
    OBVIOUS
  <2>3. q \in Project /\ q.stage = "owned" /\ q.members = {o}
    BY <2>2 DEF Project
  <2>4. project' = [project EXCEPT ![i] = q]
    BY <1>2, <1>4, <2>1, <2>2 DEF WizardInv, WizardShape
  <2> QED BY <1>3, <1>4, <2>3, <2>4
<1>5. CASE project' = [project EXCEPT ![i] = Rest(@)] /\ UNCHANGED <<wizard, adding>>
  <2>1. PICK q : q = Rest(p)
    OBVIOUS
  <2>2. /\ q \in Project /\ q.members = p.members /\ q.template = p.template
        /\ q.template # NoTemplate => q.units > 0
    <3>1. CASE p.template = NoTemplate
      <4>1. q = [p EXCEPT !.stage = "whole"]
        BY <2>1, <3>1 DEF Rest
      <4> QED BY <3>1, <4>1 DEF Project
    <3>2. CASE p.template # NoTemplate
      <4>1. q = [p EXCEPT !.stage = "whole", !.units = 1]
        BY <2>1, <3>2 DEF Rest
      <4>2. q \in Project /\ q.members = p.members /\ q.template = p.template /\ q.units = 1
        BY <4>1 DEF Project
      <4> QED BY <4>2
    <3> QED BY <3>1, <3>2
  <2>3. project' = [project EXCEPT ![i] = q]
    BY <1>2, <1>5, <2>1 DEF WizardInv, WizardShape
  <2>4. \A s, m \in q.members : s.who = m.who => s = m
    BY <1>2, <2>2 DEF WizardInv, OncePerProject
  <2> QED BY <1>3, <1>5, <2>2, <2>3, <2>4
<1>6. CASE /\ project[i].stage = "whole"
           /\ adding' = adding \cup {[to |-> i, seat |-> s] : s \in wizard.seats}
           /\ wizard' = [wizard EXCEPT !.at = "adding"]
           /\ UNCHANGED project
  <2>1. wizard.seats \subseteq Seat
    BY <1>0 DEF Wizard
  <2>2. PICK w : w = [wizard EXCEPT !.at = "adding"]
    OBVIOUS
  <2>3. w \in Wizard /\ w.at = "adding" /\ w.made = i /\ w.seats = wizard.seats
    BY <1>0, <1>1, <2>2 DEF Wizard
  <2>4. wizard' = w
    BY <1>6, <2>2
  <2>5. adding' \subseteq [to : DOMAIN project, seat : Seat]
    BY <1>6, <2>1 DEF WizardInv, WizardShape
  <2>6. ASSUME NEW s \in w.seats PROVE \E x \in adding' : x.to = w.made /\ x.seat = s
    <3>1. [to |-> i, seat |-> s] \in adding'
      BY <1>6, <2>3
    <3> QED BY <2>3, <3>1
  <2>7. WizardShape'
    BY <1>0, <1>6, <2>3, <2>4, <2>5 DEF WizardInv, WizardShape
  <2>8. OncePerProject' /\ WholeHasUnits'
    BY <1>6 DEF WizardInv, OncePerProject, WholeHasUnits
  <2>9. SeatsAreKept'
    <3>1. Opened'.stage = "whole" /\ wizard'.made \in DOMAIN project'
      BY <1>6, <2>3, <2>4 DEF Opened
    <3>2. \A s \in wizard'.seats : UnderWay(s)'
      BY <2>4, <2>6 DEF UnderWay
    <3> QED BY <2>3, <2>4, <3>1, <3>2 DEF SeatsAreKept
  <2> QED BY <2>7, <2>8, <2>9 DEF WizardInv
<1> QED BY <1>1, <1>4, <1>5, <1>6 DEF CreateProject

LEMMA AddMemberInv == ASSUME WizardInv, NEW x \in adding, AddMember(x) PROVE WizardInv'
<1>0. /\ wizard \in Wizard /\ project \in Seq(Project)
      /\ x.to \in DOMAIN project /\ x.seat \in Seat
      /\ adding' = adding \ {x} /\ UNCHANGED offered
  BY DEF AddMember, WizardInv, WizardShape
<1>1. PICK i \in DOMAIN project : i = x.to
  BY <1>0
<1>2. PICK p \in Project : p = project[i]
  BY <1>0
<1>3. CASE Adds(x)
  <2>1. \A m \in p.members : m.who # x.seat.who
    BY <1>1, <1>2, <1>3 DEF Adds
  <2>2. PICK q : q = [p EXCEPT !.members = @ \cup {x.seat}]
    OBVIOUS
  <2>3. x.seat \in Member
    BY <1>0 DEF Seat, Member
  <2>4. /\ q \in Project /\ q.members = p.members \cup {x.seat}
        /\ q.stage = p.stage /\ q.template = p.template /\ q.units = p.units
    BY <2>2, <2>3 DEF Project
  <2>5. project' = [project EXCEPT ![i] = q] /\ UNCHANGED wizard
    BY <1>0, <1>1, <1>2, <1>3, <2>2 DEF AddMember
  <2>6. /\ project' \in Seq(Project) /\ DOMAIN project' = DOMAIN project
        /\ project'[i] = q /\ \A j \in DOMAIN project \ {i} : project'[j] = project[j]
    BY <2>4, <2>5, ProjectWritten
  <2>7. WizardShape'
    BY <1>0, <2>5, <2>6 DEF WizardInv, WizardShape
  <2>8. \A s, m \in q.members : s.who = m.who => s = m
    <3>1. \A s, m \in p.members : s.who = m.who => s = m
      BY <1>2 DEF WizardInv, OncePerProject
    <3> QED BY <2>1, <2>4, <3>1
  <2>9. OncePerProject' /\ WholeHasUnits'
    BY <1>2, <2>4, <2>6, <2>8 DEF WizardInv, OncePerProject, WholeHasUnits
  <2>10. \A j \in DOMAIN project : /\ project'[j].stage = project[j].stage
                                   /\ project[j].members \subseteq project'[j].members
    BY <1>2, <2>4, <2>6
  <2>11. \A s : UnderWay(s) => UnderWay(s)' \/ (x.to = wizard.made /\ s = x.seat)
    BY <1>0, <2>5 DEF UnderWay
  <2>12. x.seat \in project'[i].members
    BY <2>4, <2>6
  <2>13. SeatsAreKept'
    <3>1. wizard.at # "filling" => wizard.made \in DOMAIN project'
      BY <2>6 DEF WizardInv, SeatsAreKept
    <3>2. wizard.at \in {"creating", "done"} => NoneUnderWay'
      BY <1>0, <2>5 DEF WizardInv, SeatsAreKept, NoneUnderWay
    <3>3. ASSUME wizard.at \in {"adding", "done"}
          PROVE  /\ project'[wizard.made].stage = "whole"
                 /\ \A s \in wizard.seats : s \in project'[wizard.made].members \/ UnderWay(s)'
      <4>1. wizard.made \in DOMAIN project /\ project[wizard.made].stage = "whole"
        BY <3>3 DEF WizardInv, SeatsAreKept, Opened
      <4>2. \A s \in wizard.seats : s \in project[wizard.made].members \/ UnderWay(s)
        BY <3>3 DEF WizardInv, SeatsAreKept, Opened
      <4> QED BY <1>1, <2>10, <2>11, <2>12, <4>1, <4>2
    <3> QED BY <2>5, <3>1, <3>2, <3>3 DEF SeatsAreKept, Opened
  <2> QED BY <2>7, <2>9, <2>13 DEF WizardInv
<1>4. CASE ~Adds(x)
  <2>1. /\ UNCHANGED project
        /\ wizard' = IF wizard.at = "adding" /\ wizard.made = x.to
                       THEN [wizard EXCEPT !.at = "filling"] ELSE wizard
    BY <1>4 DEF AddMember
  <2>2. OncePerProject' /\ WholeHasUnits'
    BY <2>1 DEF WizardInv, OncePerProject, WholeHasUnits
  <2>3. CASE wizard.at = "adding" /\ wizard.made = x.to
    <3>1. PICK w : w = [wizard EXCEPT !.at = "filling"]
      OBVIOUS
    <3>2. w \in Wizard /\ w.at = "filling" /\ wizard' = w
      BY <1>0, <2>1, <2>3, <3>1 DEF Wizard
    <3>3. WizardShape'
      BY <1>0, <2>1, <3>2 DEF WizardInv, WizardShape
    <3>4. SeatsAreKept'
      BY <3>2 DEF SeatsAreKept
    <3> QED BY <2>2, <3>3, <3>4 DEF WizardInv
  <2>4. CASE ~(wizard.at = "adding" /\ wizard.made = x.to)
    <3>1. UNCHANGED wizard
      BY <2>1, <2>4
    <3>2. WizardShape'
      BY <1>0, <2>1, <3>1 DEF WizardInv, WizardShape
    <3>3. wizard.at = "done" => x.to # wizard.made
      BY DEF WizardInv, SeatsAreKept, NoneUnderWay
    <3>4. wizard.at \in {"adding", "done"} => \A s : UnderWay(s) => UnderWay(s)'
      BY <1>0, <2>4, <3>1, <3>3 DEF UnderWay
    <3>5. SeatsAreKept'
      BY <1>0, <2>1, <3>1, <3>4 DEF WizardInv, SeatsAreKept, NoneUnderWay, Opened
    <3> QED BY <2>2, <3>2, <3>5 DEF WizardInv
  <2> QED BY <2>3, <2>4
<1> QED BY <1>3, <1>4

LEMMA WizardStopsInv == ASSUME WizardInv, CreatingFails \/ MembersAdded PROVE WizardInv'
<1>1. PICK at \in {"filling", "done"} :
        /\ wizard' = [wizard EXCEPT !.at = at] /\ UNCHANGED <<project, offered, adding>>
        /\ at = "done" => wizard.at = "adding" /\ NoneUnderWay
  BY DEF CreatingFails, MembersAdded, NoneUnderWay
<1>2. wizard \in Wizard
  BY DEF WizardInv, WizardShape
<1>3. PICK w : w = [wizard EXCEPT !.at = at]
  OBVIOUS
<1>4. w \in Wizard /\ w.at = at /\ w.made = wizard.made /\ w.seats = wizard.seats /\ wizard' = w
  BY <1>1, <1>2, <1>3 DEF Wizard
<1>5. WizardShape' /\ OncePerProject' /\ WholeHasUnits'
  BY <1>1, <1>4 DEF WizardInv, WizardShape, OncePerProject, WholeHasUnits
<1>6. SeatsAreKept'
  BY <1>1, <1>4 DEF WizardInv, SeatsAreKept, NoneUnderWay, UnderWay, Opened
<1> QED BY <1>5, <1>6 DEF WizardInv

LEMMA WizardNextInv ==
  ASSUME WizardInv, MarkInv, WizardNext \/ UNCHANGED wizardVars PROVE WizardInv'
<1>1. CASE UNCHANGED wizardVars
  BY <1>1 DEF wizardVars, WizardInv, WizardShape, OncePerProject, WholeHasUnits, SeatsAreKept,
              NoneUnderWay, UnderWay, Opened
<1>2. CASE WizardNext
  <2>1. CASE \/ \E t \in Tpl : HandleSelectTemplate(t)
             \/ \E type \in FormType : ChooseType(type)
             \/ \E s \in Seat : TakeSeat(s)
             \/ WithoutTemplate \/ HandleNext \/ HandleBack
    <3>1. Filling
      BY <2>1 DEF HandleSelectTemplate, ChooseType, TakeSeat, WithoutTemplate, HandleNext, HandleBack, Fill
    <3> QED BY <2>1, <3>1, FormStepInv
  <2>2. CASE HandleFormSubmit
    BY <2>2, HandleFormSubmitInv
  <2>3. CASE CreateProject
    BY <2>3, CreateProjectInv
  <2>4. CASE CreatingFails \/ MembersAdded
    BY <2>4, WizardStopsInv
  <2>5. CASE \E x \in adding : AddMember(x)
    BY <2>5, AddMemberInv
  <2> QED BY <1>2, <2>1, <2>2, <2>3, <2>4, <2>5 DEF WizardNext
<1> QED BY <1>1, <1>2

\* None of the wizard's steps writes a template.
LEMMA WizardLeavesTemplates ==
  ASSUME WizardNext PROVE UNCHANGED <<row, doing, pageState, marked>>
BY DEF WizardNext, HandleSelectTemplate, ChooseType, TakeSeat, WithoutTemplate, HandleNext, HandleBack,
       HandleFormSubmit, CreateProject, CreatingFails, MembersAdded, AddMember, Fill, templatesVars

\* A project the wizard calls created has its units and everybody who was given
\* a place, for any number of places and in any order of the requests
\* (ProjectWizard's handleFormSubmit, addMember), whatever happens to the templates.
THEOREM CreatedProjectsAreWhole == WizardSpec => [](CreatedIsWhole /\ DefaultSurvives)
<1>1. TemplatesInit /\ WizardInit => MarkInv /\ WizardInv
  BY MarkInit, WizardInitInv
<1>2. /\ MarkInv /\ WizardInv
      /\ [WizardNext \/ (TemplatesNext /\ UNCHANGED wizardVars)]_<<templatesVars, wizardVars>>
      => MarkInv' /\ WizardInv'
  <2> SUFFICES ASSUME MarkInv, WizardInv,
                      [WizardNext \/ (TemplatesNext /\ UNCHANGED wizardVars)]_<<templatesVars, wizardVars>>
               PROVE  MarkInv' /\ WizardInv'
    OBVIOUS
  <2>1. CASE WizardNext
    BY <2>1, WizardNextInv, TemplatesNextInv, WizardLeavesTemplates
  <2>2. CASE TemplatesNext /\ UNCHANGED wizardVars
    BY <2>2, WizardNextInv, TemplatesNextInv
  <2>3. CASE UNCHANGED <<templatesVars, wizardVars>>
    BY <2>3, WizardNextInv, TemplatesNextInv DEF templatesVars
  <2> QED BY <2>1, <2>2, <2>3
<1>3. WizardInv => CreatedIsWhole
  BY DEF WizardInv, OncePerProject, WholeHasUnits, SeatsAreKept, NoneUnderWay, UnderWay, Opened, CreatedIsWhole
<1>4. MarkInv => DefaultSurvives
  BY DEF MarkInv, MarkIsHeld, HasDefault, IsToMark, DefaultSurvives
<1> QED BY <1>1, <1>2, <1>3, <1>4, PTL DEF WizardSpec

-----------------------------------------------------------------------------
(* The episodes of a season.  Between the reads of an edit the members go  *)
(* on working.  What was there when the edit began stays in sight of one   *)
(* of the reads: it is never idle again, and what hangs on a task or an    *)
(* episode never moves to another.                                         *)

Piece == [kind : Kind, unit : Nat, task : Nat, idle : BOOLEAN]
Number == Nat \ {0}
PlanRow == [at : {"tasks", "rest", "write"}, drop : SUBSET Number, force : BOOLEAN,
            make : SUBSET Nat, had : SUBSET Number, tasks : SUBSET Number,
            touched : SUBSET Number, files : SUBSET Number, claims : SUBSET Number]

Noted(i) == item[i].kind \in {"claim", "comment"}

\* The work an edit found is that of no idle task.
HadIsWork(q) == \A i \in q.had : i \in Item /\ ~Idle(i)

\* On what was read of the tasks, work shows.
TouchShows(q) ==
  \A i \in q.had :
    /\ item[i].kind = "task" /\ i \in q.tasks => i \in q.touched
    /\ Noted(i) /\ item[i].task \in q.tasks => item[i].task \in q.touched

\* What an edit that was not forced is about to delete is none of that work.
WorkIsSpared(q) ==
  /\ q.files = {} /\ q.claims = {}
  /\ \A i \in q.had :
       /\ item[i].kind = "task" => i \notin q.tasks
       /\ Noted(i) => item[i].task \notin q.tasks
       /\ item[i].kind = "job" => item[i].unit \notin q.drop

PlanHolds(q) ==
  /\ HadIsWork(q)
  /\ q.at = "rest" => TouchShows(q)
  /\ q.at = "write" /\ ~q.force => WorkIsSpared(q)

TasksAreTasks(q) == \A t \in q.tasks : t \in Item /\ item[t].kind \in {"task", "gone"}

SeasonInv ==
  /\ unit \in Seq(Nat)
  /\ item \in Seq(Piece)
  /\ DOMAIN plan = Planner
  /\ \A p \in Planner : plan[p] # NoPlan =>
       /\ plan[p] \in PlanRow /\ IsFiniteSet(plan[p].make)
       /\ PlanHolds(plan[p]) /\ TasksAreTasks(plan[p])

\* Work neither moves nor becomes idle.
WorkStands ==
  \A i \in Item :
    /\ i \in Item'
    /\ item'[i].kind \in {item[i].kind, "gone"}
    /\ item'[i].idle => item[i].idle
    /\ item'[i].unit \in {item[i].unit, 0}
    /\ item'[i].task \in {item[i].task, 0}

LEMMA PlanStands ==
  ASSUME WorkStands, NEW q \in PlanRow, PlanHolds(q), TasksAreTasks(q)
  PROVE  PlanHolds(q)' /\ TasksAreTasks(q)'
<1>1. 0 \notin q.drop /\ 0 \notin q.tasks
  BY DEF PlanRow, Number
<1>2. HadIsWork(q)'
  BY DEF WorkStands, PlanHolds, HadIsWork, Idle
<1>3. ASSUME q.at = "rest" PROVE TouchShows(q)'
  BY <1>1, <1>3 DEF WorkStands, PlanHolds, HadIsWork, TouchShows, Noted
<1>4. ASSUME q.at = "write", ~q.force PROVE WorkIsSpared(q)'
  BY <1>1, <1>4 DEF WorkStands, PlanHolds, HadIsWork, WorkIsSpared, Noted
<1>5. TasksAreTasks(q)'
  BY DEF WorkStands, TasksAreTasks
<1> QED
  BY <1>2, <1>3, <1>4, <1>5 DEF PlanHolds

\* A step that leaves the plans alone.
LEMMA WorkGoesOn ==
  ASSUME SeasonInv, WorkStands, plan' = plan, unit' \in Seq(Nat), item' \in Seq(Piece)
  PROVE  SeasonInv'
<1> SUFFICES ASSUME NEW p \in Planner, plan[p] # NoPlan
             PROVE  PlanHolds(plan[p])' /\ TasksAreTasks(plan[p])'
  BY DEF SeasonInv
<1>1. PICK q : q = plan[p]
  OBVIOUS
<1>2. q \in PlanRow /\ PlanHolds(q) /\ TasksAreTasks(q)
  BY <1>1 DEF SeasonInv
<1>3. PlanHolds(q)' /\ TasksAreTasks(q)'
  BY <1>2, PlanStands
<1>4. q = plan'[p]
  BY <1>1
<1> QED
  BY <1>3, <1>4

\* A step of one plan.
LEMMA PlanMoves ==
  ASSUME SeasonInv, UNCHANGED <<unit, item>>, NEW p \in Planner, NEW q,
         plan' = [plan EXCEPT ![p] = q],
         q # NoPlan => q \in PlanRow /\ IsFiniteSet(q.make) /\ PlanHolds(q) /\ TasksAreTasks(q)
  PROVE  SeasonInv'
<1>1. DOMAIN plan' = Planner /\ \A r \in Planner : plan'[r] = IF r = p THEN q ELSE plan[r]
  BY DEF SeasonInv
<1>2. \A r \in PlanRow : PlanHolds(r) /\ TasksAreTasks(r) => PlanHolds(r)' /\ TasksAreTasks(r)'
  <2>1. WorkStands
    BY DEF WorkStands, Item
  <2> QED
    BY <2>1, PlanStands
<1> SUFFICES ASSUME NEW r \in Planner, plan'[r] # NoPlan
             PROVE  /\ plan'[r] \in PlanRow /\ IsFiniteSet(plan'[r].make)
                    /\ PlanHolds(plan[r])' /\ TasksAreTasks(plan[r])'
  BY <1>1 DEF SeasonInv
<1>3. PICK s : s = plan'[r]
  OBVIOUS
<1>4. s \in PlanRow /\ IsFiniteSet(s.make) /\ PlanHolds(s) /\ TasksAreTasks(s)
  BY <1>1, <1>3 DEF SeasonInv
<1>5. PlanHolds(s)' /\ TasksAreTasks(s)'
  BY <1>2, <1>4
<1> QED
  BY <1>3, <1>4, <1>5

-----------------------------------------------------------------------------
(* The members' work.                                                      *)

LEMMA PieceOf ==
  ASSUME SeasonInv, NEW i \in Item
  PROVE  /\ i \in Number /\ item[i] \in Piece
         /\ item[i].kind \in Kind /\ item[i].unit \in Nat /\ item[i].task \in Nat
         /\ item[i].idle \in BOOLEAN
<1>1. item \in Seq(Piece)
  BY DEF SeasonInv
<1>2. Item = 1 .. Len(item) /\ Len(item) \in Nat
  BY <1>1 DEF Item
<1>3. item[i] \in Piece
  BY <1>1, <1>2, ElementOfSeq
<1> QED
  BY <1>2, <1>3 DEF Piece, Number

LEMMA RowsAreNumbers == SeasonInv => Row \subseteq Number /\ Rows \subseteq Row /\ IsFiniteSet(Row)
<1> SUFFICES ASSUME SeasonInv PROVE Row \subseteq Number /\ IsFiniteSet(Row)
  BY DEF Rows
<1>1. Row = 1 .. Len(unit) /\ Len(unit) \in Nat
  BY DEF SeasonInv, Row
<1>2. 1 \in Int /\ Len(unit) \in Int
  BY <1>1
<1>3. IsFiniteSet(Row)
  BY <1>1, <1>2, FS_Interval, Zenon
<1> QED
  BY <1>1, <1>3 DEF Number

\* A piece of work is added to those there are, some of which lose their idleness.
LEMMA WorkIsAdded ==
  ASSUME SeasonInv, NEW s \in Seq(Piece), NEW new \in Piece, Len(s) = Len(item),
         \A i \in Item : /\ s[i].kind = item[i].kind /\ (s[i].idle => item[i].idle)
                         /\ s[i].unit = item[i].unit /\ s[i].task = item[i].task,
         item' = Append(s, new), UNCHANGED <<unit, plan>>
  PROVE  SeasonInv'
<1>1. item' \in Seq(Piece) /\ Len(item') = Len(s) + 1
        /\ \A i \in 1 .. Len(s) : item'[i] = s[i]
  BY AppendProperties
<1>2. Item = 1 .. Len(s) /\ Len(s) \in Nat
  BY DEF SeasonInv, Item
<1>3. Item' = 1 .. Len(s) + 1
  BY <1>1, <1>2 DEF Item
<1>4. WorkStands
  BY <1>1, <1>2, <1>3 DEF WorkStands
<1> QED
  BY <1>1, <1>4, WorkGoesOn DEF SeasonInv

LEMMA AddInv ==
  ASSUME SeasonInv, NEW k \in Kind, NEW u \in Nat, NEW t \in Nat, NEW b \in BOOLEAN, Add(k, u, t, b)
  PROVE  SeasonInv'
<1>1. [kind |-> k, unit |-> u, task |-> t, idle |-> b] \in Piece
  BY DEF Piece
<1>2. item \in Seq(Piece)
  BY DEF SeasonInv
<1> QED
  BY <1>1, <1>2, WorkIsAdded DEF Add

\* A task somebody sets to work on.
LEMMA TaskTouched ==
  ASSUME SeasonInv, NEW t \in Item
  PROVE  /\ [item EXCEPT ![t].idle = FALSE] \in Seq(Piece)
         /\ Len([item EXCEPT ![t].idle = FALSE]) = Len(item)
         /\ \A i \in Item : LET s == [item EXCEPT ![t].idle = FALSE]
                            IN /\ s[i].kind = item[i].kind /\ (s[i].idle => item[i].idle)
                               /\ s[i].unit = item[i].unit /\ s[i].task = item[i].task
<1>1. item \in Seq(Piece) /\ Item = 1 .. Len(item) /\ item[t] \in Piece
  BY PieceOf DEF SeasonInv, Item
<1>2. PICK e : e = [item[t] EXCEPT !.idle = FALSE]
  OBVIOUS
<1>3. e \in Piece /\ e.kind = item[t].kind /\ ~e.idle /\ e.unit = item[t].unit /\ e.task = item[t].task
  BY <1>1, <1>2 DEF Piece
<1>4. PICK s : s = [item EXCEPT ![t].idle = FALSE]
  OBVIOUS
<1>5. s = [item EXCEPT ![t] = e]
  BY <1>2, <1>4
<1>6. s \in Seq(Piece) /\ Len(s) = Len(item) /\ \A i \in Item : s[i] = IF i = t THEN e ELSE item[i]
  BY <1>1, <1>3, <1>5, ExceptSeq
<1>7. \A i \in Item : /\ s[i].kind = item[i].kind /\ (s[i].idle => item[i].idle)
                     /\ s[i].unit = item[i].unit /\ s[i].task = item[i].task
  BY <1>3, <1>6
<1> QED
  BY <1>4, <1>6, <1>7, Zenon

LEMMA MembersWorkInv ==
  ASSUME SeasonInv,
         \/ \E u \in Rows \cup {0} : AddTask(u) \/ AddJob(u)
         \/ \E t \in Item : TouchTask(t) \/ AddClaim(t) \/ AddNote(t)
         \/ \E u \in Rows \cup {0}, t \in Item \cup {0} : AddFile(u, t)
  PROVE  SeasonInv'
<1> USE DEF Kind
<1>1. Rows \cup {0} \subseteq Nat /\ Item \cup {0} \subseteq Nat
  BY RowsAreNumbers, PieceOf DEF Number
<1>2. ASSUME NEW u \in Rows \cup {0}, AddTask(u) \/ AddJob(u) PROVE SeasonInv'
  BY <1>1, <1>2, AddInv DEF AddTask, AddJob
<1>3. ASSUME NEW t \in Item, TouchTask(t) PROVE SeasonInv'
  <2>1. PICK s : s = [item EXCEPT ![t].idle = FALSE]
    OBVIOUS
  <2>2. item' = s /\ plan' = plan /\ unit' = unit
    BY <1>3, <2>1 DEF TouchTask
  <2>3. s \in Seq(Piece) /\ Len(s) = Len(item)
          /\ \A i \in Item : /\ s[i].kind = item[i].kind /\ (s[i].idle => item[i].idle)
                              /\ s[i].unit = item[i].unit /\ s[i].task = item[i].task
    BY <2>1, TaskTouched, Zenon
  <2>4. Item' = Item
    BY <2>2, <2>3 DEF SeasonInv, Item
  <2>5. WorkStands
    BY <2>2, <2>3, <2>4 DEF WorkStands
  <2> QED
    BY <2>2, <2>3, <2>5, WorkGoesOn DEF SeasonInv
<1>4. ASSUME NEW t \in Item, AddClaim(t) PROVE SeasonInv'
  <2>1. PICK s : s = [item EXCEPT ![t].idle = FALSE]
    OBVIOUS
  <2>2. PICK new : new = [kind |-> "claim", unit |-> item[t].unit, task |-> t, idle |-> FALSE]
    OBVIOUS
  <2>3. new \in Piece
    BY <1>1, <2>2, PieceOf DEF Piece
  <2>4. item' = Append(s, new) /\ UNCHANGED <<unit, plan>>
    BY <1>4, <2>1, <2>2 DEF AddClaim
  <2>5. s \in Seq(Piece) /\ Len(s) = Len(item)
          /\ \A i \in Item : /\ s[i].kind = item[i].kind /\ (s[i].idle => item[i].idle)
                              /\ s[i].unit = item[i].unit /\ s[i].task = item[i].task
    BY <2>1, TaskTouched, Zenon
  <2> QED
    BY <2>3, <2>4, <2>5, WorkIsAdded
<1>5. ASSUME NEW t \in Item, AddNote(t) PROVE SeasonInv'
  BY <1>1, <1>5, AddInv DEF AddNote
<1>6. ASSUME NEW u \in Rows \cup {0}, NEW t \in Item \cup {0}, AddFile(u, t) PROVE SeasonInv'
  BY <1>1, <1>6, AddInv DEF AddFile
<1> QED
  BY <1>2, <1>3, <1>4, <1>5, <1>6

-----------------------------------------------------------------------------
(* An edit of the season.                                                  *)

LEMMA NumbersInUse ==
  ASSUME SeasonInv, NEW drop
  PROVE  Cardinality({unit[r] : r \in Rows \ drop}) \in Nat
<1> DEFINE S == Rows \ drop
           T == {unit[r] : r \in S}
<1>1. IsFiniteSet(S)
  BY RowsAreNumbers, FS_Subset
<1>2. [r \in S |-> unit[r]] \in Surjection(S, T)
  BY DEF Surjection
<1>3. IsFiniteSet(T)
  BY <1>1, <1>2, FS_Surjection
<1> QED
  BY <1>3, FS_CardinalityType

LEMMA MissingIsFinite ==
  ASSUME NEW rest, Cardinality(rest) \in Nat, NEW k \in Int
  PROVE  Missing(rest, k) \subseteq Nat /\ IsFiniteSet(Missing(rest, k))
<1> DEFINE top == k + Cardinality(rest)
<1>1. 1 \in Int /\ top \in Int
  OBVIOUS
<1>2. IsFiniteSet(1 .. top)
  BY <1>1, FS_Interval, Zenon
<1>3. Missing(rest, k) \subseteq 1 .. top
  BY DEF Missing
<1>4. 1 .. top \subseteq Nat
  BY <1>1
<1> QED
  BY <1>2, <1>3, <1>4, FS_Subset

LEMMA BeginUnitsInv ==
  ASSUME SeasonInv, NEW p \in Planner, NEW n \in 1 .. MaxUnits, NEW chosen \in SUBSET Rows,
         NEW force \in BOOLEAN, BeginUnits(p, n, chosen, force)
  PROVE  SeasonInv'
<1> DEFINE drop == Dropped(n, chosen)
           rest == {unit[r] : r \in Rows \ drop}
           make == Missing(rest, n - Cardinality(rest))
<1>1. drop \subseteq Number
  BY RowsAreNumbers DEF Dropped, Beyond
<1>2. Work \subseteq Number /\ \A i \in Work : i \in Item /\ ~Idle(i)
  BY PieceOf DEF Work
<1>3. Cardinality(rest) \in Nat
  BY NumbersInUse
<1>4. n - Cardinality(rest) \in Int
  BY <1>3, SeasonsAssumption
<1>5. make \subseteq Nat /\ IsFiniteSet(make)
  BY <1>3, <1>4, MissingIsFinite
<1> HIDE DEF drop, rest, make
<1>6. PICK d : d = drop
  OBVIOUS
<1>7. PICK m : m = make
  OBVIOUS
<1>8. PICK had : had = Work
  OBVIOUS
<1>9. PICK at : at = IF d = {} THEN "write" ELSE "tasks"
  OBVIOUS
<1>10. PICK q : q = [at |-> at, drop |-> d, force |-> force, make |-> m, had |-> had,
                     tasks |-> {}, touched |-> {}, files |-> {}, claims |-> {}]
  OBVIOUS
<1>11. plan' = [plan EXCEPT ![p] = q] /\ UNCHANGED <<unit, item>>
  BY <1>6, <1>7, <1>8, <1>9, <1>10 DEF BeginUnits, drop, rest, make
<1>12. q \in PlanRow
  BY <1>1, <1>2, <1>5, <1>6, <1>7, <1>8, <1>9, <1>10 DEF PlanRow
<1>13. /\ q.had = had /\ q.drop = d /\ q.make = m /\ q.at = at
       /\ q.tasks = {} /\ q.files = {} /\ q.claims = {}
  BY <1>10
<1>14. at = "write" => d = {}
  BY <1>9
<1>15. PlanHolds(q) /\ TasksAreTasks(q)
  BY <1>2, <1>8, <1>9, <1>13, <1>14 DEF PlanHolds, HadIsWork, WorkIsSpared, TasksAreTasks
<1> QED
  BY <1>5, <1>7, <1>11, <1>12, <1>13, <1>15, PlanMoves

LEMMA PlanAt ==
  ASSUME SeasonInv, NEW p \in Planner, plan[p].at # "none"
  PROVE  /\ plan[p] \in PlanRow /\ IsFiniteSet(plan[p].make)
         /\ PlanHolds(plan[p]) /\ TasksAreTasks(plan[p])
BY DEF SeasonInv, NoPlan

LEMMA ReadUnitTasksInv ==
  ASSUME SeasonInv, NEW p \in Planner, ReadUnitTasks(p)
  PROVE  SeasonInv'
<1> DEFINE read == {t \in Of("task") : item[t].unit \in plan[p].drop}
<1>1. PICK q : q = plan[p]
  OBVIOUS
<1>2. q \in PlanRow /\ IsFiniteSet(q.make) /\ PlanHolds(q)
  BY <1>1, PlanAt DEF ReadUnitTasks
<1>3. PICK tasks : tasks = read
  OBVIOUS
<1>4. PICK touched : touched = {t \in tasks : Blocking(t)}
  OBVIOUS
<1>5. /\ tasks \subseteq Number /\ touched \subseteq tasks
      /\ \A t \in tasks : t \in Item /\ item[t].kind = "task"
  BY <1>3, <1>4, PieceOf DEF Of
<1>6. PICK a : a = [q EXCEPT !.at = "rest"]
  OBVIOUS
<1>7. a \in PlanRow /\ a.at = "rest" /\ a.had = q.had /\ a.make = q.make
  BY <1>2, <1>6 DEF PlanRow
<1>8. PICK b : b = [a EXCEPT !.tasks = tasks]
  OBVIOUS
<1>9. b \in PlanRow /\ b.at = "rest" /\ b.had = q.had /\ b.make = q.make /\ b.tasks = tasks
  BY <1>5, <1>7, <1>8 DEF PlanRow
<1>10. PICK c : c = [b EXCEPT !.touched = touched]
  OBVIOUS
<1>11. /\ c \in PlanRow /\ c.at = "rest" /\ c.had = q.had /\ c.make = q.make
       /\ c.tasks = tasks /\ c.touched = touched
  BY <1>5, <1>9, <1>10 DEF PlanRow
<1>12. plan' = [plan EXCEPT ![p] = c] /\ UNCHANGED <<unit, item>>
  <2>1. c = [[[q EXCEPT !.at = "rest"] EXCEPT !.tasks = tasks] EXCEPT !.touched = touched]
    BY <1>6, <1>8, <1>10
  <2>2. c = [q EXCEPT !.at = "rest", !.tasks = tasks, !.touched = touched]
    BY <2>1, <1>2, <1>11 DEF PlanRow
  <2>3. plan' = [plan EXCEPT ![p] = [plan[p] EXCEPT !.at = "rest", !.tasks = tasks, !.touched = touched]]
    BY <1>3, <1>4 DEF ReadUnitTasks
  <2> QED
    BY <1>1, <2>2, <2>3 DEF ReadUnitTasks
<1>13. HadIsWork(c)
  BY <1>2, <1>11 DEF PlanHolds, HadIsWork
<1>14. TouchShows(c)
  <2> SUFFICES ASSUME NEW i \in q.had
               PROVE  /\ item[i].kind = "task" /\ i \in tasks => i \in touched
                      /\ Noted(i) /\ item[i].task \in tasks => item[i].task \in touched
    BY <1>11 DEF TouchShows
  <2>1. i \in Item /\ ~Idle(i)
    BY <1>2 DEF PlanHolds, HadIsWork
  <2>2. item[i].kind = "task" => Blocking(i)
    BY <2>1 DEF Idle, Blocking
  <2>3. Noted(i) => Blocking(item[i].task)
    BY <2>1 DEF Noted, Blocking, Of
  <2> QED
    BY <1>4, <2>2, <2>3
<1>15. PlanHolds(c) /\ TasksAreTasks(c)
  BY <1>5, <1>11, <1>13, <1>14 DEF PlanHolds, TasksAreTasks
<1> QED
  BY <1>2, <1>11, <1>12, <1>15, PlanMoves

LEMMA ReadUnitRestInv ==
  ASSUME SeasonInv, NEW p \in Planner, ReadUnitRest(p)
  PROVE  SeasonInv'
<1>1. PICK q : q = plan[p]
  OBVIOUS
<1>2. q \in PlanRow /\ IsFiniteSet(q.make) /\ PlanHolds(q) /\ TasksAreTasks(q) /\ q.at = "rest"
  BY <1>1, PlanAt DEF ReadUnitRest
<1>3. PICK files : files = {i \in Of("file") : FileOn(i, q)}
  OBVIOUS
<1>4. PICK claims : claims = {i \in Of("claim") : item[i].unit \in q.drop}
  OBVIOUS
<1>5. files \subseteq Number /\ claims \subseteq Number
  BY <1>3, <1>4, PieceOf DEF Of
<1> DEFINE empty == /\ q.touched \cup files \cup claims = {}
                    /\ \A i \in Of("job") : item[i].unit \notin q.drop
<1>6. PICK a : a = [q EXCEPT !.at = "write"]
  OBVIOUS
<1>7. /\ a \in PlanRow /\ a.at = "write" /\ a.had = q.had /\ a.make = q.make
      /\ a.tasks = q.tasks /\ a.drop = q.drop /\ a.force = q.force
  BY <1>2, <1>6 DEF PlanRow
<1>8. PICK b : b = [a EXCEPT !.files = files]
  OBVIOUS
<1>9. /\ b \in PlanRow /\ b.at = "write" /\ b.had = q.had /\ b.make = q.make
      /\ b.tasks = q.tasks /\ b.drop = q.drop /\ b.force = q.force /\ b.files = files
  BY <1>5, <1>7, <1>8 DEF PlanRow
<1>10. PICK c : c = [b EXCEPT !.claims = claims]
  OBVIOUS
<1>11. /\ c \in PlanRow /\ c.at = "write" /\ c.had = q.had /\ c.make = q.make
       /\ c.tasks = q.tasks /\ c.drop = q.drop /\ c.force = q.force /\ c.files = files
       /\ c.claims = claims
  BY <1>5, <1>9, <1>10 DEF PlanRow
<1>12. UNCHANGED <<unit, item>>
         /\ plan' = [plan EXCEPT ![p] = IF empty \/ q.force THEN c ELSE NoPlan]
  <2>1. c = [[[q EXCEPT !.at = "write"] EXCEPT !.files = files] EXCEPT !.claims = claims]
    BY <1>6, <1>8, <1>10
  <2>2. c = [q EXCEPT !.at = "write", !.files = files, !.claims = claims]
    BY <2>1, <1>2, <1>11 DEF PlanRow
  <2>3. plan' = [plan EXCEPT ![p] = IF empty \/ q.force
                   THEN [q EXCEPT !.at = "write", !.files = files, !.claims = claims]
                   ELSE NoPlan]
    BY <1>1, <1>3, <1>4, Zenon DEF ReadUnitRest
  <2> QED
    BY <2>2, <2>3 DEF ReadUnitRest
<1>13. HadIsWork(c) /\ TasksAreTasks(c)
  BY <1>2, <1>11 DEF PlanHolds, HadIsWork, TasksAreTasks
<1>14. ASSUME empty, ~q.force PROVE WorkIsSpared(c)
  <2>1. q.touched = {} /\ files = {} /\ claims = {}
    BY <1>14
  <2> SUFFICES ASSUME NEW i \in q.had
               PROVE  /\ item[i].kind = "task" => i \notin q.tasks
                      /\ Noted(i) => item[i].task \notin q.tasks
                      /\ item[i].kind = "job" => item[i].unit \notin q.drop
    BY <1>11, <2>1 DEF WorkIsSpared
  <2>2. i \in Item
    BY <1>2 DEF PlanHolds, HadIsWork
  <2>3. item[i].kind = "job" => item[i].unit \notin q.drop
    BY <1>14, <2>2 DEF Of
  <2>4. TouchShows(q)
    BY <1>2 DEF PlanHolds
  <2> QED
    BY <2>1, <2>3, <2>4 DEF TouchShows
<1>15. empty \/ q.force => PlanHolds(c)
  BY <1>11, <1>13, <1>14 DEF PlanHolds
<1>16. PICK new : new = IF empty \/ q.force THEN c ELSE NoPlan
  OBVIOUS
<1>17. new # NoPlan => new \in PlanRow /\ IsFiniteSet(new.make) /\ PlanHolds(new) /\ TasksAreTasks(new)
  <2> HIDE DEF empty
  <2> QED
    BY <1>2, <1>11, <1>13, <1>15, <1>16
<1> QED
  BY <1>12, <1>16, <1>17, PlanMoves

LEMMA NewNumbers ==
  ASSUME NEW S \in SUBSET Nat, IsFiniteSet(S)
  PROVE  SetToSeq(S) \in Seq(Nat)
<1>1. Cardinality(S) \in Nat /\ ExistsBijection(1 .. Cardinality(S), S)
  BY FS_CardinalityType
<1>2. PICK f \in Bijection(1 .. Cardinality(S), S) : TRUE
  BY <1>1 DEF ExistsBijection
<1>3. f \in [1 .. Cardinality(S) -> S] /\ IsInjective(f)
  BY <1>2 DEF Bijection, Injection, IsInjective
<1>4. SetToSeq(S) \in [1 .. Cardinality(S) -> S]
  BY <1>3 DEF SetToSeq
<1>5. SetToSeq(S) \in [1 .. Cardinality(S) -> Nat]
  BY <1>4
<1> QED
  BY <1>1, <1>5, SeqDef

LEMMA DetachedIsPiece ==
  ASSUME NEW i \in Item, item[i] \in Piece, NEW q
  PROVE  /\ Detached(i, q) \in Piece
         /\ Detached(i, q).kind = item[i].kind /\ Detached(i, q).idle = item[i].idle
         /\ Detached(i, q).unit \in {item[i].unit, 0} /\ Detached(i, q).task \in {item[i].task, 0}
<1>1. CASE item[i].kind = "file"
  BY <1>1 DEF Detached
<1>2. CASE item[i].kind # "file"
  <2>1. PICK u : u = IF item[i].unit \in q.drop THEN 0 ELSE item[i].unit
    OBVIOUS
  <2>2. PICK t : t = IF item[i].task \in q.tasks THEN 0 ELSE item[i].task
    OBVIOUS
  <2>3. u \in Nat /\ t \in Nat /\ u \in {item[i].unit, 0} /\ t \in {item[i].task, 0}
    BY <2>1, <2>2 DEF Piece
  <2>4. PICK a : a = [item[i] EXCEPT !.unit = u]
    OBVIOUS
  <2>5. a \in Piece /\ a.unit = u /\ a.kind = item[i].kind /\ a.idle = item[i].idle /\ a.task = item[i].task
    BY <2>3, <2>4 DEF Piece
  <2>6. PICK b : b = [a EXCEPT !.task = t]
    OBVIOUS
  <2>7. b \in Piece /\ b.unit = u /\ b.kind = item[i].kind /\ b.idle = item[i].idle /\ b.task = t
    BY <2>3, <2>5, <2>6 DEF Piece
  <2>8. b = [item[i] EXCEPT !.unit = u, !.task = t]
    BY <2>4, <2>6, <2>7 DEF Piece
  <2>9. Detached(i, q) = [item[i] EXCEPT !.unit = u, !.task = t]
    BY <1>2, <2>1, <2>2 DEF Detached
  <2> QED
    BY <2>3, <2>7, <2>8, <2>9
<1> QED
  BY <1>1, <1>2

\* What the transaction makes of a piece of work.
LEMMA Written ==
  ASSUME SeasonInv, NEW q, NEW i \in Item, NEW new,
         new = IF i \in Deletes(q) THEN [item[i] EXCEPT !.kind = "gone"] ELSE Detached(i, q)
  PROVE  /\ new \in Piece
         /\ new.kind = (IF i \in Deletes(q) THEN "gone" ELSE item[i].kind)
         /\ new.idle = item[i].idle
         /\ new.unit \in {item[i].unit, 0} /\ new.task \in {item[i].task, 0}
<1>1. item[i] \in Piece
  BY PieceOf
<1>2. CASE i \in Deletes(q)
  <2>1. new = [item[i] EXCEPT !.kind = "gone"]
    BY <1>2
  <2> QED
    BY <1>1, <1>2, <2>1 DEF Piece, Kind
<1>3. CASE i \notin Deletes(q)
  BY <1>1, <1>3, DetachedIsPiece
<1> QED
  BY <1>2, <1>3

LEMMA WriteUnitsDoes ==
  ASSUME SeasonInv, NEW p \in Planner, WriteUnits(p)
  PROVE  /\ unit' \in Seq(Nat) /\ item' \in Seq(Piece) /\ Item' = Item /\ WorkStands
         /\ item' # item => \A i \in Item \ Deletes(plan[p]) : item'[i].kind = item[i].kind
<1>1. PICK q : q = plan[p]
  OBVIOUS
<1>2. q \in PlanRow /\ IsFiniteSet(q.make)
  BY <1>1, PlanAt DEF WriteUnits
<1>3. CASE UNCHANGED <<unit, item>>
  BY <1>3 DEF SeasonInv, WorkStands, Item
<1>4. CASE /\ unit' = [r \in Row |-> IF r \in q.drop THEN 0 ELSE unit[r]] \o SetToSeq(q.make)
           /\ item' = [i \in Item |-> IF i \in Deletes(q) THEN [item[i] EXCEPT !.kind = "gone"]
                                      ELSE Detached(i, q)]
  <2>1. Row = 1 .. Len(unit) /\ Len(unit) \in Nat /\ \A r \in Row : unit[r] \in Nat
    BY ElementOfSeq, LenProperties DEF SeasonInv, Row
  <2>2. PICK kept : kept = [r \in Row |-> IF r \in q.drop THEN 0 ELSE unit[r]]
    OBVIOUS
  <2>3. kept \in [1 .. Len(unit) -> Nat]
    BY <2>1, <2>2
  <2>4. kept \in Seq(Nat)
    BY <2>1, <2>3, SeqDef
  <2>5. SetToSeq(q.make) \in Seq(Nat)
    BY <1>2, NewNumbers DEF PlanRow
  <2>6. unit' \in Seq(Nat)
    BY <1>4, <2>2, <2>4, <2>5, ConcatProperties
  <2>7. Item = 1 .. Len(item) /\ Len(item) \in Nat
    BY LenProperties DEF SeasonInv, Item
  <2>8. DOMAIN item' = Item
    BY <1>4
  <2>9. ASSUME NEW i \in Item
        PROVE  /\ item'[i] \in Piece
               /\ item'[i].kind = (IF i \in Deletes(q) THEN "gone" ELSE item[i].kind)
               /\ item'[i].idle = item[i].idle
               /\ item'[i].unit \in {item[i].unit, 0} /\ item'[i].task \in {item[i].task, 0}
    <3>1. PICK new : new = item'[i]
      OBVIOUS
    <3>2. new = IF i \in Deletes(q) THEN [item[i] EXCEPT !.kind = "gone"] ELSE Detached(i, q)
      BY <1>4, <3>1
    <3>3. /\ new \in Piece
          /\ new.kind = (IF i \in Deletes(q) THEN "gone" ELSE item[i].kind)
          /\ new.idle = item[i].idle
          /\ new.unit \in {item[i].unit, 0} /\ new.task \in {item[i].task, 0}
      BY <3>2, Written
    <3> QED
      BY <3>1, <3>3
  <2>10. item' \in [1 .. Len(item) -> Piece]
    BY <1>4, <2>7, <2>9
  <2>11. item' \in Seq(Piece)
    BY <2>7, <2>10, SeqDef
  <2>12. Item' = Item
    BY <2>8 DEF Item
  <2>13. WorkStands
    <3> HIDE DEF Deletes
    <3> QED
      BY <2>9, <2>12 DEF WorkStands
  <2> QED
    BY <1>1, <2>6, <2>9, <2>11, <2>12, <2>13
<1> QED
  BY <1>1, <1>3, <1>4 DEF WriteUnits

LEMMA WriteUnitsInv ==
  ASSUME SeasonInv, NEW p \in Planner, WriteUnits(p)
  PROVE  SeasonInv'
<1>1. unit' \in Seq(Nat) /\ item' \in Seq(Piece) /\ WorkStands
  BY WriteUnitsDoes
<1>2. DOMAIN plan' = Planner /\ \A r \in Planner : plan'[r] = IF r = p THEN NoPlan ELSE plan[r]
  BY DEF SeasonInv, WriteUnits
<1> SUFFICES ASSUME NEW r \in Planner, plan'[r] # NoPlan
             PROVE  /\ plan'[r] \in PlanRow /\ IsFiniteSet(plan'[r].make)
                    /\ PlanHolds(plan[r])' /\ TasksAreTasks(plan[r])'
  BY <1>1, <1>2 DEF SeasonInv
<1>3. PICK q : q = plan'[r]
  OBVIOUS
<1>4. q \in PlanRow /\ IsFiniteSet(q.make) /\ PlanHolds(q) /\ TasksAreTasks(q)
  BY <1>2, <1>3 DEF SeasonInv
<1>5. PlanHolds(q)' /\ TasksAreTasks(q)'
  BY <1>1, <1>4, PlanStands
<1> QED
  BY <1>3, <1>4, <1>5

LEMMA CreateUnitInv ==
  ASSUME SeasonInv, NEW n \in 1 .. MaxUnits, CreateUnit(n)
  PROVE  SeasonInv'
<1>1. n \in Nat
  BY SeasonsAssumption
<1>2. unit' \in Seq(Nat)
  BY <1>1 DEF SeasonInv, CreateUnit
<1>3. WorkStands
  BY DEF CreateUnit, WorkStands, Item
<1> QED
  BY <1>2, <1>3, WorkGoesOn DEF SeasonInv, CreateUnit

LEMMA SeasonStarts == SeasonInit => SeasonInv
<1> SUFFICES ASSUME SeasonInit PROVE SeasonInv
  OBVIOUS
<1>1. 1 \in Int /\ MaxRows \in Int
  BY SeasonsAssumption
<1>2. IsFiniteSet(1 .. MaxRows)
  BY <1>1, FS_Interval, Zenon
<1>3. Cardinality(Planned) \in Nat
  BY <1>2, SeasonsAssumption, FS_Subset, FS_CardinalityType
<1>4. unit \in [1 .. Cardinality(Planned) -> Nat]
  BY <1>3 DEF SeasonInit
<1>5. unit \in Seq(Nat)
  BY <1>3, <1>4, SeqDef
<1> QED
  BY <1>5 DEF SeasonInit, SeasonInv

LEMMA SeasonNextInv == ASSUME SeasonInv, SeasonNext PROVE SeasonInv'
<1>1. ASSUME NEW p \in Planner, NEW n \in 1 .. MaxUnits, NEW s \in SUBSET Rows, NEW f \in BOOLEAN,
             BeginUnits(p, n, s, f)
      PROVE  SeasonInv'
  BY <1>1, BeginUnitsInv
<1>2. ASSUME NEW p \in Planner, ReadUnitTasks(p) \/ ReadUnitRest(p) \/ WriteUnits(p)
      PROVE  SeasonInv'
  BY <1>2, ReadUnitTasksInv, ReadUnitRestInv, WriteUnitsInv
<1>3. ASSUME NEW n \in 1 .. MaxUnits, CreateUnit(n) PROVE SeasonInv'
  BY <1>3, CreateUnitInv
<1> HIDE DEF SeasonInv
<1> QED
  BY <1>1, <1>2, <1>3, MembersWorkInv DEF SeasonNext

LEMMA SeasonStutters == ASSUME SeasonInv, UNCHANGED seasonVars PROVE SeasonInv'
<1>1. UNCHANGED <<unit, item, plan>>
  BY DEF seasonVars
<1>2. WorkStands
  BY <1>1 DEF WorkStands, Item
<1> QED
  BY <1>1, <1>2, WorkGoesOn DEF SeasonInv

\* Only the transaction of an edit ends it once it has read everything.
LEMMA OnlyWritesEnd ==
  ASSUME SeasonInv, SeasonNext, NEW p \in Planner, plan[p].at = "write", plan'[p] = NoPlan
  PROVE  WriteUnits(p)
<1> USE DEF SeasonInv, NoPlan
<1>1. plan' # plan /\ plan[p] # NoPlan
  OBVIOUS
<1>2. PICK q \in Planner : \/ \E n \in 1 .. MaxUnits, s \in SUBSET Rows, f \in BOOLEAN :
                                BeginUnits(q, n, s, f)
                           \/ ReadUnitTasks(q) \/ ReadUnitRest(q) \/ WriteUnits(q)
  BY <1>1 DEF SeasonNext, AddTask, AddJob, TouchTask, AddClaim, AddNote, AddFile, Add, CreateUnit
<1>3. CASE q = p
  <2>1. ~ReadUnitTasks(p) /\ ~ReadUnitRest(p)
    BY DEF ReadUnitTasks, ReadUnitRest
  <2>2. ASSUME NEW n, NEW s, NEW f PROVE ~BeginUnits(p, n, s, f)
    BY <1>1 DEF BeginUnits
  <2> QED
    BY <1>2, <1>3, <2>1, <2>2
<1>4. CASE q # p
  <2>1. plan'[p] = plan[p]
    BY <1>2, <1>4 DEF BeginUnits, ReadUnitTasks, ReadUnitRest, WriteUnits
  <2> QED
    BY <1>1, <2>1
<1> QED
  BY <1>3, <1>4

LEMMA SparedIsKept ==
  ASSUME SeasonInv, NEW p \in Planner, WriteUnits(p), ~plan[p].force,
         NEW i \in plan[p].had, item[i].kind # "gone"
  PROVE  item'[i].kind # "gone"
<1>1. PICK q : q = plan[p]
  OBVIOUS
<1>2. HadIsWork(q) /\ WorkIsSpared(q) /\ TasksAreTasks(q)
  BY <1>1, PlanAt DEF WriteUnits, PlanHolds
<1>3. i \in Item
  BY <1>1, <1>2 DEF HadIsWork
<1>4. i \notin Deletes(q)
  <2>1. i \notin q.files /\ i \notin q.claims
    BY <1>2 DEF WorkIsSpared
  <2>2. i \notin q.tasks
    BY <1>1, <1>2 DEF WorkIsSpared, TasksAreTasks
  <2>3. /\ i \in Of("claim") \cup Of("comment") => item[i].task \notin q.tasks
        /\ i \in Of("job") => item[i].unit \notin q.drop
    BY <1>1, <1>2 DEF WorkIsSpared, Of, Noted
  <2> QED
    BY <2>1, <2>2, <2>3 DEF Deletes
<1>5. item' # item => item'[i].kind = item[i].kind
  BY <1>1, <1>3, <1>4, WriteUnitsDoes
<1> QED
  BY <1>5

\* An edit of the season that nobody confirmed deletes no work that was there when
\* it was asked for, whatever the members do between its reads
\* (updateProjectUnits, isTaskBlockingUnitDeletion).
THEOREM UnconfirmedEditsSpareWork == SeasonSpec => UnforcedKeepsWork
<1>1. SeasonInv /\ [SeasonNext]_seasonVars => SeasonInv'
  BY SeasonNextInv, SeasonStutters
<1>2. SeasonInv /\ [SeasonNext]_seasonVars =>
        [\A p \in Planner :
           plan[p].at = "write" /\ plan'[p] = NoPlan /\ ~plan[p].force =>
             \A i \in plan[p].had : item[i].kind # "gone" => item'[i].kind # "gone"]_seasonVars
  <2> HIDE DEF SeasonInv
  <2> QED
    BY OnlyWritesEnd, SparedIsKept
<1> QED
  BY SeasonStarts, <1>1, <1>2, PTL DEF SeasonSpec, UnforcedKeepsWork

-----------------------------------------------------------------------------
(* Who may claim.  The rule by which a project is shown and the rule by    *)
(* which a claim is let through are written apart from each other, over    *)
(* the same rows; that they agree needs only that what a configuration     *)
(* asks for are tags.                                                      *)

LEMMA EntriesOfRoles ==
  ASSUME AccessTypeOK, NEW r \in Role
  PROVE  /\ config[r] \in Entry \cup {NoEntry} /\ roles[r] \in Entry \cup {NoEntry}
         /\ Found(r) \in Entry \cup {NoEntry}
BY DEF AccessTypeOK, Config, Found

LEMMA SameRequirement ==
  ASSUME AccessTypeOK, NEW r \in Role
  PROVE  RequiredOfTask(r) = Required(r) /\ Required(r) \subseteq Tag
<1>1. Required(r) \subseteq Tag
  BY EntriesOfRoles, AccessAssumption DEF Required, Entry
<1>2. \A d : UNION {c.tags : c \in {d}} = d.tags
  OBVIOUS
<1>3. CASE config[r] # NoEntry
  <2>1. {c \in {config[r]} : c # NoEntry} = {config[r]}
    BY <1>3
  <2>2. RequiredOfTask(r) = UNION {c.tags : c \in {config[r]}}
    BY <2>1, Zenon DEF RequiredOfTask
  <2> QED
    BY <1>1, <1>2, <1>3, <2>2 DEF Required, Found
<1>4. CASE config[r] = NoEntry /\ roles[r] # NoEntry
  <2>1. {c \in {config[r]} : c # NoEntry} = {} /\ {roles[r]} \ {NoEntry} = {roles[r]}
    BY <1>4
  <2>2. RequiredOfTask(r) = UNION {c.tags : c \in {roles[r]}}
    BY <2>1, Zenon DEF RequiredOfTask
  <2> QED
    BY <1>1, <1>2, <1>4, <2>2 DEF Required, Found
<1>5. CASE config[r] = NoEntry /\ roles[r] = NoEntry
  <2>1. {c \in {config[r]} : c # NoEntry} = {} /\ {roles[r]} \ {NoEntry} = {}
    BY <1>5
  <2>2. RequiredOfTask(r) = UNION {c.tags : c \in {}}
    BY <2>1, Zenon DEF RequiredOfTask
  <2> QED
    BY <1>1, <1>5, <2>2 DEF Required, Found
<1> QED
  BY <1>1, <1>3, <1>4, <1>5

LEMMA CandidateIsLetIn ==
  ASSUME AccessTypeOK, NEW u \in User, NEW r \in Role
  PROVE  Candidate(u, r) <=> MayClaim(u, r)
<1> DEFINE required == Required(r)
<1>1. required \subseteq Tag /\ RequiredOfTask(r) = required
  BY SameRequirement
<1>2. CASE required # {}
  BY <1>1, <1>2 DEF Candidate, MayClaim, Granted
<1>3. CASE required = {}
  BY <1>1, <1>3 DEF Candidate, MayClaim, Granted, TagsOf
<1> QED
  BY <1>2, <1>3

LEMMA AccessStarts == AccessInit => AccessTypeOK
<1> SUFFICES ASSUME AccessInit PROVE AccessTypeOK
  OBVIOUS
<1>1. tagRole \in [Tag -> Role \cup {"none"}]
  BY AccessAssumption DEF AccessInit
<1>2. roles \in Config
  BY DEF AccessInit
<1>3. [r \in Role |-> NoEntry] \in Config
  BY DEF Config
<1>4. config \in Config
  BY <1>2, <1>3 DEF AccessInit
<1>5. opening \in [Role -> Opening]
  BY DEF AccessInit, Opening
<1>6. application \in [User \X Tag -> {"none", "pending", "granted", "rejected"}]
  BY DEF AccessInit
<1>7. \A u \in User, g \in Tag : application[<<u, g>>] = "none"
  BY DEF AccessInit
<1> QED
  BY <1>1, <1>2, <1>4, <1>5, <1>6, <1>7 DEF AccessInit, AccessTypeOK

LEMMA ConfigEdits ==
  ASSUME AccessTypeOK, NEW c \in Config, NEW d \in Config, SetConfig(c, d)
  PROVE  AccessTypeOK'
BY DEF AccessTypeOK, SetConfig

LEMMA ApplicationMoves ==
  ASSUME AccessTypeOK, NEW u \in User, NEW g \in Tag,
         NEW s \in {"none", "pending", "granted", "rejected"},
         SetApplication(u, g, s), tagRole[g] # "none" \/ s = "none"
  PROVE  AccessTypeOK'
<1>1. <<u, g>> \in User \X Tag
  OBVIOUS
<1>2. application' \in [User \X Tag -> {"none", "pending", "granted", "rejected"}]
  BY <1>1 DEF SetApplication, AccessTypeOK
<1>3. \A v \in User, h \in Tag : application'[<<v, h>>] # "none" => tagRole[h] # "none"
  BY <1>1 DEF SetApplication, AccessTypeOK
<1> QED
  BY <1>2, <1>3 DEF SetApplication, AccessTypeOK

LEMMA TagStepType ==
  ASSUME AccessTypeOK, NEW g \in Tag,
         DeleteRoleTag(g) \/ (\E r \in Role : SetRoleTag(g, r))
           \/ \E u \in User : CreateTagApplication(u, g) \/ ReviewTagApplication(u, g)
                                \/ ResetTagStatus(u, g) \/ GrantMemberTag(u, g)
  PROVE  AccessTypeOK'
<1>1. CASE DeleteRoleTag(g)
  BY <1>1 DEF DeleteRoleTag, AccessTypeOK
<1>2. ASSUME NEW r \in Role, SetRoleTag(g, r) PROVE AccessTypeOK'
  BY <1>2, AccessAssumption DEF SetRoleTag, AccessTypeOK
<1>3. ASSUME NEW u \in User, CreateTagApplication(u, g) \/ ReviewTagApplication(u, g)
                               \/ ResetTagStatus(u, g) \/ GrantMemberTag(u, g)
      PROVE  AccessTypeOK'
  <2>1. application[<<u, g>>] # "none" => tagRole[g] # "none"
    BY DEF AccessTypeOK
  <2> QED
    BY <1>3, <2>1, ApplicationMoves
       DEF CreateTagApplication, ReviewTagApplication, ResetTagStatus, GrantMemberTag
<1> QED
  BY <1>1, <1>2, <1>3

LEMMA ConfigStepType ==
  ASSUME AccessTypeOK,
         (\E r \in Role, e \in Entry \cup {NoEntry} : UpdateTemplateRoles(r, e))
           \/ \E l \in Limit : UpdateProject(l)
  PROVE  AccessTypeOK'
<1> USE DEF AccessTypeOK
<1>1. ASSUME NEW r \in Role, NEW e \in Entry \cup {NoEntry}, UpdateTemplateRoles(r, e)
      PROVE  AccessTypeOK'
  <2>1. [roles EXCEPT ![r] = e] \in Config
    BY DEF Config
  <2> QED
    BY <1>1, <2>1, ConfigEdits DEF UpdateTemplateRoles
<1>2. ASSUME NEW l \in Limit, UpdateProject(l) PROVE AccessTypeOK'
  <2>1. "translation" \in Role
    BY AccessAssumption
  <2>2. CASE config["translation"] # NoEntry
    <3>1. config["translation"] \in Entry
      BY <2>1, <2>2 DEF Config
    <3>2. PICK e : e = [config["translation"] EXCEPT !.limit = l]
      OBVIOUS
    <3>3. e \in Entry
      BY <3>1, <3>2 DEF Entry
    <3>4. WithLimit(l) = [config EXCEPT !["translation"] = e]
      BY <2>1, <2>2, <3>2 DEF WithLimit, Config
    <3>5. WithLimit(l) \in Config
      BY <3>3, <3>4, ZenonT(40) DEF Config
    <3> QED
      BY <1>2, <3>5, ConfigEdits DEF UpdateProject
  <2>3. CASE config["translation"] = NoEntry
    <3>1. [tags |-> {}, limit |-> l] \in Entry
      BY AccessAssumption DEF Entry
    <3>2. [config EXCEPT !["translation"] = [tags |-> {}, limit |-> l]] \in Config
      BY <2>1, <3>1 DEF Config
    <3>3. WithLimit(l) \in Config
      BY <2>3, <3>2 DEF WithLimit
    <3> QED
      BY <1>2, <3>3, ConfigEdits DEF UpdateProject
  <2> QED
    BY <2>2, <2>3
<1> QED
  BY <1>1, <1>2

\* Whoever is shown a project for its open work is let through by the tag check
\* when they claim it, and nobody else is, whatever became of tags, grants and
\* configurations in between (getEligibleOpenClaimRoles, hasTaskClaimRoleTagAccess).
THEOREM ShownWorkMayBeClaimed == AccessSpec => [](AccessTypeOK /\ CandidatesMayClaim)
<1>1. AccessTypeOK /\ [AccessNext]_accessVars => AccessTypeOK'
  <2> SUFFICES ASSUME AccessTypeOK, [AccessNext]_accessVars PROVE AccessTypeOK'
    OBVIOUS
  <2>1. ASSUME NEW r \in Role, NEW o \in Opening, TasksMove(r, o) PROVE AccessTypeOK'
    BY <2>1 DEF TasksMove, AccessTypeOK
  <2>2. CASE Archive
    BY <2>2 DEF Archive, AccessTypeOK
  <2>3. ASSUME NEW u \in User, PeopleMove(u) PROVE AccessTypeOK'
    BY <2>3 DEF PeopleMove, AccessTypeOK
  <2>4. CASE UNCHANGED accessVars
    BY <2>4 DEF accessVars, AccessTypeOK
  <2> QED
    BY <2>1, <2>2, <2>3, <2>4, TagStepType, ConfigStepType DEF AccessNext
<1>2. AccessTypeOK => CandidatesMayClaim
  BY CandidateIsLetIn DEF CandidatesMayClaim, EligibleRoles
<1> QED
  BY AccessStarts, <1>1, <1>2, PTL DEF AccessSpec

-----------------------------------------------------------------------------
(* Which files come in.  What was checked against the project's own policy *)
(* is remembered with the upload until it is written: the invariant says   *)
(* of each upload about to be written what is claimed of the file.         *)

RoleName == TaskRole \cup {NoRole}
Uploads == [at : {"record"}, role : RoleName, named : RoleName, as : RoleName,
            member : RoleName, user : {"member", "supervisor", "admin"}, content : Content]

\* An upload for a role is recorded under that role.
UploadRow == {q \in Uploads : q.role # NoRole => q.as = q.role}

\* What the policy seen says of the role holds of the content.
Obeys(content, role, seen) ==
  seen # NoPolicy =>
    (Usable(seen.rules[role]) => Within(content, seen.rules[role], seen))

\* An upload let in, and the file it becomes.
Kept(w) == w.given => Obeys(w.content, w.role, w.seen)

PoliciesInv ==
  /\ template \in Policy \cup {Default}
  /\ made \in {"no", "project", "done"}
  /\ made = "no" \/ projectConfig \in Policy \cup {Default}
  /\ DOMAIN sender = Sender
  /\ \A s \in Sender : /\ sender[s].at = "record" => sender[s] \in UploadRow
                       /\ sender[s].at = "write" => Kept(sender[s])
  /\ Kept(file)

\* The candidates asked, the first of which is the project's own policy.
LEMMA FirstCandidateDecides ==
  ASSUME NEW role, NEW user, NEW c,
         projectRow # NoPolicy, Usable(RoleRule(projectRow, role, user))
  PROVE  Allows(Candidates, role, user, c) <=> Within(c, RoleRule(projectRow, role, user), projectRow)
<1> DEFINE says(j) == Candidates[j] # NoPolicy /\ Usable(RoleRule(Candidates[j], role, user))
           fits(i) == Within(c, RoleRule(Candidates[i], role, user), Candidates[i])
<1>1. Candidates[1] = projectRow
  BY DEF Candidates
<1>2. says(1) /\ (fits(1) <=> Within(c, RoleRule(projectRow, role, user), projectRow))
  BY <1>1
<1>3. Allows(Candidates, role, user, c)
        <=> \E i \in 1 .. 3 : says(i) /\ (\A j \in 1 .. i - 1 : ~says(j)) /\ fits(i)
  BY Zenon DEF Allows
<1> HIDE DEF says, fits
<1>4. (\E i \in 1 .. 3 : says(i) /\ (\A j \in 1 .. i - 1 : ~says(j)) /\ fits(i)) <=> fits(1)
  BY <1>2
<1> QED
  BY <1>2, <1>3, <1>4

LEMMA CheckedIsObeyed ==
  ASSUME NEW q, q.role # NoRole, Checked(q, q.role)
  PROVE  Obeys(q.content, q.role, projectRow)
<1> SUFFICES ASSUME projectRow # NoPolicy, Usable(projectRow.rules[q.role])
             PROVE  Within(q.content, projectRow.rules[q.role], projectRow)
  BY DEF Obeys
<1>1. UploadRole(q.role, q.member, q.user) = q.role
  BY DEF UploadRole
<1>2. RoleRule(projectRow, q.role, q.user) = projectRow.rules[q.role]
  BY DEF RoleRule, Usable
<1> QED
  BY <1>1, <1>2, FirstCandidateDecides DEF Checked

LEMMA PolicyIsKept ==
  ASSUME NEW p \in Policy \cup {Default}
  PROVE  Normalized(p) \in Policy \cup {Default}
BY DEF Normalized

LEMMA PoliciesStart == PoliciesInit => PoliciesInv
BY DEF PoliciesInit, PoliciesInv, NoUpload, NoFile, Kept

LEMMA SenderMoves ==
  ASSUME PoliciesInv, NEW s \in Sender, NEW new,
         sender' = [sender EXCEPT ![s] = new],
         new = NoUpload \/ new \in UploadRow \/ (new.at = "write" /\ Kept(new)),
         UNCHANGED <<template, made, projectConfig, file>>
  PROVE  PoliciesInv'
<1>1. new.at = "record" => new \in UploadRow
  BY DEF NoUpload
<1>2. new.at = "write" => Kept(new)
  BY DEF NoUpload, UploadRow, Uploads
<1>3. Kept(file)'
  BY DEF PoliciesInv, Kept, Obeys
<1> HIDE DEF Kept
<1>4. DOMAIN sender' = Sender /\ \A r \in Sender : sender'[r] = IF r = s THEN new ELSE sender[r]
  BY DEF PoliciesInv
<1>5. ASSUME NEW r \in Sender
      PROVE  /\ sender'[r].at = "record" => sender'[r] \in UploadRow
             /\ sender'[r].at = "write" => Kept(sender'[r])
  BY <1>1, <1>2, <1>4, Zenon DEF PoliciesInv
<1>6. \A r \in Sender : /\ sender'[r].at = "record" => sender'[r] \in UploadRow
                        /\ sender'[r].at = "write" => Kept(sender'[r])
  BY <1>5
<1> QED
  BY <1>3, <1>4, <1>6 DEF PoliciesInv

LEMMA SentIsUpload ==
  ASSUME PoliciesInv, NEW s \in Sender, NEW q \in UploadRow, NEW passes, Send(s, q, passes)
  PROVE  PoliciesInv'
<1>1. PICK new : new = IF passes THEN q ELSE NoUpload
  OBVIOUS
<1> QED
  BY <1>1, SenderMoves, Zenon DEF Send

LEMMA UploadIsRow ==
  ASSUME NEW role \in RoleName, NEW named \in RoleName, NEW as \in RoleName,
         role # NoRole => as = role, NEW o \in Uploader, NEW c \in Content
  PROVE  Upload(role, named, as, o, c) \in UploadRow
<1>1. o.member \in RoleName /\ o.user \in {"member", "supervisor", "admin"}
  BY PoliciesAssumption DEF RoleName, NoRole
<1> QED
  BY <1>1 DEF Upload, UploadRow, Uploads

LEMMA BegunIsUpload ==
  ASSUME PoliciesInv, NEW s \in Sender, NEW named \in RoleName, NEW o \in Uploader, NEW c \in Content,
         \/ \E t, kept \in RoleName : BeginUpload(s, named, t, kept, o, c)
         \/ BeginReplace(s, named, o, c)
  PROVE  PoliciesInv'
<1>1. ASSUME NEW t \in RoleName, NEW kept \in RoleName, BeginUpload(s, named, t, kept, o, c)
      PROVE  PoliciesInv'
  <2>1. PICK role \in RoleName : role = IF t # NoRole THEN t ELSE named
    OBVIOUS
  <2>2. PICK as \in RoleName : as = IF role # NoRole THEN role ELSE kept
    OBVIOUS
  <2>3. \E passes : Send(s, Upload(role, named, as, o, c), passes)
    BY <1>1, <2>1, <2>2, Zenon DEF BeginUpload
  <2>4. Upload(role, named, as, o, c) \in UploadRow
    BY <2>2, UploadIsRow
  <2> QED
    BY <2>3, <2>4, SentIsUpload
<1>2. CASE BeginReplace(s, named, o, c)
  <2>1. \E passes : Send(s, Upload(named, named, named, o, c), passes)
    BY <1>2, Zenon DEF BeginReplace
  <2>2. Upload(named, named, named, o, c) \in UploadRow
    BY UploadIsRow
  <2> QED
    BY <2>1, <2>2, SentIsUpload
<1> QED
  BY <1>1, <1>2

LEMMA CheckRecordInv == ASSUME PoliciesInv, NEW s \in Sender, CheckRecord(s) PROVE PoliciesInv'
<1> DEFINE q == sender[s]
           fine == Checked(q, RoleToCheck(q)) /\ (q.named = NoRole \/ q.named = q.role)
<1>1. q.role # NoRole => q.as = q.role
  BY DEF PoliciesInv, CheckRecord, UploadRow
<1>2. PICK moved : moved = [at |-> "write", role |-> q.as, given |-> q.role # NoRole,
                            content |-> q.content, seen |-> projectRow]
  OBVIOUS
<1>3. /\ moved.at = "write" /\ moved.role = q.as /\ moved.given = (q.role # NoRole)
      /\ moved.content = q.content /\ moved.seen = projectRow
  BY <1>2
<1>4. CASE fine
  <2>1. q.role # NoRole => Obeys(q.content, q.role, projectRow)
    BY <1>4, CheckedIsObeyed DEF RoleToCheck
  <2>2. sender' = [sender EXCEPT ![s] = moved]
    BY <1>2, <1>4 DEF CheckRecord
  <2>3. Kept(moved)
    <3> HIDE DEF Obeys
    <3> QED
      BY <1>1, <1>3, <2>1 DEF Kept
  <2> QED
    BY <1>3, <2>2, <2>3, SenderMoves DEF CheckRecord
<1>5. CASE ~fine
  <2>1. sender' = [sender EXCEPT ![s] = NoUpload]
    BY <1>5 DEF CheckRecord
  <2> QED
    BY <2>1, SenderMoves DEF CheckRecord
<1> QED
  BY <1>4, <1>5

LEMMA WriteInv == ASSUME PoliciesInv, NEW s \in Sender, Write(s) PROVE PoliciesInv'
<1>1. Kept(sender[s])
  BY DEF PoliciesInv, Write
<1>2. /\ file'.role = sender[s].role /\ file'.given = sender[s].given
      /\ file'.content = sender[s].content /\ file'.seen = sender[s].seen
  BY DEF Write
<1>3. Kept(file)'
  <2>1. Kept(file')
    <3> HIDE DEF Obeys
    <3> QED
      BY <1>1, <1>2 DEF Kept
  <2> QED
    BY <2>1 DEF Kept, Obeys
<1>4. DOMAIN sender' = Sender /\ \A r \in Sender : sender'[r] = sender[r] \/ sender'[r] = NoUpload
  BY DEF PoliciesInv, Write
<1>5. NoUpload.at = "idle"
  BY DEF NoUpload
<1> HIDE DEF Kept
<1>6. \A r \in Sender : /\ sender'[r].at = "record" => sender'[r] \in UploadRow
                        /\ sender'[r].at = "write" => Kept(sender'[r])
  BY <1>4, <1>5 DEF PoliciesInv
<1> QED
  BY <1>3, <1>4, <1>6 DEF PoliciesInv, Write

LEMMA ChooserAgrees == PoliciesInv => ChooserFollowsServer
<1> SUFFICES ASSUME PoliciesInv, made = "done", projectRow = projectConfig, NEW role \in TaskRole,
                    projectConfig.rules[role] # NoRule, projectConfig.rules[role].extensions # {},
                    NEW c \in [ext : Ext, size : Bytes]
             PROVE  Allows(Candidates, role, "member", c) <=>
                      /\ c.ext \in projectConfig.rules[role].extensions \cap Offered(role)
                      /\ Fits(c, projectConfig)
  BY DEF ChooserFollowsServer
<1> DEFINE rule == projectConfig.rules[role]
<1>1. projectConfig # NoPolicy
  BY PoliciesAssumption DEF PoliciesInv
<1>2. Offered(role) = rule.extensions \cup UNION {OfMime[m] : m \in rule.mime}
  BY <1>1 DEF Offered, Shown
<1>3. Usable(rule)
  BY DEF Usable
<1>4. RoleRule(projectRow, role, "member") = rule
  BY PoliciesAssumption DEF RoleRule, NoRole
<1>5. Allows(Candidates, role, "member", c) <=> Within(c, rule, projectConfig)
  BY <1>1, <1>3, <1>4, FirstCandidateDecides
<1>6. c.ext \in rule.extensions \cap Offered(role) <=> c.ext \in rule.extensions
  BY <1>2
<1> HIDE DEF rule
<1>7. Within(c, rule, projectConfig) <=> c.ext \in rule.extensions /\ Fits(c, projectConfig)
  BY DEF Within, rule
<1> QED
  BY <1>5, <1>6, <1>7 DEF rule

\* A file that came in for a task, or under a role named with it, keeps to what the
\* project's own policy said of that role when it was checked, however its request
\* named the role and whatever is allowed to everybody; and as long as a project has
\* the policy it was made with, a role's rule that names extensions means the same
\* to the page's chooser and to the server (validateUploadPolicy, uploadFile,
\* replaceFile, taskWorkflow.ts).
THEOREM PolicyIsObeyed == PoliciesSpec => []PoliciesAgree
<1>1. PoliciesInv /\ [PoliciesNext]_policyVars => PoliciesInv'
  <2> SUFFICES ASSUME PoliciesInv, [PoliciesNext]_policyVars PROVE PoliciesInv'
    OBVIOUS
  <2>1. CASE CreateProjectFromTemplate
    BY <2>1, PolicyIsKept DEF CreateProjectFromTemplate, PoliciesInv
  <2>2. CASE CreateProjectPolicy
    BY <2>2 DEF CreateProjectPolicy, PoliciesInv
  <2>3. ASSUME NEW p \in Policy,
               UpdateTemplatePolicy(p) \/ UpdateProjectPolicy(p) \/ UpdateGlobalPolicy(p)
        PROVE  PoliciesInv'
    BY <2>3, PolicyIsKept
       DEF UpdateTemplatePolicy, UpdateProjectPolicy, UpdateGlobalPolicy, PoliciesInv
  <2>4. ASSUME NEW s \in Sender, CheckRecord(s) \/ Write(s) PROVE PoliciesInv'
    BY <2>4, CheckRecordInv, WriteInv
  <2>5. CASE UNCHANGED policyVars
    BY <2>5 DEF policyVars, PoliciesInv
  <2> QED
    BY <2>1, <2>2, <2>3, <2>4, <2>5, BegunIsUpload DEF PoliciesNext, RoleName
<1>2. PoliciesInv => PoliciesAgree
  BY ChooserAgrees DEF PoliciesInv, Kept, Obeys, ProjectPolicyIsObeyed, PoliciesAgree
<1> QED
  BY PoliciesStart, <1>1, <1>2, PTL DEF PoliciesSpec

-----------------------------------------------------------------------------
(* The sheet of a task.  What is asked for it is asked of the snapshot     *)
(* that is on the page, for the task that is selected: whatever replaces   *)
(* either cancels what was asked before.                                   *)

AskedForSheet ==
  \A a \in asked : selected # Nothing /\ a.task = selected /\ a.given = page

SheetInv == AskedForSheet /\ ResultsFollowSelection

LEMMA FollowingIsSheet ==
  ASSUME FollowSelection(selected', page')
  PROVE  SheetInv'
<1>1. CASE results' = {} /\ asked' = {}
  BY <1>1 DEF SheetInv, AskedForSheet, ResultsFollowSelection
<1>2. CASE /\ selected' # Nothing
           /\ results' = Listed(page'.files, selected', page')
           /\ asked' = {[task |-> selected', given |-> page']}
  <2>1. AskedForSheet'
    BY <1>2 DEF AskedForSheet
  <2>2. results' \subseteq PreviousOf(page'.tasks, selected') \cap page'.completed
    BY <1>2 DEF Listed
  <2>3. ResultsFollowSelection'
    <3> HIDE DEF PreviousOf
    <3> QED
      BY <1>2, <2>2 DEF ResultsFollowSelection
  <2> QED
    BY <2>1, <2>3 DEF SheetInv
<1> QED
  BY <1>1, <1>2 DEF FollowSelection, Cancelled

LEMMA ClosedIsSheet == ASSUME TabsClose PROVE SheetInv'
BY DEF TabsClose, Cancelled, SheetInv, AskedForSheet, ResultsFollowSelection

LEMMA SheetStays ==
  ASSUME SheetInv, UNCHANGED <<selected, results, page>>, asked' \subseteq asked
  PROVE  SheetInv'
<1>1. AskedForSheet'
  BY DEF SheetInv, AskedForSheet
<1>2. ResultsFollowSelection'
  BY DEF SheetInv, ResultsFollowSelection
<1> QED
  BY <1>1, <1>2 DEF SheetInv

LEMMA ResultsArriveInv == ASSUME SheetInv, NEW a \in asked, ResultsArrive(a) PROVE SheetInv'
<1>1. selected # Nothing /\ a.task = selected /\ a.given = page
  BY DEF SheetInv, AskedForSheet
<1>2. UNCHANGED <<selected, page>> /\ asked' \subseteq asked
        /\ results' \subseteq PreviousOf(page.tasks, selected) \cap page.completed
  BY <1>1 DEF ResultsArrive, Listed
<1>3. AskedForSheet'
  BY <1>2 DEF SheetInv, AskedForSheet
<1>4. ResultsFollowSelection'
  BY <1>1, <1>2 DEF ResultsFollowSelection
<1> QED
  BY <1>3, <1>4 DEF SheetInv

LEMMA SheetNextInv == ASSUME SheetInv, SheetNext PROVE SheetInv'
<1>1. CASE CloseSheet
  BY <1>1, FollowingIsSheet DEF CloseSheet, Select
<1>2. ASSUME NEW t \in Task, HandleOpenTask(t) PROVE SheetInv'
  BY <1>2, FollowingIsSheet DEF HandleOpenTask, Select
<1>3. ASSUME NEW t \in Task, SheetArrives(t) PROVE SheetInv'
  BY <1>3, FollowingIsSheet, SheetStays DEF SheetArrives, Select
<1>4. ASSUME NEW t \in Task, HandleTaskAction(t) \/ HandleUpload(t) PROVE SheetInv'
  BY <1>4, SheetStays DEF HandleTaskAction, HandleUpload, CallServer
<1>5. ASSUME NEW t \in Task, OthersMove(t) PROVE SheetInv'
  BY <1>5, SheetStays DEF OthersMove
<1>6. ASSUME NEW a \in asked, ResultsFail(a) PROVE SheetInv'
  BY <1>6, SheetStays DEF ResultsFail
<1> QED
  BY <1>1, <1>2, <1>3, <1>4, <1>5, <1>6, ResultsArriveInv DEF SheetNext

LEMMA DialogNextInv == ASSUME SheetInv, DialogNext PROVE SheetInv'
<1>1. ASSUME NEW t \in Task, HandleCreateTask(t) PROVE SheetInv'
  BY <1>1, SheetStays DEF HandleCreateTask, CallServer
<1>2. CASE UNCHANGED pageVars
  BY <1>2, SheetStays DEF pageVars
<1>3. DialogNext => (\E t \in Task : HandleCreateTask(t)) \/ UNCHANGED pageVars
  BY DEF DialogNext, ResetPreviewState, HandleOpenPreview, HandlePreviewVersionChange,
         HandleCompareVersionChange, PreviewArrives
<1> QED
  BY <1>1, <1>2, <1>3

LEMMA LoadNextInv == ASSUME SheetInv, LoadNext PROVE SheetInv'
<1>1. ASSUME NEW r \in reloads, ProjectArrives(r) PROVE SheetInv'
  <2>1. FollowSelection(selected', page')
    BY <1>1 DEF ProjectArrives
  <2> QED
    BY <2>1, FollowingIsSheet
<1>2. ASSUME NEW r \in reloads, ProjectFails(r) PROVE SheetInv'
  BY <1>2, SheetStays DEF ProjectFails
<1>3. CASE SwitchTab
  BY <1>3, ClosedIsSheet DEF SwitchTab
<1>4. ASSUME NEW c \in calls, CallDone(c) \/ CallFails(c) PROVE SheetInv'
  BY <1>4, SheetStays DEF CallDone, CallFails
<1>5. ASSUME NEW c \in calls, CallAnswered(c) PROVE SheetInv'
  BY <1>5, ClosedIsSheet DEF CallAnswered
<1> QED
  BY <1>1, <1>2, <1>3, <1>4, <1>5 DEF LoadNext

\* The results of the stage before that a sheet lists are files of completed
\* tasks that come before its own task on the page as it is: no answer for a sheet
\* that was closed, changed or loaded again in the meantime is listed.
THEOREM SheetListsItsOwn == PageSpec => []ResultsFollowSelection
<1>1. PageInit => SheetInv
  BY DEF PageInit, SheetInv, AskedForSheet, ResultsFollowSelection
<1>2. SheetInv /\ [SheetNext \/ DialogNext \/ LoadNext]_projectPageVars => SheetInv'
  <2> SUFFICES ASSUME SheetInv, [SheetNext \/ DialogNext \/ LoadNext]_projectPageVars
               PROVE  SheetInv'
    OBVIOUS
  <2>1. CASE UNCHANGED projectPageVars
    BY <2>1, SheetStays DEF projectPageVars, pageVars
  <2> QED
    BY <2>1, SheetNextInv, DialogNextInv, LoadNextInv
<1>3. SheetInv => ResultsFollowSelection
  BY DEF SheetInv
<1> QED
  BY <1>1, <1>2, <1>3, PTL DEF PageSpec
=============================================================================
