---------------------------- MODULE ProjectWizard ----------------------------
(***************************************************************************)
(* Opening a project: the wizard of five steps, the request that makes the *)
(* project of a template or without one, and the requests that add its     *)
(* members, which go out together when the project is there.               *)
(*                                                                         *)
(* The server makes a project in several writes, and may fail at each.     *)
(***************************************************************************)
EXTENDS Templates, Sequences

CONSTANTS
  Person, Owner,      \* who may be given a place; Owner is who opens the project
  Place,              \* what a template's contents ask for: text -> roles
  MaxProjects, MaxSeats   \* bounds

ASSUME WizardAssumption == Owner \in Person /\ DOMAIN Place = 0 .. MaxText

VARIABLES
  project,    \* the projects, by when they were made
  offered,    \* the templates as the wizard was given them
  wizard,     \* its step, what is on its form, and the project it made
  adding      \* requests to add a member, under way

wizardVars == <<project, offered, wizard, adding>>
NoTemplate == "none"
PlaceRoles == UNION {Place[x] : x \in DOMAIN Place}
Seat == [who : Person, role : PlaceRoles]

WizardTypeOK ==
  /\ Len(project) <= MaxProjects
  /\ wizard.step \in 1 .. 5 /\ wizard.at \in {"filling", "creating", "adding", "done"}
  /\ wizard.seats \subseteq Seat
  /\ \A x \in adding : x.to \in DOMAIN project
  /\ DOMAIN uses = DOMAIN project

\* Opened from the menu, or for a template of the templates page, at step two.
WizardInit ==
  /\ project = <<>> /\ adding = {} /\ offered = row
  /\ wizard \in {[step |-> 1, at |-> "filling", template |-> NoTemplate, chosen |-> NoTemplate,
                  type |-> "anime", seats |-> {}, made |-> 0]}
       \cup {[step |-> 2, at |-> "filling", template |-> t, chosen |-> t,
              type |-> FromBackend(row[t].type), seats |-> {}, made |-> 0] : t \in Tpl}

Filling == wizard.at = "filling"
Fill(next) ==
  /\ Filling
  /\ wizard' = next
  /\ UNCHANGED <<project, offered, adding, templatesVars>>

-----------------------------------------------------------------------------
(* The form                                                                *)

\* The places to give are those of the template chosen, and nobody has one yet.
HandleSelectTemplate(t) ==
  /\ wizard.step = 1 /\ IsThere(offered, t)
  /\ Fill([wizard EXCEPT !.step = 2, !.template = t, !.chosen = t,
                         !.type = FromBackend(offered[t].type), !.seats = {}])

WithoutTemplate ==
  /\ wizard.step = 1
  /\ Fill([wizard EXCEPT !.step = 2, !.template = NoTemplate, !.chosen = NoTemplate, !.seats = {}])

\* The type can be changed with a template chosen too.
ChooseType(type) ==
  /\ wizard.step = 2
  /\ Fill([wizard EXCEPT !.type = type])

\* Nothing stops somebody, or the owner, from being given two.
TakeSeat(s) ==
  /\ wizard.step = 4 /\ wizard.chosen # NoTemplate
  /\ s.role \in Place[offered[wizard.chosen].text]
  /\ Cardinality(wizard.seats) < MaxSeats
  /\ Fill([wizard EXCEPT !.seats = @ \cup {s}])

HandleNext ==
  /\ wizard.step < 5
  /\ wizard.step = 1 => wizard.chosen # NoTemplate
  /\ Fill([wizard EXCEPT !.step = @ + 1])

HandleBack ==
  /\ wizard.step > 1
  /\ Fill([wizard EXCEPT !.step = @ - 1])

-----------------------------------------------------------------------------
(* The project                                                             *)

Fresh(t) ==
  [template |-> t, stage |-> "made", members |-> {}, units |-> 0,
   type |-> IF t = NoTemplate THEN ToBackend(wizard.type) ELSE row[t].type,
   text |-> IF t = NoTemplate THEN 0 ELSE row[t].text]

\* The project's row, of the template as it is now.
HandleFormSubmit ==
  LET t == wizard.template IN
  /\ wizard.step = 5 /\ Filling /\ Len(project) < MaxProjects
  /\ t # NoTemplate => IsThere(row, t)
  /\ project' = Append(project, Fresh(t))
  /\ uses' = Append(uses, t)
  /\ wizard' = [wizard EXCEPT !.at = "creating", !.made = Len(project) + 1]
  /\ UNCHANGED <<offered, adding, row, doing, pageState, marked>>

Rest(p) == IF p.template = NoTemplate THEN [p EXCEPT !.stage = "whole"]
           ELSE [p EXCEPT !.stage = "whole", !.units = 1]

\* The owner's membership, then the policy and the units, then the answer.
CreateProject ==
  LET i == wizard.made IN
  /\ wizard.at = "creating"
  /\ \/ /\ project[i].stage = "made"
        /\ project' = [project EXCEPT ![i].stage = "owned", ![i].members = {[who |-> Owner, role |-> "supervisor"]}]
        /\ UNCHANGED <<wizard, adding>>
     \/ /\ project[i].stage = "owned"
        /\ project' = [project EXCEPT ![i] = Rest(@)]
        /\ UNCHANGED <<wizard, adding>>
     \/ /\ project[i].stage = "whole"
        /\ adding' = adding \cup {[to |-> i, seat |-> s] : s \in wizard.seats}
        /\ wizard' = [wizard EXCEPT !.at = "adding"]
        /\ UNCHANGED project
  /\ UNCHANGED <<offered, templatesVars>>

\* What was written stays; the form is as it was.
CreatingFails ==
  /\ wizard.at = "creating"
  /\ wizard' = [wizard EXCEPT !.at = "filling"]
  /\ UNCHANGED <<project, offered, adding, templatesVars>>

\* Mutant: a second place is given to who has one.
AddsMutant(x) == \A m \in project[x.to].members : m # x.seat
\* addMember refuses who has a place already.
Adds(x) == \A m \in project[x.to].members : m.who # x.seat.who

\* The first refusal is the end of it for the page, not for the other requests.
AddMember(x) ==
  /\ x \in adding
  /\ adding' = adding \ {x}
  /\ IF Adds(x)
       THEN /\ project' = [project EXCEPT ![x.to].members = @ \cup {x.seat}]
            /\ UNCHANGED wizard
       ELSE /\ wizard' = IF wizard.at = "adding" /\ wizard.made = x.to
                           THEN [wizard EXCEPT !.at = "filling"] ELSE wizard
            /\ UNCHANGED project
  /\ UNCHANGED <<offered, templatesVars>>

MembersAdded ==
  /\ wizard.at = "adding" /\ \A x \in adding : x.to # wizard.made
  /\ wizard' = [wizard EXCEPT !.at = "done"]
  /\ UNCHANGED <<project, offered, adding, templatesVars>>

-----------------------------------------------------------------------------
WizardNext ==
  \/ \E t \in Tpl : HandleSelectTemplate(t)
  \/ \E type \in FormType : ChooseType(type)
  \/ \E s \in Seat : TakeSeat(s)
  \/ WithoutTemplate \/ HandleNext \/ HandleBack
  \/ HandleFormSubmit \/ CreateProject \/ CreatingFails \/ MembersAdded
  \/ \E x \in adding : AddMember(x)

WizardSpec == TemplatesInit /\ WizardInit /\ [][WizardNext \/ (TemplatesNext /\ UNCHANGED wizardVars)]_<<templatesVars, wizardVars>>

-----------------------------------------------------------------------------
Opened == project[wizard.made]

\* A project the wizard says is created has its units and everybody who was
\* given a place, each in one place only, whatever order the requests were
\* served in.
CreatedIsWhole ==
  wizard.at = "done" =>
    /\ \A s \in wizard.seats : s \in Opened.members
    /\ \A s, m \in Opened.members : s.who = m.who => s = m
    /\ Opened.template # NoTemplate => Opened.units > 0

\* Not so: the wizard says the creation failed when a member could not be added,
\* and creates another project when it is asked again.
OneProjectPerForm == Len(project) <= 1

\* Not so: the template decides the type, whatever the form says at the end.
ChosenTypeKept == wizard.at = "done" => FromBackend(Opened.type) = wizard.type

\* Not so: the template may have been changed since the places were offered.
PlacesAsOffered ==
  wizard.at = "done" /\ wizard.chosen # NoTemplate => Opened.text = offered[wizard.chosen].text

\* Not so: a project may be made between deleteTemplate's look for one and its
\* delete, and has no template then.
UsedTemplateStays ==
  \A p \in DOMAIN project : uses[p] = project[p].template
=============================================================================
