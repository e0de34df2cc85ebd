----------------------------- MODULE ProjectAccess -----------------------------
(***************************************************************************)
(* Who sees a project and who may claim its work.  Two modules of the back *)
(* end answer from the same rows: project-access.ts says for which roles a *)
(* user is a candidate, and lets candidates see the project; task.service  *)
(* decides when the claim comes.  The rows change in between: skill tags,  *)
(* what was granted of them, the project's configuration and the template. *)
(*                                                                         *)
(* A configuration is a list of entries, one a role; what else is in an    *)
(* entry, and the order, is left out.                                      *)
(***************************************************************************)
EXTENDS FiniteSets

CONSTANTS
  Role, Tag, User,   \* "translation" is a role
  Limit,             \* the maximum segment lengths that may be set, NoLimit among them
  TagSet,            \* the sets of tags a configuration may ask for
  NoLimit, NoEntry,
  Created            \* how projects are made: "copied" from the template, "bare", or either

ASSUME AccessAssumption ==
  /\ "translation" \in Role /\ "none" \notin Role /\ NoLimit \in Limit
  /\ TagSet \subseteq SUBSET Tag /\ {} \in TagSet
  /\ Created \subseteq {"copied", "bare"}

VARIABLES
  tagRole,      \* role_type of each RoleTag, "none" if there is no such tag
  application,  \* the TagApplication of each user for each tag
  roles,        \* the template's roles
  config,       \* the project's workflow_config
  archived,     \* is_archived
  opening,      \* opening[r]: what is to be claimed of the project's tasks of role r
  inside        \* members, the owner and those who hold a task

accessVars == <<tagRole, application, roles, config, archived, opening, inside>>

Opening == {"closed", "claimable", "parts", "covered"}
Entry == [tags : TagSet, limit : Limit]
Config == [Role -> Entry \cup {NoEntry}]

AccessTypeOK ==
  /\ tagRole \in [Tag -> Role \cup {"none"}]
  /\ application \in [User \X Tag -> {"none", "pending", "granted", "rejected"}]
  /\ {roles, config} \subseteq Config
  /\ archived \in BOOLEAN /\ inside \subseteq User
  /\ opening \in [Role -> Opening]
  /\ \A u \in User, g \in Tag : application[<<u, g>>] # "none" => tagRole[g] # "none"

\* createProjectFromTemplate copies the roles; createProject only keeps template_id.
AccessInit ==
  /\ tagRole \in [Tag -> {"none", "translation"}]
  /\ application = [a \in User \X Tag |-> "none"]
  /\ roles \in {c \in Config : \A r \in Role : c[r] # NoEntry => c[r].limit = NoLimit}
  /\ \E c \in Created : config = IF c = "copied" THEN roles ELSE [r \in Role |-> NoEntry]
  /\ archived = FALSE /\ inside = {}
  /\ opening = [r \in Role |-> "closed"]

-----------------------------------------------------------------------------
(* The rules, once for each of the two modules.                            *)

\* The project's entry for the role comes before the template's.
Found(r) == IF config[r] # NoEntry THEN config[r] ELSE roles[r]
RequiredMutant(r) == IF config[r] = NoEntry THEN {} ELSE config[r].tags
Required(r) == IF Found(r) = NoEntry THEN {} ELSE Found(r).tags

Granted(u) == {g \in Tag : application[<<u, g>>] = "granted"}

\* project-access.ts: getEligibleOpenClaimRoles.
Open(r) == opening[r] = "claimable" \/ (opening[r] = "parts" /\ r = "translation")

Candidate(u, r) ==
  IF Required(r) # {} THEN Required(r) \cap Granted(u) # {}
  ELSE \/ r \notin {tagRole[g] : g \in Tag}
       \/ r \in {tagRole[g] : g \in Granted(u)}

EligibleRoles(u) == IF archived THEN {} ELSE {r \in Role : Open(r) /\ Candidate(u, r)}

\* hasProjectViewPermission, for an account without a managing role.
Sees(u) == u \in inside \/ EligibleRoles(u) # {}

\* task.service: getTaskRoleRequiredTagIds, hasRequiredRoleTag, hasTaskClaimRoleTagAccess.
RequiredOfTask(r) ==
  LET entries == {c \in {config[r]} : c # NoEntry}
      found == IF entries # {} THEN entries ELSE {roles[r]} \ {NoEntry}
  IN UNION {c.tags : c \in found}

TagsOf(r) == {g \in Tag : tagRole[g] = r}

MayClaim(u, r) ==
  LET required == RequiredOfTask(r)
      enough == IF required # {} THEN required ELSE TagsOf(r)
  IN enough = {} \/ \E g \in enough : application[<<u, g>>] = "granted"

LimitOf(r) == IF Found(r) = NoEntry THEN NoLimit ELSE Found(r).limit

-----------------------------------------------------------------------------
(* Skill tags and applications for them.                                   *)

SetApplication(u, g, status) ==
  /\ application' = [application EXCEPT ![<<u, g>>] = status]
  /\ UNCHANGED <<tagRole, roles, config, archived, opening, inside>>

\* createRoleTag, or updateRoleTag with another role_type.
SetRoleTag(g, r) ==
  /\ tagRole' = [tagRole EXCEPT ![g] = r]
  /\ UNCHANGED <<application, roles, config, archived, opening, inside>>

\* The applications go with the tag; configurations go on naming it.
DeleteRoleTag(g) ==
  /\ tagRole[g] # "none"
  /\ tagRole' = [tagRole EXCEPT ![g] = "none"]
  /\ application' = [a \in User \X Tag |-> IF a[2] = g THEN "none" ELSE application[a]]
  /\ UNCHANGED <<roles, config, archived, opening, inside>>

CreateTagApplication(u, g) ==
  tagRole[g] # "none" /\ application[<<u, g>>] = "none" /\ SetApplication(u, g, "pending")

\* A decision may be changed later; a rejected user applies again only after a reset.
ReviewTagApplication(u, g) ==
  application[<<u, g>>] # "none" /\ \E s \in {"granted", "rejected"} : SetApplication(u, g, s)

ResetTagStatus(u, g) == application[<<u, g>>] # "none" /\ SetApplication(u, g, "none")

GrantMemberTag(u, g) == tagRole[g] # "none" /\ SetApplication(u, g, "granted")

-----------------------------------------------------------------------------
(* Templates and the project's own settings.                               *)

SetConfig(newRoles, newConfig) ==
  /\ roles' = newRoles /\ config' = newConfig
  /\ UNCHANGED <<tagRole, application, archived, opening, inside>>

UpdateTemplateRoles(r, entry) == SetConfig([roles EXCEPT ![r] = entry], config)

\* setRoleMaxSegmentLength: an entry is made for the role if there is none,
\* unless there is no entry at all and no limit is wanted.
WithLimit(limit) ==
  IF config["translation"] # NoEntry THEN [config EXCEPT !["translation"].limit = limit]
  ELSE IF limit = NoLimit /\ \A r \in Role : config[r] = NoEntry THEN config
  ELSE [config EXCEPT !["translation"] = [tags |-> {}, limit |-> limit]]

UpdateProject(limit) == SetConfig(roles, WithLimit(limit))

-----------------------------------------------------------------------------
(* The project's tasks and people, as the other modules have them.         *)

TasksMove(r, o) ==
  /\ opening[r] # o
  /\ o \in {"parts", "covered"} => r = "translation"
  /\ ~archived
  /\ opening' = [opening EXCEPT ![r] = o]
  /\ UNCHANGED <<tagRole, application, roles, config, archived, inside>>

\* Archiving freezes the tasks; unarchiving thaws them.
Archive ==
  /\ archived' = ~archived
  /\ UNCHANGED <<tagRole, application, roles, config, opening, inside>>

\* A claim makes the user a member; an end of the work may remove them.
PeopleMove(u) ==
  /\ \/ u \in inside /\ inside' = inside \ {u}
     \/ u \notin inside /\ (\E r \in Role : Open(r) /\ MayClaim(u, r)) /\ inside' = inside \cup {u}
  /\ UNCHANGED <<tagRole, application, roles, config, archived, opening>>

AccessNext ==
  \/ \E g \in Tag : DeleteRoleTag(g) \/ \E r \in Role : SetRoleTag(g, r)
  \/ \E u \in User, g \in Tag :
       \/ CreateTagApplication(u, g) \/ ReviewTagApplication(u, g)
       \/ ResetTagStatus(u, g) \/ GrantMemberTag(u, g)
  \/ \E r \in Role, e \in Entry \cup {NoEntry} : UpdateTemplateRoles(r, e)
  \/ \E l \in Limit : UpdateProject(l)
  \/ \E r \in Role, o \in Opening : TasksMove(r, o)
  \/ Archive
  \/ \E u \in User : PeopleMove(u)

AccessSpec == AccessInit /\ [][AccessNext]_accessVars

-----------------------------------------------------------------------------
\* Those to whom a project is shown for its open work are those whose claim the
\* tag check lets through, whatever became of tags, grants and configurations
\* in the meantime.
CandidatesMayClaim ==
  ~archived => \A u \in User : EligibleRoles(u) = {r \in Role : Open(r) /\ MayClaim(u, r)}

\* What a template is changed to reaches no project that was made from it.
TemplateEditsStayOut ==
  [][roles' # roles => \A r \in Role :
        RequiredOfTask(r)' = RequiredOfTask(r) /\ LimitOf(r)' = LimitOf(r)]_accessVars
=============================================================================
