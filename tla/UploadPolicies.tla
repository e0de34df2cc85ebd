---------------------------- MODULE UploadPolicies ----------------------------
(***************************************************************************)
(* Which files a project takes.  A policy gives rules by role, a largest   *)
(* size and a list of extensions; the newest policy of the project, the    *)
(* newest global one and the built-in default are asked in turn.  An       *)
(* upload is checked when it begins, for the role the browser names, and   *)
(* again when it is recorded, for the role of its task.  A rule's MIME and *)
(* file types stop no file, but the page's file chooser goes by them too.  *)
(*                                                                         *)
(* One rule for everybody is the same rule for every role.  Such a rule    *)
(* beside rules by role, values that neither side knows, and what is too   *)
(* large or dangerous for any policy (UPLOAD_MAX_SIZE), are left out.      *)
(***************************************************************************)
EXTENDS Naturals

CONSTANTS
  TaskRole,   \* "supervisor" is one
  Ext,        \* extensions of files
  DefaultList,   \* DEFAULT_EXTENSION_ALLOWLIST
  Mime, FileType,   \* MIME and file types that rules may name
  OfMime, OfType,  \* the extensions their files have
  RoleTypes,  \* TASK_DELIVERY_RULES: the file types of each role
  Bytes,      \* sizes of files and limits
  Content,    \* what may be uploaded: an extension and a size each
  Policy,     \* the policies that managers write down
  Default,    \* DEFAULT_ROLE_UPLOAD_POLICY
  NoPolicy, NoRule,
  Sender,     \* uploads and replacements, one at a time each
  Uploader    \* who uploads: the account's role and the role in the project, "none" for none

\* mime: what a rule names by MIME type, or by extension among its allowed_types.
Rule == [extensions : SUBSET Ext, mime : SUBSET Mime, types : SUBSET FileType]

ASSUME PoliciesAssumption ==
  /\ "supervisor" \in TaskRole /\ "none" \notin TaskRole
  /\ DefaultList \subseteq Ext /\ RoleTypes \in [TaskRole -> SUBSET FileType]
  /\ OfMime \in [Mime -> SUBSET Ext] /\ OfType \in [FileType -> SUBSET Ext]
  /\ Bytes \subseteq Nat /\ NoPolicy \notin Policy \cup {Default}
  /\ Content \subseteq [ext : Ext, size : Bytes]
  /\ Policy \cup {Default} \subseteq
       [rules : [TaskRole -> Rule \cup {NoRule}], nested : BOOLEAN,
        maxSize : Bytes, whitelist : SUBSET Ext]
  /\ Uploader \subseteq [user : {"member", "supervisor", "admin"}, member : TaskRole \cup {"none"}]

VARIABLES
  template,    \* the template's upload_policy
  made,        \* "no", "project", "done": how far createProjectFromTemplate is
  projectConfig,      \* the project's upload_policy_config
  projectRow,  \* the newest UploadPolicy of the project
  globalRow,   \* the newest global one
  file,        \* the newest version on record
  sender       \* the requests under way

policyVars == <<template, made, projectConfig, projectRow, globalRow, file, sender>>

NoUpload == [at |-> "idle"]
NoRole == "none"
NoFile == [role |-> NoRole, given |-> FALSE]

PoliciesTypeOK ==
  /\ {template, projectConfig} \subseteq Policy \cup {Default, NoPolicy}
  /\ template # NoPolicy /\ made \in {"no", "project", "done"}
  /\ (made = "no") = (projectConfig = NoPolicy)
  /\ DOMAIN sender = Sender
  /\ file # NoFile => file.content \in Content /\ file.role \in TaskRole \cup {NoRole}

PoliciesInit ==
  /\ template \in Policy /\ made = "no" /\ projectConfig = NoPolicy
  /\ projectRow = NoPolicy /\ globalRow \in Policy \cup {NoPolicy}
  /\ file = NoFile /\ sender = [s \in Sender |-> NoUpload]

-----------------------------------------------------------------------------
(* The rules                                                               *)

Usable(rule) == rule # NoRule /\ (rule.extensions # {} \/ rule.mime # {} \/ rule.types # {})

\* normalizeUploadPolicyJson: what has no usable rule, or rules that are not
\* under `roles` or the like, becomes the default.
Readable(p) == p.nested /\ \E r \in TaskRole : Usable(p.rules[r])
Normalized(p) == IF Readable(p) THEN p ELSE Default

Merged(p) ==
  LET given == {p.rules[r] : r \in TaskRole} \ {NoRule}
  IN [extensions |-> UNION {g.extensions : g \in given},
      mime |-> UNION {g.mime : g \in given}, types |-> UNION {g.types : g \in given}]

RoleRule(p, role, user) ==
  IF role # NoRole /\ p.rules[role] # NoRule THEN p.rules[role]
  ELSE IF user = "supervisor" /\ p.rules["supervisor"] # NoRule THEN p.rules["supervisor"]
  ELSE IF user = "admin" \/ role = NoRole THEN Merged(p)
  ELSE NoRule

\* Who is asked, in order.
Candidates == <<projectRow, globalRow, Default>>

Fits(c, p) ==
  /\ c.ext \in IF p.whitelist = {} THEN DefaultList ELSE p.whitelist
  /\ c.size <= p.maxSize

Within(c, rule, p) == Fits(c, p) /\ (rule.extensions # {} => c.ext \in rule.extensions)

\* The first candidate with a usable rule decides, also on size and extensions.
Allows(candidates, role, user, c) ==
  \E i \in 1 .. 3 :
    LET p == candidates[i]
        says(j) == candidates[j] # NoPolicy /\ Usable(RoleRule(candidates[j], role, user))
    IN /\ says(i) /\ \A j \in 1 .. i - 1 : ~says(j)
       /\ Within(c, RoleRule(p, role, user), p)

\* resolveUploadRole: the role named, or that of the uploader's membership.
UploadRole(named, member, user) ==
  IF named # NoRole THEN named
  ELSE IF member # NoRole THEN member
  ELSE IF user = "supervisor" THEN "supervisor" ELSE NoRole

\* What a rule makes the chooser show: what it names, else the files of its types
\* or, if it names none of these either, of the role's.
Shown(rule, role) ==
  IF rule # NoRule /\ (rule.extensions # {} \/ rule.mime # {})
    THEN rule.extensions \cup UNION {OfMime[m] : m \in rule.mime}
    ELSE UNION {OfType[t] : t \in IF rule = NoRule \/ rule.types = {} THEN RoleTypes[role] ELSE rule.types}

\* The chooser goes by the template.
OfferedMutant(role) == Shown(template.rules[role], role)

\* The browser's file chooser at a task.
Offered(role) == Shown((IF projectConfig = NoPolicy THEN template ELSE projectConfig).rules[role], role)

-----------------------------------------------------------------------------
(* Policies                                                                *)

UpdateTemplatePolicy(p) ==
  /\ template' = Normalized(p)
  /\ UNCHANGED <<made, projectConfig, projectRow, globalRow, file, sender>>

\* The project is created, then its policy: a stop between leaves it without.
CreateProjectFromTemplate ==
  /\ made = "no" /\ made' = "project" /\ projectConfig' = Normalized(template)
  /\ UNCHANGED <<template, projectRow, globalRow, file, sender>>

CreateProjectPolicy ==
  /\ made = "project" /\ made' = "done" /\ projectRow' = projectConfig
  /\ UNCHANGED <<template, projectConfig, globalRow, file, sender>>

\* updateUploadPolicy adds a row, which is the newest; only the rules are normalized.
Stored(p) == IF Readable(p) THEN p ELSE [p EXCEPT !.rules = Default.rules, !.nested = TRUE]

UpdateProjectPolicy(p) ==
  /\ made # "no" /\ projectRow' = Stored(p)
  /\ UNCHANGED <<template, made, projectConfig, globalRow, file, sender>>

UpdateGlobalPolicy(p) ==
  /\ globalRow' = Stored(p)
  /\ UNCHANGED <<template, made, projectConfig, projectRow, file, sender>>

-----------------------------------------------------------------------------
(* Uploads: o is the uploader, t the task's role, inside the role that the *)
(* file's metadata name.                                                   *)

Checked(q, role) == Allows(Candidates, UploadRole(role, q.member, q.user), q.user, q.content)

Upload(role, named, as, o, c) ==
  [at |-> "record", role |-> role, named |-> named, as |-> as,
   member |-> o.member, user |-> o.user, content |-> c]

Send(s, q, passes) ==
  /\ made # "no" /\ sender[s] = NoUpload
  /\ sender' = [sender EXCEPT ![s] = IF passes THEN q ELSE NoUpload]
  /\ UNCHANGED <<template, made, projectConfig, projectRow, globalRow, file>>

\* Without a task there is only the role the browser names; without that, the file
\* keeps the role in its metadata, which nobody checks.  A request that names a
\* stored object instead of sending one is not checked here.
BeginUpload(s, named, t, inside, o, c) ==
  LET role == IF t # NoRole THEN t ELSE named
      q == Upload(role, named, IF role # NoRole THEN role ELSE inside, o, c)
  IN \E stored \in BOOLEAN : Send(s, q, stored \/ Checked(q, named))

\* A new version of a file, for the role in its metadata, which may be sent anew; a
\* multipart request is checked for the old one first.
BeginReplace(s, role, o, c) ==
  LET q == Upload(role, role, role, o, c)
  IN /\ file # NoFile
     /\ \E stored \in BOOLEAN, first \in {role, file.role} : Send(s, q, stored \/ Checked(q, first))

\* The role named is checked, not the task's.
RoleToCheckMutant(q) == q.named

\* uploadFile and replaceFile check again before they write; a role named for a
\* task of another role is refused.
RoleToCheck(q) == q.role

CheckRecord(s) ==
  LET q == sender[s]
      fine == Checked(q, RoleToCheck(q)) /\ (q.named = NoRole \/ q.named = q.role)
  IN /\ q.at = "record"
     /\ sender' = [sender EXCEPT ![s] =
          IF fine THEN [at |-> "write", role |-> q.as, given |-> q.role # NoRole,
                        content |-> q.content, seen |-> projectRow]
                  ELSE NoUpload]
     /\ UNCHANGED <<template, made, projectConfig, projectRow, globalRow, file>>

Write(s) ==
  LET q == sender[s]
  IN /\ q.at = "write"
     /\ file' = [role |-> q.role, given |-> q.given, content |-> q.content, seen |-> q.seen]
     /\ sender' = [sender EXCEPT ![s] = NoUpload]
     /\ UNCHANGED <<template, made, projectConfig, projectRow, globalRow>>

PoliciesNext ==
  \/ CreateProjectFromTemplate \/ CreateProjectPolicy
  \/ \E p \in Policy : UpdateTemplatePolicy(p) \/ UpdateProjectPolicy(p) \/ UpdateGlobalPolicy(p)
  \/ \E s \in Sender, named \in TaskRole \cup {NoRole}, o \in Uploader, c \in Content :
       \/ \E t, inside \in TaskRole \cup {NoRole} : BeginUpload(s, named, t, inside, o, c)
       \/ BeginReplace(s, named, o, c)
  \/ \E s \in Sender : CheckRecord(s) \/ Write(s)

PoliciesSpec == PoliciesInit /\ [][PoliciesNext]_policyVars

-----------------------------------------------------------------------------
\* What the project's own policy said of a role when a file came in for a task of
\* that role, or under that role by name, holds of the file, its size and the list
\* of extensions included, however its request named the role, and whatever the
\* global policy allows.  (A role that only the metadata name is not checked.)
ProjectPolicyIsObeyed ==
  file.given /\ file.seen # NoPolicy =>
    LET rule == file.seen.rules[file.role]
    IN Usable(rule) => Within(file.content, rule, file.seen)

\* While a project keeps the policy it was made with, a member's file for a role
\* whose rule names extensions is let in just when its extension is one of these,
\* which the chooser offers, and the project's size and list of extensions permit,
\* whatever became of the template and of the global policy.
ChooserFollowsServer ==
  made = "done" /\ projectRow = projectConfig =>
    \A role \in TaskRole :
      LET rule == projectConfig.rules[role]
      IN rule # NoRule /\ rule.extensions # {} =>
           \A c \in [ext : Ext, size : Bytes] :
             Allows(Candidates, role, "member", c) <=>
               c.ext \in rule.extensions \cap Offered(role) /\ Fits(c, projectConfig)

\* What the chooser offers is let in, where size and list of extensions permit.
OfferedIsLetIn ==
  made = "done" /\ projectRow = projectConfig =>
    \A role \in TaskRole : \A c \in [ext : Offered(role), size : Bytes] :
      Fits(c, projectConfig) => Allows(Candidates, role, "member", c)

\* What the project's policy says of the role a file is recorded under holds of it.
RecordedRoleIsObeyed ==
  file.role # NoRole /\ file.seen # NoPolicy =>
    LET rule == file.seen.rules[file.role]
    IN Usable(rule) => Within(file.content, rule, file.seen)

\* An upload is let in by the project's own rule for the role it is for, and the
\* page's chooser hides nothing that such a rule names and the server lets in
\* (validateUpload, taskWorkflow.ts).
PoliciesAgree == ProjectPolicyIsObeyed /\ ChooserFollowsServer
=============================================================================
