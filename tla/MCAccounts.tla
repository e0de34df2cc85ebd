------------------------------ MODULE MCAccounts ------------------------------
(***************************************************************************)
(* The way into the system for TLC: accounts and the captcha in front of   *)
(* them.  The two share no state, and some operations of one do not touch  *)
(* what others read, so a behaviour plays one part of the story: Init      *)
(* picks it, and only the operations of that part move.                    *)
(***************************************************************************)
EXTENDS MembersPage, BrowserSession, CaptchaGate, ProjectWizard

CONSTANTS
  root, ann, bob, q1, q2, r1, r2, p1, p2, \* model values
  Managed \* whose tags root manages

VARIABLE part
openingVars == <<templatesVars, wizardVars>>
vars == <<accountsVars, captchaVars, membersVars, browserVars,
          openingVars, part>>

\* Who may do what to whom: every administrator and every account.
Roles ==
  \/ Upgrade
  \/ \E actor, u \in User : AdminStep(actor, u)
  \/ \E actor \in User, m \in Modes : UpdateRegistrationPolicy(actor, m)

\* The sessions of ann, and of root while the captcha is down.
Sessions ==
  \/ Upgrade \/ CleanupExpiredRevokedTokens
  \/ LoginUser(ann) \/ RecoverySession(root)
  \/ \E t \in Token : TokenStep(t)
  \/ \E status \in {"active", "disabled"} : UpdateUserStatus(root, ann, status)

\* Ann registers, confirms by QQ, resets her password; two challenges are enough.
Resets ==
  \/ Upgrade
  \/ /\ Codes \subseteq {1}
     /\ \/ \E n \in QQ \cup {NoQQ} : RegisterUser(ann, n)
        \/ account[ann].status = "pending_verification" /\ LoginUser(ann)
        \/ RequestPasswordReset(ann)
  \/ \E c \in Codes : CodeStep(c)
  \/ \E actor \in User, m \in Modes : UpdateRegistrationPolicy(actor, m)
  \/ \E actor \in User : ApproveUserVerification(actor, ann) \/ DeleteMember(actor, ann)

\* Ann moves to another number and back while root edits her number.
Rebinds ==
  \/ Upgrade
  \/ \E n \in QQ : CreateMember(root, ann, "member", "active", n)
  \/ \E n \in QQ : RequestQQRebind(ann, n)
  \/ \E c \in Codes : CodeStep(c)
  \/ \E n \in QQ : UpdateMemberProfile(root, ann, n)

\* Root manages the account ann registered, or one made for ann.
Pages ==
  \/ OpenMembers \/ ProfileStep \/ TagStep
  \/ HandleCreateMember(ann, "member", "disabled", q1)
  \/ OpenProfileDialog(ann) \/ HandleStatusToggle(ann) \/ HandleApproveVerification(ann)
  \/ HandleDeleteMember(ann) \/ Refused(ann) \/ HandleRoleChange(ann, "supervisor")
  \/ \E u \in Managed : OpenTagResetDialog(u)
  \/ \E a \in answers : Arrives(a)
Managing ==
  \/ upgraded /\ Pages
  \/ /\ SuperAdmins = {root} /\ members[root] = Unlisted
     /\ \/ Upgrade \/ UpdateRegistrationPolicy(root, "qq_verification")
        \/ mode # "open" /\ RegisterUser(ann, q1)
     /\ UNCHANGED membersVars

\* One browser, in which root and ann, who registers there, take turns.
Browsing ==
  \/ upgraded /\ (ProfilePageStep \/ OpenResetDialog \/ CloseResetDialog \/ SendAgain \/ CheckStatus)
  \/ HandleLogin(ann) \/ RecoveryLogin(root) \/ HandleRegister(ann, q1)
  \/ \E u \in {root, ann} : Codes \subseteq {1} /\ HandleRequestReset(u)
  \/ \E c \in Codes : HandleConfirmReset(c)
  \/ \E r \in replies : ReplyArrives(r)
  \/ /\ \/ SuperAdmins = {root} /\ Upgrade
        \/ \E c \in Codes : VerifyPasswordResetByQQ(c, q1)
        \/ \E s \in Issued : Expire(<<s, "access">>)
     /\ UNCHANGED browserVars

Attempts ==
  \/ \E r \in Caller : AttemptStep(r) \/ PolicyStep(r)
  \/ \E a \in DOMAIN attempt : RequireVerification(a)
  \/ \E p \in Provider : CreateProfile(p)

\* One provider, which may be reconfigured, activated again or switched off.
Recovery ==
  \/ \E r \in Caller : RecoveryStep(r) \/ PolicyStep(r)
  \/ CreateProfile(p1)
  \/ \E h \in Health : TestProfile(p1, h)
  \/ WindowPasses

\* Templates: two administrators mark, delete and create them; one edits them; and one
\* changes or deletes the first while the wizard is at its last step.  What the
\* wizard could not create is sent again as it was.
MCPlace == [x \in 0 .. MaxText |-> IF x = 1 THEN {"timing"} ELSE {"timing", "source"}]

Marking == \E a \in Admin :
  \/ \E t \in Tpl : StartSetDefault(a, t) \/ StartDelete(a, t)
  \/ a = "a1" /\ templates[a]["t1"] # Absent /\ CreateTemplate(a, "t2", "movie", 1)
  \/ ClearOthers(a) \/ MarkDefault(a) \/ DeleteTemplate(a)

EditingTemplates(a) ==
  \/ \E t \in Tpl : StartSetDefault(a, t) \/ OpenDialog(a, t)
  \/ EditDialog(a, "movie", 1) \/ EditDialog(a, "collection", 1)
  \/ ClearOthers(a) \/ MarkDefault(a) \/ SubmitDialog(a) \/ UpdateTemplate(a) \/ CloseDialog(a)
  \/ Reload(a)

Opening ==
  \/ \E t \in Tpl : HandleSelectTemplate(t)
  \/ ChooseType("movie")
  \/ \E s \in Seat : TakeSeat(s)
  \/ WithoutTemplate \/ HandleNext \/ (wizard.made = 0 /\ HandleBack)
  \/ HandleFormSubmit \/ CreateProject \/ CreatingFails \/ MembersAdded
  \/ \E x \in adding : AddMember(x)
  \/ /\ wizard.step = 5 /\ UNCHANGED wizardVars
     /\ LET a == "a1" IN \/ OpenDialog(a, "t1") \/ EditDialog(a, "anime", 1) \/ SubmitDialog(a)
                         \/ UpdateTemplate(a) \/ StartDelete(a, "t1") \/ DeleteTemplate(a)

OnTemplates == {"marking", "editing", "opening"}
Init == /\ AccountsInit /\ CaptchaInit /\ MembersInit /\ BrowserInit
        /\ part \in {"roles", "sessions", "resets", "rebinds", "attempts", "recovery", "managing",
                     "browsing", "marking", "editing", "opening"}
        /\ part \in OnTemplates \cup {"attempts", "recovery"} => SuperAdmins = {root}
        /\ TemplatesInit /\ row["t1"].default
        /\ part \notin OnTemplates => row["t2"].type = "anime"
        /\ WizardInit /\ (part # "opening" => wizard.step = 1)

Next ==
  \/ /\ \/ part = "roles" /\ Roles
        \/ part = "sessions" /\ Sessions
        \/ part = "resets" /\ Resets
        \/ part = "rebinds" /\ Rebinds
     /\ UNCHANGED <<captchaVars, membersVars, browserVars, openingVars, part>>
  \/ part = "managing" /\ Managing /\ UNCHANGED <<captchaVars, browserVars, openingVars, part>>
  \/ part = "browsing" /\ Browsing /\ UNCHANGED <<captchaVars, membersVars, openingVars, part>>
  \/ /\ \/ part = "attempts" /\ Attempts
        \/ part = "recovery" /\ Recovery
     /\ UNCHANGED <<accountsVars, membersVars, browserVars, openingVars, part>>
  \/ /\ \/ part = "marking" /\ Marking /\ UNCHANGED wizardVars
        \/ part = "editing" /\ EditingTemplates("a1") /\ UNCHANGED wizardVars
        \/ part = "opening" /\ Opening
     /\ UNCHANGED <<accountsVars, captchaVars, membersVars, browserVars, part>>

Spec == Init /\ [][Next]_vars

TypeOK == AccountsTypeOK /\ CaptchaTypeOK /\ MembersTypeOK /\ BrowserTypeOK
          /\ TemplatesTypeOK /\ WizardTypeOK
=============================================================================
