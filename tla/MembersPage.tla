------------------------------ MODULE MembersPage ------------------------------
(***************************************************************************)
(* The members page in the browser of an administrator: accounts are       *)
(* listed, created, promoted, disabled, approved and deleted, their        *)
(* profiles edited, and role tags granted to them or reset.  The server,   *)
(* which is Accounts, answers at once; the answers arrive in any order.    *)
(*                                                                         *)
(* A row shows an account and its QQ number, but the list that answers a   *)
(* reset of tags comes without numbers.  Passwords, avatars and names are  *)
(* left out.                                                               *)
(***************************************************************************)
EXTENDS Accounts, FiniteSets

CONSTANTS
  Me,            \* the administrator at the page
  MemberTag,     \* role tags
  MaxAnswers     \* bound: answers outstanding at a time

Unlisted == NewRow("absent", "member", NoQQ)

VARIABLES
  holds,      \* <<user, tag>> granted, on the server
  members,    \* users, what each row shows
  busyUserId,
  profileDialog,    \* the profile dialog: whose, its number at first and now, isSavingProfile
  tagDialog,  \* whose tags are managed, and whose statuses are listed
  answers,    \* answers on their way
  lost        \* history: accounts whose number an edit removed that the form never showed

pageVars == <<members, busyUserId, profileDialog, tagDialog, answers>>
membersVars == <<holds, pageVars, lost>>

Answer == [to : {"row", "profile", "gone", "failed", "created", "tags", "granted"}, user : User, row : Row]
          \cup [to : {"reset"}, rows : [User -> Row]]

MembersTypeOK ==
  /\ holds \subseteq User \X MemberTag
  /\ members \in [User -> Row] /\ busyUserId \in User \cup {NoUser}
  /\ profileDialog \in [of : User \cup {NoUser}, seen : QQ \cup {NoQQ}, qq : QQ \cup {NoQQ}, saving : BOOLEAN]
  /\ tagDialog \in [of : User \cup {NoUser}, listed : User \cup {NoUser}]
  /\ lost \subseteq User
  /\ \A a \in answers : a.to = "reset" \/ a \in Answer

MembersInit ==
  /\ holds = {} /\ members = [u \in User |-> Unlisted] /\ busyUserId = NoUser
  /\ profileDialog = [of |-> NoUser, seen |-> NoQQ, qq |-> NoQQ, saving |-> FALSE]
  /\ tagDialog = [of |-> NoUser, listed |-> NoUser]
  /\ answers = {} /\ lost = {}

-----------------------------------------------------------------------------
(* What the server answers.                                                *)

\* getAllUsers, for a reader who sees the numbers or for nobody in particular.
AllRows(accounts, numbers) ==
  [u \in User |-> CASE accounts[u].status \in {"absent", "deleted"} -> Unlisted
                    [] numbers -> accounts[u]
                    [] OTHER -> [accounts[u] EXCEPT !.qq = NoQQ]]

Ask(a) == Cardinality(answers) < MaxAnswers /\ a \notin answers /\ answers' = answers \cup {a}

Listed(u) == members[u] # Unlisted
ShowRow(u, row) == members' = [members EXCEPT ![u] = IF Listed(u) THEN row ELSE @]

OpenMembers ==
  /\ members' = AllRows(account, TRUE) /\ \A u \in User : ~Listed(u)
  /\ UNCHANGED <<accountsVars, holds, busyUserId, profileDialog, tagDialog, answers, lost>>

-----------------------------------------------------------------------------
(* The buttons of a row.  One account at a time is busy.                   *)

\* A dialog covers the page.
Uncovered == profileDialog.of = NoUser /\ tagDialog.of = NoUser
Press(u) == Uncovered /\ Listed(u) /\ busyUserId # u /\ busyUserId' = u

Answered(u, kind) == Ask([to |-> kind, user |-> u, row |-> account'[u]])
ButtonStep == UNCHANGED <<holds, members, profileDialog, tagDialog, lost>>

\* The super administrator cannot choose a role for themself.
HandleRoleChange(u, role) ==
  /\ Press(u) /\ ~(u = Me /\ account[Me].role = "super_admin") /\ role # members[u].role
  /\ UpdateUserRole(Me, u, role) /\ Answered(u, "row") /\ ButtonStep

NextStatus(row) == IF row.status = "disabled" THEN "active" ELSE "disabled"
HandleStatusToggle(u) ==
  /\ Press(u) /\ members[u].status # "pending_verification"
  /\ UpdateUserStatus(Me, u, NextStatus(members[u])) /\ Answered(u, "row") /\ ButtonStep

HandleApproveVerification(u) ==
  /\ Press(u) /\ members[u].status = "pending_verification"
  /\ ApproveUserVerification(Me, u) /\ Answered(u, "row") /\ ButtonStep

HandleDeleteMember(u) ==
  /\ Press(u) /\ members[u].role # "super_admin"
  /\ DeleteMember(Me, u) /\ Answered(u, "gone") /\ ButtonStep

\* A request the server refuses, or never gets.
Refused(u) == Press(u) /\ UNCHANGED accountsVars /\ Answered(u, "failed") /\ ButtonStep

ButtonAnswered(a) ==
  /\ a.to \in {"row", "gone", "failed"} /\ busyUserId' = NoUser
  /\ CASE a.to = "row"  -> ShowRow(a.user, a.row)
       [] a.to = "gone" -> members' = [members EXCEPT ![a.user] = Unlisted]
       [] OTHER         -> UNCHANGED members
  /\ UNCHANGED <<profileDialog, tagDialog>>

-----------------------------------------------------------------------------
(* The dialogs: a new account, and the profile of one.                     *)

HandleCreateMember(u, role, status, n) ==
  /\ Uncovered /\ CreateMember(Me, u, role, status, n) /\ Answered(u, "created")
  /\ UNCHANGED <<holds, members, busyUserId, profileDialog, tagDialog, lost>>

Created(a) ==
  /\ a.to = "created" /\ members' = [members EXCEPT ![a.user] = a.row]
  /\ UNCHANGED <<busyUserId, profileDialog, tagDialog>>

OpenProfileDialog(u) ==
  /\ Uncovered /\ Listed(u)
  /\ profileDialog' = [profileDialog EXCEPT !.of = u, !.seen = members[u].qq, !.qq = members[u].qq]
  /\ UNCHANGED <<accountsVars, holds, members, busyUserId, tagDialog, answers, lost>>

\* Escape closes the dialog also while it is being saved.
CloseProfileDialog ==
  /\ profileDialog.of # NoUser /\ profileDialog' = [profileDialog EXCEPT !.of = NoUser]
  /\ UNCHANGED <<accountsVars, holds, members, busyUserId, tagDialog, answers, lost>>

EditNumber(n) ==
  /\ profileDialog.of # NoUser /\ profileDialog.qq # n /\ profileDialog' = [profileDialog EXCEPT !.qq = n]
  /\ UNCHANGED <<accountsVars, holds, members, busyUserId, tagDialog, answers, lost>>

\* Mutant: what the page sends for an empty field, null, removes the number.
SavedNumberMutant(u, n) == n
\* The page sends null, which the server takes for a field that was not sent.
SavedNumber(u, n) == IF n = NoQQ THEN account[u].qq ELSE n

HandleUpdateMemberProfile ==
  LET u == profileDialog.of  n == SavedNumber(u, profileDialog.qq)
  IN /\ u # NoUser /\ ~profileDialog.saving /\ profileDialog' = [profileDialog EXCEPT !.saving = TRUE]
     /\ UpdateMemberProfile(Me, u, n) /\ Answered(u, "profile")
     /\ lost' = IF n = NoQQ /\ n = profileDialog.seen /\ account[u].qq # NoQQ THEN lost \cup {u} ELSE lost
     /\ UNCHANGED <<holds, members, busyUserId, tagDialog>>

\* Whatever dialog is open by then closes.
ProfileSaved(a) ==
  /\ a.to = "profile" /\ ShowRow(a.user, a.row)
  /\ profileDialog' = [profileDialog EXCEPT !.of = NoUser, !.saving = FALSE]
  /\ UNCHANGED <<busyUserId, tagDialog>>

-----------------------------------------------------------------------------
(* Role tags.                                                              *)

OpenTagResetDialog(u) ==
  /\ Uncovered /\ Listed(u) /\ tagDialog' = [of |-> u, listed |-> NoUser]
  /\ Ask([to |-> "tags", user |-> u, row |-> account[u]])
  /\ UNCHANGED <<accountsVars, holds, members, busyUserId, profileDialog, lost>>

CloseTagDialog ==
  /\ tagDialog.of # NoUser /\ tagDialog' = [of |-> NoUser, listed |-> NoUser]
  /\ UNCHANGED <<accountsVars, holds, members, busyUserId, profileDialog, answers, lost>>

TagStatuses(a) ==
  /\ a.to = "tags" /\ tagDialog' = [tagDialog EXCEPT !.listed = a.user]
  /\ UNCHANGED <<members, busyUserId, profileDialog>>

\* What may be picked is what the statuses listed do not, or do, say.
HandleGrantMemberTags(g) ==
  /\ tagDialog.of # NoUser /\ tagDialog.listed # NoUser /\ <<tagDialog.listed, g>> \notin holds
  /\ Exists(tagDialog.of) /\ holds' = holds \cup {<<tagDialog.of, g>>}
  /\ Ask([to |-> "granted", user |-> tagDialog.of, row |-> account[tagDialog.of]])
  /\ UNCHANGED <<accountsVars, members, busyUserId, profileDialog, tagDialog, lost>>

HandleResetMemberTags(g) ==
  /\ tagDialog.of # NoUser /\ tagDialog.listed # NoUser /\ <<tagDialog.listed, g>> \in holds
  /\ Exists(tagDialog.of) /\ holds' = holds \ {<<tagDialog.of, g>>}
  /\ Ask([to |-> "reset", rows |-> AllRows(account, FALSE)])
  /\ UNCHANGED <<accountsVars, members, busyUserId, profileDialog, tagDialog, lost>>

TagsChanged(a) ==
  /\ \/ a.to = "granted" /\ ShowRow(a.user, a.row)
     \/ a.to = "reset" /\ members' = a.rows
  /\ tagDialog' = [of |-> NoUser, listed |-> NoUser] /\ UNCHANGED <<busyUserId, profileDialog>>

-----------------------------------------------------------------------------
Arrives(a) ==
  /\ answers' = answers \ {a}
  /\ ButtonAnswered(a) \/ Created(a) \/ ProfileSaved(a) \/ TagStatuses(a) \/ TagsChanged(a)
  /\ UNCHANGED <<accountsVars, holds, lost>>

\* What a row offers, and what the dialogs do.
RowStep(u) ==
  \/ HandleStatusToggle(u) \/ HandleApproveVerification(u) \/ HandleDeleteMember(u) \/ Refused(u)
  \/ OpenProfileDialog(u) \/ OpenTagResetDialog(u)
  \/ \E role \in Role : HandleRoleChange(u, role)
CreateStep(u) ==
  \E role \in Role, status \in {"active", "disabled"}, n \in QQ \cup {NoQQ} : HandleCreateMember(u, role, status, n)
ProfileStep == CloseProfileDialog \/ HandleUpdateMemberProfile \/ \E n \in QQ \cup {NoQQ} : EditNumber(n)
TagStep == CloseTagDialog \/ \E g \in MemberTag : HandleGrantMemberTags(g) \/ HandleResetMemberTags(g)

MembersNext ==
  \/ OpenMembers \/ ProfileStep \/ TagStep
  \/ \E u \in User : RowStep(u) \/ CreateStep(u)
  \/ \E a \in answers : Arrives(a)

MembersSpec == AccountsInit /\ MembersInit /\ [][MembersNext]_<<accountsVars, membersVars>>

-----------------------------------------------------------------------------
\* Nobody loses their QQ number by an edit of a profile whose dialog never showed
\* it: after tags are reset the page lists no numbers, and the forms filled from
\* its rows are empty.
NumbersSurviveEdits == lost = {}

\* When no answer is on its way, and nobody else is at work, a row shows the role
\* and the status of the account.  (Two requests for one account overtake each other.)
RowsSettle ==
  answers = {} => \A u \in User : Listed(u) => /\ members[u].role = account[u].role
                                                /\ members[u].status = account[u].status

\* The statuses on the dialog are those of the member it names.
TagsOfNamed == tagDialog.of # NoUser /\ tagDialog.listed # NoUser => tagDialog.of = tagDialog.listed
=============================================================================
