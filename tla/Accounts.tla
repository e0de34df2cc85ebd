------------------------------- MODULE Accounts -------------------------------
(***************************************************************************)
(* The accounts of the group: registration and its confirmation by a QQ    *)
(* message, roles and status, sessions and their revocation, password      *)
(* resets by code and the change of the bound QQ number in two steps.      *)
(*                                                                         *)
(* One action per handler of auth.service.ts.  Two are split, because what *)
(* they read may change before they go on: the refresh of a session and    *)
(* the second step of a change of number.  Passwords, names, addresses and *)
(* avatars are left out: a step that depends on one succeeds or fails by   *)
(* choice.  The code's unguessable strings are identities here.            *)
(***************************************************************************)
EXTENDS Naturals, Sequences

CONSTANTS
  User,         \* account ids; an id is never used twice
  QQ,           \* QQ numbers
  NoQQ, NoUser,
  SameSecret,   \* JWT_REFRESH_SECRET is not configured, both kinds are signed alike
  Modes,        \* registration modes administrators switch between
  MaxSessions, MaxCodes   \* bounds on the sessions and challenges ever created

ASSUME AccountsAssumption ==
  /\ NoQQ \notin QQ /\ NoUser \notin User
  /\ MaxSessions \in Nat /\ MaxCodes \in Nat /\ SameSecret \in BOOLEAN
  /\ Modes \subseteq {"disabled", "open", "qq_verification"}

VARIABLES
  upgraded,    \* the server has brought the database up to date and serves requests
  account,     \* the User rows
  mode,        \* the newest RegistrationPolicy row
  session,     \* the sessions issued: whose, and of which type
  expired,     \* the tokens past their time
  revoked,     \* the RevokedToken rows
  refreshing,  \* the refresh tokens between the reads and the write of refreshToken
  code,        \* the VerificationChallenge rows
  rebinding,   \* the `new' challenges between the check of the row and the rest
  loggedOut,   \* history: the tokens handed in at a logout or traded by a refresh
  rebound,     \* history: the challenges that moved an account to a new QQ number
  confirmed,   \* history: the challenges the bound QQ number has confirmed
  overtaken    \* history: the challenges replaced while in `rebinding'

tokenVars == <<session, expired, revoked, refreshing, loggedOut>>
codeVars == <<code, rebinding, rebound, confirmed, overtaken>>
historyVars == <<rebinding, rebound, confirmed, overtaken>>
accountsVars == <<upgraded, account, mode, tokenVars, codeVars>>

Role == {"super_admin", "group_admin", "supervisor", "member"}
AdminRoles == {"super_admin", "group_admin"}
Live == {"pending_verification", "active", "disabled"}
Challenge == [kind : {"verify", "reset", "old", "new"}, user : User \cup {NoUser},
              qq : QQ \cup {NoQQ}, used : BOOLEAN, expired : BOOLEAN,
              verified : BOOLEAN, partner : 0 .. MaxCodes]
Row == [status : Live \cup {"absent", "deleted"}, role : Role, qq : QQ \cup {NoQQ}]

Token == (1 .. MaxSessions) \X {"access", "refresh"}
Issued == DOMAIN session
Codes == DOMAIN code

AccountsTypeOK ==
  /\ upgraded \in BOOLEAN
  /\ account \in [User -> Row]
  /\ mode \in {"disabled", "open", "qq_verification"}
  /\ session \in Seq([user : User, type : {"normal", "recovery"}]) /\ Len(session) <= MaxSessions
  /\ expired \subseteq Token /\ revoked \subseteq Token /\ loggedOut \subseteq Token
  /\ refreshing \subseteq Token
  /\ code \in Seq(Challenge) /\ Len(code) <= MaxCodes
  /\ \A h \in {rebinding, rebound, confirmed, overtaken} : h \subseteq Codes

NewRow(status, role, qq) == [status |-> status, role |-> role, qq |-> qq]

\* A database from before the marker may hold several super administrators.
AccountsInit ==
  /\ upgraded = FALSE
  /\ \E old \in SUBSET User \ {{}} :
       account = [u \in User |-> IF u \in old THEN NewRow("active", "super_admin", NoQQ)
                                              ELSE NewRow("absent", "member", NoQQ)]
  /\ mode = "open"
  /\ session = <<>> /\ expired = {} /\ revoked = {} /\ refreshing = {} /\ loggedOut = {}
  /\ code = <<>> /\ rebinding = {} /\ rebound = {} /\ confirmed = {} /\ overtaken = {}

Exists(u) == account[u].status \in Live
SuperAdmins == {u \in User : Exists(u) /\ account[u].role = "super_admin"}

-----------------------------------------------------------------------------
(* Start-up                                                                *)

\* One of several super administrators, the oldest, stays; the others become
\* group administrators.  Ages are not modelled: any one may be the oldest.
Upgrade ==
  /\ ~upgraded
  /\ upgraded' = TRUE
  /\ \E canonical \in SuperAdmins :
       account' = [u \in User |-> IF u \in SuperAdmins \ {canonical}
                                    THEN [account[u] EXCEPT !.role = "group_admin"]
                                    ELSE account[u]]
  /\ UNCHANGED <<mode, tokenVars, codeVars>>

-----------------------------------------------------------------------------
(* What handlers check                                                     *)

\* authenticate and requireRole read the caller's row, not the token's claims.
Signed(actor, roles) == /\ upgraded
                        /\ account[actor].status = "active"
                        /\ account[actor].role \in roles

QQFree(n, but) == n = NoQQ \/ \A u \in User \ {but} : Exists(u) => account[u].qq # n

MayTouch(actor, u) ==
  account[u].role = "super_admin" => account[actor].role = "super_admin"

-----------------------------------------------------------------------------
(* Sessions                                                                *)

CanIssue == Len(session) < MaxSessions
OpenSession(u, type) == session' = Append(session, [user |-> u, type |-> type])

\* A token whose signature and time verifyToken or verifyRefreshToken accepts.
Verifies(t, as) ==
  /\ t[1] \in Issued
  /\ t \notin expired
  /\ t[2] = as \/ SameSecret \/ (as = "access" /\ session[t[1]].type = "recovery")

Accepted(t) == /\ Verifies(t, "access")
               /\ t \notin revoked
               /\ account[session[t[1]].user].status = "active"

Refreshable(t) == /\ Verifies(t, "refresh")
                  /\ session[t[1]].type = "normal"
                  /\ t \notin revoked
                  /\ account[session[t[1]].user].status = "active"

\* A recovery session has one token, signed with the access secret.
Tokens(s) == IF session[s].type = "recovery" THEN {<<s, "access">>}
                                             ELSE {<<s, "access">>, <<s, "refresh">>}

RecoverySession(u) ==
  /\ Signed(u, {"super_admin"}) /\ CanIssue
  /\ OpenSession(u, "recovery")
  /\ UNCHANGED <<upgraded, account, mode, expired, revoked, refreshing, loggedOut, codeVars>>

RefreshRead(t) ==
  /\ upgraded /\ t \in Token \ refreshing
  /\ Refreshable(t)
  /\ refreshing' = refreshing \cup {t}
  /\ UNCHANGED <<upgraded, account, mode, session, expired, revoked, loggedOut, codeVars>>

RefreshWrite(t) ==
  /\ t \in refreshing /\ CanIssue
  /\ refreshing' = refreshing \ {t}
  /\ OpenSession(session[t[1]].user, "normal")
  /\ revoked' = revoked \cup {t}
  /\ loggedOut' = loggedOut \cup {t}
  /\ UNCHANGED <<upgraded, account, mode, expired, codeVars>>

Logout(t) ==
  /\ upgraded /\ t \in Token
  /\ Accepted(t)
  /\ revoked' = revoked \cup {t}
  /\ loggedOut' = loggedOut \cup {t}
  /\ UNCHANGED <<upgraded, account, mode, session, expired, refreshing, codeVars>>

Expire(t) ==
  /\ t \in Token \ expired /\ t[1] \in Issued /\ t \in Tokens(t[1])
  /\ expired' = expired \cup {t}
  /\ UNCHANGED <<upgraded, account, mode, session, revoked, refreshing, loggedOut, codeVars>>

CleanupMutant == revoked' = {}

\* A revocation is kept until the token it revokes has expired by itself.
Cleanup == revoked' = revoked \ expired

CleanupExpiredRevokedTokens ==
  /\ upgraded /\ revoked \cap expired # {}
  /\ Cleanup
  /\ UNCHANGED <<upgraded, account, mode, session, expired, refreshing, loggedOut, codeVars>>

-----------------------------------------------------------------------------
(* Challenges                                                              *)

NewCode(kind, u, n, partner) ==
  [kind |-> kind, user |-> u, qq |-> n, used |-> FALSE, expired |-> FALSE,
   verified |-> FALSE, partner |-> partner]

HasRoom(n) == Len(code) + n <= MaxCodes
Spent(c) == [c EXCEPT !.used = TRUE]
\* Marks the rows of a set used, as one updateMany does.
Spend(cs) == [c \in Codes |-> IF c \in cs THEN Spent(code[c]) ELSE code[c]]
Unused(u, kinds) == {c \in Codes : code[c].user = u /\ ~code[c].used /\ code[c].kind \in kinds}

\* A row that can still be redeemed by someone who types its code.
Redeemable(c, kind) == code[c].kind = kind /\ ~code[c].used /\ ~code[c].expired

ExpireCode(c) ==
  /\ code[c].kind # "verify" /\ ~code[c].expired
  /\ code' = [code EXCEPT ![c].expired = TRUE]
  /\ UNCHANGED <<upgraded, account, mode, tokenVars, historyVars>>

-----------------------------------------------------------------------------
(* Registration and log-in                                                 *)

RegisterUser(u, n) ==
  /\ upgraded /\ mode # "disabled"
  /\ account[u].status = "absent" /\ QQFree(n, u)
  /\ \/ /\ mode = "qq_verification" /\ HasRoom(1)
        /\ account' = [account EXCEPT ![u] = NewRow("pending_verification", "member", n)]
        /\ code' = Append(code, NewCode("verify", u, n, 0))
        /\ UNCHANGED session
     \/ /\ mode = "open" /\ CanIssue
        /\ account' = [account EXCEPT ![u] = NewRow("active", "member", n)]
        /\ OpenSession(u, "normal")
        /\ UNCHANGED code
  /\ UNCHANGED <<upgraded, mode, expired, revoked, refreshing, loggedOut, historyVars>>

\* A pending account is shown its newest unused challenge, of any kind, or a new one.
LoginUser(u) ==
  /\ upgraded
  /\ \/ /\ account[u].status = "pending_verification"
        /\ {c \in Codes : code[c].user = u /\ ~code[c].used} = {} /\ HasRoom(1)
        /\ code' = Append(code, NewCode("verify", u, account[u].qq, 0))
        /\ UNCHANGED session
     \/ /\ account[u].status = "active" /\ CanIssue
        /\ OpenSession(u, "normal")
        /\ UNCHANGED code
  /\ UNCHANGED <<upgraded, account, mode, expired, revoked, refreshing, loggedOut, historyVars>>

\* The bot sends the number of the member who typed the command; the web page sends none.
VerifyByQQ(c, n) ==
  LET u == code[c].user IN
  /\ upgraded /\ ~code[c].used /\ u # NoUser /\ CanIssue
  /\ account' = [account EXCEPT ![u].status = "active",
                                ![u].qq = IF n = NoQQ THEN @ ELSE n]
  /\ code' = [code EXCEPT ![c].used = TRUE, ![c].user = NoUser]
  /\ OpenSession(u, "normal")
  /\ UNCHANGED <<upgraded, mode, expired, revoked, refreshing, loggedOut, historyVars>>

UpdateRegistrationPolicy(actor, m) ==
  /\ Signed(actor, AdminRoles)
  /\ mode' = m
  /\ UNCHANGED <<upgraded, account, tokenVars, codeVars>>

-----------------------------------------------------------------------------
(* Password reset                                                          *)

RequestPasswordReset(u) ==
  /\ upgraded /\ Exists(u) /\ HasRoom(1)
  /\ code' = Append(Spend(Unused(u, {"reset"})), NewCode("reset", u, account[u].qq, 0))
  /\ UNCHANGED <<upgraded, account, mode, tokenVars, historyVars>>

\* Confirmed twice, the challenge keeps the token it has.
VerifyPasswordResetByQQ(c, n) ==
  LET u == code[c].user IN
  /\ upgraded /\ Redeemable(c, "reset") /\ u # NoUser
  /\ account[u].qq # NoQQ => account[u].qq = n
  /\ ~code[c].verified
  /\ code' = [code EXCEPT ![c].verified = TRUE]
  /\ UNCHANGED <<upgraded, account, mode, tokenVars, historyVars>>

\* With the token a QQ message unlocked, or with the code itself.
ConfirmPasswordReset(c, byToken) ==
  /\ upgraded /\ Redeemable(c, "reset") /\ code[c].user # NoUser
  /\ byToken => code[c].verified
  /\ code' = [code EXCEPT ![c].used = TRUE]
  /\ UNCHANGED <<upgraded, account, mode, tokenVars, historyVars>>

-----------------------------------------------------------------------------
(* A new QQ number, confirmed by the old one and then by the new one       *)

RequestQQRebind(u, n) ==
  LET earlier == Spend(Unused(u, {"old", "new"}))
      withOld == Append(earlier, NewCode("old", u, account[u].qq, 0))
      old == Len(withOld) IN
  /\ Signed(u, Role)
  /\ account[u].qq \notin {NoQQ, n} /\ QQFree(n, u) /\ HasRoom(2)
  /\ code' = Append(withOld, NewCode("new", u, n, old))
  /\ overtaken' = overtaken \cup (rebinding \cap Unused(u, {"new"}))
  /\ UNCHANGED <<upgraded, account, mode, tokenVars, rebinding, rebound, confirmed>>

MayRedeemRebindMutant(c, kind, n) == code[c].kind = kind /\ ~code[c].expired /\ code[c].qq = n

MayRedeemRebind(c, kind, n) == Redeemable(c, kind) /\ code[c].qq = n

VerifyRebindOld(c, n) ==
  /\ upgraded /\ MayRedeemRebind(c, "old", n) /\ code[c].user # NoUser
  /\ code' = [code EXCEPT ![c].used = TRUE]
  /\ confirmed' = confirmed \cup {c}
  /\ UNCHANGED <<upgraded, account, mode, tokenVars, rebinding, rebound, overtaken>>

CheckRebindNew(c, n) ==
  /\ upgraded /\ MayRedeemRebind(c, "new", n) /\ code[c].user # NoUser
  /\ c \notin rebinding
  /\ rebinding' = rebinding \cup {c}
  /\ UNCHANGED <<upgraded, account, mode, code, tokenVars, rebound, confirmed, overtaken>>

\* The old challenge of the same request has been used by the same account in
\* time: the `new' one is not looked at again.
VerifyRebindNew(c) ==
  LET u == code[c].user
      old == code[c].partner
      agreed == /\ u # NoUser /\ code[old].user = u
                /\ code[old].used /\ ~code[old].expired
                /\ QQFree(code[c].qq, u) IN
  /\ c \in rebinding
  /\ rebinding' = rebinding \ {c}
  /\ IF agreed
       THEN /\ account' = [account EXCEPT ![u].qq = code[c].qq]
            /\ code' = Spend({c, old})
            /\ rebound' = rebound \cup {c}
       ELSE UNCHANGED <<account, code, rebound>>
  /\ UNCHANGED <<upgraded, mode, tokenVars, confirmed, overtaken>>

-----------------------------------------------------------------------------
(* Administration                                                          *)

CreateMember(actor, u, role, status, n) ==
  /\ Signed(actor, AdminRoles \cup {"supervisor"})
  /\ account[u].status = "absent" /\ QQFree(n, u) /\ status \in {"active", "disabled"}
  /\ account[actor].role = "supervisor" => role = "member"
  /\ role = "super_admin" => account[actor].role = "super_admin" /\ SuperAdmins = {}
  /\ account' = [account EXCEPT ![u] = NewRow(status, role, n)]
  /\ UNCHANGED <<upgraded, mode, tokenVars, codeVars>>

UpdateMemberProfile(actor, u, n) ==
  /\ Signed(actor, AdminRoles) /\ Exists(u)
  /\ MayTouch(actor, u) /\ QQFree(n, u)
  /\ account' = [account EXCEPT ![u].qq = n]
  /\ UNCHANGED <<upgraded, mode, tokenVars, codeVars>>

MayChangeRoleMutant(actor, u, role) ==
  /\ "super_admin" \in {account[u].role, role} => account[actor].role = "super_admin"
  /\ role = "super_admin" => SuperAdmins \subseteq {u}

MayChangeRole(actor, u, role) ==
  /\ actor = u /\ account[actor].role = "super_admin" => role = "super_admin"
  /\ "super_admin" \in {account[u].role, role} => account[actor].role = "super_admin"
  /\ role = "super_admin" => SuperAdmins \subseteq {u}

UpdateUserRole(actor, u, role) ==
  /\ Signed(actor, AdminRoles) /\ Exists(u)
  /\ MayChangeRole(actor, u, role)
  /\ account' = [account EXCEPT ![u].role = role]
  /\ UNCHANGED <<upgraded, mode, tokenVars, codeVars>>

UpdateUserStatus(actor, u, status) ==
  /\ Signed(actor, AdminRoles) /\ Exists(u) /\ MayTouch(actor, u)
  /\ account' = [account EXCEPT ![u].status = status]
  /\ UNCHANGED <<upgraded, mode, tokenVars, codeVars>>

ApproveUserVerification(actor, u) ==
  /\ Signed(actor, AdminRoles) /\ account[u].status = "pending_verification"
  /\ account' = [account EXCEPT ![u].status = "active"]
  /\ code' = [c \in Codes |-> IF code[c].user = u /\ ~code[c].used
                                THEN [Spent(code[c]) EXCEPT !.user = NoUser] ELSE code[c]]
  /\ UNCHANGED <<upgraded, mode, tokenVars, historyVars>>

\* The account's projects, tasks and records pass to the actor in the same transaction.
DeleteMember(actor, u) ==
  /\ Signed(actor, AdminRoles) /\ Exists(u)
  /\ account[u].role # "super_admin" /\ actor # u
  /\ account' = [account EXCEPT ![u] = NewRow("deleted", "member", NoQQ)]
  /\ code' = [c \in Codes |-> IF code[c].user = u THEN [code[c] EXCEPT !.user = NoUser] ELSE code[c]]
  /\ UNCHANGED <<upgraded, mode, tokenVars, historyVars>>

-----------------------------------------------------------------------------
TokenStep(t) == RefreshRead(t) \/ RefreshWrite(t) \/ Logout(t) \/ Expire(t)

CodeStep(c) ==
  \/ ExpireCode(c)
  \/ \E n \in QQ \cup {NoQQ} : VerifyByQQ(c, n)
  \/ \E n \in QQ : VerifyPasswordResetByQQ(c, n) \/ VerifyRebindOld(c, n) \/ CheckRebindNew(c, n)
  \/ VerifyRebindNew(c)
  \/ \E byToken \in BOOLEAN : ConfirmPasswordReset(c, byToken)

UserStep(u) ==
  \/ RecoverySession(u) \/ LoginUser(u) \/ RequestPasswordReset(u)
  \/ \E n \in QQ \cup {NoQQ} : RegisterUser(u, n)
  \/ \E n \in QQ : RequestQQRebind(u, n)

AdminStep(actor, u) ==
  \/ \E role \in Role, n \in QQ \cup {NoQQ}, status \in Live : CreateMember(actor, u, role, status, n)
  \/ \E n \in QQ \cup {NoQQ} : UpdateMemberProfile(actor, u, n)
  \/ \E role \in Role : UpdateUserRole(actor, u, role)
  \/ \E status \in Live : UpdateUserStatus(actor, u, status)
  \/ ApproveUserVerification(actor, u)
  \/ DeleteMember(actor, u)

AccountsNext ==
  \/ Upgrade \/ CleanupExpiredRevokedTokens
  \/ \E t \in Token : TokenStep(t)
  \/ \E c \in Codes : CodeStep(c)
  \/ \E u \in User : UserStep(u)
  \/ \E actor, u \in User : AdminStep(actor, u)
  \/ \E actor \in User, m \in Modes : UpdateRegistrationPolicy(actor, m)

AccountsSpec == AccountsInit /\ [][AccountsNext]_accountsVars

-----------------------------------------------------------------------------
(* What accounts promise                                                   *)

\* From the upgrade on there is exactly one super administrator, whatever
\* administrators do to roles, accounts and each other, whoever they are by now.
OneSuperAdmin == upgraded => \E u \in User : SuperAdmins = {u}

\* A token handed in at a logout, or traded for a new session, is accepted
\* nowhere again: the clean-up may drop its revocation only when its own time is up.
LoggedOutStaysOut == \A t \in loggedOut : ~Accepted(t) /\ ~Refreshable(t)

\* An account moves to a new number only after its old number has confirmed the
\* same request.  (The code breaks this: see RebindNeedsOldNumber.)
RebindIsConfirmed == \A c \in rebound : code[c].partner \in confirmed

\* It never does without, except for a request replaced by a later one while
\* the confirmation of its new number was being served: the replacement marks
\* the old number's challenge used, which the rest of the handler takes for a
\* confirmation.
RebindNeedsOldNumber == \A c \in rebound \ overtaken : code[c].partner \in confirmed

\* No two accounts are bound to the same QQ number.
QQNumbersUnique == \A u, v \in User : Exists(u) /\ Exists(v) /\ account[u].qq = account[v].qq
                                        => u = v \/ account[u].qq = NoQQ

\* An account an administrator disabled is active again only by an administrator.
\* (Checked as a step property: the bot's confirmation does not look at the status.)
DisabledStaysDisabled ==
  [][\A u \in User : account[u].status = "disabled" /\ account'[u].status = "active"
       => \E actor \in User : UpdateUserStatus(actor, u, "active")]_accountsVars
=============================================================================
