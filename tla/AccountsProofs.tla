---------------------------- MODULE AccountsProofs ----------------------------
(***************************************************************************)
(* Theorems about the accounts, what the browser and the members page show *)
(* of them, and the captcha in front of them, for any accounts, QQ         *)
(* numbers, tokens, challenges and requests.                               *)
(***************************************************************************)
EXTENDS BrowserSession, CaptchaGate, MembersPage, SequenceTheorems, TLAPS

-----------------------------------------------------------------------------
(* Types                                                                   *)

Session == [user : User, type : {"normal", "recovery"}]

LEMMA OpensSession ==
  ASSUME AccountsTypeOK, NEW u \in User, NEW type \in {"normal", "recovery"},
         CanIssue, OpenSession(u, type)
  PROVE  session' \in Seq(Session) /\ Len(session') <= MaxSessions
BY AccountsAssumption DEF AccountsTypeOK, Session, CanIssue, OpenSession

LEMMA IsChallenge ==
  ASSUME NEW kind \in {"verify", "reset", "old", "new"}, NEW u \in User \cup {NoUser},
         NEW n \in QQ \cup {NoQQ}, NEW partner \in 0 .. MaxCodes
  PROVE  NewCode(kind, u, n, partner) \in Challenge
BY DEF NewCode, Challenge

\* A sequence of challenges some of which are changed is one.
LEMMA ChangedCodes ==
  ASSUME AccountsTypeOK, NEW f, f = [c \in Codes |-> f[c]],
         \A c \in Codes : f[c] \in Challenge
  PROVE  f \in Seq(Challenge) /\ Len(f) = Len(code)
<1>1. code \in Seq(Challenge) /\ Codes = 1 .. Len(code) /\ Len(code) \in Nat
  BY DEF AccountsTypeOK, Codes
<1>2. f \in [1 .. Len(code) -> Challenge]
  BY <1>1
<1> QED
  BY <1>1, <1>2

LEMMA CodeTypes ==
  ASSUME AccountsTypeOK
  PROVE  /\ Codes = 1 .. Len(code) /\ Len(code) \in Nat
         /\ \A c \in Codes : code[c] \in Challenge
BY DEF AccountsTypeOK, Codes

LEMMA ChallengeEdits ==
  ASSUME NEW ch \in Challenge
  PROVE  /\ Spent(ch) \in Challenge
         /\ [ch EXCEPT !.expired = TRUE] \in Challenge
         /\ [ch EXCEPT !.verified = TRUE] \in Challenge
         /\ [ch EXCEPT !.user = NoUser] \in Challenge
         /\ [Spent(ch) EXCEPT !.user = NoUser] \in Challenge
         /\ ch.user \in User \cup {NoUser} /\ ch.qq \in QQ \cup {NoQQ}
BY DEF Spent, Challenge

LEMMA SpendType ==
  ASSUME AccountsTypeOK, NEW cs
  PROVE  /\ Spend(cs) \in Seq(Challenge) /\ Len(Spend(cs)) = Len(code)
         /\ \A c \in Codes : Spend(cs)[c] = IF c \in cs THEN Spent(code[c]) ELSE code[c]
<1>1. \A c \in Codes : code[c] \in Challenge /\ Spent(code[c]) \in Challenge
  BY CodeTypes, ChallengeEdits
<1>2. \A c \in Codes : Spend(cs)[c] \in Challenge
  BY <1>1 DEF Spend
<1> QED
  BY <1>2, ChangedCodes DEF Spend

LEMMA SpendFields ==
  ASSUME AccountsTypeOK, NEW cs, NEW c \in Codes
  PROVE  /\ Spend(cs)[c].kind = code[c].kind /\ Spend(cs)[c].partner = code[c].partner
         /\ Spend(cs)[c].user = code[c].user
         /\ Spend(cs)[c].used <=> code[c].used \/ c \in cs
         /\ c \notin cs => Spend(cs)[c] = code[c]
<1>1. /\ Spent(code[c]).kind = code[c].kind /\ Spent(code[c]).partner = code[c].partner
      /\ Spent(code[c]).user = code[c].user /\ Spent(code[c]).used
  BY CodeTypes DEF Spent, Challenge
<1>2. Spend(cs)[c] = IF c \in cs THEN Spent(code[c]) ELSE code[c]
  BY SpendType
<1> QED
  BY <1>1, <1>2

LEMMA AppendType ==
  ASSUME NEW f \in Seq(Challenge), NEW ch \in Challenge
  PROVE  /\ Append(f, ch) \in Seq(Challenge) /\ Len(Append(f, ch)) = Len(f) + 1
         /\ \A c \in 1 .. Len(f) : Append(f, ch)[c] = f[c]
         /\ Append(f, ch)[Len(f) + 1] = ch
OBVIOUS

\* What the steps that touch one kind of rows leave to be shown.
LEMMA SameSessionsType ==
  ASSUME AccountsTypeOK, UNCHANGED <<upgraded, mode, tokenVars>>,
         account' \in [User -> Row],
         code' \in Seq(Challenge), Len(code') <= MaxCodes, Len(code') >= Len(code),
         \A h \in {rebinding', rebound', confirmed', overtaken'} : h \subseteq Codes
  PROVE  AccountsTypeOK'
<1>1. Codes \subseteq Codes'
  BY CodeTypes DEF Codes
<1> QED
  BY <1>1 DEF AccountsTypeOK, tokenVars

LEMMA AdminType ==
  ASSUME AccountsTypeOK, NEW actor \in User, NEW u \in User, AdminStep(actor, u)
  PROVE  AccountsTypeOK'
<1>1. ASSUME UNCHANGED <<upgraded, mode, tokenVars, codeVars>>, account' \in [User -> Row]
      PROVE  AccountsTypeOK'
  BY <1>1 DEF AccountsTypeOK, tokenVars, codeVars, Codes
<1>2. ASSUME NEW held \in Row, account' = [account EXCEPT ![u] = held],
             UNCHANGED <<upgraded, mode, tokenVars, codeVars>>
      PROVE  AccountsTypeOK'
  BY <1>1, <1>2 DEF AccountsTypeOK
<1>acc. account[u] \in Row
  BY DEF AccountsTypeOK
<1>4. ASSUME NEW role \in Role, NEW n \in QQ \cup {NoQQ}, NEW status \in Live,
             CreateMember(actor, u, role, status, n)
      PROVE  AccountsTypeOK'
  <2>1. NewRow(status, role, n) \in Row
    BY DEF NewRow, Row
  <2> QED
    BY <1>2, <1>4, <2>1 DEF CreateMember
<1>5. ASSUME NEW n \in QQ \cup {NoQQ}, UpdateMemberProfile(actor, u, n) PROVE AccountsTypeOK'
  <2>1. [account[u] EXCEPT !.qq = n] \in Row
    BY <1>acc DEF Row
  <2>2. account' = [account EXCEPT ![u] = [account[u] EXCEPT !.qq = n]]
    BY <1>5 DEF UpdateMemberProfile, AccountsTypeOK
  <2> QED
    BY <1>2, <1>5, <2>1, <2>2 DEF UpdateMemberProfile
<1>6. ASSUME NEW role \in Role, UpdateUserRole(actor, u, role) PROVE AccountsTypeOK'
  <2>1. [account[u] EXCEPT !.role = role] \in Row
    BY <1>acc DEF Row
  <2>2. account' = [account EXCEPT ![u] = [account[u] EXCEPT !.role = role]]
    BY <1>6 DEF UpdateUserRole, AccountsTypeOK
  <2> QED
    BY <1>2, <1>6, <2>1, <2>2 DEF UpdateUserRole
<1>7. ASSUME NEW status \in Live, UpdateUserStatus(actor, u, status) PROVE AccountsTypeOK'
  <2>1. [account[u] EXCEPT !.status = status] \in Row
    BY <1>acc DEF Row
  <2>2. account' = [account EXCEPT ![u] = [account[u] EXCEPT !.status = status]]
    BY <1>7 DEF UpdateUserStatus, AccountsTypeOK
  <2> QED
    BY <1>2, <1>7, <2>1, <2>2 DEF UpdateUserStatus
<1>3. ASSUME ApproveUserVerification(actor, u) \/ DeleteMember(actor, u)
      PROVE  AccountsTypeOK'
  <2>1. /\ account' \in [User -> Row]
        /\ UNCHANGED <<upgraded, mode, tokenVars, historyVars>>
    BY <1>3 DEF ApproveUserVerification, DeleteMember, AccountsTypeOK, Row, NewRow, Live, Role
  <2>2. /\ code' = [c \in Codes |-> code'[c]]
        /\ \A c \in Codes : code'[c] \in {code[c], [code[c] EXCEPT !.user = NoUser],
                                         [Spent(code[c]) EXCEPT !.user = NoUser]}
    BY <1>3 DEF ApproveUserVerification, DeleteMember
  <2>3. \A c \in Codes : code'[c] \in Challenge
    BY <2>2, CodeTypes, ChallengeEdits
  <2>4. code' \in Seq(Challenge) /\ Len(code') = Len(code)
    BY <2>2, <2>3, ChangedCodes
  <2>5. \A h \in {rebinding', rebound', confirmed', overtaken'} : h \subseteq Codes
    BY <2>1 DEF AccountsTypeOK, historyVars
  <2> QED
    BY <2>1, <2>4, <2>5, SameSessionsType DEF AccountsTypeOK
<1> QED
  BY <1>3, <1>4, <1>5, <1>6, <1>7 DEF AdminStep

\* Any step that leaves the rows, the sessions and the challenges well typed.
LEMMA TypesFollow ==
  ASSUME AccountsTypeOK, UNCHANGED <<upgraded, mode, expired, revoked, refreshing, loggedOut>>,
         account' \in [User -> Row],
         session' \in Seq(Session), Len(session') <= MaxSessions,
         code' \in Seq(Challenge), Len(code') <= MaxCodes, Len(code') >= Len(code),
         \A h \in {rebinding', rebound', confirmed', overtaken'} : h \subseteq Codes
  PROVE  AccountsTypeOK'
<1>1. Codes \subseteq Codes'
  BY CodeTypes DEF Codes
<1> QED
  BY <1>1 DEF AccountsTypeOK, Session

LEMMA UserType ==
  ASSUME AccountsTypeOK, NEW u \in User, UserStep(u)
  PROVE  AccountsTypeOK'
<1>1. /\ session \in Seq(Session) /\ Len(session) <= MaxSessions
      /\ code \in Seq(Challenge) /\ Len(code) <= MaxCodes /\ Len(code) \in Nat
      /\ account \in [User -> Row] /\ account[u].qq \in QQ \cup {NoQQ}
      /\ \A h \in {rebinding, rebound, confirmed, overtaken} : h \subseteq Codes
      /\ rebinding \subseteq Codes /\ overtaken \subseteq Codes
      /\ MaxCodes \in Nat
  BY AccountsAssumption DEF AccountsTypeOK, Session, Row
<1>2. \A kind \in {"verify", "reset", "old", "new"}, n \in QQ \cup {NoQQ} :
        NewCode(kind, u, n, 0) \in Challenge
  BY <1>1, IsChallenge
<1>3. CASE RecoverySession(u)
  BY <1>1, <1>3, OpensSession, TypesFollow DEF RecoverySession, codeVars
<1>4. CASE LoginUser(u)
  <2>1. UNCHANGED <<upgraded, account, mode, expired, revoked, refreshing, loggedOut, historyVars>>
    BY <1>4 DEF LoginUser
  <2>2. CASE code' = Append(code, NewCode("verify", u, account[u].qq, 0))
             /\ HasRoom(1) /\ UNCHANGED session
    BY <1>1, <1>2, <2>1, <2>2, AppendType, TypesFollow DEF HasRoom, historyVars
  <2>3. CASE CanIssue /\ OpenSession(u, "normal") /\ UNCHANGED code
    BY <1>1, <2>1, <2>3, OpensSession, TypesFollow DEF historyVars
  <2> QED
    BY <1>4, <2>2, <2>3 DEF LoginUser
<1>5. CASE RequestPasswordReset(u)
  <2> DEFINE f == Spend(Unused(u, {"reset"}))
  <2>1. /\ code' = Append(f, NewCode("reset", u, account[u].qq, 0)) /\ HasRoom(1)
        /\ UNCHANGED <<upgraded, account, mode, tokenVars, historyVars>>
    BY <1>5 DEF RequestPasswordReset
  <2>2. f \in Seq(Challenge) /\ Len(f) = Len(code)
    BY SpendType
  <2> HIDE DEF f
  <2> QED
    BY <1>1, <1>2, <2>1, <2>2, AppendType, TypesFollow DEF HasRoom, tokenVars, historyVars
<1>6. ASSUME NEW n \in QQ \cup {NoQQ}, RegisterUser(u, n) PROVE AccountsTypeOK'
  <2>1. UNCHANGED <<upgraded, mode, expired, revoked, refreshing, loggedOut, historyVars>>
    BY <1>6 DEF RegisterUser
  <2>2. account' \in [User -> Row]
    <3>1. \A status \in Live : NewRow(status, "member", n) \in Row
      BY DEF NewRow, Row, Role
    <3> QED
      BY <1>1, <1>6, <3>1 DEF RegisterUser, Live
  <2>3. CASE code' = Append(code, NewCode("verify", u, n, 0)) /\ HasRoom(1) /\ UNCHANGED session
    BY <1>1, <1>2, <2>1, <2>2, <2>3, AppendType, TypesFollow DEF HasRoom, historyVars
  <2>4. CASE CanIssue /\ OpenSession(u, "normal") /\ UNCHANGED code
    BY <1>1, <2>1, <2>2, <2>4, OpensSession, TypesFollow DEF historyVars
  <2> QED
    BY <1>6, <2>3, <2>4 DEF RegisterUser
<1>7. ASSUME NEW n \in QQ, RequestQQRebind(u, n) PROVE AccountsTypeOK'
  <2> DEFINE f == Spend(Unused(u, {"old", "new"}))
             g == Append(f, NewCode("old", u, account[u].qq, 0))
  <2>1. /\ code' = Append(g, NewCode("new", u, n, Len(g))) /\ HasRoom(2)
        /\ overtaken' = overtaken \cup (rebinding \cap Unused(u, {"new"}))
        /\ UNCHANGED <<upgraded, account, mode, tokenVars, rebinding, rebound, confirmed>>
    BY <1>7 DEF RequestQQRebind
  <2>2. f \in Seq(Challenge) /\ Len(f) = Len(code)
    BY SpendType
  <2> HIDE DEF f
  <2>3. g \in Seq(Challenge) /\ Len(g) = Len(code) + 1
    BY <1>1, <1>2, <2>2, AppendType
  <2> HIDE DEF g
  <2>4. NewCode("new", u, n, Len(g)) \in Challenge
    BY <1>1, <2>1, <2>3, IsChallenge DEF HasRoom
  <2>5. code' \in Seq(Challenge) /\ Len(code') = Len(code) + 2
    BY <1>1, <2>1, <2>3, <2>4, AppendType
  <2>6. \A h \in {rebinding', rebound', confirmed', overtaken'} : h \subseteq Codes
    BY <1>1, <2>1
  <2> QED
    BY <1>1, <2>1, <2>5, <2>6, TypesFollow DEF HasRoom, tokenVars
<1> QED
  BY <1>3, <1>4, <1>5, <1>6, <1>7 DEF UserStep

LEMMA CodeType ==
  ASSUME AccountsTypeOK, NEW c \in Codes, CodeStep(c)
  PROVE  AccountsTypeOK'
<1>1. /\ session \in Seq(Session) /\ Len(session) <= MaxSessions
      /\ code \in Seq(Challenge) /\ Len(code) <= MaxCodes /\ Len(code) \in Nat
      /\ account \in [User -> Row]
      /\ \A h \in {rebinding, rebound, confirmed, overtaken} : h \subseteq Codes
      /\ rebinding \subseteq Codes /\ rebound \subseteq Codes /\ confirmed \subseteq Codes
  BY CodeTypes DEF AccountsTypeOK, Session
<1>2. code[c] \in Challenge /\ code[c].user \in User \cup {NoUser} /\ code[c].qq \in QQ \cup {NoQQ}
  BY CodeTypes, ChallengeEdits
<1>3. ASSUME NEW to \in Challenge, code' = [code EXCEPT ![c] = to]
      PROVE  code' \in Seq(Challenge) /\ Len(code') = Len(code)
  <2>1. code' = [x \in Codes |-> code'[x]] /\ \A x \in Codes : code'[x] \in Challenge
    BY <1>3, CodeTypes DEF Codes
  <2> QED
    BY <2>1, ChangedCodes
<1>4. CASE ExpireCode(c)
  <2>1. code' = [code EXCEPT ![c] = [code[c] EXCEPT !.expired = TRUE]]
    BY <1>4 DEF ExpireCode, Codes
  <2>2. code' \in Seq(Challenge) /\ Len(code') = Len(code)
    BY <1>2, <1>3, <2>1, ChallengeEdits
  <2> QED
    BY <1>1, <1>4, <2>2, TypesFollow DEF ExpireCode, tokenVars, historyVars
<1>5. ASSUME NEW n \in QQ \cup {NoQQ}, VerifyByQQ(c, n) PROVE AccountsTypeOK'
  <2>1. code' = [code EXCEPT ![c] = [Spent(code[c]) EXCEPT !.user = NoUser]]
    BY <1>5 DEF VerifyByQQ, Codes, Spent
  <2>2. code' \in Seq(Challenge) /\ Len(code') = Len(code)
    BY <1>2, <1>3, <2>1, ChallengeEdits
  <2>3. session' \in Seq(Session) /\ Len(session') <= MaxSessions
    BY <1>2, <1>5, OpensSession DEF VerifyByQQ
  <2>4. account' \in [User -> Row]
    <3> DEFINE u == code[c].user
               to == [account[u] EXCEPT !.status = "active",
                                        !.qq = IF n = NoQQ THEN @ ELSE n]
    <3>1. u \in User /\ account[u] \in Row
      BY <1>1, <1>2, <1>5 DEF VerifyByQQ
    <3>2. account' = [account EXCEPT ![u] = to]
      BY <1>1, <1>5, <3>1 DEF VerifyByQQ, Row
    <3>3. to \in Row
      BY <3>1 DEF Row, Live
    <3> HIDE DEF to, u
    <3> QED
      BY <1>1, <3>1, <3>2, <3>3
  <2> QED
    BY <1>1, <1>5, <2>2, <2>3, <2>4, TypesFollow DEF VerifyByQQ, historyVars
<1>6. ASSUME NEW n \in QQ, VerifyPasswordResetByQQ(c, n) PROVE AccountsTypeOK'
  <2>1. code' = [code EXCEPT ![c] = [code[c] EXCEPT !.verified = TRUE]]
    BY <1>6 DEF VerifyPasswordResetByQQ, Codes
  <2>2. code' \in Seq(Challenge) /\ Len(code') = Len(code)
    BY <1>2, <1>3, <2>1, ChallengeEdits
  <2> QED
    BY <1>1, <1>6, <2>2, TypesFollow DEF VerifyPasswordResetByQQ, tokenVars, historyVars
<1>7. ASSUME NEW byToken \in BOOLEAN, ConfirmPasswordReset(c, byToken) PROVE AccountsTypeOK'
  <2>1. code' = [code EXCEPT ![c] = Spent(code[c])]
    BY <1>7 DEF ConfirmPasswordReset, Codes, Spent
  <2>2. code' \in Seq(Challenge) /\ Len(code') = Len(code)
    BY <1>2, <1>3, <2>1, ChallengeEdits
  <2> QED
    BY <1>1, <1>7, <2>2, TypesFollow DEF ConfirmPasswordReset, tokenVars, historyVars
<1>8. ASSUME NEW n \in QQ, VerifyRebindOld(c, n) PROVE AccountsTypeOK'
  <2>1. code' = [code EXCEPT ![c] = Spent(code[c])]
    BY <1>8 DEF VerifyRebindOld, Codes, Spent
  <2>2. code' \in Seq(Challenge) /\ Len(code') = Len(code)
    BY <1>2, <1>3, <2>1, ChallengeEdits
  <2> QED
    BY <1>1, <1>8, <2>2, TypesFollow DEF VerifyRebindOld, tokenVars
<1>9. ASSUME NEW n \in QQ, CheckRebindNew(c, n) PROVE AccountsTypeOK'
  BY <1>1, <1>9, TypesFollow DEF CheckRebindNew, tokenVars
<1>10. CASE VerifyRebindNew(c)
  <2>1. code' \in Seq(Challenge) /\ Len(code') = Len(code)
    <3>1. code' = code \/ code' = Spend({c, code[c].partner})
      BY <1>10 DEF VerifyRebindNew
    <3> QED
      BY <1>1, <3>1, SpendType
  <2>2. account' \in [User -> Row]
    <3> DEFINE u == code[c].user
               to == [account[u] EXCEPT !.qq = code[c].qq]
    <3>1. CASE UNCHANGED account
      BY <1>1, <3>1
    <3>2. CASE account' = [account EXCEPT ![u].qq = code[c].qq] /\ u # NoUser
      <4>1. u \in User /\ account[u] \in Row
        BY <1>1, <1>2, <3>2
      <4>2. to \in Row
        BY <1>2, <4>1 DEF Row
      <4>3. account' = [account EXCEPT ![u] = to]
        BY <1>1, <3>2, <4>1
      <4> HIDE DEF to, u
      <4> QED
        BY <1>1, <4>1, <4>2, <4>3
    <3> QED
      BY <1>10, <3>1, <3>2 DEF VerifyRebindNew
  <2>3. /\ UNCHANGED <<upgraded, mode, tokenVars>>
        /\ \A h \in {rebinding', rebound', confirmed', overtaken'} : h \subseteq Codes
    BY <1>1, <1>10 DEF VerifyRebindNew
  <2> QED
    BY <1>1, <2>1, <2>2, <2>3, TypesFollow DEF tokenVars
<1> QED
  BY <1>4, <1>5, <1>6, <1>7, <1>8, <1>9, <1>10 DEF CodeStep

\* Which steps touch sessions and tokens.
LEMMA TokenMoves ==
  ASSUME AccountsNext
  PROVE  \/ UNCHANGED tokenVars
         \/ /\ UNCHANGED <<expired, revoked, refreshing, loggedOut>>
            /\ \E u, type : OpenSession(u, type)
         \/ CleanupExpiredRevokedTokens
         \/ \E t \in Token : TokenStep(t)
<1>1. ASSUME Upgrade \/ \E actor \in User, m \in Modes : UpdateRegistrationPolicy(actor, m)
      PROVE  UNCHANGED tokenVars
  BY <1>1 DEF Upgrade, UpdateRegistrationPolicy
<1>2. ASSUME NEW c, CodeStep(c)
      PROVE  \/ UNCHANGED tokenVars
             \/ /\ UNCHANGED <<expired, revoked, refreshing, loggedOut>>
                /\ \E u, type : OpenSession(u, type)
  BY <1>2 DEF CodeStep, ExpireCode, VerifyByQQ, VerifyPasswordResetByQQ, VerifyRebindOld,
              CheckRebindNew, VerifyRebindNew, ConfirmPasswordReset
<1>3. ASSUME NEW u, UserStep(u)
      PROVE  \/ UNCHANGED tokenVars
             \/ /\ UNCHANGED <<expired, revoked, refreshing, loggedOut>>
                /\ \E x, type : OpenSession(x, type)
  <2>1. CASE RecoverySession(u)
    BY <2>1 DEF RecoverySession
  <2>2. CASE LoginUser(u)
    BY <2>2 DEF LoginUser, tokenVars
  <2>3. ASSUME NEW n, RegisterUser(u, n)
        PROVE  \/ UNCHANGED tokenVars
               \/ /\ UNCHANGED <<expired, revoked, refreshing, loggedOut>>
                  /\ \E x, type : OpenSession(x, type)
    BY <2>3 DEF RegisterUser, tokenVars
  <2> QED
    BY <1>3, <2>1, <2>2, <2>3 DEF UserStep, RequestPasswordReset, RequestQQRebind
<1>4. ASSUME NEW actor, NEW u, AdminStep(actor, u) PROVE UNCHANGED tokenVars
  BY <1>4 DEF AdminStep, CreateMember, UpdateMemberProfile, UpdateUserRole, UpdateUserStatus,
              ApproveUserVerification, DeleteMember
<1> QED
  BY <1>1, <1>2, <1>3, <1>4 DEF AccountsNext

LEMMA SessionTypes ==
  ASSUME AccountsTypeOK
  PROVE  /\ Issued = 1 .. Len(session) /\ Len(session) \in Nat
         /\ \A s \in Issued : session[s] \in Session
<1>1. session \in Seq(Session)
  BY DEF AccountsTypeOK, Session
<1> QED
  BY <1>1 DEF Issued

\* A session once issued stays as it is.
LEMMA SessionsOnlyGrow ==
  ASSUME AccountsTypeOK, AccountsNext
  PROVE  /\ Issued \subseteq Issued'
         /\ \A s \in Issued : session'[s] = session[s]
<1>1. session' = session \/ \E issued : session' = Append(session, issued)
  BY TokenMoves
     DEF tokenVars, CleanupExpiredRevokedTokens, TokenStep, RefreshRead, RefreshWrite, Logout,
         Expire, OpenSession
<1>2. ASSUME NEW issued, session' = Append(session, issued)
      PROVE  Issued \subseteq Issued' /\ \A s \in Issued : session'[s] = session[s]
  BY <1>2 DEF AccountsTypeOK, Issued
<1> QED
  BY <1>1, <1>2 DEF Issued

\* A refresh is served only for a token of a session that has been issued.
RefreshesIssued == \A t \in refreshing : t[1] \in Issued

LEMMA TokenType ==
  ASSUME AccountsTypeOK, RefreshesIssued, NEW t \in Token, TokenStep(t)
  PROVE  AccountsTypeOK'
<1>1. CASE RefreshRead(t)
  BY <1>1 DEF AccountsTypeOK, RefreshRead, codeVars, Codes
<1>2. CASE RefreshWrite(t)
  <2>1. session[t[1]].user \in User
    BY <1>2, SessionTypes DEF RefreshWrite, RefreshesIssued, Session
  <2>2. session' \in Seq(Session) /\ Len(session') <= MaxSessions
    BY <1>2, <2>1, OpensSession DEF RefreshWrite
  <2> QED
    BY <1>2, <2>2 DEF AccountsTypeOK, RefreshWrite, codeVars, Codes, Session
<1>3. CASE Logout(t)
  BY <1>3 DEF AccountsTypeOK, Logout, codeVars, Codes
<1>4. CASE Expire(t)
  BY <1>4 DEF AccountsTypeOK, Expire, codeVars, Codes
<1> QED
  BY <1>1, <1>2, <1>3, <1>4 DEF TokenStep

LEMMA UpgradeType ==
  ASSUME AccountsTypeOK, Upgrade
  PROVE  AccountsTypeOK'
<1>1. \A u \in User : account[u] \in Row /\ [account[u] EXCEPT !.role = "group_admin"] \in Row
  BY DEF AccountsTypeOK, Row, Role
<1>2. account' \in [User -> Row]
  BY <1>1 DEF Upgrade
<1> QED
  BY <1>2 DEF AccountsTypeOK, Upgrade, tokenVars, codeVars, Codes

LEMMA InitialTypes == AccountsInit => AccountsTypeOK /\ RefreshesIssued
<1> SUFFICES ASSUME AccountsInit PROVE AccountsTypeOK /\ RefreshesIssued
  OBVIOUS
<1>1. /\ NewRow("active", "super_admin", NoQQ) \in Row
      /\ NewRow("absent", "member", NoQQ) \in Row
  BY DEF NewRow, Row, Role, Live
<1>2. account \in [User -> Row]
  BY <1>1 DEF AccountsInit
<1>3. /\ session \in Seq([user : User, type : {"normal", "recovery"}]) /\ Len(session) <= MaxSessions
      /\ code \in Seq(Challenge) /\ Len(code) <= MaxCodes
  BY AccountsAssumption DEF AccountsInit
<1> QED
  BY <1>2, <1>3 DEF AccountsInit, AccountsTypeOK, RefreshesIssued, Codes

LEMMA TypesStep ==
  ASSUME AccountsTypeOK, RefreshesIssued, [AccountsNext]_accountsVars
  PROVE  AccountsTypeOK' /\ RefreshesIssued'
<1>1. CASE UNCHANGED accountsVars
  BY <1>1 DEF accountsVars, tokenVars, codeVars, AccountsTypeOK, RefreshesIssued, Codes, Issued
<1>2. CASE AccountsNext
  <2>1. AccountsTypeOK'
    <3>1. CASE CleanupExpiredRevokedTokens
      BY <3>1 DEF AccountsTypeOK, CleanupExpiredRevokedTokens, Cleanup, codeVars, Codes
    <3>2. ASSUME NEW actor \in User, NEW m \in Modes, UpdateRegistrationPolicy(actor, m)
          PROVE  AccountsTypeOK'
      BY <3>2, AccountsAssumption
         DEF AccountsTypeOK, UpdateRegistrationPolicy, tokenVars, codeVars, Codes
    <3> QED
      BY <1>2, <3>1, <3>2, UpgradeType, TokenType, CodeType, UserType, AdminType DEF AccountsNext
  <2>2. RefreshesIssued'
    <3>1. refreshing' \subseteq refreshing \/ \E t \in Token : RefreshRead(t)
      BY <1>2, TokenMoves
         DEF tokenVars, CleanupExpiredRevokedTokens, TokenStep, RefreshWrite, Logout, Expire
    <3>2. ASSUME NEW t \in Token, RefreshRead(t) PROVE RefreshesIssued'
      BY <3>2 DEF RefreshRead, Refreshable, Verifies, RefreshesIssued, Issued
    <3> QED
      BY <1>2, <3>1, <3>2, SessionsOnlyGrow DEF RefreshesIssued
  <2> QED
    BY <2>1, <2>2
<1> QED
  BY <1>1, <1>2

\* The type invariant of the accounts, whatever their number.
THEOREM AccountsTypes == AccountsSpec => []AccountsTypeOK
<1>1. AccountsTypeOK /\ RefreshesIssued /\ [AccountsNext]_accountsVars
        => (AccountsTypeOK /\ RefreshesIssued)'
  BY TypesStep
<1> QED
  BY InitialTypes, <1>1, PTL DEF AccountsSpec

-----------------------------------------------------------------------------
(* One super administrator                                                 *)

IsSuper(u) == account[u].role = "super_admin"

\* Handlers that make a row live again, as the bot's confirmation does, do not
\* ask what role it has: no row that is gone may be a super administrator's.
AdminsInv == /\ \A u \in User : IsSuper(u) => Exists(u)
             /\ OneSuperAdmin

LEMMA SuperAdminsAre ==
  ASSUME \A u \in User : IsSuper(u) => Exists(u)
  PROVE  SuperAdmins = {u \in User : IsSuper(u)}
BY DEF SuperAdmins, IsSuper

\* What a step that changes nobody's being super administrator leaves to show.
LEMMA AdminsKept ==
  ASSUME AdminsInv, UNCHANGED upgraded,
         \A u \in User : /\ IsSuper(u)' <=> IsSuper(u)
                         /\ IsSuper(u) => Exists(u)'
  PROVE  AdminsInv'
<1>1. \A u \in User : IsSuper(u)' => Exists(u)'
  OBVIOUS
<1>2. SuperAdmins' = {u \in User : IsSuper(u)'}
  BY <1>1 DEF SuperAdmins, IsSuper
<1>3. SuperAdmins' = SuperAdmins
  BY <1>2, SuperAdminsAre DEF AdminsInv
<1> QED
  BY <1>1, <1>3 DEF AdminsInv, OneSuperAdmin

LEMMA AdminsSame ==
  ASSUME AdminsInv, UNCHANGED <<upgraded, account>>
  PROVE  AdminsInv'
BY AdminsKept DEF AdminsInv, IsSuper, Exists

LEMMA AdminsUpgrade ==
  ASSUME AccountsTypeOK, AdminsInv, Upgrade
  PROVE  AdminsInv'
<1> PICK canonical \in SuperAdmins :
      account' = [u \in User |-> IF u \in SuperAdmins \ {canonical}
                                   THEN [account[u] EXCEPT !.role = "group_admin"]
                                   ELSE account[u]]
  BY DEF Upgrade
<1>1. \A u \in User : account[u] \in Row
  BY DEF AccountsTypeOK
<1>2. \A u \in User : /\ account'[u].status = account[u].status
                      /\ IsSuper(u)' <=> (IsSuper(u) /\ (u \in SuperAdmins => u = canonical))
  BY <1>1 DEF Row, IsSuper
<1>3. \A u \in User : IsSuper(u)' => Exists(u)'
  BY <1>2 DEF AdminsInv, Exists
<1>4. SuperAdmins' = {u \in User : IsSuper(u)'}
  BY <1>3 DEF SuperAdmins, IsSuper
<1>5. SuperAdmins = {u \in User : IsSuper(u)} /\ canonical \in User
  BY SuperAdminsAre DEF AdminsInv, SuperAdmins
<1>6. SuperAdmins' = {canonical}
  BY <1>2, <1>4, <1>5
<1> QED
  BY <1>3, <1>5, <1>6 DEF AdminsInv, OneSuperAdmin

LEMMA AdminsAdminStep ==
  ASSUME AccountsTypeOK, AdminsInv, NEW actor \in User, NEW u \in User, AdminStep(actor, u)
  PROVE  AdminsInv'
<1>1. /\ account \in [User -> Row] /\ account[u] \in Row
      /\ \A x \in User : account[x] \in Row /\ (IsSuper(x) => Exists(x))
  BY DEF AccountsTypeOK, AdminsInv
<1>2. SuperAdmins = {x \in User : IsSuper(x)}
  BY SuperAdminsAre DEF AdminsInv
<1>3. ASSUME NEW role \in Role, NEW n \in QQ \cup {NoQQ}, NEW status \in Live,
             CreateMember(actor, u, role, status, n)
      PROVE  AdminsInv'
  <2>1. /\ account' = [account EXCEPT ![u] = NewRow(status, role, n)] /\ UNCHANGED upgraded
        /\ upgraded /\ account[u].status = "absent"
        /\ role = "super_admin" => SuperAdmins = {}
    BY <1>3 DEF CreateMember, Signed
  <2>2. role # "super_admin"
    BY <2>1 DEF AdminsInv, OneSuperAdmin
  <2>3. ~IsSuper(u)
    BY <1>1, <2>1 DEF Exists, Live
  <2> QED
    BY <1>1, <2>1, <2>2, <2>3, AdminsKept DEF NewRow, IsSuper, Exists
<1>4. ASSUME NEW n \in QQ \cup {NoQQ}, UpdateMemberProfile(actor, u, n) PROVE AdminsInv'
  BY <1>1, <1>4, AdminsKept DEF UpdateMemberProfile, IsSuper, Exists, Row
<1>5. ASSUME NEW role \in Role, UpdateUserRole(actor, u, role) PROVE AdminsInv'
  <2>1. /\ account' = [account EXCEPT ![u].role = role] /\ UNCHANGED upgraded
        /\ upgraded /\ Exists(u) /\ MayChangeRole(actor, u, role)
        /\ \E s \in User : SuperAdmins = {s}
    BY <1>5 DEF UpdateUserRole, Signed, AdminsInv, OneSuperAdmin
  <2>2. \A x \in User : /\ account'[x].status = account[x].status
                        /\ x # u => (IsSuper(x)' <=> IsSuper(x))
                        /\ IsSuper(u)' <=> role = "super_admin"
    BY <1>1, <2>1 DEF IsSuper, Row
  <2>3. role = "super_admin" <=> IsSuper(u)
    <3>1. CASE role = "super_admin"
      BY <1>2, <2>1, <3>1 DEF MayChangeRole
    <3>2. CASE IsSuper(u)
      <4>1. IsSuper(actor)
        BY <2>1, <3>2 DEF MayChangeRole, IsSuper
      <4>2. actor = u
        BY <1>2, <2>1, <3>2, <4>1
      <4> QED
        BY <2>1, <3>2, <4>1, <4>2 DEF MayChangeRole, IsSuper
    <3> QED
      BY <3>1, <3>2
  <2> QED
    BY <1>1, <2>1, <2>2, <2>3, AdminsKept DEF Exists
<1>6. ASSUME NEW status \in Live, UpdateUserStatus(actor, u, status) PROVE AdminsInv'
  BY <1>1, <1>6, AdminsKept DEF UpdateUserStatus, IsSuper, Exists, Row
<1>7. CASE ApproveUserVerification(actor, u)
  BY <1>1, <1>7, AdminsKept DEF ApproveUserVerification, IsSuper, Exists, Row, Live
<1>8. CASE DeleteMember(actor, u)
  BY <1>1, <1>8, AdminsKept DEF DeleteMember, IsSuper, Exists, Row, NewRow
<1> QED
  BY <1>3, <1>4, <1>5, <1>6, <1>7, <1>8 DEF AdminStep

LEMMA AdminsStep ==
  ASSUME AccountsTypeOK, AdminsInv, [AccountsNext]_accountsVars
  PROVE  AdminsInv'
<1>1. \A x \in User : account[x] \in Row /\ (IsSuper(x) => Exists(x))
  BY DEF AccountsTypeOK, AdminsInv
<1>2. account \in [User -> Row]
  BY DEF AccountsTypeOK
<1>3. CASE UNCHANGED accountsVars
  BY <1>3, AdminsSame DEF accountsVars
<1>4. ASSUME NEW t \in Token, TokenStep(t) PROVE AdminsInv'
  BY <1>4, AdminsSame DEF TokenStep, RefreshRead, RefreshWrite, Logout, Expire
<1>5. ASSUME NEW c \in Codes, CodeStep(c) PROVE AdminsInv'
  <2>0. code[c].user \in User \cup {NoUser}
    BY CodeTypes, ChallengeEdits
  <2>1. ASSUME NEW n \in QQ \cup {NoQQ}, VerifyByQQ(c, n) PROVE AdminsInv'
    <3> DEFINE u == code[c].user
    <3>1. /\ u \in User /\ UNCHANGED upgraded
          /\ account' = [account EXCEPT ![u].status = "active",
                                        ![u].qq = IF n = NoQQ THEN @ ELSE n]
      BY <2>0, <2>1 DEF VerifyByQQ
    <3> HIDE DEF u
    <3>2. \A x \in User : /\ account'[x].role = account[x].role
                          /\ x # u => account'[x].status = account[x].status
                          /\ account'[u].status = "active"
      BY <1>1, <1>2, <3>1 DEF Row
    <3> QED
      BY <1>1, <3>1, <3>2, AdminsKept DEF IsSuper, Exists, Live
  <2>2. CASE VerifyRebindNew(c)
    <3>1. CASE UNCHANGED account
      BY <2>2, <3>1, AdminsSame DEF VerifyRebindNew
    <3> DEFINE u == code[c].user
    <3>2. CASE u \in User /\ account' = [account EXCEPT ![u].qq = code[c].qq]
      <4>1. \A x \in User : account'[x].role = account[x].role /\ account'[x].status = account[x].status
        BY <1>1, <1>2, <3>2 DEF Row
      <4> QED
        BY <1>1, <2>2, <4>1, AdminsKept DEF VerifyRebindNew, IsSuper, Exists
    <3> QED
      BY <2>0, <2>2, <3>1, <3>2 DEF VerifyRebindNew
  <2> QED
    BY <1>5, <2>1, <2>2, AdminsSame
       DEF CodeStep, ExpireCode, VerifyPasswordResetByQQ, VerifyRebindOld, CheckRebindNew,
           ConfirmPasswordReset
<1>6. ASSUME NEW u \in User, UserStep(u) PROVE AdminsInv'
  <2>1. ASSUME NEW n \in QQ \cup {NoQQ}, RegisterUser(u, n) PROVE AdminsInv'
    <3>1. account[u].status = "absent" /\ UNCHANGED upgraded
      BY <2>1 DEF RegisterUser
    <3>2. \E status \in Live : account' = [account EXCEPT ![u] = NewRow(status, "member", n)]
      BY <2>1 DEF RegisterUser, Live
    <3>3. ~IsSuper(u)
      BY <1>1, <3>1 DEF Exists, Live
    <3> QED
      BY <1>1, <1>2, <3>1, <3>2, <3>3, AdminsKept DEF IsSuper, Exists, NewRow
  <2> QED
    BY <1>6, <2>1, AdminsSame
       DEF UserStep, RecoverySession, LoginUser, RequestPasswordReset, RequestQQRebind
<1> QED
  BY <1>3, <1>4, <1>5, <1>6, AdminsUpgrade, AdminsAdminStep, AdminsSame
     DEF AccountsNext, CleanupExpiredRevokedTokens, UpdateRegistrationPolicy

LEMMA AdminsInitially == AccountsInit => AdminsInv
BY DEF AccountsInit, AdminsInv, OneSuperAdmin, IsSuper, Exists, NewRow, Live

\* From the upgrade on there is exactly one super administrator, whatever
\* administrators do to roles, accounts and each other.
THEOREM SuperAdminIsUnique == AccountsSpec => []OneSuperAdmin
<1>1. AccountsTypeOK /\ AdminsInv /\ [AccountsNext]_accountsVars => AdminsInv'
  BY AdminsStep
<1>2. AdminsInv => OneSuperAdmin
  BY DEF AdminsInv
<1> QED
  BY AccountsTypes, AdminsInitially, <1>1, <1>2, PTL DEF AccountsSpec

-----------------------------------------------------------------------------
(* Logging out                                                             *)

\* The clean-up drops a revocation only of a token past its time.
LogoutInv == loggedOut \subseteq revoked \cup expired

LEMMA LogoutStep ==
  ASSUME AccountsTypeOK, LogoutInv, [AccountsNext]_accountsVars
  PROVE  LogoutInv'
<1>1. \/ UNCHANGED <<expired, revoked, loggedOut>>
      \/ CleanupExpiredRevokedTokens
      \/ \E t \in Token : RefreshWrite(t) \/ Logout(t) \/ Expire(t)
  BY TokenMoves DEF tokenVars, accountsVars, TokenStep, RefreshRead
<1> QED
  BY <1>1 DEF LogoutInv, CleanupExpiredRevokedTokens, Cleanup, RefreshWrite, Logout, Expire

\* A token handed in at a logout, or traded for a new session, opens nothing again.
THEOREM LogoutIsFinal == AccountsSpec => []LoggedOutStaysOut
<1>1. AccountsInit => LogoutInv
  BY DEF AccountsInit, LogoutInv
<1>2. AccountsTypeOK /\ LogoutInv /\ [AccountsNext]_accountsVars => LogoutInv'
  BY LogoutStep
<1>3. LogoutInv => LoggedOutStaysOut
  BY DEF LogoutInv, LoggedOutStaysOut, Accepted, Refreshable, Verifies
<1> QED
  BY AccountsTypes, <1>1, <1>2, <1>3, PTL DEF AccountsSpec

-----------------------------------------------------------------------------
(* Changing the bound number                                               *)

NewCodes == {c \in Codes : code[c].kind = "new"}
Partner(c) == code[c].partner

\* While the owner of a request's old challenge is known and its new challenge
\* is not used, both are the same account's, and only a confirmation has used
\* the old one; what is being served has been used only by a later request.
RebindPair(c) ==
  /\ Partner(c) \in Codes /\ code[Partner(c)].kind = "old"
  /\ code[Partner(c)].user # NoUser /\ ~code[c].used =>
       /\ code[c].user = code[Partner(c)].user
       /\ code[Partner(c)].used => Partner(c) \in confirmed
  /\ c \in rebinding \ overtaken /\ code[c].user # NoUser => ~code[c].used

RebindInv ==
  /\ rebinding \cup rebound \subseteq NewCodes
  /\ \A c \in NewCodes : RebindPair(c)
  /\ \A c, d \in NewCodes : Partner(c) = Partner(d) => c = d
  /\ RebindNeedsOldNumber

\* Steps that add no pair leave the pairs there are.
LEMMA PairsStay ==
  ASSUME RebindInv, Codes \subseteq Codes',
         \A x \in Codes : code'[x].kind = code[x].kind /\ code'[x].partner = code[x].partner,
         \A x \in Codes' \ Codes : code'[x].kind # "new"
  PROVE  /\ NewCodes' = NewCodes
         /\ \A c \in NewCodes : /\ Partner(c)' = Partner(c)
                                /\ Partner(c) \in Codes' /\ code'[Partner(c)].kind = "old"
         /\ \A c, d \in NewCodes : Partner(c)' = Partner(d)' => c = d
<1>1. NewCodes' = NewCodes
  BY DEF NewCodes
<1>2. \A c \in NewCodes : Partner(c)' = Partner(c) /\ Partner(c) \in Codes
  BY DEF RebindInv, RebindPair, NewCodes, Partner
<1> QED
  BY <1>1, <1>2 DEF RebindInv, RebindPair, Partner

\* Most steps leave a challenge of a rebind alone, or take it from its owner
\* and use it up at once.
LEMMA GentleSteps ==
  ASSUME RebindInv, UNCHANGED historyVars, Codes \subseteq Codes',
         \A x \in Codes :
           /\ code'[x].kind = code[x].kind /\ code'[x].partner = code[x].partner
           /\ code[x].kind \in {"old", "new"} =>
                \/ code'[x].user = code[x].user /\ code'[x].used = code[x].used
                \/ code'[x].user = NoUser /\ code'[x].used,
         \A x \in Codes' \ Codes : code'[x].kind # "new"
  PROVE  RebindInv'
<1>1. /\ NewCodes' = NewCodes
      /\ \A c \in NewCodes : /\ Partner(c)' = Partner(c)
                             /\ Partner(c) \in Codes' /\ code'[Partner(c)].kind = "old"
      /\ \A c, d \in NewCodes : Partner(c)' = Partner(d)' => c = d
  BY PairsStay
<1>2. ASSUME NEW c \in NewCodes PROVE RebindPair(c)'
  <2> DEFINE p == Partner(c)
  <2>1. /\ RebindPair(c) /\ p \in Codes /\ code[p].kind = "old"
        /\ c \in Codes /\ code[c].kind = "new" /\ Partner(c)' = p
    BY <1>1 DEF RebindInv, RebindPair, NewCodes
  <2>2. \/ code'[c].user = code[c].user /\ code'[c].used = code[c].used
        \/ code'[c].user = NoUser /\ code'[c].used
    BY <2>1
  <2>3. \/ code'[p].user = code[p].user /\ code'[p].used = code[p].used
        \/ code'[p].user = NoUser /\ code'[p].used
    BY <2>1
  <2> QED
    BY <1>1, <2>1, <2>2, <2>3 DEF RebindPair, historyVars
<1>3. \A c \in rebound : c \in NewCodes
  BY DEF RebindInv
<1>4. RebindNeedsOldNumber'
  BY <1>1, <1>3 DEF RebindInv, RebindNeedsOldNumber, historyVars, Partner
<1> QED
  BY <1>1, <1>2, <1>4 DEF RebindInv, historyVars

LEMMA RebindSame ==
  ASSUME RebindInv, UNCHANGED codeVars
  PROVE  RebindInv'
BY GentleSteps DEF codeVars, historyVars, Codes

LEMMA GentleAppend ==
  ASSUME AccountsTypeOK, RebindInv, UNCHANGED historyVars,
         NEW kind \in {"verify", "reset"}, NEW u \in User, NEW n \in QQ \cup {NoQQ},
         NEW f \in Seq(Challenge), Len(f) = Len(code),
         code' = Append(f, NewCode(kind, u, n, 0)),
         \A x \in Codes :
           /\ f[x].kind = code[x].kind /\ f[x].partner = code[x].partner
           /\ code[x].kind \in {"old", "new"} => f[x] = code[x]
  PROVE  RebindInv'
<1>1. NewCode(kind, u, n, 0) \in Challenge /\ Codes = 1 .. Len(code) /\ Len(code) \in Nat
  BY IsChallenge, CodeTypes, AccountsAssumption
<1>2. /\ Len(code') = Len(code) + 1 /\ code' \in Seq(Challenge)
      /\ \A x \in Codes : code'[x] = f[x]
      /\ code'[Len(code) + 1] = NewCode(kind, u, n, 0)
  BY <1>1, AppendType
<1>3. Codes' = 1 .. Len(code) + 1
  BY <1>2 DEF Codes
<1>4. \A x \in Codes' \ Codes : code'[x].kind # "new"
  BY <1>1, <1>2, <1>3 DEF NewCode
<1> QED
  BY <1>1, <1>2, <1>3, <1>4, GentleSteps

LEMMA RebindUserStep ==
  ASSUME AccountsTypeOK, RebindInv, NEW u \in User, UserStep(u)
  PROVE  RebindInv'
<1>0. /\ code \in Seq(Challenge) /\ Codes = 1 .. Len(code) /\ Len(code) \in Nat
      /\ account[u].qq \in QQ \cup {NoQQ} /\ MaxCodes \in Nat
      /\ \A x \in Codes : code[x] \in Challenge
  BY CodeTypes, AccountsAssumption DEF AccountsTypeOK, Row
<1>1. CASE RecoverySession(u)
  BY <1>1, RebindSame DEF RecoverySession
<1>2. CASE LoginUser(u)
  <2>1. CASE UNCHANGED code
    BY <1>2, <2>1, RebindSame DEF LoginUser, codeVars, historyVars
  <2>2. CASE code' = Append(code, NewCode("verify", u, account[u].qq, 0))
    BY <1>0, <1>2, <2>2, GentleAppend DEF LoginUser
  <2> QED
    BY <1>2, <2>1, <2>2 DEF LoginUser
<1>3. CASE RequestPasswordReset(u)
  <2> DEFINE f == Spend(Unused(u, {"reset"}))
  <2>1. /\ code' = Append(f, NewCode("reset", u, account[u].qq, 0)) /\ UNCHANGED historyVars
    BY <1>3 DEF RequestPasswordReset
  <2>2. f \in Seq(Challenge) /\ Len(f) = Len(code)
    BY SpendType
  <2>3. \A x \in Codes : /\ f[x].kind = code[x].kind /\ f[x].partner = code[x].partner
                         /\ code[x].kind \in {"old", "new"} => f[x] = code[x]
    BY SpendFields DEF Unused
  <2> HIDE DEF f
  <2> QED
    BY <1>0, <2>1, <2>2, <2>3, GentleAppend
<1>4. ASSUME NEW n \in QQ \cup {NoQQ}, RegisterUser(u, n) PROVE RebindInv'
  <2>1. CASE UNCHANGED code
    BY <1>4, <2>1, RebindSame DEF RegisterUser, codeVars, historyVars
  <2>2. CASE code' = Append(code, NewCode("verify", u, n, 0))
    BY <1>0, <1>4, <2>2, GentleAppend DEF RegisterUser
  <2> QED
    BY <1>4, <2>1, <2>2 DEF RegisterUser
<1>5. ASSUME NEW n \in QQ, RequestQQRebind(u, n) PROVE RebindInv'
  <2> PICK L \in Nat : L = Len(code)
    BY <1>0
  <2>0. \A kind \in {"old", "new"}, x \in QQ \cup {NoQQ} : NewCode(kind, u, x, 0) \in Challenge
    BY <1>0, IsChallenge
  <2> DEFINE spent == Unused(u, {"old", "new"})
             f == Spend(spent)
             oldRow == NewCode("old", u, account[u].qq, 0)
             g == Append(f, oldRow)
             newRow == NewCode("new", u, n, L + 1)
  <2>1. f \in Seq(Challenge) /\ Len(f) = L
    BY SpendType
  <2>2. \A x \in Codes : /\ f[x].kind = code[x].kind /\ f[x].partner = code[x].partner
                         /\ f[x].user = code[x].user
                         /\ f[x].used <=> code[x].used \/ x \in spent
    BY SpendFields
  <2>3. /\ code' = Append(g, NewCode("new", u, n, Len(g))) /\ HasRoom(2)
        /\ overtaken' = overtaken \cup (rebinding \cap Unused(u, {"new"}))
        /\ UNCHANGED <<rebinding, rebound, confirmed>>
    BY <1>5 DEF RequestQQRebind
  <2>4. oldRow \in Challenge
    BY <1>0, <2>0
  <2> HIDE DEF f
  <2>5. /\ g \in Seq(Challenge) /\ Len(g) = L + 1 /\ g[L + 1] = oldRow
        /\ \A x \in Codes : g[x] = f[x]
    BY <1>0, <2>1, <2>4, AppendType
  <2>6. newRow \in Challenge
    BY <1>0, <2>3, IsChallenge DEF HasRoom
  <2> HIDE DEF g
  <2>7. /\ code' \in Seq(Challenge) /\ Len(code') = L + 2 /\ code'[L + 2] = newRow
        /\ code'[L + 1] = oldRow
        /\ \A x \in Codes : code'[x] = f[x]
    <3>1. Append(g, newRow) \in Seq(Challenge) /\ Len(Append(g, newRow)) = L + 2
          /\ Append(g, newRow)[L + 2] = newRow
          /\ \A x \in 1 .. L + 1 : Append(g, newRow)[x] = g[x]
      BY <1>0, <2>5, <2>6, AppendType
    <3> QED
      BY <1>0, <2>3, <2>5, <3>1
  <2>8. Codes' = 1 .. L + 2 /\ Codes \subseteq Codes'
    BY <1>0, <2>7 DEF Codes
  <2>9. /\ newRow.kind = "new" /\ newRow.partner = L + 1 /\ newRow.user = u /\ ~newRow.used
        /\ oldRow.kind = "old" /\ oldRow.user = u /\ ~oldRow.used
    BY DEF NewCode
  <2> HIDE DEF newRow, oldRow, spent
  <2>10. \A x \in Codes : /\ code'[x].kind = code[x].kind /\ code'[x].partner = code[x].partner
                          /\ code'[x].user = code[x].user
                          /\ code'[x].used <=> (code[x].used \/ x \in spent)
    BY <2>2, <2>7
  <2>11. NewCodes' = NewCodes \cup {L + 2}
    BY <1>0, <2>7, <2>8, <2>9, <2>10 DEF NewCodes
  <2>12. \A c \in NewCodes : /\ c \in Codes /\ Partner(c)' = Partner(c) /\ Partner(c) \in Codes
                             /\ code[Partner(c)].kind = "old" /\ code[c].kind = "new"
                             /\ RebindPair(c)
    BY <2>10 DEF RebindInv, RebindPair, NewCodes, Partner
  <2>13. Partner(L + 2)' = L + 1
    BY <2>7, <2>9 DEF Partner
  <2>14. ASSUME NEW c \in NewCodes PROVE RebindPair(c)'
    <3> DEFINE p == Partner(c)
    <3>1. /\ p \in Codes' /\ code'[p].kind = "old" /\ Partner(c)' = p /\ p \in Codes /\ c \in Codes
          /\ code[c].kind = "new" /\ code[p].kind = "old" /\ RebindPair(c)
      BY <2>8, <2>10, <2>12
    <3>2. ASSUME code'[p].user # NoUser, ~code'[c].used
          PROVE  code'[c].user = code'[p].user /\ (code'[p].used => p \in confirmed')
      <4>1. code[p].user # NoUser /\ ~code[c].used /\ c \notin spent
        BY <2>10, <3>1, <3>2
      <4>2. code[c].user = code[p].user /\ (code[p].used => p \in confirmed)
        BY <3>1, <4>1 DEF RebindPair
      <4>3. p \notin spent
        BY <3>1, <4>1, <4>2 DEF spent, Unused
      <4> QED
        BY <2>3, <2>10, <3>1, <4>2, <4>3
    <3>3. ASSUME c \in rebinding' \ overtaken', code'[c].user # NoUser PROVE ~code'[c].used
      <4>1. ~code[c].used /\ c \in rebinding
        BY <2>3, <2>10, <3>1, <3>3 DEF RebindPair
      <4>2. c \notin spent
        BY <2>3, <3>1, <3>3, <4>1 DEF spent, Unused
      <4> QED
        BY <2>10, <3>1, <4>1, <4>2
    <3> QED
      BY <3>1, <3>2, <3>3 DEF RebindPair
  <2>15. RebindPair(L + 2)'
    BY <1>0, <2>3, <2>7, <2>8, <2>9, <2>13 DEF RebindPair
  <2>16. \A c, d \in NewCodes' : Partner(c)' = Partner(d)' => c = d
    BY <1>0, <2>11, <2>12, <2>13 DEF RebindInv
  <2>17. RebindNeedsOldNumber'
    BY <2>3, <2>12 DEF RebindInv, RebindNeedsOldNumber, Partner
  <2> QED
    BY <2>3, <2>11, <2>14, <2>15, <2>16, <2>17 DEF RebindInv
<1> QED
  BY <1>1, <1>2, <1>3, <1>4, <1>5 DEF UserStep

LEMMA RebindCodeStep ==
  ASSUME AccountsTypeOK, RebindInv, NEW c \in Codes, CodeStep(c)
  PROVE  RebindInv'
<1>0. /\ \A x \in Codes : code[x] \in Challenge
      /\ code[c].kind \in {"verify", "reset", "old", "new"}
      /\ rebinding \subseteq NewCodes
  BY CodeTypes DEF Challenge, RebindInv
<1>1. ASSUME NEW to, code' = [code EXCEPT ![c] = to], UNCHANGED historyVars,
             to.kind = code[c].kind, to.partner = code[c].partner,
             code[c].kind \in {"old", "new"} =>
               (to.user = code[c].user /\ to.used = code[c].used) \/ (to.user = NoUser /\ to.used)
      PROVE  RebindInv'
  <2>1. /\ Codes' = Codes
        /\ \A x \in Codes : code'[x] = IF x = c THEN to ELSE code[x]
    BY <1>1 DEF Codes
  <2> QED
    BY <1>1, <2>1, GentleSteps
<1>2. CASE ExpireCode(c)
  <2>1. code' = [code EXCEPT ![c] = [code[c] EXCEPT !.expired = TRUE]] /\ UNCHANGED historyVars
    BY <1>2 DEF ExpireCode, Codes
  <2> QED
    BY <1>0, <1>1, <2>1 DEF Challenge
<1>3. ASSUME NEW n \in QQ \cup {NoQQ}, VerifyByQQ(c, n) PROVE RebindInv'
  <2>1. /\ code' = [code EXCEPT ![c] = [Spent(code[c]) EXCEPT !.user = NoUser]]
        /\ UNCHANGED historyVars
    BY <1>3 DEF VerifyByQQ, Codes, Spent
  <2> QED
    BY <1>0, <1>1, <2>1 DEF Challenge, Spent
<1>4. ASSUME NEW n \in QQ, VerifyPasswordResetByQQ(c, n) PROVE RebindInv'
  <2>1. /\ code' = [code EXCEPT ![c] = [code[c] EXCEPT !.verified = TRUE]] /\ UNCHANGED historyVars
    BY <1>4 DEF VerifyPasswordResetByQQ, Codes
  <2> QED
    BY <1>0, <1>1, <2>1 DEF Challenge
<1>5. ASSUME NEW byToken \in BOOLEAN, ConfirmPasswordReset(c, byToken) PROVE RebindInv'
  <2>1. /\ code' = [code EXCEPT ![c] = Spent(code[c])] /\ UNCHANGED historyVars
        /\ code[c].kind = "reset"
    BY <1>5 DEF ConfirmPasswordReset, Codes, Spent, Redeemable
  <2> QED
    BY <1>0, <1>1, <2>1 DEF Challenge, Spent
<1>6. ASSUME NEW n \in QQ, VerifyRebindOld(c, n) PROVE RebindInv'
  <2>1. /\ code' = [code EXCEPT ![c] = Spent(code[c])] /\ code[c].kind = "old"
        /\ confirmed' = confirmed \cup {c} /\ UNCHANGED <<rebinding, rebound, overtaken>>
    BY <1>6 DEF VerifyRebindOld, MayRedeemRebind, Redeemable, Codes, Spent
  <2>2. /\ Codes' = Codes
        /\ \A x \in Codes : /\ code'[x].kind = code[x].kind /\ code'[x].partner = code[x].partner
                            /\ code'[x].user = code[x].user
                            /\ x # c => code'[x].used = code[x].used
    BY <1>0, <2>1 DEF Codes, Spent, Challenge
  <2>3. /\ NewCodes' = NewCodes
        /\ \A x \in NewCodes : /\ Partner(x)' = Partner(x)
                               /\ Partner(x) \in Codes' /\ code'[Partner(x)].kind = "old"
        /\ \A x, d \in NewCodes : Partner(x)' = Partner(d)' => x = d
    BY <2>2, PairsStay
  <2>4. ASSUME NEW x \in NewCodes PROVE RebindPair(x)'
    <3>1. x \in Codes /\ x # c /\ RebindPair(x) /\ Partner(x) \in Codes
      BY <2>1 DEF NewCodes, RebindInv, RebindPair
    <3> QED
      BY <2>1, <2>2, <2>3, <3>1 DEF RebindPair
  <2>5. \A x \in rebound : x \in NewCodes
    BY DEF RebindInv
  <2>6. RebindNeedsOldNumber'
    BY <2>1, <2>3, <2>5 DEF RebindInv, RebindNeedsOldNumber, Partner
  <2> QED
    BY <2>1, <2>3, <2>4, <2>6 DEF RebindInv
<1>7. ASSUME NEW n \in QQ, CheckRebindNew(c, n) PROVE RebindInv'
  <2>1. /\ rebinding' = rebinding \cup {c} /\ c \in NewCodes /\ ~code[c].used
        /\ UNCHANGED <<code, rebound, confirmed, overtaken>>
    BY <1>7 DEF CheckRebindNew, MayRedeemRebind, Redeemable, NewCodes
  <2>2. Codes' = Codes /\ NewCodes' = NewCodes /\ \A x : Partner(x)' = Partner(x)
    BY <2>1 DEF Codes, NewCodes, Partner
  <2>3. \A x \in NewCodes : RebindPair(x)'
    BY <2>1, <2>2 DEF RebindInv, RebindPair
  <2> QED
    BY <2>1, <2>2, <2>3 DEF RebindInv, RebindNeedsOldNumber
<1>8. CASE VerifyRebindNew(c)
  <2> DEFINE old == Partner(c)
  <2>1. /\ c \in NewCodes /\ RebindPair(c) /\ old \in Codes /\ code[old].kind = "old"
        /\ rebinding' = rebinding \ {c} /\ UNCHANGED <<confirmed, overtaken>> /\ c \in rebinding
    BY <1>8 DEF VerifyRebindNew, RebindInv, RebindPair
  <2>2. CASE UNCHANGED <<code, rebound>>
    <3>1. Codes' = Codes /\ NewCodes' = NewCodes /\ \A x : Partner(x)' = Partner(x)
      BY <2>2 DEF Codes, NewCodes, Partner
    <3>2. \A x \in NewCodes : RebindPair(x)'
      BY <2>1, <2>2, <3>1 DEF RebindInv, RebindPair
    <3> QED
      BY <2>1, <2>2, <3>1, <3>2 DEF RebindInv, RebindNeedsOldNumber
  <2>3. CASE /\ code[c].user # NoUser /\ code[old].user = code[c].user /\ code[old].used
             /\ code' = Spend({c, old}) /\ rebound' = rebound \cup {c}
    <3>1. /\ Codes' = Codes
          /\ \A x \in Codes : /\ code'[x].kind = code[x].kind /\ code'[x].partner = code[x].partner
                              /\ code'[x].user = code[x].user
                              /\ code'[x].used <=> code[x].used \/ x \in {c, old}
      BY <2>3, SpendFields DEF Spend, Codes
    <3>2. /\ NewCodes' = NewCodes
          /\ \A x \in NewCodes : /\ Partner(x)' = Partner(x)
                                 /\ Partner(x) \in Codes' /\ code'[Partner(x)].kind = "old"
          /\ \A x, d \in NewCodes : Partner(x)' = Partner(d)' => x = d
      BY <3>1, PairsStay
    <3>3. ASSUME NEW x \in NewCodes PROVE RebindPair(x)'
      <4>1. /\ x \in Codes /\ RebindPair(x) /\ Partner(x) \in Codes
            /\ code[x].kind = "new" /\ code[Partner(x)].kind = "old"
        BY DEF NewCodes, RebindInv, RebindPair
      <4>2. CASE x = c
        BY <2>1, <3>1, <3>2, <4>1, <4>2 DEF RebindPair
      <4>3. CASE x # c
        <5>1. Partner(x) # old /\ Partner(x) # c /\ x # old
          BY <2>1, <4>1, <4>3 DEF RebindInv, NewCodes
        <5> QED
          BY <2>1, <3>1, <3>2, <4>1, <4>3, <5>1 DEF RebindPair
      <4> QED
        BY <4>2, <4>3
    <3>4. c \notin overtaken => old \in confirmed
      BY <2>1, <2>3 DEF RebindPair
    <3>5. \A x \in rebound : x \in NewCodes
      BY DEF RebindInv
    <3>6. RebindNeedsOldNumber'
      BY <2>1, <2>3, <3>2, <3>4, <3>5 DEF RebindInv, RebindNeedsOldNumber, Partner
    <3> QED
      BY <2>1, <2>3, <3>2, <3>3, <3>6 DEF RebindInv
  <2> QED
    BY <1>8, <2>2, <2>3 DEF VerifyRebindNew, Partner
<1> QED
  BY <1>2, <1>3, <1>4, <1>5, <1>6, <1>7, <1>8 DEF CodeStep

LEMMA RebindAdminStep ==
  ASSUME AccountsTypeOK, RebindInv, NEW actor \in User, NEW u \in User, AdminStep(actor, u)
  PROVE  RebindInv'
<1>0. \A x \in Codes : code[x] \in Challenge
  BY CodeTypes
<1>1. CASE ApproveUserVerification(actor, u)
  <2>1. /\ code' = [x \in Codes |-> IF code[x].user = u /\ ~code[x].used
                                     THEN [Spent(code[x]) EXCEPT !.user = NoUser] ELSE code[x]]
        /\ UNCHANGED historyVars
    BY <1>1 DEF ApproveUserVerification
  <2>2. /\ Codes' = Codes
        /\ \A x \in Codes :
             /\ code'[x].kind = code[x].kind /\ code'[x].partner = code[x].partner
             /\ \/ code'[x].user = code[x].user /\ code'[x].used = code[x].used
                \/ code'[x].user = NoUser /\ code'[x].used
    BY <1>0, <2>1 DEF Codes, Spent, Challenge
  <2> QED
    BY <2>1, <2>2, GentleSteps
<1>2. CASE DeleteMember(actor, u)
  <2>1. /\ code' = [x \in Codes |-> IF code[x].user = u THEN [code[x] EXCEPT !.user = NoUser]
                                                       ELSE code[x]]
        /\ UNCHANGED historyVars
    BY <1>2 DEF DeleteMember
  <2>2. /\ Codes' = Codes
        /\ \A x \in Codes : /\ code'[x].kind = code[x].kind /\ code'[x].partner = code[x].partner
                            /\ code'[x].used = code[x].used
                            /\ code'[x].user = IF code[x].user = u THEN NoUser ELSE code[x].user
    BY <1>0, <2>1 DEF Codes, Challenge
  <2>3. /\ NewCodes' = NewCodes
        /\ \A x \in NewCodes : /\ Partner(x)' = Partner(x)
                               /\ Partner(x) \in Codes' /\ code'[Partner(x)].kind = "old"
        /\ \A x, d \in NewCodes : Partner(x)' = Partner(d)' => x = d
    BY <2>2, PairsStay
  <2>4. ASSUME NEW x \in NewCodes PROVE RebindPair(x)'
    <3>1. x \in Codes /\ RebindPair(x) /\ Partner(x) \in Codes
      BY DEF NewCodes, RebindInv, RebindPair
    <3> QED
      BY <2>1, <2>2, <2>3, <3>1, SMTT(20) DEF RebindPair, historyVars
  <2>5. \A x \in rebound : x \in NewCodes
    BY DEF RebindInv
  <2>6. RebindNeedsOldNumber'
    BY <2>1, <2>3, <2>5 DEF RebindInv, RebindNeedsOldNumber, historyVars, Partner
  <2> QED
    BY <2>1, <2>3, <2>4, <2>6 DEF RebindInv, historyVars
<1> QED
  BY <1>1, <1>2, RebindSame
     DEF AdminStep, CreateMember, UpdateMemberProfile, UpdateUserRole, UpdateUserStatus

LEMMA RebindStep ==
  ASSUME AccountsTypeOK, RebindInv, [AccountsNext]_accountsVars
  PROVE  RebindInv'
<1>1. CASE UNCHANGED accountsVars
  BY <1>1, RebindSame DEF accountsVars
<1>2. ASSUME NEW t \in Token, TokenStep(t) PROVE RebindInv'
  BY <1>2, RebindSame DEF TokenStep, RefreshRead, RefreshWrite, Logout, Expire
<1> QED
  BY <1>1, <1>2, RebindUserStep, RebindCodeStep, RebindAdminStep, RebindSame
     DEF AccountsNext, Upgrade, CleanupExpiredRevokedTokens, UpdateRegistrationPolicy

\* No account moves to a new number without its old number's confirmation,
\* unless a later request overtook the one that was being served.
THEOREM OldNumberConfirms == AccountsSpec => []RebindNeedsOldNumber
<1>1. AccountsInit => RebindInv
  BY DEF AccountsInit, RebindInv, NewCodes, Codes, RebindNeedsOldNumber
<1>2. AccountsTypeOK /\ RebindInv /\ [AccountsNext]_accountsVars => RebindInv'
  BY RebindStep
<1>3. RebindInv => RebindNeedsOldNumber
  BY DEF RebindInv
<1> QED
  BY AccountsTypes, <1>1, <1>2, <1>3, PTL DEF AccountsSpec

-----------------------------------------------------------------------------
(* The browser                                                             *)

ReplyRow == [to : {"login", "recovery", "me", "expired", "requested", "status", "confirmed"},
             user : User \cup {NoUser}, number : Nat]

\* An answer that brings a session brings one that was issued, of the kind the
\* page takes it for; one about a challenge names one that may exist.
GoodReply(r) ==
  /\ r \in ReplyRow
  /\ r.to \in {"login", "recovery"} /\ r.number # 0 =>
       /\ r.number \in Issued
       /\ session[r.number].type = IF r.to = "recovery" THEN "recovery" ELSE "normal"
  /\ r.to \in {"requested", "status"} => r.number \in 0 .. MaxCodes

BrowserInv ==
  /\ BrowserTypeOK
  /\ \A r \in replies : GoodReply(r)
  /\ store.session # 0 => store.session \in Issued
  /\ RecoveryStaysRestricted

LEMMA StoreType ==
  ASSUME BrowserTypeOK
  PROVE  /\ store \in [user : User \cup {NoUser}, session : 0 .. MaxSessions, restricted : BOOLEAN]
         /\ resetDialog \in [open : BOOLEAN, step : {"request", "confirm"},
                             name : User \cup {NoUser}, poll : 0 .. MaxCodes, token : 0 .. MaxCodes]
BY DEF BrowserTypeOK

\* What the server does leaves good answers good, and the session sent as it was.
LEMMA ServerMoves ==
  ASSUME AccountsTypeOK, AccountsNext \/ UNCHANGED accountsVars
  PROVE  /\ Issued \subseteq Issued' /\ \A s \in Issued : session'[s] = session[s]
         /\ \A r : GoodReply(r) => GoodReply(r)'
<1>1. Issued \subseteq Issued' /\ \A s \in Issued : session'[s] = session[s]
  BY SessionsOnlyGrow DEF accountsVars, tokenVars, Issued
<1>2. \A r : GoodReply(r) => GoodReply(r)'
  BY <1>1 DEF GoodReply
<1> QED
  BY <1>1, <1>2

LEMMA BrowserAsks ==
  ASSUME BrowserNext
  PROVE  AccountsNext \/ UNCHANGED accountsVars
<1>1. ASSUME NEW u \in User, LoginStep(u) PROVE AccountsNext
  BY <1>1 DEF LoginStep, HandleLogin, RecoveryLogin, HandleRegister, AccountsNext, UserStep
<1>2. ASSUME NEW u \in User, HandleRequestReset(u) PROVE AccountsNext
  BY <1>2 DEF HandleRequestReset, AccountsNext, UserStep
<1>3. ASSUME NEW c \in Codes, HandleConfirmReset(c) PROVE AccountsNext
  BY <1>3 DEF HandleConfirmReset, AccountsNext, CodeStep
<1> QED
  BY <1>1, <1>2, <1>3
     DEF BrowserNext, ProfilePageStep, ResetDialogStep, FetchProfile, HandleLogout, OpenResetDialog,
         CloseResetDialog, SendAgain, CheckStatus, ReplyArrives

\* What a request that is sent and nothing else leaves to show.
LEMMA AwaitsGood ==
  ASSUME AccountsTypeOK, BrowserInv, AccountsNext \/ UNCHANGED accountsVars,
         NEW r, Await(r), GoodReply(r)', UNCHANGED store,
         isLoading' \in BOOLEAN, UNCHANGED resetDialog,
         resets' \subseteq (User \cup {NoUser}) \X User
  PROVE  BrowserInv'
<1>1. \A x \in replies' : GoodReply(x)'
  BY ServerMoves DEF Await, BrowserInv
<1>2. replies' \subseteq ReplyRow
  BY <1>1 DEF GoodReply
<1>3. BrowserTypeOK'
  BY <1>2 DEF BrowserInv, BrowserTypeOK, ReplyRow
<1>4. (store'.session # 0 => store'.session \in Issued') /\ RecoveryStaysRestricted'
  BY ServerMoves DEF BrowserInv, RecoveryStaysRestricted
<1> QED
  BY <1>1, <1>3, <1>4 DEF BrowserInv

\* The session a request has just opened, if it has.
LEMMA MadeSession ==
  ASSUME AccountsTypeOK, AccountsTypeOK', NEW u \in User, NEW type \in {"normal", "recovery"},
         OpenSession(u, type) \/ UNCHANGED session
  PROVE  /\ Made(session, session') \in Nat
         /\ Made(session, session') # 0 =>
              /\ Made(session, session') \in Issued'
              /\ session'[Made(session, session')].type = type
<1>1. CASE UNCHANGED session
  BY <1>1 DEF Made
<1>2. CASE OpenSession(u, type)
  <2>1. session \in Seq(Session) /\ [user |-> u, type |-> type] \in Session
    BY DEF AccountsTypeOK, Session
  <2>2. /\ session' = Append(session, [user |-> u, type |-> type])
        /\ Len(session') = Len(session) + 1 /\ Len(session) \in Nat
        /\ session'[Len(session) + 1].type = type
    BY <1>2, <2>1 DEF OpenSession
  <2>3. Made(session, session') = Len(session) + 1
    BY <2>2 DEF Made
  <2>4. Issued' = 1 .. Len(session')
    BY SessionTypes DEF AccountsTypeOK, Issued
  <2> QED
    BY <2>2, <2>3, <2>4
<1> QED
  BY <1>1, <1>2

LEMMA BrowserLogin ==
  ASSUME AccountsTypeOK, AccountsTypeOK', BrowserInv, NEW u \in User, LoginStep(u)
  PROVE  BrowserInv'
<1>1. AccountsNext
  BY DEF LoginStep, HandleLogin, RecoveryLogin, HandleRegister, AccountsNext, UserStep
<1>2. resets \subseteq (User \cup {NoUser}) \X User /\ isLoading \in BOOLEAN
  BY DEF BrowserInv, BrowserTypeOK
<1>3. ASSUME Submit(u), OpenSession(u, "normal") \/ UNCHANGED session PROVE BrowserInv'
  <2> PICK r : r = Reply("login", u, Made(session, session'))
    OBVIOUS
  <2>1. r.to = "login" /\ r.user = u /\ r.number = Made(session, session') /\ r \in ReplyRow
    BY <1>3, MadeSession DEF Reply, ReplyRow
  <2>2. GoodReply(r)'
    BY <1>3, <2>1, MadeSession DEF GoodReply, ReplyRow
  <2>3. Await(r) /\ isLoading' \in BOOLEAN /\ UNCHANGED <<store, resetDialog, resets>>
    BY <1>3 DEF Submit
  <2> QED
    BY <1>1, <1>2, <2>2, <2>3, AwaitsGood
<1>4. CASE RecoveryLogin(u)
  <2> PICK r : r = Reply("recovery", u, Made(session, session'))
    OBVIOUS
  <2>0. OpenSession(u, "recovery")
    BY <1>4 DEF RecoveryLogin, RecoverySession
  <2>1. r.to = "recovery" /\ r.user = u /\ r.number = Made(session, session') /\ r \in ReplyRow
    BY <2>0, MadeSession DEF Reply, ReplyRow
  <2>2. GoodReply(r)'
    BY <2>0, <2>1, MadeSession DEF GoodReply, ReplyRow
  <2>3. Await(r) /\ UNCHANGED <<store, isLoading, resetDialog, resets>>
    BY <1>4 DEF RecoveryLogin
  <2> QED
    BY <1>1, <1>2, <2>2, <2>3, AwaitsGood
<1>5. CASE HandleLogin(u)
  BY <1>3, <1>5 DEF HandleLogin, LoginUser
<1>6. ASSUME NEW n \in QQ, HandleRegister(u, n) PROVE BrowserInv'
  BY <1>3, <1>6 DEF HandleRegister, RegisterUser
<1> QED
  BY <1>4, <1>5, <1>6 DEF LoginStep

LEMMA BrowserProfile ==
  ASSUME AccountsTypeOK, BrowserInv, ProfilePageStep
  PROVE  BrowserInv'
<1>0. /\ resets \subseteq (User \cup {NoUser}) \X User /\ isLoading \in BOOLEAN
      /\ AccountsNext \/ UNCHANGED accountsVars
  BY DEF BrowserInv, BrowserTypeOK, ProfilePageStep, FetchProfile, HandleLogout
<1>1. CASE FetchProfile
  <2> PICK me, gone : /\ me = Reply("me", session[store.session].user, 0)
                      /\ gone = Reply("expired", NoUser, 0)
    OBVIOUS
  <2>1. session[store.session].user \in User
    BY <1>1, SessionTypes DEF FetchProfile, BrowserInv, Session
  <2>2. UNCHANGED <<accountsVars, store, isLoading, resetDialog, resets>> /\ (Await(me) \/ Await(gone))
    BY <1>1 DEF FetchProfile
  <2>3. GoodReply(me)' /\ GoodReply(gone)'
    BY <2>1, <2>2 DEF GoodReply, Reply, ReplyRow, accountsVars, tokenVars
  <2> QED
    BY <1>0, <2>2, <2>3, AwaitsGood
<1>2. CASE HandleLogout
  <2>1. \A r : GoodReply(r) => GoodReply(r)'
    BY <1>0, ServerMoves
  <2>2. store' \in [user : User \cup {NoUser}, session : 0 .. MaxSessions, restricted : BOOLEAN]
    BY <1>2, AccountsAssumption DEF HandleLogout, SignedOut
  <2>3. BrowserTypeOK' /\ store'.session = 0
    BY <1>2, <2>2 DEF HandleLogout, SignedOut, BrowserInv, BrowserTypeOK
  <2> QED
    BY <1>2, <2>1, <2>3 DEF HandleLogout, BrowserInv, RecoveryStaysRestricted
<1> QED
  BY <1>1, <1>2 DEF ProfilePageStep

Dialog == [open : BOOLEAN, step : {"request", "confirm"}, name : User \cup {NoUser},
           poll : 0 .. MaxCodes, token : 0 .. MaxCodes]

LEMMA DialogEdits ==
  ASSUME NEW d \in Dialog, NEW n \in 0 .. MaxCodes, NEW u \in User \cup {NoUser}
  PROVE  /\ [d EXCEPT !.open = TRUE] \in Dialog
         /\ [d EXCEPT !.step = "request"] \in Dialog
         /\ [d EXCEPT !.token = n] \in Dialog
         /\ [open |-> d.open, step |-> "confirm", name |-> u, poll |-> n, token |-> 0] \in Dialog
<1>1. 0 \in 0 .. MaxCodes
  BY AccountsAssumption
<1>2. /\ [d EXCEPT !.open = TRUE] \in Dialog
      /\ [d EXCEPT !.step = "request"] \in Dialog
      /\ [d EXCEPT !.token = n] \in Dialog
  BY DEF Dialog
<1>3. [open |-> d.open, step |-> "confirm", name |-> u, poll |-> n, token |-> 0] \in Dialog
  BY <1>1 DEF Dialog
<1> QED
  BY <1>2, <1>3

LEMMA NoDialogType == NoDialog \in Dialog
<1>1. 0 \in 0 .. MaxCodes
  BY AccountsAssumption
<1> QED
  BY <1>1 DEF NoDialog, Dialog

\* What the steps of the dialog and late answers to it leave to show.
LEMMA DialogMoves ==
  ASSUME AccountsTypeOK, BrowserInv, UNCHANGED <<accountsVars, store, resets>>,
         isLoading' \in BOOLEAN, resetDialog' \in Dialog, replies' \subseteq replies
  PROVE  BrowserInv'
<1>1. \A r \in replies' : GoodReply(r)'
  BY ServerMoves DEF BrowserInv
<1>2. BrowserTypeOK'
  BY DEF BrowserInv, BrowserTypeOK, Dialog
<1>3. Issued' = Issued /\ session' = session
  BY DEF accountsVars, tokenVars, Issued
<1> QED
  BY <1>1, <1>2, <1>3 DEF BrowserInv, RecoveryStaysRestricted

LEMMA BrowserDialog ==
  ASSUME AccountsTypeOK, AccountsTypeOK', BrowserInv, ResetDialogStep
  PROVE  BrowserInv'
<1>0. /\ resets \subseteq (User \cup {NoUser}) \X User /\ isLoading \in BOOLEAN
      /\ AccountsNext \/ UNCHANGED accountsVars
      /\ resetDialog \in Dialog
  <2>1. AccountsNext \/ UNCHANGED accountsVars
    BY BrowserAsks DEF BrowserNext
  <2> QED
    BY <2>1 DEF BrowserInv, BrowserTypeOK, Dialog
<1>1. CASE OpenResetDialog \/ CloseResetDialog \/ SendAgain
  <2>1. resetDialog' \in Dialog
    <3>1. 0 \in 0 .. MaxCodes
      BY AccountsAssumption
    <3>2. /\ [NoDialog EXCEPT !.open = TRUE] \in Dialog
          /\ [resetDialog EXCEPT !.step = "request"] \in Dialog
      BY <1>0, <3>1, NoDialogType, DialogEdits
    <3> QED
      BY <1>1, <3>2, NoDialogType DEF OpenResetDialog, CloseResetDialog, SendAgain
  <2> QED
    BY <1>0, <1>1, <2>1, DialogMoves DEF OpenResetDialog, CloseResetDialog, SendAgain
<1>2. CASE CheckStatus
  <2> PICK r : r = Reply("status", NoUser, resetDialog.poll)
    OBVIOUS
  <2>1. Await(r) /\ UNCHANGED <<accountsVars, store, isLoading, resetDialog, resets>>
    BY <1>2 DEF CheckStatus
  <2>2. r \in ReplyRow /\ r.to = "status" /\ r.number \in 0 .. MaxCodes
    BY <1>0 DEF Reply, ReplyRow, Dialog
  <2>3. GoodReply(r)'
    BY <2>2 DEF GoodReply
  <2> QED
    BY <1>0, <2>1, <2>3, AwaitsGood
<1>3. ASSUME NEW u \in User, HandleRequestReset(u) PROVE BrowserInv'
  <2> PICK r : r = Reply("requested", u, Made(code, code'))
    OBVIOUS
  <2>1. /\ Await(r) /\ isLoading' \in BOOLEAN /\ UNCHANGED <<store, resetDialog, resets>>
    BY <1>3 DEF HandleRequestReset
  <2>2. Made(code, code') \in 0 .. MaxCodes
    BY AccountsAssumption DEF Made, AccountsTypeOK
  <2>3. r \in ReplyRow /\ r.to = "requested" /\ r.number \in 0 .. MaxCodes
    BY <2>2 DEF Reply, ReplyRow
  <2>4. GoodReply(r)'
    BY <2>3 DEF GoodReply
  <2> QED
    BY <1>0, <2>1, <2>4, AwaitsGood
<1>4. ASSUME NEW c \in Codes, HandleConfirmReset(c) PROVE BrowserInv'
  <2> PICK r : r = Reply("confirmed", NoUser, 0)
    OBVIOUS
  <2>1. /\ Await(r) /\ isLoading' \in BOOLEAN /\ UNCHANGED <<store, resetDialog>>
        /\ resets' = resets \cup {<<resetDialog.name, code[c].user>>}
    BY <1>4 DEF HandleConfirmReset
  <2>2. code[c].user \in User /\ resetDialog.name \in User \cup {NoUser}
    <3>1. code[c].user # NoUser
      BY <1>4 DEF HandleConfirmReset, ConfirmPasswordReset
    <3> QED
      BY <1>0, <3>1, CodeTypes, ChallengeEdits DEF Dialog
  <2>3. r \in ReplyRow /\ r.to = "confirmed"
    BY DEF Reply, ReplyRow
  <2>4. GoodReply(r)'
    BY <2>3 DEF GoodReply
  <2> QED
    BY <1>0, <2>1, <2>2, <2>4, AwaitsGood
<1> QED
  BY <1>1, <1>2, <1>3, <1>4 DEF ResetDialogStep

LEMMA BrowserAnswers ==
  ASSUME AccountsTypeOK, BrowserInv, NEW r \in replies, ReplyArrives(r)
  PROVE  BrowserInv'
<1>0. /\ isLoading \in BOOLEAN /\ resetDialog \in Dialog
      /\ store \in [user : User \cup {NoUser}, session : 0 .. MaxSessions, restricted : BOOLEAN]
      /\ resets \subseteq (User \cup {NoUser}) \X User
      /\ GoodReply(r) /\ r \in ReplyRow
      /\ replies' \subseteq replies /\ replies' \subseteq ReplyRow
      /\ UNCHANGED accountsVars
  BY DEF BrowserInv, BrowserTypeOK, Dialog, ReplyArrives, GoodReply, ReplyRow
<1>1. \A x \in replies' : GoodReply(x)'
  BY <1>0, ServerMoves DEF BrowserInv
<1>2. Issued' = Issued /\ session' = session /\ Issued = 1 .. Len(session)
      /\ Len(session) \in Nat /\ Len(session) <= MaxSessions
  BY <1>0, SessionTypes DEF accountsVars, tokenVars, Issued, AccountsTypeOK
<1>3. ASSUME store' \in [user : User \cup {NoUser}, session : 0 .. MaxSessions, restricted : BOOLEAN],
             isLoading' \in BOOLEAN, resetDialog' \in Dialog, UNCHANGED resets,
             store'.session # 0 =>
               /\ store'.session \in Issued
               /\ store'.restricted <=> session[store'.session].type = "recovery"
      PROVE  BrowserInv'
  <2>1. BrowserTypeOK'
    BY <1>0, <1>3 DEF BrowserTypeOK, Dialog, ReplyRow
  <2> QED
    BY <1>1, <1>2, <1>3, <2>1 DEF BrowserInv, RecoveryStaysRestricted
<1>4. CASE SessionArrives(r)
  <2>1. CASE r.number = 0
    BY <1>0, <1>3, <1>4, <2>1 DEF SessionArrives, BrowserInv, RecoveryStaysRestricted
  <2>2. CASE r.number # 0
    <3>1. /\ store' = [user |-> r.user, session |-> r.number, restricted |-> r.to = "recovery"]
          /\ r.to \in {"login", "recovery"} /\ r.number \in Issued
          /\ session[r.number].type = IF r.to = "recovery" THEN "recovery" ELSE "normal"
      BY <1>0, <1>4, <2>2 DEF SessionArrives, GoodReply
    <3>2. store' \in [user : User \cup {NoUser}, session : 0 .. MaxSessions, restricted : BOOLEAN]
      <4>1. r.user \in User \cup {NoUser} /\ r.number \in 0 .. MaxSessions
        BY <1>0, <1>2, <3>1, AccountsAssumption DEF ReplyRow
      <4>2. (r.to = "recovery") \in BOOLEAN
        OBVIOUS
      <4> QED
        BY <3>1, <4>1, <4>2
    <3>3. isLoading' \in BOOLEAN /\ UNCHANGED <<resetDialog, resets>>
      BY <1>4 DEF SessionArrives
    <3> QED
      BY <1>0, <1>3, <3>1, <3>2, <3>3
  <2> QED
    BY <2>1, <2>2
<1>5. CASE ProfileArrives(r)
  <2>1. /\ store' = [store EXCEPT !.user = r.user, !.restricted = store.restricted]
        /\ UNCHANGED <<isLoading, resetDialog, resets>>
    BY <1>5 DEF ProfileArrives, KeptRestriction
  <2>2. /\ store' \in [user : User \cup {NoUser}, session : 0 .. MaxSessions, restricted : BOOLEAN]
        /\ store'.session = store.session /\ store'.restricted = store.restricted
    BY <1>0, <2>1 DEF ReplyRow
  <2> QED
    BY <1>0, <1>3, <2>1, <2>2 DEF BrowserInv, RecoveryStaysRestricted
<1>6. CASE ExpiryArrives(r)
  <2>1. /\ store' \in [user : User \cup {NoUser}, session : 0 .. MaxSessions, restricted : BOOLEAN]
        /\ store'.session = 0
    BY <1>6, AccountsAssumption DEF ExpiryArrives, SignedOut
  <2> QED
    BY <1>3, <1>6, <2>1, NoDialogType DEF ExpiryArrives
<1>7. CASE RequestedArrives(r) \/ StatusArrives(r) \/ ConfirmedArrives(r)
  <2>1. resetDialog' \in Dialog
    <3>1. CASE RequestedArrives(r)
      <4>1. /\ r.user \in User \cup {NoUser} /\ r.number \in 0 .. MaxCodes
            /\ resetDialog' = [open |-> resetDialog.open, step |-> "confirm", name |-> r.user,
                               poll |-> r.number, token |-> 0]
        BY <1>0, <3>1 DEF RequestedArrives, GoodReply, ReplyRow
      <4> QED
        BY <1>0, <4>1, DialogEdits
    <3>2. CASE StatusArrives(r)
      <4>1. /\ r.number \in 0 .. MaxCodes
            /\ resetDialog' = [resetDialog EXCEPT !.token = r.number]
        BY <1>0, <3>2 DEF StatusArrives, GoodReply
      <4> QED
        BY <1>0, <4>1 DEF Dialog
    <3>3. CASE ConfirmedArrives(r)
      BY <3>3, NoDialogType DEF ConfirmedArrives
    <3> QED
      BY <1>7, <3>1, <3>2, <3>3
  <2> QED
    BY <1>0, <1>7, <2>1, DialogMoves DEF RequestedArrives, StatusArrives, ConfirmedArrives
<1> QED
  BY <1>4, <1>5, <1>6, <1>7 DEF ReplyArrives

LEMMA BrowserStep ==
  ASSUME AccountsTypeOK, AccountsTypeOK', BrowserInv,
         [BrowserNext \/ (AccountsNext /\ UNCHANGED browserVars)]_<<accountsVars, browserVars>>
  PROVE  BrowserInv'
<1>1. CASE BrowserNext
  BY <1>1, BrowserLogin, BrowserProfile, BrowserDialog, BrowserAnswers DEF BrowserNext
<1>2. CASE (AccountsNext \/ UNCHANGED accountsVars) /\ UNCHANGED browserVars
  <2>1. /\ Issued \subseteq Issued' /\ \A s \in Issued : session'[s] = session[s]
        /\ \A r : GoodReply(r) => GoodReply(r)'
    BY <1>2, ServerMoves
  <2>2. UNCHANGED <<store, isLoading, resetDialog, replies, resets>>
    BY <1>2 DEF browserVars
  <2>3. BrowserTypeOK'
    BY <2>2 DEF BrowserInv, BrowserTypeOK
  <2> QED
    BY <2>1, <2>2, <2>3 DEF BrowserInv, RecoveryStaysRestricted
<1> QED
  BY <1>1, <1>2

LEMMA BrowserStarts ==
  ASSUME BrowserInit
  PROVE  BrowserInv
<1>1. /\ store \in [user : User \cup {NoUser}, session : 0 .. MaxSessions, restricted : BOOLEAN]
      /\ store.session = 0
  BY AccountsAssumption DEF BrowserInit, SignedOut
<1>2. BrowserTypeOK
  BY <1>1, NoDialogType DEF BrowserInit, BrowserTypeOK, Dialog
<1> QED
  BY <1>1, <1>2 DEF BrowserInit, BrowserInv, RecoveryStaysRestricted

\* Whatever answers are still on their way, for whichever session they were
\* asked, a browser keeps to the captcha's settings exactly while the session
\* it sends is one of the backup key's.
THEOREM RestrictionHolds == BrowserSpec => [](BrowserTypeOK /\ RecoveryStaysRestricted)
<1> DEFINE Inv == AccountsTypeOK /\ RefreshesIssued /\ BrowserInv
<1>1. AccountsInit /\ BrowserInit => Inv
  BY InitialTypes, BrowserStarts
<1>2. Inv /\ [BrowserNext \/ (AccountsNext /\ UNCHANGED browserVars)]_<<accountsVars, browserVars>>
        => Inv'
  <2> SUFFICES ASSUME Inv,
                      [BrowserNext \/ (AccountsNext /\ UNCHANGED browserVars)]_<<accountsVars, browserVars>>
               PROVE  Inv'
    OBVIOUS
  <2>1. [AccountsNext]_accountsVars
    BY BrowserAsks
  <2>2. AccountsTypeOK' /\ RefreshesIssued'
    BY <2>1, TypesStep
  <2> QED
    BY <2>2, BrowserStep
<1>3. Inv => BrowserTypeOK /\ RecoveryStaysRestricted
  BY DEF BrowserInv
<1> QED
  BY <1>1, <1>2, <1>3, PTL DEF BrowserSpec

-----------------------------------------------------------------------------
(* The members page                                                        *)

\* Saving a profile is all that could take a number the form never showed.
LEMMA OnlySavingLoses ==
  ASSUME MembersNext, lost' # lost
  PROVE  HandleUpdateMemberProfile
<1>1. ASSUME NEW u \in User, RowStep(u) PROVE lost' = lost
  BY <1>1 DEF RowStep, HandleStatusToggle, HandleApproveVerification, HandleDeleteMember, Refused,
     HandleRoleChange, ButtonStep, OpenProfileDialog, OpenTagResetDialog
<1>2. ASSUME NEW u \in User, CreateStep(u) PROVE lost' = lost
  BY <1>2 DEF CreateStep, HandleCreateMember
<1>3. ASSUME NEW a \in answers, Arrives(a) PROVE lost' = lost
  BY <1>3 DEF Arrives
<1>4. ASSUME OpenMembers \/ TagStep PROVE lost' = lost
  BY <1>4 DEF OpenMembers, TagStep, CloseTagDialog, HandleGrantMemberTags, HandleResetMemberTags
<1>5. ASSUME ProfileStep PROVE lost' = lost \/ HandleUpdateMemberProfile
  BY <1>5 DEF ProfileStep, CloseProfileDialog, EditNumber
<1> QED
  BY <1>1, <1>2, <1>3, <1>4, <1>5 DEF MembersNext

\* Nobody loses their QQ number by an edit of a profile whose form never showed
\* it, in whatever order the answers reach the page (handleUpdateMemberProfile and
\* updateMemberProfile, which takes null for a field that was not sent).
THEOREM NumbersAreKept == MembersSpec => []NumbersSurviveEdits
<1>1. MembersInit => NumbersSurviveEdits
  BY DEF MembersInit, NumbersSurviveEdits
<1>2. ASSUME NumbersSurviveEdits, MembersNext PROVE NumbersSurviveEdits'
  <2>1. CASE HandleUpdateMemberProfile
    BY <1>2, <2>1 DEF HandleUpdateMemberProfile, SavedNumber, NumbersSurviveEdits
  <2> QED
    BY <1>2, <2>1, OnlySavingLoses DEF NumbersSurviveEdits
<1>3. ASSUME NumbersSurviveEdits, UNCHANGED <<accountsVars, membersVars>> PROVE NumbersSurviveEdits'
  BY <1>3 DEF membersVars, NumbersSurviveEdits
<1> QED
  BY <1>1, <1>2, <1>3, PTL DEF MembersSpec

-----------------------------------------------------------------------------
(* The captcha: types                                                      *)

AtAttempt == {"prepare", "reserve", "verify", "recheck", "complete"}
AtTicket == {"ticket", "health", "credentials"}
PolicyRow == [enabled : BOOLEAN, active : Provider \cup {NoProvider}, version : 1 .. MaxVersion]
ProfileRow == [made : BOOLEAN, active : BOOLEAN, confirmed : BOOLEAN]
AttemptRow == [provider : Provider, version : 1 .. MaxVersion, status : Status]
TicketRow == [provider : Provider, version : 1 .. MaxVersion, used : BOOLEAN]
Entry == {"attempt"} \X (1 .. MaxAttempts) \cup {"ticket"} \X (1 .. MaxTickets)

LEMMA RequestHolds ==
  ASSUME NEW h \in Request
  PROVE  /\ h.at \in {"create", "outage", "issue"} => h.provider \in Provider /\ h.version \in 1 .. MaxVersion
         /\ h.at \in AtAttempt => h.attempt \in 1 .. MaxAttempts
         /\ h.at \in AtTicket => h.ticket \in 1 .. MaxTickets /\ h.count \in Nat
         /\ h.at \in {"outage", "issue"} => h.confirmed \in BOOLEAN
         /\ h.at \in {"update", "activate"} => h.provider \in Provider
         /\ h.at = "policy" => h.on \in BOOLEAN /\ h.changed \in BOOLEAN
BY DEF Request, Idle, AtAttempt, AtTicket

LEMMA RequestMoves ==
  ASSUME NEW h \in Request
  PROVE  /\ h.at = "outage" => [h EXCEPT !.at = "issue"] \in Request
         /\ h.at = "ticket" => [h EXCEPT !.at = "health"] \in Request
         /\ h.at = "health" => [h EXCEPT !.at = "credentials"] \in Request
<1>1. h.at = "outage" => [h EXCEPT !.at = "issue"] \in
        [at : {"outage", "issue"}, provider : Provider, version : 1 .. MaxVersion, confirmed : BOOLEAN]
  BY DEF Request, Idle
<1>2. h.at \in AtTicket =>
        h \in [at : {"ticket", "health", "credentials"}, ticket : 1 .. MaxTickets, count : Nat]
  BY DEF Request, Idle, AtTicket
<1>3. h.at \in AtTicket => \A place \in AtTicket : [h EXCEPT !.at = place] \in
        [at : {"ticket", "health", "credentials"}, ticket : 1 .. MaxTickets, count : Nat]
  BY <1>2 DEF AtTicket
<1> QED
  BY <1>1, <1>3 DEF Request, AtTicket

LEMMA CaptchaRows ==
  ASSUME CaptchaTypeOK
  PROVE  /\ policy \in PolicyRow /\ profile \in [Provider -> ProfileRow]
         /\ attempt \in Seq(AttemptRow) /\ DOMAIN attempt = 1 .. Len(attempt)
         /\ Len(attempt) \in Nat /\ Len(attempt) <= MaxAttempts
         /\ \A a \in DOMAIN attempt : attempt[a] \in AttemptRow
         /\ ticket \in Seq(TicketRow) /\ DOMAIN ticket = 1 .. Len(ticket)
         /\ Len(ticket) \in Nat /\ Len(ticket) <= MaxTickets
         /\ \A t \in DOMAIN ticket : ticket[t] \in TicketRow
         /\ failures \in Nat /\ call \in [Caller -> Request]
         /\ earned \in Seq(1 .. MaxAttempts) /\ entered \in Seq(Entry)
<1>1. /\ attempt \in Seq(AttemptRow) /\ ticket \in Seq(TicketRow)
      /\ policy \in PolicyRow /\ profile \in [Provider -> ProfileRow]
      /\ entered \in Seq(Entry)
  BY DEF CaptchaTypeOK, PolicyRow, ProfileRow, AttemptRow, TicketRow, Entry
<1> QED
  BY <1>1 DEF CaptchaTypeOK

LEMMA CaptchaTyped ==
  ASSUME policy' \in PolicyRow, profile' \in [Provider -> ProfileRow],
         attempt' \in Seq(AttemptRow), Len(attempt') <= MaxAttempts,
         ticket' \in Seq(TicketRow), Len(ticket') <= MaxTickets,
         failures' \in Nat, call' \in [Caller -> Request],
         earned' \in Seq(1 .. MaxAttempts), entered' \in Seq(Entry)
  PROVE  CaptchaTypeOK'
BY DEF CaptchaTypeOK, PolicyRow, ProfileRow, AttemptRow, TicketRow, Entry

LEMMA GoesOn ==
  ASSUME CaptchaTypeOK, NEW r \in Caller, NEW h \in Request, Go(r, h)
  PROVE  call' \in [Caller -> Request]
BY DEF Go, CaptchaTypeOK

LEMMA GoesTo ==
  ASSUME CaptchaTypeOK, NEW r \in Caller, NEW h, Go(r, h), NEW x \in Caller
  PROVE  call'[x] = IF x = r THEN h ELSE call[x]
BY DEF Go, CaptchaTypeOK

LEMMA IsDone ==
  ASSUME CaptchaTypeOK, NEW r \in Caller, Done(r)
  PROVE  call' \in [Caller -> Request]
<1>1. Idle \in Request
  BY DEF Request
<1> QED
  BY <1>1, GoesOn DEF Done

LEMMA HealthType ==
  ASSUME CaptchaTypeOK, NEW p \in Provider, NEW h, SetHealth(p, h)
  PROVE  profile' \in [Provider -> ProfileRow]
<1>1. [profile[p] EXCEPT !.confirmed = (h = "down_5xx")] \in ProfileRow
  BY CaptchaRows DEF ProfileRow
<1>2. profile' = [profile EXCEPT ![p] = [profile[p] EXCEPT !.confirmed = (h = "down_5xx")]]
  BY DEF SetHealth
<1> QED
  BY <1>1, <1>2, CaptchaRows

\* The rows of a sequence but one stay as they are.
LEMMA AttemptMoved ==
  ASSUME CaptchaTypeOK, NEW a \in DOMAIN attempt, NEW status \in Status,
         attempt' = [attempt EXCEPT ![a].status = status]
  PROVE  /\ attempt' \in Seq(AttemptRow) /\ Len(attempt') = Len(attempt)
         /\ DOMAIN attempt' = DOMAIN attempt
         /\ \A x \in DOMAIN attempt :
              /\ x # a => attempt'[x] = attempt[x]
              /\ attempt'[a].status = status
<1>1. /\ attempt \in Seq(AttemptRow) /\ attempt[a] \in AttemptRow
      /\ DOMAIN attempt = 1 .. Len(attempt) /\ Len(attempt) \in Nat
  BY CaptchaRows
<1>2. [attempt[a] EXCEPT !.status = status] \in AttemptRow
      /\ [attempt[a] EXCEPT !.status = status].status = status
  BY <1>1 DEF AttemptRow
<1>3. attempt' = [attempt EXCEPT ![a] = [attempt[a] EXCEPT !.status = status]]
  OBVIOUS
<1> QED
  BY <1>1, <1>2, <1>3

LEMMA TicketMoved ==
  ASSUME CaptchaTypeOK, NEW t \in DOMAIN ticket, ticket' = [ticket EXCEPT ![t].used = TRUE]
  PROVE  /\ ticket' \in Seq(TicketRow) /\ Len(ticket') = Len(ticket)
         /\ DOMAIN ticket' = DOMAIN ticket
         /\ \A x \in DOMAIN ticket :
              /\ x # t => ticket'[x] = ticket[x]
              /\ ticket'[t].used
<1>1. /\ ticket \in Seq(TicketRow) /\ ticket[t] \in TicketRow
      /\ DOMAIN ticket = 1 .. Len(ticket) /\ Len(ticket) \in Nat
  BY CaptchaRows
<1>2. [ticket[t] EXCEPT !.used = TRUE] \in TicketRow /\ [ticket[t] EXCEPT !.used = TRUE].used
  BY <1>1 DEF TicketRow
<1>3. ticket' = [ticket EXCEPT ![t] = [ticket[t] EXCEPT !.used = TRUE]]
  OBVIOUS
<1> QED
  BY <1>1, <1>2, <1>3

\* What a request holds was there when it read it, and no row is ever deleted.
CallsKnown == \A r \in Caller :
  /\ call[r].at \in AtAttempt => call[r].attempt \in DOMAIN attempt
  /\ call[r].at \in AtTicket => call[r].ticket \in DOMAIN ticket

-----------------------------------------------------------------------------
(* The captcha: a proof is spent once                                      *)

Known(h) == /\ h.at \in AtAttempt => h.attempt \in DOMAIN attempt
            /\ h.at \in AtTicket => h.ticket \in DOMAIN ticket

\* An attempt that has earned its proof is past being verified, one that has
\* been presented is used up or has failed meanwhile, and so is a ticket.
EarnedDone == \A i \in DOMAIN earned :
  earned[i] \in DOMAIN attempt /\ attempt[earned[i]].status \notin {"pending", "verifying"}

Gone(e) ==
  \/ /\ e[1] = "attempt" /\ e[2] \in DOMAIN attempt
     /\ attempt[e[2]].status \in {"failed", "consumed"}
  \/ e[1] = "ticket" /\ e[2] \in DOMAIN ticket /\ ticket[e[2]].used
EnteredDone == \A i \in DOMAIN entered : Gone(entered[i])

GateInv == CaptchaTypeOK /\ CallsKnown /\ EarnedDone /\ EnteredDone /\ ProofsAreSpentOnce

\* What a step that hands out and takes in nothing leaves to show.
LEMMA GateKept ==
  ASSUME GateInv, CaptchaTypeOK', UNCHANGED <<earned, entered>>,
         DOMAIN attempt \subseteq DOMAIN attempt', DOMAIN ticket \subseteq DOMAIN ticket',
         \A x \in DOMAIN attempt :
           \/ attempt'[x].status = attempt[x].status
           \/ attempt[x].status \in {"pending", "verifying"}
           \/ attempt'[x].status = "failed",
         \A t \in DOMAIN ticket : ticket[t].used => ticket'[t].used,
         \A r \in Caller : call'[r] = call[r] \/ Known(call[r])'
  PROVE  GateInv'
<1>1. CallsKnown'
  BY DEF GateInv, CallsKnown, Known
<1>2. EarnedDone'
  BY DEF GateInv, EarnedDone
<1>3. \A e : Gone(e) => Gone(e)'
  BY DEF Gone
<1>4. EnteredDone'
  BY <1>3 DEF GateInv, EnteredDone
<1>5. ProofsAreSpentOnce'
  BY DEF GateInv, ProofsAreSpentOnce, Once
<1> QED
  BY <1>1, <1>2, <1>4, <1>5 DEF GateInv

LEMMA QuietCall ==
  ASSUME GateInv, NEW r \in Caller, NEW h \in Request, Go(r, h), Known(h),
         UNCHANGED <<attempt, ticket, earned, entered>>,
         policy' \in PolicyRow, profile' \in [Provider -> ProfileRow], failures' \in Nat
  PROVE  GateInv'
<1>1. call' \in [Caller -> Request] /\ CaptchaTypeOK
  BY GoesOn DEF GateInv
<1>2. CaptchaTypeOK'
  BY <1>1, CaptchaRows, CaptchaTyped
<1>3. \A x \in Caller : call'[x] = call[x] \/ Known(call[x])'
  BY <1>1, GoesTo DEF Known
<1> QED
  BY <1>2, <1>3, GateKept

LEMMA IdleKnown == Idle \in Request /\ Known(Idle)
BY DEF Request, Idle, Known, AtAttempt, AtTicket

LEMMA QuietEnd ==
  ASSUME GateInv, NEW r \in Caller, Done(r), UNCHANGED <<attempt, ticket, earned, entered>>,
         policy' \in PolicyRow, profile' \in [Provider -> ProfileRow], failures' \in Nat
  PROVE  GateInv'
BY IdleKnown, QuietCall DEF Done

LEMMA AttemptEnds ==
  ASSUME GateInv, NEW r \in Caller, NEW h \in Request, Go(r, h), Known(h),
         NEW a \in DOMAIN attempt, NEW status \in Status,
         attempt[a].status \in {"pending", "verifying"} \/ status = "failed",
         attempt' = [attempt EXCEPT ![a].status = status],
         UNCHANGED <<policy, ticket, failures, earned, entered>>,
         profile' \in [Provider -> ProfileRow]
  PROVE  GateInv'
<1>0. CaptchaTypeOK
  BY DEF GateInv
<1>1. /\ attempt' \in Seq(AttemptRow) /\ Len(attempt') = Len(attempt)
      /\ DOMAIN attempt' = DOMAIN attempt
      /\ \A x \in DOMAIN attempt : x # a => attempt'[x] = attempt[x]
      /\ attempt'[a].status = status
  BY <1>0, AttemptMoved
<1>2. call' \in [Caller -> Request]
  BY <1>0, GoesOn
<1>3. CaptchaTypeOK'
  BY <1>0, <1>1, <1>2, CaptchaRows, CaptchaTyped
<1>4. \A x \in Caller : call'[x] = call[x] \/ Known(call[x])'
  BY <1>0, <1>1, GoesTo DEF Known
<1> QED
  BY <1>1, <1>3, <1>4, GateKept

LEMMA GateAttempt ==
  ASSUME GateInv, NEW r \in Caller, AttemptStep(r)
  PROVE  GateInv'
<1>0. /\ CaptchaTypeOK /\ call[r] \in Request /\ Known(call[r])
      /\ policy \in PolicyRow /\ profile \in [Provider -> ProfileRow] /\ failures \in Nat
  BY CaptchaRows DEF GateInv, CallsKnown, Known
<1>1. ASSUME NEW a \in DOMAIN attempt, NEW place \in AtAttempt
      PROVE  [at |-> place, attempt |-> a] \in Request /\ Known([at |-> place, attempt |-> a])
  <2>1. a \in 1 .. MaxAttempts
    BY <1>0, CaptchaRows, CaptchaAssumption
  <2>2. [at |-> place, attempt |-> a] \in Request
    BY <2>1 DEF Request, AtAttempt
  <2> QED
    BY <2>2 DEF Known, AtAttempt, AtTicket
<1>2. CASE BeginAttempt(r)
  <2> PICK h : h = [at |-> "create", provider |-> policy.active, version |-> policy.version]
    OBVIOUS
  <2>1. h \in Request /\ Known(h)
    BY <1>0, <1>2 DEF BeginAttempt, Request, Known, PolicyRow, AtAttempt, AtTicket
  <2> QED
    BY <1>0, <1>2, <2>1, QuietCall DEF BeginAttempt, rows
<1>3. CASE CreateAttempt(r)
  <2>1. CASE Done(r) /\ UNCHANGED attempt
    BY <1>0, <1>3, <2>1, QuietEnd DEF CreateAttempt
  <2>2. CASE /\ Len(attempt) < MaxAttempts
             /\ attempt' = Append(attempt, [provider |-> call[r].provider,
                                            version |-> call[r].version, status |-> "pending"])
             /\ Go(r, [at |-> "prepare", attempt |-> Len(attempt) + 1])
    <3> DEFINE h == [at |-> "prepare", attempt |-> Len(attempt) + 1]
    <3>1. [provider |-> call[r].provider, version |-> call[r].version, status |-> "pending"] \in AttemptRow
      BY <1>0, <1>3, RequestHolds DEF CreateAttempt, At, AttemptRow, Status
    <3>2. /\ attempt' \in Seq(AttemptRow) /\ Len(attempt') = Len(attempt) + 1
          /\ DOMAIN attempt' = 1 .. Len(attempt) + 1
          /\ \A x \in DOMAIN attempt : attempt'[x] = attempt[x]
          /\ DOMAIN attempt \subseteq DOMAIN attempt'
      BY <1>0, <2>2, <3>1, CaptchaRows
    <3>3. h \in Request
      BY <1>0, <2>2, CaptchaRows, CaptchaAssumption DEF Request
    <3>4. call' \in [Caller -> Request]
      BY <1>0, <2>2, <3>3, GoesOn
    <3>5. CaptchaTypeOK'
      <4>1. UNCHANGED <<policy, profile, ticket, failures, earned, entered>>
        BY <1>3 DEF CreateAttempt
      <4>2. Len(attempt') <= MaxAttempts
        BY <1>0, <2>2, <3>2, CaptchaRows, CaptchaAssumption
      <4> QED
        BY <1>0, <3>2, <3>4, <4>1, <4>2, CaptchaRows, CaptchaTyped
    <3>6. \A x \in Caller : call'[x] = call[x] \/ Known(call[x])'
      BY <1>0, <2>2, <3>2, CaptchaRows, GoesTo DEF Known, AtTicket
    <3> QED
      BY <1>3, <3>2, <3>5, <3>6, GateKept DEF CreateAttempt
  <2> QED
    BY <1>3, <2>1, <2>2 DEF CreateAttempt
<1>4. CASE PrepareAttempt(r)
  <2>1. CASE UNCHANGED <<attempt, profile>>
    BY <1>0, <1>4, <2>1, QuietEnd DEF PrepareAttempt
  <2>2. CASE /\ attempt' = [attempt EXCEPT ![call[r].attempt].status = "failed"]
             /\ SetHealth(attempt[call[r].attempt].provider, "down")
    <3>1. call[r].attempt \in DOMAIN attempt
      BY <1>0, <1>4 DEF PrepareAttempt, At, Known, AtAttempt
    <3>2. attempt[call[r].attempt].provider \in Provider
      BY <1>0, <3>1, CaptchaRows DEF AttemptRow
    <3>3. profile' \in [Provider -> ProfileRow]
      BY <1>0, <2>2, <3>2, HealthType
    <3> QED
      BY <1>4, <2>2, <3>1, <3>3, IdleKnown, AttemptEnds DEF PrepareAttempt, Done, Status
  <2> QED
    BY <1>4, <2>1, <2>2 DEF PrepareAttempt
<1>5. ASSUME NEW a \in DOMAIN attempt, CheckAttempt(r, a) PROVE GateInv'
  BY <1>0, <1>1, <1>5, QuietCall DEF CheckAttempt, rows, AtAttempt
<1>6. CASE Reserve(r)
  <2>1. call[r].attempt \in DOMAIN attempt
    BY <1>0, <1>6 DEF Reserve, At, Known, AtAttempt
  <2>2. CASE MayReserve(call[r].attempt)
    <3>1. /\ attempt' = [attempt EXCEPT ![call[r].attempt].status = "verifying"]
          /\ Go(r, [at |-> "verify", attempt |-> call[r].attempt])
          /\ attempt[call[r].attempt].status = "pending"
          /\ UNCHANGED <<policy, profile, ticket, failures, earned, entered>>
      BY <1>6, <2>2 DEF Reserve, MayReserve
    <3>2. /\ [at |-> "verify", attempt |-> call[r].attempt] \in Request
          /\ Known([at |-> "verify", attempt |-> call[r].attempt])
      BY <1>1, <2>1 DEF AtAttempt
    <3> QED
      BY <1>0, <2>1, <3>1, <3>2, AttemptEnds DEF Status
  <2>3. CASE ~MayReserve(call[r].attempt)
    BY <1>0, <1>6, <2>3, QuietEnd DEF Reserve
  <2> QED
    BY <2>2, <2>3
<1>7. ASSUME call[r].attempt \in DOMAIN attempt, Leave(call[r].attempt, "failed"), Done(r),
             UNCHANGED <<policy, ticket, failures, earned, entered>>,
             profile' \in [Provider -> ProfileRow]
      PROVE  GateInv'
  <2>1. CASE UNCHANGED attempt
    BY <1>0, <1>7, <2>1, QuietEnd
  <2>2. CASE attempt' = [attempt EXCEPT ![call[r].attempt].status = "failed"]
    BY <1>0, <1>7, <2>2, IdleKnown, AttemptEnds DEF Done, Status
  <2> QED
    BY <1>7, <2>1, <2>2 DEF Leave
<1>8. CASE ProviderAnswers(r)
  <2>1. call[r].attempt \in DOMAIN attempt /\ UNCHANGED <<policy, ticket, failures, earned, entered>>
    BY <1>0, <1>8 DEF ProviderAnswers, At, Known, AtAttempt
  <2>2. CASE Go(r, [at |-> "recheck", attempt |-> call[r].attempt]) /\ UNCHANGED <<attempt, profile>>
    <3>1. /\ [at |-> "recheck", attempt |-> call[r].attempt] \in Request
          /\ Known([at |-> "recheck", attempt |-> call[r].attempt])
      BY <1>1, <2>1 DEF AtAttempt
    <3> QED
      BY <1>0, <2>1, <2>2, <3>1, QuietCall
  <2>3. CASE Leave(call[r].attempt, "failed") /\ Done(r) /\ UNCHANGED profile
    BY <1>0, <1>7, <2>1, <2>3
  <2>4. CASE /\ Leave(call[r].attempt, "failed") /\ Done(r)
             /\ \E h \in {"down", "down_5xx"} : SetHealth(attempt[call[r].attempt].provider, h)
    <3>1. attempt[call[r].attempt].provider \in Provider
      BY <1>0, <2>1, CaptchaRows DEF AttemptRow
    <3>2. profile' \in [Provider -> ProfileRow]
      BY <1>0, <2>4, <3>1, HealthType
    <3> QED
      BY <1>7, <2>1, <2>4, <3>2
  <2> QED
    BY <1>8, <2>2, <2>3, <2>4 DEF ProviderAnswers
<1>9. CASE Recheck(r)
  <2>1. /\ call[r].attempt \in DOMAIN attempt
        /\ UNCHANGED <<policy, profile, ticket, failures, earned, entered>>
    BY <1>0, <1>9 DEF Recheck, At, Known, AtAttempt
  <2>2. CASE Go(r, [at |-> "complete", attempt |-> call[r].attempt]) /\ UNCHANGED attempt
    <3>1. /\ [at |-> "complete", attempt |-> call[r].attempt] \in Request
          /\ Known([at |-> "complete", attempt |-> call[r].attempt])
      BY <1>1, <2>1 DEF AtAttempt
    <3> QED
      BY <1>0, <2>1, <2>2, <3>1, QuietCall
  <2>3. CASE Leave(call[r].attempt, "failed") /\ Done(r)
    BY <1>0, <1>7, <2>1, <2>3
  <2> QED
    BY <1>9, <2>2, <2>3 DEF Recheck
<1>10. CASE Complete(r)
  <2> PICK a : a = call[r].attempt
    OBVIOUS
  <2>1. /\ a \in DOMAIN attempt /\ Done(r) /\ Leave(a, "verified")
        /\ earned' = IF attempt[a].status = "verifying" THEN Append(earned, a) ELSE earned
        /\ UNCHANGED <<policy, profile, ticket, failures, entered>>
    BY <1>0, <1>10 DEF Complete, At, Known, AtAttempt
  <2>2. CASE attempt[a].status # "verifying"
    BY <1>0, <2>1, <2>2, QuietEnd DEF Leave
  <2>3. CASE attempt[a].status = "verifying"
    <3>1. attempt' = [attempt EXCEPT ![a].status = "verified"] /\ earned' = Append(earned, a)
      BY <2>1, <2>3 DEF Leave
    <3>2. /\ attempt' \in Seq(AttemptRow) /\ Len(attempt') = Len(attempt)
          /\ DOMAIN attempt' = DOMAIN attempt
          /\ \A x \in DOMAIN attempt : x # a => attempt'[x] = attempt[x]
          /\ attempt'[a].status = "verified"
      BY <1>0, <2>1, <3>1, AttemptMoved DEF Status
    <3>3. a \in 1 .. MaxAttempts /\ earned \in Seq(1 .. MaxAttempts) /\ Len(earned) \in Nat
          /\ DOMAIN earned = 1 .. Len(earned)
      BY <1>0, <2>1, CaptchaRows, CaptchaAssumption
    <3>4. /\ earned' \in Seq(1 .. MaxAttempts) /\ DOMAIN earned' = 1 .. Len(earned) + 1
          /\ earned'[Len(earned) + 1] = a
          /\ \A i \in DOMAIN earned : earned'[i] = earned[i]
      BY <3>1, <3>3
    <3>5. CaptchaTypeOK'
      BY <1>0, <2>1, <3>2, <3>4, IsDone, CaptchaRows, CaptchaTyped
    <3>6. CallsKnown'
      BY <1>0, <2>1, <3>2, GoesTo DEF GateInv, CallsKnown, Done, Idle, AtAttempt, AtTicket
    <3>7. \A i \in DOMAIN earned : earned[i] # a
      BY <2>3 DEF GateInv, EarnedDone
    <3>8. EarnedDone'
      BY <2>1, <3>2, <3>3, <3>4, <3>7 DEF GateInv, EarnedDone
    <3>9. \A e : Gone(e) => Gone(e)'
      BY <2>1, <2>3, <3>2 DEF Gone
    <3>10. EnteredDone'
      BY <2>1, <3>9 DEF GateInv, EnteredDone
    <3>11. ProofsAreSpentOnce'
      BY <2>1, <3>3, <3>4, <3>7 DEF GateInv, ProofsAreSpentOnce, Once
    <3> QED
      BY <3>5, <3>6, <3>8, <3>10, <3>11 DEF GateInv
  <2> QED
    BY <2>2, <2>3
<1> QED
  BY <1>2, <1>3, <1>4, <1>5, <1>6, <1>8, <1>9, <1>10 DEF AttemptStep

LEMMA GateRecovery ==
  ASSUME GateInv, NEW r \in Caller, RecoveryStep(r)
  PROVE  GateInv'
<1>0. /\ CaptchaTypeOK /\ call[r] \in Request /\ Known(call[r])
      /\ policy \in PolicyRow /\ profile \in [Provider -> ProfileRow] /\ failures \in Nat
  BY CaptchaRows DEF GateInv, CallsKnown, Known
<1>d. ASSUME NEW count \in Nat, Deny(r, count)
      PROVE  Done(r) /\ failures' \in Nat
  BY <1>0, <1>d DEF Deny
<1>1. CASE BeginTicket(r)
  <2> PICK h : h = [at |-> "outage", provider |-> policy.active, version |-> policy.version,
                    confirmed |-> profile[policy.active].confirmed]
    OBVIOUS
  <2>1. /\ policy.active \in Provider /\ policy.version \in 1 .. MaxVersion
        /\ profile[policy.active].confirmed \in BOOLEAN
    BY <1>0, <1>1 DEF BeginTicket, PolicyRow, ProfileRow
  <2>2. h \in Request /\ Known(h)
    BY <2>1 DEF Request, Known, AtAttempt, AtTicket
  <2> QED
    BY <1>0, <1>1, <2>2, QuietCall DEF BeginTicket, rows
<1>2. CASE IssueTicket(r)
  <2> PICK given : given = [provider |-> call[r].provider, version |-> call[r].version, used |-> FALSE]
    OBVIOUS
  <2>1. /\ ticket' = Append(ticket, given) /\ Len(ticket) < MaxTickets /\ Done(r)
        /\ UNCHANGED <<policy, profile, attempt, failures, earned, entered>>
    BY <1>2 DEF IssueTicket
  <2>2. given \in TicketRow
    BY <1>0, <1>2, RequestHolds DEF IssueTicket, At, TicketRow
  <2>3. /\ ticket' \in Seq(TicketRow) /\ Len(ticket') = Len(ticket) + 1
        /\ DOMAIN ticket \subseteq DOMAIN ticket'
        /\ \A t \in DOMAIN ticket : ticket'[t] = ticket[t]
    BY <1>0, <2>1, <2>2, CaptchaRows
  <2>4. Len(ticket') <= MaxTickets
    BY <1>0, <2>1, <2>3, CaptchaRows, CaptchaAssumption
  <2>5. CaptchaTypeOK'
    BY <1>0, <2>1, <2>3, <2>4, IsDone, CaptchaRows, CaptchaTyped
  <2>6. \A x \in Caller : call'[x] = call[x] \/ Known(call[x])'
    BY <1>0, <2>1, GoesTo DEF Done, Idle, Known, AtAttempt, AtTicket
  <2> QED
    BY <2>1, <2>3, <2>5, <2>6, GateKept
<1>3. CASE BeginRecovery(r)
  <2> PICK t \in DOMAIN ticket : Go(r, [at |-> "ticket", ticket |-> t, count |-> failures])
    BY <1>3 DEF BeginRecovery
  <2> PICK h : h = [at |-> "ticket", ticket |-> t, count |-> failures]
    OBVIOUS
  <2>1. t \in 1 .. MaxTickets
    BY <1>0, CaptchaRows, CaptchaAssumption
  <2>2. h \in Request /\ Known(h)
    BY <1>0, <2>1 DEF Request, Known, AtAttempt, AtTicket
  <2> QED
    BY <1>0, <1>3, <2>2, QuietCall DEF BeginRecovery, rows
<1>4. CASE CheckTicket(r)
  <2>1. call[r].at = "ticket" /\ UNCHANGED <<rows, earned, entered>> /\ call[r].count \in Nat
    BY <1>0, <1>4, RequestHolds DEF CheckTicket, At, AtTicket
  <2>2. CASE Go(r, [call[r] EXCEPT !.at = "health"]) /\ UNCHANGED failures
    <3> PICK h : h = [call[r] EXCEPT !.at = "health"]
      OBVIOUS
    <3>1. h \in Request
      BY <1>0, <2>1, RequestMoves
    <3>2. h.at = "health" /\ h.ticket = call[r].ticket
      BY <1>0, <2>1 DEF Request, Idle
    <3>3. Known(h)
      BY <1>0, <2>1, <3>2 DEF Known, AtAttempt, AtTicket
    <3> QED
      BY <1>0, <2>1, <2>2, <3>1, <3>3, QuietCall DEF rows
  <2>3. CASE Deny(r, call[r].count)
    BY <1>0, <1>d, <2>1, <2>3, QuietEnd DEF rows
  <2> QED
    BY <1>4, <2>2, <2>3 DEF CheckTicket
<1>5. ASSUME NEW h0 \in Health, RecoveryHealth(r, h0) PROVE GateInv'
  <2>1. /\ call[r].at = "health" /\ UNCHANGED <<policy, attempt, ticket, earned, entered>>
        /\ call[r].count \in Nat /\ call[r].ticket \in DOMAIN ticket
        /\ SetHealth(ticket[call[r].ticket].provider, h0)
    BY <1>0, <1>5, RequestHolds DEF RecoveryHealth, At, AtTicket, Known
  <2>2. ticket[call[r].ticket].provider \in Provider
    BY <1>0, <2>1, CaptchaRows DEF TicketRow
  <2>3. profile' \in [Provider -> ProfileRow]
    BY <1>0, <2>1, <2>2, HealthType
  <2>4. CASE Go(r, [call[r] EXCEPT !.at = "credentials"]) /\ UNCHANGED failures
    <3> PICK h : h = [call[r] EXCEPT !.at = "credentials"]
      OBVIOUS
    <3>1. h \in Request
      BY <1>0, <2>1, RequestMoves
    <3>2. h.at = "credentials" /\ h.ticket = call[r].ticket
      BY <1>0, <2>1 DEF Request, Idle
    <3>3. Known(h)
      BY <1>0, <2>1, <3>2 DEF Known, AtAttempt, AtTicket
    <3> QED
      BY <1>0, <2>1, <2>3, <2>4, <3>1, <3>3, QuietCall
  <2>5. CASE Deny(r, call[r].count)
    BY <1>0, <1>d, <2>1, <2>3, <2>5, QuietEnd
  <2> QED
    BY <1>5, <2>4, <2>5 DEF RecoveryHealth
<1>6. ASSUME NEW h0 \in Health, CheckOutage(r, h0) PROVE GateInv'
  <2>1. /\ call[r].at = "outage" /\ UNCHANGED <<policy, attempt, ticket, failures, earned, entered>>
        /\ SetHealth(call[r].provider, h0) /\ call[r].provider \in Provider
    BY <1>0, <1>6, RequestHolds DEF CheckOutage, At
  <2>2. profile' \in [Provider -> ProfileRow]
    BY <1>0, <2>1, HealthType
  <2>3. CASE Go(r, [call[r] EXCEPT !.at = "issue"])
    <3> PICK h : h = [call[r] EXCEPT !.at = "issue"]
      OBVIOUS
    <3>1. h \in Request
      BY <1>0, <2>1, RequestMoves
    <3>2. h.at = "issue"
      BY <1>0, <2>1 DEF Request, Idle
    <3>3. Known(h)
      BY <3>2 DEF Known, AtAttempt, AtTicket
    <3> QED
      BY <1>0, <2>1, <2>2, <2>3, <3>1, <3>3, QuietCall
  <2>4. CASE Done(r)
    BY <1>0, <2>1, <2>2, <2>4, QuietEnd
  <2> QED
    BY <1>6, <2>3, <2>4 DEF CheckOutage
<1>7. CASE RecoveryCredentials(r)
  <2> PICK t : t = call[r].ticket
    OBVIOUS
  <2>1. /\ t \in DOMAIN ticket /\ call[r].count \in Nat
        /\ UNCHANGED <<policy, profile, attempt, earned>>
    BY <1>0, <1>7, RequestHolds DEF RecoveryCredentials, At, AtTicket, Known
  <2>2. CASE Deny(r, call[r].count) /\ UNCHANGED <<ticket, entered>>
    BY <1>0, <1>d, <2>1, <2>2, QuietEnd
  <2>3. CASE /\ ~ticket[t].used /\ Done(r)
             /\ ticket' = [ticket EXCEPT ![t].used = TRUE]
             /\ failures' = failures + 1
             /\ entered' = Append(entered, <<"ticket", t>>)
    <3>1. /\ ticket' \in Seq(TicketRow) /\ Len(ticket') = Len(ticket)
          /\ DOMAIN ticket' = DOMAIN ticket
          /\ \A x \in DOMAIN ticket : x # t => ticket'[x] = ticket[x]
          /\ ticket'[t].used
      BY <1>0, <2>1, <2>3, TicketMoved
    <3>2. /\ <<"ticket", t>> \in Entry /\ entered \in Seq(Entry) /\ Len(entered) \in Nat
          /\ DOMAIN entered = 1 .. Len(entered)
      BY <1>0, <2>1, CaptchaRows, CaptchaAssumption DEF Entry
    <3>3. /\ entered' \in Seq(Entry) /\ DOMAIN entered' = 1 .. Len(entered) + 1
          /\ entered'[Len(entered) + 1] = <<"ticket", t>>
          /\ \A i \in DOMAIN entered : entered'[i] = entered[i]
      BY <2>3, <3>2
    <3>4. CaptchaTypeOK'
      BY <1>0, <2>1, <2>3, <3>1, <3>3, IsDone, CaptchaRows, CaptchaTyped
    <3>5. CallsKnown'
      BY <1>0, <2>1, <2>3, <3>1, GoesTo DEF GateInv, CallsKnown, Done, Idle, AtAttempt, AtTicket
    <3>6. EarnedDone'
      BY <2>1 DEF GateInv, EarnedDone
    <3>7. \A e : Gone(e) => Gone(e)'
      BY <2>1, <3>1 DEF Gone
    <3>8. \A i \in DOMAIN entered : entered[i] # <<"ticket", t>>
      BY <2>3 DEF GateInv, EnteredDone, Gone
    <3>9. Gone(<<"ticket", t>>)'
      BY <2>1, <3>1 DEF Gone
    <3>10. EnteredDone'
      BY <3>2, <3>3, <3>7, <3>9 DEF GateInv, EnteredDone
    <3>11. ProofsAreSpentOnce'
      BY <2>1, <3>2, <3>3, <3>8 DEF GateInv, ProofsAreSpentOnce, Once
    <3> QED
      BY <3>4, <3>5, <3>6, <3>10, <3>11 DEF GateInv
  <2> QED
    BY <1>7, <2>2, <2>3 DEF RecoveryCredentials, MayRedeemTicket
<1> QED
  BY <1>1, <1>2, <1>3, <1>4, <1>5, <1>6, <1>7 DEF RecoveryStep

LEMMA GatePolicy ==
  ASSUME GateInv, NEW r \in Caller, PolicyStep(r)
  PROVE  GateInv'
<1>0. /\ CaptchaTypeOK /\ call[r] \in Request /\ MaxVersion \in Nat
      /\ policy \in PolicyRow /\ profile \in [Provider -> ProfileRow] /\ failures \in Nat
  BY CaptchaRows, CaptchaAssumption DEF GateInv
<1>1. ASSUME policy.version < MaxVersion
      PROVE  /\ Bumped \in PolicyRow
             /\ \A on \in BOOLEAN : [Bumped EXCEPT !.enabled = on] \in PolicyRow
             /\ \A p \in Provider : [Bumped EXCEPT !.active = p] \in PolicyRow
  <2>1. Bumped \in PolicyRow
    BY <1>0, <1>1 DEF Bumped, PolicyRow
  <2> QED
    BY <2>1 DEF PolicyRow
<1>2. ASSUME NEW p \in Provider, BeginUpdate(r, p) PROVE GateInv'
  <2> PICK h : h = [at |-> "update", provider |-> p, active |-> profile[p].active]
    OBVIOUS
  <2>1. profile[p].active \in BOOLEAN
    BY <1>0 DEF ProfileRow
  <2>2. h \in Request /\ Known(h)
    BY <2>1 DEF Request, Known, AtAttempt, AtTicket
  <2> QED
    BY <1>0, <1>2, <2>2, QuietCall DEF BeginUpdate, rows
<1>3. ASSUME NEW p \in Provider, NEW h0 \in Health, BeginActivate(r, p, h0) PROVE GateInv'
  <2> PICK h : h = [at |-> "activate", provider |-> p]
    OBVIOUS
  <2>1. h \in Request /\ Known(h)
    BY DEF Request, Known, AtAttempt, AtTicket
  <2>2. profile' \in [Provider -> ProfileRow]
    BY <1>0, <1>3, HealthType DEF BeginActivate
  <2> QED
    BY <1>0, <1>3, <2>1, <2>2, QuietCall, QuietEnd DEF BeginActivate
<1>4. CASE UpdateProfile(r)
  <2> PICK h : h = [at |-> "bump"]
    OBVIOUS
  <2>1. h \in Request /\ Known(h)
    BY DEF Request, Known, AtAttempt, AtTicket
  <2>2. call[r].provider \in Provider
    BY <1>0, <1>4, RequestHolds DEF UpdateProfile, At
  <2>3. profile' \in [Provider -> ProfileRow]
    BY <1>0, <1>4, <2>2, HealthType DEF UpdateProfile
  <2> QED
    BY <1>0, <1>4, <2>1, <2>3, QuietCall, QuietEnd DEF UpdateProfile
<1>5. CASE BumpPolicyVersion(r)
  BY <1>0, <1>1, <1>5, QuietEnd DEF BumpPolicyVersion
<1>6. CASE ActivateProfile(r)
  <2>1. call[r].provider \in Provider
    BY <1>0, <1>6, RequestHolds DEF ActivateProfile, At
  <2>2. profile' \in [Provider -> ProfileRow]
    <3>1. \A q \in Provider : [profile[q] EXCEPT !.active = (q = call[r].provider)] \in ProfileRow
      BY <1>0 DEF ProfileRow
    <3> QED
      BY <1>6, <3>1 DEF ActivateProfile, OnlyActive
  <2> QED
    BY <1>0, <1>1, <1>6, <2>1, <2>2, QuietEnd DEF ActivateProfile
<1>7. ASSUME NEW on \in BOOLEAN, BeginPolicy(r, on) PROVE GateInv'
  <2> PICK h : h = [at |-> "policy", on |-> on, changed |-> on # policy.enabled]
    OBVIOUS
  <2>1. (on # policy.enabled) \in BOOLEAN
    OBVIOUS
  <2>2. h \in Request /\ Known(h)
    BY <2>1 DEF Request, Known, AtAttempt, AtTicket
  <2> QED
    BY <1>0, <1>7, <2>2, QuietCall DEF BeginPolicy, rows
<1>8. CASE UpdatePolicy(r)
  <2>1. call[r].on \in BOOLEAN
    BY <1>0, <1>8, RequestHolds DEF UpdatePolicy, At
  <2>2. [policy EXCEPT !.enabled = call[r].on] \in PolicyRow
    BY <1>0, <2>1 DEF PolicyRow
  <2>3. policy' \in PolicyRow
    BY <1>1, <1>8, <2>1, <2>2 DEF UpdatePolicy
  <2> QED
    BY <1>0, <1>8, <2>3, QuietEnd DEF UpdatePolicy
<1> QED
  BY <1>2, <1>3, <1>4, <1>5, <1>6, <1>7, <1>8 DEF PolicyStep

LEMMA GateStep ==
  ASSUME GateInv, [CaptchaNext]_captchaVars
  PROVE  GateInv'
<1>0. CaptchaTypeOK /\ profile \in [Provider -> ProfileRow] /\ failures \in Nat
  BY CaptchaRows DEF GateInv
<1>1. ASSUME UNCHANGED <<policy, attempt, ticket, call, earned, entered>>,
             profile' \in [Provider -> ProfileRow], failures' \in Nat
      PROVE  GateInv'
  <2>1. CaptchaTypeOK'
    BY <1>0, <1>1, CaptchaRows, CaptchaTyped
  <2> QED
    BY <1>1, <2>1, GateKept
<1>2. CASE UNCHANGED captchaVars
  BY <1>0, <1>1, <1>2 DEF captchaVars
<1>3. CASE WindowPasses
  BY <1>0, <1>1, <1>3 DEF WindowPasses, rows
<1>4. ASSUME NEW p \in Provider, CreateProfile(p) PROVE GateInv'
  <2>1. [profile[p] EXCEPT !.made = TRUE] \in ProfileRow
    BY <1>0 DEF ProfileRow
  <2>2. profile' = [profile EXCEPT ![p] = [profile[p] EXCEPT !.made = TRUE]]
    BY <1>4 DEF CreateProfile
  <2> QED
    BY <1>0, <1>1, <1>4, <2>1, <2>2 DEF CreateProfile
<1>5. ASSUME NEW p \in Provider, NEW h \in Health, TestProfile(p, h) PROVE GateInv'
  BY <1>0, <1>1, <1>5, HealthType DEF TestProfile
<1>6. ASSUME NEW a \in DOMAIN attempt, RequireVerification(a) PROVE GateInv'
  <2>1. /\ attempt' = [attempt EXCEPT ![a].status = "consumed"]
        /\ attempt[a].status = "verified"
        /\ entered' = Append(entered, <<"attempt", a>>)
        /\ UNCHANGED <<policy, profile, ticket, failures, call, earned>>
    BY <1>6 DEF RequireVerification
  <2>2. /\ attempt' \in Seq(AttemptRow) /\ Len(attempt') = Len(attempt)
        /\ DOMAIN attempt' = DOMAIN attempt
        /\ \A x \in DOMAIN attempt : x # a => attempt'[x] = attempt[x]
        /\ attempt'[a].status = "consumed"
    BY <1>0, <2>1, AttemptMoved DEF Status
  <2>3. /\ <<"attempt", a>> \in Entry /\ entered \in Seq(Entry) /\ Len(entered) \in Nat
        /\ DOMAIN entered = 1 .. Len(entered)
    BY <1>0, CaptchaRows, CaptchaAssumption DEF Entry
  <2>4. /\ entered' \in Seq(Entry) /\ DOMAIN entered' = 1 .. Len(entered) + 1
        /\ entered'[Len(entered) + 1] = <<"attempt", a>>
        /\ \A i \in DOMAIN entered : entered'[i] = entered[i]
    BY <2>1, <2>3
  <2>5. CaptchaTypeOK'
    BY <1>0, <2>1, <2>2, <2>4, CaptchaRows, CaptchaTyped
  <2>6. CallsKnown'
    BY <2>1, <2>2 DEF GateInv, CallsKnown
  <2>7. EarnedDone'
    BY <2>1, <2>2 DEF GateInv, EarnedDone
  <2>8. \A e : Gone(e) => Gone(e)'
    BY <2>1, <2>2 DEF Gone
  <2>9. \A i \in DOMAIN entered : entered[i] # <<"attempt", a>>
    BY <2>1, SMTT(20) DEF GateInv, EnteredDone, Gone
  <2>10. Gone(<<"attempt", a>>)'
    BY <2>2 DEF Gone
  <2>11. EnteredDone'
    BY <2>3, <2>4, <2>8, <2>10 DEF GateInv, EnteredDone
  <2>12. ProofsAreSpentOnce'
    BY <2>1, <2>3, <2>4, <2>9 DEF GateInv, ProofsAreSpentOnce, Once
  <2> QED
    BY <2>5, <2>6, <2>7, <2>11, <2>12 DEF GateInv
<1> QED
  BY <1>2, <1>3, <1>4, <1>5, <1>6, GateAttempt, GateRecovery, GatePolicy DEF CaptchaNext

LEMMA GateStarts ==
  ASSUME CaptchaInit
  PROVE  GateInv
<1>1. /\ policy \in PolicyRow /\ profile \in [Provider -> ProfileRow]
      /\ call \in [Caller -> Request] /\ \A r \in Caller : call[r] = Idle
  BY CaptchaAssumption DEF CaptchaInit, PolicyRow, ProfileRow, Request
<1>2. CaptchaTypeOK
  BY <1>1, CaptchaAssumption DEF CaptchaInit, CaptchaTypeOK, PolicyRow, ProfileRow
<1>3. CallsKnown
  BY <1>1 DEF CallsKnown, Idle, AtAttempt, AtTicket
<1>4. EarnedDone /\ EnteredDone /\ ProofsAreSpentOnce
  BY DEF CaptchaInit, EarnedDone, EnteredDone, ProofsAreSpentOnce
<1> QED
  BY <1>2, <1>3, <1>4 DEF GateInv

\* However many requests complete an attempt or redeem a proof or a ticket at
\* once, it earns one proof and lets one log-in through.
THEOREM OneLogInPerProof == CaptchaSpec => [](CaptchaTypeOK /\ ProofsAreSpentOnce)
<1>1. CaptchaInit => GateInv
  BY GateStarts
<1>2. GateInv /\ [CaptchaNext]_captchaVars => GateInv'
  BY GateStep
<1>3. GateInv => CaptchaTypeOK /\ ProofsAreSpentOnce
  BY DEF GateInv
<1> QED
  BY <1>1, <1>2, <1>3, PTL DEF CaptchaSpec
=============================================================================
