----------------------------- MODULE BrowserSession -----------------------------
(***************************************************************************)
(* One browser: who it is signed in as, its login page with the dialog     *)
(* that resets a password, and its profile page.  The server, which is     *)
(* Accounts, answers at once; the answers arrive in any order, and leaving *)
(* a page or signing out does not stop them.                               *)
(*                                                                         *)
(* Texts, avatars and the captcha on the form are left out.                *)
(***************************************************************************)
EXTENDS Accounts, FiniteSets

CONSTANT MaxReplies    \* bound: answers on their way at a time

VARIABLES
  store,        \* authStore: the user shown, the session whose token is sent, restrictedRecovery
  isLoading,    \* the forms of the login page are busy
  resetDialog,  \* open, the step, the name typed, the challenge polled and the one it unlocked
  replies,      \* answers on their way to this browser
  resets        \* history: <<the account the dialog named, the one that got the password>>

browserVars == <<store, isLoading, resetDialog, replies, resets>>

SignedOut == [user |-> NoUser, session |-> 0, restricted |-> FALSE]
NoDialog == [open |-> FALSE, step |-> "request", name |-> NoUser, poll |-> 0, token |-> 0]

BrowserTypeOK ==
  /\ store \in [user : User \cup {NoUser}, session : 0 .. MaxSessions, restricted : BOOLEAN]
  /\ isLoading \in BOOLEAN
  /\ resetDialog \in [open : BOOLEAN, step : {"request", "confirm"}, name : User \cup {NoUser},
                      poll : 0 .. MaxCodes, token : 0 .. MaxCodes]
  /\ replies \subseteq [to : {"login", "recovery", "me", "expired", "requested", "status", "confirmed"},
                        user : User \cup {NoUser}, number : Nat]
  /\ resets \subseteq (User \cup {NoUser}) \X User

BrowserInit == /\ store = SignedOut /\ isLoading = FALSE /\ resetDialog = NoDialog
               /\ replies = {} /\ resets = {}

Reply(to, u, n) == [to |-> to, user |-> u, number |-> n]
Await(r) == /\ Cardinality(replies) < MaxReplies /\ r \notin replies
            /\ replies' = replies \cup {r}

\* The session or challenge a request of this step has just made, or 0.
Made(f, new) == IF Len(new) = Len(f) THEN 0 ELSE Len(new)

-----------------------------------------------------------------------------
(* Signing in and out.                                                     *)

\* The forms answer with a session, or with the words to type in the QQ group.
Submit(u) == /\ ~isLoading /\ isLoading' = TRUE
             /\ Await(Reply("login", u, Made(session, session')))
             /\ UNCHANGED <<store, resetDialog, resets>>

HandleLogin(u) == LoginUser(u) /\ Submit(u)
HandleRegister(u, n) == RegisterUser(u, n) /\ Submit(u)

RecoveryLogin(u) ==
  /\ RecoverySession(u) /\ Await(Reply("recovery", u, Made(session, session')))
  /\ UNCHANGED <<store, isLoading, resetDialog, resets>>

SessionArrives(r) ==
  /\ r.to \in {"login", "recovery"}
  /\ store' = IF r.number = 0 THEN store
              ELSE [user |-> r.user, session |-> r.number, restricted |-> r.to = "recovery"]
  /\ isLoading' = (isLoading /\ r.to = "recovery")
  /\ UNCHANGED <<resetDialog, resets>>

\* Nothing is sent to the server: it goes on accepting the session's tokens.
HandleLogout ==
  /\ store.session # 0 /\ store' = SignedOut
  /\ UNCHANGED <<accountsVars, isLoading, resetDialog, replies, resets>>

-----------------------------------------------------------------------------
(* The profile of whoever is signed in.  A restricted session is kept away  *)
(* from every page but the captcha's settings.                             *)

FetchProfile ==
  /\ store.session # 0 /\ ~store.restricted
  /\ Await(IF Accepted(<<store.session, "access">>)
             THEN Reply("me", session[store.session].user, 0) ELSE Reply("expired", NoUser, 0))
  /\ UNCHANGED <<accountsVars, store, isLoading, resetDialog, resets>>

\* Mutant: a profile that says nothing of a restriction lifts it.
KeptRestrictionMutant == FALSE
\* updateUser keeps what the profile does not say.
KeptRestriction == store.restricted

ProfileArrives(r) ==
  /\ r.to = "me"
  /\ store' = [store EXCEPT !.user = r.user, !.restricted = KeptRestriction]
  /\ UNCHANGED <<isLoading, resetDialog, resets>>

\* Whoever is signed in by now is signed out, and the browser loads /login anew.
ExpiryArrives(r) ==
  /\ r.to = "expired" /\ store' = SignedOut
  /\ isLoading' = FALSE /\ resetDialog' = NoDialog /\ UNCHANGED resets

-----------------------------------------------------------------------------
(* The dialog that resets a password.                                      *)

OpenResetDialog ==
  /\ ~resetDialog.open /\ resetDialog' = [NoDialog EXCEPT !.open = TRUE]
  /\ UNCHANGED <<accountsVars, store, isLoading, replies, resets>>

CloseResetDialog ==
  /\ resetDialog.open /\ resetDialog' = NoDialog
  /\ UNCHANGED <<accountsVars, store, isLoading, replies, resets>>

\* Back to the first step; the challenge and what it unlocked stay.
SendAgain ==
  /\ resetDialog.open /\ resetDialog.step = "confirm"
  /\ resetDialog' = [resetDialog EXCEPT !.step = "request"]
  /\ UNCHANGED <<accountsVars, store, isLoading, replies, resets>>

HandleRequestReset(u) ==
  /\ resetDialog.open /\ resetDialog.step = "request" /\ ~isLoading /\ isLoading' = TRUE
  /\ RequestPasswordReset(u) /\ Await(Reply("requested", u, Made(code, code')))
  /\ UNCHANGED <<store, resetDialog, resets>>

RequestedArrives(r) ==
  /\ r.to = "requested" /\ isLoading' = FALSE
  /\ resetDialog' = [open |-> resetDialog.open, step |-> "confirm", name |-> r.user,
                     poll |-> r.number, token |-> 0]
  /\ UNCHANGED <<store, resets>>

\* Every few seconds.  Only the answer that brings a token changes anything.
CheckStatus ==
  /\ resetDialog.step = "confirm" /\ resetDialog.token = 0
  /\ LET c == resetDialog.poll IN
       /\ c # 0 /\ Redeemable(c, "reset") /\ code[c].verified
       /\ Await(Reply("status", NoUser, c))
  /\ UNCHANGED <<accountsVars, store, isLoading, resetDialog, resets>>

\* The answer is not told apart from one to an earlier request.
StatusArrives(r) ==
  /\ r.to = "status" /\ resetDialog' = [resetDialog EXCEPT !.token = r.number]
  /\ UNCHANGED <<store, isLoading, resets>>

\* With the token, when there is one, or else with a code sent to the account named.
HandleConfirmReset(c) ==
  LET byToken == resetDialog.token # 0 IN
  /\ resetDialog.open /\ resetDialog.step = "confirm" /\ ~isLoading /\ isLoading' = TRUE
  /\ IF byToken THEN c = resetDialog.token ELSE code[c].user = resetDialog.name
  /\ ConfirmPasswordReset(c, byToken)
  /\ resets' = resets \cup {<<resetDialog.name, code[c].user>>}
  /\ Await(Reply("confirmed", NoUser, 0)) /\ UNCHANGED <<store, resetDialog>>

ConfirmedArrives(r) ==
  /\ r.to = "confirmed" /\ isLoading' = FALSE /\ resetDialog' = NoDialog
  /\ UNCHANGED <<store, resets>>

-----------------------------------------------------------------------------
ReplyArrives(r) ==
  /\ \/ SessionArrives(r) \/ ProfileArrives(r) \/ ExpiryArrives(r)
     \/ RequestedArrives(r) \/ StatusArrives(r) \/ ConfirmedArrives(r)
  /\ replies' = IF r.to = "expired" THEN {} ELSE replies \ {r}
  /\ UNCHANGED accountsVars

LoginStep(u) == HandleLogin(u) \/ RecoveryLogin(u) \/ \E n \in QQ : HandleRegister(u, n)
ProfilePageStep == FetchProfile \/ HandleLogout
ResetDialogStep ==
  \/ OpenResetDialog \/ CloseResetDialog \/ SendAgain \/ CheckStatus
  \/ \E u \in User : HandleRequestReset(u)
  \/ \E c \in Codes : HandleConfirmReset(c)

BrowserNext ==
  \/ ProfilePageStep \/ ResetDialogStep
  \/ \E u \in User : LoginStep(u)
  \/ \E r \in replies : ReplyArrives(r)

\* Other browsers and the group's bot go on using the server.
BrowserSpec == AccountsInit /\ BrowserInit
               /\ [][BrowserNext \/ (AccountsNext /\ UNCHANGED browserVars)]_<<accountsVars, browserVars>>

-----------------------------------------------------------------------------
\* A browser signed in by the backup key sees the captcha's settings and nothing
\* else, and any other session all its pages, whatever late answers for an
\* earlier session still arrive.
RecoveryStaysRestricted ==
  store.session # 0 => (store.restricted <=> session[store.session].type = "recovery")

\* The user shown is the one whose session the requests carry.
ShownIsSignedIn == store.session # 0 => store.user = session[store.session].user

\* A password is reset for the account the dialog names.
ResetsNamedAccount == \A r \in resets : r[1] = r[2]

\* Nobody is signed out by an answer to an earlier session's request.
SessionsEndByTheirOwn ==
  [][\A r \in replies : ExpiryArrives(r) /\ store.session # 0 =>
       ~Accepted(<<store.session, "access">>)]_browserVars
=============================================================================
