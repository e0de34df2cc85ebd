------------------------------ MODULE CaptchaGate ------------------------------
(***************************************************************************)
(* The captcha in front of the log-in: the policy, the provider profiles,  *)
(* attempts and the proofs they earn, and the recovery of a super          *)
(* administrator while the provider is down.                               *)
(*                                                                         *)
(* A request is one call of captcha.service.ts; every await between two    *)
(* accesses of the database is a place where another request may run.  A   *)
(* transaction is one step.  What the provider answers, and whether the    *)
(* password and the recovery key are right, is chosen freely; attempts and *)
(* tickets expire by not being presented any more.                         *)
(***************************************************************************)
EXTENDS Naturals, Sequences

CONSTANTS
  Provider, NoProvider,
  Caller,                              \* requests served at a time
  MaxVersion, MaxAttempts, MaxTickets  \* bounds on what is ever created

ASSUME CaptchaAssumption ==
  /\ NoProvider \notin Provider
  /\ MaxVersion \in Nat \ {0} /\ MaxAttempts \in Nat /\ MaxTickets \in Nat

VARIABLES
  policy,    \* the CaptchaPolicy row
  profile,   \* the CaptchaProviderProfile rows
  attempt,   \* the CaptchaAttempt rows
  ticket,    \* the CaptchaOutageTicket rows
  failures,  \* CaptchaRecoveryAttempt rows of the window, for one name and address
  call,      \* what each request is doing and what it has read
  earned,    \* history: the proofs handed out, one entry each
  entered    \* history: the log-ins let through, by attempt or by ticket

captchaVars == <<policy, profile, attempt, ticket, failures, call, earned, entered>>
rows == <<policy, profile, attempt, ticket>>

RECOVERY_RATE_LIMIT == 3
\* What a health check says.  Only whether the last one said PROVIDER_5XX is ever read.
Health == {"healthy", "down", "down_5xx"}
Status == {"pending", "verifying", "verified", "failed", "consumed"}
Idle == [at |-> "idle"]

\* What a request holds between two steps, by where it is.
Request ==
  {Idle} \cup [at : {"bump"}]
  \cup [at : {"create"}, provider : Provider, version : 1 .. MaxVersion]
  \cup [at : {"prepare", "reserve", "verify", "recheck", "complete"}, attempt : 1 .. MaxAttempts]
  \cup [at : {"outage", "issue"}, provider : Provider, version : 1 .. MaxVersion, confirmed : BOOLEAN]
  \cup [at : {"ticket", "health", "credentials"}, ticket : 1 .. MaxTickets, count : Nat]
  \cup [at : {"update"}, provider : Provider, active : BOOLEAN]
  \cup [at : {"activate"}, provider : Provider]
  \cup [at : {"policy"}, on : BOOLEAN, changed : BOOLEAN]

CaptchaTypeOK ==
  /\ policy \in [enabled : BOOLEAN, active : Provider \cup {NoProvider}, version : 1 .. MaxVersion]
  /\ profile \in [Provider -> [made : BOOLEAN, active : BOOLEAN, confirmed : BOOLEAN]]
  /\ attempt \in Seq([provider : Provider, version : 1 .. MaxVersion, status : Status])
  /\ Len(attempt) <= MaxAttempts
  /\ ticket \in Seq([provider : Provider, version : 1 .. MaxVersion, used : BOOLEAN])
  /\ Len(ticket) <= MaxTickets
  /\ failures \in Nat
  /\ call \in [Caller -> Request]
  /\ earned \in Seq(1 .. MaxAttempts)
  /\ entered \in Seq({"attempt"} \X (1 .. MaxAttempts) \cup {"ticket"} \X (1 .. MaxTickets))

CaptchaInit ==
  /\ policy = [enabled |-> FALSE, active |-> NoProvider, version |-> 1]
  /\ profile = [p \in Provider |-> [made |-> FALSE, active |-> FALSE, confirmed |-> FALSE]]
  /\ attempt = <<>> /\ ticket = <<>> /\ failures = 0
  /\ call = [r \in Caller |-> Idle]
  /\ earned = <<>> /\ entered = <<>>

At(r, place) == call[r].at = place
Go(r, next) == call' = [call EXCEPT ![r] = next]
Done(r) == Go(r, Idle)

\* Whether what a request holds was made under the policy as it is now.
Current(made) == /\ policy.enabled
                 /\ policy.version = made.version
                 /\ policy.active = made.provider

Bumped == [policy EXCEPT !.version = @ + 1]
SetHealth(p, h) == profile' = [profile EXCEPT ![p].confirmed = (h = "down_5xx")]

-----------------------------------------------------------------------------
(* Attempts                                                                *)

\* createAttempt: the policy, then the profile and the new row, then the
\* provider, which may be unreachable.
BeginAttempt(r) ==
  /\ At(r, "idle") /\ policy.enabled /\ policy.active # NoProvider
  /\ Go(r, [at |-> "create", provider |-> policy.active, version |-> policy.version])
  /\ UNCHANGED <<rows, failures, earned, entered>>

CreateAttempt(r) ==
  LET p == call[r].provider IN
  /\ At(r, "create")
  /\ \/ /\ profile[p].active /\ Len(attempt) < MaxAttempts
        /\ attempt' = Append(attempt, [provider |-> p, version |-> call[r].version,
                                       status |-> "pending"])
        /\ Go(r, [at |-> "prepare", attempt |-> Len(attempt) + 1])
     \/ /\ ~profile[p].active
        /\ UNCHANGED attempt
        /\ Done(r)
  /\ UNCHANGED <<policy, profile, ticket, failures, earned, entered>>

PrepareAttempt(r) ==
  /\ At(r, "prepare") /\ Done(r)
  /\ \/ UNCHANGED <<attempt, profile>>
     \/ /\ attempt' = [attempt EXCEPT ![call[r].attempt].status = "failed"]
        /\ SetHealth(attempt[call[r].attempt].provider, "down")
  /\ UNCHANGED <<policy, ticket, failures, earned, entered>>

\* completeAttempt: checks, reserves the row, asks the provider, checks the
\* policy again and hands out the proof.
CheckAttempt(r, a) ==
  /\ At(r, "idle") /\ attempt[a].status = "pending" /\ Current(attempt[a])
  /\ Go(r, [at |-> "reserve", attempt |-> a])
  /\ UNCHANGED <<rows, failures, earned, entered>>

MayReserve(a) == attempt[a].status = "pending"

Reserve(r) ==
  LET a == call[r].attempt IN
  /\ At(r, "reserve")
  /\ IF MayReserve(a)
       THEN /\ attempt' = [attempt EXCEPT ![a].status = "verifying"]
            /\ Go(r, [at |-> "verify", attempt |-> a])
       ELSE /\ UNCHANGED attempt
            /\ Done(r)
  /\ UNCHANGED <<policy, profile, ticket, failures, earned, entered>>

\* Moves the row on only while it is still being verified.
Leave(a, status) ==
  attempt' = IF attempt[a].status = "verifying" THEN [attempt EXCEPT ![a].status = status]
                                                ELSE attempt

ProviderAnswers(r) ==
  LET a == call[r].attempt IN
  /\ At(r, "verify")
  /\ \/ /\ Go(r, [at |-> "recheck", attempt |-> a])
        /\ UNCHANGED <<attempt, profile>>
     \/ /\ Leave(a, "failed") /\ Done(r)
        /\ UNCHANGED profile
     \/ /\ Leave(a, "failed") /\ Done(r)
        /\ \E h \in {"down", "down_5xx"} : SetHealth(attempt[a].provider, h)
  /\ UNCHANGED <<policy, ticket, failures, earned, entered>>

Recheck(r) ==
  LET a == call[r].attempt IN
  /\ At(r, "recheck")
  /\ IF Current(attempt[a])
       THEN /\ Go(r, [at |-> "complete", attempt |-> a])
            /\ UNCHANGED attempt
       ELSE /\ Leave(a, "failed")
            /\ Done(r)
  /\ UNCHANGED <<policy, profile, ticket, failures, earned, entered>>

Complete(r) ==
  LET a == call[r].attempt IN
  /\ At(r, "complete") /\ Done(r)
  /\ Leave(a, "verified")
  /\ earned' = IF attempt[a].status = "verifying" THEN Append(earned, a) ELSE earned
  /\ UNCHANGED <<policy, profile, ticket, failures, entered>>

\* requireVerification, one transaction; the log-in or the registration goes on after it.
RequireVerification(a) ==
  /\ attempt[a].status = "verified" /\ Current(attempt[a])
  /\ attempt' = [attempt EXCEPT ![a].status = "consumed"]
  /\ entered' = Append(entered, <<"attempt", a>>)
  /\ UNCHANGED <<policy, profile, ticket, failures, call, earned>>

-----------------------------------------------------------------------------
(* Recovery while the provider is down                                     *)

\* issueOutageTicket: a 5xx counts only when the check before it saw one too.
BeginTicket(r) ==
  /\ At(r, "idle") /\ policy.enabled /\ policy.active # NoProvider
  /\ Go(r, [at |-> "outage", provider |-> policy.active, version |-> policy.version,
            confirmed |-> profile[policy.active].confirmed])
  /\ UNCHANGED <<rows, failures, earned, entered>>

CheckOutage(r, h) ==
  /\ At(r, "outage")
  /\ SetHealth(call[r].provider, h)
  /\ IF h # "healthy" /\ (h = "down_5xx" => call[r].confirmed)
       THEN Go(r, [call[r] EXCEPT !.at = "issue"])
       ELSE Done(r)
  /\ UNCHANGED <<policy, attempt, ticket, failures, earned, entered>>

IssueTicket(r) ==
  /\ At(r, "issue") /\ Len(ticket) < MaxTickets
  /\ ticket' = Append(ticket, [provider |-> call[r].provider, version |-> call[r].version,
                               used |-> FALSE])
  /\ Done(r)
  /\ UNCHANGED <<policy, profile, attempt, failures, earned, entered>>

\* recoveryLogin: the failures of the window are counted first, and recorded
\* only as long as that count was below the limit.
Deny(r, count) ==
  /\ failures' = IF count < RECOVERY_RATE_LIMIT THEN failures + 1 ELSE failures
  /\ Done(r)

BeginRecovery(r) ==
  /\ At(r, "idle") /\ failures < RECOVERY_RATE_LIMIT
  /\ \E t \in DOMAIN ticket : Go(r, [at |-> "ticket", ticket |-> t, count |-> failures])
  /\ UNCHANGED <<rows, failures, earned, entered>>

CheckTicket(r) ==
  LET t == call[r].ticket IN
  /\ At(r, "ticket")
  /\ IF ~ticket[t].used /\ Current(ticket[t])
       THEN /\ Go(r, [call[r] EXCEPT !.at = "health"])
            /\ UNCHANGED failures
       ELSE Deny(r, call[r].count)
  /\ UNCHANGED <<rows, earned, entered>>

RecoveryHealth(r, h) ==
  /\ At(r, "health")
  /\ SetHealth(ticket[call[r].ticket].provider, h)
  /\ IF h = "healthy"
       THEN Deny(r, call[r].count)
       ELSE /\ Go(r, [call[r] EXCEPT !.at = "credentials"])
            /\ UNCHANGED failures
  /\ UNCHANGED <<policy, attempt, ticket, earned, entered>>

MayRedeemTicketMutant(t) == TRUE

MayRedeemTicket(t) == ~ticket[t].used

\* Credentials that are wrong are one more failure; right ones use the ticket up.
RecoveryCredentials(r) ==
  LET t == call[r].ticket IN
  /\ At(r, "credentials")
  /\ \/ /\ MayRedeemTicket(t) /\ Done(r)
        /\ ticket' = [ticket EXCEPT ![t].used = TRUE]
        /\ failures' = failures + 1
        /\ entered' = Append(entered, <<"ticket", t>>)
     \/ /\ Deny(r, call[r].count)
        /\ UNCHANGED <<ticket, entered>>
  /\ UNCHANGED <<policy, profile, attempt, earned>>

\* The window of the rate limit passes.
WindowPasses ==
  /\ failures > 0
  /\ failures' = 0
  /\ UNCHANGED <<rows, call, earned, entered>>

-----------------------------------------------------------------------------
(* Administration                                                          *)

CreateProfile(p) ==
  /\ ~profile[p].made
  /\ profile' = [profile EXCEPT ![p].made = TRUE]
  /\ UNCHANGED <<policy, attempt, ticket, failures, call, earned, entered>>

TestProfile(p, h) ==
  /\ profile[p].made
  /\ SetHealth(p, h)
  /\ UNCHANGED <<policy, attempt, ticket, failures, call, earned, entered>>

\* updateProfile with a new configuration: read, write, bump the policy.
BeginUpdate(r, p) ==
  /\ At(r, "idle") /\ profile[p].made
  /\ Go(r, [at |-> "update", provider |-> p, active |-> profile[p].active])
  /\ UNCHANGED <<rows, failures, earned, entered>>

UpdateProfile(r) ==
  /\ At(r, "update")
  /\ SetHealth(call[r].provider, "down")
  /\ IF call[r].active THEN Go(r, [at |-> "bump"]) ELSE Done(r)
  /\ UNCHANGED <<policy, attempt, ticket, failures, earned, entered>>

BumpPolicyVersion(r) ==
  /\ At(r, "bump") /\ policy.version < MaxVersion
  /\ policy' = Bumped
  /\ Done(r)
  /\ UNCHANGED <<profile, attempt, ticket, failures, earned, entered>>

\* activateProfile: the health check, then one transaction.
BeginActivate(r, p, h) ==
  /\ At(r, "idle") /\ profile[p].made
  /\ SetHealth(p, h)
  /\ IF h = "healthy" THEN Go(r, [at |-> "activate", provider |-> p]) ELSE Done(r)
  /\ UNCHANGED <<policy, attempt, ticket, failures, earned, entered>>

OnlyActive(p) == [q \in Provider |-> [profile[q] EXCEPT !.active = (q = p)]]

ActivateProfile(r) ==
  LET p == call[r].provider IN
  /\ At(r, "activate") /\ policy.version < MaxVersion
  /\ profile' = OnlyActive(p)
  /\ policy' = [Bumped EXCEPT !.active = p]
  /\ Done(r)
  /\ UNCHANGED <<attempt, ticket, failures, earned, entered>>

\* updatePolicy: what it decides on is read before it writes.
BeginPolicy(r, on) ==
  /\ At(r, "idle")
  /\ on => policy.active # NoProvider
  /\ Go(r, [at |-> "policy", on |-> on, changed |-> on # policy.enabled])
  /\ UNCHANGED <<rows, failures, earned, entered>>

UpdatePolicy(r) ==
  /\ At(r, "policy")
  /\ call[r].changed => policy.version < MaxVersion
  /\ policy' = [IF call[r].changed THEN Bumped ELSE policy EXCEPT !.enabled = call[r].on]
  /\ Done(r)
  /\ UNCHANGED <<profile, attempt, ticket, failures, earned, entered>>

-----------------------------------------------------------------------------
AttemptStep(r) ==
  \/ BeginAttempt(r) \/ CreateAttempt(r) \/ PrepareAttempt(r)
  \/ \E a \in DOMAIN attempt : CheckAttempt(r, a)
  \/ Reserve(r) \/ ProviderAnswers(r) \/ Recheck(r) \/ Complete(r)

RecoveryStep(r) ==
  \/ BeginTicket(r) \/ IssueTicket(r)
  \/ BeginRecovery(r) \/ CheckTicket(r) \/ RecoveryCredentials(r)
  \/ \E h \in Health : CheckOutage(r, h) \/ RecoveryHealth(r, h)

PolicyStep(r) ==
  \/ \E p \in Provider : BeginUpdate(r, p) \/ \E h \in Health : BeginActivate(r, p, h)
  \/ UpdateProfile(r) \/ BumpPolicyVersion(r) \/ ActivateProfile(r)
  \/ \E on \in BOOLEAN : BeginPolicy(r, on)
  \/ UpdatePolicy(r)

CaptchaNext ==
  \/ \E r \in Caller : AttemptStep(r) \/ RecoveryStep(r) \/ PolicyStep(r)
  \/ \E a \in DOMAIN attempt : RequireVerification(a)
  \/ \E p \in Provider : CreateProfile(p) \/ \E h \in Health : TestProfile(p, h)
  \/ WindowPasses

CaptchaSpec == CaptchaInit /\ [][CaptchaNext]_captchaVars

-----------------------------------------------------------------------------
(* What the gate promises                                                  *)

Once(s, e) == \A i, j \in DOMAIN s : s[i] = e /\ s[j] = e => i = j

\* One attempt earns one proof, and a proof or an outage ticket lets one
\* log-in through, however many requests complete or redeem it at once.
ProofsAreSpentOnce ==
  /\ \A i \in DOMAIN earned : Once(earned, earned[i])
  /\ \A i \in DOMAIN entered : Once(entered, entered[i])

\* While the captcha is required there is exactly one provider to ask: the one
\* the policy names is the one profile marked active, so a log-in is possible.
GateHasProvider ==
  /\ \A p \in Provider : profile[p].active <=> policy.active = p
  /\ policy.enabled => policy.active # NoProvider
=============================================================================
