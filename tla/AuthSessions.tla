---- MODULE AuthSessions ----
\* The auth-service (services/auth-service/internal/services): accounts,
\* sessions with rotating refresh tokens, passwords, one-time codes and
\* the second factor of one user, as the methods of AuthService perform
\* them.  Every call is a process; each statement it runs is a step and
\* there are no transactions.  Sessions, passwords, codes and TOTP secrets
\* are named by the call that made them.
\*
\* Left out: expiry of tokens and codes, the pending-MFA and blacklist
\* keys (written, never read), the verified marks and the delivery of
\* codes and mails.
EXTENDS Integers, FiniteSets, Sequences

CONSTANTS
    AuthCalls,        \* calls of AuthService; each is used once (bounds everything)
    CalledMethods,    \* the methods that are called
    MaxTrials,        \* wrong guesses a code survives (5 in SendOTP)
    MaxAuthFaults     \* statements that fail, calls that end early (bounds them)

Methods == {"register", "oauth", "login", "refresh", "logout", "logout_all", "reset", "change",
            "send_code", "verify_code", "setup", "verify", "disable"}
Nil == "nil"
NoSecret == "empty"   \* what DisableMFA stores: a secret of no letters, which is not NULL
ASSUME AuthAssumption ==
    /\ Nil \notin AuthCalls /\ NoSecret \notin AuthCalls /\ IsFiniteSet(AuthCalls)
    /\ CalledMethods \subseteq Methods /\ MaxTrials \in Nat /\ MaxAuthFaults \in Nat

VARIABLES
    call,             \* what each call is doing
    account,          \* the user has a row in users
    password,         \* users.password_hash
    mfa,              \* users.mfa_enabled and mfa_secret
    session,          \* the session each call created
    codes, spent,     \* otp_codes, oldest first, and those with is_used
    trials,           \* otp_codes.attempts
    limited,          \* the otp:rl key
    authFaults,
    signedOut,        \* what was over when every session was revoked, and what was opened with it
    contested,        \* sessions and codes two calls worked on at once, so far
    overtaken         \* setups and verifications under way when a second factor was confirmed

userVars == <<account, password, mfa>>
codeVars == <<codes, spent, trials, limited>>
authVars == <<call, userVars, session, codeVars, authFaults, signedOut, contested, overtaken>>

CallSteps == {"idle", "insert", "issue", "revoke", "drop", "overwrite", "sweep", "replace", "void",
              "mint", "use", "count", "save", "confirm", "off", "ok", "refused", "failed"}
Finished == {"ok", "refused", "failed"}
\* on: the session, password, code or secret a call has read.
CallRecords == [step : CallSteps, method : Methods \cup {Nil}, on : AuthCalls \cup {Nil, NoSecret}]
IdleCall == [step |-> "idle", method |-> Nil, on |-> Nil]

AuthInit ==
    /\ call = [q \in AuthCalls |-> IdleCall]
    /\ account \in BOOLEAN /\ password = Nil /\ mfa = [on |-> FALSE, secret |-> Nil]
    /\ session = [q \in AuthCalls |-> "none"]
    /\ codes = <<>> /\ spent = {} /\ trials = [q \in AuthCalls |-> 0] /\ limited = FALSE
    /\ authFaults = 0 /\ signedOut = {} /\ contested = {} /\ overtaken = {}

--------
AuthGoes(q, step) == call' = [call EXCEPT ![q].step = step]
AuthFault == authFaults < MaxAuthFaults /\ authFaults' = authFaults + 1
NoAuthFault == UNCHANGED authFaults
Busy == {q \in AuthCalls : call[q].step \notin Finished \cup {"idle"}}

\* A call starts; x is what it has read.
Starts(q, method, x, step) ==
    /\ call[q].step = "idle" /\ method \in CalledMethods
    /\ call' = [call EXCEPT ![q] = [step |-> step, method |-> method, on |-> x]]
    /\ contested' = IF x \in AuthCalls /\ \E p \in Busy : call[p].on = x
                    THEN contested \cup {x} ELSE contested
NothingWritten == UNCHANGED <<userVars, session, codeVars, authFaults, overtaken>>

--------
\* Accounts and sessions.

\* Register refuses a known address; a user who comes through OAuth with it is signed in.
FindAccount(q, method) ==
    /\ method \in {"register", "oauth"}
    /\ Starts(q, method, Nil, IF ~account THEN "insert"
                              ELSE IF method = "oauth" THEN "issue" ELSE "refused")
    /\ NothingWritten /\ UNCHANGED signedOut

\* Mutant: a duplicate is taken for the same user.
CreateUserTwice(q) ==
    /\ call[q].step = "insert"
    /\ account' = TRUE /\ AuthGoes(q, "issue")
    /\ UNCHANGED <<password, mfa, session, codeVars, authFaults, signedOut, contested, overtaken>>

\* The unique keys of users decide between two inserts.
CreateUser(q) ==
    /\ call[q].step = "insert"
    /\ \/ ~account /\ account' = TRUE /\ AuthGoes(q, "issue") /\ NoAuthFault
       \/ account /\ UNCHANGED account /\ AuthGoes(q, "refused") /\ NoAuthFault
       \/ UNCHANGED account /\ AuthGoes(q, "failed") /\ AuthFault
    /\ UNCHANGED <<password, mfa, session, codeVars, signedOut, contested, overtaken>>

\* The right password signs in, unless the second factor is asked for first.
Login(q) ==
    /\ account
    /\ Starts(q, "login", Nil, IF mfa.on THEN "refused" ELSE "issue")
    /\ NothingWritten /\ UNCHANGED signedOut

\* issueTokenPair: the row of the session; the tokens are handed out after it.
IssueTokenPair(q) ==
    /\ call[q].step = "issue"
    /\ \/ session' = [session EXCEPT ![q] = "live"] /\ AuthGoes(q, "ok") /\ NoAuthFault
       \/ UNCHANGED session /\ AuthGoes(q, "failed") /\ AuthFault
    /\ UNCHANGED <<userVars, codeVars, signedOut, contested, overtaken>>

\* Whatever session a refresh starts from, it inherits that it was signed out.
Inherits(q, s) == signedOut' = IF s \in signedOut THEN signedOut \cup {q} ELSE signedOut

\* Mutant: the mark is not looked at.
RefreshTokenUnchecked(q, s) ==
    /\ session[s] # "none" /\ call[s].step = "ok"
    /\ Starts(q, "refresh", s, "revoke")
    /\ Inherits(q, s) /\ NothingWritten

\* The token's session is read, and must not be revoked.
RefreshToken(q, s) ==
    /\ session[s] # "none" /\ call[s].step = "ok"
    /\ Starts(q, "refresh", s, IF session[s] = "live" THEN "revoke" ELSE "refused")
    /\ Inherits(q, s) /\ NothingWritten

\* By id, whatever the row says by now; the new session comes after.
RevokeOldSession(q) ==
    /\ call[q].step = "revoke"
    /\ \/ /\ session' = [session EXCEPT ![call[q].on] = "revoked"]
          /\ AuthGoes(q, "issue") /\ NoAuthFault
       \/ UNCHANGED session /\ AuthGoes(q, "failed") /\ AuthFault
    /\ UNCHANGED <<userVars, codeVars, signedOut, contested, overtaken>>

\* Logout: the session is read for its id, then revoked.
FindForLogout(q, s) ==
    /\ session[s] # "none" /\ call[s].step = "ok"
    /\ Starts(q, "logout", s, "drop")
    /\ NothingWritten /\ UNCHANGED signedOut

RevokeSession(q) ==
    /\ call[q].step = "drop"
    /\ \/ /\ session' = [session EXCEPT ![call[q].on] = "revoked"]
          /\ AuthGoes(q, "ok") /\ NoAuthFault
       \/ UNCHANGED session /\ AuthGoes(q, "failed") /\ AuthFault
    /\ UNCHANGED <<userVars, codeVars, signedOut, contested, overtaken>>

\* One UPDATE over the user's rows.
RevokeAllUserSessions ==
    session' = [s \in AuthCalls |-> IF session[s] = "live" THEN "revoked" ELSE session[s]]
Over == {q \in AuthCalls : session[q] # "none" /\ call[q].step \in Finished}

LogoutAll(q) ==
    /\ \/ /\ Starts(q, "logout_all", Nil, "ok")
          /\ RevokeAllUserSessions /\ signedOut' = signedOut \cup Over /\ NoAuthFault
       \/ Starts(q, "logout_all", Nil, "failed") /\ UNCHANGED <<session, signedOut>> /\ AuthFault
    /\ UNCHANGED <<userVars, codeVars, overtaken>>

--------
\* Passwords.

\* The mail's token is valid; it is not spent by use.
StartReset(q) ==
    /\ account
    /\ Starts(q, "reset", Nil, "overwrite")
    /\ NothingWritten /\ UNCHANGED signedOut

\* UpdatePassword replaces what is there by now.
UpdatePassword(q, step) ==
    /\ \/ /\ password' = q /\ AuthGoes(q, step) /\ NoAuthFault
       \/ UNCHANGED password /\ AuthGoes(q, "failed") /\ AuthFault
    /\ UNCHANGED <<account, mfa, session, codeVars, signedOut, contested, overtaken>>

OverwritePassword(q) == call[q].step = "overwrite" /\ UpdatePassword(q, "sweep")

\* The error of the second statement is dropped.
SweepSessions(q) ==
    /\ call[q].step = "sweep"
    /\ \/ RevokeAllUserSessions /\ signedOut' = signedOut \cup Over /\ NoAuthFault
       \/ UNCHANGED <<session, signedOut>> /\ AuthFault
    /\ AuthGoes(q, "ok")
    /\ UNCHANGED <<userVars, codeVars, contested, overtaken>>

\* ChangePassword: the old one is checked; no session is revoked.
StartChange(q) ==
    /\ account
    /\ Starts(q, "change", password, "replace")
    /\ NothingWritten /\ UNCHANGED signedOut

ReplacePassword(q) == call[q].step = "replace" /\ UpdatePassword(q, "ok")

--------
\* One-time codes.

\* One a minute; if Redis does not answer, as many as are asked for.
RateLimitCode(q) ==
    /\ account
    /\ \/ /\ Starts(q, "send_code", Nil, IF limited THEN "refused" ELSE "void")
          /\ limited' = TRUE /\ NoAuthFault
       \/ Starts(q, "send_code", Nil, "void") /\ UNCHANGED limited /\ AuthFault
    /\ UNCHANGED <<userVars, session, codes, spent, trials, signedOut, overtaken>>

LimitExpires ==
    /\ limited /\ limited' = FALSE
    /\ UNCHANGED <<call, userVars, session, codes, spent, trials, authFaults, signedOut,
                   contested, overtaken>>

\* The error is dropped.
InvalidateCodes(q) ==
    /\ call[q].step = "void"
    /\ \/ spent' = spent \cup {codes[i] : i \in DOMAIN codes} /\ NoAuthFault
       \/ UNCHANGED spent /\ AuthFault
    /\ AuthGoes(q, "mint")
    /\ UNCHANGED <<userVars, session, codes, trials, limited, signedOut, contested, overtaken>>

CreateCode(q) ==
    /\ call[q].step = "mint"
    /\ \/ codes' = Append(codes, q) /\ AuthGoes(q, "ok") /\ NoAuthFault
       \/ UNCHANGED codes /\ AuthGoes(q, "failed") /\ AuthFault
    /\ UNCHANGED <<userVars, session, spent, trials, limited, signedOut, contested, overtaken>>

\* FindActiveOTP: the newest code that is not spent.
Unspent == {i \in DOMAIN codes : codes[i] \notin spent}
IsActiveCode(c) == \E i \in Unspent : codes[i] = c /\ \A j \in Unspent : j <= i

TrialsLeft(c) == trials[c] < MaxTrials

\* ValidateOTP: the code is read; the guess is right or wrong.
CheckCode(q, c) ==
    /\ IsActiveCode(c)
    /\ \E verdict \in {"use", "count"} :
          Starts(q, "verify_code", c, IF TrialsLeft(c) THEN verdict ELSE "refused")
    /\ NothingWritten /\ UNCHANGED signedOut

\* A wrong guess is counted after it was judged, a right one marks the code by id.
CountTrial(q) ==
    /\ call[q].step = "count"
    /\ \/ trials' = [trials EXCEPT ![call[q].on] = @ + 1] /\ AuthGoes(q, "refused") /\ NoAuthFault
       \/ UNCHANGED trials /\ AuthGoes(q, "failed") /\ AuthFault
    /\ UNCHANGED <<userVars, session, codes, spent, limited, signedOut, contested, overtaken>>

UseCode(q) ==
    /\ call[q].step = "use"
    /\ \/ spent' = spent \cup {call[q].on} /\ AuthGoes(q, "issue") /\ NoAuthFault
       \/ UNCHANGED spent /\ AuthGoes(q, "failed") /\ AuthFault
    /\ UNCHANGED <<userVars, session, codes, trials, limited, signedOut, contested, overtaken>>

--------
\* The second factor.

\* Mutant: a second factor in use is not looked at.
StartSetupAnyway(q) ==
    /\ account
    /\ Starts(q, "setup", Nil, "save")
    /\ NothingWritten /\ UNCHANGED signedOut

StartSetup(q) ==
    /\ account
    /\ Starts(q, "setup", Nil, IF mfa.on THEN "refused" ELSE "save")
    /\ NothingWritten /\ UNCHANGED signedOut

\* UpdateMFASecret overwrites secret and mark, whatever they are by now.
UpdateMFASecret(q, secret, on, step) ==
    /\ \/ mfa' = [on |-> on, secret |-> secret] /\ AuthGoes(q, step) /\ NoAuthFault
       \/ UNCHANGED mfa /\ AuthGoes(q, "failed") /\ AuthFault
    /\ UNCHANGED <<account, password, session, codeVars, signedOut, contested>>

SaveSecret(q) ==
    /\ call[q].step = "save" /\ UpdateMFASecret(q, q, FALSE, "ok") /\ UNCHANGED overtaken

\* The code is one of the secret that is read, which after a DisableMFA is the empty one.
VerifyMFA(q) ==
    /\ account /\ mfa.secret # Nil
    /\ Starts(q, "verify", mfa.secret, IF mfa.on THEN "issue" ELSE "confirm")
    /\ NothingWritten /\ UNCHANGED signedOut

ConfirmSecret(q) ==
    /\ call[q].step = "confirm" /\ UpdateMFASecret(q, call[q].on, TRUE, "issue")
    /\ overtaken' = overtaken \cup {p \in AuthCalls \ {q} : call[p].step \in {"save", "confirm"}}

DisableMFA(q) ==
    /\ account /\ mfa.on
    /\ Starts(q, "disable", mfa.secret, "off")
    /\ NothingWritten /\ UNCHANGED signedOut

ClearSecret(q) ==
    /\ call[q].step = "off" /\ UpdateMFASecret(q, NoSecret, FALSE, "ok") /\ UNCHANGED overtaken

\* The process or the caller's context ends.
AuthAbort(q) ==
    /\ q \in Busy /\ AuthFault /\ AuthGoes(q, "failed")
    /\ UNCHANGED <<userVars, session, codeVars, signedOut, contested, overtaken>>

AuthNext ==
    \/ \E q \in AuthCalls :
          \/ \E method \in {"register", "oauth"} : FindAccount(q, method)
          \/ \E s \in AuthCalls : RefreshToken(q, s) \/ FindForLogout(q, s) \/ CheckCode(q, s)
          \/ CreateUser(q) \/ Login(q) \/ IssueTokenPair(q) \/ RevokeOldSession(q)
          \/ RevokeSession(q) \/ LogoutAll(q)
          \/ StartReset(q) \/ OverwritePassword(q) \/ SweepSessions(q)
          \/ StartChange(q) \/ ReplacePassword(q)
          \/ RateLimitCode(q) \/ InvalidateCodes(q) \/ CreateCode(q) \/ CountTrial(q) \/ UseCode(q)
          \/ StartSetup(q) \/ SaveSecret(q) \/ VerifyMFA(q) \/ ConfirmSecret(q)
          \/ DisableMFA(q) \/ ClearSecret(q) \/ AuthAbort(q)
    \/ LimitExpires

AuthSpec == AuthInit /\ [][AuthNext]_authVars

--------
\* Properties.

\* Sessions, codes and secrets come from the calls that make them, and one call creates
\* the account.
AuthTypeOK ==
    /\ call \in [AuthCalls -> CallRecords]
    /\ account \in BOOLEAN /\ password \in AuthCalls \cup {Nil}
    /\ mfa \in [on : BOOLEAN, secret : AuthCalls \cup {Nil, NoSecret}] /\ (mfa.on => mfa.secret # Nil)
    /\ session \in [AuthCalls -> {"none", "live", "revoked"}]
    /\ codes \in Seq(AuthCalls) /\ Len(codes) <= Cardinality(AuthCalls)
    /\ spent \subseteq AuthCalls /\ trials \in [AuthCalls -> 0..Cardinality(AuthCalls)]
    /\ limited \in BOOLEAN /\ authFaults \in 0..MaxAuthFaults
    /\ signedOut \cup contested \cup overtaken \subseteq AuthCalls
    /\ Cardinality({q \in AuthCalls : call[q].method = "register" /\ session[q] # "none"}) <= 1

\* When "log out everywhere" or a password reset has revoked the sessions, whoever was
\* signed in stays out: neither those sessions nor any that a later refresh opened with
\* one of them is alive.
SignOutIsFinal == \A q \in signedOut : session[q] # "live"

\* A refresh token opens one session, and a one-time code too, unless two calls used it
\* at once.
OneSessionPerToken ==
    \A x \in AuthCalls \ contested :
        Cardinality({q \in AuthCalls :
            call[q].method \in {"refresh", "verify_code"} /\ call[q].on = x /\ session[q] # "none"}) <= 1

\* A code stops being accepted after MaxTrials wrong guesses, unless two calls tried it
\* at once.
TrialsAreLimited == \A c \in AuthCalls \ contested : trials[c] <= MaxTrials

\* Who is in has earned it, once: what was revoked or spent lets nobody in again.
AccessIsEarned == SignOutIsFinal /\ OneSessionPerToken /\ TrialsAreLimited

\* A second factor that is on stays on, and with the secret it was confirmed with, until
\* DisableMFA turns it off: of the setups and verifications only those that were under way
\* when it was confirmed can still write over it.
CredentialsStay ==
    [][mfa.on /\ mfa' # mfa =>
        \E q \in AuthCalls : \/ (call[q].step = "off" /\ ~mfa'.on)
                            \/ (call[q].step \in {"save", "confirm"} /\ q \in overtaken)]_authVars

=====
