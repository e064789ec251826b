-------------------------------- MODULE SignIn --------------------------------
(***************************************************************************)
(* Sign-in of one user: password login with a second factor, sessions and  *)
(* the enrollment of the second factor (platform/http/server.go,           *)
(* db/sqlite/sessions.go, db/sqlite/mfa.go, auth/mfa.go).                  *)
(*                                                                         *)
(* A login is a handler that reads the credential, then verifies a TOTP    *)
(* code, then a recovery code, then establishes the session: four separate *)
(* transactions, between which other logins, enrollments and a change of   *)
(* the user's status may come, and after each of which it may die.  A      *)
(* request of a signed-in browser reads its session first and acts in a    *)
(* later transaction.                                                      *)
(*                                                                         *)
(* Time passes in TOTP steps of 30 s; a session's expiry, compared as      *)
(* text, is off by less than that.  A TOTP code is named by its step: two  *)
(* steps have different codes and a guess without the secret is wrong.     *)
(* Passwords are right; the limiter only refuses (LoginLimiter).            *)
(***************************************************************************)
EXTENDS Integers, Sequences, FiniteSets

CONSTANTS
    Login,           \* concurrent POST /login handlers
    Request,         \* concurrent handlers of signed-in browsers
    Code,            \* the recovery codes of one enrollment
    Attempts,        \* maxMFAEnrollmentAttempts
    EnrollLife,      \* steps an enrollment stays open
    SessionTTL,      \* steps a session lasts
    MaxStep,         \* bound: the last step
    MaxEnrollments,  \* bound: enrollments created
    MaxSessions      \* bound: sessions established

ASSUME SignInAssumption ==
    /\ {Attempts, EnrollLife, SessionTTL} \subseteq Nat \ {0}
    /\ {MaxStep, MaxEnrollments, MaxSessions} \subseteq Nat

VARIABLES
    step,         \* the current TOTP step
    user,         \* active, mfa, secret (an enrollment), lastStep
    enrollments,  \* mfa_enrollments: open, attempts, expires
    unused,       \* mfa_recovery_codes with used_at NULL
    sessions,     \* sessions: factor of the login, expires, live (not revoked, not deleted)
    login,        \* login handlers
    request,      \* signed-in handlers
    accepted      \* the second factors accepted so far

siVars == <<step, user, enrollments, unused, sessions, login, request, accepted>>

NoTOTP == -1         \* a field of the login form that was left empty
NoRecovery == "none"
NoFactor == << >>
Idle == [pc |-> "idle"]

SIInit ==
    /\ step = 1
    /\ user = [active |-> TRUE, mfa |-> FALSE, secret |-> 0, lastStep |-> -1]
    /\ enrollments = << >>
    /\ unused = {}
    /\ sessions = << >>
    /\ login = [l \in Login |-> Idle]
    /\ request = [r \in Request |-> Idle]
    /\ accepted = {}

Pass ==
    /\ step < MaxStep
    /\ step' = step + 1
    /\ UNCHANGED <<user, enrollments, unused, sessions, login, request, accepted>>

SetUserActive(active) ==
    /\ user.active # active
    /\ user' = [user EXCEPT !.active = active]
    /\ UNCHANGED <<step, enrollments, unused, sessions, login, request, accepted>>

(***************************************************************************)
(* Login                                                                   *)
(***************************************************************************)
\* The credential is read once; whether a second factor is needed is decided
\* here.
FindLoginCredential(l) ==
    /\ login[l].pc = "idle"
    /\ user.active
    /\ login' = [login EXCEPT ![l] =
                   [pc |-> IF user.mfa THEN "totp" ELSE "establish", mfa |-> user.mfa,
                    factor |-> NoFactor, began |-> step]]
    /\ UNCHANGED <<step, user, enrollments, unused, sessions, request, accepted>>

\* The steps whose code MatchTOTP recognises now.
MatchTOTP(at) == {s \in (at - 1)..(at + 1) : s >= 0}

\* Mutant of Replayed: only the very step used last is refused.
ReplayedLast(s) == s = user.lastStep

Replayed(s) == s <= user.lastStep

\* The code is matched and its step recorded in one transaction.  Without a
\* valid code the recovery code is tried next.
VerifyMFA(l, s) ==
    LET valid == /\ s # NoTOTP
                 /\ user.active /\ user.mfa
                 /\ s \in MatchTOTP(step)
                 /\ ~Replayed(s)
    IN
    /\ login[l].pc = "totp"
    /\ IF valid
       THEN /\ user' = [user EXCEPT !.lastStep = s]
            /\ accepted' = accepted \cup {<<"totp", s>>}
            /\ login' = [login EXCEPT ![l].pc = "establish", ![l].factor = <<"totp", s>>]
       ELSE /\ login' = [login EXCEPT ![l].pc = "recovery"]
            /\ UNCHANGED <<user, accepted>>
    /\ UNCHANGED <<step, enrollments, unused, sessions, request>>

\* Found and consumed in one transaction; without a match the login fails.
UseRecoveryCode(l, c) ==
    LET valid == c # NoRecovery /\ user.active /\ user.mfa /\ c \in unused
    IN
    /\ login[l].pc = "recovery"
    /\ IF valid
       THEN /\ unused' = unused \ {c}
            /\ accepted' = accepted \cup {<<"recovery", c>>}
            /\ login' = [login EXCEPT ![l].pc = "establish", ![l].factor = <<"recovery", c>>]
       ELSE /\ login' = [login EXCEPT ![l] = Idle]
            /\ UNCHANGED <<unused, accepted>>
    /\ UNCHANGED <<step, user, enrollments, sessions, request>>

\* A user who is not active any more gets an error; the factor stays used.
EstablishSession(l) ==
    /\ login[l].pc = "establish"
    /\ Len(sessions) < MaxSessions
    /\ sessions' = IF user.active
                   THEN Append(sessions, [factor |-> login[l].factor, mfa |-> login[l].mfa,
                                          expires |-> login[l].began + SessionTTL,
                                          live |-> TRUE])
                   ELSE sessions
    /\ login' = [login EXCEPT ![l] = Idle]
    /\ UNCHANGED <<step, user, enrollments, unused, request, accepted>>

\* The client goes away, a statement fails or the process restarts.
LoginDies(l) ==
    /\ login[l].pc # "idle"
    /\ login' = [login EXCEPT ![l] = Idle]
    /\ UNCHANGED <<step, user, enrollments, unused, sessions, request, accepted>>

(***************************************************************************)
(* Requests of a signed-in browser                                         *)
(***************************************************************************)
Authenticated(s) ==
    /\ sessions[s].live
    /\ step < sessions[s].expires
    /\ user.active

\* The session and its CSRF token are checked; mfaSetup also looks at the user
\* the session query returned.
AuthenticatedSession(r, s, op, token) ==
    /\ request[r].pc = "idle"
    /\ Authenticated(s)
    /\ op = "setup" => ~user.mfa
    /\ request' = [request EXCEPT ![r] = [pc |-> op, session |-> s, token |-> token]]
    /\ UNCHANGED <<step, user, enrollments, unused, sessions, login, accepted>>

\* Mutant of Superseded: an earlier enrollment stays open.
NotSuperseded(e) == e

Superseded(e) == [e EXCEPT !.open = FALSE]

\* A new enrollment closes the earlier ones.
CreateMFAEnrollment(r) ==
    /\ request[r].pc = "setup"
    /\ Len(enrollments) < MaxEnrollments
    /\ enrollments' =
         IF user.active /\ ~user.mfa
         THEN Append([e \in 1..Len(enrollments) |-> Superseded(enrollments[e])],
                     [open |-> TRUE, attempts |-> 0, expires |-> step + EnrollLife])
         ELSE enrollments
    /\ request' = [request EXCEPT ![r] = Idle]
    /\ UNCHANGED <<step, user, unused, sessions, login, accepted>>

Exhausted(attempts) == attempts >= Attempts

\* Mutant of FirstLastStep: the confirmation counts as a use of its step.
ThisStep == step

\* The step of the confirming code stays available for the first login.
FirstLastStep == step - 1

\* Completing an enrollment: closed if it is too late, a wrong guess is
\* counted, a right one enables the second factor with fresh recovery codes.
CompleteMFAEnrollment(r, right) ==
    LET e == request[r].token IN
    /\ request[r].pc = "confirm"
    /\ request' = [request EXCEPT ![r] = Idle]
    /\ \/ /\ ~(user.active /\ enrollments[e].open)
          /\ UNCHANGED <<user, enrollments, unused>>
       \/ /\ user.active /\ enrollments[e].open
          /\ \/ user.mfa
             \/ step >= enrollments[e].expires
             \/ Exhausted(enrollments[e].attempts)
          /\ enrollments' = [enrollments EXCEPT ![e].open = FALSE]
          /\ UNCHANGED <<user, unused>>
       \/ /\ user.active /\ enrollments[e].open
          /\ ~user.mfa
          /\ step < enrollments[e].expires
          /\ ~Exhausted(enrollments[e].attempts)
          /\ IF right
             THEN /\ user' = [user EXCEPT !.mfa = TRUE, !.secret = e, !.lastStep = FirstLastStep]
                  /\ unused' = Code
                  /\ enrollments' = [enrollments EXCEPT ![e].open = FALSE]
             ELSE /\ enrollments' = [enrollments EXCEPT
                       ![e].attempts = @ + 1,
                       ![e].open = ~Exhausted(enrollments[e].attempts + 1)]
                  /\ UNCHANGED <<user, unused>>
    /\ UNCHANGED <<step, sessions, login, accepted>>

RevokeSessionAndRecordLogout(r) ==
    LET s == request[r].session IN
    /\ request[r].pc = "logout"
    /\ sessions' = [sessions EXCEPT ![s].live = FALSE]
    /\ request' = [request EXCEPT ![r] = Idle]
    /\ UNCHANGED <<step, user, enrollments, unused, login, accepted>>

CleanupExpiredSessions ==
    /\ \E s \in 1..Len(sessions) : sessions[s].live /\ sessions[s].expires <= step
    /\ sessions' = [s \in 1..Len(sessions) |->
                      [sessions[s] EXCEPT !.live = @ /\ sessions[s].expires > step]]
    /\ UNCHANGED <<step, user, enrollments, unused, login, request, accepted>>

RequestDies(r) ==
    /\ request[r].pc # "idle"
    /\ request' = [request EXCEPT ![r] = Idle]
    /\ UNCHANGED <<step, user, enrollments, unused, sessions, login, accepted>>

LoginNext(l) ==
    \/ FindLoginCredential(l)
    \/ \E s \in (0..(MaxStep + 1)) \cup {NoTOTP} : VerifyMFA(l, s)
    \/ \E c \in Code \cup {NoRecovery} : UseRecoveryCode(l, c)
    \/ EstablishSession(l)
    \/ LoginDies(l)

RequestNext(r) ==
    \/ \E s \in 1..Len(sessions), op \in {"setup", "logout"} : AuthenticatedSession(r, s, op, 0)
    \/ \E s \in 1..Len(sessions), e \in 1..Len(enrollments) :
          AuthenticatedSession(r, s, "confirm", e)
    \/ CreateMFAEnrollment(r)
    \/ \E right \in BOOLEAN : CompleteMFAEnrollment(r, right)
    \/ RevokeSessionAndRecordLogout(r)
    \/ RequestDies(r)

SINext ==
    \/ Pass
    \/ \E active \in BOOLEAN : SetUserActive(active)
    \/ \E l \in Login : LoginNext(l)
    \/ \E r \in Request : RequestNext(r)
    \/ CleanupExpiredSessions

SISpec == SIInit /\ [][SINext]_siVars

(***************************************************************************)
(* Properties                                                              *)
(***************************************************************************)
\* Every session of a login that read its credential when the second factor
\* was on has a factor of its own, one that was accepted: no code of any step
\* and no recovery code is good for two sessions, however logins interleave.
\* (A login that had read the credential before may still end without one.)
SecondFactorPerSession ==
    \A s \in 1..Len(sessions) :
        sessions[s].mfa =>
            /\ sessions[s].factor \in accepted
            /\ \A t \in 1..Len(sessions) : t # s => sessions[t].factor # sessions[s].factor

\* With setup pages open in several tabs, the second factor that ends up on
\* is that of the last page, it was confirmed with fewer wrong guesses than the
\* limit, and no other page can be confirmed any more.
EnrolledIsNewest ==
    user.mfa =>
        /\ user.secret = Len(enrollments)
        /\ enrollments[user.secret].attempts < Attempts
        /\ \A e \in 1..Len(enrollments) : ~enrollments[e].open

\* The confirmation leaves the current step for the first login (the comment in
\* CompleteMFAEnrollment), and no accepted code shuts out codes for longer than
\* its own step.
CurrentCodeUsable ==
    user.mfa =>
        /\ user.lastStep <= step + 1
        /\ (\A f \in accepted : f[1] # "totp") => ~Replayed(step)
=============================================================================
