---------------------------- MODULE AccountAccess -----------------------------
(***************************************************************************)
(* The credentials of one account: login on the API and on the dashboard   *)
(* (api/routes.py, web/app.py), the lockout (platform/security.py), the    *)
(* password reset (platform/password_reset.py), the change of password and *)
(* logout.  Each request reads the account in a transaction of its own,    *)
(* decides from that copy and writes later, so that requests can overtake  *)
(* one another.                                                            *)
(*                                                                         *)
(* A password is the number of changes that led to it.  The volume limits  *)
(* of platform/ratelimit.py appear as a refusal that may come at any time; *)
(* what is modelled of them is the connection of their own by which a      *)
(* limiter backed by the database writes its hits.                         *)
(***************************************************************************)
EXTENDS Transactions, Naturals, FiniteSets

CONSTANTS
    Limiter,            \* the limiter's own connection, one of the sessions
    Backend,            \* IRONCLAD_RATELIMIT_BACKEND: "memory" or "database"
    Tokens,             \* password reset tokens
    MAX_FAILED_LOGINS,
    MaxChanges,         \* bound: changes of the password in a behaviour
    MaxFaults           \* bound: requests that die or lose their connection

ASSUME LimiterAssumption == Limiter \in Sessions /\ Backend \in {"memory", "database"}
ASSUME LimitsAssumption ==
    MAX_FAILED_LOGINS \in Nat \ {0} /\ MaxChanges \in Nat /\ MaxFaults \in Nat

Requests == Sessions \ {Limiter}

VARIABLES
    account,    \* the committed row of the user
    opened,     \* the passwords by which sessions that are not revoked were opened
    token,      \* the reset tokens
    redeemed,   \* history: the tokens that changed the password, with how often
    failures,   \* history: failed logins since a success or a reset
    step,       \* where each request is in its handler
    copy,       \* the row of the user as the request loaded it
    chosen,     \* the tokens a request is about to use up
    faults      \* the requests that died so far

dataVars == <<account, opened, token, redeemed, failures>>
requestVars == <<step, copy, chosen>>
vars == <<dataVars, requestVars, faults, txnVars>>

Account == [password : Nat, failed : Nat, lock : {"none", "future", "past"}]
NewAccount == [password |-> 0, failed |-> 0, lock |-> "none"]

Step == {"idle", "checked", "api login", "web login", "granted",
         "requesting", "invalidated", "redeeming", "loaded", "changing"}

TypeOK ==
    /\ TxnTypeOK
    /\ account \in Account
    /\ opened \subseteq Nat
    /\ token \in [Tokens -> {"absent", "live", "expired", "used"}]
    /\ redeemed \in [Tokens -> Nat]
    /\ failures \in Nat
    /\ step \in [Requests -> Step]
    /\ copy \in [Requests -> Account]
    /\ chosen \in [Requests -> SUBSET Tokens]
    /\ faults \in Nat

Init ==
    /\ TxnInit
    /\ account = NewAccount
    /\ opened = {}
    /\ token = [t \in Tokens |-> "absent"]
    /\ redeemed = [t \in Tokens |-> 0]
    /\ failures = 0
    /\ step = [r \in Requests |-> "idle"]
    /\ copy = [r \in Requests |-> NewAccount]
    /\ chosen = [r \in Requests |-> {}]
    /\ faults = 0

-----------------------------------------------------------------------------
\* The bounds leave room for one more change of the password, or token.
AtStep(S) == Cardinality({r \in Requests : step[r] \in S})
RoomForChange == account.password + AtStep({"redeeming", "loaded", "changing"}) < MaxChanges
RoomForToken ==
    AtStep({"requesting", "invalidated"}) < Cardinality({t \in Tokens : token[t] = "absent"})

\* lockout_decision(failed_logins, locked_until).
Allowed(a) == a.lock # "future" /\ a.failed < MAX_FAILED_LOGINS

\* Request r loads the user and goes on to step s, with tokens T in mind.
LoadUser(r, s, T) ==
    /\ Read(r)
    /\ step' = [step EXCEPT ![r] = s]
    /\ copy' = [copy EXCEPT ![r] = account]
    /\ chosen' = [chosen EXCEPT ![r] = T]
    /\ UNCHANGED <<dataVars, faults>>

GoTo(r, s) ==
    /\ step' = [step EXCEPT ![r] = s]
    /\ UNCHANGED <<copy, chosen, faults>>

\* The request commits and is answered.
CommitAndEnd(r) ==
    /\ Commit(r)
    /\ step' = [step EXCEPT ![r] = "idle"]
    /\ copy' = [copy EXCEPT ![r] = NewAccount]
    /\ chosen' = [chosen EXCEPT ![r] = {}]
    /\ UNCHANGED faults

\* The request ends and nothing it wrote remains.
RollbackAndEnd(r) ==
    /\ Rollback(r)
    /\ step' = [step EXCEPT ![r] = "idle"]
    /\ copy' = [copy EXCEPT ![r] = NewAccount]
    /\ chosen' = [chosen EXCEPT ![r] = {}]
    /\ UNCHANGED dataVars

\* The limiter records or resets hits.  An error of its store is ignored.
LimiterWrites ==
    IF Backend = "database" /\ MayWrite(Limiter) THEN Commit(Limiter) ELSE UNCHANGED txnVars

\* Fault: the counter of failures is not cleared.
ClearedLockOnly(loaded) == [account EXCEPT !.lock = IF loaded.lock = "none" THEN @ ELSE "none"]

\* The ORM writes a column only if it differs from the loaded one.
Cleared(loaded) ==
    [account EXCEPT !.failed = IF loaded.failed = 0 THEN @ ELSE 0,
                    !.lock = IF loaded.lock = "none" THEN @ ELSE "none"]

-----------------------------------------------------------------------------
(***************************************************************************)
(* Login.                                                                  *)
(***************************************************************************)
CheckLimits(r) ==
    /\ step[r] = "idle"
    /\ LimiterWrites
    /\ GoTo(r, "checked")
    /\ UNCHANGED dataVars

Refused(r) ==
    /\ step[r] = "checked"
    /\ GoTo(r, "idle")
    /\ UNCHANGED <<dataVars, txnVars>>

\* The API checks its limits first; the dashboard has none.
LoadForLogin(r) ==
    \/ step[r] = "checked" /\ LoadUser(r, "api login", {})
    \/ step[r] = "idle" /\ LoadUser(r, "web login", {})

Blocked(r) ==
    /\ step[r] \in {"api login", "web login"}
    /\ ~ Allowed(copy[r])
    /\ IF step[r] = "api login" THEN CommitAndEnd(r) ELSE RollbackAndEnd(r) /\ UNCHANGED faults
    /\ UNCHANGED dataVars

\* Only the API sets locked_until.
WrongPassword(r) ==
    LET failed == copy[r].failed + 1
    IN  /\ step[r] \in {"api login", "web login"}
        /\ Allowed(copy[r])
        /\ CommitAndEnd(r)
        /\ account' = [account EXCEPT
                !.failed = failed,
                !.lock = IF step[r] = "api login" /\ failed >= MAX_FAILED_LOGINS
                         THEN "future" ELSE @]
        /\ failures' = failures + 1
        /\ UNCHANGED <<opened, token, redeemed>>

\* The API's password is right: the limiter forgets the account's hits, before
\* the transaction that grants the session is committed.
ResetLimiter(r) ==
    /\ step[r] = "api login"
    /\ Allowed(copy[r])
    /\ LimiterWrites
    /\ GoTo(r, "granted")
    /\ UNCHANGED dataVars

\* The dashboard leaves locked_until alone.
GrantSession(r) ==
    /\ \/ step[r] = "granted" /\ account' = Cleared(copy[r])
       \/ /\ step[r] = "web login" /\ Allowed(copy[r])
          /\ account' = [Cleared(copy[r]) EXCEPT !.lock = account.lock]
    /\ CommitAndEnd(r)
    /\ opened' = opened \cup {copy[r].password}
    /\ failures' = 0
    /\ UNCHANGED <<token, redeemed>>

-----------------------------------------------------------------------------
(***************************************************************************)
(* Password reset.                                                         *)
(***************************************************************************)
LoadForRequest(r) ==
    /\ step[r] = "idle"
    /\ RoomForToken
    /\ LoadUser(r, "requesting", {})

\* Fault: the outstanding tokens are left alone.
InvalidateNothing(r) ==
    /\ step[r] = "requesting"
    /\ Flush(r)
    /\ GoTo(r, "invalidated")
    /\ UNCHANGED dataVars

\* The UPDATE that uses up the outstanding tokens is sent to the database ...
InvalidateTokens(r) ==
    /\ step[r] = "requesting"
    /\ Flush(r)
    /\ step' = [step EXCEPT ![r] = "invalidated"]
    /\ chosen' = [chosen EXCEPT ![r] = {t \in Tokens : token[t] \in {"live", "expired"}}]
    /\ UNCHANGED <<dataVars, copy, faults>>

\* ... the mail goes out, and the new token t is committed with the UPDATE.
IssueToken(r, t) ==
    /\ step[r] = "invalidated"
    /\ token[t] = "absent"
    /\ CommitAndEnd(r)
    /\ token' = [u \in Tokens |->
            IF u = t THEN "live" ELSE IF u \in chosen[r] THEN "used" ELSE token[u]]
    /\ UNCHANGED <<account, opened, redeemed, failures>>

\* Neither used nor expired, when it is looked at.
LoadForRedeem(r, t) ==
    /\ step[r] = "idle"
    /\ token[t] = "live"
    /\ RoomForChange
    /\ LoadUser(r, "redeeming", {t})

\* The token of a refused redemption stays as it is; the refusal is audited.
RefuseRedeem(r) ==
    /\ step[r] = "idle"
    /\ \E t \in Tokens : token[t] \in {"used", "expired"}
    /\ Commit(r)
    /\ UNCHANGED <<dataVars, requestVars, faults>>

\* Every session that is committed by now is revoked.
Redeem(r) ==
    /\ step[r] = "redeeming"
    /\ CommitAndEnd(r)
    /\ account' = [Cleared(copy[r]) EXCEPT !.password = @ + 1]
    /\ opened' = {}
    /\ token' = [t \in Tokens |-> IF t \in chosen[r] THEN "used" ELSE token[t]]
    /\ redeemed' = [t \in Tokens |-> redeemed[t] + IF t \in chosen[r] THEN 1 ELSE 0]
    /\ failures' = 0

-----------------------------------------------------------------------------
(***************************************************************************)
(* Requests of someone who is logged in.                                   *)
(***************************************************************************)
LoadForChange(r) ==
    /\ step[r] = "idle"
    /\ opened # {}
    /\ RoomForChange
    /\ LoadUser(r, "loaded", {})

\* The limiter counts the attempt after the account has been read.
LimitChange(r) ==
    /\ step[r] = "loaded"
    /\ LimiterWrites
    /\ GoTo(r, "changing")
    /\ UNCHANGED dataVars

\* Fault: the sessions opened by the old password are kept.
ChangeKeepsSessions(r) ==
    /\ step[r] = "changing"
    /\ CommitAndEnd(r)
    /\ account' = [account EXCEPT !.password = @ + 1]
    /\ UNCHANGED <<opened, token, redeemed, failures>>

ChangePassword(r) ==
    /\ step[r] = "changing"
    /\ CommitAndEnd(r)
    /\ account' = [account EXCEPT !.password = @ + 1]
    /\ opened' = {}
    /\ UNCHANGED <<token, redeemed, failures>>

\* The current password is wrong, which is audited.
RefuseChange(r) ==
    /\ step[r] = "changing"
    /\ CommitAndEnd(r)
    /\ UNCHANGED dataVars

\* Too many attempts, or the new password will not do.
RejectChange(r) ==
    /\ step[r] = "changing"
    /\ RollbackAndEnd(r)
    /\ UNCHANGED faults

\* One of the sessions, perhaps the last of its password, is revoked.
Logout(r) ==
    /\ step[r] = "idle"
    /\ \E p \in opened : opened' \in {opened, opened \ {p}}
    /\ Commit(r)
    /\ UNCHANGED <<account, token, redeemed, failures, requestVars, faults>>

-----------------------------------------------------------------------------
\* SQLite refuses the write: HTTP 500.
DatabaseLocked(r) ==
    /\ step[r] \in {"api login", "web login", "granted", "requesting", "redeeming", "changing"}
    /\ ~ MayWrite(r)
    /\ RollbackAndEnd(r)
    /\ UNCHANGED faults

\* The process dies or the connection is lost.
Abandoned(r) ==
    /\ step[r] # "idle"
    /\ faults < MaxFaults
    /\ faults' = faults + 1
    /\ RollbackAndEnd(r)

LockExpires ==
    /\ account.lock = "future"
    /\ account' = [account EXCEPT !.lock = "past"]
    /\ UNCHANGED <<opened, token, redeemed, failures, requestVars, faults, txnVars>>

TokenExpires(t) ==
    /\ token[t] = "live"
    /\ token' = [token EXCEPT ![t] = "expired"]
    /\ UNCHANGED <<account, opened, redeemed, failures, requestVars, faults, txnVars>>

-----------------------------------------------------------------------------
LoginStep(r) ==
    \/ CheckLimits(r) \/ Refused(r) \/ LoadForLogin(r) \/ Blocked(r)
    \/ WrongPassword(r) \/ ResetLimiter(r) \/ GrantSession(r)

ResetStep(r) ==
    \/ LoadForRequest(r) \/ InvalidateTokens(r) \/ \E t \in Tokens : IssueToken(r, t)
    \/ \E t \in Tokens : LoadForRedeem(r, t)
    \/ RefuseRedeem(r) \/ Redeem(r)

SessionStep(r) ==
    \/ LoadForChange(r) \/ LimitChange(r) \/ ChangePassword(r) \/ RefuseChange(r)
    \/ RejectChange(r) \/ Logout(r)

Next ==
    \/ \E r \in Requests :
        LoginStep(r) \/ ResetStep(r) \/ SessionStep(r) \/ DatabaseLocked(r) \/ Abandoned(r)
    \/ LockExpires
    \/ \E t \in Tokens : TokenExpires(t)

Spec == Init /\ [][Next]_vars

\* A request that was begun goes on, and time passes.
Fairness ==
    /\ \A r \in Requests : WF_vars(GrantSession(r)) /\ WF_vars(DatabaseLocked(r))
    /\ WF_vars(LockExpires)

FairSpec == Spec /\ Fairness

-----------------------------------------------------------------------------
(***************************************************************************)
(* Properties.                                                             *)
(***************************************************************************)
\* A reset token changes the password at most once, however many requests
\* present it at the same time.
TokenSpentOnce == \A t \in Tokens : redeemed[t] <= 1

\* At most one reset token can be redeemed, however many were asked for.
OneLiveToken == Cardinality({t \in Tokens : token[t] = "live"}) <= 1

\* No session outlives the password by which it was opened: not even one whose
\* login was under way while the password was changed.
SessionsUseCurrentPassword == opened \subseteq {account.password}

\* The counter of failed logins has counted every one of them, and an account
\* is locked only by as many as it takes.
FailuresAreCounted ==
    /\ account.failed = failures
    /\ account.lock # "none" => failures >= MAX_FAILED_LOGINS

\* A login that was granted is not lost if nobody else is using the account.
GrantedLoginSucceeds == \A r \in Requests : step[r] = "granted" ~> opened # {}

(***************************************************************************)
(* What the documentation says and the code does not do.                   *)
(***************************************************************************)
\* "Account lockout is time-based and self-clearing" (lockout_decision).
LockoutClearsItself == account.lock = "past" => Allowed(account)
=============================================================================
