-------------------------- MODULE AccountAccess_proofs --------------------------
(***************************************************************************)
(* Theorems about module AccountAccess, for any number of requests, tokens *)
(* and failures allowed, with either backend of the limiter:               *)
(*   - type correctness, on both dialects;                                 *)
(*   - on SQLite, that a token is spent once, that at most one is live,    *)
(*     that no session outlives its password, and that every failed login  *)
(*     is counted.                                                         *)
(***************************************************************************)
EXTENDS AccountAccess, Transactions_proofs, FiniteSetTheorems

\* What one request may do next.
RequestDoes(r) ==
    LoginStep(r) \/ ResetStep(r) \/ SessionStep(r) \/ DatabaseLocked(r) \/ Abandoned(r)

LEMMA SomebodyDoes ==
    ASSUME Next
    PROVE  \/ \E r \in Requests : RequestDoes(r)
           \/ LockExpires \/ \E t \in Tokens : TokenExpires(t)
BY DEF Next, RequestDoes

LEMMA RequestsAreSessions == Requests \subseteq Sessions /\ Limiter \in Sessions \ Requests
BY LimiterAssumption DEF Requests

-----------------------------------------------------------------------------
(***************************************************************************)
(* Types.                                                                  *)
(***************************************************************************)
RequestTypes ==
    /\ step \in [Requests -> Step]
    /\ copy \in [Requests -> Account]
    /\ chosen \in [Requests -> SUBSET Tokens]

DataTypes ==
    /\ account \in Account
    /\ opened \subseteq Nat
    /\ token \in [Tokens -> {"absent", "live", "expired", "used"}]
    /\ redeemed \in [Tokens -> Nat]
    /\ failures \in Nat

LEMMA TypeParts ==
    /\ TypeOK <=> TxnTypeOK /\ DataTypes /\ RequestTypes /\ faults \in Nat
    /\ TypeOK' <=> TxnTypeOK' /\ DataTypes' /\ RequestTypes' /\ faults' \in Nat
BY DEF TypeOK, DataTypes, RequestTypes

\* What each way of going on with a request keeps.
LEMMA RequestTypesKept ==
    ASSUME TypeOK, NEW r \in Requests,
           \/ \E s \in Step : \E T \in SUBSET Tokens : LoadUser(r, s, T)
           \/ (\E s \in Step : GoTo(r, s)) /\ TxnTypeOK'
           \/ CommitAndEnd(r)
           \/ RollbackAndEnd(r) /\ faults' \in Nat
    PROVE  TxnTypeOK' /\ RequestTypes' /\ faults' \in Nat
<1> USE TypeParts, RequestsAreSessions DEF RequestTypes
<1>1. ASSUME NEW s \in Step, NEW T \in SUBSET Tokens, LoadUser(r, s, T)
      PROVE  TxnTypeOK' /\ RequestTypes' /\ faults' \in Nat
    <2>1. TxnTypeOK'  BY <1>1, TxnType DEF LoadUser
    <2>2. account \in Account  BY DEF DataTypes
    <2> QED  BY <1>1, <2>1, <2>2 DEF LoadUser
<1>2. CASE (\E s \in Step : GoTo(r, s)) /\ TxnTypeOK'
    BY <1>2 DEF GoTo
<1>a. "idle" \in Step /\ NewAccount \in Account
    BY DEF Step, NewAccount, Account
<1>3. CASE CommitAndEnd(r)
    <2>1. TxnTypeOK'  BY <1>3, TxnType DEF CommitAndEnd
    <2> QED  BY <1>3, <1>a, <2>1 DEF CommitAndEnd
<1>4. CASE RollbackAndEnd(r) /\ faults' \in Nat
    <2>1. TxnTypeOK'  BY <1>4, TxnType DEF RollbackAndEnd
    <2> QED  BY <1>4, <1>a, <2>1 DEF RollbackAndEnd
<1> QED  BY <1>1, <1>2, <1>3, <1>4

LEMMA LimiterKeepsTypes ==
    ASSUME TxnTypeOK, LimiterWrites
    PROVE  TxnTypeOK'
<1>1. CASE Commit(Limiter)  BY <1>1, TxnType, RequestsAreSessions
<1>2. CASE UNCHANGED txnVars  BY <1>2 DEF TxnTypeOK, txnVars
<1> QED  BY <1>1, <1>2 DEF LimiterWrites

LEMMA ClearedType ==
    ASSUME account \in Account, NEW loaded \in Account
    PROVE  Cleared(loaded) \in Account
BY DEF Cleared, Account

LEMMA LoginTypes ==
    ASSUME TypeOK, NEW r \in Requests, LoginStep(r)
    PROVE  TypeOK'
<1> USE TypeParts
<1>a. {"idle", "checked", "api login", "web login", "granted"} \subseteq Step
    BY DEF Step
<1>b. copy[r] \in Account /\ account \in Account
    BY DEF RequestTypes, DataTypes
<1>1. CASE CheckLimits(r) \/ Refused(r) \/ ResetLimiter(r)
    <2>1. TxnTypeOK'
        BY <1>1, LimiterKeepsTypes DEF CheckLimits, Refused, ResetLimiter, TxnTypeOK, txnVars
    <2>2. RequestTypes' /\ faults' \in Nat
        BY <1>1, <1>a, <2>1, RequestTypesKept DEF CheckLimits, Refused, ResetLimiter
    <2> QED
        BY <1>1, <2>1, <2>2 DEF CheckLimits, Refused, ResetLimiter, dataVars, DataTypes
<1>2. CASE LoadForLogin(r)
    <2>1. \E s \in Step : \E T \in SUBSET Tokens : LoadUser(r, s, T)
        BY <1>2, <1>a DEF LoadForLogin
    <2>2. TxnTypeOK' /\ RequestTypes' /\ faults' \in Nat
        BY <2>1, RequestTypesKept
    <2> QED  BY <2>1, <2>2 DEF LoadUser, dataVars, DataTypes
<1>3. CASE Blocked(r)
    <2>a. faults \in Nat
        OBVIOUS
    <2>b. UNCHANGED dataVars /\ (CommitAndEnd(r) \/ (RollbackAndEnd(r) /\ UNCHANGED faults))
        BY <1>3 DEF Blocked
    <2>1. UNCHANGED dataVars /\ (CommitAndEnd(r) \/ (RollbackAndEnd(r) /\ faults' \in Nat))
        BY <2>a, <2>b, Zenon
    <2>2. TxnTypeOK' /\ RequestTypes' /\ faults' \in Nat
        BY <2>1, RequestTypesKept
    <2> QED  BY <2>1, <2>2 DEF dataVars, DataTypes
<1>4. CASE WrongPassword(r)
    <2>1. TxnTypeOK' /\ RequestTypes' /\ faults' \in Nat
        BY <1>4, RequestTypesKept DEF WrongPassword
    <2>2. copy[r].failed + 1 \in Nat
        BY <1>b DEF Account
    <2>3. account' \in Account
        BY <1>4, <1>b, <2>2 DEF WrongPassword, Account
    <2>4. opened' = opened /\ token' = token /\ redeemed' = redeemed /\ failures' = failures + 1
        BY <1>4 DEF WrongPassword
    <2>5. DataTypes'
        BY <2>3, <2>4 DEF DataTypes
    <2> QED  BY <2>1, <2>5
<1>5. CASE GrantSession(r)
    <2>a. CommitAndEnd(r)
        BY <1>5, Zenon DEF GrantSession
    <2>1. TxnTypeOK' /\ RequestTypes' /\ faults' \in Nat
        BY <2>a, RequestTypesKept
    <2>2. Cleared(copy[r]) \in Account
        BY <1>b, ClearedType
    <2>3. account' \in Account /\ copy[r].password \in Nat
        BY <1>5, <1>b, <2>2 DEF GrantSession, Account
    <2> QED  BY <1>5, <2>1, <2>3 DEF GrantSession, DataTypes
<1> QED  BY <1>1, <1>2, <1>3, <1>4, <1>5 DEF LoginStep

LEMMA ResetTypes ==
    ASSUME TypeOK, NEW r \in Requests, ResetStep(r)
    PROVE  TypeOK'
<1> USE TypeParts
<1>a. {"requesting", "invalidated", "redeeming"} \subseteq Step
    BY DEF Step
<1>b. copy[r] \in Account /\ account \in Account
    BY DEF RequestTypes, DataTypes
<1>1. CASE LoadForRequest(r) \/ \E t \in Tokens : LoadForRedeem(r, t)
    <2>1. \E s \in Step : \E T \in SUBSET Tokens : LoadUser(r, s, T)
        BY <1>1, <1>a DEF LoadForRequest, LoadForRedeem
    <2>2. TxnTypeOK' /\ RequestTypes' /\ faults' \in Nat
        BY <2>1, RequestTypesKept
    <2> QED  BY <2>1, <2>2 DEF LoadUser, dataVars, DataTypes
<1>2. CASE InvalidateTokens(r)
    <2>1. TxnTypeOK'
        BY <1>2, TxnType, RequestsAreSessions DEF InvalidateTokens
    <2>2. RequestTypes'
        BY <1>2, <1>a DEF InvalidateTokens, RequestTypes
    <2> QED  BY <1>2, <2>1, <2>2 DEF InvalidateTokens, dataVars, DataTypes
<1>3. ASSUME NEW t \in Tokens, IssueToken(r, t)  PROVE TypeOK'
    <2>1. TxnTypeOK' /\ RequestTypes' /\ faults' \in Nat
        BY <1>3, RequestTypesKept DEF IssueToken
    <2>2. token' \in [Tokens -> {"absent", "live", "expired", "used"}]
        BY <1>3 DEF IssueToken, DataTypes
    <2> QED  BY <1>3, <2>1, <2>2 DEF IssueToken, DataTypes
<1>4. CASE RefuseRedeem(r)
    <2>1. TxnTypeOK'
        BY <1>4, TxnType, RequestsAreSessions DEF RefuseRedeem
    <2> QED
        BY <1>4, <2>1 DEF RefuseRedeem, dataVars, requestVars, DataTypes, RequestTypes
<1>5. CASE Redeem(r)
    <2>1. TxnTypeOK' /\ RequestTypes' /\ faults' \in Nat
        BY <1>5, RequestTypesKept DEF Redeem
    <2>2. Cleared(copy[r]) \in Account
        BY <1>b, ClearedType
    <2>3. account' \in Account
        BY <1>5, <2>2 DEF Redeem, Account
    <2>4. /\ token' \in [Tokens -> {"absent", "live", "expired", "used"}]
          /\ redeemed' \in [Tokens -> Nat]
        BY <1>5 DEF Redeem, DataTypes
    <2> QED  BY <1>5, <2>1, <2>3, <2>4 DEF Redeem, DataTypes
<1> QED  BY <1>1, <1>2, <1>3, <1>4, <1>5 DEF ResetStep

LEMMA SessionTypes ==
    ASSUME TypeOK, NEW r \in Requests, SessionStep(r) \/ DatabaseLocked(r) \/ Abandoned(r)
    PROVE  TypeOK'
<1> USE TypeParts
<1>a. account \in Account  BY DEF DataTypes
<1>1. CASE LoadForChange(r)
    <2>1. "loaded" \in Step  BY DEF Step
    <2>2. TxnTypeOK' /\ RequestTypes' /\ faults' \in Nat
        BY <1>1, <2>1, RequestTypesKept DEF LoadForChange
    <2> QED  BY <1>1, <2>2 DEF LoadForChange, LoadUser, dataVars, DataTypes
<1>2. CASE ChangePassword(r) \/ RefuseChange(r)
    <2>1. TxnTypeOK' /\ RequestTypes' /\ faults' \in Nat
        BY <1>2, RequestTypesKept DEF ChangePassword, RefuseChange
    <2>2. account' \in Account
        BY <1>2, <1>a DEF ChangePassword, RefuseChange, dataVars, Account
    <2> QED
        BY <1>2, <2>1, <2>2 DEF ChangePassword, RefuseChange, dataVars, DataTypes
<1>3. CASE Logout(r)
    <2>1. TxnTypeOK'
        BY <1>3, TxnType, RequestsAreSessions DEF Logout
    <2> QED
        BY <1>3, <2>1 DEF Logout, requestVars, DataTypes, RequestTypes
<1>4. CASE DatabaseLocked(r) \/ Abandoned(r) \/ RejectChange(r)
    <2>a. RollbackAndEnd(r) /\ (faults' = faults \/ faults' = faults + 1)
        BY <1>4, Zenon DEF DatabaseLocked, Abandoned, RejectChange
    <2>b. faults' \in Nat
        BY <2>a
    <2>2. TxnTypeOK' /\ RequestTypes' /\ faults' \in Nat
        BY <2>a, <2>b, RequestTypesKept, Zenon
    <2> QED  BY <2>a, <2>2 DEF RollbackAndEnd, dataVars, DataTypes
<1>5. CASE LimitChange(r)
    <2>1. "changing" \in Step  BY DEF Step
    <2>2. TxnTypeOK'
        BY <1>5, LimiterKeepsTypes DEF LimitChange, TxnTypeOK
    <2>3. RequestTypes' /\ faults' \in Nat
        BY <1>5, <2>1, <2>2, RequestTypesKept DEF LimitChange
    <2> QED  BY <1>5, <2>2, <2>3 DEF LimitChange, dataVars, DataTypes
<1> QED
    BY <1>1, <1>2, <1>3, <1>4, <1>5 DEF SessionStep

LEMMA TypeInit == Init => TypeOK
BY DEF Init, TxnInit, TypeOK, TxnTypeOK, NewAccount, Account, Step

LEMMA TypeKept ==
    ASSUME TypeOK, [Next]_vars
    PROVE  TypeOK'
<1>1. ASSUME NEW r \in Requests, RequestDoes(r)  PROVE TypeOK'
    BY <1>1, LoginTypes, ResetTypes, SessionTypes DEF RequestDoes
<1>2. CASE LockExpires
    BY <1>2 DEF LockExpires, requestVars, txnVars, TypeOK, TxnTypeOK, Account
<1>3. ASSUME NEW t \in Tokens, TokenExpires(t)  PROVE TypeOK'
    BY <1>3 DEF TokenExpires, requestVars, txnVars, TypeOK, TxnTypeOK
<1>4. CASE UNCHANGED vars
    BY <1>4 DEF vars, dataVars, requestVars, txnVars, TypeOK, TxnTypeOK
<1> QED  BY <1>1, <1>2, <1>3, <1>4, SomebodyDoes

\* The rows of the account and of its tokens, and what every request holds of
\* them, are always well-formed.
THEOREM AccountTypeCorrect == Spec => []TypeOK
<1>1. TypeOK /\ [Next]_vars => TypeOK'  BY TypeKept
<1> QED  BY <1>1, TypeInit, PTL DEF Spec

-----------------------------------------------------------------------------
(***************************************************************************)
(* SQLite.  The invariant says what a request knows although it does not   *)
(* look again: while its snapshot is current, the copy it decides from is  *)
(* the row (but for a lock that has run out), the tokens it is about to    *)
(* spend are unspent, and it is about to use up every one that is live.    *)
(***************************************************************************)
Knows(r) ==
    /\ copy[r].password = account.password
    /\ copy[r].failed = account.failed
    /\ copy[r].lock = "none" <=> account.lock = "none"
    /\ step[r] = "redeeming" => \A t \in chosen[r] : token[t] \in {"live", "expired"}
    /\ step[r] = "invalidated" => \A t \in Tokens : token[t] = "live" => t \in chosen[r]

Fresh(r) ==
    step[r] \notin {"idle", "checked"} =>
        /\ snap[r] # "none"
        /\ snap[r] = "current" => Knows(r)

AllFresh == \A r \in Requests : Fresh(r)

\* A token that has changed the password is used, and did so once.
Spent == \A t \in Tokens : redeemed[t] = 0 \/ (redeemed[t] = 1 /\ token[t] = "used")

SingleLive == \A t, u \in Tokens : token[t] = "live" /\ token[u] = "live" => t = u

SqliteInv ==
    TypeOK /\ AllFresh /\ Spent /\ SingleLive /\ SessionsUseCurrentPassword /\ FailuresAreCounted

\* A step of one request leaves every other one where it is, and either keeps
\* the rows and the other's snapshot as they are or commits.
LEMMA OthersWait ==
    ASSUME TypeOK, NEW r \in Requests, RequestDoes(r), NEW q \in Requests, q # r
    PROVE  /\ UNCHANGED <<step[q], copy[q], chosen[q]>>
           /\ \/ Commit(r) \/ Commit(Limiter)
              \/ UNCHANGED <<account, token, snap[q]>>
<1> USE RequestsAreSessions
<1>a. TxnTypeOK /\ RequestTypes  BY TypeParts
<1>b. ASSUME Read(r) \/ Flush(r) \/ Rollback(r)  PROVE snap'[q] = snap[q]
    BY <1>a, <1>b, SnapshotOfOthers
<1>1. ASSUME NEW s, NEW T, LoadUser(r, s, T)
      PROVE  UNCHANGED <<step[q], copy[q], chosen[q], account, token, snap[q]>>
    BY <1>a, <1>b, <1>1 DEF LoadUser, dataVars, RequestTypes
<1>2. ASSUME CommitAndEnd(r)
      PROVE  Commit(r) /\ UNCHANGED <<step[q], copy[q], chosen[q]>>
    BY <1>a, <1>2 DEF CommitAndEnd, RequestTypes
<1>3. ASSUME RollbackAndEnd(r)
      PROVE  UNCHANGED <<step[q], copy[q], chosen[q], account, token, snap[q]>>
    BY <1>a, <1>b, <1>3 DEF RollbackAndEnd, dataVars, RequestTypes
<1>4. ASSUME NEW s, GoTo(r, s)
      PROVE  UNCHANGED <<step[q], copy[q], chosen[q]>>
    BY <1>a, <1>4 DEF GoTo, RequestTypes
<1>5. CASE LoginStep(r)
    <2>1. CASE CheckLimits(r) \/ Refused(r) \/ ResetLimiter(r)
        BY <1>4, <2>1 DEF CheckLimits, Refused, ResetLimiter, LimiterWrites, dataVars, txnVars
    <2>2. CASE LoadForLogin(r)
        BY <1>1, <2>2 DEF LoadForLogin
    <2>3. CASE Blocked(r)
        <3>1. CommitAndEnd(r) \/ RollbackAndEnd(r)  BY <2>3, Zenon DEF Blocked
        <3> QED  BY <1>2, <1>3, <3>1
    <2>4. CASE WrongPassword(r) \/ GrantSession(r)
        <3>1. CommitAndEnd(r)  BY <2>4, Zenon DEF WrongPassword, GrantSession
        <3> QED  BY <1>2, <3>1
    <2> QED  BY <1>5, <2>1, <2>2, <2>3, <2>4 DEF LoginStep
<1>6. CASE ResetStep(r)
    <2>1. CASE LoadForRequest(r) \/ \E t \in Tokens : LoadForRedeem(r, t)
        BY <1>1, <2>1 DEF LoadForRequest, LoadForRedeem
    <2>2. CASE InvalidateTokens(r)
        BY <1>a, <1>b, <2>2 DEF InvalidateTokens, dataVars, RequestTypes
    <2>3. CASE Redeem(r) \/ \E t \in Tokens : IssueToken(r, t)
        <3>1. CommitAndEnd(r)  BY <2>3 DEF Redeem, IssueToken
        <3> QED  BY <1>2, <3>1
    <2>4. CASE RefuseRedeem(r)
        BY <2>4 DEF RefuseRedeem, requestVars
    <2> QED  BY <1>6, <2>1, <2>2, <2>3, <2>4 DEF ResetStep
<1>7. CASE SessionStep(r)
    <2>1. CASE LoadForChange(r)
        BY <1>1, <2>1 DEF LoadForChange
    <2>2. CASE ChangePassword(r) \/ RefuseChange(r)
        BY <1>2, <2>2 DEF ChangePassword, RefuseChange
    <2>3. CASE Logout(r)
        BY <2>3 DEF Logout, requestVars
    <2>4. CASE LimitChange(r)
        BY <1>4, <2>4 DEF LimitChange, LimiterWrites, dataVars, txnVars
    <2>5. CASE RejectChange(r)
        BY <1>3, <2>5 DEF RejectChange
    <2> QED  BY <1>7, <2>1, <2>2, <2>3, <2>4, <2>5 DEF SessionStep
<1>8. CASE DatabaseLocked(r) \/ Abandoned(r)
    BY <1>3, <1>8 DEF DatabaseLocked, Abandoned
<1> QED  BY <1>5, <1>6, <1>7, <1>8 DEF RequestDoes

\* What a request knows is lost to a commit, or it stays true.
LEMMA FreshUndisturbed ==
    ASSUME NEW q \in Requests, Fresh(q), UNCHANGED <<step[q], copy[q], chosen[q]>>,
           \/ \E p \in Sessions \ {q} : Commit(p)
           \/ UNCHANGED <<account, token, snap[q]>>
    PROVE  Fresh(q)'
<1>1. CASE \E p \in Sessions \ {q} : Commit(p)
    <2>1. PICK p \in Sessions \ {q} : Commit(p)  BY <1>1
    <2>2. snap'[q] # "current" /\ (snap[q] # "none" => snap'[q] # "none")
        BY <2>1, NobodyCurrent, RequestsAreSessions
    <2> QED  BY <2>2 DEF Fresh
<1>2. CASE UNCHANGED <<account, token, snap[q]>>
    BY <1>2 DEF Fresh, Knows
<1> QED  BY <1>1, <1>2

\* A request that loads the account knows what it has loaded.
LEMMA LoadedIsFresh ==
    ASSUME SQLite, TypeOK, NEW r \in Requests, NEW s, NEW T, LoadUser(r, s, T),
           s # "invalidated",
           s = "redeeming" => \A t \in T : token[t] = "live"
    PROVE  Fresh(r)'
<1>1. snap'[r] # "none"
    BY TypeParts, RequestsAreSessions, SnapshotTaken DEF LoadUser
<1>2. /\ step'[r] = s /\ copy'[r] = account /\ chosen'[r] = T
      /\ account' = account /\ token' = token
    BY TypeParts DEF LoadUser, RequestTypes, dataVars
<1> QED  BY <1>1, <1>2 DEF Fresh, Knows

LEMMA EndedIsFresh ==
    ASSUME TypeOK, NEW r \in Requests, CommitAndEnd(r) \/ RollbackAndEnd(r)
    PROVE  Fresh(r)'
<1>1. step'[r] = "idle"
    BY TypeParts DEF CommitAndEnd, RollbackAndEnd, RequestTypes
<1> QED  BY <1>1 DEF Fresh

LEMMA OwnStepFresh ==
    ASSUME SQLite, TypeOK, NEW r \in Requests, RequestDoes(r), Fresh(r)
    PROVE  Fresh(r)'
<1> USE RequestsAreSessions
<1>a. TxnTypeOK /\ RequestTypes  BY TypeParts
<1>1. CASE CheckLimits(r) \/ Refused(r)
    <2>1. step'[r] \in {"checked", "idle"}
        BY <1>a, <1>1 DEF CheckLimits, Refused, GoTo, RequestTypes
    <2> QED  BY <2>1 DEF Fresh
<1>2. CASE LoadForLogin(r) \/ LoadForRequest(r) \/ LoadForChange(r)
           \/ \E t \in Tokens : LoadForRedeem(r, t)
    BY <1>2, LoadedIsFresh DEF LoadForLogin, LoadForRequest, LoadForRedeem, LoadForChange
<1>3. CASE ResetLimiter(r) \/ LimitChange(r)
    <2>1. /\ step[r] \in {"api login", "loaded"} /\ step'[r] \in {"granted", "changing"}
          /\ UNCHANGED <<copy, account>>
          /\ Commit(Limiter) \/ UNCHANGED snap
        BY <1>a, <1>3
        DEF ResetLimiter, LimitChange, GoTo, LimiterWrites, RequestTypes, dataVars, txnVars
    <2>2. CASE Commit(Limiter)
        <3>1. snap'[r] # "current" /\ (snap[r] # "none" => snap'[r] # "none")
            BY <2>2, NobodyCurrent
        <3> QED  BY <2>1, <3>1 DEF Fresh
    <2>3. CASE UNCHANGED snap
        BY <2>1, <2>3 DEF Fresh, Knows
    <2> QED  BY <2>1, <2>2, <2>3
<1>4. CASE InvalidateTokens(r)
    <2>1. /\ step[r] = "requesting" /\ step'[r] = "invalidated"
          /\ UNCHANGED <<copy, account, token>>
          /\ chosen'[r] = {t \in Tokens : token[t] \in {"live", "expired"}}
        BY <1>a, <1>4 DEF InvalidateTokens, RequestTypes, dataVars
    <2>2. snap[r] = "current" /\ snap'[r] = "current"
        BY <1>a, <1>4, <2>1, SnapshotTaken DEF InvalidateTokens, Fresh
    <2> QED  BY <2>1, <2>2 DEF Fresh, Knows
<1>5. CASE Blocked(r)
    <2>1. CommitAndEnd(r) \/ RollbackAndEnd(r)  BY <1>5, Zenon DEF Blocked
    <2> QED  BY <2>1, EndedIsFresh
<1>6. CASE WrongPassword(r) \/ GrantSession(r) \/ Redeem(r) \/ ChangePassword(r)
           \/ RefuseChange(r) \/ \E t \in Tokens : IssueToken(r, t)
    <2>1. CommitAndEnd(r)
        BY <1>6, Zenon
        DEF WrongPassword, GrantSession, Redeem, ChangePassword, RefuseChange, IssueToken
    <2> QED  BY <2>1, EndedIsFresh
<1>7. CASE DatabaseLocked(r) \/ Abandoned(r) \/ RejectChange(r)
    BY <1>7, EndedIsFresh DEF DatabaseLocked, Abandoned, RejectChange
<1>8. CASE RefuseRedeem(r) \/ Logout(r)
    BY <1>8 DEF RefuseRedeem, Logout, Fresh, requestVars
<1> QED
    BY <1>1, <1>2, <1>3, <1>4, <1>5, <1>6, <1>7, <1>8
    DEF RequestDoes, LoginStep, ResetStep, SessionStep

\* Time passing leaves what is known: a lock that has run out is still set, and
\* a token that has expired is still unspent.
LEMMA FreshKept ==
    ASSUME SQLite, TypeOK, AllFresh, [Next]_vars
    PROVE  AllFresh'
<1> SUFFICES ASSUME NEW q \in Requests  PROVE Fresh(q)'
    BY DEF AllFresh
<1>a. Fresh(q)  BY DEF AllFresh
<1>1. ASSUME NEW r \in Requests, RequestDoes(r)  PROVE Fresh(q)'
    <2>1. CASE q = r  BY <1>a, <1>1, <2>1, OwnStepFresh
    <2>2. CASE q # r
        <3>1. /\ UNCHANGED <<step[q], copy[q], chosen[q]>>
              /\ \/ Commit(r) \/ Commit(Limiter)
                 \/ UNCHANGED <<account, token, snap[q]>>
            BY <1>1, <2>2, OthersWait
        <3> QED  BY <1>a, <2>2, <3>1, FreshUndisturbed, RequestsAreSessions
    <2> QED  BY <2>1, <2>2
<1>2. CASE LockExpires
    BY <1>a, <1>2, TypeParts
    DEF LockExpires, Fresh, Knows, requestVars, txnVars, DataTypes, Account
<1>3. ASSUME NEW t \in Tokens, TokenExpires(t)  PROVE Fresh(q)'
    <2>1. chosen[q] \subseteq Tokens  BY TypeParts DEF RequestTypes
    <2> QED
        BY <1>a, <1>3, <2>1, TypeParts
        DEF TokenExpires, Fresh, Knows, requestVars, txnVars, DataTypes
<1>4. CASE UNCHANGED vars
    BY <1>a, <1>4 DEF vars, dataVars, requestVars, txnVars, Fresh, Knows
<1> QED  BY <1>1, <1>2, <1>3, <1>4, SomebodyDoes

\* The steps that change what is stored.
LEMMA WhatChanges ==
    ASSUME [Next]_vars
    PROVE  \/ UNCHANGED dataVars
           \/ \E r \in Requests :
                 \/ WrongPassword(r) \/ GrantSession(r) \/ Redeem(r) \/ ChangePassword(r)
                 \/ Logout(r) \/ \E t \in Tokens : IssueToken(r, t)
           \/ LockExpires \/ \E t \in Tokens : TokenExpires(t)
<1>1. ASSUME NEW r \in Requests, RequestDoes(r)
      PROVE  \/ UNCHANGED dataVars
             \/ WrongPassword(r) \/ GrantSession(r) \/ Redeem(r) \/ ChangePassword(r)
             \/ Logout(r) \/ \E t \in Tokens : IssueToken(r, t)
    BY <1>1
    DEF RequestDoes, LoginStep, ResetStep, SessionStep, CheckLimits, Refused, LoadForLogin,
        Blocked, ResetLimiter, LoadForRequest, LoadForRedeem, InvalidateTokens, RefuseRedeem,
        LoadForChange, LimitChange, RefuseChange, RejectChange, DatabaseLocked, Abandoned, LoadUser, RollbackAndEnd
<1>2. CASE UNCHANGED vars
    BY <1>2 DEF vars
<1> QED  BY <1>1, <1>2, SomebodyDoes

\* A request that commits after it has loaded the account still knows it.
LEMMA CommitterKnows ==
    ASSUME SQLite, TypeOK, AllFresh, NEW r \in Requests, CommitAndEnd(r),
           step[r] \notin {"idle", "checked"}
    PROVE  Knows(r)
<1>1. snap[r] # "none"  BY DEF AllFresh, Fresh
<1>2. snap[r] = "current"
    BY <1>1, TypeParts, RequestsAreSessions, CommitsOnCurrent DEF CommitAndEnd
<1> QED  BY <1>2 DEF AllFresh, Fresh

LEMMA SpentKept ==
    ASSUME SQLite, SqliteInv, [Next]_vars
    PROVE  Spent'
<1>a. TypeOK /\ AllFresh /\ Spent /\ DataTypes /\ RequestTypes  BY TypeParts DEF SqliteInv
<1>1. CASE UNCHANGED <<token, redeemed>>
    BY <1>a, <1>1 DEF Spent
<1>2. ASSUME NEW r \in Requests, NEW t \in Tokens, IssueToken(r, t)  PROVE Spent'
    <2>1. UNCHANGED redeemed /\ \A u \in Tokens : token[u] = "used" => token'[u] = "used"
        BY <1>a, <1>2 DEF IssueToken
    <2> QED  BY <1>a, <2>1 DEF Spent
<1>3. ASSUME NEW r \in Requests, Redeem(r)  PROVE Spent'
    <2>1. Knows(r)
        BY <1>a, <1>3, CommitterKnows DEF Redeem
    <2>2. ASSUME NEW t \in chosen[r]
          PROVE  redeemed'[t] = 1 /\ token'[t] = "used"
        <3>1. t \in Tokens /\ token[t] # "used"
            BY <1>a, <1>3, <2>1 DEF Redeem, Knows, RequestTypes
        <3>2. redeemed[t] = 0
            BY <1>a, <3>1 DEF Spent
        <3> QED  BY <1>3, <3>1, <3>2 DEF Redeem
    <2>3. ASSUME NEW t \in Tokens \ chosen[r]
          PROVE  redeemed'[t] = redeemed[t] /\ token'[t] = token[t]
        BY <1>a, <1>3 DEF Redeem, DataTypes
    <2> QED  BY <1>a, <2>2, <2>3 DEF Spent
<1>4. ASSUME NEW t \in Tokens, TokenExpires(t)  PROVE Spent'
    BY <1>a, <1>4 DEF TokenExpires, Spent, DataTypes
<1> QED
    BY <1>1, <1>2, <1>3, <1>4, WhatChanges
    DEF WrongPassword, GrantSession, ChangePassword, Logout, LockExpires, dataVars

LEMMA SingleLiveKept ==
    ASSUME SQLite, SqliteInv, [Next]_vars
    PROVE  SingleLive'
<1>a. TypeOK /\ AllFresh /\ SingleLive /\ DataTypes  BY TypeParts DEF SqliteInv
<1>1. CASE \A t \in Tokens : token'[t] = "live" => token[t] = "live"
    BY <1>a, <1>1 DEF SingleLive
<1>2. ASSUME NEW r \in Requests, NEW t \in Tokens, IssueToken(r, t)  PROVE SingleLive'
    <2>1. Knows(r) /\ step[r] = "invalidated"
        BY <1>a, <1>2, CommitterKnows DEF IssueToken
    <2>2. \A u \in Tokens : token'[u] = "live" => u = t
        BY <1>2, <2>1 DEF IssueToken, Knows
    <2> QED  BY <2>2 DEF SingleLive
<1>3. ASSUME \/ \E r \in Requests : Redeem(r)
             \/ \E t \in Tokens : TokenExpires(t)
             \/ UNCHANGED token
      PROVE  \A t \in Tokens : token'[t] = "live" => token[t] = "live"
    BY <1>a, <1>3 DEF Redeem, TokenExpires, DataTypes
<1> QED
    BY <1>1, <1>2, <1>3, WhatChanges
    DEF WrongPassword, GrantSession, ChangePassword, Logout, LockExpires, dataVars

LEMMA AccountKept ==
    ASSUME SQLite, SqliteInv, [Next]_vars
    PROVE  SessionsUseCurrentPassword' /\ FailuresAreCounted'
<1> USE DEF SessionsUseCurrentPassword, FailuresAreCounted
<1>a. /\ TypeOK /\ AllFresh /\ SessionsUseCurrentPassword /\ FailuresAreCounted
      /\ account \in Account /\ failures \in Nat /\ copy \in [Requests -> Account]
    BY TypeParts DEF SqliteInv, DataTypes, RequestTypes
<1>b. ASSUME NEW loaded \in Account, loaded.failed = account.failed,
             loaded.lock = "none" <=> account.lock = "none"
      PROVE  /\ Cleared(loaded).password = account.password
             /\ Cleared(loaded).failed = 0 /\ Cleared(loaded).lock = "none"
             /\ Cleared(loaded) \in Account
    BY <1>a, <1>b DEF Cleared, Account
<1>1. CASE UNCHANGED <<account, opened, failures>>
    BY <1>a, <1>1
<1>2. ASSUME NEW r \in Requests, WrongPassword(r)
      PROVE  SessionsUseCurrentPassword' /\ FailuresAreCounted'
    <2>1. Knows(r)
        BY <1>a, <1>2, CommitterKnows DEF WrongPassword
    <2>2. /\ account'.password = account.password /\ account'.failed = copy[r].failed + 1
          /\ account'.lock # "none"
                => account.lock # "none" \/ copy[r].failed + 1 >= MAX_FAILED_LOGINS
          /\ failures' = failures + 1 /\ opened' = opened
        BY <1>a, <1>2 DEF WrongPassword, Account
    <2>3. copy[r].failed = failures
        BY <1>a, <2>1 DEF Knows
    <2> QED  BY <1>a, <2>2, <2>3, LimitsAssumption
<1>3. ASSUME NEW r \in Requests, GrantSession(r)
      PROVE  SessionsUseCurrentPassword' /\ FailuresAreCounted'
    <2>1. CommitAndEnd(r) /\ step[r] \in {"granted", "web login"}
        BY <1>3, Zenon DEF GrantSession
    <2>2. Knows(r)
        BY <1>a, <2>1, CommitterKnows
    <2>3. copy[r] \in Account  BY <1>a
    <2>4. /\ copy[r].password = account.password /\ copy[r].failed = account.failed
          /\ copy[r].lock = "none" <=> account.lock = "none"
        BY <2>2 DEF Knows
    <2>5. /\ Cleared(copy[r]).password = account.password
          /\ Cleared(copy[r]).failed = 0 /\ Cleared(copy[r]).lock = "none"
          /\ Cleared(copy[r]) \in Account
        BY <1>b, <2>3, <2>4
    <2>6. Allowed(copy[r]) => account.lock = "none"
        BY <1>a, <2>3, <2>4, LimitsAssumption DEF Allowed, Account
    <2>7. /\ account'.password = account.password /\ account'.failed = 0
          /\ account'.lock = "none"
        BY <1>3, <2>5, <2>6 DEF GrantSession, Account
    <2>8. opened' = opened \cup {copy[r].password} /\ failures' = 0
        BY <1>3, Zenon DEF GrantSession
    <2> QED  BY <1>a, <2>4, <2>7, <2>8
<1>4. ASSUME NEW r \in Requests, Redeem(r)
      PROVE  SessionsUseCurrentPassword' /\ FailuresAreCounted'
    <2>1. Knows(r)
        BY <1>a, <1>4, CommitterKnows DEF Redeem
    <2>2. Cleared(copy[r]).failed = 0 /\ Cleared(copy[r]).lock = "none"
          /\ Cleared(copy[r]) \in Account
        BY <1>a, <1>b, <2>1 DEF Knows
    <2>3. account'.failed = 0 /\ account'.lock = "none"
        BY <1>4, <2>2 DEF Redeem, Account
    <2> QED  BY <1>4, <2>3 DEF Redeem
<1>5. ASSUME NEW r \in Requests, ChangePassword(r)
      PROVE  SessionsUseCurrentPassword' /\ FailuresAreCounted'
    <2>1. opened' = {} /\ failures' = failures
          /\ account' = [account EXCEPT !.password = @ + 1]
        BY <1>5 DEF ChangePassword
    <2> QED  BY <1>a, <2>1 DEF Account
<1>6. ASSUME NEW r \in Requests, Logout(r)
      PROVE  SessionsUseCurrentPassword' /\ FailuresAreCounted'
    BY <1>a, <1>6 DEF Logout
<1>7. CASE LockExpires
    BY <1>a, <1>7 DEF LockExpires, Account
<1> QED
    BY <1>1, <1>2, <1>3, <1>4, <1>5, <1>6, <1>7, WhatChanges
    DEF IssueToken, TokenExpires, dataVars

LEMMA SqliteInvariant == SQLite => (Spec => []SqliteInv)
<1> SUFFICES ASSUME SQLite  PROVE Spec => []SqliteInv
    OBVIOUS
<1>1. Init => SqliteInv
    BY TypeInit
    DEF Init, SqliteInv, AllFresh, Fresh, Spent, SingleLive, SessionsUseCurrentPassword,
        FailuresAreCounted, NewAccount
<1>2. SqliteInv /\ [Next]_vars => SqliteInv'
    BY TypeKept, FreshKept, SpentKept, SingleLiveKept, AccountKept DEF SqliteInv
<1> QED  BY <1>1, <1>2, PTL DEF Spec

\* On SQLite a reset token changes the password at most once, however many
\* requests have found it unused.
THEOREM TokensAreSpentOnce == SQLite => (Spec => []TokenSpentOnce)
<1> SUFFICES ASSUME SQLite  PROVE Spec => []TokenSpentOnce
    OBVIOUS
<1>1. SqliteInv => TokenSpentOnce  BY DEF SqliteInv, Spent, TokenSpentOnce
<1> QED  BY <1>1, SqliteInvariant, PTL

\* On SQLite at most one reset token can be redeemed at any moment, however
\* many requests issue one at the same time.
THEOREM TokensAreAlone == SQLite => (Spec => []OneLiveToken)
<1> SUFFICES ASSUME SQLite  PROVE Spec => []OneLiveToken
    OBVIOUS
<1>1. SingleLive => OneLiveToken
    <2> DEFINE live == {t \in Tokens : token[t] = "live"}
    <2> SUFFICES ASSUME SingleLive  PROVE Cardinality(live) <= 1
        BY DEF OneLiveToken
    <2>1. CASE live = {}
        BY <2>1, FS_EmptySet
    <2>2. CASE live # {}
        <3>1. PICK t \in live : TRUE  BY <2>2
        <3>2. live = {t}  BY <3>1 DEF SingleLive
        <3>3. Cardinality({t}) = 1  BY FS_Singleton
        <3> QED  BY <3>2, <3>3
    <2> QED  BY <2>1, <2>2
<1>2. SqliteInv => OneLiveToken  BY <1>1 DEF SqliteInv
<1> QED  BY <1>2, SqliteInvariant, PTL

\* On SQLite no session outlives the password by which it was opened: a login
\* that was under way while the password changed is refused its commit.
THEOREM SessionsEndWithTheirPassword == SQLite => (Spec => []SessionsUseCurrentPassword)
<1> SUFFICES ASSUME SQLite  PROVE Spec => []SessionsUseCurrentPassword
    OBVIOUS
<1>1. SqliteInv => SessionsUseCurrentPassword  BY DEF SqliteInv
<1> QED  BY <1>1, SqliteInvariant, PTL

\* On SQLite no failed login is lost from the count, and no account is locked
\* by fewer than it takes, though every request adds to a copy.
THEOREM NoFailureIsLost == SQLite => (Spec => []FailuresAreCounted)
<1> SUFFICES ASSUME SQLite  PROVE Spec => []FailuresAreCounted
    OBVIOUS
<1>1. SqliteInv => FailuresAreCounted  BY DEF SqliteInv
<1> QED  BY <1>1, SqliteInvariant, PTL
=============================================================================
