------------------------------ MODULE MCPlatform ------------------------------
(* Components of the platform that meet only in the database, on small        *)
(* instances: one run checks each of them by itself, the first state says     *)
(* which.                                                                     *)
EXTENDS FindingLedger, PolicyGate, Tenancy, AuditLog, RateLimiter, TLC

CONSTANTS o1, o2, u1, u2, u3

VARIABLE part

MCOrgOf == u1 :> o1 @@ u2 :> o1 @@ u3 :> o2
MCFounders == u1 :> "owner" @@ u3 :> "owner"
MCScopeChoices == {{"token.manage"}, {"project.manage", "integration.manage"}}

Symmetry == Permutations(Sessions) \cup Permutations(PolicyNames)
            \cup Permutations(Documents) \cup Permutations(Callers)

PlatformTypeOK ==
    LedgerTypeOK /\ PolicyTypeOK /\ TenancyTypeOK /\ AuditTypeOK /\ LimiterTypeOK

PlatformInit ==
    /\ part \in {"findings", "policies", "tenancy", "audit", "limiter"}
    /\ LedgerInit /\ PolicyInit /\ TenancyInit /\ AuditInit
    /\ LimiterInit
    /\ part # "limiter" => store = "memory"

PlatformNext ==
    \/ /\ part = "findings" /\ LedgerNext
       /\ UNCHANGED <<policyVars, tenancyVars, auditVars, limiterVars, part>>
    \/ /\ part = "policies" /\ PolicyNext
       /\ UNCHANGED <<rowVars, work, historyVars, tenancyVars, auditVars, limiterVars, part>>
    \/ /\ part = "tenancy" /\ TenancyNext
       /\ UNCHANGED <<rowVars, work, historyVars, policyVars, auditVars, limiterVars, part>>
    \/ /\ part = "audit" /\ AuditNext
       /\ UNCHANGED <<rowVars, work, historyVars, policyVars, tenancyVars, limiterVars, part>>
    \/ /\ part = "limiter" /\ LimiterNext
       /\ UNCHANGED <<ledgerVars, policyVars, tenancyVars, auditVars, part>>

PlatformSpec ==
    PlatformInit
    /\ [][PlatformNext]_<<ledgerVars, policyVars, tenancyVars, auditVars, limiterVars, part>>
=============================================================================
