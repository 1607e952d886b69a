SPECIFICATION PlatformSpec
CONSTANTS
    None = None
    e1 = e1
    e2 = e2
    Sessions = {e1, e2}
    Dialect = "sqlite"
    \* findings
    f1 = f1
    ScanIds = {1, 2, 3}
    Fingerprints = {f1}
    \* policies
    n1 = n1
    n2 = n2
    d1 = d1
    d2 = d2
    PolicyIds = {1, 2}
    PolicyNames = {n1, n2}
    Documents = {d1, d2}
    GatedScans = {1}
    MaxVersion = 2
    \* tenancy
    o1 = o1
    o2 = o2
    u1 = u1
    u2 = u2
    u3 = u3
    Orgs = {o1, o2}
    Users = {u1, u2, u3}
    OrgOf <- MCOrgOf
    Founders <- MCFounders
    Objects = {1}
    ScopeChoices <- MCScopeChoices
    Grantable = {"developer", "owner"}
    \* audit
    Chunk = 2
    Retentions = {0, 1}
    MaxRecords = 4
    MaxClock = 3
    \* limiter
    c1 = c1
    c2 = c2
    Callers = {c1, c2}
    Limit = 2
    Window = 3
    Delay = 1
    MaxTime = 4
    MaxHits = 4
SYMMETRY Symmetry
INVARIANTS PlatformTypeOK HistoryExplainsStatus OpenIsReported RecomputedFromSameDocument
           AdmitsAtMostLimit RetryAfterSuffices
PROPERTIES TriageOutlivesScans DefaultHandedOver ChangesAreAccountedFor
           DeliveredExportIsTheTrail PurgeLeavesNoGap
\* The system may stop: ids and bounds are used up.
CHECK_DEADLOCK FALSE
