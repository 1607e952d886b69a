SPECIFICATION Spec
CONSTANTS
    None = None
    limiter = limiter
    r1 = r1
    r2 = r2
    r3 = r3
    t1 = t1
    t2 = t2
    Sessions = {limiter, r1, r2, r3}
    Limiter = limiter
    Dialect = "sqlite"
    Backend = "memory"
    Tokens = {t1, t2}
    MAX_FAILED_LOGINS = 2
    MaxChanges = 2
    MaxFaults = 1
SYMMETRY Symmetry
INVARIANTS TokenSpentOnce OneLiveToken SessionsUseCurrentPassword FailuresAreCounted
