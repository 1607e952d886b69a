SPECIFICATION FairSpec
CONSTANTS
    None = None
    limiter = limiter
    r1 = r1
    r2 = r2
    r3 = r3
    t1 = t1
    t2 = t2
    Sessions = {limiter, r1}
    Limiter = limiter
    Dialect = "sqlite"
    Backend = "database"
    Tokens = {t1}
    MAX_FAILED_LOGINS = 2
    MaxChanges = 1
    MaxFaults = 0
PROPERTY GrantedLoginSucceeds
