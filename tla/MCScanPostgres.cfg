SPECIFICATION FairScanSpec
CONSTANTS
    None = None
    w1 = w1
    w2 = w2
    c1 = c1
    c2 = c2
    j1 = j1
    f1 = f1
    Sessions = {w1, w2, c1}
    Workers = {w1, w2}
    Jobs = {j1}
    Fingerprints = {f1}
    WaitModes = {TRUE, FALSE}
    Dialect = "postgres"
    MaxAttempts = 2
    MaxFaults = 1
    MaxClaims = 4
PROPERTY EveryScanAnswered
