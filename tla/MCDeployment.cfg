SPECIFICATION DeploymentSpec
CONSTANTS
    None = None
    w1 = w1
    w2 = w2
    c1 = c1
    j1 = j1
    Sessions = {w1, w2, c1}
    Workers = {w1, w2}
    Jobs = {j1}
    Dialect = "postgres"
    MaxAttempts = 2
    MaxFaults = 1
    MaxClaims = 6
    Processes = {c1, w1}
    Contents <- MCContents
    MaxStarts = 5
    MaxDeaths = 1
INVARIANTS RunningIsLookedAfter StartedMeansMigrated
PROPERTIES EveryJobSettles GenuineComesUp
\* Start-up stops when every process is up or has used up its starts.
CHECK_DEADLOCK FALSE
