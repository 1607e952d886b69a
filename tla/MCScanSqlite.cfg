SPECIFICATION ScanSpec
CONSTANTS
    None = None
    w1 = w1
    w2 = w2
    c1 = c1
    c2 = c2
    j1 = j1
    j2 = j2
    f1 = f1
    Sessions = {w1, w2, c1}
    Workers = {w1, w2}
    Jobs = {j1, j2}
    Fingerprints = {f1}
    WaitModes = {FALSE}
    Dialect = "sqlite"
    MaxAttempts = 2
    MaxFaults = 1
    MaxClaims = 2
SYMMETRY Symmetry
INVARIANTS ScanTypeOK DoneJobMeansSettledScan ResultsExactlyWhenSucceeded
PROPERTIES SettledScanStays UsesJobQueue
