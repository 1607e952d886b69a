SPECIFICATION Spec
CONSTANTS
    None = None
    w1 = w1
    w2 = w2
    c1 = c1
    j1 = j1
    j2 = j2
    Sessions = {w1, w2, c1}
    Workers = {w1, w2}
    Jobs = {j1, j2}
    Dialect = "sqlite"
    MaxAttempts = 2
    MaxFaults = 1
    MaxClaims = 2
SYMMETRY Symmetry
INVARIANTS TypeOK QueuedHasAttemptLeft
PROPERTIES ClaimTakesRunnable ImplementsDurableQueue
