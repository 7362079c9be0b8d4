SPECIFICATION FairSpec
CONSTANTS
    Jobs = {j1, j2}
    Keys = {k1}
    NoKey = NoKey
    Callers = {c1, c2}
    Workers = {w1, w2}
    Nobody = Nobody
    MaxAttempts = 2
    BatchSize = 2
    Lease = 2
    MaxWait = 1
    MaxFaults = 1
    MaxRetries = 1
INVARIANTS
    OneLiveRowPerKey
    HeldByOneUnlessOverrun
PROPERTIES
    FinishedRowsStayFinished
    QueueDrains
CHECK_DEADLOCK FALSE
