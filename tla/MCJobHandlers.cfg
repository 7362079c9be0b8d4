SPECIFICATION HandlersSpec
CONSTANTS
    Jobs = {j1, j2}
    Keys = {e1, n1, e2}
    EmailKeys = {e1, e2}
    NoticeKeys = {n1}
    Suppressed = {e2}
    NoKey = NoKey
    Callers = {c1, c2}
    Workers = {w1, w2}
    Nobody = Nobody
    MaxAttempts = 2
    BatchSize = 1
    Lease = 1
    MaxWait = 1
    MaxFaults = 1
    MaxRetries = 1
    MaxSlips = 1
SYMMETRY Symmetry
CONSTRAINT TwoTroubles
INVARIANTS
    EmailSendsAgainOnlyUnstamped
    DoneMeansSent
    NoticeSendsOnceInQuiet
CHECK_DEADLOCK FALSE
