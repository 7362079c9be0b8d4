SPECIFICATION Spec
CONSTANTS
    e1 = e1
    e2 = e2
    i1 = i1
    i2 = i2
    Engineers = {e1, e2}
    Nobody = nobody
    Actions = {"seal", "revisions", "refuse"}
    Invocations = {i1, i2}
    MaxSessions = 2
    MaxDecisions = 2
    MaxFaults = 1
SYMMETRY Symmetry
INVARIANTS
    SessionAndLogAgree
    CreditedOnce
PROPERTIES
    RefusedNeverReturns
CHECK_DEADLOCK FALSE
