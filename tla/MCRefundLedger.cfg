SPECIFICATION Spec
CONSTANTS
    Paid = 2
    Part = 1
    Answers = {"pending"}
    Calls = {c1, c2}
    Deliveries = {d1, d2}
    MaxRefunds = 2
    MaxEvents = 3
    MaxRows = 2
    MaxFaults = 1
INVARIANTS
    LedgerAgreesWhileRowsStand
    FollowsFromRefunds
    FailedRefundIsTold
PROPERTIES
    FallenRowsStayFallen
CONSTRAINT FewerEventsAfterAFault
SYMMETRY Symmetry
CHECK_DEADLOCK FALSE
