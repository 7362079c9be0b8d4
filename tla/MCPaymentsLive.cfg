SPECIFICATION FairSpec
CONSTANTS
    Sessions = {s1}
    NoSession = NoSession
    Invocations = {i1, i2}
    MaxFaults = 2
    MaxResends = 1
PROPERTIES
    PaidIsRecorded
    DeliveredClaimFinishes
CHECK_DEADLOCK FALSE
