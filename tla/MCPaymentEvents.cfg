SPECIFICATION Spec
CONSTANTS
    Sessions = {s1, s2}
    NoSession = NoSession
    Invocations = {i1, i2}
    MaxFaults = 1
    MaxResends = 1
INVARIANTS
    UnreleasedIsClaimed
    CancelledMoneyToldWithoutFaults
PROPERTIES
    KeepsPromise
    ClosesNoLiveCheckoutUnlessRaced
CHECK_DEADLOCK FALSE
