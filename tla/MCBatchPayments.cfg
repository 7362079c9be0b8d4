SPECIFICATION Spec
CONSTANTS
    Members = {m1, m2}
    Sessions = {s1, s2}
    NoSession = NoSession
    Invocations = {i1, i2}
    MaxFaults = 1
    MaxResends = 0
SYMMETRY Symmetry
INVARIANTS
    SettledTogether
    UnreleasedIsClaimed
    ChargeIsOnFileOnce
PROPERTIES
    ClosesNoLiveCheckoutUnlessRaced
CHECK_DEADLOCK FALSE
