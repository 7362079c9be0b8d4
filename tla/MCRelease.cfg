SPECIFICATION Spec
CONSTANTS
    Accounts = {a1, a2, a3}
    OtherAccount = other
    NoAccount = none
    Invocations = {i1, i2}
    MaxFaults = 1
INVARIANTS
    DoneIsWhole
PROPERTIES
    ReleasesOnceUnlessOverlapped
    ConfirmsToAccountUnlessFaulted
CHECK_DEADLOCK FALSE
