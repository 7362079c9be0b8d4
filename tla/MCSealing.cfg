SPECIFICATION FairSpec
CONSTANTS
    Kinds = {"pass"}
    Invocations = {i1, i2}
    MaxDets = 2
    MaxActs = 2
    Names = {1, 2, 3}
    MaxFaults = 1
INVARIANTS
    SettledOnceUnlessSlipped
    ReissueWasSettledUnlessStopped
    BucketAndRegisterAgree
PROPERTIES
    KeepsRegister
    SealedIsSettledUnlessStopped
CHECK_DEADLOCK FALSE
