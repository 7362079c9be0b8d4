SPECIFICATION BatchSpec
CONSTANTS
    Members = {m1, m2}
    NoMember = NoMember
    Share = 2
    PartOfShare = 1
    BatchCalls = {c1, c2}
    BatchDeliveries = {d1, d2}
    MaxBatchRefunds = 2
    MaxBatchRows = 3
    MaxBatchFaults = 1
SYMMETRY Symmetry
INVARIANTS
    AsksWithinWhatIsLeft
    OutsideRefundsStayWithinReturned
CHECK_DEADLOCK FALSE
