SPECIFICATION Spec
CONSTANTS
    Orders = {o1, o2}
    Periods = {p1, p2}
    NoPeriod = NoPeriod
    Limit = 1
    Tasks = {t1, t2}
    MaxFaults = 1
SYMMETRY Symmetry
INVARIANTS
    BilledOnceUnlessCrossed
    ChargedIsPrintedAndPaid
    WithinLimitUnlessBlurred
    HeaderAgreesUnlessTogether
CHECK_DEADLOCK FALSE
