SPECIFICATION OutcomeSpec
CONSTANTS
    Engineers = {e1}
    Nobody = nobody
    Actions = {"seal", "repairs", "refuse"}
    Invocations = {i1}
    Sealers = {s1, s2}
    MaxSessions = 0
    MaxDecisions = 2
    MaxActs = 2
    Names = {1, 2}
    MaxFaults = 1
SYMMETRY Symmetry
CONSTRAINT OneTrouble
INVARIANTS
    OneOutcomeUnlessCrossed
    RefusedMoneyGoesBackOnce
CHECK_DEADLOCK FALSE
