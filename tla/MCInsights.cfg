CONSTANTS
    Activity = {a1, a2, a3}
    Day = {7, 8, 9}
    Kg <- TwoModes
    Event = {e1, e2, e3}
    MaxFaults = 1
    Null = Null
CHECK_DEADLOCK FALSE
SYMMETRY AnyNames
SPECIFICATION Spec
INVARIANTS
    InsightOnce
    WeekIsSummarised
