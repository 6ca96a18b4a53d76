SPECIFICATION Spec
CONSTANTS
    SlotMin = 2
    SaveMin = 0
    MaxTime = 4
    MaxCalls = 2
    MaxShares = 3
INVARIANTS
    TypeOK
    RowNeverOverstates
    ExactWithoutOverlap
CHECK_DEADLOCK FALSE
