SPECIFICATION Spec
CONSTANTS
    Targets = {3}
    NoTarget = NoTarget
    SafestCapHs = 2
    HourSec = 2
    FourSharesUnits = 3
    Costs = {1, 5}
    Enforced = TRUE
    NoBucket = NoBucket
    MaxClock = 3
    MaxAdvance = 3
    MaxCalls = 2
INVARIANTS
    TypeOK
    CreditedOnce
    AcceptedWithinAllowance
    FailsClosed
CHECK_DEADLOCK FALSE
