SPECIFICATION FairSpec
CONSTANTS
    Devices = {d1, d2}
    Genuine = {d1}
    NoDevice = NoDevice
    MaxCalls = 2
INVARIANTS
    TypeOK
    BoundToProvedDevice
    SubscribesOnce
    ServedOnlyWhenGranted
PROPERTIES
    RevokedSessionEnds
    ClosedSessionStopsAsking
CHECK_DEADLOCK FALSE
