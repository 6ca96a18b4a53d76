SPECIFICATION Spec
CONSTANTS
    Fees = {333, 1500}
    Rewards = {200}
    HeightBytes = {0, 3}
    IdBytes = {0, 9}
    Rooms = {14, 40}
    MaxScript = 20
    Values = {"a", "b"}
    Widths = {3, 4}
    LockedValue = "b"
    MaxCalls = 1
    MaxOffWidth = 1
\* A session whose job cannot be built is ended.
CHECK_DEADLOCK FALSE
INVARIANTS
    TypeOK
    PayoutExact
    HashedAsMined
    BlockAsJudged
    SignatureStands
