SPECIFICATION FairDiffSpec
CONSTANTS
    Scale = 5
    One = 25
    Units = {1, 5, 25}
    MinDiff = 4
    MaxDiff = 45
    InitDiff = 10
    CpuDiff = 2
    TargetRate = 3
    MaxWord = 7
    CacheSize = 1
    MinShares = 2
    Suggested = {60}
    MaxSuggestions = 2
    MaxSends = 2
    MaxGap = 2
\* The process may end.
CHECK_DEADLOCK FALSE
INVARIANTS
    DiffTypeOK
    JobFollowsDifficulty
PROPERTIES
    FollowsRate
    SlowMinerReachesMinimum
