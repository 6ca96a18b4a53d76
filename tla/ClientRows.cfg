SPECIFICATION FairSpec
CONSTANTS
    Sessions = {s1}
    MaxBest = 2
    MaxIdle = 2
    MaxMarked = 3
    MaxCalls = 2
INVARIANTS
    TypeOK
    BestExactWithoutOverlap
PROPERTIES
    EndedSessionGoes
    MiningSessionShown
