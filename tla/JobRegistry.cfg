SPECIFICATION Spec
CONSTANTS
    Sessions = {s1, s2}
    Spellings = {w1}
    GraceMs = 1
    StateTtlMs = 1
    MaxTime = 2
    MaxTemplates = 3
    MaxJobs = 1
    MaxSends = 2
    MaxFound = 1
SYMMETRY Symmetry
INVARIANTS
    TypeOK
    FreshSubmissionCountedOnce
    NoCreditPastGrace
    StaleFromTheOldest
    AnnouncedJobKept
CHECK_DEADLOCK FALSE
