SPECIFICATION FairSpec
CONSTANTS
    Sessions = {s1, s2}
    MaxHeight = 2
    MaxTick = 1
    MaxPolls = 2
INVARIANTS
    TypeOK
    SwallowsAtMostOne
PROPERTIES
    ImplementsFeed
    PublishedNeverFallsBack
    PublishedBlockAnnounced
