SPECIFICATION FairSpec
CONSTANTS
    Process = {p0, p1}
    MaxHeight = 1
    MaxStray = 0
PROPERTIES
    ClusterCatchesUp
