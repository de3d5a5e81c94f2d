SPECIFICATION FatFairSpec
CONSTANTS
    Width = 3
    FatSectors = 3
    LastCluster = 7
    Others = {7}
    Lengths = {1, 2}
    Sizes = {0, 2, 3, 9}
    EndOfChain = 98
    DiskError = 99
    MaxAppends = 3
    Fat32 = TRUE
    Faults = {"write", "power"}
INVARIANTS
    LogKept
    AppendEffect
    VolumeWhole
    CacheCoherent
PROPERTIES
    AppendEnds
CHECK_DEADLOCK FALSE
