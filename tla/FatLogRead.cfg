SPECIFICATION FatSpec
CONSTANTS
    Width = 3
    FatSectors = 3
    LastCluster = 7
    Others = {7}
    Lengths = {1}
    Sizes = {9}
    EndOfChain = 98
    DiskError = 99
    MaxAppends = 1
    Fat32 = TRUE
    Faults = {"read"}
INVARIANTS
    LogKept
CHECK_DEADLOCK FALSE
