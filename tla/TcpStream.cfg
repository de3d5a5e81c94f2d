SPECIFICATION FairSpec
CONSTANTS
    MaxData = 3
    Mss = 2
    SndBuf = 3
    MaxRtx = 2
    Buf = 2
    Steps = {2}
    MaxFaults = 1
INVARIANTS
    
    WindowKept
    
PROPERTIES
    
    Progress
CHECK_DEADLOCK FALSE
