CONSTANTS
    TcpInterval = 1
    IpInterval = 3
    ArpInterval = 4
    CoarseInterval = 5
    FineInterval = 2
    TimeMod = 8
    MaxLag = 3
    PoolSize = 6
    ReceiveInterrupt = FALSE
    PitHandler = "hwtimer"
SPECIFICATION Spec
INVARIANT PeriodicKept
 
INVARIANT PoolSuffices
PROPERTY ImplementsTimerList
PROPERTY NoneStarves
