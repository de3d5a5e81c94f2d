CONSTANTS
    TableSize = 2
    MaxAge = 2
    Rerequest = 1
    MaxPending = 2
    Hosts = {h1, h2, gw}
    Gateway = gw
    Remotes = {remote}
    Macs = {m1, m2}
    None = none
    Preempted = FALSE
SPECIFICATION Spec
INVARIANT TableSound
INVARIANT AddressFresh
INVARIANT NoFlood
PROPERTY QueueDrains
