SPECIFICATION FairSpec
CONSTANTS
    RxSize = 3
    TxSize = 2
    Frames = {f1, f2}
    Good = {g}
    Damaged = {d}
    NoFrame = NoFrame
    Preempted = FALSE
INVARIANTS
    SpoiltOnlyWhenFull
    LeftOnlyByDamage
    ReceiverRestarted
PROPERTIES
    ReceivesInOrder
    SendsInOrder
    FullRingDrains
