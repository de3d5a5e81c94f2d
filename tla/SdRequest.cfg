CONSTANTS
    MaxBlocks = 3
    Faults = {"command", "data", "stop", "status"}
SPECIFICATION Spec
INVARIANT RequestPresent
INVARIANT SuccessMeansMoved
PROPERTY OtherRequestsReturn
