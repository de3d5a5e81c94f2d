CONSTANTS
    MaxBlocks = 3
    Faults = {"command"}
SPECIFICATION Spec
PROPERTY RequestReturns
