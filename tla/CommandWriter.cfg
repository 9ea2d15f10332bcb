SPECIFICATION FairSpec
CONSTANTS
    Lengths = {0, 1, 3}
    Capacity = 2
    MaxCalls = 3
INVARIANTS
    InOrder
    OkIffWhole
PROPERTY TransmitReturns
CHECK_DEADLOCK FALSE
