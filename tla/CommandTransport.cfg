CONSTANTS
    Byte <- MCByte
    Intact <- MCIntact
    MaxData = 0
    Timeouts <- MCTimeouts
    MaxLag = 1
    MaxRx = 2
    MaxNow = 9
SPECIFICATION LiveSpec
CHECK_DEADLOCK FALSE
INVARIANTS
    TypeOK
    InBounds
    OnTime
    TimesFit
PROPERTIES
    NeverEarly
    ReaderSpec
    CallReturns
