CONSTANTS
    Byte <- MCByte
    Val <- MCVal
    Intact <- MCIntact
    MaxData = 1
    MaxRx = 4
    MaxStream = 7
SPECIFICATION HistorySpec
INVARIANT Reassembly
