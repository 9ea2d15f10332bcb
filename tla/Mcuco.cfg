CONSTANTS
    Op <- MCOp
    Width <- MCWidth
    Checked <- MCChecked
    DataVal <- MCDataVal
    MaxData = 1
    MaxCmds = 3
    MaxFaults = 1
SPECIFICATION EffectSpec
INVARIANTS
    StalenessBound
    ReplyOrder
    StatusIsTrue
    ExecutedOnce
