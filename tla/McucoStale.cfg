CONSTANTS
    Op <- MCOp
    Width <- MCWidth
    Checked <- MCChecked
    DataVal <- MCDataVal
    MaxData = 1
    MaxCmds = 3
    MaxFaults = 0
SPECIFICATION EffectSpec
INVARIANTS
    ReplyAnswersCommand
