SPECIFICATION Spec
CONSTANTS
    LONG_MAX = 7
    Timeouts <- MCTimeouts
    MaxLag = 1
    MaxUptime = 12
INVARIANT ExpiresOnTime
CHECK_DEADLOCK FALSE
