SPECIFICATION TrialSpec
CONSTANTS
    Enum = {0, 1, 2, 3, 4, 256}
    Port = {0, 6, 7, 256}
    Pin = {0, 15, 16}
    Group = {0, 2, 3}
    Freq = {0, 1, 255, 256, 65536, 1000000, 1000001, 2147483647}
    Duty = {0, 255, 256, 1000, 1001, 65535}
    Level = {0, 1, 255}
    Reason = {1, 2, 3, 4, 5, 6, 7, 8, 9, 10, 127}
    Damage <- MCDamage
    Junk <- MCJunk
INVARIANT Unambiguous
INVARIANT CrcIsRemainder
INVARIANT ReadBack
INVARIANT TellsWho
INVARIANT DamageDetected
