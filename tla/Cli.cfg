SPECIFICATION Spec
CONSTANTS
    ULONG_MAX = 16777215
    Lines <- MCLines
INVARIANTS
    TypedIsSent
    AcceptedIsSendable
CHECK_DEADLOCK FALSE
