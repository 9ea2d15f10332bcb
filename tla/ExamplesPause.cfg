SPECIFICATION Spec
CONSTANTS
    Prog = {"irq_bind"}
    DutyMax = 5
    DutyStep = 2
PROPERTY StopsWhenAsked
