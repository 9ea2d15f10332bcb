SPECIFICATION Spec
CONSTANTS
    Prog = {"blink", "irq_bind", "pwm_breathe", "pwm_frequency"}
    DutyMax = 5
    DutyStep = 2
INVARIANT TakesOver
INVARIANT CleanExit
PROPERTY Smooth
PROPERTY Breathes
PROPERTY PollersStop
