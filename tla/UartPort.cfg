CONSTANT Proc = {p1, p2, p3}
SPECIFICATION Spec
INVARIANTS
    NothingLeftOpen
    HeldIsConfigured
PROPERTY LateOpenRefused
