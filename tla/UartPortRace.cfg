CONSTANT Proc = {p1, p2}
SPECIFICATION Spec
INVARIANT ExclusiveHolder
