SPECIFICATION Spec
CONSTANT MaxSignals = 0
CHECK_DEADLOCK FALSE
INVARIANT LossTerminatesDescendants
