SPECIFICATION Spec
CONSTANTS
    a = a
    b = b
    c = c
    Contents = {a, b, c}
    Size <- MCSize
    MaxSize = 2
    MaxAttempts = 2
    MaxChanges = 1
CHECK_DEADLOCK FALSE
INVARIANT DestinationWhole
