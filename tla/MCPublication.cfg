SPECIFICATION Spec
CONSTANTS
    a = a
    b = b
    c = c
    Contents = {a, b, c}
    Size <- MCSize
    MaxSize = 2
    MaxAttempts = 2
    MaxChanges = 2
CHECK_DEADLOCK FALSE
INVARIANTS
    PublishedIsVerified
    NothingClobbered
    StableSourceVerifies
