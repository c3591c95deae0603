SPECIFICATION Spec
CONSTANTS
    Members = 2
    Sizes = {0, 513}
    MaxMembers = 2
    MaxBytes = 1026
    MaxChanges = 2
    None = None
INVARIANTS
    DeliveredIsFrozen
    NothingBeforeCheck
    LimitsAgree
CHECK_DEADLOCK FALSE
