SPECIFICATION FairSpec
CONSTANT MaxSignals = 2
CHECK_DEADLOCK FALSE
INVARIANTS
    NothingOutlives
PROPERTIES
    SignalEnds
    LossEndsCommand
    CrashCleaned
