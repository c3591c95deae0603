SPECIFICATION FairSpec
CONSTANTS
    Calls = {c1, c2}
    None = None
    MaxCancels = 3
INVARIANTS
    NoProcessLeftBehind
    ClosedRunnerStopped
PROPERTIES
    DeadlineEndsCall
    CloseEnds
