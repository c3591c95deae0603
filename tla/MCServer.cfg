SPECIFICATION FairSpec
CONSTANTS
    Requests = {r1, r2}
    Sess = {s1, s2}
    None = None
INVARIANTS
    SchemaAgrees
    ExitZeroIsClean
    InterruptedTeardownCloses
PROPERTIES
    ServerEnds
