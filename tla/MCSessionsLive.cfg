SPECIFICATION FairSpec
CONSTANTS
    Calls = {c1, c2}
    Servers = {v1}
    None = None
    MaxSessions = 2
    Disconnects = {d1}
    CommandCalls = {}
    TransferCalls = {t1}
INVARIANTS
    OneMasterPerServer
    ClosedServerEmpty
PROPERTIES
    ImplementsLease
    ConnectReturns
    CloseCompletes
    ShutdownCompletes
