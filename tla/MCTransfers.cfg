SPECIFICATION FairSpec
CONSTANTS
    Ops = {o1, o2}
    Managers = {m1, m2}
    DownloadKeys = {dk}
    UploadKeys = {uk}
    None = None
    MaxTransfers = 1
    CancelCalls = {k1}
INVARIANTS
    ReservationsExact
    ClosedManagerIdle
    NoUnsignalledRsync
PROPERTIES
    FinalStateStays
    CancelCallEnds
    CloseEnds
