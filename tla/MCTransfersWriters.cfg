SPECIFICATION Spec
CONSTANTS
    Ops = {o1, o2}
    Managers = {m1}
    DownloadKeys = {dk}
    UploadKeys = {}
    None = None
    MaxTransfers = 1
    CancelCalls = {k1, k2}
INVARIANT OneWriterPerDestination
