SPECIFICATION Spec
CONSTANTS
    Calls = {c1, c2}
    Servers = {v1, v2}
    None = None
    MaxSessions = 1
    Disconnects = {d1}
    CommandCalls = {k1}
    TransferCalls = {t1}
SYMMETRY Symmetry
INVARIANTS
    SessionLimit
    NoForgottenSession
    DisconnectReleases
    NoWorkAfterClose
PROPERTY KeyForUsableSession
