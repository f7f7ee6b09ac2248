SPECIFICATION Spec
CONSTANTS
    s1 = s1
    s2 = s2
    NoServer = NoServer
    Endpoints <- MCEndpoints
    PingInterval = 2
    ServerTTL = 6
    GlobalTimeout = 3
    Sleep = 2
    HWM = 1
    Calls = 3
INVARIANTS
    ExpectsHolds
