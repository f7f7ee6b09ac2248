SPECIFICATION FairSpec
CONSTANTS
    Workers = {w1, w2}
    NoWorker = NoWorker
    Clients = {c1}
    NoRequest = NoRequest
    READY = READY
    HEARTBEAT = HEARTBEAT
    Liveness = 2
    IntervalMax = 2
    Retries = 1
    HWM = 3
    Calls = 2
    MaxFaults = 1
    MaxRefusals = 1
INVARIANTS
    TypeOK
    QueuedOnce
    FreshWhenPopped
    
PROPERTIES
    WorkersStayQueued
