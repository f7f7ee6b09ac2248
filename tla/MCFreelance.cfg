SPECIFICATION FairSpec
CONSTANTS
    s1 = s1
    s2 = s2
    NoServer = NoServer
    Endpoints <- MCEndpoints
    PingInterval = 0
    ServerTTL = 0
    GlobalTimeout = 1
    Sleep = 0
    HWM = 1
    Calls = 2
INVARIANTS
    TypeOK
    CallerNeverForgotten
    AliveIsQueued
    QueuedAtMostTwice
    AnswersInOrder
PROPERTIES
    CallerReturns
