SPECIFICATION Spec
CONSTANTS
    w1 = w1
    i1 = i1
    i2 = i2
    c1 = c1
    echo = echo
    mmi_service = mmi_service
    empty = empty
    NoName = empty
    NoRequest = NoRequest
    NoId = NoId
    MmiService = mmi_service
    Workers <- MCWorkers
    WorkerIds <- MCWorkerIds
    Clients <- MCClients
    Names <- MCNames
    MmiLike <- MCMmiLike
    MmiLikeIds = {}
    ServiceOf <- MCServiceOf
    Wants <- MCWants
    Calls = 1
    Liveness = 1
    HWM = 2
    MaxRestarts = 1
    MaxDeaths = 1
    Prompt = FALSE
SYMMETRY Symmetry
INVARIANTS
    AtMostOneCopy
PROPERTIES
    BrokerSpec
