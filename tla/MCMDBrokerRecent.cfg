SPECIFICATION Spec
CONSTANTS
    w1 = w1
    w2 = w2
    m3 = m3
    echo = echo
    tea = tea
    mmi_service = mmi_service
    empty = empty
    NoRequest = NoRequest
    NoFrame = NoFrame
    r1 = r1
    r2 = r2
    NoName = empty
    MmiService = mmi_service
    WorkerIds <- MCWorkerIds
    Names <- MCNames
    MmiLike <- MCMmiLike
    MmiLikeIds <- MCMmiLikeIds
    Requests <- MCRequests
    Liveness = 1
    MaxRequests = 2
PROPERTY MostRecentlySeenFirst
