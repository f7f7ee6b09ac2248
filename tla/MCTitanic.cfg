SPECIFICATION FairSpec
CONSTANTS
    Requests = {u1, u2}
    NoOne = NoOne
    Available = {u1}
    MaxCrashes = 2
    MaxTimeouts = 1
CHECK_DEADLOCK FALSE
INVARIANTS
    TypeOK
    OncePerAttempt
    FailsOnlyAfterCrash
PROPERTIES
    KeepsPromise
    ServedUnlessCrashed
    RecordedIsDone
