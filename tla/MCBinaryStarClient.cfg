SPECIFICATION FairSpec
CONSTANTS
    PeerExpiry = 3
    HWM = 3
    Reliable = TRUE
    Prompt = TRUE
    Retries = 3
INVARIANTS
    ClientTypeOK
    AtMostOneActive
PROPERTIES
    PairSettles
    ClientServed
