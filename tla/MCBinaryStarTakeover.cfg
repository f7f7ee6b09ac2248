SPECIFICATION FairSpec
CONSTANTS
    PeerExpiry = 3
    HWM = 2
    Reliable = TRUE
    Prompt = FALSE
PROPERTIES
    PeerGoesPassive
