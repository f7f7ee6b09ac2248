SPECIFICATION Spec
CONSTANTS
    PeerExpiry = 3
    HWM = 3
    Reliable = FALSE
    Prompt = FALSE
INVARIANTS
    TypeOK
    NeverBothPassive
    PassiveNeverHearsPassive
