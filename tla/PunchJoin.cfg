\* A member who starts its program twice, a leader that crashes once
CONSTANTS
    Members = {m1}
    Near = {}
    MaxTry = 2
    MaxCrash = 1
    MaxNet = 2
    Stun = Stun
    None = None
SPECIFICATION FairSpec
INVARIANTS
    FingerprintHolds
    OneEndpoint
PROPERTY
    EverythingEnds
CHECK_DEADLOCK FALSE
