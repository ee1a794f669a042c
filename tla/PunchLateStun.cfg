\* The answer of the STUN server comes after its deadline
CONSTANTS
    Members = {m1}
    Near = {}
    MaxTry = 1
    MaxCrash = 0
    MaxNet = 2
    Stun = Stun
    None = None
SPECIFICATION Spec
INVARIANT
    PunchReturnsPeer
CHECK_DEADLOCK FALSE
