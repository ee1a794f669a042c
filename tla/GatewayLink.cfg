\* A leader on the network, one behind a deep link whose panel makes two calls
CONSTANTS
    Lan <- LocalLeaders
    Deep <- DeepLeaders
    Requests = {r1}
    Modes <- TwoModes
    Configured = "off"
    Threshold = 1
    MaxCalls = 2
    MaxCrash = 1
    None = None
SPECIFICATION FairSpec
INVARIANTS
    StaticIsEncrypted
    OpenedIsSealed
    EnforceHolds
PROPERTY
    SilentLeaderIsLeft
