\* A gateway with its mirror, and a client with one copy
CONSTANTS
    Clones = {c1, c2}
    MaxCells = 2
    MaxTokens = 2
    MaxEvents = 2
    MaxUsed = 1
    None = None
SPECIFICATION FairSpec
INVARIANT RevokedWasRefused
PROPERTY
    MirrorConverges
\* A banned machine without a token is refused for ever
CHECK_DEADLOCK FALSE
