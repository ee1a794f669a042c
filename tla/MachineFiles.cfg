\* Two processes at a time, three in all, two accounts
CONSTANTS
    Procs = {p1, p2}
    Users = {u1, u2}
    MaxStarts = 3
    None = None
    Torn = Torn
SPECIFICATION Spec
SYMMETRY Alike
INVARIANTS
    OneGatewayPerLock
    SecretsReadable
    LogoutHolds
    BoundIsBound
    RoleKept
\* The starts are bounded
CHECK_DEADLOCK FALSE
