\* A lock nobody holds
CONSTANTS
    Procs = {p1, p2}
    Users = {u1}
    MaxStarts = 2
    None = None
    Torn = Torn
SPECIFICATION Spec
INVARIANT RefusedMeansRunning
\* The starts are bounded
CHECK_DEADLOCK FALSE
