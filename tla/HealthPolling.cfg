\* An executor that fails and recovers and that the panel saves and deletes, beside a
\* back end whose polling is off by default; one ensure_running at a time, so one loop
CONSTANTS
    Backends = {b1, b2}
    Edited = {b1}
    Unsteady = {b1}
    Executors = {b1}
    Thresholds <- OnlyStrict
    Default <- Strict
    MaxFailures = 1
    Puts = {p1}
    Starters = {s1}
    Loops = {l1}
    None = None
SPECIFICATION FairSpec
PROPERTIES
    RunningLoopPolls
    RemovedRecovers
    IdleCostsNothing
