\* Two mounts, two engine runs of two snapshots, one fault, two sockets; no
\* symmetry under liveness.  The page may be closed and stay closed.
SPECIFICATION FairSpec
CONSTANTS
    Sockets = {s1, s2}
    MaxMounts = 2
    MaxRuns = 2
    MaxSnapshots = 2
    MaxFaults = 1
    MaxQueue = 2
    LogLimit = 2
INVARIANTS
    OneConnection
    StoreHonest
PROPERTIES
    ShownMonotone
    Recovers
CHECK_DEADLOCK FALSE
