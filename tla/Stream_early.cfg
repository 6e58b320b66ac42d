\* A page reconnects to an engine that has not prepared its hello yet.
SPECIFICATION Spec
CONSTANTS
    Sockets = {s1}
    MaxMounts = 1
    MaxRuns = 2
    MaxSnapshots = 2
    MaxFaults = 1
    MaxQueue = 2
    LogLimit = 2
INVARIANTS
    EnginesApart
CHECK_DEADLOCK FALSE
