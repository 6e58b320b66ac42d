\* The loop: four samples of a period of three instants, naps of two.  The
\* table: two processes, one thread besides Idle and two cores.  The traffic:
\* two bytes in two windows, four flows.
\* The loop ends, and the clock stops at its bound.
SPECIFICATION EngineSpec
CONSTANTS
    Interval = 3
    Iterations = 4
    SleepSlice = 2
    MaxClock = 14
    Pids = {1, 2}
    Tids = {1}
    Cores = {0, 1}
    MaxTime = 3
    NetFlows <- OwnFlows
    NetBinds <- OwnBinds
    AnyAddress = "any"
    NearBy = {"near"}
    MaxBytes = 2
INVARIANTS PeriodNeverBeaten StopHeeded ShareInWindow Conservation TrafficHonest
CHECK_DEADLOCK FALSE
