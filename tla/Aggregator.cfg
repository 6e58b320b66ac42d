\* Two pids, enough for a cycle of parents; one program that cannot be opened,
\* one of services.
SPECIFICATION Spec
CONSTANTS
    Pids = {1, 2}
    Programs = {"app", "guard", "svchost"}
    Service = "svchost"
    UserPrograms = {"app"}
    Closed = {"guard"}
    MaxHops = 3
    MaxGroups = 1
    MaxClock = 5
    MaxCpu = 1
INVARIANTS
    LifecycleReplays
    CountedOnce
PROPERTIES
    ShareIsOwn
    KeepsPlace
CHECK_DEADLOCK FALSE
