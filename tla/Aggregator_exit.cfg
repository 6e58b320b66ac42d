\* A process ends between being listed and being opened.
SPECIFICATION Spec
CONSTANTS
    Pids = {1, 2}
    Programs = {"app", "guard", "svchost"}
    Service = "svchost"
    UserPrograms = {"app"}
    Closed = {"guard"}
    MaxHops = 3
    MaxGroups = 1
    MaxClock = 5
    MaxCpu = 1
PROPERTIES
    OnlyRealStarts
CHECK_DEADLOCK FALSE
