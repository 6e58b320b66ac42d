\* Two connections, one snapshot, Ctrl+C at any moment, with and
\* without a limit of samples; deadlock is checked.
SPECIFICATION FairServeSpec
CONSTANTS
    Connections = {c1, c2}
    c1 = c1
    c2 = c2
    MaxBroadcasts = 1
    MaxStops = 2
    Limits = {1}
INVARIANTS
    ReturnsOrderly
    HelloFirstOnceSet
PROPERTIES
    ImplementsServer
    ShutdownCompletes
