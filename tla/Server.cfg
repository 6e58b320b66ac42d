\* Two connections, three snapshots, stop called once (twice in Serve.cfg); no
\* symmetry under liveness.  The server alone may come to rest.
SPECIFICATION FairSpec
CONSTANTS
    Connections = {c1, c2}
    c1 = c1
    c2 = c2
    MaxBroadcasts = 3
    MaxStops = 1
INVARIANTS
    OneOutgoingOperation
    NoLeakedSession
PROPERTIES
    BufferStable
    ImplementsFeed
    BroadcastDelivered
    StopDrains
CHECK_DEADLOCK FALSE
