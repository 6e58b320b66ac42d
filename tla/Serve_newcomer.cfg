\* One connection, two snapshots: one is broadcast during the handshake.
SPECIFICATION Spec
CONSTANTS
    Connections = {c1}
    MaxBroadcasts = 2
    MaxStops = 0
INVARIANTS
    NewcomerGetsLatest
CHECK_DEADLOCK FALSE
