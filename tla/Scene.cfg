\* Two pids, two lives each; an engine run of four snapshots and one of two.
SPECIFICATION Spec
CONSTANTS
    Pids = {p1, p2}
    MaxLives = 2
    MaxSeq = 4
    MaxSessions = 2
    Full = 2
    SPAWN_WINDOW_SNAPSHOTS = 1
SYMMETRY Symmetry
VIEW View
INVARIANTS OnStage
PROPERTIES EventsTrue OpacityContinuous FocusStays
