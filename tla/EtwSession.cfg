\* The network collector in three engines, one of them without rights; any
\* of them may die and be launched again.
SPECIFICATION FairSpec
CONSTANTS
    Engines = {e1, e2, e3}
    e1 = e1
    e2 = e2
    e3 = e3
    Admins = {e1, e2}
    None = None
    Network = TRUE
INVARIANTS
    LiveSessionKept
    FreshStart
    NoLeftover
PROPERTIES
    DestructorEnds
