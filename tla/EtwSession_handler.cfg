\* The scheduler's collector, whose console handler is never removed.
SPECIFICATION Spec
CONSTANTS
    Engines = {e1, e2}
    e1 = e1
    e2 = e2
    Admins = {e1, e2}
    None = None
    Network = FALSE
INVARIANTS
    LiveSessionKept
