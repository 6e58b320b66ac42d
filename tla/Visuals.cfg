SPECIFICATION VisualsSpec
CONSTANTS
    g1 = g1
    g2 = g2
    FocusGroups = {g1, g2}
    FocusChildren = {c1}
    MaxClicks = 2
    Full = 1
    Edges <- Lines
    MAX_EDGES = 2
    Bright = 2
    FadeIn = 2
    Weights = {1, 3}
    MaxStep = 1
    Bodies = {g1}
    NoBody = NoBody
    POOL_CAPACITY = 4
    Particles <- ParticlesOf
    Duration <- DurationOf
    MaxTold = 2
    OrbitKeys = {1, 2}
    Sizes = {10, 11, 14}
    STAR_RADIUS = 1
    STAR_GAP = 2
    ARC_GAP = 12
    RING_GAP = 30
    RADIUS_DEADBAND = 10
    OUTSIDE_MARGIN = 40
    Reach = 24
    MAX_RINGS = 1
    Names = {1, 2, 3, 4}
    MAX_LABELS = 3
    SampleGroups = {g1, g2}
    SampleChild = c1
    Figures = {0, 2}
    IntervalMs = 2
    MaxLate = 2
    HoverGroups = {g1}
    HoverMoons = {m1}
    MaxCores = 2
    SPARKS_PER_CORE = 1
INVARIANTS VisualsTypeOK MoonsOfOwner HoverHonest
PROPERTIES Settles LinesSteady BurstsOrderly OrbitsSteady LabelsCalm SampleHonest
