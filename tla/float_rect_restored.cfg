SPECIFICATION TripSpec
CONSTANTS
    m1 = m1
    m2 = m2
    m3 = m3
    OutputIds = {m1, m2}
    WorkspaceCount = 2
    NoWorkspace = NoWorkspace
    Size <- Sizes
    Configured = {m2}
    Position <- BothAtOrigin
    Bars <- BarOnFirst
    Points = {0, 3}
    NaturalSizes = {1, 5}
    FloatPercent = 60
    NUDGE_STEP = 1
    MIN_FLOAT_SIZE = 1
    MaxSize = 4
    MaxDrift = 5
PROPERTIES FloatRectRestored
