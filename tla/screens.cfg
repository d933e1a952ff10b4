SPECIFICATION Spec
CONSTANTS
    b1 = b1
    b2 = b2
    o1 = o1
    o2 = o2
    Surfaces = {b1, b2}
    OutputIds = {o1, o2}
    NoOutput = NoOutput
    Layers <- BarLayers
    Zones <- BarZones
    REPAINT_FRAMES = 2
INVARIANTS TypeOK CommitsAnswered UsableIsCurrent BarsStandApart PictureIsComing
PROPERTIES ComesBack
