SPECIFICATION Spec
CONSTANTS
    RatioUnits = 8
    MinRatio = 1
    MaxRatio = 7
    DefaultRatio = 4
    MaxLeaves = 4
    Boxes <- UsableAreas
    TinyBoxes <- VerySmall
    Gaps = {0, 8}
INVARIANT NeighbourIsBeside
