SPECIFICATION ScreenSpec
CONSTANTS
    Sizes <- MCSizes
    Unknown = Unknown
    FitsInto <- MCFitsInto
    MaxOther = 1
    Colors = {0, 1}
    Black = 0
    v1 = v1
    v2 = v2
    s1 = s1
    Vecs = {v1, v2}
    Surfaces = {s1}
    Geometry <- MCGeometry
    Frame <- MCFrame
    None = None
    MaxDirtyEntries = 1
    MaxGen = 4
    Coords = {0, 1}
INVARIANTS
    SyncedShowsPixels
    QuietScreenIsExact
SYMMETRY Symmetry
