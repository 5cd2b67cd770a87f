SPECIFICATION Spec
CONSTANTS
    Black = Black
    White = White
    None = None
    Gone = Gone
    Ids = {s1, s2}
    MaxList = 2
    MaxSteps = 7
    Slots = {1}
    Colors <- TwoColors
    Zero = Black
    SurfaceSizes <- SquareOrTall
    ScreenSizes <- Square
    Origins <- LeftOrRight
    Rects <- SomeRects
    Points <- SomePoints
    Bitmaps <- WideBitmap
    Streams <- TwoTiles
    Tile = 1
SYMMETRY SurfaceSymmetry
INVARIANTS
    Inv
PROPERTIES
    ResetsKeepPictures
    FlushesAreSound
CHECK_DEADLOCK FALSE
