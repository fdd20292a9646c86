SPECIFICATION Spec
CONSTANTS
    Frames <- FrameSizes
    DefaultFrame <- VGA
    Items <- Layouts
    Zooms = {0, 2}
    MaxZoom = 8
    Drags <- Distances
    Turns = {0, 90, 270}
    MaxFrames = 2
    MaxGestures = 5
    MaxRefusals = 1
INVARIANTS
    ScreenCurrent
    NoBlackScrolledIn
    FitShowsAll
PROPERTIES
    FramesReachScreen
CHECK_DEADLOCK FALSE
