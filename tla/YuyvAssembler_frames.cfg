SPECIFICATION AssemblerSpec
CONSTANTS
    FrameUnits = 2
    KnownUnits <- Known
    MaxUnits = 3
    MaxLost = 2
    MaxStrays = 2
    MaxDropped = 2
    MaxFrame = 6
PROPERTIES
    FrameOfItsHeader
    WholeFramesReady
CHECK_DEADLOCK FALSE
