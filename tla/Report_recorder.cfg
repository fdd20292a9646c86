SPECIFICATION ReportSpec
CONSTANTS
    Sizes = {"640x480"}
    DefaultSize = "640x480"
    Nominal = 1
    MaxTime = 2
    MaxRecordings = 2
    MaxFrames = 2
    NIfaces = 2
INVARIANTS
    Timeline
    NoOrphan
    TestedAlone
    OnAsChosen
PROPERTIES
    EndAccountedFor
CHECK_DEADLOCK FALSE
