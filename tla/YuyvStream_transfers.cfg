SPECIFICATION FairSpec
CONSTANTS
    Transfers <- ThreeTransfers
    MaxFrames = 2
INVARIANTS
    InFlightExact
PROPERTIES
    PressReported
    PoolSpec
    StreamEnds
CHECK_DEADLOCK FALSE
