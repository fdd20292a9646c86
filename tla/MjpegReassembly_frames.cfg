SPECIFICATION Spec
CONSTANTS
    FidModulo = 3
    MaxAcc = 2
    MaxSize = 4
    MaxFrame = 5
    MaxGap = 1
INVARIANTS
    FramesUnmixed
PROPERTIES
    ShownInOrder
    NothingWithheld
CHECK_DEADLOCK FALSE
