SPECIFICATION Spec
CONSTANTS
    StringReads = 6
    DrainReads = 30
    CallLimit  = 10
    ReapLimit  = 20
    StopWait   = 30
    DeleteWait = 30
INVARIANTS
    EndsBeforeDestroyed
PROPERTIES
    OrderSpec
CHECK_DEADLOCK FALSE
