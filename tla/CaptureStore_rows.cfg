SPECIFICATION Spec
CONSTANTS
    UserNames <- Names
    MaxClock = 2
    MaxSuffix = 2
    MaxFiles = 3
INVARIANTS
    LastCaptureIsFirst
    NothingListedTwice
    RowsHaveFiles
PROPERTIES
    NothingOverwritten
