SPECIFICATION Spec
CONSTANTS
    Threads <- TwoThreads
    Gui <- GuiThread
    MaxLines = 2
    MaxFileLines = 3
    TailLines = 2
    MaxRuns = 3
    MaxStamp = 5
INVARIANTS
    MirrorComplete
PROPERTIES
    CrashKeepsLog
CHECK_DEADLOCK FALSE
