SPECIFICATION Spec
CONSTANTS
    Devices <- OneDevice
    MaxSessions = 2
    MaxQueue = 2
    MaxFaults = 1
PROPERTIES
    FramesOfStoppedWorkerDropped
