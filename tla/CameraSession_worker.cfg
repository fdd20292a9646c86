SPECIFICATION FairSpec
CONSTANTS
    Devices <- AllDevices
    MaxSessions = 2
    MaxQueue = 1
    MaxFaults = 1
INVARIANTS
    ButtonConverges
    ButtonAlternates
    StatusConverges
    InfoConverges
    OffStaysOff
    ClaimDiscipline
PROPERTIES
    OrderSpec
    StopReturns
    UnplugNoticed
    Reconnects
