SPECIFICATION LinkFairSpec
CONSTANTS
    Commands <- TwoCommands
    MaxPeers = 3
    MaxStarts = 2
INVARIANTS
    AnswersItsRequest
    CounterExact
PROPERTIES
    NoQuitUnderClient
    HelperGoesAway
CHECK_DEADLOCK FALSE
