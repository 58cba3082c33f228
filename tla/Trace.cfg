SPECIFICATION FairSpec
CONSTANTS
    Threads = {game, other}
    Game = game
    NoRecord = NoRecord
    MaxCalls = 2
    MaxEvents = 1
    Window = 2
    Unwinds = TRUE
    MaxTime = 3
    MaxArmings = 2
    MaxDepth = 2
    MaxLookups = 2
    MaxFaults = 1
    MaxLog = 4
INVARIANTS
    ActiveIsLive
    NoRecordLost
    CapturesBounded
    TracesSeparate
PROPERTIES
    DescriptionsAreSaved
CHECK_DEADLOCK FALSE
