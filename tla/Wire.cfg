SPECIFICATION Spec
CONSTANTS
    Requests <- AllRequests
    Responses <- BoundaryTexts
    MaxChunk = 4
    MaxBody = 5
    MaxSent = 3
INVARIANTS
    StreamKeepsPackets
    ReplyStreamFramed
    ResponseIntact
CHECK_DEADLOCK FALSE
