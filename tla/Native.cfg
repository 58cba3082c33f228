SPECIFICATION Spec
CONSTANTS
    Controllers = {k1, k2}
    Pawns = {p1, p2}
    NoPawn = NoPawn
    SteamIds = {s1}
    NoId = NoId
    Registry <- FullRegistry
    Requests <- AllRequests
    NoTarget = NoTarget
SYMMETRY PlayerSymmetry
INVARIANTS
    VerifiedIsTrue
    AnswerTellsWhetherExecuted
    OnlyEligibleExecuted
    NothingWithheld
PROPERTIES
    FaultLatches
CHECK_DEADLOCK FALSE
