SPECIFICATION FairSpec
CONSTANTS
    MaxCommands = 2
    Conns = {c1, c2}
    NoConn = NoConn
PROPERTIES
    AcceptedIsExecuted
    AcceptedIsAnswered
    UnloadEnds
    BacklogMoves
