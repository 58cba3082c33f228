SPECIFICATION Spec
CONSTANTS
    Threads = {game, other}
    Commands = {c1, c2}
    Messages <- BoundaryMessages
    MaxBytes = 4
    MaxMessages = 2
    MaxDepth = 2
    MaxReplies = 3
SYMMETRY Symmetry
INVARIANTS
    NoSilentLoss
    BoundedWholeCharacters
    RepliesFindTheirExecution
CHECK_DEADLOCK FALSE
