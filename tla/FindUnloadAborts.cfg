SPECIFICATION Spec
CONSTANTS
    MaxCommands = 2
    Conns = {c1, c2}
    NoConn = NoConn
INVARIANTS
    StoppedBeforeDestroyed
