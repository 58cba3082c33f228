SPECIFICATION Spec
CONSTANTS
    MaxCommands = 3
    Conns = {c1, c2, c3}
    NoConn = NoConn
SYMMETRY ConnSymmetry
INVARIANTS
    HandoffInOrder
    AuthBeforeCommand
    ReplyIsOwn
    SocketsAccounted
    StopReleases
    QuietWhenDestroyed
PROPERTIES
    ServiceSpec
