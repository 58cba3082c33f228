SPECIFICATION LifecycleSpec
CONSTANTS
    Threads = {game, loader}
    Modulus = 3
    Limit = 1
    MaxLookups = 5
    Required = {player_controller, chat_command}
    Optional = {test_command}
    MaxLives = 2
SYMMETRY ThreadSymmetry
INVARIANTS
    NestedLogQuiet
    BoundedUntilWrap
    SupportedMeansAvailable
    ServedWhileListening
CHECK_DEADLOCK FALSE
