SPECIFICATION Spec
CONSTANTS
    Threads = {game, loader}
    Modulus = 5
    Limit = 2
    MaxLookups = 12
SYMMETRY ThreadSymmetry
INVARIANTS
    ManualCaptureKept
CHECK_DEADLOCK FALSE
