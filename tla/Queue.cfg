SPECIFICATION HandoffFairSpec
CONSTANTS
    MaxCommands = 3
    Callers = {t1, t2, t3}
INVARIANTS
    ResultsStayAssociated
PROPERTIES
    WaitersAreServed
