SPECIFICATION FairSpec
CHECK_DEADLOCK FALSE
CONSTANTS
    Requests = {"r1", "r2"}
    Faults = {"connect", "listen", "statement"}
INVARIANTS
    TypeOK
    StopsInOrder
PROPERTIES
    SignalEndsProcess
    CleanupGoesOn
