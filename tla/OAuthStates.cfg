SPECIFICATION FairSpec
CONSTANTS
    Auths = {a1, a2}
    Callbacks = {c1, c2}
    Keys = {k1}
    TTL = 1
    MaxTime = 3
    LastAuth = 1
    MasterKey <- Sometimes
    Faults <- AllFaults
    None = None
CHECK_DEADLOCK FALSE
INVARIANTS
    TypeOK
    SavedUntilExpiry
    DeletedIsGone
PROPERTIES
    AcceptedInTime
    StatesForgotten
