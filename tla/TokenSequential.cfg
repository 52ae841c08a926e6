SPECIFICATION Spec
CONSTANTS
    r1 = r1
    r2 = r2
    Requests <- OneRequest
    Kinds <- CoherentKinds
    Faults <- CleanFaults
    Fields <- OneField
    RefreshThreshold = 1
    WarningThreshold = 2
    TokenTTL = 3
    MaxDuration = 1
    MaxClock = 7
    MaxPairs = 3
    MaxRowId = 1
INVARIANTS
    CacheCoherent
    NoExpiredCall
