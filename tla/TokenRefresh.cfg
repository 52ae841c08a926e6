SPECIFICATION FairSpec
CONSTANTS
    r1 = r1
    r2 = r2
    Requests <- TwoRequests
    Kinds <- RefreshKinds
    Faults <- AllFaults
    Fields <- NoFields
    RefreshThreshold = 1
    WarningThreshold = 2
    TokenTTL = 3
    MaxDuration = 1
    MaxClock = 4
    MaxPairs = 3
    MaxRowId = 1
INVARIANTS
    TypeOK
    RefreshChain
PROPERTIES
    PairsNeverGoBack
    RotationSpec
    RequestsEnd
