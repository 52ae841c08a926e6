SPECIFICATION Spec
CONSTANTS
    r1 = r1
    r2 = r2
    Requests <- TwoRequests
    Kinds <- SettingsKinds
    Faults <- NoFaults
    Fields <- OneField
    RefreshThreshold = 1
    WarningThreshold = 2
    TokenTTL = 3
    MaxDuration = 1
    MaxClock = 6
    MaxPairs = 3
    MaxRowId = 1
PROPERTY SettingsKeepTokens
