SPECIFICATION Spec
CONSTANTS
    r1 = r1
    r2 = r2
    Requests <- OneRequest
    Kinds <- SanitizedKinds
    Faults <- NoFaults
    Fields <- NoFields
    RefreshThreshold = 1
    WarningThreshold = 2
    TokenTTL = 3
    MaxDuration = 1
    MaxClock = 6
    MaxPairs = 3
    MaxRowId = 1
PROPERTY SecretKept
