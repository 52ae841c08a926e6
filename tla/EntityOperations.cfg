SPECIFICATION FairOperationSpec
CHECK_DEADLOCK FALSE
CONSTANTS
    MaxRetries = 3
    InitialBackoff = 1
    MaxBackoff = 1
    Timeout = 6
    Preparation = 3
    MaxCalls = 2
    RefreshThreshold = 60
INVARIANTS
    TypeOK
    AtMostOnceEffect
    TokenOutlivesCall
    OnlyUnauthorizedLeaks
    OperationTypeOK
    SuccessIsReal
    FailureIsHonest
    SourceIsExtra
    NotFoundCauses
PROPERTIES
    OperationEnds
    RemoteSpec
