SPECIFICATION FairSpec
CHECK_DEADLOCK FALSE
CONSTANTS
    Requests = {r1, r2}
    c1 = c1
    c2 = c2
    Configs <- MCConfigs
    Nobody = Nobody
    Kinds = {"lead", "operation", "settings"}
    Mappings <- MCMappings
    MaxChanges = 1
INVARIANTS
    TypeOK
    SharedProvider
    CreatedMeansSkipped
PROPERTIES
    EveryRequestEnds
