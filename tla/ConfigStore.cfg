SPECIFICATION Spec
CHECK_DEADLOCK FALSE
CONSTANTS
    Requests = {r1, r2}
    Kinds = {"setField", "setLead", "setAssist", "setTags", "setActive", "mockRefresh", "callback", "mockAuth", "delete", "save", "refresh", "use"}
    KeyStates = {TRUE, FALSE}
    Faults = {"database", "confirmation"}
    Old = Old
    None = None
INVARIANTS
    TypeOK
    StaleSourceHasCause
PROPERTIES
    LossHasCause
    AcknowledgedStored
