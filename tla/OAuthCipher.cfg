SPECIFICATION Spec
CONSTANTS
    Auths = {a1}
    Callbacks = {c1}
    Keys = {k1}
    TTL = 2
    MaxTime = 4
    LastAuth = 1
    MasterKey <- Always
    Faults <- NoFaults
    None = None
CHECK_DEADLOCK FALSE
INVARIANTS
    ExchangeSendsPlain
