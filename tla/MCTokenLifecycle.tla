--------------------------- MODULE MCTokenLifecycle ---------------------------
(* Instances of TokenLifecycle for TLC.                                    *)
EXTENDS TokenLifecycle

CONSTANTS r1, r2

OneRequest  == {r1}
TwoRequests == {r1, r2}

StaleKinds      == {"operation", "refresh"}
CoherentKinds   == {"operation", "settings", "save", "active", "callback",
                    "delete"}
SettingsKinds   == {"refresh", "settings"}
SanitizedKinds  == {"active", "callback"}

NoFaults    == {}
CleanFaults == AllFaults \ {"ambiguous_commit"}
NoFields    == {}
OneField    == {1}
=============================================================================
