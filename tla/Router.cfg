SPECIFICATION Spec
CHECK_DEADLOCK FALSE
CONSTANTS
    Values = {"value", "search", "ai-dialog"}
    Headers = {"missing", "malformed", "zero", "valid"}
INVARIANTS
    TypeOK
    HandlersHaveUser
    LegacyLikeNew
    DocumentedUnlessShadowed
