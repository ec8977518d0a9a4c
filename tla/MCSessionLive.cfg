SPECIFICATION FairSpec
CONSTANTS
    SessionIds = {s1, s2}
    NoSession = NoSession
    Requests <- BeginRequests
    DsnScopes <- SchemaOnly
    MayBeOlder = FALSE
    MaxLate = 0
PROPERTIES
    CallsReturn
