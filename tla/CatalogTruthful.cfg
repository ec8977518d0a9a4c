SPECIFICATION Spec
CONSTANTS
    SessionIds = {s1, s2}
    NoSession = NoSession
    Requests <- PackRequests
    DsnScopes <- DatabaseOnly
    MayBeOlder = FALSE
    MaxLate = 0
INVARIANTS
    CatalogTruthful
