SPECIFICATION Spec
CONSTANTS
    SessionIds = {s1, s2}
    NoSession = NoSession
    Requests <- SingleRequests
    DsnScopes <- NoneOrBoth
    MayBeOlder = TRUE
    MaxLate = 0
SYMMETRY AnySession
INVARIANTS
    TypeOK
    NeverSilentlyReplaced
    OutcomeTellsWhatRan
    OlderEngineNeverSentTheField
    CatalogFollowsLoss
    UsableAfterLoss
    RequestsBounded
PROPERTIES
    RunsOnScope
