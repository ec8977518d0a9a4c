SPECIFICATION Spec
CONSTANTS
    SessionIds = {s1, s2}
    NoSession = NoSession
    Requests <- OnePack
    DsnScopes <- DatabaseOnly
    MayBeOlder = FALSE
    MaxLate = 1
SYMMETRY AnySession
INVARIANTS
    NoSessionLeaked
PROPERTIES
    RunsOnScope
    ImplementsReliableConnection
