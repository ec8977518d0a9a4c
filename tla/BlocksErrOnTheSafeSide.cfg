SPECIFICATION Spec
CONSTANTS
    Words <- WordSet
    Requests <- BlockRequests
INVARIANTS
    BlocksErrOnTheSafeSide
