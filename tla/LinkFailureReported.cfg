SPECIFICATION Spec
CONSTANTS
    MaxDepth = 2
    Addresses = 1
    LoginTimeout = 0
    RequestTimeout = 3
    ReleaseLimit = 2
    Documents <- SmallDocuments
    Statuses = {200}
    MaxChunks = 1
INVARIANTS
    LinkFailureReported
\* The process may be killed.
CHECK_DEADLOCK FALSE
