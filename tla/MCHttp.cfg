SPECIFICATION FairSpec
CONSTANTS
    MaxDepth = 2
    Addresses = 2
    LoginTimeout = 0
    RequestTimeout = 3
    ReleaseLimit = 2
    Documents <- SmallDocuments
    Statuses = {200, 404}
    MaxChunks = 3
INVARIANTS HttpTypeOK SocketsClosed NeverPartOfAnAnswer WholeAnswerUnderstood
PROPERTIES ExchangeEnds
\* The process may be killed.
CHECK_DEADLOCK FALSE
