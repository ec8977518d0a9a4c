SPECIFICATION Spec
CONSTANTS
    Responses <- PlainResponses
    CatalogSets <- TypeInfo
    MaxColumns = 2
    MaxLength = 4
    Bindings <- OneBinding
    MaxRowsValues <- RowLimits
    CharacterBytes = 2
INVARIANTS
    CursorTypeOK
    OnlyFetchedRowsRead
    RowCountOfCurrentSet
    PiecesJoinUp
    DeliveredOnce
    PiecesAdvance
    CharactersWhole
