SPECIFICATION TextsSpec
CONSTANTS
    MaxDepth = 2
    Long = 4
    Longest = 7
    Characters <- SomeCharacters
    Databases <- SomeDatabases
    Current <- DatabaseA
    Tables <- SomeTables
    TableColumns <- SomeColumns
    Arguments <- SomeArguments
    DataSources <- SomeDataSources
INVARIANTS 
    DepthBounded ParserExact TextsReachEngine TypeListExact ListedAsAsked
    ConnectionStringRead StringDecoded
\* Texts end at their bound.
CHECK_DEADLOCK FALSE
