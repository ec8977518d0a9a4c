SPECIFICATION Spec
CONSTANTS
    StatementTexts <- SomeTexts
    Parameters <- SomeParameters
    MaxParameters = 3
INVARIANTS
    ParametersTypeOK
    NothingSentInPart
    SignEnclosed
PROPERTIES
    SentIsExpansion
    SentAsWritten
