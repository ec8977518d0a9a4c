-------------------------------- MODULE MCHttp --------------------------------
EXTENDS HttpExchange

\* {"c":null}, and {"":[1,"\""] } with a comma and a quote in it.
SmallDocuments == {
    <<"brace", "quote", "char", "quote", "colon", "literal", "endbrace">>,
    <<"brace", "quote", "quote", "colon", "bracket", "number", "comma", "quote", "backslash",
      "quote", "quote", "endbracket", "space", "endbrace">>}
=============================================================================
