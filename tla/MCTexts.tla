------------------------------- MODULE MCTexts --------------------------------
(***************************************************************************)
(* The parser on every text of up to Long tokens, and on those of up to    *)
(* Longest that it has not refused before; the catalog functions on every  *)
(* argument below; names, patterns, lists of types, values of connection   *)
(* strings, ports and strings of up to Long + 1 characters.                *)
(***************************************************************************)
EXTENDS JsonGrammar, Catalog, Names, JsonString, Request

CONSTANTS Long, Longest

VARIABLE word       \* one of the texts that are handed over

textsVars == <<readingVars, catalogVars, word>>

SomeCharacters ==
    {"a", "b", "c", "p", "q", "t", "u", "x", "T", "V", "'", "\\", "%", "_", ",", " "}
SomeDatabases == {<<"a">>, <<"a", "_", "b">>}
DatabaseA == <<"a">>
SomeTables == {
    [database |-> <<"a">>, schema |-> <<"p">>, name |-> <<"t", "'">>, type |-> "BASE TABLE"],
    [database |-> <<"a">>, schema |-> <<"q">>, name |-> <<"t", "\\">>, type |-> "V"],
    [database |-> <<"a">>, schema |-> <<"p">>, name |-> <<"t">>, type |-> "BASE TABLE"],
    [database |-> <<"a", "_", "b">>, schema |-> <<"p">>, name |-> <<"u">>, type |-> "V"]}
SomeColumns ==
    {[database |-> t.database, schema |-> t.schema, name |-> t.name, column |-> c]
        : t \in SomeTables, c \in {<<"c">>, <<"c", "'">>}}

SomeArguments ==
    [catalog : {Null, <<>>, <<"%">>, <<"a">>, <<"a", "_", "b">>, <<"x">>},
     schema : {Null, <<>>, <<"%">>, <<"p">>},
     table : {Null, <<>>, <<"%">>, <<"t", "'">>, <<"t", "_">>, <<"%", "\\">>},
     column : {Null, <<"c", "'">>},
     types : {Null, <<"%">>, <<"T">>, <<"'", "V", "'">>, <<"T", " ", ",", " ", "V">>}]

PatternCharacters == {"'", "\\", "%", "_", "a"}
ListCharacters == {"'", ",", " ", "T", "V"}
NameCharacters == {"quote", "a", "1", " "}
StatementCharacters == {"quote", "backslash", "control", "char", "endbrace"}
ValueCharacters == {"n", "=", "{", "}", ";", " "}
PortCharacters == {"0", "6", "9", " ", "x"}
\* code points by the number of bytes they take, smallest and largest
Points == [one |-> 127, two |-> 128, two_last |-> 2047, three |-> 2048,
           three_last |-> 65535, four |-> 65536, four_last |-> 1114111]
Alphabets == {PatternCharacters, ListCharacters, NameCharacters, StatementCharacters,
              ValueCharacters, PortCharacters, DOMAIN Points}

SomeDataSources ==
    <<"x">> :> (<<"s">> :> <<"h">> @@ <<"p">> :> <<"6">>)
    @@ <<"y">> :> (<<"s">> :> <<"h">> @@ <<"p">> :> <<>>)

Reads ==
    /\ word = <<>> /\ asked.call = "none"
    /\ Len(text) < Long \/ (Len(text) < Longest /\ parser.place # "failed")
    /\ ReadingNext
    /\ UNCHANGED <<catalogVars, word>>

Asks ==
    /\ word = <<>> /\ text = <<>> /\ asked.call \notin {"tables", "columns"}
    /\ CatalogNext
    /\ UNCHANGED <<readingVars, word>>

Writes ==
    /\ asked.call = "none" /\ text = <<>>
    /\ Len(word) < Long + 1
    /\ \E set \in Alphabets :
        \E c \in set : word' = Append(word, c) /\ \A i \in DOMAIN word' : word'[i] \in set
    /\ UNCHANGED <<readingVars, catalogVars>>

TextsInit == ReadingInit /\ CatalogInit /\ word = <<>>
TextsNext == Reads \/ Asks \/ Writes
TextsSpec == TextsInit /\ [][TextsNext]_textsVars

\* The word is one over this alphabet.
Over(set) == text = <<>> /\ asked.call = "none" /\ Range(word) \subseteq set

\* Every name, every pattern and every statement reaches the engine as it is,
\* and takes nothing of what stands behind it along; the request around it is a
\* document (Contained, ReachesEngine, HeldByItsString).
TextsReachEngine ==
    /\ Over(StatementCharacters) =>
        /\ HeldByItsString(word)
        /\ \A hasSession, require, counted \in BOOLEAN :
            IsValue(BuildRequestJson(word, hasSession, require, counted), MaxDepth)
    /\ Over(PatternCharacters) => ReachesEngine(word)
    /\ Over(NameCharacters) => Contained(word)

\* Every list names the types it seems to name (ListNamesItsTypes).
TypeListExact == Over(ListCharacters) => ListNamesItsTypes(word)

\* Every value of a connection string is what was written, and every port a
\* number that is one (ReadAsWritten, PortExact).
ConnectionStringRead ==
    /\ Over(ValueCharacters) => ReadAsWritten(word)
    /\ Over(PortCharacters) => PortExact(word)

\* Every string of an answer is what the engine sent (DecodedAsSent).
StringDecoded ==
    Over(DOMAIN Points) =>
        \A escaped \in [DOMAIN word -> BOOLEAN] :
            DecodedAsSent([i \in DOMAIN word |-> Points[word[i]]], escaped)
=============================================================================
