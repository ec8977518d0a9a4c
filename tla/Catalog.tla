-------------------------------- MODULE Catalog -------------------------------
(***************************************************************************)
(* The catalog functions (catalog.c): what the application asks for, the   *)
(* query that is made of it, and the rows that are made of the answer. The *)
(* engine's reading of the query is external.                              *)
(*                                                                         *)
(* An argument is a sequence of characters, or Null. In a list of table    *)
(* types, "T" and "V" stand for the words TABLE and VIEW.                  *)
(***************************************************************************)
EXTENDS SequencesExt, TLC

CONSTANTS
    Characters,     \* what names, patterns and lists are made of
    Databases,      \* the names of the databases
    Current,        \* the one the session is in
    Tables,         \* what they hold: [database, schema, name, type]
    TableColumns,   \* their columns: [database, schema, name, column]
    Arguments       \* what may be asked for: [catalog, schema, table, column, types]

VARIABLES
    asked,      \* the last function called, and its arguments
    shown,      \* the statement's rows, stmt->synth
    returned    \* "none", "ok" or "error"

catalogVars == <<asked, shown, returned>>

Null == <<"NULL">>
ASSUME CharactersAssumption == {"'", "\\"} \subseteq Characters
ASSUME CurrentAssumption == Current \in Databases
\* The type of a table is one word: no list cuts it in two.
ASSUME TablesAssumption ==
    /\ \A t \in Tables : /\ {t.schema, t.name} \subseteq Seq(Characters)
                        /\ t.type \notin {" ", ",", "'"}
    /\ \A c \in TableColumns : {c.schema, c.name, c.column} \subseteq Seq(Characters)
ASSUME ArgumentsAssumption ==
    \A args \in Arguments :
        {args.catalog, args.schema, args.table, args.column, args.types}
            \subseteq Seq(Characters) \cup {Null}

NoArguments == [catalog |-> Null, schema |-> Null, table |-> Null, column |-> Null, types |-> Null]

IsEmptyOrAll(pattern) == pattern \in {Null, <<>>, <<"%">>}

------------------------------------------------------------------------------
\* The query

\* append_like, from the opening quote on.
Literal(pattern) ==
    <<"'">> \o FlattenSeq([i \in DOMAIN pattern |->
                    IF pattern[i] \in {"'", "\\"} THEN <<pattern[i], pattern[i]>>
                    ELSE <<pattern[i]>>]) \o <<"'">>

\* The database the query names: none for what could be a pattern.
Qualifier(catalog) ==
    IF IsEmptyOrAll(catalog) \/ Contains(catalog, "%") \/ Contains(catalog, "_")
    THEN Null ELSE catalog

Condition(column, pattern) ==
    IF IsEmptyOrAll(pattern) THEN <<>> ELSE <<[column |-> column, literal |-> Literal(pattern)]>>

TablesQuery(args) ==
    [database |-> Qualifier(args.catalog),
     where |-> Condition("schema", args.schema) \o Condition("name", args.table)]

ColumnsQuery(args) ==
    [database |-> Qualifier(args.catalog),
     where |-> Condition("schema", args.schema) \o Condition("name", args.table)
               \o Condition("column", args.column)]

------------------------------------------------------------------------------
\* The engine's reading of it (external)

\* A literal, from its opening quote on: a backslash takes the next character
\* with it, two quotes are one. What follows the closing quote is `rest`.
ReadLiteral(s) ==
    LET from[i \in 2..Len(s) + 2] ==
            IF i > Len(s) THEN [ok |-> FALSE, text |-> <<>>, rest |-> <<>>]
            ELSE LET pair == i < Len(s) /\ (s[i] = "\\" \/ (s[i] = "'" /\ s[i + 1] = "'"))
                     next == from[IF pair THEN i + 2 ELSE i + 1]
                 IN  IF s[i] = "'" /\ ~pair
                     THEN [ok |-> TRUE, text |-> <<>>, rest |-> SubSeq(s, i + 1, Len(s))]
                     ELSE [ok |-> next.ok, rest |-> next.rest,
                           text |-> <<IF pair THEN s[i + 1] ELSE s[i]>> \o next.text]
    IN  from[2]

\* LIKE without an ESCAPE clause: % is any characters, _ is one, a backslash is
\* a character like any other. The places of the name from which it
\* is like what the pattern says from each of its own places on.
Like(name, pattern) ==
    LET from[j \in 1..Len(pattern) + 1] ==
            IF j > Len(pattern) THEN {Len(name) + 1}
            ELSE IF pattern[j] = "%"
                 THEN {i \in 1..Len(name) + 1 : \E k \in from[j + 1] : i <= k}
            ELSE {i \in 1..Len(name) : pattern[j] \in {"_", name[i]} /\ i + 1 \in from[j + 1]}
    IN  1 \in from[1]

Readable(query) ==
    /\ query.database \in Databases \cup {Null}
    /\ \A i \in DOMAIN query.where :
        LET literal == ReadLiteral(query.where[i].literal)
        IN  literal.ok /\ literal.rest = <<>>

Selects(query, row) ==
    /\ row.database = (IF query.database = Null THEN Current ELSE query.database)
    /\ \A i \in DOMAIN query.where :
        Like(row[query.where[i].column], ReadLiteral(query.where[i].literal).text)

------------------------------------------------------------------------------
\* The rows

\* Slip: the space behind a name belongs to it.
TypeListContainsUntrimmed(list, wanted) ==
    LET Of(i, set) == Min({k \in i..Len(list) : list[k] \in set} \cup {Len(list) + 1})
        from[i \in 1..Len(list) + 1] ==
            LET start == Min({k \in i..Len(list) : list[k] \notin {" ", ",", "'"}} \cup {Len(list) + 1})
                stop == Of(start, {",", "'"})
            IN  /\ i <= Len(list)
                /\ SubSeq(list, start, stop - 1) = <<wanted>> \/ from[stop]
    IN  IsEmptyOrAll(list) \/ from[1]

\* type_list_contains: name by name, past what stands between them.
TypeListContains(list, wanted) ==
    LET Beyond(i, set) == Min({k \in i..Len(list) : list[k] \notin set} \cup {Len(list) + 1})
        Before(i, set) == Min({k \in i..Len(list) : list[k] \in set} \cup {Len(list) + 1})
        from[i \in 1..Len(list) + 1] ==
            LET start == Beyond(i, {" ", ",", "'"})
                stop == Before(start, {",", "'"})
                end == Max({k \in start..stop - 1 : list[k] # " "} \cup {start - 1})
            IN  /\ i <= Len(list)
                /\ SubSeq(list, start, end) = <<wanted>> \/ from[stop]
    IN  IsEmptyOrAll(list) \/ from[1]

MappedType(type) == IF type = "BASE TABLE" THEN "T" ELSE type

NoRow == [catalog |-> Null, schema |-> Null, name |-> Null, column |-> Null, type |-> "NULL"]

TableRow(t) ==
    [catalog |-> t.database, schema |-> t.schema, name |-> t.name, column |-> Null,
     type |-> MappedType(t.type)]

\* One row for each column; what else it says of it is left out.
ColumnRow(c) ==
    [catalog |-> c.database, schema |-> c.schema, name |-> c.name, column |-> c.column,
     type |-> "NULL"]

\* Slip: the type is looked for as the engine calls it.
TableRowsByRawType(answer, types) ==
    {TableRow(t) : t \in {t \in answer : TypeListContains(types, t.type)}}

TableRows(answer, types) ==
    {TableRow(t) : t \in {t \in answer : TypeListContains(types, MappedType(t.type))}}

AllCatalogs(args) == args.catalog = <<"%">> /\ args.schema = <<>> /\ args.table = <<>>

\* The catalog has to be left out; for the rest, "%" will do.
AllTypes(args) ==
    /\ args.types = <<"%">>
    /\ args.catalog \in {Null, <<>>}
    /\ IsEmptyOrAll(args.schema) /\ IsEmptyOrAll(args.table)

\* The types of SQLGetTypeInfo: name and SQL type.
TypeInfo == {
    <<"VARCHAR", "SQL_VARCHAR">>, <<"NUMBER", "SQL_DECIMAL">>, <<"NUMBER", "SQL_BIGINT">>,
    <<"FLOAT", "SQL_DOUBLE">>, <<"BOOLEAN", "SQL_BIT">>, <<"DATE", "SQL_TYPE_DATE">>,
    <<"TIME", "SQL_TYPE_TIME">>, <<"TIMESTAMP_NTZ", "SQL_TYPE_TIMESTAMP">>,
    <<"BINARY", "SQL_VARBINARY">>, <<"VARIANT", "SQL_VARCHAR">>}

------------------------------------------------------------------------------
\* install_synth, in place of the results there were.
Install(rows) == shown' = rows /\ returned' = "ok"

\* run_catalog_query finds no result: the earlier one stays.
QueryFails == returned' = "error" /\ UNCHANGED shown

TypeRows == {[NoRow EXCEPT !.type = t] : t \in {"T", "V"}}
DatabaseRows == {[NoRow EXCEPT !.catalog = d] : d \in Databases}

SQLTables(args) ==
    /\ asked' = [call |-> "tables", args |-> args]
    /\ IF AllCatalogs(args) THEN Install(DatabaseRows) \/ QueryFails
       ELSE IF AllTypes(args) THEN Install(TypeRows)
       ELSE LET query == TablesQuery(args)
                answer == {t \in Tables : Selects(query, t)}
            IN  \/ Readable(query) /\ Install(TableRows(answer, args.types))
                \/ QueryFails

SQLColumns(args) ==
    /\ asked' = [call |-> "columns", args |-> args]
    /\ LET query == ColumnsQuery(args)
       IN  \/ Readable(query) /\ Install({ColumnRow(c) : c \in {c \in TableColumns : Selects(query, c)}})
           \/ QueryFails

SQLGetTypeInfo(dataType) ==
    /\ asked' = [call |-> "typeinfo", args |-> NoArguments]
    /\ Install({[NoRow EXCEPT !.type = t[1]] :
                    t \in {t \in TypeInfo : dataType \in {"SQL_ALL_TYPES", t[2]}}})

\* SQLStatistics, SQLSpecialColumns, SQLPrimaryKeys: nothing to tell.
EmptyResult ==
    /\ asked' = [call |-> "empty", args |-> NoArguments]
    /\ Install({})

------------------------------------------------------------------------------
CatalogInit ==
    /\ asked = [call |-> "none", args |-> NoArguments]
    /\ shown = {}
    /\ returned = "none"

CatalogNext ==
    \/ \E args \in Arguments : SQLTables(args) \/ SQLColumns(args)
    \/ \E t \in TypeInfo : SQLGetTypeInfo(t[2])
    \/ SQLGetTypeInfo("SQL_ALL_TYPES")
    \/ EmptyResult

CatalogSpec == CatalogInit /\ [][CatalogNext]_catalogVars

------------------------------------------------------------------------------
\* Whatever characters a pattern is made of, the engine reads that pattern,
\* and the statement goes on behind its closing quote (append_like,
\* catalog.c:52-71: a pattern that ended in a backslash used to take it along).
ReachesEngine(pattern) ==
    \A rest \in {<<>>, <<" ", "a">>} :
        ReadLiteral(Literal(pattern) \o rest) = [ok |-> TRUE, text |-> pattern, rest |-> rest]

\* The names of a list: what stands between commas and quotes, without the
\* spaces around it.
NamesOf(list) ==
    LET between == {i \in DOMAIN list : list[i] \in {",", "'"}} \cup {0, Len(list) + 1}
        Unpadded(s) == LET solid == {i \in DOMAIN s : s[i] # " "}
                    IN  IF solid = {} THEN <<>> ELSE SubSeq(s, Min(solid), Max(solid))
        gaps == {gap \in between \X between : gap[1] < gap[2]
                    /\ ~\E k \in between : gap[1] < k /\ k < gap[2]}
    IN  {Unpadded(SubSeq(list, gap[1] + 1, gap[2] - 1)) : gap \in gaps}

\* A type is listed when its name is one of the list's, however they are
\* quoted and spaced (type_list_contains, catalog.c:137).
ListNamesItsTypes(list) ==
    \A wanted \in {"T", "V"} :
        TypeListContains(list, wanted) <=> IsEmptyOrAll(list) \/ <<wanted>> \in NamesOf(list)

Wildcard(name) == Contains(name, "%") \/ Contains(name, "_")

\* SQLGetInfo tells applications that a backslash in a pattern escapes what
\* follows it (SQL_SEARCH_PATTERN_ESCAPE, connect.c:581). append_like keeps it
\* as a character of the pattern and writes no ESCAPE clause, so that what an
\* escaped pattern lists is up to the engine's LIKE.
Unescaped(args) ==
    \A pattern \in {args.catalog, args.schema, args.table, args.column} : ~Contains(pattern, "\\")

\* Of the database that is named, or else the session's, exactly the tables
\* and columns are shown that every pattern and the list of types let through:
\* the patterns as the application wrote them, the types by their ODBC names
\* (SQLTables, SQLColumns). Patterns that hold an escape (Unescaped), and
\* catalog names that hold a wildcard, are left out.
ListedAsAsked ==
    returned = "ok" /\ asked.call \in {"tables", "columns"}
        /\ ~Wildcard(asked.args.catalog) /\ Unescaped(asked.args)
        /\ ~(asked.call = "tables" /\ (AllCatalogs(asked.args) \/ AllTypes(asked.args)))
    => LET args == asked.args
           database == IF args.catalog \in {Null, <<>>} THEN Current ELSE args.catalog
           fits(value, pattern) == pattern \in {Null, <<>>} \/ Like(value, pattern)
           found(r) == /\ r.database = database
                       /\ fits(r.schema, args.schema)
                       /\ fits(r.name, args.table)
           ofType(t) == \/ args.types \in {Null, <<>>, <<"%">>}
                        \/ <<MappedType(t.type)>> \in NamesOf(args.types)
       IN  shown = IF asked.call = "tables"
                   THEN {TableRow(t) : t \in {t \in Tables : found(t) /\ ofType(t)}}
                   ELSE {ColumnRow(c) : c \in {c \in TableColumns :
                            found(c) /\ fits(c.column, args.column)}}
=============================================================================
