-------------------------------- MODULE MCNote --------------------------------
(***************************************************************************)
(* Small instances of SessionNote for TLC: the statements the README and   *)
(* test/session.c name, alone and two to a request.                        *)
(***************************************************************************)
EXTENDS SessionNote

WordSet ==
    Modifiers \cup {"USE", "SET", "UNSET", "ALTER", "SESSION", "CREATE", "DROP", "TABLE",
                    "SCHEMA", "DATABASE", "SELECT", "BEGIN", "TRANSACTION", "WORK", "NAME",
                    "START", "COMMIT", "ROLLBACK", "END", "X"}

Statement(lexemes, kinds) == [text |-> lexemes, does |-> kinds]

Moving ==
    {Statement(lexemes, <<"use">>) : lexemes \in {
        <<"USE", "SCHEMA", "X">>,
        <<"comment", "USE", "SCHEMA", "X">>,
        <<"SET", "X", "mark", "opaque">>,
        <<"ALTER", "comment", "SESSION", "SET", "X", "mark">>,
        <<"CREATE", "OR", "REPLACE", "TEMPORARY", "TABLE", "X", "mark">>,
        <<"CREATE", "TRANSIENT", "SCHEMA", "X">>,
        <<"DROP", "DATABASE", "IF", "EXISTS", "X">>}}

Working ==
    {Statement(lexemes, <<"work">>) : lexemes \in {
        <<"SELECT", "opaque", "mark">>,
        <<"CREATE", "TABLE", "TEMP", "mark", "X", "mark">>,
        <<"DROP", "TABLE", "IF", "EXISTS", "opaque">>,
        <<"ALTER", "TABLE", "SESSION", "X">>}}

Transacting ==
    {Statement(lexemes, <<"begin">>) : lexemes \in {
        <<"BEGIN">>, <<"BEGIN", "comment", "TRANSACTION">>, <<"START", "TRANSACTION">>}}
    \cup {Statement(lexemes, <<"end">>) : lexemes \in {<<"COMMIT">>, <<"ROLLBACK", "WORK">>}}

Nothing == {Statement(<<>>, <<>>), Statement(<<"comment">>, <<>>)}

Plain == Moving \cup Working \cup Transacting \cup Nothing

Pack(first, next) == Statement(first.text \o <<";">> \o next.text, first.does \o next.does)

PlainRequests == Plain \cup {Pack(first, next) : first, next \in Plain}

\* Statement by statement these read as what they do: what the theorems ask of
\* requests (NoteProofs).
ASSUME PlainRequestsAssumption == \A request \in PlainRequests : PlainlyWritten(request)

\* Scripting blocks: one that makes a temporary table, one whose ROLLBACK is
\* in a branch that is not taken.
Blocks ==
    {Statement(<<"BEGIN", "CREATE", "TEMPORARY", "TABLE", "X", "mark", ";", "END">>, <<"use">>),
     Statement(<<"BEGIN", "IF", "mark", "X", ";", "ROLLBACK", ";", "END", "IF", ";", "END">>,
               <<>>)}
BlockRequests == Blocks \cup Transacting
=============================================================================
