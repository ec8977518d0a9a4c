-------------------------------- MODULE Names ---------------------------------
(***************************************************************************)
(* The names an application connects with: conn_str_get, dsn_get and       *)
(* parse_port (connect.c), and the identifiers do_connect and apply_scope  *)
(* put into USE DATABASE and USE SCHEMA (util.c). Texts are sequences of   *)
(* characters; keys are the letters n (DSN), s (Server), p (Port).         *)
(***************************************************************************)
EXTENDS SequencesExt, TLC

CONSTANT DataSources    \* odbc.ini: what each DSN says, by key

NoValue == <<"no value">>

\* The first of these characters at or behind `i`; behind the text if none.
FirstOf(s, i, set) == Min({k \in i..Len(s) : s[k] \in set} \cup {Len(s) + 1})
FirstBut(s, i, set) == Min({k \in i..Len(s) : s[k] \notin set} \cup {Len(s) + 1})

Lower == [S |-> "s", N |-> "n", P |-> "p"]
Folded(s) == [i \in DOMAIN s |-> IF s[i] \in DOMAIN Lower THEN Lower[s[i]] ELSE s[i]]

\* Slip: the search goes on behind the first semicolon, inside of the braces.
ConnStrGetIntoBraces(conn, key) ==
    LET from[i \in 1..Len(conn) + 1] ==
            LET start == FirstBut(conn, i, {";", " "})
                eq == FirstOf(conn, start, {"="})
                braced == eq < Len(conn) /\ conn[eq + 1] = "{"
                value == IF braced THEN eq + 2 ELSE eq + 1
                end == FirstOf(conn, value, {IF braced THEN "}" ELSE ";"})
                next == FirstOf(conn, value, {";"}) + 1
            IN  IF eq > Len(conn) THEN NoValue
                ELSE IF Folded(SubSeq(conn, start, eq - 1)) = key THEN SubSeq(conn, value, end - 1)
                ELSE IF next > Len(conn) THEN NoValue ELSE from[next]
    IN  from[1]

\* conn_str_get: the first value with this key, in braces or up to a semicolon.
ConnStrGet(conn, key) ==
    LET from[i \in 1..Len(conn) + 1] ==
            LET start == FirstBut(conn, i, {";", " "})
                eq == FirstOf(conn, start, {"="})
                braced == eq < Len(conn) /\ conn[eq + 1] = "{"
                value == IF braced THEN eq + 2 ELSE eq + 1
                end == FirstOf(conn, value, {IF braced THEN "}" ELSE ";"})
                next == FirstOf(conn, end, {";"}) + 1
            IN  IF eq > Len(conn) THEN NoValue
                ELSE IF Folded(SubSeq(conn, start, eq - 1)) = key THEN SubSeq(conn, value, end - 1)
                ELSE IF next > Len(conn) THEN NoValue ELSE from[next]
    IN  from[1]

\* dsn_get: an attribute that is empty is not there.
DsnGet(dsn, key) ==
    IF dsn \in DOMAIN DataSources /\ DataSources[dsn][key] # <<>>
    THEN DataSources[dsn][key] ELSE NoValue

\* SQLDriverConnect: the connection string before the DSN it names.
Named(conn, key) ==
    LET own == ConnStrGet(conn, key)
        dsn == ConnStrGet(conn, <<"n">>)
    IN  IF own # NoValue THEN own
        ELSE IF dsn # NoValue THEN DsnGet(dsn, key) ELSE NoValue

DigitOf == "0" :> 0 @@ "6" :> 6 @@ "9" :> 9

\* parse_port, spaces around it allowed: a port, or -1.
ParsePort(text) ==
    LET start == FirstBut(text, 1, {" "})
        end == Max({k \in start..Len(text) : text[k] # " "} \cup {start - 1})
        value[k \in start - 1..end] ==
            IF k < start THEN 0
            ELSE IF text[k] \notin DOMAIN DigitOf \/ value[k - 1] = -1 THEN -1
            ELSE LET next == value[k - 1] * 10 + DigitOf[text[k]]
                 IN  IF next > 65535 THEN -1 ELSE next
    IN  IF value[end] >= 1 THEN value[end] ELSE -1

------------------------------------------------------------------------------
\* Identifiers: "a" stands for the letters and the underscore, "1" for the
\* digits and the dollar sign.

IsBare(name) ==
    name # <<>> /\ name[1] = "a" /\ \A i \in DOMAIN name : name[i] \in {"a", "1"}

\* ident_is_quoted: the quotes inside come in pairs.
IsQuoted(name) ==
    LET paired[i \in 2..Len(name) + 1] ==
            IF i >= Len(name) THEN TRUE
            ELSE IF name[i] # "quote" THEN paired[i + 1]
            ELSE i + 1 < Len(name) /\ name[i + 1] = "quote" /\ paired[i + 2]
    IN  Len(name) >= 2 /\ name[1] = "quote" /\ name[Len(name)] = "quote" /\ paired[2]

Quoted(name) ==
    <<"quote">> \o FlattenSeq([i \in DOMAIN name |->
                    IF name[i] = "quote" THEN <<"quote", "quote">> ELSE <<name[i]>>])
        \o <<"quote">>

\* Slip: a name in quotes is taken for a quoted one, whatever is inside.
IdentifierUnchecked(name) ==
    IF IsBare(name) \/ (Len(name) >= 2 /\ name[1] = "quote" /\ name[Len(name)] = "quote")
    THEN name ELSE Quoted(name)

\* fl_strbuf_append_ident, for a name that is not empty.
Identifier(name) == IF IsBare(name) \/ IsQuoted(name) THEN name ELSE Quoted(name)

\* The engine's reading of an identifier (external): its name, and the rest.
ReadIdentifier(s) ==
    IF s[1] # "quote"
    THEN LET end == FirstBut(s, 1, {"a", "1"})
         IN  [name |-> SubSeq(s, 1, end - 1), quoted |-> FALSE, rest |-> SubSeq(s, end, Len(s))]
    ELSE LET from[i \in 2..Len(s) + 2] ==
                LET pair == i < Len(s) /\ s[i] = "quote" /\ s[i + 1] = "quote"
                    next == from[IF pair THEN i + 2 ELSE i + 1]
                IN  IF i > Len(s) THEN [name |-> <<>>, quoted |-> TRUE, rest |-> <<"unclosed">>]
                    ELSE IF s[i] = "quote" /\ ~pair
                    THEN [name |-> <<>>, quoted |-> TRUE, rest |-> SubSeq(s, i + 1, Len(s))]
                    ELSE [name |-> <<s[i]>> \o next.name, quoted |-> TRUE, rest |-> next.rest]
         IN  from[2]

------------------------------------------------------------------------------
\* A value as it is written behind its key: in braces when it has to be.
Pair(key, value) ==
    key \o <<"=">> \o (IF Contains(value, ";") \/ (value # <<>> /\ value[1] = "{")
                       THEN <<"{">> \o value \o <<"}">> ELSE value)

\* Whatever a value is made of, and whichever comes first, a connection string
\* says what was written, and the DSN it names says the rest (conn_str_get;
\* "connection-string keys override DSN attributes", connect.c:320). A closing
\* brace cannot be written.
ReadAsWritten(value) ==
    LET server == Pair(<<"S">>, value)
        says(conn, dsn) ==
            /\ Named(conn, <<"s">>) = value
            /\ Named(conn, <<"p">>) = DsnGet(dsn, <<"p">>)
    IN  ~Contains(value, "}") =>
            \A dsn \in DOMAIN DataSources :
                /\ says(server \o <<";">> \o Pair(<<"n">>, dsn), dsn)
                /\ says(Pair(<<"n">>, dsn) \o <<";", " ">> \o server, dsn)

\* A port is a number from 1 to 65535, or refused: no digit is dropped and
\* nothing wraps around (parse_port: "Port=84042 quietly connected to 18506").
PortExact(text) ==
    LET solid == {i \in DOMAIN text : text[i] # " "}
        digits == IF solid = {} THEN <<>> ELSE SubSeq(text, Min(solid), Max(solid))
        number == FoldLeft(LAMBDA sum, c : 10 * sum + DigitOf[c], 0, digits)
        isPort == /\ \A i \in DOMAIN digits : digits[i] \in DOMAIN DigitOf
                  /\ number \in 1..65535
    IN  ParsePort(text) = IF isPort THEN number ELSE -1

\* However a name is spelled, the engine reads it as one identifier and goes on
\* behind it: a name that is well quoted as the name in the quotes, any other
\* as it is (fl_strbuf_append_ident: it "cannot escape into the surrounding
\* statement").
Contained(name) ==
    LET rest == <<" ", "a">>
        run(i) == {j \in 2..i : \A k \in j..i : name[k] = "quote"}
        wellQuoted ==
            /\ Len(name) >= 2 /\ name[1] = "quote" /\ name[Len(name)] = "quote"
            /\ \A i \in 2..Len(name) - 1 :
                name[i] = "quote" /\ (i + 1 = Len(name) \/ name[i + 1] # "quote")
                    => Cardinality(run(i)) % 2 = 0
        read == ReadIdentifier(Identifier(name) \o rest)
    IN  name # <<>> =>
            /\ read.rest = rest
            /\ IF wellQuoted THEN Quoted(read.name) = name ELSE read.name = name
            /\ read.quoted <=> ~IsBare(name)
=============================================================================
