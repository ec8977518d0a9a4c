----------------------------- MODULE SessionNote -----------------------------
(***************************************************************************)
(* session.c: what a request that succeeded leaves on the session, read    *)
(* off its text. fl_session_note walks the text lexeme by lexeme, cuts it  *)
(* at the semicolons and reads the leading words of every statement.       *)
(* SessionProtocol takes the outcome in one step, by the closed forms of   *)
(* Statements: ClosedFormsAgree is where the two meet.                     *)
(*                                                                         *)
(* A text is a sequence of lexemes: words in capitals, and                 *)
(*   ";"        a separator, where fl_sql_skip finds nothing to skip       *)
(*   "comment"  skipped by fl_sql_skip, and as if absent to the words      *)
(*   "opaque"   a literal, quoted identifier or $$ body, whatever is in it *)
(*   "mark"     any other character                                        *)
(***************************************************************************)
EXTENDS Statements

CONSTANTS
    Words,      \* the words requests are written with
    Requests    \* what may be executed: its text, and what it does in order

Skipped == {"comment", "opaque"}
Lexemes == Words \cup Skipped \cup {";", "mark"}

ASSUME WordsAssumption == Words \cap (Skipped \cup {";", "mark"}) = {}
ASSUME NotedRequestsAssumption ==
    \A request \in Requests :
        request.text \in Seq(Lexemes) /\ request.does \in Seq(AppKinds)

VARIABLES
    session_dirty, in_transaction, autocommit,  \* fl_dbc
    text, start, c,     \* the walk: the text, its statement's start, the place
    noting,             \* fl_session_note is running
    does, was,          \* history: the request, and the flags before it
    moved, open         \* the engine's session: is it off scope, uncommitted

flags == <<session_dirty, in_transaction>>
walk == <<text, start, c, noting>>
truth == <<does, was, moved, open>>
vars == <<flags, autocommit, walk, truth>>

------------------------------------------------------------------------------
WordLimit == 16

Modifiers ==
    {"OR", "REPLACE", "TRANSIENT", "TEMPORARY", "TEMP", "VOLATILE", "LOCAL", "GLOBAL",
     "SECURE", "IF", "NOT", "EXISTS", "PUBLIC", "PRIVATE", "ICEBERG", "DYNAMIC", "HYBRID",
     "EVENT", "RECURSIVE", "MATERIALIZED", "EXTERNAL"}

Temporary == {"TEMPORARY", "TEMP", "VOLATILE"}

\* How many of the sequence's first elements are in S.
Leading(s, S) == Cardinality({n \in DOMAIN s : \A i \in 1..n : s[i] \in S})

Least(a, b) == IF a <= b THEN a ELSE b

LeadingWords(statement) ==
    LET IsNoComment(lexeme) == lexeme # "comment"
        bare == SelectSeq(statement, IsNoComment)
    IN  SubSeq(bare, 1, Least(Leading(bare, Words), WordLimit))

\* How many modifiers follow the verb, and the word that names the object.
ModifierCount(words) == Leading(Tail(words), Modifiers)

ObjectKind(words) ==
    IF Len(words) < 2 + ModifierCount(words) THEN "" ELSE words[2 + ModifierCount(words)]

WordsTouchSession(words) ==
    \/ words[1] \in {"USE", "SET", "UNSET"}
    \/ words[1] = "ALTER" /\ ObjectKind(words) = "SESSION"
    \/ words[1] \in {"CREATE", "DROP"} /\ ObjectKind(words) \in {"DATABASE", "SCHEMA"}
    \/ /\ words[1] = "CREATE"
       /\ \E i \in 2..(1 + ModifierCount(words)) : words[i] \in Temporary

Opens(words) ==
    \/ words[1] = "BEGIN" /\ Len(words) = 1
    \/ words[1] = "BEGIN" /\ words[2] \in {"TRANSACTION", "WORK", "NAME"}
    \/ words[1] = "START" /\ Len(words) > 1 /\ words[2] = "TRANSACTION"

Ends(words) == words[1] \in {"COMMIT", "ROLLBACK"}

\* Slip: a statement without words opens a transaction as the others do.
NoteEvenEmpty(statement) ==
    LET words == LeadingWords(statement)
        named == words # <<>>
    IN  /\ session_dirty' = (session_dirty \/ (named /\ WordsTouchSession(words)))
        /\ in_transaction' = IF named /\ Opens(words) THEN TRUE
                             ELSE IF named /\ Ends(words) THEN FALSE
                             ELSE in_transaction \/ ~autocommit

NoteStatement(statement) ==
    LET words == LeadingWords(statement)
    IN  IF words = <<>> THEN UNCHANGED flags
        ELSE /\ session_dirty' = (session_dirty \/ WordsTouchSession(words))
             /\ in_transaction' = \/ Opens(words)
                                  \/ ~Ends(words) /\ (in_transaction \/ ~autocommit)

\* Slip: the character after what is skipped is skipped with it.
PastAndOneMore(place) == place + 2

\* fl_sql_skip: just past the comment, literal or quoted name that starts here.
PastLexeme(place) == place + 1

------------------------------------------------------------------------------
\* A request is executed, the engine does what it says, and the walk starts.
Execute ==
    /\ ~noting
    /\ \E request \in Requests :
        /\ text' = request.text
        /\ does' = request.does
        /\ moved' = (moved \/ Has(request.does, "use"))
        /\ open' = Uncommitted(request.does, autocommit, open)
    /\ start' = 1
    /\ c' = 1
    /\ noting' = TRUE
    /\ was' = flags
    /\ UNCHANGED <<flags, autocommit>>

SkipLexeme ==
    /\ noting
    /\ c <= Len(text)
    /\ text[c] \in Skipped
    /\ c' = PastLexeme(c)
    /\ UNCHANGED <<flags, autocommit, text, start, noting, truth>>

EndOfStatement ==
    /\ noting
    /\ c <= Len(text)
    /\ text[c] = ";"
    /\ NoteStatement(SubSeq(text, start, c - 1))
    /\ start' = c + 1
    /\ c' = c + 1
    /\ UNCHANGED <<autocommit, text, noting, truth>>

NextLexeme ==
    /\ noting
    /\ c <= Len(text)
    /\ text[c] \notin Skipped \cup {";"}
    /\ c' = c + 1
    /\ UNCHANGED <<flags, autocommit, text, start, noting, truth>>

\* Slip: what no semicolon ends is not noted.
EndOfTextUnnoted ==
    /\ noting
    /\ c > Len(text)
    /\ noting' = FALSE
    /\ UNCHANGED <<flags, autocommit, text, start, c, truth>>

EndOfText ==
    /\ noting
    /\ c > Len(text)
    /\ NoteStatement(SubSeq(text, start, c - 1))
    /\ noting' = FALSE
    /\ UNCHANGED <<autocommit, text, start, c, truth>>

\* SQLSetConnectAttr(SQL_ATTR_AUTOCOMMIT): its ALTER SESSION is not noted.
SetAutocommit ==
    /\ ~noting
    /\ autocommit' = ~autocommit
    /\ text' = <<>>
    /\ start' = 1
    /\ c' = 1
    /\ does' = <<>>
    /\ was' = flags
    /\ UNCHANGED <<flags, noting, moved, open>>

\* Slip: a fresh session is taken for a moved one when the lost one was.
SessionReplacedStillDirty ==
    /\ ~noting
    /\ in_transaction' = FALSE
    /\ moved' = FALSE
    /\ open' = FALSE
    /\ text' = <<>>
    /\ start' = 1
    /\ c' = 1
    /\ does' = <<>>
    /\ was' = <<session_dirty, FALSE>>
    /\ UNCHANGED <<session_dirty, autocommit, noting>>

\* reset_session_state, and the engine's fresh session.
SessionReplaced ==
    /\ ~noting
    /\ session_dirty' = FALSE
    /\ in_transaction' = FALSE
    /\ moved' = FALSE
    /\ open' = FALSE
    /\ text' = <<>>
    /\ start' = 1
    /\ c' = 1
    /\ does' = <<>>
    /\ was' = <<FALSE, FALSE>>
    /\ UNCHANGED <<autocommit, noting>>

Init ==
    /\ session_dirty = FALSE
    /\ in_transaction = FALSE
    /\ autocommit = TRUE
    /\ text = <<>>
    /\ start = 1
    /\ c = 1
    /\ noting = FALSE
    /\ does = <<>>
    /\ was = <<FALSE, FALSE>>
    /\ moved = FALSE
    /\ open = FALSE

Next ==
    \/ Execute
    \/ SkipLexeme \/ EndOfStatement \/ NextLexeme \/ EndOfText
    \/ SetAutocommit \/ SessionReplaced

Spec == Init /\ [][Next]_vars

------------------------------------------------------------------------------
\* What makes a request a plain one: each of its statements, one at a time,
\* reads as what it does. A scripting block is not plain.

\* From one semicolon to the next, or to an end of the text.
StatementAt(lexemes, from, to) ==
    /\ from <= to
    /\ from = 1 \/ lexemes[from - 1] = ";"
    /\ to = Len(lexemes) + 1 \/ lexemes[to] = ";"
    /\ \A i \in from..to - 1 : lexemes[i] # ";"

WordsAt(lexemes, from, to) == LeadingWords(SubSeq(lexemes, from, to - 1))

\* Where the statements begin that have any words.
Worded(lexemes) ==
    {from \in 1..Len(lexemes) + 1 :
        \E to \in from..Len(lexemes) + 1 :
            StatementAt(lexemes, from, to) /\ WordsAt(lexemes, from, to) # <<>>}

ReadsAs(words, kind) ==
    /\ WordsTouchSession(words) <=> TouchesSession(kind)
    /\ Opens(words) <=> TransactionEffect(kind) = 1
    /\ Ends(words) <=> TransactionEffect(kind) = -1

PlainlyWritten(request) ==
    LET worded == Worded(request.text)
    IN  /\ Len(request.does) = Cardinality(worded)
        /\ \A from \in worded : \A to \in from..Len(request.text) + 1 :
               StatementAt(request.text, from, to) =>
                   ReadsAs(WordsAt(request.text, from, to),
                           request.does[Cardinality({b \in worded : b <= from})])

------------------------------------------------------------------------------
\* Every variable keeps its type, and the walk stays inside its text.
NoteTypeOK ==
    /\ session_dirty \in BOOLEAN /\ in_transaction \in BOOLEAN /\ autocommit \in BOOLEAN
    /\ noting \in BOOLEAN /\ moved \in BOOLEAN /\ open \in BOOLEAN
    /\ was \in BOOLEAN \X BOOLEAN
    /\ text \in Seq(Lexemes) /\ does \in Seq(AppKinds)
    /\ start \in 1..c /\ c \in 1..(Len(text) + 1)

\* Between calls the connection knows of everything the engine's session holds
\* that a fresh one would not: a moved session is flagged as one, an open
\* transaction as one, whatever was packed into the requests and however they
\* were commented (proto.c sends a statement again on the strength of it).
NoteMissesNothing ==
    ~noting => (moved => session_dirty) /\ (open => in_transaction)

\* Nor does it hold a session for moved that is not: CREATE TABLE and its kind
\* leave the session as it was, and a lost one is replaced (touches_session).
NoteInventsNothing == ~noting => (session_dirty => moved)

\* Walked or taken at once, a request leaves the same flags: the driver's
\* reading of its lexemes is the reading SessionProtocol builds on.
ClosedFormsAgree ==
    ~noting => /\ session_dirty = NotedDirty(does, was[1])
               /\ in_transaction = NotedTransaction(does, autocommit, was[2])

\* session.c:25-27: splitting a scripting block only makes the checks more
\* willing to flag a request, the safe direction to be wrong in.
BlocksErrOnTheSafeSide == NoteMissesNothing
=============================================================================
