------------------------------ MODULE Parameters ------------------------------
(***************************************************************************)
(* Parameters on a statement handle: bound by number, and put in the place *)
(* of the text's markers when it is executed (execute.c, substitute_params *)
(* and what it calls).                                                     *)
(*                                                                         *)
(* A text is a sequence of lexemes:                                        *)
(*   "?"        a marker, where skip_non_placeholder finds nothing to skip *)
(*   "opaque"   a literal, quoted name, comment or $$ body, with whatever  *)
(*              markers are in it                                          *)
(*   "word"     an identifier or keyword                                   *)
(*   "minus"    a minus sign: two in a row start a comment                 *)
(*   "number", "cast", "(", ")", "other"                                   *)
(*                                                                         *)
(* A parameter is [bound, indicator, value, c_type, sql_type, text]:       *)
(* whether the slot is bound, what its indicator says, whether it has a    *)
(* buffer, the families of its types, and how a number's text reads.       *)
(***************************************************************************)
EXTENDS Integers, Sequences, FiniteSets

CONSTANTS
    StatementTexts, \* what the application prepares or executes
    Parameters,     \* what it binds
    MaxParameters   \* bound: the parameter numbers it uses

Skipped == {"opaque", "word"}
Lexemes == Skipped \cup {"?", "minus", "number", "cast", "(", ")", "other"}

ParameterValues ==
    [bound : {TRUE},
     indicator : {"null", "nts", "length", "at_exec", "default", "invalid"},
     value : BOOLEAN,
     c_type : {"char", "wide", "signed", "unsigned", "bit", "binary", "temporal", "unknown"},
     sql_type : {"character", "numeric", "temporal"},
     text : {"plain", "negative", "not_a_number"}]

\* Where two minuses meet skip_non_placeholder has found a comment.
MinusesMeet(text) == \E i \in 1..Len(text) - 1 : text[i] = "minus" /\ text[i + 1] = "minus"

ASSUME TextsAssumption ==
    StatementTexts \subseteq {text \in Seq(Lexemes) : ~MinusesMeet(text)}
ASSUME ParametersAssumption == Parameters \subseteq ParameterValues
ASSUME MaxParametersAssumption == MaxParameters \in Nat \ {0}

Free == [bound |-> FALSE, indicator |-> "nts", value |-> FALSE, c_type |-> "char",
         sql_type |-> "character", text |-> "plain"]

VARIABLES
    params,             \* fl_stmt.params, param_capacity slots of it
    running, sql, c, buf, param_index,  \* substitute_params and its locals
    sent,               \* what the last execution sent: <<text>>, or <<>>
    answer              \* "success", or the SQLSTATE it failed with

walk == <<sql, c, buf, param_index>>
vars == <<params, running, walk, sent, answer>>

------------------------------------------------------------------------------
\* Rendering one parameter

\* Slip: the sign is spliced bare.
NumberBare(text) == IF text = "negative" THEN <<"minus", "number">> ELSE <<"number">>

AppendNumber(text) ==
    IF text = "negative" THEN <<"(", "minus", "number", ")">> ELSE <<"number">>

Rendered(lexemes) == [code |-> "success", lexemes |-> lexemes]
Refusal(code) == [code |-> code, lexemes |-> <<>>]

\* Blanks, sign, digits with a point, exponent: nothing else is a number.
IsNumericLiteral(text) == text \in {"plain", "negative"}

\* 'text', its quotes and backslashes escaped, and X'bytes': one literal each,
\* whatever the value is.
StringLiteral == <<"opaque">>
BinaryLiteral == <<"opaque">>

\* 'text'::DATE and its kind
Temporal == <<"opaque", "cast", "word">>

CharLiteral(param) ==
    CASE param.sql_type = "temporal" -> Rendered(Temporal)
      [] param.sql_type = "numeric" ->
             IF IsNumericLiteral(param.text) THEN Rendered(AppendNumber(param.text))
             ELSE Refusal("22018")
      [] param.sql_type = "character" -> Rendered(StringLiteral)

ValueLiteral(param) ==
    CASE param.c_type = "char" -> CharLiteral(param)
      [] param.c_type = "signed" -> Rendered(AppendNumber(param.text))
      [] param.c_type = "unsigned" -> Rendered(<<"number">>)
      [] param.c_type = "bit" -> Rendered(<<"word">>)
      [] param.c_type = "binary" -> Rendered(BinaryLiteral)
      [] param.c_type = "temporal" -> Rendered(Temporal)
      [] param.c_type \in {"wide", "unknown"} -> Refusal("HYC00")

\* append_param_literal: what is refused is refused before the value is read.
AppendParamLiteral(param) ==
    IF ~param.bound THEN Refusal("07002")
    ELSE IF param.indicator = "null" \/ ~param.value THEN Rendered(<<"word">>)
    ELSE IF param.indicator \in {"at_exec", "default"} THEN Refusal("HYC00")
    ELSE IF param.indicator = "invalid" THEN Refusal("HY090")
    ELSE ValueLiteral(param)

------------------------------------------------------------------------------
\* Scanning

\* The places count_placeholders counts.
Markers(text) == {i \in DOMAIN text : text[i] = "?"}

HasBoundParams == \E i \in DOMAIN params : params[i].bound

\* Slip: text without bound parameters is scanned for them too.
SubstituteAlways(text) == Markers(text) # {}

Substitutes(text) == HasBoundParams /\ Markers(text) # {}

------------------------------------------------------------------------------
\* The application's calls

\* Slots up to the number come into being unbound.
SQLBindParameter ==
    /\ ~running
    /\ \E number \in 1..MaxParameters, param \in Parameters :
        params' = [i \in 1..(IF number > Len(params) THEN number ELSE Len(params)) |->
                      IF i = number THEN param
                      ELSE IF i <= Len(params) THEN params[i] ELSE Free]
    /\ UNCHANGED <<running, walk, sent, answer>>

\* SQLFreeStmt(SQL_RESET_PARAMS)
ResetParams ==
    /\ ~running
    /\ params' = <<>>
    /\ UNCHANGED <<running, walk, sent, answer>>

\* SQLExecDirect, or SQLExecute of a prepared text.
Execute ==
    /\ ~running
    /\ \E text \in StatementTexts :
        /\ sql' = text
        /\ IF Substitutes(text)
           THEN running' = TRUE /\ sent' = <<>> /\ answer' = "success"
           ELSE running' = FALSE /\ sent' = <<text>> /\ answer' = "success"
    /\ c' = 1
    /\ buf' = <<>>
    /\ param_index' = 0
    /\ UNCHANGED params

------------------------------------------------------------------------------
\* substitute_params, a lexeme at a time

CopyLexeme ==
    /\ running
    /\ c <= Len(sql)
    /\ sql[c] # "?"
    /\ buf' = Append(buf, sql[c])
    /\ c' = c + 1
    /\ UNCHANGED <<params, running, sql, param_index, sent, answer>>

\* Slip: the marker without a parameter is left to the engine.
NextOrMarker ==
    IF param_index >= Len(params) THEN Rendered(<<"?">>)
    ELSE AppendParamLiteral(params[param_index + 1])

\* Slip: the first parameter goes into every marker.
FirstLiteral ==
    IF param_index >= Len(params) THEN Refusal("07002") ELSE AppendParamLiteral(params[1])

NextLiteral ==
    IF param_index >= Len(params) THEN Refusal("07002")
    ELSE AppendParamLiteral(params[param_index + 1])

\* Slip: the character behind the marker is taken for part of it.
SubstituteAndOneMore ==
    /\ running
    /\ c <= Len(sql)
    /\ sql[c] = "?"
    /\ NextLiteral.code = "success"
    /\ buf' = buf \o NextLiteral.lexemes
    /\ param_index' = param_index + 1
    /\ c' = c + 2
    /\ UNCHANGED <<params, running, sql, sent, answer>>

SubstituteMarker ==
    /\ running
    /\ c <= Len(sql)
    /\ sql[c] = "?"
    /\ NextLiteral.code = "success"
    /\ buf' = buf \o NextLiteral.lexemes
    /\ param_index' = param_index + 1
    /\ c' = c + 1
    /\ UNCHANGED <<params, running, sql, sent, answer>>

SubstitutionFails ==
    /\ running
    /\ c <= Len(sql)
    /\ sql[c] = "?"
    /\ NextLiteral.code # "success"
    /\ answer' = NextLiteral.code
    /\ running' = FALSE
    /\ UNCHANGED <<params, walk, sent>>

SendSubstituted ==
    /\ running
    /\ c > Len(sql)
    /\ sent' = <<buf>>
    /\ running' = FALSE
    /\ UNCHANGED <<params, walk, answer>>

Init ==
    /\ params = <<>>
    /\ running = FALSE
    /\ sql = <<>>
    /\ c = 1
    /\ buf = <<>>
    /\ param_index = 0
    /\ sent = <<>>
    /\ answer = "success"

Next ==
    \/ SQLBindParameter \/ ResetParams \/ Execute
    \/ CopyLexeme \/ SubstituteMarker \/ SubstitutionFails \/ SendSubstituted

Spec == Init /\ [][Next]_vars

------------------------------------------------------------------------------
\* Every variable keeps its type, and the walk stays inside its text.
ParametersTypeOK ==
    /\ params \in Seq(Parameters \cup {Free}) /\ Len(params) <= MaxParameters
    /\ running \in BOOLEAN
    /\ sql \in Seq(Lexemes) /\ c \in 1..(Len(sql) + 1)
    /\ buf \in Seq(Lexemes)
    /\ param_index \in 0..MaxParameters
    /\ Len(sent) <= 1
    /\ answer \in {"success", "07002", "22018", "HY090", "HYC00"}

\* The text up to each of its lexemes with the n-th marker replaced by
\* `literals[n]`, all else as it was.
Ordinal(text, i) == Cardinality({j \in Markers(text) : j <= i})

Expansions(text, literals) ==
    LET expand[i \in 0..Len(text)] ==
            IF i = 0 THEN <<>>
            ELSE IF i \in Markers(text) THEN expand[i - 1] \o literals[Ordinal(text, i)]
            ELSE Append(expand[i - 1], text[i])
    IN  expand

Literals == [n \in DOMAIN params |-> AppendParamLiteral(params[n]).lexemes]

\* What goes out is the text with every marker, and nothing that only looks like
\* one, replaced by its own parameter, and all else as it was written.
SentIsExpansion ==
    [][ running /\ sent' # <<>> =>
            sent'[1] = Expansions(sql, Literals)[Len(sql)] ]_vars

\* README "Parameters": with nothing bound the text is sent as written, also one
\* whose markers a scripting cursor binds, and after SQL_RESET_PARAMS again.
SentAsWritten == [][ ~HasBoundParams /\ sent' # sent => sent' = <<sql'>> ]_vars

\* A marker without a parameter, or with one that cannot be rendered, sends
\* nothing: no part of the text, no marker left for the engine to misread.
NothingSentInPart ==
    /\ answer # "success" => sent = <<>>
    /\ sent # <<>> /\ param_index > 0 => Markers(sent[1]) = {}

\* A negative parameter makes no comment of the minus before it, and stays one
\* operand: beyond the text's own signs only enclosed ones go out, whatever
\* stands around the marker (append_number, execute.c:201-204).
Enclosed(text, i) ==
    /\ 1 < i /\ i + 2 <= Len(text)
    /\ text[i - 1] = "(" /\ text[i + 1] = "number" /\ text[i + 2] = ")"

BareSigns(text) == {n \in DOMAIN text : text[n] = "minus" /\ ~Enclosed(text, n)}

SignEnclosed ==
    /\ ~MinusesMeet(buf)
    /\ Cardinality(BareSigns(buf)) <= Cardinality({n \in 1..(c - 1) : sql[n] = "minus"})
=============================================================================
