--------------------------------- MODULE Json ---------------------------------
(***************************************************************************)
(* fl_json_parse (json.c), read token by token: the recursion of           *)
(* parse_value, parse_object and parse_array is the stack `open`, and what *)
(* the innermost of them expects next is `place`. The tokens of a text:    *)
(*   brace, endbrace, bracket, endbracket, comma, colon, quote, backslash  *)
(*   number    a character of parse_number: a digit, '.', 'e', 'E', '+'... *)
(*   literal   true, false or null, whole                                  *)
(*   space     a space, a tab, a carriage return or a line feed            *)
(*   char      any other character that may follow a backslash: it belongs *)
(*             in strings only                                             *)
(***************************************************************************)
EXTENDS Integers, Sequences

CONSTANT MaxDepth       \* FL_JSON_MAX_DEPTH

ASSUME MaxDepthAssumption == MaxDepth \in Nat

Brackets == {"brace", "bracket"}
Tokens == Brackets \cup {"endbrace", "endbracket", "comma", "colon", "quote", "backslash",
                         "number", "literal", "space", "char"}

Places == {
    "value",                \* parse_value
    "first_key", "key",     \* parse_object, behind '{' and behind ','
    "colon",                \* behind a key
    "first_item",           \* parse_array, behind '['
    "in_key", "in_string", "key_escape", "string_escape",   \* parse_string_body
    "in_number",            \* parse_number
    "after",                \* behind a value
    "failed"}

Start == [place |-> "value", open |-> <<>>, depth |-> 0]
Failed == [place |-> "failed", open |-> <<>>, depth |-> 0]

Goto(p, place) == [p EXCEPT !.place = place]

\* Slip: the limit stops one level late.
OpenOneDeeper(p, token) ==
    IF p.depth > MaxDepth THEN Failed
    ELSE [place |-> IF token = "brace" THEN "first_key" ELSE "first_item",
          open |-> <<token>> \o p.open, depth |-> p.depth + 1]

\* parse_value, at a bracket.
Open(p, token) ==
    IF p.depth >= MaxDepth THEN Failed
    ELSE [place |-> IF token = "brace" THEN "first_key" ELSE "first_item",
          open |-> <<token>> \o p.open, depth |-> p.depth + 1]

\* Back in parse_value, behind what it called.
Close(p) == [place |-> "after", open |-> Tail(p.open), depth |-> p.depth - 1]

\* parse_value, after its white space.
BeginValue(p, token) ==
    CASE token \in Brackets -> Open(p, token)
      [] token = "quote" -> Goto(p, "in_string")
      [] token = "literal" -> Goto(p, "after")
      [] token = "number" -> Goto(p, "in_number")
      [] OTHER -> Failed

\* Slip: a comma may be the last thing in an object or an array.
FollowWithTrailingComma(p, token) ==
    IF p.open = <<>> THEN Failed
    ELSE CASE token = "comma" ->
                Goto(p, IF p.open[1] = "brace" THEN "first_key" ELSE "first_item")
           [] token = "endbrace" /\ p.open[1] = "brace" -> Close(p)
           [] token = "endbracket" /\ p.open[1] = "bracket" -> Close(p)
           [] OTHER -> Failed

\* parse_object and parse_array, behind a child; at the top, fl_json_parse.
FollowValue(p, token) ==
    IF p.open = <<>> THEN Failed
    ELSE CASE token = "comma" -> Goto(p, IF p.open[1] = "brace" THEN "key" ELSE "value")
           [] token = "endbrace" /\ p.open[1] = "brace" -> Close(p)
           [] token = "endbracket" /\ p.open[1] = "bracket" -> Close(p)
           [] OTHER -> Failed

\* parse_string_body: what an escape stands for does not matter here.
InString(p, token) ==
    CASE token = "quote" -> Goto(p, IF p.place = "in_key" THEN "colon" ELSE "after")
      [] token = "backslash" -> Goto(p, IF p.place = "in_key" THEN "key_escape" ELSE "string_escape")
      [] OTHER -> p

Escaped(p, token) ==
    IF token \in {"quote", "backslash", "char"}
    THEN Goto(p, IF p.place = "key_escape" THEN "in_key" ELSE "in_string")
    ELSE Failed

\* A token that is not white space, outside of strings and numbers.
Solid(p, token) ==
    CASE p.place = "after" -> FollowValue(p, token)
      [] p.place = "value" -> BeginValue(p, token)
      [] p.place = "first_item" -> IF token = "endbracket" THEN Close(p) ELSE BeginValue(p, token)
      [] p.place = "colon" -> IF token = "colon" THEN Goto(p, "value") ELSE Failed
      [] p.place \in {"first_key", "key"} ->
            IF token = "quote" THEN Goto(p, "in_key")
            ELSE IF token = "endbrace" /\ p.place = "first_key" THEN Close(p) ELSE Failed

\* One token further. skip_ws stands before every value, key, colon and
\* comma, and at the end; a number ends where its characters do.
Step(p, token) ==
    IF p.place = "failed" THEN Failed
    ELSE IF p.place \in {"in_key", "in_string"} THEN InString(p, token)
    ELSE IF p.place \in {"key_escape", "string_escape"} THEN Escaped(p, token)
    ELSE IF p.place = "in_number" /\ token = "number" THEN p
    ELSE LET here == IF p.place = "in_number" THEN Goto(p, "after") ELSE p
         IN  IF token = "space" THEN here ELSE Solid(here, token)

\* Slip: what is still open at the end of the text counts as closed.
AcceptsUnclosed(p) == p.place \in {"after", "in_number"}

\* The end of the text, for fl_json_parse.
Accepts(p) == p.place \in {"after", "in_number"} /\ p.open = <<>>

\* What the parser knows behind each token of a text, from none to all of them.
Parsed(text) ==
    LET at[i \in 0..Len(text)] == IF i = 0 THEN Start ELSE Step(at[i - 1], text[i])
    IN  at

\* fl_json_parse returns a tree.
IsDocument(text) == Accepts(Parsed(text)[Len(text)])
=============================================================================
