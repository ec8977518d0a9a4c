------------------------------- MODULE MCCursor -------------------------------
(***************************************************************************)
(* Small instances of ResultCursor for TLC.                                *)
(***************************************************************************)
EXTENDS ResultCursor

Cell(bytes, integer) == [null |-> FALSE, text |-> bytes, number |-> integer]
Null == [null |-> TRUE, text |-> <<>>, number |-> FALSE]
Empty == Cell(<<>>, FALSE)
Digit == Cell(<<"lead">>, TRUE)
\* a letter between two of two bytes each, and two bytes as four hex digits
Word == Cell(<<"lead", "cont", "lead", "lead", "cont">>, FALSE)
HexDigits == Cell(<<"lead", "lead", "lead", "lead">>, FALSE)

\* A query; a pack of an INSERT and a query; a statement without a result.
Query == [hex |-> <<FALSE, TRUE>>, rows |-> <<<<Word, HexDigits>>, <<Empty, Null>>>>,
          affected |-> -1]
Insert == [hex |-> <<FALSE>>, rows |-> <<<<Digit>>>>, affected |-> 3]
NoRows == [hex |-> <<FALSE>>, rows |-> <<>>, affected |-> 1]

PlainResponses == {<<Query>>, <<Insert, Query>>, <<NoRows>>, <<>>}
TypeInfo == {[hex |-> <<FALSE>>, rows |-> <<<<Word>>, <<Digit>>>>, affected |-> -1]}

OneBinding == {[ctype |-> "char", length |-> 2, indicator |-> TRUE]}
RowLimits == {0, 1}
=============================================================================
