----------------------------- MODULE JsonReading ------------------------------
(***************************************************************************)
(* The parser of Json at work on a text of any length.                     *)
(***************************************************************************)
EXTENDS Json

VARIABLES
    text,       \* what has been read
    parser      \* what parse_value and its callers know then

readingVars == <<text, parser>>

ReadingInit == text = <<>> /\ parser = Start

Read(token) ==
    /\ text' = Append(text, token)
    /\ parser' = Step(parser, token)

ReadingNext == \E token \in Tokens : Read(token)

ReadingSpec == ReadingInit /\ [][ReadingNext]_readingVars

------------------------------------------------------------------------------
\* However many brackets a text opens, one inside the other or one after the
\* other, the recursion is as deep as the brackets open around it and never
\* deeper than the limit (json.c:23-27).
DepthBounded == parser.depth = Len(parser.open) /\ parser.depth <= MaxDepth
=============================================================================
