----------------------------- MODULE JsonGrammar ------------------------------
(***************************************************************************)
(* What a JSON document is, by its grammar, over the tokens of Json: the   *)
(* reference the parser is compared with.                                  *)
(***************************************************************************)
EXTENDS JsonReading

\* Without the white space around it.
Trim(s) ==
    LET solid == {i \in DOMAIN s : s[i] # "space"}
    IN  IF solid = {} THEN <<>>
        ELSE SubSeq(s, CHOOSE i \in solid : \A j \in solid : i <= j,
                       CHOOSE i \in solid : \A j \in solid : i >= j)

\* The positions a backslash takes with it.
RECURSIVE Taken(_, _)
Taken(s, i) == i > 1 /\ s[i - 1] = "backslash" /\ ~Taken(s, i - 1)

IsString(s) ==
    /\ Len(s) >= 2
    /\ s[1] = "quote" /\ s[Len(s)] = "quote"
    /\ \A i \in 2..Len(s) :
           IF Taken(s, i)
           THEN i < Len(s) /\ s[i] \in {"quote", "backslash", "char"}
           ELSE s[i] = "quote" => i = Len(s)

\* json.c takes any run of the characters numbers are made of.
IsNumber(s) == s # <<>> /\ \A i \in DOMAIN s : s[i] = "number"

RECURSIVE IsValue(_, _), AreItems(_, _), AreMembers(_, _)

\* A value, white space around it allowed, nested at most `levels` deep.
IsValue(padded, levels) ==
    LET s == Trim(padded)
        inner == SubSeq(s, 2, Len(s) - 1)
    IN  \/ IsString(s) \/ IsNumber(s) \/ s = <<"literal">>
        \/ /\ levels > 0
           /\ Len(s) >= 2
           /\ \/ /\ s[1] = "bracket" /\ s[Len(s)] = "endbracket"
                 /\ Trim(inner) = <<>> \/ AreItems(inner, levels - 1)
              \/ /\ s[1] = "brace" /\ s[Len(s)] = "endbrace"
                 /\ Trim(inner) = <<>> \/ AreMembers(inner, levels - 1)

AreItems(s, levels) ==
    \/ IsValue(s, levels)
    \/ \E i \in DOMAIN s :
        /\ s[i] = "comma"
        /\ IsValue(SubSeq(s, 1, i - 1), levels)
        /\ AreItems(SubSeq(s, i + 1, Len(s)), levels)

IsMember(s, levels) ==
    \E i \in DOMAIN s :
        /\ s[i] = "colon"
        /\ IsString(Trim(SubSeq(s, 1, i - 1)))
        /\ IsValue(SubSeq(s, i + 1, Len(s)), levels)

AreMembers(s, levels) ==
    \/ IsMember(s, levels)
    \/ \E i \in DOMAIN s :
        /\ s[i] = "comma"
        /\ IsMember(SubSeq(s, 1, i - 1), levels)
        /\ AreMembers(SubSeq(s, i + 1, Len(s)), levels)

\* The parser accepts exactly the documents that nest no deeper than the
\* limit, all of the text and nothing behind it (fl_json_parse, json.c:453).
ParserExact == Accepts(parser) <=> IsValue(text, MaxDepth)
=============================================================================
