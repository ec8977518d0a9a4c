------------------------------- MODULE Request --------------------------------
(***************************************************************************)
(* The request POST /api/execute carries: build_request_json (proto.c) and *)
(* fl_strbuf_append_json_string (json.c), in the tokens of Json. "control" *)
(* is a character below space: it may not stand in a string by itself.     *)
(***************************************************************************)
EXTENDS Json, SequencesExt

\* fl_strbuf_append_json_string
WriteString(text) ==
    <<"quote">> \o FlattenSeq([i \in DOMAIN text |->
        CASE text[i] \in {"quote", "backslash"} -> <<"backslash", text[i]>>
          [] text[i] = "control" -> <<"backslash", "char">>
          [] OTHER -> <<text[i]>>]) \o <<"quote">>

Member(value) == WriteString(<<"char">>) \o <<"colon">> \o value

\* build_request_json: the statement; the session with requireSession; the
\* count of statements when one was declared; autoCommit.
BuildRequestJson(sql, hasSession, require, counted) ==
    <<"brace">> \o Member(WriteString(sql))
    \o (IF hasSession
        THEN <<"comma">> \o Member(WriteString(<<"char">>))
             \o (IF require THEN <<"comma">> \o Member(<<"literal">>) ELSE <<>>)
        ELSE <<>>)
    \o (IF counted THEN <<"comma">> \o Member(<<"number">>) ELSE <<>>)
    \o <<"comma">> \o Member(<<"literal">>) \o <<"endbrace">>

------------------------------------------------------------------------------
\* Whatever a statement is made of, its string goes on to the last quote that
\* was written and no further, and holds no bare control character.
HeldByItsString(sql) ==
    LET written == WriteString(sql)
        at(i) == Parsed(written)[i].place
    IN  /\ \A i \in 1..Len(written) - 1 : at(i) \in {"in_string", "string_escape"}
        /\ at(Len(written)) = "after"
        /\ ~Contains(written, "control")
=============================================================================
