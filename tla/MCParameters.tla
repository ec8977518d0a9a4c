----------------------------- MODULE MCParameters -----------------------------
(***************************************************************************)
(* Small instances of Parameters for TLC.                                  *)
(***************************************************************************)
EXTENDS Parameters

Param(indicator, c_type, sql_type, text) ==
    [bound |-> TRUE, indicator |-> indicator, value |-> TRUE, c_type |-> c_type,
     sql_type |-> sql_type, text |-> text]

SomeParameters ==
    {Param("nts", "char", "character", "plain"),
     Param("nts", "char", "numeric", "negative"),
     Param("length", "char", "numeric", "not_a_number"),
     Param("nts", "signed", "numeric", "negative"),
     Param("nts", "unsigned", "numeric", "plain"),
     Param("nts", "char", "temporal", "plain"),
     Param("null", "char", "character", "plain"),
     Param("at_exec", "char", "character", "plain"),
     Param("invalid", "binary", "character", "plain"),
     [Param("nts", "bit", "numeric", "plain") EXCEPT !.value = FALSE]}

\* SELECT 'a?', ?   ? - ?   ?::INT   a text without markers   three markers
\* (-?)
SomeTexts ==
    {<<"word", "opaque", "other", "?">>,
     <<"?", "minus", "?">>,
     <<"?", "cast", "word">>,
     <<"word", "opaque">>,
     <<"?", "other", "opaque", "?", "other", "?">>,
     <<"(", "minus", "?", ")">>}
=============================================================================
