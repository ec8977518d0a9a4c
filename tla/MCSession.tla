------------------------------ MODULE MCSession ------------------------------
(***************************************************************************)
(* Small instances of SessionProtocol for TLC.                             *)
(***************************************************************************)
EXTENDS SessionRefinement, TLC

\* Requests: single statements (a USE is what SetCatalog sends), and packs in
\* which what comes first decides whether the driver and the engine still agree
\* after the last.
SingleRequests == {<<"work">>, <<"begin">>}
BeginRequests == {<<"begin">>}
OnePack == {<<"begin", "use">>}
PackRequests == {<<"begin", "work">>, <<"use", "end">>}

NoneOrBoth == {{}, {"database", "schema"}}
DatabaseOnly == {{"database"}}
SchemaOnly == {{"schema"}}

AnySession == Permutations(SessionIds)
=============================================================================
