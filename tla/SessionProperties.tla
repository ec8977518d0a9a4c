-------------------------- MODULE SessionProperties --------------------------
(***************************************************************************)
(* What a connection promises the application about its session, stated    *)
(* over SessionProtocol.                                                   *)
(***************************************************************************)
EXTENDS SessionProtocol

DbcType ==
    /\ connected \in BOOLEAN
    /\ session_id \in OptionalId
    /\ tracks_sessions \in {-1, 0, 1}
    /\ session_dirty \in BOOLEAN
    /\ in_transaction \in BOOLEAN
    /\ scope_pending \in BOOLEAN
    /\ autocommit \in BOOLEAN
    /\ scope \in SUBSET {"database", "schema"}
    /\ catalog \in Databases \cup {"garbled"}

CallType ==
    /\ pc \in {"idle", "scope", "statement", "release"}
    /\ op \in Ops
    /\ sql \in Texts \cup {<<>>}
    /\ restarted \in BOOLEAN
    /\ second \in BOOLEAN
    /\ result \in Results

PlaceType == stage \in 0..3 /\ at \in 1..4

WireType == wire \in Messages /\ late \in SUBSET RequestMessages

EngineType ==
    /\ live \in SUBSET SessionIds
    /\ holds \in [SessionIds -> Sessions]
    /\ tracking \in BOOLEAN

HistoryType ==
    /\ ran \in Nat
    /\ posts \in Nat
    /\ txn_home \in OptionalId
    /\ ctx_home \in OptionalId
    /\ doubtful \in SUBSET SessionIds
    /\ orphans \in SUBSET SessionIds
    /\ calm \in BOOLEAN

\* Every variable keeps its type, and a message its shape.
TypeOK == DbcType /\ CallType /\ PlaceType /\ WireType /\ EngineType /\ HistoryType

\* The application's own calls, whose statement is run for it.
AppOps == {"exec", "endtran", "autocommit", "catalog"}

\* What a call reports is what happened to its statement: it ran exactly once
\* when it answers, not at all when the session is reported lost, and never
\* twice, however often the session went and whatever became of the answers
\* (execute_as, proto.c:409-447: sent once more only when nothing ran).
OutcomeTellsWhatRan ==
    /\ ran <= 1
    /\ pc = "idle" /\ op \in AppOps /\ result = "ok" => ran = 1
    /\ pc = "idle" /\ op \in AppOps /\ result \in LostResults => ran = 0

\* While the application has uncommitted work, or a context it set up, that
\* it has been told is there, its statements run in the session holding it or
\* do not run: a lost session is never silently replaced (README, "After a
\* lost session"; lose_session, proto.c:184-193).
NeverSilentlyReplaced ==
    AppRequest /\ wire.type = "answer" /\ wire.kind \in {"ok", "refused"}
        /\ wire.session # NoSession
    => /\ txn_home \in {NoSession, wire.session}
       /\ ctx_home \in {NoSession, wire.session}

\* What makes the two properties above inductive.

\* A session the application was told of is the one the driver has, knows to
\* be worth protecting, and asks the engine to resume.
HeldIsCurrent ==
    /\ txn_home # NoSession =>
           in_transaction /\ session_id = txn_home /\ tracks_sessions = 1
    /\ ctx_home # NoSession =>
           session_dirty /\ session_id = ctx_home /\ tracks_sessions = 1

\* Asked to resume it, the engine answers from that session or from none.
ResumedOrRefused ==
    pc \in {"scope", "statement"} =>
        /\ Requesting => wire.session = session_id /\ wire.require = RequireSession
        /\ RequireSession /\ wire.type = "answer" =>
               wire.session \in {NoSession, session_id} /\ ~wire.started /\ wire.reports

\* Nothing is held while connecting, or with no connection.
HeldByConnection ==
    /\ ~connected \/ (pc # "idle" /\ op = "connect") =>
           txn_home = NoSession /\ ctx_home = NoSession
    /\ pc \in {"scope", "statement"} => connected
    /\ pc = "release" => ~connected

WireFollowsCall ==
    /\ Requesting => pc \in {"scope", "statement"}
    /\ wire.type = "release" => pc = "release"

\* Only an engine that reports newSession is known to.
KnownToTrack ==
    /\ tracks_sessions = 1 => tracking
    /\ wire.type = "answer" /\ wire.reports => tracking

HomesInv ==
    HeldIsCurrent /\ ResumedOrRefused /\ HeldByConnection /\ WireFollowsCall /\ KnownToTrack

\* How far the application's statement has got, step by step.
OutcomeInv ==
    /\ ran \in {0, 1}
    /\ pc = "release" => op \notin AppOps
    /\ pc = "scope" => ran = 0
    /\ pc = "statement" /\ (op = "connect" \/ wire.type # "answer" \/ wire.kind = "gone")
           => ran = 0
    /\ pc = "statement" /\ op # "connect" /\ Answered("ok") => ran = 1
    /\ OutcomeTellsWhatRan

OnScope(session) ==
    /\ session.database = DsnCatalog
    /\ session.schema = (IF "schema" \in scope THEN "dsn" ELSE "none")
    /\ session.auto = autocommit

\* The session a request would run in, as it stands.
SessionFor(request) ==
    IF request.session \in live THEN holds[request.session] ELSE FreshSession

\* A statement of the application never runs off the connection's scope, in
\* another database, schema or commit mode than the DSN and the attribute
\* name, unless the application moved the session itself. Sessions whose
\* settings the driver could not learn the fate of are left out, and older
\* engines, which replace a session unasked (apply_scope, proto.c:321-330).
RunsOnScope ==
    [][ AppRequest /\ Requesting /\ wire'.type = "answer" /\ wire'.session # NoSession
        /\ wire.session \notin doubtful /\ tracks_sessions # 0
        /\ SessionFor(wire).database # "app"
        => OnScope(SessionFor(wire)) ]_vars

\* The engine is left no session to sweep: every one it holds is the
\* connection's, on its way to it, or one whose answer or release the link
\* lost (fl_proto_release on every way out of a connection, README "On
\* SQLDisconnect"). Holds of an engine that has DELETE.
NoSessionLeaked ==
    live \subseteq {session_id} \cup orphans
                   \cup (IF wire.type = "answer" THEN {wire.session} ELSE {})

\* While the scope is still to go on and the application has set up nothing
\* since, the catalog reads the DSN's database again (reset_session_state).
CatalogFollowsLoss ==
    connected /\ scope_pending /\ ~session_dirty => catalog = DsnCatalog

\* Once a call has reported its session lost the connection is usable again:
\* the next call succeeds unless something new goes wrong during it (README,
\* "Either way the connection stays usable").
UsableAfterLoss == pc = "idle" /\ calm => result = "ok"

\* Nothing the engine does makes a call chase sessions for ever: at most the
\* scope twice, the statement, and both once more.
RequestsBounded == posts <= PostsAllowed

\* An engine that predates requireSession is never sent it, also when it is
\* replaced by a newer one while requests are under way (build_request_json).
OlderEngineNeverSentTheField ==
    \A request \in late \cup {wire} : request.type = "request" /\ request.require => tracking

\* Every call returns, however many sessions and answers are lost.
CallsReturn == pc # "idle" ~> pc = "idle"

------------------------------------------------------------------------------
\* What the documents say and the code does not do.

AtRest == pc = "idle" /\ connected /\ session_id \in live

\* fl_odbc.h:140: in_transaction says whether a transaction is open on the
\* session (proto.c:443 notes only requests that were answered with success).
TransactionFlagTruthful == AtRest /\ holds[session_id].open => in_transaction

\* execute.c:428: SQL_ATTR_CURRENT_CATALOG stays truthful (track_context takes
\* all that follows the first USE DATABASE of a request for its name).
CatalogTruthful ==
    AtRest /\ result = "ok" /\ ~scope_pending => catalog = holds[session_id].database
=============================================================================
