--------------------------- MODULE SessionProtocol ---------------------------
(***************************************************************************)
(* One connection and the engine session behind it: proto.c, with the      *)
(* calls that drive it (connect.c, run_sql in execute.c). A call is        *)
(* synchronous and holds the connection until it returns; between its      *)
(* requests the engine may lose the session, and any answer may be lost.   *)
(*                                                                         *)
(* `pc` says where the running call is:                                    *)
(*   "idle"       no call is running                                       *)
(*   "scope"      in apply_scope, at statement `at` of the scope           *)
(*   "statement"  fl_proto_execute_as is at its own statement              *)
(*   "release"    in fl_proto_release                                      *)
(* With nothing on the wire the driver is about to send; with a request or *)
(* its answer on the wire it is inside fl_http_post.                       *)
(***************************************************************************)
EXTENDS Statements

CONSTANTS
    SessionIds,     \* the ids the engine can give a session
    NoSession,      \* session_id == NULL
    Requests,       \* what the application may execute: sequences of AppKinds
    DsnScopes,      \* what a DSN may name: sets drawn from "database", "schema"
    MayBeOlder,     \* whether the engine may predate newSession
    MaxLate         \* bound: requests given up on that may still reach the engine

ASSUME NoSessionAssumption == NoSession \notin SessionIds
ASSUME RequestsAssumption == Requests \subseteq Seq(AppKinds) \ {<<>>}
ASSUME DsnScopesAssumption == DsnScopes \subseteq SUBSET {"database", "schema"}
ASSUME MayBeOlderAssumption == MayBeOlder \in BOOLEAN
ASSUME MaxLateAssumption == MaxLate \in Nat

VARIABLES
    \* fl_dbc
    connected, session_id, tracks_sessions, session_dirty, in_transaction,
    scope_pending, autocommit,
    scope,          \* scope_database and scope_schema: which of them are named
    catalog,        \* dbc->database, as the database the name resolves to
    \* the running call: where it is, what it runs, and its locals
    pc, op, sql, stage, at, restarted, second,
    result,         \* what the last call told the application
    \* between driver and engine
    wire, late,
    \* the engine
    live, holds, tracking,
    \* history, read by the properties only
    ran, posts, txn_home, ctx_home, doubtful, orphans, calm

dbcVars == <<connected, session_id, tracks_sessions, session_dirty, in_transaction,
             scope_pending, autocommit, scope, catalog>>
callVars == <<pc, op, sql, stage, at, restarted, second, result>>
engineVars == <<live, holds, tracking>>
historyVars == <<ran, posts, txn_home, ctx_home, doubtful, orphans, calm>>
vars == <<dbcVars, callVars, wire, late, engineVars, historyVars>>

------------------------------------------------------------------------------
\* Data

Ops == {"connect", "exec", "endtran", "autocommit", "catalog", "disconnect"}
LostResults == {"lost_transaction", "lost_context", "lost_again"}
Results == LostResults \cup {"none", "ok", "refused", "link"}

Texts == Requests \cup {<<kind>> : kind \in Kinds}

OptionalId == SessionIds \cup {NoSession}

NoMessage == [type |-> "none"]
RequestMessages == [type : {"request"}, sql : Texts, session : OptionalId, require : BOOLEAN]
ReleaseMessages == [type : {"release"}, session : SessionIds]
\* kind "gone" is the 404 without a session; "refused" may name one or not.
AnswerMessages == [type : {"answer"}, kind : {"ok", "refused", "gone", "released"},
                   session : OptionalId, reports : BOOLEAN, started : BOOLEAN]
Messages == {NoMessage} \cup RequestMessages \cup ReleaseMessages \cup AnswerMessages

\* Slip: the schema goes on first, and USE DATABASE takes it off again.
ScopeSchemaFirst(named, auto) ==
    (IF "schema" \in named THEN <<"use_schema">> ELSE <<>>)
    \o (IF "database" \in named THEN <<"use_database">> ELSE <<>>)
    \o (IF auto THEN <<>> ELSE <<"manual">>)

\* Slip: the commit mode is not part of the scope.
ScopeWithoutCommitMode(named, auto) ==
    (IF "database" \in named THEN <<"use_database">> ELSE <<>>)
    \o (IF "schema" \in named THEN <<"use_schema">> ELSE <<>>)

\* Slip: the schema goes on twice, a fourth statement for an array of three.
ScopeSchemaTwice(named, auto) ==
    (IF "database" \in named THEN <<"use_database">> ELSE <<>>)
    \o (IF "schema" \in named THEN <<"use_schema", "use_schema">> ELSE <<>>)
    \o (IF auto THEN <<>> ELSE <<"manual">>)

\* The statements that put a connection on its scope, in apply_scope and in
\* do_connect alike: the database before the schema, the commit mode last.
ScopeOf(named, auto) ==
    (IF "database" \in named THEN <<"use_database">> ELSE <<>>)
    \o (IF "schema" \in named THEN <<"use_schema">> ELSE <<>>)
    \o (IF auto THEN <<>> ELSE <<"manual">>)

ScopeList == ScopeOf(scope, autocommit)

DsnCatalog == IF "database" \in scope THEN "dsn" ELSE "none"

\* FL_EXEC_TRACKED and FL_EXEC_RECOVER, as the callers pass them.
NotesStatements(o) == o \in {"exec", "endtran", "catalog"}
Recovers(o) == o # "connect"

Requesting == wire.type = "request"
Answered(kind) == wire.type = "answer" /\ wire.kind = kind

------------------------------------------------------------------------------
\* What the driver does to its connection. Each operator below stands for one
\* static function of proto.c.

\* Slip: the catalog stays where the application had moved it.
ResetKeepingCatalog ==
    /\ session_dirty' = FALSE
    /\ in_transaction' = FALSE
    /\ scope_pending' = TRUE
    /\ UNCHANGED catalog

ResetSessionState ==
    /\ session_dirty' = FALSE
    /\ in_transaction' = FALSE
    /\ scope_pending' = TRUE
    /\ catalog' = DsnCatalog

\* Slip: the id of the lost session is kept.
ForgetAllButTheId == UNCHANGED session_id /\ ResetSessionState

ForgetSession == session_id' = NoSession /\ ResetSessionState

\* Slip: a lost transaction alone does not stop the statement going again.
LostContextOnly == session_dirty

\* Slip: a lost context alone does not stop the statement going again.
LostTransactionOnly == in_transaction

\* lose_session answers -1: the session held what a fresh one would not have.
LoseSessionFails == in_transaction \/ session_dirty

\* Slip: a scope lost part way goes on again every time.
SecondTimeForStatementOnly == pc = "statement" /\ (second \/ ~Recovers(op))

\* Slip: the statement goes out again after every 404.
SecondTimeForScopeOnly == (pc = "scope" /\ restarted) \/ (pc = "statement" /\ ~Recovers(op))

\* Not to be chased: the second 404 in a row, or a caller without recovery.
SecondTime ==
    \/ pc = "scope" /\ restarted
    \/ pc = "statement" /\ (second \/ ~Recovers(op))

\* absorb_session, for an answer that names a session: the engine replaced
\* ours when it says it started one although we had sent an id.
Replaced(answer) ==
    /\ answer.session # NoSession
    /\ answer.reports
    /\ answer.started
    /\ session_id # NoSession

IdAfter(answer) == IF answer.session = NoSession THEN session_id ELSE answer.session

TracksAfter(answer) ==
    IF answer.session = NoSession THEN tracks_sessions
    ELSE IF answer.reports THEN 1
    ELSE IF tracks_sessions < 0 THEN 0 ELSE tracks_sessions

AbsorbSession(answer) ==
    /\ session_id' = IdAfter(answer)
    /\ tracks_sessions' = TracksAfter(answer)

\* absorb_session followed by nothing that notes the statement.
AbsorbOnly(answer) ==
    /\ AbsorbSession(answer)
    /\ IF Replaced(answer)
       THEN ResetSessionState
       ELSE UNCHANGED <<session_dirty, in_transaction, scope_pending, catalog>>

\* Slip: every request with an id requires it.
RequireWithEveryId == session_id # NoSession

\* build_request_json: requireSession goes with the id, to an engine that
\* is known to understand it.
RequireSession == session_id # NoSession /\ tracks_sessions = 1

\* What one call may send: the scope and the statement, restarted each once.
\* `posts` counts to one more than that.
PostsAllowed == 4 * Len(ScopeList) + 2

Post(text) ==
    /\ wire' = [type |-> "request", sql |-> text, session |-> session_id,
                require |-> RequireSession]
    /\ posts' = IF posts > PostsAllowed THEN posts ELSE posts + 1

\* The call is over, or left with the release only: its locals go.
LocalsGone ==
    /\ sql' = <<>>
    /\ stage' = 0
    /\ at' = 1
    /\ restarted' = FALSE
    /\ second' = FALSE
    /\ posts' = 0

\* Slip: a connect that fails returns without releasing its session.
FailUnreleased(why) ==
    /\ result' = why
    /\ LocalsGone
    /\ connected' = (connected /\ op # "connect")
    /\ pc' = "idle"

\* Back to the application. do_connect releases what it had opened.
Fail(why) ==
    /\ result' = why
    /\ LocalsGone
    /\ IF op = "connect"
       THEN connected' = FALSE /\ pc' = "release"
       ELSE connected' = connected /\ pc' = "idle"

\* The start of fl_proto_execute_as.
Execute(text) ==
    /\ sql' = text
    /\ pc' = IF scope_pending THEN "scope" ELSE "statement"
    /\ at' = 1
    /\ restarted' = FALSE
    /\ second' = FALSE
    /\ ran' = 0

------------------------------------------------------------------------------
\* The application's calls

Begins(o, text) ==
    /\ pc = "idle"
    /\ connected
    /\ op' = o
    /\ Execute(text)
    /\ stage' = 0
    /\ result' = "none"
    /\ posts' = 0
    /\ calm' = (result \in LostResults)
    /\ UNCHANGED <<dbcVars, wire, late, engineVars, txn_home, ctx_home, doubtful, orphans>>

\* SQLExecDirect and SQLExecute
Exec == \E text \in Requests : Begins("exec", text)

SQLEndTran == Begins("endtran", <<"end">>)

\* SQLSetConnectAttr(SQL_ATTR_AUTOCOMMIT): setting what is already set, or
\* setting it before connecting, sends nothing.
SetAutocommit ==
    Begins("autocommit", IF autocommit THEN <<"manual">> ELSE <<"auto">>)

SetAutocommitUnconnected ==
    /\ pc = "idle"
    /\ ~connected
    /\ autocommit' = ~autocommit
    /\ UNCHANGED <<connected, session_id, tracks_sessions, session_dirty, in_transaction,
                   scope_pending, scope, catalog, callVars, wire, late, engineVars,
                   historyVars>>

\* SQLSetConnectAttr(SQL_ATTR_CURRENT_CATALOG)
SetCatalog == Begins("catalog", <<"use">>)

SetCatalogUnconnected ==
    /\ pc = "idle"
    /\ ~connected
    /\ catalog' = "app"
    /\ UNCHANGED <<connected, session_id, tracks_sessions, session_dirty, in_transaction,
                   scope_pending, autocommit, scope, callVars, wire, late, engineVars,
                   historyVars>>

\* do_connect up to its first statement: fl_proto_session_reset, and the
\* scope as the DSN names it. Without one there is nothing to send.
Connect(named) ==
    /\ pc = "idle"
    /\ ~connected
    /\ connected' = TRUE
    /\ session_id' = NoSession
    /\ tracks_sessions' = -1
    /\ session_dirty' = FALSE
    /\ in_transaction' = FALSE
    /\ scope_pending' = FALSE
    /\ scope' = named
    /\ op' = "connect"
    /\ posts' = 0
    /\ ran' = 0
    /\ calm' = FALSE
    /\ at' = 1
    /\ restarted' = FALSE
    /\ second' = FALSE
    /\ UNCHANGED <<autocommit, catalog, wire, late, engineVars, txn_home, ctx_home,
                   doubtful, orphans>>

ConnectWithoutScope ==
    \E named \in DsnScopes :
        /\ ScopeOf(named, autocommit) = <<>>
        /\ Connect(named)
        /\ pc' = "idle"
        /\ result' = "ok"
        /\ stage' = 0
        /\ sql' = <<>>

ConnectWithScope ==
    \E named \in DsnScopes :
        /\ ScopeOf(named, autocommit) # <<>>
        /\ Connect(named)
        /\ pc' = "statement"
        /\ result' = "none"
        /\ stage' = 1
        /\ sql' = <<Head(ScopeOf(named, autocommit))>>

\* The health probe fails, or is answered anything but 200.
ConnectUnreachable ==
    /\ pc = "idle"
    /\ ~connected
    /\ result' = "link"
    /\ calm' = FALSE
    /\ UNCHANGED <<dbcVars, pc, op, sql, stage, at, restarted, second, wire, late, engineVars,
                   ran, posts, txn_home, ctx_home, doubtful, orphans>>

SQLDisconnect ==
    /\ pc = "idle"
    /\ connected
    /\ connected' = FALSE
    /\ op' = "disconnect"
    /\ pc' = "release"
    /\ result' = "ok"
    /\ calm' = FALSE
    /\ txn_home' = NoSession
    /\ ctx_home' = NoSession
    /\ UNCHANGED <<session_id, tracks_sessions, session_dirty, in_transaction, scope_pending,
                   autocommit, scope, catalog, sql, stage, at, restarted, second, wire, late,
                   engineVars, ran, posts, doubtful, orphans>>

------------------------------------------------------------------------------
\* apply_scope

SendScope ==
    /\ pc = "scope"
    /\ wire = NoMessage
    /\ at <= Len(ScopeList)
    /\ Post(<<ScopeList[at]>>)
    /\ UNCHANGED <<dbcVars, callVars, late, engineVars, ran, txn_home, ctx_home, doubtful,
                   orphans, calm>>

ScopeAnswered ==
    /\ pc = "scope"
    /\ Answered("ok")
    /\ AbsorbOnly(wire)
    /\ at' = at + 1
    /\ wire' = NoMessage
    /\ UNCHANGED <<connected, autocommit, scope, pc, op, sql, stage, restarted, second, result,
                   late, engineVars, historyVars>>

ScopeApplied ==
    /\ pc = "scope"
    /\ wire = NoMessage
    /\ at > Len(ScopeList)
    /\ scope_pending' = FALSE
    /\ pc' = "statement"
    /\ UNCHANGED <<connected, session_id, tracks_sessions, session_dirty, in_transaction,
                   autocommit, scope, catalog, op, sql, stage, at, restarted, second, result,
                   wire, late, engineVars, historyVars>>

\* Lost part way with nothing to lose: the whole scope goes on again, once.
ScopeRestarts ==
    /\ pc = "scope"
    /\ Answered("gone")
    /\ ~SecondTime /\ ~LoseSessionFails
    /\ ForgetSession
    /\ restarted' = TRUE
    /\ at' = 1
    /\ wire' = NoMessage
    /\ UNCHANGED <<connected, tracks_sessions, autocommit, scope, pc, op, sql, stage, second,
                   result, late, engineVars, historyVars>>

------------------------------------------------------------------------------
\* fl_proto_execute_as, from its own statement on

SendStatement ==
    /\ pc = "statement"
    /\ wire = NoMessage
    /\ Post(sql)
    /\ UNCHANGED <<dbcVars, callVars, late, engineVars, ran, txn_home, ctx_home, doubtful,
                   orphans, calm>>

\* The 404 for a session that held nothing: scope and statement go once more.
StatementRestarts ==
    /\ pc = "statement"
    /\ Answered("gone")
    /\ ~SecondTime /\ ~LoseSessionFails
    /\ ForgetSession
    /\ second' = TRUE
    /\ pc' = "scope"
    /\ restarted' = FALSE
    /\ at' = 1
    /\ wire' = NoMessage
    /\ UNCHANGED <<connected, tracks_sessions, autocommit, scope, op, sql, stage, result,
                   late, engineVars, historyVars>>

\* The 404 that is reported, with what is said of it.
LostResult ==
    IF SecondTime THEN "lost_again"
    ELSE IF in_transaction THEN "lost_transaction" ELSE "lost_context"

ReportLost ==
    /\ pc \in {"scope", "statement"}
    /\ Answered("gone")
    /\ SecondTime \/ LoseSessionFails
    /\ ForgetSession
    /\ Fail(LostResult)
    /\ wire' = NoMessage
    /\ txn_home' = NoSession
    /\ ctx_home' = NoSession
    /\ UNCHANGED <<tracks_sessions, autocommit, scope, op, late, engineVars, ran, doubtful,
                   orphans, calm>>

\* An answer with an error message: to a statement of the scope it is reported
\* as the statement's own refusal.
Refused ==
    /\ pc \in {"scope", "statement"}
    /\ Answered("refused")
    /\ AbsorbOnly(wire)
    /\ Fail("refused")
    /\ wire' = NoMessage
    /\ UNCHANGED <<autocommit, scope, op, late, engineVars, ran, txn_home, ctx_home, doubtful,
                   orphans, calm>>

\* Success of a call other than a connect: absorb_session, then
\* fl_session_note, then what the caller does with the answer.
Succeeded ==
    /\ pc = "statement"
    /\ Answered("ok")
    /\ op # "connect"
    /\ AbsorbSession(wire)
    /\ scope_pending' = (scope_pending \/ Replaced(wire))
    /\ LET dirty == session_dirty /\ ~Replaced(wire)
           open == in_transaction /\ ~Replaced(wire)
       IN  IF NotesStatements(op)
           THEN /\ session_dirty' = NotedDirty(sql, dirty)
                /\ in_transaction' = NotedTransaction(sql, autocommit, open)
           ELSE session_dirty' = dirty /\ in_transaction' = open
    /\ LET was == IF Replaced(wire) THEN DsnCatalog ELSE catalog
       IN  catalog' = IF op \in {"exec", "catalog"} THEN TrackedCatalog(sql, was) ELSE was
    /\ autocommit' = (IF op = "autocommit" THEN sql = <<"auto">> ELSE autocommit)
    /\ pc' = "idle"
    /\ result' = "ok"
    /\ LocalsGone
    /\ wire' = NoMessage
    /\ IF NotesStatements(op) /\ wire.reports
       THEN /\ txn_home' = IF Uncommitted(sql, autocommit, txn_home # NoSession)
                           THEN wire.session ELSE NoSession
            /\ ctx_home' = IF Has(sql, "use") THEN wire.session ELSE ctx_home
       ELSE UNCHANGED <<txn_home, ctx_home>>
    /\ UNCHANGED <<connected, scope, op, late, engineVars, ran, doubtful, orphans, calm>>

\* Success of one of do_connect's statements: on to the next, or connected.
ConnectStatementSucceeded ==
    /\ pc = "statement"
    /\ Answered("ok")
    /\ op = "connect"
    /\ AbsorbSession(wire)
    /\ IF Replaced(wire)
       THEN session_dirty' = FALSE /\ in_transaction' = FALSE /\ scope_pending' = TRUE
       ELSE UNCHANGED <<session_dirty, in_transaction, scope_pending>>
    /\ catalog' = IF sql = <<"use_database">> \/ Replaced(wire) THEN DsnCatalog ELSE catalog
    /\ wire' = NoMessage
    /\ IF stage < Len(ScopeList)
       THEN /\ stage' = stage + 1
            /\ sql' = <<ScopeList[stage + 1]>>
            /\ pc' = IF scope_pending' THEN "scope" ELSE "statement"
            /\ at' = 1
            /\ restarted' = FALSE
            /\ second' = FALSE
            /\ UNCHANGED <<result, posts>>
       ELSE /\ pc' = "idle"
            /\ result' = "ok"
            /\ LocalsGone
    /\ UNCHANGED <<connected, autocommit, scope, op, late, engineVars, ran, txn_home, ctx_home,
                   doubtful, orphans, calm>>

------------------------------------------------------------------------------
\* fl_proto_release

MustRelease == session_id # NoSession /\ tracks_sessions = 1

SendRelease ==
    /\ pc = "release"
    /\ wire = NoMessage
    /\ MustRelease
    /\ wire' = [type |-> "release", session |-> session_id]
    /\ UNCHANGED <<dbcVars, callVars, late, engineVars, historyVars>>

Released ==
    /\ pc = "release"
    /\ \/ wire = NoMessage /\ ~MustRelease
       \/ Answered("released")
    /\ session_id' = NoSession
    /\ pc' = "idle"
    /\ wire' = NoMessage
    /\ UNCHANGED <<connected, tracks_sessions, session_dirty, in_transaction, scope_pending,
                   autocommit, scope, catalog, op, sql, stage, at, restarted, second, result,
                   late, engineVars, historyVars>>

------------------------------------------------------------------------------
\* The link fails, or answers nothing the driver can read: it cannot tell
\* whether the engine ran the request, will run it, or never got it.

Sets(text) == \E i \in DOMAIN text : text[i] \in SettingKinds

GivenUpText == IF pc = "scope" THEN <<ScopeList[at]>> ELSE sql

Abandoned ==
    {s \in live : \/ s = session_id /\ pc = "release"
                  \/ wire.type = "answer" /\ s = wire.session /\ s # session_id}

\* Slip: a statement without an answer is sent again.
SendAgainWithoutAnswer ==
    /\ pc = "statement"
    /\ wire # NoMessage
    /\ wire' = NoMessage
    /\ UNCHANGED <<dbcVars, callVars, late, engineVars, historyVars>>

GiveUp ==
    /\ wire # NoMessage
    /\ wire' = NoMessage
    /\ \/ late' = late
       \/ Requesting /\ Cardinality(late) < MaxLate /\ late' = late \cup {wire}
    /\ IF pc = "release"
       THEN /\ session_id' = NoSession
            /\ pc' = "idle"
            /\ LocalsGone
            /\ UNCHANGED <<connected, result>>
       ELSE Fail("link") /\ UNCHANGED session_id
    /\ orphans' = orphans \cup Abandoned
    /\ doubtful' = IF /\ pc # "release"
                      /\ session_id \in live
                      /\ \/ Sets(GivenUpText)
                         \/ tracks_sessions # 1
                   THEN doubtful \cup {session_id} ELSE doubtful
    /\ calm' = FALSE
    /\ UNCHANGED <<tracks_sessions, session_dirty, in_transaction, scope_pending, autocommit,
                   scope, catalog, op, engineVars, ran, txn_home, ctx_home>>

------------------------------------------------------------------------------
\* The engine (external)

\* An id nothing refers to any more can be given out again.
Referenced ==
    {session_id, txn_home, ctx_home} \cup {r.session : r \in late}
    \cup (IF wire.type = "answer" THEN {wire.session} ELSE {})
FreshIds == SessionIds \ (live \cup Referenced)

Refuses(request) ==
    /\ request.session \notin live \cup {NoSession}
    /\ tracking
    /\ request.require

\* Where the request runs: in the session it names, or in a fresh one, which
\* an engine that was not told to resume may start under the id it was sent.
RunsIn(request) ==
    IF request.session \in live THEN {request.session}
    ELSE FreshIds \cup ({request.session} \ {NoSession})

Runs(request, session, done) ==
    /\ live' = live \cup {session}
    /\ holds' = [holds EXCEPT ![session] =
                    After(IF session \in live THEN @ ELSE FreshSession,
                          SubSeq(request.sql, 1, done))]
    /\ UNCHANGED tracking

AppRequest == pc = "statement" /\ op # "connect"

\* The engine runs the request, or stops at a statement it refuses with the
\* ones before it done.
EngineRuns ==
    /\ Requesting
    /\ ~Refuses(wire)
    /\ \E session \in RunsIn(wire), done \in 0..Len(wire.sql) :
        /\ Runs(wire, session, done)
        /\ wire' = [type |-> "answer",
                    kind |-> IF done = Len(wire.sql) THEN "ok" ELSE "refused",
                    session |-> session, reports |-> tracking,
                    started |-> session \notin live]
        /\ calm' = (calm /\ done = Len(wire.sql))
    /\ ran' = IF AppRequest THEN ran + 1 ELSE ran
    /\ UNCHANGED <<dbcVars, callVars, late, posts, txn_home, ctx_home, doubtful, orphans>>

\* Refused before any session is looked at: the answer names none.
EngineRefuses ==
    /\ Requesting
    /\ wire' = [type |-> "answer", kind |-> IF Refuses(wire) THEN "gone" ELSE "refused",
                session |-> NoSession, reports |-> tracking, started |-> FALSE]
    /\ calm' = (calm /\ Refuses(wire))
    /\ UNCHANGED <<dbcVars, callVars, late, engineVars, ran, posts, txn_home, ctx_home,
                   doubtful, orphans>>

EngineReleases ==
    /\ wire.type = "release"
    /\ live' = live \ {wire.session}
    /\ holds' = [holds EXCEPT ![wire.session] = FreshSession]
    /\ orphans' = orphans \ {wire.session}
    /\ doubtful' = doubtful \ {wire.session}
    /\ wire' = [type |-> "answer", kind |-> "released", session |-> NoSession,
                reports |-> tracking, started |-> FALSE]
    /\ UNCHANGED <<dbcVars, callVars, late, tracking, ran, posts, txn_home, ctx_home, calm>>

\* Expiry, a release by someone else, or a restart seen by one session.
EngineLoses ==
    \E session \in live :
        /\ live' = live \ {session}
        /\ holds' = [holds EXCEPT ![session] = FreshSession]
        /\ orphans' = orphans \ {session}
        /\ doubtful' = doubtful \ {session}
        /\ calm' = FALSE
        /\ UNCHANGED <<dbcVars, callVars, wire, late, tracking, ran, posts, txn_home, ctx_home>>

\* An older engine is replaced by one that reports newSession.
EngineUpgraded ==
    /\ ~tracking
    /\ tracking' = TRUE
    /\ live' = {}
    /\ holds' = [s \in SessionIds |-> FreshSession]
    /\ orphans' = {}
    /\ doubtful' = {}
    /\ calm' = FALSE
    /\ UNCHANGED <<dbcVars, callVars, wire, late, ran, posts, txn_home, ctx_home>>

\* A request the driver gave up on reaches the engine after all, or never.
LateRequestRuns ==
    \E request \in late :
        /\ late' = late \ {request}
        /\ ~Refuses(request)
        /\ \E session \in RunsIn(request), done \in 0..Len(request.sql) :
            /\ Runs(request, session, done)
            /\ orphans' = IF session \in live THEN orphans ELSE orphans \cup {session}
            /\ doubtful' = IF session \in live /\ ~Sets(request.sql)
                           THEN doubtful ELSE doubtful \cup {session}
        /\ UNCHANGED <<dbcVars, callVars, wire, ran, posts, txn_home, ctx_home, calm>>

LateRequestDropped ==
    \E request \in late :
        /\ late' = late \ {request}
        /\ UNCHANGED <<dbcVars, callVars, wire, engineVars, historyVars>>

------------------------------------------------------------------------------
Init ==
    /\ connected = FALSE
    /\ session_id = NoSession
    /\ tracks_sessions = -1
    /\ session_dirty = FALSE
    /\ in_transaction = FALSE
    /\ scope_pending = FALSE
    /\ autocommit = TRUE
    /\ scope = {}
    /\ catalog = "none"
    /\ pc = "idle"
    /\ op = "disconnect"
    /\ sql = <<>>
    /\ stage = 0
    /\ at = 1
    /\ restarted = FALSE
    /\ second = FALSE
    /\ result = "none"
    /\ wire = NoMessage
    /\ late = {}
    /\ live = {}
    /\ holds = [s \in SessionIds |-> FreshSession]
    /\ tracking \in {TRUE, ~MayBeOlder}
    /\ ran = 0
    /\ posts = 0
    /\ txn_home = NoSession
    /\ ctx_home = NoSession
    /\ doubtful = {}
    /\ orphans = {}
    /\ calm = FALSE

Application ==
    \/ Exec \/ SQLEndTran \/ SetAutocommit \/ SetAutocommitUnconnected
    \/ SetCatalog \/ SetCatalogUnconnected
    \/ ConnectWithoutScope \/ ConnectWithScope \/ ConnectUnreachable \/ SQLDisconnect

Driver ==
    \/ SendScope \/ ScopeAnswered \/ ScopeApplied \/ ScopeRestarts
    \/ SendStatement \/ StatementRestarts \/ ReportLost \/ Refused
    \/ Succeeded \/ ConnectStatementSucceeded
    \/ SendRelease \/ Released

Engine ==
    \/ EngineRuns \/ EngineRefuses \/ EngineReleases \/ EngineLoses \/ EngineUpgraded
    \/ LateRequestRuns \/ LateRequestDropped

Next == Application \/ Driver \/ GiveUp \/ Engine

Spec == Init /\ [][Next]_vars

\* The driver runs on until it waits, and it waits for an answer no longer
\* than the socket's timeout: the engine need do nothing for the call to return.
FairSpec == Spec /\ WF_vars(Driver) /\ WF_vars(GiveUp)
=============================================================================
