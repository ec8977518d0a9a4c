--------------------------- MODULE SessionRecovery ----------------------------
(***************************************************************************)
(* What a lost session leaves behind, proved for every instance of         *)
(* SessionProtocol: a connection that is usable and whose catalog is the   *)
(* one its scope names, a bounded number of requests, no session of an     *)
(* engine that has DELETE left for it to sweep, and statements that still  *)
(* run on the connection's scope.                                          *)
(***************************************************************************)
EXTENDS RefinementProofs

\* The engine's steps leave alone what the driver keeps.
LEMMA EngineLeavesDriver ==
    ASSUME Engine
    PROVE  UNCHANGED dbcVars /\ UNCHANGED callVars /\ UNCHANGED posts
BY DEF Engine, EngineRuns, EngineRefuses, EngineReleases, EngineLoses, EngineUpgraded,
       LateRequestRuns, LateRequestDropped, historyVars

\* So do the steps that put a request on the wire.
Sends == SendScope \/ SendStatement \/ SendRelease

LEMMA SendsLeavesDriver ==
    ASSUME Sends
    PROVE  UNCHANGED dbcVars /\ UNCHANGED callVars /\ UNCHANGED engineVars
           /\ UNCHANGED <<late, txn_home, ctx_home, orphans, calm>>
           /\ wire = NoMessage /\ wire'.type # "answer"
BY DEF Sends, SendScope, SendStatement, SendRelease, Post, historyVars

\* Nothing but a setting of a connection that is not there.
SetsUnconnected == SetAutocommitUnconnected \/ SetCatalogUnconnected

LEMMA SetsUnconnectedShape ==
    ASSUME SetsUnconnected
    PROVE  /\ pc = "idle" /\ ~connected /\ UNCHANGED callVars /\ UNCHANGED <<wire, late>>
           /\ UNCHANGED engineVars /\ UNCHANGED historyVars
           /\ UNCHANGED <<connected, session_id, tracks_sessions, scope_pending>>
BY DEF SetsUnconnected, SetAutocommitUnconnected, SetCatalogUnconnected

Connects == ConnectWithoutScope \/ ConnectWithScope

\* The ways a step can be made, by what it is for.
LEMMA Steps ==
    ASSUME [Next]_vars
    PROVE  \/ CallsBegin \/ SetsUnconnected \/ Connects \/ ConnectUnreachable \/ SQLDisconnect
           \/ Sends \/ ScopeAnswered \/ ScopeApplied \/ ScopeRestarts \/ StatementRestarts
           \/ ReportLost \/ Refused \/ Succeeded \/ ConnectStatementSucceeded \/ Released
           \/ GiveUp \/ Engine \/ UNCHANGED vars
BY DEF Next, Application, CallsBegin, SetsUnconnected, Connects, Driver, Sends

------------------------------------------------------------------------------
\* CatalogFollowsLoss

\* A statement is under way only once the scope has gone on.
CatalogInv ==
    /\ pc = "statement" => ~scope_pending
    /\ CatalogFollowsLoss

LEMMA CatalogInit == Init => CatalogInv
BY DEF Init, CatalogInv, CatalogFollowsLoss

\* A request that leaves the catalog somewhere else leaves the session dirty.
LEMMA TrackedIsDirty ==
    ASSUME NEW text \in Texts, NEW was, NEW dirty, TrackedCatalog(text, was) # was
    PROVE  NotedDirty(text, dirty)
<1>1. text[1] = "use"
  BY DEF TrackedCatalog
<1>2. 1 \in DOMAIN text
  BY TextsShape
<1>3. QED
  BY <1>1, <1>2 DEF NotedDirty, TouchesSession

LEMMA CatalogStep == TypeInv /\ CatalogInv /\ [Next]_vars => CatalogInv'
<1> SUFFICES ASSUME TypeOK, CallShape, CatalogInv, [Next]_vars PROVE CatalogInv'
  BY DEF TypeInv
<1> USE DEF CatalogInv, CatalogFollowsLoss
<1>1. CASE CallsBegin
  <2>1. PICK o \in Ops, text \in Texts : Begins(o, text)
    BY <1>1, CallsBeginShape
  <2>2. QED
    BY <2>1 DEF Begins, Execute, dbcVars, DsnCatalog
<1>2. CASE SetsUnconnected
  BY <1>2, SetsUnconnectedShape DEF callVars
<1>3. CASE Connects
  <2>1. PICK named : Connect(named)
    BY <1>3, ConnectShape DEF Connects
  <2>2. QED
    BY <2>1 DEF Connect
<1>4. CASE ConnectUnreachable \/ SQLDisconnect
  BY <1>4 DEF ConnectUnreachable, SQLDisconnect, dbcVars, DsnCatalog
<1>5. CASE Sends \/ Engine
  <2>1. UNCHANGED dbcVars /\ UNCHANGED callVars
    BY <1>5, SendsLeavesDriver, EngineLeavesDriver
  <2>2. QED
    BY <2>1 DEF dbcVars, callVars, DsnCatalog
<1>6. CASE ScopeAnswered
  <2>1. AbsorbOnly(wire) /\ pc' = "scope" /\ UNCHANGED <<connected, scope>>
    BY <1>6 DEF ScopeAnswered
  <2>2. QED
    BY <2>1 DEF AbsorbOnly, ResetSessionState, DsnCatalog
<1>7. CASE ScopeApplied
  BY <1>7 DEF ScopeApplied
<1>8. CASE ScopeRestarts \/ StatementRestarts
  <2>1. pc' = "scope" /\ catalog' = DsnCatalog /\ scope' = scope
    BY <1>8 DEF ScopeRestarts, StatementRestarts, ForgetSession, ResetSessionState
  <2>2. QED
    BY <2>1 DEF DsnCatalog
<1>9. CASE ReportLost
  <2>1. pc' \in {"idle", "release"} /\ catalog' = DsnCatalog /\ scope' = scope
    BY <1>9 DEF ReportLost, Fail, ForgetSession, ResetSessionState
  <2>2. QED
    BY <2>1 DEF DsnCatalog
<1>10. CASE Refused
  <2>1. AbsorbOnly(wire) /\ pc' \in {"idle", "release"} /\ (connected' => connected)
        /\ scope' = scope
    BY <1>10 DEF Refused, Fail
  <2>2. QED
    BY <2>1 DEF AbsorbOnly, ResetSessionState, DsnCatalog
<1>11. CASE Succeeded
  <2>1. pc' = "idle" /\ pc = "statement" /\ UNCHANGED <<connected, scope>> /\ sql \in Texts
    BY <1>11 DEF Succeeded, CallShape
  <2>2. scope_pending' = (scope_pending \/ Replaced(wire))
    BY <1>11 DEF Succeeded
  <2>3. CASE ~Replaced(wire)
    BY <2>1, <2>2, <2>3
  <2>4. CASE Replaced(wire)
    <3>1. catalog' = (IF op \in {"exec", "catalog"} THEN TrackedCatalog(sql, DsnCatalog)
                      ELSE DsnCatalog)
      BY <1>11, <2>4 DEF Succeeded
    <3>2. op \in {"exec", "catalog"} => session_dirty' = NotedDirty(sql, FALSE)
      BY <1>11, <2>4 DEF Succeeded, NotesStatements
    <3>3. ~session_dirty' => catalog' = DsnCatalog
      BY <2>1, <3>1, <3>2, TrackedIsDirty
    <3>4. QED
      BY <2>1, <3>3 DEF DsnCatalog
  <2>5. QED
    BY <2>3, <2>4
<1>12. CASE ConnectStatementSucceeded
  <2>1. pc = "statement" /\ UNCHANGED <<connected, scope>>
        /\ (pc' = "statement" => ~scope_pending')
    BY <1>12 DEF ConnectStatementSucceeded
  <2>2. ~Replaced(wire) => scope_pending' = scope_pending
    BY <1>12 DEF ConnectStatementSucceeded
  <2>3. Replaced(wire) => catalog' = DsnCatalog
    BY <1>12 DEF ConnectStatementSucceeded
  <2>4. QED
    BY <2>1, <2>2, <2>3 DEF DsnCatalog
<1>13. CASE Released
  BY <1>13 DEF Released, DsnCatalog
<1>14. CASE GiveUp
  <2>1. pc' \in {"idle", "release"} /\ (connected' => connected)
        /\ UNCHANGED <<scope_pending, session_dirty, catalog, scope>>
    BY <1>14 DEF GiveUp, Fail
  <2>2. QED
    BY <2>1 DEF DsnCatalog
<1>15. CASE UNCHANGED vars
  BY <1>15 DEF vars, dbcVars, callVars, DsnCatalog
<1>16. QED
  BY <1>1, <1>2, <1>3, <1>4, <1>5, <1>6, <1>7, <1>8, <1>9, <1>10, <1>11, <1>12, <1>13,
     <1>14, <1>15, Steps

\* For every engine and application: the catalog the connection names follows
\* the session when it is lost or replaced, whatever a request that ran in the
\* new one made of it (reset_session_state, proto.c:156-164, and absorb_session).
THEOREM CatalogFollows == Spec => []CatalogFollowsLoss
<1>1. Init => TypeInv /\ CatalogInv
  BY InitType, CatalogInit
<1>2. TypeInv /\ CatalogInv /\ [Next]_vars => (TypeInv /\ CatalogInv)'
  BY TypeInvStep, CatalogStep
<1>3. CatalogInv => CatalogFollowsLoss
  BY DEF CatalogInv
<1>4. QED
  BY <1>1, <1>2, <1>3, PTL DEF Spec

------------------------------------------------------------------------------
\* UsableAfterLoss

\* A session reported lost is forgotten, so that the next call starts a fresh
\* one: its request names none, and no engine refuses that.
LostForgotten ==
    pc = "idle" /\ connected /\ result \in LostResults => session_id = NoSession

CalmCall ==
    calm => /\ connected /\ pc # "release" /\ op # "connect"
            /\ pc \in {"scope", "statement"} =>
                   /\ session_id \in live \cup {NoSession}
                   /\ wire.type = "answer" => wire.kind = "ok" /\ wire.session \in live

UsableInv == LostForgotten /\ CalmCall /\ UsableAfterLoss

LEMMA UsableInit == Init => UsableInv
BY DEF Init, UsableInv, LostForgotten, CalmCall, UsableAfterLoss, LostResults

\* A call that begins after a loss has no session yet.
LEMMA UsableBegins == TypeInv /\ HomesInv /\ UsableInv /\ CallsBegin => UsableInv'
<1> SUFFICES ASSUME TypeOK, CallShape, UsableInv, CallsBegin PROVE UsableInv'
  BY DEF TypeInv
<1>1. PICK o \in Ops, text \in Texts : Begins(o, text) /\ o # "connect"
  BY DEF CallsBegin, Exec, SQLEndTran, SetAutocommit, SetCatalog, Texts, Ops, Kinds,
         AppKinds, DriverKinds
<1>2. /\ pc = "idle" /\ connected /\ connected' /\ pc' \in {"scope", "statement"}
      /\ op' # "connect" /\ session_id' = session_id /\ result' = "none"
      /\ calm' = (result \in LostResults) /\ wire' = NoMessage
  BY <1>1 DEF Begins, Execute, dbcVars, CallShape
<1>3. LostForgotten' /\ UsableAfterLoss'
  BY <1>2 DEF LostForgotten, UsableAfterLoss, LostResults
<1>4. CalmCall'
  BY <1>2 DEF CalmCall, UsableInv, LostForgotten, NoMessage
<1>5. QED
  BY <1>3, <1>4 DEF UsableInv

\* While nothing goes wrong the engine holds the session it is asked for, and
\* answers from one it holds.
LEMMA UsableEngine == TypeInv /\ HomesInv /\ UsableInv /\ Engine => UsableInv'
<1> SUFFICES ASSUME TypeOK, CallShape, HomesInv, UsableInv, Engine PROVE UsableInv'
  BY DEF TypeInv
<1>1. UNCHANGED <<connected, session_id, pc, op, result>>
  BY EngineLeavesDriver DEF dbcVars, callVars
<1>2. CASE EngineRuns
  <2>1. PICK session \in RunsIn(wire), done \in 0..Len(wire.sql) :
            /\ live' = live \cup {session}
            /\ wire' = [type |-> "answer",
                        kind |-> IF done = Len(wire.sql) THEN "ok" ELSE "refused",
                        session |-> session, reports |-> tracking,
                        started |-> session \notin live]
            /\ calm' = (calm /\ done = Len(wire.sql))
    BY <1>2 DEF EngineRuns, Runs
  <2>2. calm' => wire'.kind = "ok" /\ wire'.session \in live' /\ calm
    BY <2>1
  <2>3. QED
    BY <1>1, <2>1, <2>2 DEF UsableInv, LostForgotten, CalmCall, UsableAfterLoss
<1>3. CASE EngineRefuses
  <2>1. Requesting /\ calm' = (calm /\ Refuses(wire)) /\ live' = live
    BY <1>3 DEF EngineRefuses, engineVars
  <2>2. pc \in {"scope", "statement"} /\ wire.session = session_id
    BY <2>1 DEF HomesInv, WireFollowsCall, ResumedOrRefused
  <2>3. calm => ~Refuses(wire)
    BY <2>2 DEF UsableInv, CalmCall, Refuses
  <2>4. QED
    BY <1>1, <2>1, <2>3 DEF UsableInv, LostForgotten, CalmCall, UsableAfterLoss
<1>4. CASE EngineReleases
  <2>1. pc = "release" /\ calm' = calm
    BY <1>4 DEF EngineReleases, HomesInv, WireFollowsCall
  <2>2. QED
    BY <1>1, <2>1 DEF UsableInv, LostForgotten, CalmCall, UsableAfterLoss
<1>5. CASE EngineLoses \/ EngineUpgraded
  <2>1. calm' = FALSE
    BY <1>5 DEF EngineLoses, EngineUpgraded
  <2>2. QED
    BY <1>1, <2>1 DEF UsableInv, LostForgotten, CalmCall, UsableAfterLoss
<1>6. CASE LateRequestRuns \/ LateRequestDropped
  <2>1. live \subseteq live' /\ wire' = wire /\ calm' = calm
    BY <1>6 DEF LateRequestRuns, LateRequestDropped, Runs, engineVars, historyVars
  <2>2. QED
    BY <1>1, <2>1 DEF UsableInv, LostForgotten, CalmCall, UsableAfterLoss
<1>7. QED
  BY <1>2, <1>3, <1>4, <1>5, <1>6 DEF Engine

LEMMA UsableStep == TypeInv /\ HomesInv /\ UsableInv /\ [Next]_vars => UsableInv'
<1> SUFFICES ASSUME TypeInv, TypeOK, CallShape, HomesInv, UsableInv, [Next]_vars
             PROVE  UsableInv'
  BY DEF TypeInv
<1>0. LostForgotten /\ CalmCall /\ UsableAfterLoss /\ HeldByConnection
  BY DEF UsableInv, HomesInv
<1> USE DEF LostForgotten, CalmCall, UsableAfterLoss
<1>1. CASE CallsBegin \/ Engine
  BY <1>1, UsableBegins, UsableEngine
<1>2. CASE SetsUnconnected
  BY <1>0, <1>2, SetsUnconnectedShape DEF callVars, historyVars, UsableInv
<1>3. CASE Connects
  <2>1. PICK named : Connect(named) /\ result' \in {"ok", "none"}
    BY <1>3, ConnectShape DEF Connects, TypeInv
  <2>2. QED
    BY <2>1 DEF Connect, LostResults, UsableInv
<1>4. CASE ConnectUnreachable \/ SQLDisconnect
  BY <1>0, <1>4 DEF ConnectUnreachable, SQLDisconnect, dbcVars, UsableInv
<1>5. CASE Sends
  BY <1>0, <1>5, SendsLeavesDriver DEF dbcVars, callVars, engineVars, UsableInv
<1>6. CASE ScopeAnswered
  <2>1. AbsorbSession(wire) /\ wire' = NoMessage /\ Answered("ok")
        /\ UNCHANGED <<connected, pc, op, result, live, calm>>
    BY <1>6 DEF ScopeAnswered, AbsorbOnly, engineVars, historyVars
  <2>2. pc = "scope"
    BY <1>6 DEF ScopeAnswered
  <2>3. session_id' = IdAfter(wire)
    BY <2>1 DEF AbsorbSession
  <2>4. calm => session_id' \in live \cup {NoSession}
    BY <1>0, <2>1, <2>2, <2>3 DEF Answered, IdAfter
  <2>5. QED
    BY <1>0, <2>1, <2>2, <2>4 DEF NoMessage, UsableInv
<1>7. CASE ScopeApplied
  BY <1>0, <1>7 DEF ScopeApplied, engineVars, historyVars, NoMessage, UsableInv
<1>8. CASE ScopeRestarts \/ StatementRestarts
  <2>1. session_id' = NoSession /\ calm' = calm /\ pc' = "scope" /\ Answered("gone")
        /\ pc \in {"scope", "statement"}
    BY <1>8 DEF ScopeRestarts, StatementRestarts, ForgetSession, historyVars
  <2>2. ~calm
    BY <1>0, <2>1 DEF Answered
  <2>3. QED
    BY <2>1, <2>2 DEF UsableInv
<1>9. CASE ReportLost
  <2>1. session_id' = NoSession /\ calm' = calm /\ Answered("gone")
        /\ pc \in {"scope", "statement"}
    BY <1>9 DEF ReportLost, ForgetSession
  <2>2. ~calm
    BY <1>0, <2>1 DEF Answered
  <2>3. QED
    BY <2>1, <2>2 DEF UsableInv
<1>10. CASE Refused
  <2>1. calm' = calm /\ result' = "refused" /\ Answered("refused")
        /\ pc \in {"scope", "statement"}
    BY <1>10 DEF Refused, Fail
  <2>2. ~calm
    BY <1>0, <2>1 DEF Answered
  <2>3. QED
    BY <2>1, <2>2 DEF LostResults, UsableInv
<1>11. CASE Succeeded
  BY <1>0, <1>11 DEF Succeeded, LostResults, UsableInv
<1>12. CASE ConnectStatementSucceeded
  <2>1. calm' = calm /\ op = "connect"
        /\ (result' = "ok" \/ (pc' # "idle" /\ result' = result))
    BY <1>12 DEF ConnectStatementSucceeded
  <2>2. QED
    BY <1>0, <2>1 DEF LostResults, UsableInv
<1>13. CASE Released
  <2>1. pc = "release" /\ connected' = connected /\ calm' = calm
    BY <1>13 DEF Released, historyVars
  <2>2. QED
    BY <1>0, <2>1 DEF HeldByConnection, UsableInv
<1>14. CASE GiveUp
  <2>1. CASE pc = "release"
    BY <1>0, <1>14, <2>1 DEF GiveUp, HeldByConnection, UsableInv
  <2>2. CASE pc # "release"
    <3>1. calm' = FALSE /\ result' = "link"
      BY <1>14, <2>2 DEF GiveUp, Fail
    <3>2. QED
      BY <3>1 DEF LostResults, UsableInv
  <2>3. QED
    BY <2>1, <2>2
<1>15. CASE UNCHANGED vars
  BY <1>0, <1>15 DEF vars, dbcVars, callVars, engineVars, historyVars, UsableInv
<1>16. QED
  BY <1>1, <1>2, <1>3, <1>4, <1>5, <1>6, <1>7, <1>8, <1>9, <1>10, <1>11, <1>12, <1>13,
     <1>14, <1>15, Steps

\* For every engine and application: the call after one that reported its
\* session lost succeeds, unless something new goes wrong during it (README,
\* "Either way the connection stays usable"; lose_session, proto.c:184-193).
THEOREM UsableAgain == Spec => []UsableAfterLoss
<1>1. Init => TypeInv /\ HomesInv /\ UsableInv
  BY InitType, HomesInit, UsableInit
<1>2. TypeInv /\ HomesInv /\ UsableInv /\ [Next]_vars => (TypeInv /\ HomesInv /\ UsableInv)'
  BY HomesStep, UsableStep
<1>3. UsableInv => UsableAfterLoss
  BY DEF UsableInv
<1>4. QED
  BY <1>1, <1>2, <1>3, PTL DEF Spec

------------------------------------------------------------------------------
\* RequestsBounded

Waiting == IF wire = NoMessage THEN 0 ELSE 1

\* What has gone out since the scope was last begun, once restarted or not.
ScopePosts == (IF restarted THEN Len(ScopeList) ELSE 0) + (at - 1) + Waiting

\* A statement that went again had a scope, twice at most, and itself before.
FirstTime == IF second THEN 2 * Len(ScopeList) + 1 ELSE 0

CallBudget ==
    /\ pc = "scope" => posts <= FirstTime + ScopePosts
    /\ pc = "statement" => posts <= FirstTime + 2 * Len(ScopeList) + Waiting

\* A connect goes through the scope statement by statement; the session it
\* opened is replaced at most once, by an engine that had not shown before
\* that it tracks sessions, and then the whole scope goes on in between.
ConnectBudget ==
    /\ stage \in 1..Len(ScopeList)
    /\ pc = "scope" => tracks_sessions = 1 /\ posts <= stage - 1 + ScopePosts
    /\ pc = "statement" =>
           posts <= stage - 1 + (IF tracks_sessions = 1 THEN 2 * Len(ScopeList) ELSE 0)
                    + Waiting

Budget ==
    /\ pc \in {"idle", "release"} => posts = 0
    /\ pc = "scope" => at <= Len(ScopeList) + 1
    /\ pc \in {"scope", "statement"} =>
           IF op = "connect" THEN ConnectBudget ELSE CallBudget

LEMMA BudgetInit == Init => Budget
BY DEF Init, Budget

\* The numbers the budget is made of.
LEMMA BudgetTypes ==
    ASSUME TypeOK
    PROVE  /\ Len(ScopeList) \in Nat /\ Len(ScopeList) <= 3 /\ posts \in Nat
           /\ at \in 1..4 /\ stage \in 0..3 /\ Waiting \in {0, 1}
           /\ restarted \in BOOLEAN /\ second \in BOOLEAN /\ tracks_sessions \in {-1, 0, 1}
<1>0. Len(ScopeList) \in 0..3
  BY ScopeListShape
<1>1. Len(ScopeList) \in Nat /\ Len(ScopeList) <= 3
  BY <1>0
<1>2. /\ posts \in Nat /\ at \in 1..4 /\ stage \in 0..3
      /\ restarted \in BOOLEAN /\ second \in BOOLEAN /\ tracks_sessions \in {-1, 0, 1}
  BY DEF TypeOK, DbcType, CallType, PlaceType, HistoryType
<1>3. Waiting \in {0, 1}
  BY DEF Waiting
<1>4. QED
  BY <1>1, <1>2, <1>3

\* The budget is enough for the bound.
LEMMA BudgetBounds == TypeInv /\ Budget => RequestsBounded
<1> SUFFICES ASSUME TypeOK, Budget PROVE posts <= 4 * Len(ScopeList) + 2
  BY DEF TypeInv, RequestsBounded, PostsAllowed
<1> DEFINE n == Len(ScopeList)
<1>1. /\ n \in Nat /\ posts \in Nat /\ at \in Nat /\ stage \in Nat /\ Waiting \in {0, 1}
      /\ restarted \in BOOLEAN /\ second \in BOOLEAN
  BY BudgetTypes
<1>2. FirstTime \in Nat /\ FirstTime <= 2 * n + 1
  BY <1>1 DEF FirstTime
<1>3. pc = "scope" => ScopePosts <= 2 * n + 1
  BY <1>1 DEF ScopePosts, Budget
<1>4. pc \in {"idle", "release", "scope", "statement"} /\ ScopePosts \in Int
  BY <1>1 DEF TypeOK, CallType, ScopePosts
<1> HIDE DEF n
<1>5. CASE pc \in {"idle", "release"}
  BY <1>1, <1>5 DEF Budget, n
<1>6. CASE pc \in {"scope", "statement"} /\ op # "connect"
  <2>1. CallBudget
    BY <1>6 DEF Budget
  <2>2. QED
    BY <1>1, <1>2, <1>3, <1>4, <1>6, <2>1 DEF CallBudget, n
<1>7. CASE pc \in {"scope", "statement"} /\ op = "connect"
  <2>1. ConnectBudget
    BY <1>7 DEF Budget
  <2>2. stage <= n
    BY <2>1 DEF ConnectBudget, n
  <2>3. QED
    BY <1>1, <1>3, <1>4, <1>7, <2>1, <2>2 DEF ConnectBudget, n
<1>8. QED
  BY <1>4, <1>5, <1>6, <1>7

\* A step that sends nothing, within a call.
LEMMA BudgetUnmoved ==
    ASSUME Budget, UNCHANGED <<pc, op, stage, at, restarted, second, scope, autocommit, posts>>,
           tracks_sessions' = tracks_sessions, wire' = NoMessage <=> wire = NoMessage
    PROVE  Budget'
<1>1. ScopeList' = ScopeList
  BY DEF ScopeList
<1>2. Waiting' = Waiting
  BY DEF Waiting
<1>3. FirstTime' = FirstTime /\ ScopePosts' = ScopePosts
  BY <1>1, <1>2 DEF FirstTime, ScopePosts
<1>4. QED
  BY <1>1, <1>2, <1>3 DEF Budget, CallBudget, ConnectBudget

\* A call that is over, or left with the release only.
LEMMA BudgetOver ==
    ASSUME pc' \in {"idle", "release"}, posts' = 0 PROVE Budget'
BY DEF Budget

\* A scope of no statements is the empty one.
LEMMA ScopeOfEmpty ==
    ASSUME NEW named \in SUBSET {"database", "schema"}, NEW auto \in BOOLEAN,
           Len(ScopeOf(named, auto)) = 0
    PROVE  ScopeOf(named, auto) = <<>>
<1> DEFINE D == IF "database" \in named THEN <<"use_database">> ELSE <<>>
           S == IF "schema" \in named THEN <<"use_schema">> ELSE <<>>
           M == IF auto THEN <<>> ELSE <<"manual">>
<1>1. ScopeOf(named, auto) = D \o S \o M
  BY DEF ScopeOf
<1>2. /\ D \in {<<>>, <<"use_database">>}
      /\ S \in {<<>>, <<"use_schema">>}
      /\ M \in {<<>>, <<"manual">>}
  OBVIOUS
<1> HIDE DEF D, S, M
<1>3. ScopeOf(named, auto) \in Seq(Kinds)
  BY <1>1, <1>2 DEF Kinds, DriverKinds
<1>4. \A s \in Seq(Kinds) : Len(s) = 0 => s = <<>>
  OBVIOUS
<1>5. QED
  BY <1>3, <1>4

LEMMA BudgetConnects == TypeInv /\ Connects => Budget'
<1> SUFFICES ASSUME TypeOK, CallShape, Connects PROVE Budget'
  BY DEF TypeInv
<1>1. CASE ConnectWithoutScope
  BY <1>1, BudgetOver DEF ConnectWithoutScope, Connect
<1>2. CASE ConnectWithScope
  <2>1. PICK named \in DsnScopes :
            /\ ScopeOf(named, autocommit) # <<>>
            /\ Connect(named) /\ pc' = "statement" /\ stage' = 1
    BY <1>2 DEF ConnectWithScope
  <2>2. ScopeList' = ScopeOf(named, autocommit) /\ wire' = NoMessage /\ op' = "connect"
        /\ posts' = 0 /\ tracks_sessions' = -1
    BY <2>1 DEF Connect, ScopeList, CallShape
  <2>3. Len(ScopeList') \in 1..3
    <3>1. named \in SUBSET {"database", "schema"} /\ autocommit \in BOOLEAN
      BY DsnScopesAssumption DEF TypeOK, DbcType
    <3>2. Len(ScopeList') \in 0..3
      BY <2>2, <3>1, ScopeOfShape
    <3>3. Len(ScopeOf(named, autocommit)) # 0
      BY <2>1, <3>1, ScopeOfEmpty
    <3>4. Len(ScopeList') # 0
      BY <2>2, <3>3
    <3>5. QED
      BY <3>2, <3>4
  <2>4. QED
    BY <2>1, <2>2, <2>3 DEF Budget, ConnectBudget, Waiting
<1>3. QED
  BY <1>1, <1>2 DEF Connects

LEMMA BudgetSends == TypeInv /\ Budget /\ (SendScope \/ SendStatement) => Budget'
<1> SUFFICES ASSUME TypeOK, Budget, SendScope \/ SendStatement PROVE Budget'
  BY DEF TypeInv
<1>1. UNCHANGED <<pc, op, stage, at, restarted, second, scope, autocommit, tracks_sessions>>
  BY DEF SendScope, SendStatement, dbcVars, callVars
<1>2. wire = NoMessage /\ wire' # NoMessage /\ posts' \in {posts, posts + 1}
      /\ pc \in {"scope", "statement"}
  BY DEF SendScope, SendStatement, Post, NoMessage
<1>3. Waiting = 0 /\ Waiting' = 1
  BY <1>2 DEF Waiting
<1>4. ScopeList' = ScopeList /\ FirstTime' = FirstTime
  BY <1>1 DEF ScopeList, FirstTime
<1>5. Len(ScopeList) \in Nat /\ posts \in Nat /\ at \in Nat /\ stage \in Nat
  BY BudgetTypes
<1>6. ScopePosts \in Int /\ ScopePosts' = ScopePosts + 1 /\ FirstTime \in Nat
  BY <1>1, <1>3, <1>4, <1>5 DEF ScopePosts, FirstTime
<1>7. CASE op = "connect"
  <2>1. ConnectBudget
    BY <1>2, <1>7 DEF Budget
  <2>2. ConnectBudget'
    BY <1>1, <1>2, <1>3, <1>4, <1>5, <1>6, <2>1 DEF ConnectBudget
  <2>3. QED
    BY <1>1, <1>2, <1>4, <1>7, <2>2 DEF Budget
<1>8. CASE op # "connect"
  <2>1. CallBudget
    BY <1>2, <1>8 DEF Budget
  <2>2. CallBudget'
    BY <1>1, <1>2, <1>3, <1>4, <1>5, <1>6, <2>1 DEF CallBudget
  <2>3. QED
    BY <1>1, <1>2, <1>4, <1>8, <2>2 DEF Budget
<1>9. QED
  BY <1>7, <1>8

\* While the scope goes on: one statement of it answered, all of it, or begun
\* again.
LEMMA BudgetScope ==
    TypeInv /\ HomesInv /\ Budget /\ (ScopeAnswered \/ ScopeApplied \/ ScopeRestarts) => Budget'
<1> SUFFICES ASSUME TypeOK, CallShape, HomesInv, Budget,
                    ScopeAnswered \/ ScopeApplied \/ ScopeRestarts
             PROVE  Budget'
  BY DEF TypeInv
<1>1. pc = "scope" /\ wire' = NoMessage /\ UNCHANGED <<op, stage, second, scope, autocommit, posts>>
  BY DEF ScopeAnswered, ScopeApplied, ScopeRestarts, historyVars, NoMessage
<1>2. ScopeList' = ScopeList /\ FirstTime' = FirstTime /\ Waiting' = 0
  BY <1>1 DEF ScopeList, FirstTime, Waiting
<1>3. Len(ScopeList) \in Nat /\ posts \in Nat /\ at \in 1..4 /\ stage \in Nat
      /\ restarted \in BOOLEAN
  BY BudgetTypes
<1>4. at \in Nat /\ at <= Len(ScopeList) + 1 /\ FirstTime \in Nat
  BY <1>1, <1>3 DEF Budget, FirstTime
<1>5. CASE ScopeAnswered
  <2>1. at <= Len(ScopeList) /\ Waiting = 1
    BY <1>5 DEF ScopeAnswered, Answered, NoMessage, CallShape, Waiting
  <2>2. pc' = "scope" /\ at' = at + 1 /\ restarted' = restarted /\ wire.type = "answer"
        /\ tracks_sessions' = TracksAfter(wire)
    BY <1>5 DEF ScopeAnswered, AbsorbOnly, AbsorbSession, Answered
  <2>3. ScopePosts' = ScopePosts
    BY <1>2, <1>3, <1>4, <2>1, <2>2 DEF ScopePosts
  <2>4. tracks_sessions = 1 => tracks_sessions' = 1
    BY <2>2 DEF TracksAfter
  <2>5. QED
    BY <1>1, <1>2, <1>3, <1>4, <2>1, <2>2, <2>3, <2>4
       DEF Budget, CallBudget, ConnectBudget
<1>6. CASE ScopeApplied
  <2>1. at > Len(ScopeList) /\ wire = NoMessage /\ pc' = "statement"
        /\ UNCHANGED <<tracks_sessions>>
    BY <1>6 DEF ScopeApplied
  <2>2. Waiting = 0 /\ at - 1 = Len(ScopeList)
    BY <1>3, <1>4, <2>1 DEF Waiting
  <2>3. ScopePosts <= 2 * Len(ScopeList) /\ ScopePosts \in Int
    BY <1>3, <2>2 DEF ScopePosts
  <2>4. CASE op = "connect"
    <3>1. ConnectBudget
      BY <1>1, <2>4 DEF Budget
    <3>2. ConnectBudget'
      BY <1>1, <1>2, <1>3, <2>1, <2>3, <3>1 DEF ConnectBudget
    <3>3. QED
      BY <1>1, <2>1, <2>4, <3>2 DEF Budget
  <2>5. CASE op # "connect"
    <3>1. CallBudget
      BY <1>1, <2>5 DEF Budget
    <3>2. CallBudget'
      BY <1>1, <1>2, <1>3, <1>4, <2>1, <2>3, <3>1 DEF CallBudget
    <3>3. QED
      BY <1>1, <2>1, <2>5, <3>2 DEF Budget
  <2>6. QED
    BY <2>4, <2>5
<1>7. CASE ScopeRestarts
  <2>1. ~restarted /\ restarted' /\ at' = 1 /\ pc' = "scope" /\ Waiting = 1
        /\ tracks_sessions' = tracks_sessions /\ at <= Len(ScopeList)
    BY <1>1, <1>7 DEF ScopeRestarts, SecondTime, Answered, NoMessage, Waiting, CallShape
  <2>2. ScopePosts = at /\ ScopePosts' = Len(ScopeList)
    BY <1>2, <1>3, <1>4, <2>1 DEF ScopePosts
  <2>3. QED
    BY <1>1, <1>2, <1>3, <1>4, <2>1, <2>2 DEF Budget, CallBudget, ConnectBudget
<1>8. QED
  BY <1>5, <1>6, <1>7

\* The 404 for the statement itself: once more, scope and all.
LEMMA BudgetAgain == TypeInv /\ Budget /\ StatementRestarts => Budget'
<1> SUFFICES ASSUME TypeOK, Budget, StatementRestarts PROVE Budget'
  BY DEF TypeInv
<1>1. /\ pc = "statement" /\ pc' = "scope" /\ ~second /\ second' /\ ~restarted' /\ at' = 1
      /\ op # "connect" /\ op' = op /\ wire' = NoMessage /\ wire # NoMessage
      /\ UNCHANGED <<scope, autocommit, posts>>
  BY DEF StatementRestarts, SecondTime, Recovers, Answered, NoMessage, historyVars
<1>2. ScopeList' = ScopeList /\ Waiting = 1 /\ Waiting' = 0
  BY <1>1 DEF ScopeList, Waiting
<1>3. Len(ScopeList) \in Nat /\ posts \in Nat
  BY BudgetTypes
<1>4. FirstTime = 0 /\ FirstTime' = 2 * Len(ScopeList) + 1 /\ ScopePosts' = 0
  BY <1>1, <1>2, <1>3 DEF FirstTime, ScopePosts
<1>5. CallBudget
  BY <1>1 DEF Budget
<1>6. posts' <= FirstTime' + ScopePosts'
  BY <1>1, <1>2, <1>3, <1>4, <1>5 DEF CallBudget
<1>7. QED
  BY <1>1, <1>2, <1>3, <1>6 DEF Budget, CallBudget

\* Only an engine the driver did not yet know to track sessions replaces one.
LEMMA ReplacedByUnknown ==
    ASSUME HomesInv, pc \in {"scope", "statement"}, wire.type = "answer", Replaced(wire)
    PROVE  tracks_sessions # 1 /\ TracksAfter(wire) = 1
BY DEF HomesInv, ResumedOrRefused, RequireSession, Replaced, TracksAfter

LEMMA BudgetConnectStatement ==
    TypeInv /\ HomesInv /\ CatalogInv /\ Budget /\ ConnectStatementSucceeded => Budget'
<1> SUFFICES ASSUME TypeOK, HomesInv, CatalogInv, Budget, ConnectStatementSucceeded
             PROVE  Budget'
  BY DEF TypeInv
<1>1. /\ pc = "statement" /\ op = "connect" /\ op' = op /\ Answered("ok")
      /\ wire' = NoMessage /\ UNCHANGED <<scope, autocommit>>
      /\ tracks_sessions' = TracksAfter(wire)
  BY DEF ConnectStatementSucceeded, AbsorbSession
<1>2. CASE stage >= Len(ScopeList)
  <2>1. ~(stage < Len(ScopeList))
    BY <1>2, BudgetTypes
  <2>2. QED
    BY <2>1, BudgetOver DEF ConnectStatementSucceeded, LocalsGone
<1>3. CASE stage < Len(ScopeList)
  <2>1. /\ stage' = stage + 1 /\ pc' = (IF scope_pending' THEN "scope" ELSE "statement")
        /\ at' = 1 /\ restarted' = FALSE /\ second' = FALSE /\ posts' = posts
    BY <1>3 DEF ConnectStatementSucceeded
  <2>2. scope_pending' => Replaced(wire)
    BY <1>1 DEF ConnectStatementSucceeded, CatalogInv
  <2>3. ScopeList' = ScopeList /\ Waiting = 1 /\ Waiting' = 0
    BY <1>1 DEF ScopeList, Waiting, Answered, NoMessage
  <2>4. Len(ScopeList) \in Nat /\ posts \in Nat /\ stage \in Nat
    BY BudgetTypes
  <2>5. ScopePosts' = 0
    BY <2>1, <2>3, <2>4 DEF ScopePosts
  <2>6. ConnectBudget
    BY <1>1 DEF Budget
  <2>7. tracks_sessions = 1 => tracks_sessions' = 1
    BY <1>1 DEF TracksAfter
  <2>8. Replaced(wire) => tracks_sessions # 1 /\ tracks_sessions' = 1
    BY <1>1, ReplacedByUnknown DEF Answered
  <2>9. stage' \in 1..Len(ScopeList)
    BY <1>3, <2>1, <2>4
  <2>10. CASE scope_pending'
    <3>1. posts' <= stage' - 1
      BY <1>1, <2>1, <2>2, <2>3, <2>4, <2>6, <2>8, <2>10 DEF ConnectBudget
    <3>2. QED
      BY <1>1, <2>1, <2>2, <2>3, <2>4, <2>5, <2>8, <2>9, <2>10, <3>1
         DEF Budget, ConnectBudget
  <2>11. CASE ~scope_pending'
    <3>1. posts' <= stage' - 1 + (IF tracks_sessions' = 1 THEN 2 * Len(ScopeList) ELSE 0)
      BY <1>1, <2>1, <2>3, <2>4, <2>6, <2>7 DEF ConnectBudget
    <3>2. QED
      BY <1>1, <2>1, <2>3, <2>4, <2>9, <2>11, <3>1 DEF Budget, ConnectBudget
  <2>12. QED
    BY <2>10, <2>11
<1>4. QED
  BY <1>2, <1>3, BudgetTypes

LEMMA BudgetStep ==
    TypeInv /\ HomesInv /\ CatalogInv /\ Budget /\ [Next]_vars => Budget'
<1> SUFFICES ASSUME TypeInv, TypeOK, CallShape, HomesInv, CatalogInv, Budget, [Next]_vars
             PROVE  Budget'
  BY DEF TypeInv
<1>1. CASE CallsBegin
  <2>1. PICK o \in Ops, text \in Texts : Begins(o, text) /\ o # "connect"
    BY <1>1 DEF CallsBegin, Exec, SQLEndTran, SetAutocommit, SetCatalog, Texts, Ops, Kinds,
                AppKinds, DriverKinds
  <2>2. /\ pc' \in {"scope", "statement"} /\ op' # "connect" /\ at' = 1 /\ ~restarted'
        /\ ~second' /\ posts' = 0 /\ wire' = NoMessage /\ ScopeList' = ScopeList
    BY <2>1 DEF Begins, Execute, dbcVars, ScopeList, CallShape
  <2>3. FirstTime' = 0 /\ ScopePosts' = 0 /\ Waiting' = 0 /\ Len(ScopeList) \in Nat
    BY <2>2, BudgetTypes DEF FirstTime, ScopePosts, Waiting
  <2>4. QED
    BY <2>2, <2>3 DEF Budget, CallBudget
<1>2. CASE SetsUnconnected
  BY <1>2, BudgetOver, SetsUnconnectedShape DEF callVars, historyVars, Budget
<1>3. CASE Connects
  BY <1>3, BudgetConnects
<1>4. CASE ConnectUnreachable \/ SQLDisconnect
  BY <1>4, BudgetOver DEF ConnectUnreachable, SQLDisconnect, Budget
<1>5. CASE Sends
  <2>1. CASE SendRelease
    BY <2>1, BudgetOver DEF SendRelease, callVars, historyVars, Budget
  <2>2. QED
    BY <1>5, <2>1, BudgetSends DEF Sends
<1>6. CASE ScopeAnswered \/ ScopeApplied \/ ScopeRestarts
  BY <1>6, BudgetScope
<1>7. CASE StatementRestarts
  BY <1>7, BudgetAgain
<1>8. CASE ReportLost \/ Refused
  BY <1>8, BudgetOver DEF ReportLost, Refused, Fail, LocalsGone
<1>9. CASE Succeeded
  BY <1>9, BudgetOver DEF Succeeded, LocalsGone
<1>10. CASE ConnectStatementSucceeded
  BY <1>10, BudgetConnectStatement
<1>11. CASE Released
  BY <1>11, BudgetOver DEF Released, historyVars, Budget
<1>12. CASE GiveUp
  BY <1>12, BudgetOver DEF GiveUp, Fail, LocalsGone
<1>13. CASE Engine
  <2>1. wire' = NoMessage <=> wire = NoMessage
    BY <1>13 DEF Engine, EngineRuns, EngineRefuses, EngineReleases, EngineLoses,
                 EngineUpgraded, LateRequestRuns, LateRequestDropped, Requesting, NoMessage
  <2>2. QED
    BY <1>13, <2>1, EngineLeavesDriver, BudgetUnmoved DEF dbcVars, callVars
<1>14. CASE UNCHANGED vars
  BY <1>14, BudgetUnmoved DEF vars, dbcVars, callVars, historyVars
<1>15. QED
  BY <1>1, <1>2, <1>3, <1>4, <1>5, <1>6, <1>7, <1>8, <1>9, <1>10, <1>11, <1>12, <1>13,
     <1>14, Steps

\* For every engine and application: one call sends its scope at most four times
\* and its statement at most twice, however often its session is lost
\* (the loop of fl_proto_execute_as, proto.c:409-447, and apply_scope).
THEOREM CallsBounded == Spec => []RequestsBounded
<1>1. Init => TypeInv /\ HomesInv /\ CatalogInv /\ Budget
  BY InitType, HomesInit, CatalogInit, BudgetInit
<1>2. TypeInv /\ HomesInv /\ CatalogInv /\ Budget /\ [Next]_vars
          => (TypeInv /\ HomesInv /\ CatalogInv /\ Budget)'
  BY HomesStep, CatalogStep, BudgetStep
<1>3. TypeInv /\ Budget => RequestsBounded
  BY BudgetBounds
<1>4. QED
  BY <1>1, <1>2, <1>3, PTL DEF Spec

------------------------------------------------------------------------------
\* NoSessionLeaked

\* A session the engine said to be gone or released does not come back under
\* its id: late requests require it, and fresh ids are given out of others.
GoneForGood ==
    /\ pc \in {"scope", "statement"} /\ Answered("gone") =>
           session_id \notin live /\ wire.session = NoSession
    /\ Answered("released") => session_id \notin live /\ wire.session = NoSession
    /\ wire.type = "release" => wire.session = session_id

LeakInv ==
    /\ GoneForGood
    /\ pc = "idle" /\ ~connected => session_id = NoSession
    /\ NoSessionLeaked

LEMMA LeakInit == Init => LeakInv
BY DEF Init, LeakInv, GoneForGood, NoSessionLeaked, Answered, NoMessage

\* An engine that is known to track sessions answers from the one it has.
LEMMA AnswersFromOwn ==
    ASSUME Inv, pc \in {"scope", "statement"}, wire.type = "answer",
           session_id # NoSession
    PROVE  wire.session \in {NoSession, session_id}
BY DEF Inv, RefinementInv, AlwaysTracked, HomesInv, ResumedOrRefused, RequireSession

\* An answer absorbed leaves no session behind.
LEMMA LeakAbsorbs ==
    ASSUME Inv, LeakInv, pc \in {"scope", "statement"}, wire.type = "answer",
           AbsorbSession(wire), wire' = NoMessage, UNCHANGED <<live, orphans>>,
           pc' = "idle" /\ ~connected' => FALSE
    PROVE  LeakInv'
<1>1. session_id' = IdAfter(wire) /\ NoSession \notin live
  BY NoSessionAssumption DEF AbsorbSession, Inv, TypeInv, TypeOK, EngineType
<1>2. live \subseteq {session_id, wire.session} \cup orphans
  BY DEF LeakInv, NoSessionLeaked
<1>3. live \subseteq {session_id'} \cup orphans
  <2>1. CASE wire.session = NoSession
    BY <1>1, <1>2, <2>1 DEF IdAfter
  <2>2. CASE wire.session # NoSession
    <3>1. session_id \in {NoSession, wire.session}
      BY <2>2, AnswersFromOwn
    <3>2. session_id' = wire.session
      BY <1>1, <2>2 DEF IdAfter
    <3>3. QED
      BY <1>1, <1>2, <3>1, <3>2
  <2>3. QED
    BY <2>1, <2>2
<1>4. QED
  BY <1>3 DEF LeakInv, GoneForGood, NoSessionLeaked, Answered, NoMessage

\* Forgetting a session that is gone leaves none behind.
LEMMA LeakForgets ==
    ASSUME Inv, LeakInv, session_id \notin live, wire.type = "answer" => wire.session = NoSession,
           session_id' = NoSession, wire' = NoMessage, UNCHANGED <<live, orphans>>
    PROVE  LeakInv'
<1>1. NoSession \notin live
  BY NoSessionAssumption DEF Inv, TypeInv, TypeOK, EngineType
<1>2. live \subseteq orphans
  BY <1>1 DEF LeakInv, NoSessionLeaked
<1>3. QED
  BY <1>2 DEF LeakInv, GoneForGood, NoSessionLeaked, Answered, NoMessage

\* A late request runs in a session the engine holds, or in one of its own.
LEMMA LateRunsElsewhere ==
    ASSUME Inv, NEW request \in late, ~Refuses(request), NEW session \in RunsIn(request),
           session \notin live
    PROVE  session \in FreshIds
BY DEF Inv, RefinementInv, AlwaysTracked, Refuses, RunsIn

LEMMA LeakEngine == Inv /\ LeakInv /\ Engine => LeakInv'
<1> SUFFICES ASSUME Inv, LeakInv, Engine PROVE LeakInv'
  OBVIOUS
<1>0. UNCHANGED <<session_id, pc, connected>>
  BY EngineLeavesDriver DEF dbcVars, callVars
<1>1. CASE EngineRuns
  <2>1. PICK session \in RunsIn(wire), done \in 0..Len(wire.sql) :
            /\ live' = live \cup {session}
            /\ wire' = [type |-> "answer",
                        kind |-> IF done = Len(wire.sql) THEN "ok" ELSE "refused",
                        session |-> session, reports |-> tracking,
                        started |-> session \notin live]
    BY <1>1 DEF EngineRuns, Runs
  <2>2. wire'.type = "answer" /\ wire'.kind \in {"ok", "refused"} /\ wire'.session = session
    BY <2>1
  <2>3. Requesting /\ orphans' = orphans
    BY <1>1 DEF EngineRuns
  <2>4. QED
    BY <1>0, <2>1, <2>2, <2>3 DEF LeakInv, GoneForGood, NoSessionLeaked, Answered, Requesting
<1>2. CASE EngineRefuses
  <2>1. Requesting /\ UNCHANGED <<live, orphans>>
    BY <1>2 DEF EngineRefuses, engineVars
  <2>2. wire'.type = "answer" /\ wire'.session = NoSession
        /\ wire'.kind \in {"gone", "refused"} /\ (wire'.kind = "gone" => Refuses(wire))
    <3>1. PICK kind \in {"gone", "refused"} :
              /\ wire' = [type |-> "answer", kind |-> kind, session |-> NoSession,
                          reports |-> tracking, started |-> FALSE]
              /\ kind = "gone" => Refuses(wire)
      BY <1>2 DEF EngineRefuses
    <3>2. QED
      BY <3>1
  <2>3. pc \in {"scope", "statement"} /\ wire.session = session_id
    BY <2>1 DEF Inv, HomesInv, WireFollowsCall, ResumedOrRefused
  <2>4. Refuses(wire) => session_id \notin live
    BY <2>3 DEF Refuses
  <2>5. QED
    BY <1>0, <2>1, <2>2, <2>4 DEF LeakInv, GoneForGood, NoSessionLeaked, Answered, Requesting
<1>3. CASE EngineReleases
  <2>1. /\ wire.type = "release" /\ live' = live \ {wire.session}
        /\ orphans' = orphans \ {wire.session}
        /\ wire'.type = "answer" /\ wire'.kind = "released" /\ wire'.session = NoSession
    BY <1>3 DEF EngineReleases
  <2>2. wire.session = session_id
    BY <2>1 DEF LeakInv, GoneForGood
  <2>3. QED
    BY <1>0, <2>1, <2>2 DEF LeakInv, GoneForGood, NoSessionLeaked, Answered
<1>4. CASE EngineLoses
  <2>1. PICK session \in live :
            live' = live \ {session} /\ orphans' = orphans \ {session} /\ wire' = wire
    BY <1>4 DEF EngineLoses
  <2>2. QED
    BY <1>0, <2>1 DEF LeakInv, GoneForGood, NoSessionLeaked, Answered
<1>5. CASE EngineUpgraded
  BY <1>5 DEF EngineUpgraded, Inv, RefinementInv, AlwaysTracked
<1>6. CASE LateRequestRuns
  <2>1. PICK request \in late :
            /\ ~Refuses(request)
            /\ \E session \in RunsIn(request), done \in 0..Len(request.sql) :
                /\ Runs(request, session, done)
                /\ orphans' = IF session \in live THEN orphans ELSE orphans \cup {session}
            /\ wire' = wire
    BY <1>6 DEF LateRequestRuns
  <2>2. PICK session \in RunsIn(request) :
            /\ live' = live \cup {session}
            /\ orphans' = IF session \in live THEN orphans ELSE orphans \cup {session}
    BY <2>1 DEF Runs
  <2>3. session \notin live => session # session_id
    BY <2>1, <2>2, LateRunsElsewhere DEF FreshIds, Referenced
  <2>4. session_id \notin live => session_id \notin live'
    BY <2>2, <2>3
  <2>5. QED
    BY <1>0, <2>1, <2>2, <2>4 DEF LeakInv, GoneForGood, NoSessionLeaked, Answered
<1>7. CASE LateRequestDropped
  BY <1>0, <1>7 DEF LateRequestDropped, engineVars, historyVars, LeakInv, GoneForGood,
                    NoSessionLeaked, Answered
<1>8. QED
  BY <1>1, <1>2, <1>3, <1>4, <1>5, <1>6, <1>7 DEF Engine

\* What is given up on is counted among the orphans.
LEMMA LeakGivesUp == Inv /\ LeakInv /\ GiveUp => LeakInv'
<1> SUFFICES ASSUME Inv, LeakInv, GiveUp PROVE LeakInv'
  OBVIOUS
<1>1. wire' = NoMessage /\ live' = live /\ orphans' = orphans \cup Abandoned
  BY DEF GiveUp, engineVars
<1>2. NoSession \notin live
  BY NoSessionAssumption DEF Inv, TypeInv, TypeOK, EngineType
<1>3. live \subseteq {session_id} \cup orphans'
  BY <1>1 DEF LeakInv, NoSessionLeaked, Abandoned
<1>4. CASE pc = "release"
  <2>1. session_id' = NoSession
    BY <1>4 DEF GiveUp
  <2>2. session_id \in live => session_id \in orphans'
    BY <1>1, <1>4 DEF Abandoned
  <2>3. QED
    BY <1>1, <1>3, <2>1, <2>2 DEF LeakInv, GoneForGood, NoSessionLeaked, Answered, NoMessage
<1>5. CASE pc # "release"
  <2>1. session_id' = session_id /\ (pc' = "idle" => connected' = connected)
    BY <1>5 DEF GiveUp, Fail
  <2>2. connected
    BY <1>5 DEF Inv, TypeInv, TypeOK, CallType, CallShape, GiveUp, HomesInv, HeldByConnection
  <2>3. QED
    BY <1>1, <1>3, <2>1, <2>2 DEF LeakInv, GoneForGood, NoSessionLeaked, Answered, NoMessage
<1>6. QED
  BY <1>4, <1>5

LEMMA LeakStep == Inv /\ LeakInv /\ [Next]_vars => LeakInv'
<1> SUFFICES ASSUME Inv, TypeOK, CallShape, HomesInv, LeakInv, [Next]_vars PROVE LeakInv'
  BY DEF Inv, TypeInv
<1> USE DEF LeakInv, GoneForGood, NoSessionLeaked, Answered
<1>1. CASE CallsBegin
  <2>1. PICK o \in Ops, text \in Texts : Begins(o, text)
    BY <1>1, CallsBeginShape
  <2>2. QED
    BY <2>1 DEF Begins, Execute, dbcVars, engineVars, CallShape, NoMessage
<1>2. CASE SetsUnconnected
  BY <1>2, SetsUnconnectedShape DEF engineVars, historyVars, callVars
<1>3. CASE Connects
  <2>1. PICK named : Connect(named) /\ wire = NoMessage
    BY <1>3, ConnectShape DEF Connects, Connect, CallShape
  <2>2. QED
    BY <2>1 DEF Connect, engineVars, NoMessage
<1>4. CASE ConnectUnreachable \/ SQLDisconnect
  BY <1>4 DEF ConnectUnreachable, SQLDisconnect, dbcVars, engineVars, CallShape, NoMessage
<1>5. CASE Sends
  <2>1. wire'.type = "release" => wire'.session = session_id
    BY <1>5 DEF Sends, SendScope, SendStatement, SendRelease, Post
  <2>2. QED
    BY <1>5, <2>1, SendsLeavesDriver DEF dbcVars, callVars, engineVars, NoMessage
<1>6. CASE ScopeAnswered \/ Refused \/ Succeeded \/ ConnectStatementSucceeded
  <2>1. /\ pc \in {"scope", "statement"} /\ wire.type = "answer" /\ AbsorbSession(wire)
        /\ wire' = NoMessage /\ UNCHANGED <<live, orphans>>
    BY <1>6 DEF ScopeAnswered, Refused, Succeeded, ConnectStatementSucceeded, AbsorbOnly,
                engineVars, historyVars
  <2>2. connected /\ (pc' = "idle" => connected' = connected)
    BY <1>6, <2>1 DEF ScopeAnswered, Refused, Succeeded, ConnectStatementSucceeded, Fail,
                      HomesInv, HeldByConnection
  <2>3. QED
    BY <2>1, <2>2, LeakAbsorbs
<1>7. CASE ScopeApplied
  BY <1>7 DEF ScopeApplied, engineVars, historyVars, NoMessage
<1>8. CASE ScopeRestarts \/ StatementRestarts \/ ReportLost
  <2>1. /\ pc \in {"scope", "statement"} /\ wire.type = "answer" /\ wire.kind = "gone"
        /\ session_id' = NoSession /\ wire' = NoMessage /\ UNCHANGED <<live, orphans>>
    BY <1>8 DEF ScopeRestarts, StatementRestarts, ReportLost, ForgetSession, engineVars,
                historyVars
  <2>2. session_id \notin live /\ wire.session = NoSession
    BY <2>1
  <2>3. QED
    BY <2>1, <2>2, LeakForgets
<1>9. CASE Released
  <2>1. session_id' = NoSession /\ wire' = NoMessage /\ UNCHANGED <<live, orphans>>
    BY <1>9 DEF Released, engineVars, historyVars
  <2>2. CASE wire = NoMessage /\ ~MustRelease
    <3>1. session_id = NoSession
      BY <2>2 DEF MustRelease, Inv, RefinementInv, AlwaysTracked
    <3>2. session_id \notin live
      BY <3>1, NoSessionAssumption DEF TypeOK, EngineType
    <3>3. QED
      BY <2>1, <2>2, <3>2, LeakForgets DEF NoMessage
  <2>3. CASE Answered("released")
    BY <2>1, <2>3, LeakForgets
  <2>4. QED
    BY <1>9, <2>2, <2>3 DEF Released
<1>10. CASE GiveUp \/ Engine
  BY <1>10, LeakGivesUp, LeakEngine
<1>11. CASE UNCHANGED vars
  BY <1>11 DEF vars, dbcVars, callVars, engineVars, historyVars
<1>12. QED
  BY <1>1, <1>2, <1>3, <1>4, <1>5, <1>6, <1>7, <1>8, <1>9, <1>10, <1>11, Steps

\* Whatever becomes of calls and connections, an engine that tracks sessions
\* is left holding none but the connection's, one on its way to it, and those
\* whose answer or release the link lost (fl_proto_release, proto.c:460-501).
THEOREM NothingLeaked == ASSUME MayBeOlder = FALSE PROVE Spec => []NoSessionLeaked
<1>1. Init => Inv /\ LeakInv
  BY InitType, HomesInit, OutcomeInit, RefinementInit, LeakInit DEF Inv
<1>2. Inv /\ LeakInv /\ [Next]_vars => (Inv /\ LeakInv)'
  BY InvStep, LeakStep
<1>3. LeakInv => NoSessionLeaked
  BY DEF LeakInv
<1>4. QED
  BY <1>1, <1>2, <1>3, PTL DEF Spec
------------------------------------------------------------------------------
(***************************************************************************)
(* RunsOnScope, older engines and late requests included: the sessions the *)
(* application's statements run in are on the scope of the connection, or  *)
(* where the application moved them. The invariant follows the scope       *)
(* through the engine's session statement by statement, whoever loses or   *)
(* replaces it meanwhile.                                                  *)
(***************************************************************************)

\* What statements do to a session

\* The statements of a scope, and where they stand in it.
LEMMA ScopeOfMembers ==
    ASSUME NEW named \in SUBSET {"database", "schema"}, NEW auto \in BOOLEAN,
           NEW i \in 1..Len(ScopeOf(named, auto))
    PROVE  /\ ScopeOf(named, auto)[i] \in {"use_database", "use_schema", "manual"}
           /\ ScopeOf(named, auto)[i] = "use_database" => i = 1 /\ "database" \in named
           /\ ScopeOf(named, auto)[i] = "use_schema" => "schema" \in named
           /\ ScopeOf(named, auto)[i] = "manual" => auto = FALSE
<1> DEFINE D == IF "database" \in named THEN <<"use_database">> ELSE <<>>
           S == IF "schema" \in named THEN <<"use_schema">> ELSE <<>>
           M == IF auto THEN <<>> ELSE <<"manual">>
<1>1. ScopeOf(named, auto) = D \o S \o M
  BY DEF ScopeOf
<1>2. /\ D = <<>> \/ (D = <<"use_database">> /\ "database" \in named)
      /\ S = <<>> \/ (S = <<"use_schema">> /\ "schema" \in named)
      /\ M = <<>> \/ (M = <<"manual">> /\ auto = FALSE)
  OBVIOUS
<1> HIDE DEF D, S, M
<1>3. QED
  BY <1>1, <1>2

\* A scope leaves nothing out.
LEMMA ScopeOfHasAll ==
    ASSUME NEW named \in SUBSET {"database", "schema"}, NEW auto \in BOOLEAN
    PROVE  /\ "database" \in named =>
                  \E i \in 1..Len(ScopeOf(named, auto)) : ScopeOf(named, auto)[i] = "use_database"
           /\ "schema" \in named =>
                  \E i \in 1..Len(ScopeOf(named, auto)) : ScopeOf(named, auto)[i] = "use_schema"
           /\ ~auto => \E i \in 1..Len(ScopeOf(named, auto)) : ScopeOf(named, auto)[i] = "manual"
<1> DEFINE D == IF "database" \in named THEN <<"use_database">> ELSE <<>>
           S == IF "schema" \in named THEN <<"use_schema">> ELSE <<>>
           M == IF auto THEN <<>> ELSE <<"manual">>
<1>1. ScopeOf(named, auto) = D \o S \o M
  BY DEF ScopeOf
<1>2. /\ D \in {<<>>, <<"use_database">>} /\ ("database" \in named => D = <<"use_database">>)
      /\ S \in {<<>>, <<"use_schema">>} /\ ("schema" \in named => S = <<"use_schema">>)
      /\ M \in {<<>>, <<"manual">>} /\ (~auto => M = <<"manual">>)
  OBVIOUS
<1> HIDE DEF D, S, M
<1>3. "database" \in named => 1 \in 1..Len(D \o S \o M) /\ (D \o S \o M)[1] = "use_database"
  BY <1>2, SMTT(30)
<1>4. "schema" \in named => LET i == Len(D) + 1
                            IN  i \in 1..Len(D \o S \o M) /\ (D \o S \o M)[i] = "use_schema"
  BY <1>2
<1>5. ~auto => LET i == Len(D) + Len(S) + 1
               IN  i \in 1..Len(D \o S \o M) /\ (D \o S \o M)[i] = "manual"
  BY <1>2
<1>6. QED
  BY <1>1, <1>3, <1>4, <1>5

InForce(session, kind) ==
    /\ kind = "use_database" => session.database = "dsn"
    /\ kind = "use_schema" => session.schema = "dsn"
    /\ kind = "manual" => ~session.auto

\* The first `count` statements of the scope, for this commit mode.
FirstInForce(session, auto, count) ==
    \A i \in 1..count : InForce(session, ScopeOf(scope, auto)[i])

\* A session has nothing of a scope that the connection's lacks.
NotBeyond(session, auto) ==
    /\ session.database = "dsn" => "database" \in scope
    /\ session.schema = "dsn" => "schema" \in scope
    /\ auto => session.auto

\* All of the scope is in force, said without its order.
LEMMA AllInForce ==
    ASSUME scope \in SUBSET {"database", "schema"}, NEW auto \in BOOLEAN,
           NEW session \in Sessions
    PROVE  FirstInForce(session, auto, Len(ScopeOf(scope, auto)))
           <=> /\ "database" \in scope => session.database = "dsn"
               /\ "schema" \in scope => session.schema = "dsn"
               /\ ~auto => ~session.auto
<1>1. ASSUME FirstInForce(session, auto, Len(ScopeOf(scope, auto)))
      PROVE  /\ "database" \in scope => session.database = "dsn"
             /\ "schema" \in scope => session.schema = "dsn"
             /\ ~auto => ~session.auto
  BY <1>1, ScopeOfHasAll DEF FirstInForce, InForce
<1>2. ASSUME /\ "database" \in scope => session.database = "dsn"
             /\ "schema" \in scope => session.schema = "dsn"
             /\ ~auto => ~session.auto
      PROVE  FirstInForce(session, auto, Len(ScopeOf(scope, auto)))
  BY <1>2, ScopeOfMembers DEF FirstInForce, InForce
<1>3. QED
  BY <1>1, <1>2

\* On scope: all of it in force, nothing beyond it, and not moved.
LEMMA InForceIsOnScope ==
    ASSUME TypeOK, NEW session \in Sessions, NotBeyond(session, autocommit),
           session.database # "app",
           FirstInForce(session, autocommit, Len(ScopeOf(scope, autocommit)))
    PROVE  OnScope(session)
<1>1. scope \in SUBSET {"database", "schema"} /\ autocommit \in BOOLEAN
  BY DEF TypeOK, DbcType
<1>2. /\ "database" \in scope => session.database = "dsn"
      /\ "schema" \in scope => session.schema = "dsn"
      /\ ~autocommit => ~session.auto
  BY <1>1, AllInForce
<1>3. session.database \in {"none", "dsn", "app"} /\ session.schema \in {"none", "dsn"}
      /\ session.auto \in BOOLEAN
  BY DEF Sessions, Databases
<1>4. session.database = DsnCatalog
  BY <1>2, <1>3 DEF NotBeyond, DsnCatalog
<1>5. session.schema = (IF "schema" \in scope THEN "dsn" ELSE "none")
  BY <1>2, <1>3 DEF NotBeyond
<1>6. session.auto = autocommit
  BY <1>1, <1>2, <1>3 DEF NotBeyond
<1>7. QED
  BY <1>4, <1>5, <1>6 DEF OnScope

\* The part of a text that was run holds no statement the text does not.
LEMMA PartHas ==
    ASSUME NEW S, NEW text \in Seq(S), NEW done \in 0..Len(text), NEW kind,
           Has(SubSeq(text, 1, done), kind)
    PROVE  Has(text, kind)
<1>1. DOMAIN SubSeq(text, 1, done) = 1..done
      /\ \A i \in 1..done : SubSeq(text, 1, done)[i] = text[i] /\ i \in DOMAIN text
  OBVIOUS
<1>2. QED
  BY <1>1 DEF Has

\* A request that sets nothing leaves the settings of its session.
LEMMA KeepsSettings ==
    ASSUME NEW session, NEW text \in Seq(Kinds), ~Sets(text), NEW done \in 0..Len(text),
           session.auto \in BOOLEAN
    PROVE  LET after == After(session, SubSeq(text, 1, done))
           IN  /\ after.database = session.database /\ after.schema = session.schema
               /\ after.auto = session.auto
<1>1. \A kind \in SettingKinds : ~Has(SubSeq(text, 1, done), kind)
  BY PartHas DEF Has, Sets
<1>2. QED
  BY <1>1 DEF After, SettingKinds, DriverKinds

\* The application's own statements move a session or leave its settings.
LEMMA AppMovesOrKeeps ==
    ASSUME NEW session, NEW text \in Seq(AppKinds), NEW done \in 0..Len(text),
           session.auto \in BOOLEAN
    PROVE  LET after == After(session, SubSeq(text, 1, done))
           IN  /\ after.auto = session.auto
               /\ \/ after.database = "app" /\ after.schema = "none"
                  \/ after.database = session.database /\ after.schema = session.schema
<1>1. \A kind : Has(SubSeq(text, 1, done), kind) => kind \in AppKinds
  BY PartHas DEF Has
<1>2. \A kind \in DriverKinds : ~Has(SubSeq(text, 1, done), kind)
  BY <1>1 DEF AppKinds, DriverKinds
<1>3. QED
  BY <1>2 DEF After, DriverKinds

\* A request of one statement runs or does not.
LEMMA OneRuns ==
    ASSUME NEW session, NEW kind, NEW done \in 0..1, session.auto \in BOOLEAN
    PROVE  LET after == After(session, SubSeq(<<kind>>, 1, done))
           IN  /\ done = 0 => /\ after.database = session.database
                              /\ after.schema = session.schema
                              /\ after.auto = session.auto
               /\ done = 1 =>
                    /\ after.database = (IF kind = "use" THEN "app"
                                         ELSE IF kind = "use_database" THEN "dsn"
                                         ELSE session.database)
                    /\ after.schema = (IF kind \in {"use", "use_database"} THEN "none"
                                       ELSE IF kind = "use_schema" THEN "dsn"
                                       ELSE session.schema)
                    /\ after.auto <=> (kind = "auto" \/ (session.auto /\ kind # "manual"))
<1>1. \A k : ~Has(SubSeq(<<kind>>, 1, 0), k)
  BY DEF Has
<1>2. \A k : Has(SubSeq(<<kind>>, 1, 1), k) <=> k = kind
  <2> DEFINE first == SubSeq(<<kind>>, 1, 1)
  <2>1. DOMAIN first = 1..1
    OBVIOUS
  <2>2. first[1] = kind
    OBVIOUS
  <2>3. 1..1 = {1}
    OBVIOUS
  <2> HIDE DEF first
  <2>4. \A k : Has(first, k) <=> k = kind
    BY <2>1, <2>2, <2>3 DEF Has
  <2>5. QED
    BY <2>4 DEF first
<1>3. done \in {0, 1}
  OBVIOUS
<1>4. QED
  BY <1>1, <1>2, <1>3 DEF After

\* A statement of the scope, run behind the ones before it, is in force with
\* them: the schema goes on behind the database, which would take it off.
LEMMA ScopeStatementRuns ==
    ASSUME scope \in SUBSET {"database", "schema"}, NEW auto \in BOOLEAN,
           NEW session \in Sessions, NEW place \in 1..Len(ScopeOf(scope, auto)),
           NEW done \in 0..1, NotBeyond(session, auto)
    PROVE  LET after == After(session, SubSeq(<<ScopeOf(scope, auto)[place]>>, 1, done))
           IN  /\ NotBeyond(after, auto)
               /\ /\ session.database # "app" => FirstInForce(session, auto, place - 1)
                  /\ after.database # "app"
                  => FirstInForce(after, auto, place - 1 + done)
<1> DEFINE L == ScopeOf(scope, auto)
           kind == L[place]
           after == After(session, SubSeq(<<kind>>, 1, done))
<1>1. session.auto \in BOOLEAN
  BY DEF Sessions
<1>2. /\ done = 0 => /\ after.database = session.database
                     /\ after.schema = session.schema
                     /\ after.auto = session.auto
      /\ done = 1 => /\ after.database = (IF kind = "use" THEN "app"
                                          ELSE IF kind = "use_database" THEN "dsn"
                                          ELSE session.database)
                     /\ after.schema = (IF kind \in {"use", "use_database"} THEN "none"
                                        ELSE IF kind = "use_schema" THEN "dsn"
                                        ELSE session.schema)
                     /\ after.auto <=> (kind = "auto" \/ (session.auto /\ kind # "manual"))
  BY <1>1, OneRuns
<1>3. /\ kind \in {"use_database", "use_schema", "manual"}
      /\ kind = "use_database" => place = 1 /\ "database" \in scope
      /\ kind = "use_schema" => "schema" \in scope
      /\ kind = "manual" => auto = FALSE
  BY ScopeOfMembers
<1>4. done \in {0, 1} /\ place \in Nat \ {0}
  BY ScopeOfShape
<1> HIDE DEF after, kind
<1>5. NotBeyond(after, auto)
  BY <1>2, <1>3, <1>4 DEF NotBeyond
<1>6. ASSUME session.database # "app" => FirstInForce(session, auto, place - 1),
             after.database # "app"
      PROVE  FirstInForce(after, auto, place - 1 + done)
  <2>1. CASE done = 0
    BY <1>2, <1>4, <1>6, <2>1 DEF FirstInForce, InForce
  <2>2. CASE done = 1
    <3>1. InForce(after, kind)
      BY <1>2, <1>3, <2>2 DEF InForce
    <3>2. ASSUME NEW i \in 1..(place - 1) PROVE InForce(after, L[i])
      <4>1. place # 1 /\ kind # "use_database"
        BY <1>3, <1>4
      <4>2. InForce(session, L[i])
        BY <1>2, <1>3, <1>6, <2>2, <4>1 DEF FirstInForce
      <4>3. QED
        BY <1>2, <1>3, <2>2, <4>1, <4>2 DEF InForce
    <3>3. \A i \in 1..place : i = place \/ i \in 1..(place - 1)
      BY <1>4
    <3>4. QED
      BY <1>4, <2>2, <3>1, <3>2, <3>3 DEF FirstInForce, kind
  <2>3. QED
    BY <1>4, <2>1, <2>2
<1>7. QED
  BY <1>5, <1>6 DEF after, kind

\* ALTER SESSION SET AUTOCOMMIT puts the session in the mode it names.
LEMMA ModeRuns ==
    ASSUME scope \in SUBSET {"database", "schema"}, NEW auto \in BOOLEAN,
           NEW session \in Sessions, NEW done \in 0..1,
           NotBeyond(session, auto)
    PROVE  LET sent == IF auto THEN <<"manual">> ELSE <<"auto">>
               after == After(session, SubSeq(sent, 1, done))
               mode == IF done = 1 THEN ~auto ELSE auto
           IN  /\ NotBeyond(after, mode)
               /\ after.database = session.database
               /\ \/ FirstInForce(session, auto, Len(ScopeOf(scope, auto)))
                  \/ scope = {} /\ auto
                  => FirstInForce(after, mode, Len(ScopeOf(scope, mode)))
<1> DEFINE kind == IF auto THEN "manual" ELSE "auto"
           after == After(session, SubSeq(<<kind>>, 1, done))
           mode == IF done = 1 THEN ~auto ELSE auto
<1>0. session.auto \in BOOLEAN /\ done \in {0, 1}
  BY DEF Sessions
<1>1. session.auto \in BOOLEAN /\ done \in {0, 1} /\ mode \in BOOLEAN
  BY <1>0
<1>1a. kind \in {"manual", "auto"}
  OBVIOUS
<1> HIDE DEF kind
<1>2. /\ after.database = session.database /\ after.schema = session.schema
      /\ done = 0 => after.auto = session.auto
      /\ done = 1 => (after.auto <=> kind = "auto")
  BY <1>1, <1>1a, OneRuns
<1>3. after \in Sessions
  BY AfterType
<1>4. (IF auto THEN <<"manual">> ELSE <<"auto">>) = <<kind>>
  BY DEF kind
<1>4a. kind = "auto" <=> ~auto
  BY DEF kind
<1> HIDE DEF after
<1>5. NotBeyond(after, mode)
  BY <1>1, <1>2, <1>4a DEF NotBeyond
<1>6. ASSUME \/ FirstInForce(session, auto, Len(ScopeOf(scope, auto)))
             \/ scope = {} /\ auto
      PROVE  FirstInForce(after, mode, Len(ScopeOf(scope, mode)))
  <2>1. /\ "database" \in scope => session.database = "dsn"
        /\ "schema" \in scope => session.schema = "dsn"
        /\ ~auto => ~session.auto
    BY <1>6, AllInForce
  <2>2. ~mode => ~after.auto
    BY <1>1, <1>2, <1>4a, <2>1
  <2>3. QED
    BY <1>1, <1>2, <1>3, <2>1, <2>2, AllInForce
<1>7. QED
  BY <1>2, <1>4, <1>5, <1>6 DEF after

\* The application's statements leave the scope in force, or move the session.
LEMMA AppRuns ==
    ASSUME NEW auto \in BOOLEAN, NEW session \in Sessions, NEW text \in Seq(AppKinds),
           NEW done \in 0..Len(text), NEW count, NotBeyond(session, auto)
    PROVE  LET after == After(session, SubSeq(text, 1, done))
           IN  /\ NotBeyond(after, auto)
               /\ after.database # "app" =>
                    /\ after.database = session.database
                    /\ FirstInForce(session, auto, count) => FirstInForce(after, auto, count)
<1> DEFINE after == After(session, SubSeq(text, 1, done))
<1>1. session.auto \in BOOLEAN
  BY DEF Sessions
<1>2. /\ after.auto = session.auto
      /\ \/ after.database = "app" /\ after.schema = "none"
         \/ after.database = session.database /\ after.schema = session.schema
  BY <1>1, AppMovesOrKeeps
<1> HIDE DEF after
<1>3. NotBeyond(after, auto)
  BY <1>2 DEF NotBeyond
<1>4. ASSUME after.database # "app"
      PROVE  /\ after.database = session.database
             /\ FirstInForce(session, auto, count) => FirstInForce(after, auto, count)
  BY <1>2, <1>4 DEF FirstInForce, InForce
<1>5. QED
  BY <1>3, <1>4 DEF after

------------------------------------------------------------------------------
\* What the driver knows of the session it has

\* An id comes with the knowledge of what engine gave it, a scope that has to
\* go on is that of an engine that tracks sessions, and success has a session.
KnownSession ==
    /\ tracks_sessions = -1 => session_id = NoSession
    /\ connected /\ scope_pending => tracks_sessions = 1
    /\ pc \in {"scope", "statement"} /\ Answered("gone") => tracks_sessions = 1
    /\ pc = "scope" => scope_pending
    /\ Answered("ok") => wire.session # NoSession

LEMMA KnownInit == Init => KnownSession
BY DEF Init, KnownSession, Answered, NoMessage

\* What absorbing an answer makes of it.
LEMMA AbsorbKnown ==
    ASSUME TypeOK, KnownSession, wire.type = "answer", AbsorbSession(wire)
    PROVE  /\ tracks_sessions' = -1 => session_id' = NoSession
           /\ tracks_sessions = 1 => tracks_sessions' = 1
           /\ Replaced(wire) => tracks_sessions' = 1
BY DEF TypeOK, DbcType, KnownSession, AbsorbSession, IdAfter, TracksAfter, Replaced

LEMMA KnownEngine == TypeInv /\ HomesInv /\ KnownSession /\ Engine => KnownSession'
<1> SUFFICES ASSUME TypeOK, CallShape, HomesInv, KnownSession, Engine PROVE KnownSession'
  BY DEF TypeInv
<1>1. UNCHANGED <<tracks_sessions, session_id, connected, scope_pending, pc>>
  BY EngineLeavesDriver DEF dbcVars, callVars
<1>2. CASE EngineRuns
  <2>1. PICK session \in RunsIn(wire), done \in 0..Len(wire.sql) :
            wire' = [type |-> "answer",
                     kind |-> IF done = Len(wire.sql) THEN "ok" ELSE "refused",
                     session |-> session, reports |-> tracking,
                     started |-> session \notin live]
    BY <1>2 DEF EngineRuns
  <2>2. session # NoSession
    BY <2>1, NoSessionAssumption DEF RunsIn, FreshIds, TypeOK, EngineType
  <2>3. wire'.kind # "gone" /\ wire'.session # NoSession
    BY <2>1, <2>2
  <2>4. QED
    BY <1>1, <2>3 DEF KnownSession, Answered
<1>3. CASE EngineRefuses
  <2>1. Requesting /\ (wire'.kind = "gone" => Refuses(wire)) /\ wire'.kind # "ok"
    <3>1. PICK kind \in {"gone", "refused"} :
              /\ wire' = [type |-> "answer", kind |-> kind, session |-> NoSession,
                          reports |-> tracking, started |-> FALSE]
              /\ kind = "gone" => Refuses(wire)
      BY <1>3 DEF EngineRefuses
    <3>2. QED
      BY <1>3, <3>1 DEF EngineRefuses
  <2>2. Refuses(wire) => tracks_sessions = 1
    BY <2>1 DEF Refuses, HomesInv, WireFollowsCall, ResumedOrRefused, RequireSession
  <2>3. QED
    BY <1>1, <2>1, <2>2 DEF KnownSession, Answered
<1>4. CASE EngineReleases
  BY <1>1, <1>4 DEF EngineReleases, KnownSession, Answered
<1>5. CASE EngineLoses \/ EngineUpgraded \/ LateRequestRuns \/ LateRequestDropped
  <2>1. wire' = wire
    BY <1>5 DEF EngineLoses, EngineUpgraded, LateRequestRuns, LateRequestDropped
  <2>2. QED
    BY <1>1, <2>1 DEF KnownSession, Answered
<1>6. QED
  BY <1>2, <1>3, <1>4, <1>5 DEF Engine

LEMMA KnownSessionStep ==
    TypeInv /\ HomesInv /\ CatalogInv /\ KnownSession /\ [Next]_vars => KnownSession'
<1> SUFFICES ASSUME TypeInv, TypeOK, CallShape, HomesInv, CatalogInv, KnownSession, [Next]_vars
             PROVE  KnownSession'
  BY DEF TypeInv
<1>0. /\ tracks_sessions = -1 => session_id = NoSession
      /\ connected /\ scope_pending => tracks_sessions = 1
      /\ pc = "scope" => scope_pending
  BY DEF KnownSession
<1> USE DEF Answered
<1>1. CASE CallsBegin
  <2>1. PICK o \in Ops, text \in Texts : Begins(o, text)
    BY <1>1, CallsBeginShape
  <2>2. QED
    BY <1>0, <2>1 DEF Begins, Execute, dbcVars, CallShape, NoMessage, KnownSession
<1>2. CASE SetsUnconnected
  BY <1>0, <1>2, SetsUnconnectedShape DEF callVars, KnownSession
<1>3. CASE Connects
  <2>1. PICK named : Connect(named) /\ pc' \in {"idle", "statement"}
    BY <1>3, ConnectShape DEF Connects, TypeInv
  <2>2. QED
    BY <2>1 DEF Connect, CallShape, NoMessage, KnownSession
<1>4. CASE ConnectUnreachable \/ SQLDisconnect
  BY <1>0, <1>4 DEF ConnectUnreachable, SQLDisconnect, dbcVars, KnownSession
<1>5. CASE Sends
  BY <1>0, <1>5, SendsLeavesDriver DEF dbcVars, callVars, KnownSession
<1>6. CASE ScopeAnswered \/ Refused
  <2>1. /\ wire.type = "answer" /\ AbsorbOnly(wire) /\ wire' = NoMessage
        /\ (connected' => connected) /\ (pc' = "scope" => pc = "scope")
    BY <1>6 DEF ScopeAnswered, Refused, Fail
  <2>2. /\ tracks_sessions' = -1 => session_id' = NoSession
        /\ tracks_sessions = 1 => tracks_sessions' = 1
        /\ Replaced(wire) => tracks_sessions' = 1
    BY <2>1, AbsorbKnown DEF AbsorbOnly
  <2>3. IF Replaced(wire) THEN scope_pending' = TRUE ELSE scope_pending' = scope_pending
    BY <2>1 DEF AbsorbOnly, ResetSessionState
  <2>4. QED
    BY <1>0, <2>1, <2>2, <2>3 DEF KnownSession, NoMessage
<1>7. CASE ScopeApplied
  BY <1>0, <1>7 DEF ScopeApplied, NoMessage, KnownSession
<1>8. CASE ScopeRestarts \/ StatementRestarts \/ ReportLost
  <2>1. /\ tracks_sessions = 1 /\ tracks_sessions' = tracks_sessions /\ scope_pending' = TRUE
        /\ wire' = NoMessage
    BY <1>8 DEF ScopeRestarts, StatementRestarts, ReportLost, ForgetSession,
                ResetSessionState, KnownSession
  <2>2. QED
    BY <2>1 DEF KnownSession, NoMessage
<1>9. CASE Succeeded
  <2>1. /\ wire.type = "answer" /\ AbsorbSession(wire) /\ wire' = NoMessage
        /\ connected' = connected /\ pc' = "idle"
        /\ scope_pending' = (scope_pending \/ Replaced(wire))
    BY <1>9 DEF Succeeded
  <2>2. /\ tracks_sessions' = -1 => session_id' = NoSession
        /\ tracks_sessions = 1 => tracks_sessions' = 1
        /\ Replaced(wire) => tracks_sessions' = 1
    BY <2>1, AbsorbKnown
  <2>3. QED
    BY <1>0, <2>1, <2>2 DEF KnownSession, NoMessage
<1>10. CASE ConnectStatementSucceeded
  <2>1. /\ wire.type = "answer" /\ AbsorbSession(wire) /\ wire' = NoMessage
        /\ connected' = connected /\ (pc' = "scope" => scope_pending')
        /\ (scope_pending' => scope_pending \/ Replaced(wire))
    BY <1>10 DEF ConnectStatementSucceeded, CatalogInv
  <2>2. /\ tracks_sessions' = -1 => session_id' = NoSession
        /\ tracks_sessions = 1 => tracks_sessions' = 1
        /\ Replaced(wire) => tracks_sessions' = 1
    BY <2>1, AbsorbKnown
  <2>3. QED
    BY <1>0, <2>1, <2>2 DEF KnownSession, NoMessage
<1>11. CASE Released
  BY <1>0, <1>11 DEF Released, KnownSession, NoMessage
<1>12. CASE GiveUp
  <2>1. /\ session_id' \in {session_id, NoSession} /\ wire' = NoMessage
        /\ UNCHANGED <<tracks_sessions, scope_pending>>
        /\ (connected' => connected) /\ pc' \in {"idle", "release"}
    BY <1>12 DEF GiveUp, Fail
  <2>2. QED
    BY <1>0, <2>1 DEF KnownSession, NoMessage
<1>13. CASE Engine
  BY <1>13, KnownEngine
<1>14. CASE UNCHANGED vars
  BY <1>14 DEF vars, dbcVars, callVars, KnownSession
<1>15. QED
  BY <1>1, <1>2, <1>3, <1>4, <1>5, <1>6, <1>7, <1>8, <1>9, <1>10, <1>11, <1>12, <1>13,
     <1>14, Steps

------------------------------------------------------------------------------
\* What is sent

\* What each call runs, and what of it a request carries.
TextInv ==
    /\ pc \in {"scope", "statement"} =>
           /\ op = "connect" => sql = <<ScopeList[stage]>>
           /\ op = "autocommit" => sql = (IF autocommit THEN <<"manual">> ELSE <<"auto">>)
           /\ op \notin {"connect", "autocommit"} => sql \in Seq(AppKinds)
    /\ Requesting => wire.sql = (IF pc = "scope" THEN <<ScopeList[at]>> ELSE sql)

LEMMA TextInit == Init => TextInv
BY DEF Init, TextInv, Requesting, NoMessage

\* The calls and their texts.
LEMMA CallTexts ==
    ASSUME CallsBegin
    PROVE  \E o \in Ops, text \in Texts :
               /\ Begins(o, text)
               /\ o # "connect"
               /\ o = "autocommit" => text = (IF autocommit THEN <<"manual">> ELSE <<"auto">>)
               /\ o # "autocommit" => text \in Seq(AppKinds)
<1>1. CASE Exec
  <2>1. PICK text \in Requests : Begins("exec", text)
    BY <1>1 DEF Exec
  <2>2. text \in Seq(AppKinds) /\ text \in Texts /\ "exec" \in Ops
    BY RequestsAssumption DEF Texts, Ops
  <2>3. QED
    BY <2>1, <2>2
<1>2. CASE SQLEndTran
  <2>1. "end" \in AppKinds /\ "endtran" \in Ops
    BY DEF AppKinds, Ops
  <2>2. <<"end">> \in Texts /\ <<"end">> \in Seq(AppKinds)
    BY <2>1 DEF Texts, Kinds
  <2>3. QED
    BY <1>2, <2>1, <2>2 DEF SQLEndTran
<1>3. CASE SetAutocommit
  <2>1. (IF autocommit THEN <<"manual">> ELSE <<"auto">>) \in Texts
    BY DEF Texts, Kinds, DriverKinds
  <2>2. QED
    BY <1>3, <2>1 DEF SetAutocommit, Ops
<1>4. CASE SetCatalog
  <2>1. "use" \in AppKinds /\ "catalog" \in Ops
    BY DEF AppKinds, Ops
  <2>2. <<"use">> \in Texts /\ <<"use">> \in Seq(AppKinds)
    BY <2>1 DEF Texts, Kinds
  <2>3. QED
    BY <1>4, <2>1, <2>2 DEF SetCatalog
<1>5. QED
  BY <1>1, <1>2, <1>3, <1>4 DEF CallsBegin

LEMMA TextStep == TypeInv /\ HomesInv /\ Budget /\ TextInv /\ [Next]_vars => TextInv'
<1> SUFFICES ASSUME TypeInv, TypeOK, CallShape, HomesInv, Budget, TextInv, [Next]_vars
             PROVE  TextInv'
  BY DEF TypeInv
<1> USE DEF TextInv, Requesting
<1>1. CASE CallsBegin
  <2>1. PICK o \in Ops, text \in Texts :
               /\ Begins(o, text)
               /\ o # "connect"
               /\ o = "autocommit" => text = (IF autocommit THEN <<"manual">> ELSE <<"auto">>)
               /\ o # "autocommit" => text \in Seq(AppKinds)
    BY <1>1, CallTexts
  <2>2. op' = o /\ sql' = text /\ wire' = NoMessage /\ autocommit' = autocommit
    BY <2>1 DEF Begins, Execute, dbcVars, CallShape
  <2>3. QED
    BY <2>1, <2>2 DEF NoMessage
<1>2. CASE SetsUnconnected
  BY <1>2, SetsUnconnectedShape DEF callVars, CallShape, NoMessage
<1>3. CASE Connects
  <2>1. wire' = NoMessage
    BY <1>3 DEF Connects, ConnectWithoutScope, ConnectWithScope, Connect, CallShape
  <2>2. CASE ConnectWithoutScope
    BY <2>1, <2>2 DEF ConnectWithoutScope, NoMessage
  <2>3. CASE ConnectWithScope
    <3>1. PICK named \in DsnScopes :
              /\ Connect(named) /\ stage' = 1
              /\ sql' = <<Head(ScopeOf(named, autocommit))>>
      BY <2>3 DEF ConnectWithScope
    <3>2. ScopeList' = ScopeOf(named, autocommit) /\ op' = "connect"
      BY <3>1 DEF Connect, ScopeList
    <3>3. sql' = <<ScopeList'[1]>>
      BY <3>1, <3>2
    <3>4. QED
      BY <2>1, <3>1, <3>2, <3>3 DEF NoMessage
  <2>4. QED
    BY <1>3, <2>2, <2>3 DEF Connects
<1>4. CASE ConnectUnreachable \/ SQLDisconnect
  BY <1>4 DEF ConnectUnreachable, SQLDisconnect, CallShape, NoMessage
<1>5. CASE Sends
  <2>1. wire'.type = "request" => wire'.sql = (IF pc = "scope" THEN <<ScopeList[at]>> ELSE sql)
    BY <1>5 DEF Sends, SendScope, SendStatement, SendRelease, Post
  <2>2. UNCHANGED <<pc, op, sql, stage, at, scope, autocommit>>
    BY <1>5, SendsLeavesDriver DEF dbcVars, callVars
  <2>3. QED
    BY <2>1, <2>2 DEF ScopeList
<1>6. CASE ScopeAnswered \/ ScopeApplied \/ ScopeRestarts \/ StatementRestarts
  <2>1. wire' = NoMessage /\ UNCHANGED <<op, sql, stage, scope, autocommit>>
        /\ pc \in {"scope", "statement"}
    BY <1>6 DEF ScopeAnswered, ScopeApplied, ScopeRestarts, StatementRestarts
  <2>2. QED
    BY <2>1 DEF ScopeList, NoMessage
<1>7. CASE ReportLost \/ Refused \/ Succeeded \/ Released \/ GiveUp
  <2>1. wire' = NoMessage /\ pc' \in {"idle", "release"}
    BY <1>7 DEF ReportLost, Refused, Succeeded, Released, GiveUp, Fail
  <2>2. QED
    BY <2>1 DEF NoMessage
<1>8. CASE ConnectStatementSucceeded
  <2>1. /\ wire' = NoMessage /\ op' = "connect" /\ UNCHANGED <<scope, autocommit>>
        /\ pc' = "idle" \/ sql' = <<ScopeList[stage']>>
    BY <1>8 DEF ConnectStatementSucceeded
  <2>2. QED
    BY <2>1 DEF ScopeList, NoMessage
<1>9. CASE Engine
  <2>1. UNCHANGED <<pc, op, sql, stage, at, scope, autocommit>>
    BY <1>9, EngineLeavesDriver DEF dbcVars, callVars
  <2>2. wire'.type = "answer" \/ wire' = wire
    BY <1>9 DEF Engine, EngineRuns, EngineRefuses, EngineReleases, EngineLoses,
                EngineUpgraded, LateRequestRuns, LateRequestDropped
  <2>3. QED
    BY <2>1, <2>2 DEF ScopeList
<1>10. CASE UNCHANGED vars
  BY <1>10 DEF vars, dbcVars, callVars, ScopeList
<1>11. QED
  BY <1>1, <1>2, <1>3, <1>4, <1>5, <1>6, <1>7, <1>8, <1>9, <1>10, Steps

------------------------------------------------------------------------------
\* A connection whose session is still to be opened

\* Only the first statement of a scope can be without a session; once the
\* scope is said to have gone on, it is an empty one.
NoSessionYet ==
    connected /\ session_id = NoSession =>
        /\ pc = "scope" => at = 1
        /\ pc = "statement" /\ op = "connect" => stage = 1
        /\ \/ pc = "statement" /\ op # "connect"
           \/ pc = "idle" /\ ~scope_pending
           => ScopeList = <<>>

LEMMA NoSessionYetInit == Init => NoSessionYet
BY DEF Init, NoSessionYet

LEMMA NoSessionYetStep ==
    TypeInv /\ HomesInv /\ CatalogInv /\ Budget /\ KnownSession /\ NoSessionYet /\ [Next]_vars
    => NoSessionYet'
<1> SUFFICES ASSUME TypeInv, TypeOK, CallShape, HomesInv, CatalogInv, Budget, KnownSession,
                    NoSessionYet, [Next]_vars
             PROVE  NoSessionYet'
  BY DEF TypeInv
<1>0. pc \in {"scope", "statement"} /\ Answered("ok") => session_id' # NoSession
                                                       \/ session_id' # IdAfter(wire)
  BY DEF KnownSession, IdAfter
<1>1. CASE CallsBegin
  <2>1. PICK o \in Ops, text \in Texts : Begins(o, text) /\ o # "connect"
    BY <1>1, CallTexts
  <2>2. /\ pc = "idle" /\ op' = o /\ at' = 1 /\ UNCHANGED dbcVars
        /\ pc' = IF scope_pending THEN "scope" ELSE "statement"
    BY <2>1 DEF Begins, Execute
  <2>3. QED
    BY <2>1, <2>2 DEF NoSessionYet, dbcVars, ScopeList
<1>2. CASE SetsUnconnected
  BY <1>2, SetsUnconnectedShape DEF NoSessionYet
<1>3. CASE ConnectWithoutScope
  <2>1. PICK named \in DsnScopes :
            ScopeOf(named, autocommit) = <<>> /\ Connect(named) /\ pc' = "idle"
    BY <1>3 DEF ConnectWithoutScope
  <2>2. ScopeList' = <<>>
    BY <2>1 DEF Connect, ScopeList
  <2>3. QED
    BY <2>1, <2>2 DEF NoSessionYet
<1>4. CASE ConnectWithScope
  <2>1. pc' = "statement" /\ stage' = 1 /\ op' = "connect"
    BY <1>4 DEF ConnectWithScope, Connect
  <2>2. QED
    BY <2>1 DEF NoSessionYet
<1>5. CASE ConnectUnreachable \/ SQLDisconnect
  BY <1>5 DEF ConnectUnreachable, SQLDisconnect, NoSessionYet, dbcVars, ScopeList
<1>6. CASE Sends
  BY <1>6, SendsLeavesDriver DEF dbcVars, callVars, NoSessionYet, ScopeList
<1>7. CASE ScopeAnswered
  <2>1. pc = "scope" /\ Answered("ok") /\ session_id' = IdAfter(wire)
    BY <1>7 DEF ScopeAnswered, AbsorbOnly, AbsorbSession
  <2>2. QED
    BY <1>0, <2>1 DEF NoSessionYet
<1>8. CASE ScopeApplied
  <2>1. /\ pc = "scope" /\ at > Len(ScopeList)
        /\ UNCHANGED <<connected, session_id, scope, autocommit, op, stage>>
        /\ pc' = "statement"
    BY <1>8 DEF ScopeApplied
  <2>2. Len(ScopeList) \in 0..3 /\ at \in 1..4 /\ ScopeList' = ScopeList
    BY <2>1, ScopeListShape DEF TypeOK, PlaceType, ScopeList
  <2>3. ASSUME connected, session_id = NoSession PROVE ScopeList = <<>>
    <3>1. at = 1
      BY <2>1, <2>3 DEF NoSessionYet
    <3>2. Len(ScopeList) = 0
      BY <2>1, <2>2, <3>1
    <3>3. scope \in SUBSET {"database", "schema"} /\ autocommit \in BOOLEAN
      BY DEF TypeOK, DbcType
    <3>4. QED
      BY <3>2, <3>3, ScopeOfEmpty DEF ScopeList
  <2>4. op = "connect" => stage \in 1..Len(ScopeList)
    BY <2>1 DEF Budget, ConnectBudget
  <2>5. ASSUME connected, session_id = NoSession PROVE op # "connect"
    BY <2>3, <2>4, <2>5
  <2>6. QED
    BY <2>1, <2>2, <2>3, <2>5 DEF NoSessionYet
<1>9. CASE ScopeRestarts \/ StatementRestarts
  <2>1. pc' = "scope" /\ at' = 1
    BY <1>9 DEF ScopeRestarts, StatementRestarts
  <2>2. QED
    BY <2>1 DEF NoSessionYet
<1>10. CASE ReportLost
  <2>1. scope_pending' /\ (pc' = "idle" \/ ~connected')
    BY <1>10 DEF ReportLost, ForgetSession, ResetSessionState, Fail
  <2>2. pc' \in {"idle", "release"}
    BY <1>10 DEF ReportLost, Fail
  <2>3. QED
    BY <2>1, <2>2 DEF NoSessionYet
<1>11. CASE Refused
  <2>1. /\ pc \in {"scope", "statement"} /\ session_id' = IdAfter(wire)
        /\ (scope_pending => scope_pending')
        /\ UNCHANGED <<autocommit, scope>>
        /\ \/ ~connected'
           \/ connected' = connected /\ pc' = "idle" /\ op # "connect"
    BY <1>11 DEF Refused, AbsorbOnly, AbsorbSession, ResetSessionState, Fail
  <2>2. session_id' = NoSession => session_id = NoSession
    BY <2>1 DEF IdAfter
  <2>3. pc = "scope" => scope_pending
    BY DEF KnownSession
  <2>4. ScopeList' = ScopeList
    BY <2>1 DEF ScopeList
  <2>5. QED
    BY <2>1, <2>2, <2>3, <2>4 DEF NoSessionYet
<1>12. CASE Succeeded \/ ConnectStatementSucceeded
  <2>1. pc = "statement" /\ Answered("ok") /\ session_id' = IdAfter(wire)
    BY <1>12 DEF Succeeded, ConnectStatementSucceeded, AbsorbSession
  <2>2. QED
    BY <1>0, <2>1 DEF NoSessionYet
<1>13. CASE Released
  <2>1. ~connected'
    BY <1>13 DEF Released, HomesInv, HeldByConnection
  <2>2. QED
    BY <2>1 DEF NoSessionYet
<1>14. CASE GiveUp
  <2>1. pc \in {"scope", "statement", "release"}
    BY <1>14 DEF GiveUp, CallShape, TypeOK, CallType
  <2>2. /\ UNCHANGED <<autocommit, scope, scope_pending>>
        /\ \/ ~connected'
           \/ connected' = connected /\ session_id' = session_id /\ pc' = "idle"
              /\ op # "connect" /\ pc # "release"
    BY <1>14 DEF GiveUp, Fail, HomesInv, HeldByConnection
  <2>3. pc = "scope" => scope_pending
    BY DEF KnownSession
  <2>4. ScopeList' = ScopeList
    BY <2>2 DEF ScopeList
  <2>5. QED
    BY <2>1, <2>2, <2>3, <2>4 DEF NoSessionYet
<1>15. CASE Engine
  BY <1>15, EngineLeavesDriver DEF dbcVars, callVars, NoSessionYet, ScopeList
<1>16. CASE UNCHANGED vars
  BY <1>16 DEF vars, dbcVars, callVars, NoSessionYet, ScopeList
<1>17. QED
  BY <1>1, <1>2, <1>3, <1>4, <1>5, <1>6, <1>7, <1>8, <1>9, <1>10, <1>11, <1>12, <1>13,
     <1>14, <1>15, <1>16, Steps DEF Connects

------------------------------------------------------------------------------
\* A session of an older engine

\* Once the engine tracks sessions there is none left that it ran for the
\* driver before it did: only the first answer of its time is not seen yet.
NoOldSession ==
    tracking =>
        /\ tracks_sessions = 0 /\ session_id \in live \ doubtful =>
               wire.type = "answer" /\ wire.session = session_id
               /\ wire.started /\ wire.reports
        /\ wire.type = "answer" /\ ~wire.reports => wire.session \notin live \ doubtful

LEMMA NoOldSessionInit == Init => NoOldSession
BY NoSessionAssumption DEF Init, NoOldSession, NoMessage

\* An answer absorbed.
LEMMA NoOldAbsorbs ==
    ASSUME TypeOK, NoOldSession, wire.type = "answer", AbsorbSession(wire),
           wire' = NoMessage, UNCHANGED <<live, doubtful, tracking>>
    PROVE  NoOldSession'
<1> SUFFICES ASSUME tracking, tracks_sessions' = 0, session_id' \in live \ doubtful
             PROVE  FALSE
  BY DEF NoOldSession, NoMessage
<1>1. session_id' = IdAfter(wire) /\ TracksAfter(wire) = 0
  BY DEF AbsorbSession
<1>2. CASE wire.session = NoSession
  <2>1. NoSession \notin live
    BY NoSessionAssumption DEF TypeOK, EngineType
  <2>2. QED
    BY <1>1, <1>2, <2>1 DEF IdAfter, TracksAfter, NoOldSession
<1>3. CASE wire.session # NoSession
  BY <1>1, <1>3 DEF IdAfter, TracksAfter, NoOldSession
<1>4. QED
  BY <1>2, <1>3

LEMMA NoOldForgets ==
    ASSUME TypeOK, NoOldSession, session_id' = NoSession, wire'.type # "answer",
           UNCHANGED engineVars
    PROVE  NoOldSession'
BY NoSessionAssumption DEF NoOldSession, TypeOK, EngineType, engineVars

LEMMA NoOldUnmoved ==
    ASSUME NoOldSession, wire.type # "answer", wire'.type # "answer",
           UNCHANGED <<session_id, tracks_sessions, live, doubtful, tracking>>
    PROVE  NoOldSession'
BY DEF NoOldSession

LEMMA NoOldEngine == TypeInv /\ HomesInv /\ NoOldSession /\ Engine => NoOldSession'
<1> SUFFICES ASSUME TypeInv, TypeOK, HomesInv, NoOldSession, Engine PROVE NoOldSession'
  BY DEF TypeInv
<1>0. UNCHANGED <<session_id, tracks_sessions>>
  BY EngineLeavesDriver DEF dbcVars
<1>0a. live \in SUBSET SessionIds /\ session_id \in OptionalId
  BY DEF TypeOK, EngineType, DbcType
<1>1. CASE EngineRuns
  <2>1. PICK session \in RunsIn(wire), done \in 0..Len(wire.sql) :
            /\ Runs(wire, session, done)
            /\ wire' = [type |-> "answer",
                        kind |-> IF done = Len(wire.sql) THEN "ok" ELSE "refused",
                        session |-> session, reports |-> tracking,
                        started |-> session \notin live]
    BY <1>1 DEF EngineRuns
  <2>2. /\ live' = live \cup {session} /\ UNCHANGED <<doubtful, tracking>>
        /\ wire.type = "request"
    BY <1>1, <2>1 DEF EngineRuns, Runs, Requesting
  <2>3. session_id \in live \ doubtful /\ tracking => tracks_sessions # 0
    BY <2>2 DEF NoOldSession
  <2>4. /\ wire'.type = "answer" /\ wire'.session = session
        /\ wire'.reports = tracking /\ (wire'.started <=> session \notin live)
    BY <2>1
  <2>5. ASSUME tracking', tracks_sessions' = 0, session_id' \in live' \ doubtful'
        PROVE  session_id' = session /\ session \notin live
    BY <1>0, <2>2, <2>3, <2>5
  <2>6. QED
    BY <2>2, <2>4, <2>5 DEF NoOldSession
<1>2. CASE EngineRefuses
  <2>1. /\ wire'.type = "answer" /\ wire'.session = NoSession /\ wire.type = "request"
        /\ UNCHANGED <<live, doubtful, tracking>>
    BY <1>2 DEF EngineRefuses, Requesting, engineVars
  <2>2. NoSession \notin live
    BY <1>0a, NoSessionAssumption
  <2>3. QED
    BY <1>0, <2>1, <2>2 DEF NoOldSession
<1>3. CASE EngineReleases
  <2>1. /\ wire'.type = "answer" /\ wire'.session = NoSession /\ wire.type = "release"
        /\ live' = live \ {wire.session} /\ doubtful' = doubtful \ {wire.session}
        /\ tracking' = tracking
    BY <1>3 DEF EngineReleases
  <2>2. NoSession \notin live'
    BY <1>0a, <2>1, NoSessionAssumption
  <2>3. QED
    BY <1>0, <2>1, <2>2 DEF NoOldSession
<1>4. CASE EngineLoses
  <2>1. PICK session \in live :
            /\ live' = live \ {session} /\ doubtful' = doubtful \ {session}
            /\ UNCHANGED <<wire, tracking>>
    BY <1>4 DEF EngineLoses
  <2>2. QED
    BY <1>0, <2>1 DEF NoOldSession
<1>5. CASE EngineUpgraded
  BY <1>5 DEF EngineUpgraded, NoOldSession
<1>6. CASE LateRequestRuns
  <2>1. PICK request \in late : \E session \in RunsIn(request), done \in 0..Len(request.sql) :
            /\ Runs(request, session, done)
            /\ doubtful' = IF session \in live /\ ~Sets(request.sql)
                           THEN doubtful ELSE doubtful \cup {session}
    BY <1>6 DEF LateRequestRuns
  <2>2. PICK session :
            /\ live' = live \cup {session} /\ tracking' = tracking
            /\ doubtful' = IF session \in live /\ ~Sets(request.sql)
                           THEN doubtful ELSE doubtful \cup {session}
    BY <2>1 DEF Runs
  <2>3. live' \ doubtful' \subseteq live \ doubtful
    BY <2>2
  <2>4. wire' = wire
    BY <1>6 DEF LateRequestRuns
  <2>5. QED
    BY <1>0, <2>2, <2>3, <2>4 DEF NoOldSession
<1>7. CASE LateRequestDropped
  BY <1>0, <1>7 DEF LateRequestDropped, engineVars, historyVars, NoOldSession
<1>8. QED
  BY <1>1, <1>2, <1>3, <1>4, <1>5, <1>6, <1>7 DEF Engine

LEMMA NoOldStep ==
    TypeInv /\ HomesInv /\ KnownSession /\ NoOldSession /\ [Next]_vars => NoOldSession'
<1> SUFFICES ASSUME TypeInv, TypeOK, CallShape, HomesInv, KnownSession, NoOldSession, [Next]_vars
             PROVE  NoOldSession'
  BY DEF TypeInv
<1>0. pc = "idle" => wire = NoMessage
  BY DEF CallShape
<1>1. CASE CallsBegin
  <2>1. PICK o \in Ops, text \in Texts : Begins(o, text)
    BY <1>1, CallsBeginShape
  <2>2. wire.type # "answer" /\ wire'.type # "answer"
        /\ UNCHANGED <<session_id, tracks_sessions, live, doubtful, tracking>>
    BY <1>0, <2>1 DEF Begins, dbcVars, engineVars, NoMessage
  <2>3. QED
    BY <2>2, NoOldUnmoved
<1>2. CASE SetsUnconnected
  BY <1>0, <1>2, SetsUnconnectedShape, NoOldUnmoved DEF historyVars, engineVars, NoMessage
<1>3. CASE Connects
  <2>1. PICK named : Connect(named)
    BY <1>3, ConnectShape DEF Connects
  <2>2. session_id' = NoSession /\ wire' = NoMessage /\ UNCHANGED engineVars
    BY <1>0, <2>1 DEF Connect
  <2>3. QED
    BY <2>2, NoOldForgets DEF NoMessage
<1>4. CASE ConnectUnreachable \/ SQLDisconnect
  BY <1>0, <1>4, NoOldUnmoved DEF ConnectUnreachable, SQLDisconnect, dbcVars, engineVars, NoMessage
<1>5. CASE Sends
  <2>1. UNCHANGED <<session_id, tracks_sessions, live, tracking, doubtful>>
        /\ wire = NoMessage /\ wire'.type # "answer"
    BY <1>5, SendsLeavesDriver
       DEF dbcVars, engineVars, Sends, SendScope, SendStatement, SendRelease, historyVars
  <2>2. QED
    BY <2>1, NoOldUnmoved DEF NoMessage
<1>6. CASE ScopeAnswered \/ Refused \/ Succeeded \/ ConnectStatementSucceeded
  <2>1. wire.type = "answer" /\ AbsorbSession(wire) /\ wire' = NoMessage
        /\ UNCHANGED <<live, doubtful, tracking>>
    BY <1>6 DEF ScopeAnswered, Refused, Succeeded, ConnectStatementSucceeded, Answered,
                AbsorbOnly, engineVars, historyVars
  <2>2. QED
    BY <2>1, NoOldAbsorbs
<1>7. CASE ScopeApplied
  BY <1>7, NoOldUnmoved DEF ScopeApplied, engineVars, historyVars, NoMessage
<1>8. CASE ScopeRestarts \/ StatementRestarts \/ ReportLost \/ Released
  <2>1. session_id' = NoSession /\ wire' = NoMessage /\ UNCHANGED engineVars
    BY <1>8 DEF ScopeRestarts, StatementRestarts, ReportLost, Released, ForgetSession
  <2>2. QED
    BY <2>1, NoOldForgets DEF NoMessage
<1>9. CASE GiveUp
  <2>1. wire' = NoMessage /\ UNCHANGED engineVars /\ tracks_sessions' = tracks_sessions
    BY <1>9 DEF GiveUp
  <2>2. CASE pc = "release"
    <3>1. session_id' = NoSession
      BY <1>9, <2>2 DEF GiveUp
    <3>2. QED
      BY <2>1, <3>1, NoOldForgets DEF NoMessage
  <2>3. CASE pc # "release"
    <3>1. /\ session_id' = session_id
          /\ session_id \in live /\ tracks_sessions # 1 => session_id \in doubtful'
      BY <1>9, <2>3 DEF GiveUp, Fail
    <3>2. QED
      BY <2>1, <3>1 DEF NoOldSession, engineVars, NoMessage
  <2>4. QED
    BY <2>2, <2>3
<1>10. CASE Engine
  BY <1>10, NoOldEngine
<1>11. CASE UNCHANGED vars
  BY <1>11 DEF vars, dbcVars, engineVars, historyVars, NoOldSession
<1>12. QED
  BY <1>1, <1>2, <1>3, <1>4, <1>5, <1>6, <1>7, <1>8, <1>9, <1>10, <1>11, Steps

------------------------------------------------------------------------------
\* How far the scope has got

\* The session the driver will have once it has absorbed what is on the wire,
\* and the commit mode it will think that session is in.
NextId == IF wire.type = "answer" THEN IdAfter(wire) ELSE session_id
NextTracks == IF wire.type = "answer" THEN TracksAfter(wire) ELSE tracks_sessions
Mode == IF pc = "statement" /\ op = "autocommit" /\ Answered("ok")
        THEN sql = <<"auto">> ELSE autocommit

\* How many statements of the scope are known to have run in that session.
Reached ==
    IF wire.type = "answer" /\ Replaced(wire) THEN 0
    ELSE IF pc = "scope" THEN at - 1 + (IF Answered("ok") THEN 1 ELSE 0)
    ELSE IF pc = "statement" /\ op = "connect"
         THEN stage - 1 + (IF Answered("ok") THEN 1 ELSE 0)
    ELSE IF scope_pending THEN 0 ELSE Len(ScopeOf(scope, Mode))

Scoped(session, auto, count) ==
    /\ NotBeyond(session, auto)
    /\ session.database # "app" => FirstInForce(session, auto, count)

ScopeInForce ==
    connected /\ pc # "release" /\ NextTracks = 1 /\ NextId \in live \ doubtful =>
        Scoped(holds[NextId], Mode, Reached)

LEMMA ScopeInForceInit == Init => ScopeInForce
BY DEF Init, ScopeInForce

ReachedTyped ==
    /\ Mode \in BOOLEAN /\ Reached \in Int /\ Len(ScopeOf(scope, Mode)) \in 0..3
    /\ at \in 1..4 /\ stage \in 0..3 /\ Len(ScopeList) \in 0..3

LEMMA ReachedTypes == TypeOK => ReachedTyped
<1> SUFFICES ASSUME TypeOK PROVE ReachedTyped
  OBVIOUS
<1>1. autocommit \in BOOLEAN /\ scope \in SUBSET {"database", "schema"}
      /\ at \in 1..4 /\ stage \in 0..3
  BY DEF TypeOK, DbcType, PlaceType
<1>2. Mode \in BOOLEAN
  BY <1>1 DEF Mode
<1>3. Len(ScopeOf(scope, Mode)) \in 0..3 /\ Len(ScopeList) \in 0..3
  BY <1>1, <1>2, ScopeOfShape, ScopeListShape
<1>4. Reached \in Int
  BY <1>1, <1>3 DEF Reached
<1>5. QED
  BY <1>1, <1>2, <1>3, <1>4 DEF ReachedTyped

LEMMA ReachedTypesNext == TypeOK' => ReachedTyped'
BY ReachedTypes, PTL

\* A step that moves no session's settings, and the scope no further.
LEMMA ScopeKept ==
    ASSUME TypeOK, TypeOK', ScopeInForce, scope' = scope,
           connected' /\ pc' # "release" /\ NextTracks' = 1 /\ NextId' \in live' \ doubtful'
           => /\ connected /\ pc # "release" /\ NextTracks = 1 /\ NextId \in live \ doubtful
              /\ NextId' = NextId /\ Mode' = Mode
              /\ Reached' <= Reached \/ Reached' <= 0
              /\ holds'[NextId].database = holds[NextId].database
              /\ holds'[NextId].schema = holds[NextId].schema
              /\ holds'[NextId].auto = holds[NextId].auto
    PROVE  ScopeInForce'
<1> SUFFICES ASSUME connected', pc' # "release", NextTracks' = 1, NextId' \in live' \ doubtful'
             PROVE  Scoped(holds[NextId], Mode, Reached)'
  BY DEF ScopeInForce
<1>1. Scoped(holds[NextId], Mode, Reached)
  BY DEF ScopeInForce
<1>2. NotBeyond(holds[NextId], Mode)'
  BY <1>1 DEF Scoped, NotBeyond
<1>3. ASSUME holds'[NextId'].database # "app" PROVE FirstInForce(holds[NextId], Mode, Reached)'
  <2>1. FirstInForce(holds[NextId], Mode, Reached)
    BY <1>1, <1>3 DEF Scoped
  <2>2. Reached \in Int /\ Reached' \in Int
    BY ReachedTypes, ReachedTypesNext DEF ReachedTyped
  <2>3. \A i \in 1..Reached' : i \in 1..Reached
    BY <2>2
  <2>4. \A kind : InForce(holds[NextId], kind) => InForce(holds'[NextId'], kind)
    BY DEF InForce
  <2>5. QED
    BY <2>1, <2>3, <2>4 DEF FirstInForce
<1>4. QED
  BY <1>2, <1>3 DEF Scoped

\* The steps of the driver that take an answer off the wire.
LEMMA ScopeAbsorbs ==
    TypeInv /\ TypeOK' /\ HomesInv /\ CatalogInv /\ Budget /\ KnownSession /\ ScopeInForce
        /\ (ScopeAnswered \/ Refused \/ Succeeded \/ ConnectStatementSucceeded)
    => ScopeInForce'
<1> SUFFICES ASSUME TypeInv, TypeOK, TypeOK', CallShape, HomesInv, CatalogInv, Budget,
                    KnownSession, ScopeInForce,
                    ScopeAnswered \/ Refused \/ Succeeded \/ ConnectStatementSucceeded
             PROVE  ScopeInForce'
  BY DEF TypeInv
<1>1. /\ wire.type = "answer" /\ AbsorbSession(wire) /\ wire' = NoMessage
      /\ pc \in {"scope", "statement"} /\ scope' = scope
      /\ UNCHANGED <<live, holds, doubtful>>
  BY DEF ScopeAnswered, Refused, Succeeded, ConnectStatementSucceeded, Answered, AbsorbOnly,
         engineVars, historyVars
<1>2. /\ NextId' = NextId /\ NextTracks' = NextTracks /\ connected
      /\ ~Answered("ok")' /\ wire'.type # "answer"
  BY <1>1 DEF AbsorbSession, NextId, NextTracks, NoMessage, HomesInv, HeldByConnection, Answered
<1>3. Mode' = autocommit' /\ (pc = "scope" => scope_pending)
      /\ (pc = "statement" => ~scope_pending)
  BY <1>2 DEF Mode, KnownSession, CatalogInv
<1>4. /\ Reached \in Int /\ Reached' \in Int /\ at \in 1..4 /\ stage \in 0..3
      /\ at' \in 1..4 /\ stage' \in 0..3 /\ Len(ScopeList) \in 0..3
  BY ReachedTypes, ReachedTypesNext DEF ReachedTyped
<1>5. /\ pc' = "scope" => Reached' = at' - 1
      /\ pc' = "statement" /\ op' = "connect" => Reached' = stage' - 1
      /\ pc' = "idle" /\ scope_pending' => Reached' = 0
      /\ pc' = "idle" /\ ~scope_pending' => Reached' = Len(ScopeOf(scope, Mode'))
  <2>1. pc' = "scope" => Reached' = at' - 1
    BY <1>2, <1>4 DEF Reached
  <2>2. pc' = "statement" /\ op' = "connect" => Reached' = stage' - 1
    BY <1>2, <1>4 DEF Reached
  <2>3. pc' = "idle" => Reached' = IF scope_pending' THEN 0 ELSE Len(ScopeOf(scope, Mode))'
    BY <1>2 DEF Reached
  <2>4. Len(ScopeOf(scope, Mode))' = Len(ScopeOf(scope, Mode'))
    BY <1>1
  <2>5. QED
    BY <2>1, <2>2, <2>3, <2>4
<1>6. CASE ScopeAnswered
  <2>1. /\ pc = "scope" /\ Answered("ok") /\ pc' = "scope" /\ at' = at + 1
        /\ autocommit' = autocommit
    BY <1>6 DEF ScopeAnswered
  <2>2. ~Replaced(wire)
    BY <1>1, <1>2, <1>3, <2>1, ReplacedByUnknown DEF KnownSession
  <2>3. Reached = at /\ Mode = autocommit
    BY <1>4, <2>1, <2>2 DEF Reached, Mode
  <2>4. Reached' = at
    BY <1>4, <1>5, <2>1
  <2>5. QED
    BY <1>1, <1>2, <1>3, <1>4, <2>1, <2>3, <2>4, ScopeKept
<1>7. CASE Refused
  <2>1. /\ wire.kind = "refused" /\ autocommit' = autocommit
        /\ \/ ~connected'
           \/ op # "connect" /\ pc' = "idle"
        /\ Replaced(wire) \/ scope_pending => scope_pending'
        /\ ~Replaced(wire) => scope_pending' = scope_pending
    BY <1>7 DEF Refused, Fail, AbsorbOnly, ResetSessionState, Answered
  <2>2. Mode = autocommit /\ Mode' = Mode
    BY <1>3, <2>1 DEF Mode, Answered
  <2>3. CASE connected'
    <3>1. CASE Replaced(wire) \/ pc = "scope"
      BY <1>1, <1>2, <1>3, <1>5, <2>1, <2>2, <2>3, <3>1, ScopeKept
    <3>2. CASE ~Replaced(wire) /\ pc = "statement"
      <4>1. Reached = Len(ScopeOf(scope, Mode)) /\ Reached' = Len(ScopeOf(scope, Mode))
        BY <1>3, <1>5, <2>1, <2>2, <2>3, <3>2 DEF Reached
      <4>2. QED
        BY <1>1, <1>2, <1>4, <2>2, <3>2, <4>1, ScopeKept
    <3>3. QED
      BY <1>1, <3>1, <3>2
  <2>4. CASE ~connected'
    BY <2>4 DEF ScopeInForce
  <2>5. QED
    BY <2>3, <2>4
<1>8. CASE Succeeded
  <2>1. /\ pc = "statement" /\ Answered("ok") /\ op # "connect" /\ pc' = "idle"
        /\ autocommit' = (IF op = "autocommit" THEN sql = <<"auto">> ELSE autocommit)
        /\ scope_pending' = (scope_pending \/ Replaced(wire))
    BY <1>8 DEF Succeeded
  <2>2. Mode' = Mode
    BY <1>3, <2>1 DEF Mode
  <2>3. CASE Replaced(wire)
    <3>1. Reached' = 0
      BY <1>5, <2>1, <2>3
    <3>2. QED
      BY <1>1, <1>2, <1>3, <2>2, <3>1, ScopeKept
  <2>4. CASE ~Replaced(wire)
    <3>1. Reached = Len(ScopeOf(scope, Mode)) /\ Reached' = Len(ScopeOf(scope, Mode))
      BY <1>3, <1>5, <2>1, <2>2, <2>4 DEF Reached
    <3>2. QED
      BY <1>1, <1>2, <1>4, <2>2, <3>1, ScopeKept
  <2>5. QED
    BY <2>3, <2>4
<1>9. CASE ConnectStatementSucceeded
  <2>1. /\ pc = "statement" /\ Answered("ok") /\ op = "connect" /\ op' = op
        /\ autocommit' = autocommit
        /\ Replaced(wire) => scope_pending'
        /\ ~Replaced(wire) => scope_pending' = scope_pending
    BY <1>9 DEF ConnectStatementSucceeded
  <2>2. \/ /\ stage < Len(ScopeList) /\ stage' = stage + 1 /\ at' = 1
           /\ pc' = IF scope_pending' THEN "scope" ELSE "statement"
        \/ stage >= Len(ScopeList) /\ pc' = "idle"
    BY <1>4, <1>9 DEF ConnectStatementSucceeded, LocalsGone
  <2>3. Mode = autocommit /\ Mode' = Mode
    BY <1>3, <2>1 DEF Mode
  <2>4. CASE Replaced(wire)
    <3>1. Reached' = 0
      BY <1>5, <2>1, <2>2, <2>4
    <3>2. QED
      BY <1>1, <1>2, <2>3, <3>1, ScopeKept
  <2>5. CASE ~Replaced(wire)
    <3>1. Reached = stage
      BY <1>4, <2>1, <2>5 DEF Reached
    <3>2. pc' # "scope"
      BY <1>3, <2>1, <2>2, <2>5
    <3>3. ~scope_pending' /\ Len(ScopeOf(scope, Mode')) = Len(ScopeList)
      BY <1>3, <2>1, <2>3, <2>5 DEF ScopeList
    <3>4. Reached' <= stage
      <4>1. CASE pc' = "idle"
        <5>1. Len(ScopeList) <= stage
          BY <2>2, <4>1
        <5>2. Reached' = Len(ScopeList)
          BY <1>5, <3>3, <4>1
        <5>3. QED
          BY <5>1, <5>2
      <4>2. CASE pc' # "idle"
        <5>1. pc' = "statement" /\ op' = "connect" /\ stage' = stage + 1
          BY <2>1, <2>2, <3>2, <4>2
        <5>2. QED
          BY <1>4, <1>5, <5>1
      <4>3. QED
        BY <4>1, <4>2
    <3>5. QED
      BY <1>1, <1>2, <2>3, <3>1, <3>4, ScopeKept
  <2>6. QED
    BY <2>4, <2>5
<1>10. QED
  BY <1>6, <1>7, <1>8, <1>9

\* Given up, a request that would have set something leaves its session in
\* doubt; any other leaves it where it was.
LEMMA ScopeGivesUp ==
    TypeInv /\ TypeOK' /\ HomesInv /\ CatalogInv /\ KnownSession /\ TextInv /\ ScopeInForce
        /\ GiveUp
    => ScopeInForce'
<1> SUFFICES ASSUME TypeInv, TypeOK, TypeOK', CallShape, HomesInv, CatalogInv, KnownSession,
                    TextInv, ScopeInForce, GiveUp,
                    connected', pc' # "release", NextTracks' = 1,
                    NextId' \in live' \ doubtful'
             PROVE  ScopeInForce'
  BY DEF TypeInv, ScopeInForce
<1>1. /\ wire # NoMessage /\ wire' = NoMessage /\ UNCHANGED <<live, holds>>
      /\ UNCHANGED <<tracks_sessions, scope_pending, autocommit, scope, op>>
  BY DEF GiveUp, engineVars
<1>2. pc \in {"scope", "statement"} /\ connected /\ op # "connect" /\ pc' = "idle"
      /\ session_id' = session_id
  BY <1>1 DEF GiveUp, Fail, CallShape, TypeOK, CallType, HomesInv, HeldByConnection
<1>3. NextId' = session_id /\ tracks_sessions = 1 /\ session_id \in live
      /\ ~Answered("ok")' /\ wire'.type # "answer" /\ Mode' = autocommit
  BY <1>1, <1>2 DEF NextId, NextTracks, NoMessage, Answered, Mode
<1>4. ~Sets(GivenUpText) /\ session_id \notin doubtful
  BY <1>1, <1>2, <1>3 DEF GiveUp
<1>5. session_id # NoSession
  BY <1>3, NoSessionAssumption DEF TypeOK, EngineType
<1>6. NextId = session_id /\ NextTracks = 1 /\ ~(wire.type = "answer" /\ Replaced(wire))
  <2>1. CASE wire.type = "answer"
    <3>1. wire.session \in {NoSession, session_id} /\ ~wire.started /\ wire.reports
      BY <1>2, <1>3, <1>5, <2>1 DEF HomesInv, ResumedOrRefused, RequireSession
    <3>2. QED
      BY <1>3, <2>1, <3>1 DEF NextId, NextTracks, IdAfter, TracksAfter, Replaced
  <2>2. CASE wire.type # "answer"
    BY <1>3, <2>2 DEF NextId, NextTracks
  <2>3. QED
    BY <2>1, <2>2
<1>7. pc = "statement"
  <2>1. ASSUME pc = "scope" PROVE FALSE
    <3>1. GivenUpText = <<ScopeList[at]>> /\ at \in 1..Len(ScopeList)
      BY <1>1, <2>1, ReachedTypes DEF GivenUpText, CallShape, ReachedTyped
    <3>2. ScopeList[at] \in DriverKinds
      BY <3>1, ScopeOfShape DEF ScopeList, TypeOK, DbcType
    <3>3. 1 \in DOMAIN GivenUpText /\ GivenUpText[1] \in SettingKinds
      BY <3>1, <3>2 DEF SettingKinds
    <3>4. QED
      BY <1>4, <3>3 DEF Sets
  <2>2. QED
    BY <1>2, <2>1
<1>8. op # "autocommit"
  <2>1. ASSUME op = "autocommit" PROVE FALSE
    <3>1. GivenUpText = (IF autocommit THEN <<"manual">> ELSE <<"auto">>)
      BY <1>7, <2>1 DEF GivenUpText, TextInv
    <3>2. 1 \in DOMAIN GivenUpText /\ GivenUpText[1] \in SettingKinds
      BY <3>1 DEF SettingKinds, DriverKinds
    <3>3. QED
      BY <1>4, <3>2 DEF Sets
  <2>2. QED
    BY <2>1
<1>9. Mode = autocommit /\ ~scope_pending
  BY <1>7, <1>8 DEF Mode, CatalogInv
<1>10. Reached = Len(ScopeOf(scope, autocommit)) /\ Reached' = Len(ScopeOf(scope, autocommit))
  <2>1. Reached = Len(ScopeOf(scope, Mode))
    BY <1>2, <1>6, <1>7, <1>9 DEF Reached
  <2>2. Reached' = Len(ScopeOf(scope, Mode))'
    BY <1>1, <1>2, <1>3, <1>9 DEF Reached
  <2>3. QED
    BY <1>1, <1>3, <1>9, <2>1, <2>2
<1>11. Reached \in Int
  BY ReachedTypes DEF ReachedTyped
<1>12. QED
  BY <1>1, <1>2, <1>3, <1>4, <1>6, <1>9, <1>10, <1>11, ScopeKept

------------------------------------------------------------------------------
\* The engine

\* What a request of the driver finds in the session it runs in.
LEMMA RunsFromScope ==
    ASSUME TypeInv, HomesInv, CatalogInv, KnownSession, NoSessionYet, NoOldSession,
           ScopeInForce, Requesting, tracking, ~Refuses(wire),
           NEW session \in RunsIn(wire), session \notin doubtful
    PROVE  LET found == IF session \in live THEN holds[session] ELSE FreshSession
           IN  /\ found \in Sessions /\ session \in SessionIds
               /\ NotBeyond(found, autocommit)
               /\ found.database # "app" /\ (session \in live \/ session_id = NoSession)
                  => FirstInForce(found, autocommit, Reached)
<1>1. /\ pc \in {"scope", "statement"} /\ connected /\ wire.type = "request"
      /\ wire.session = session_id
  BY DEF HomesInv, WireFollowsCall, HeldByConnection, ResumedOrRefused, Requesting
<1>2. TypeOK
  BY DEF TypeInv
<1>3. session \in SessionIds /\ live \subseteq SessionIds
  BY <1>1, <1>2 DEF RunsIn, FreshIds, TypeOK, DbcType, EngineType, OptionalId
<1>4. Mode = autocommit /\ NextId = session_id /\ NextTracks = tracks_sessions
  BY <1>1 DEF Mode, Answered, NextId, NextTracks
<1>5. CASE session \in live
  <2>1. session = session_id
    BY <1>1, <1>5 DEF RunsIn, FreshIds
  <2>2. tracks_sessions = 1
    <3>1. tracks_sessions # 0
      BY <1>1, <1>5, <2>1 DEF NoOldSession
    <3>2. tracks_sessions # -1
      BY <1>3, <2>1, NoSessionAssumption DEF KnownSession
    <3>3. QED
      BY <1>2, <3>1, <3>2 DEF TypeOK, DbcType
  <2>3. Scoped(holds[session], autocommit, Reached)
    BY <1>1, <1>4, <1>5, <2>1, <2>2 DEF ScopeInForce
  <2>4. holds[session] \in Sessions
    BY <1>2, <1>3 DEF TypeOK, EngineType
  <2>5. QED
    BY <1>3, <1>5, <2>3, <2>4 DEF Scoped
<1>6. CASE session \notin live
  <2>1. NotBeyond(FreshSession, autocommit)
    BY DEF NotBeyond, FreshSession
  <2>2. ASSUME session_id = NoSession PROVE Reached = 0
    <3>1. ~(wire.type = "answer") /\ ~Answered("ok")
      BY <1>1 DEF Answered
    <3>2. CASE pc = "scope"
      BY <1>1, <2>2, <3>1, <3>2 DEF NoSessionYet, Reached
    <3>3. CASE pc = "statement" /\ op = "connect"
      BY <1>1, <2>2, <3>1, <3>3 DEF NoSessionYet, Reached
    <3>4. CASE pc = "statement" /\ op # "connect"
      <4>1. ScopeList = <<>> /\ ~scope_pending
        BY <1>1, <2>2, <3>4 DEF NoSessionYet, CatalogInv
      <4>2. QED
        BY <1>4, <3>1, <3>4, <4>1 DEF Reached, ScopeList
    <3>5. QED
      BY <1>1, <3>2, <3>3, <3>4
  <2>3. session_id = NoSession => FirstInForce(FreshSession, autocommit, Reached)
    BY <2>2 DEF FirstInForce
  <2>4. QED
    BY <1>3, <1>6, <2>1, <2>3, FreshSessionType
<1>7. QED
  BY <1>5, <1>6

\* A request that runs takes the scope one statement further, changes the
\* commit mode with it, or is the application's.
LEMMA ScopeRuns ==
    TypeInv /\ TypeOK' /\ HomesInv /\ CatalogInv /\ Budget /\ KnownSession /\ TextInv
        /\ NoSessionYet /\ NoOldSession /\ ScopeInForce /\ EngineRuns
    => ScopeInForce'
<1> SUFFICES ASSUME TypeInv, TypeOK, TypeOK', CallShape, HomesInv, CatalogInv, Budget,
                    KnownSession, TextInv, NoSessionYet, NoOldSession, ScopeInForce, EngineRuns,
                    NextTracks' = 1, NextId' \in live' \ doubtful'
             PROVE  Scoped(holds[NextId], Mode, Reached)'
  BY DEF TypeInv, ScopeInForce
<1>1. PICK session \in RunsIn(wire), done \in 0..Len(wire.sql) :
          /\ Runs(wire, session, done)
          /\ wire' = [type |-> "answer",
                      kind |-> IF done = Len(wire.sql) THEN "ok" ELSE "refused",
                      session |-> session, reports |-> tracking,
                      started |-> session \notin live]
  BY DEF EngineRuns
<1> DEFINE found == IF session \in live THEN holds[session] ELSE FreshSession
           after == After(found, SubSeq(wire.sql, 1, done))
<1>2. /\ Requesting /\ ~Refuses(wire) /\ doubtful' = doubtful /\ wire.type = "request"
      /\ UNCHANGED <<session_id, tracks_sessions, connected, scope_pending, autocommit, scope>>
      /\ UNCHANGED <<pc, op, sql, stage, at>>
  BY DEF EngineRuns, dbcVars, callVars, Requesting
<1>3. /\ pc \in {"scope", "statement"} /\ wire.session = session_id
      /\ wire.sql \in Texts
  BY <1>2 DEF HomesInv, WireFollowsCall, ResumedOrRefused, Requesting, TypeOK, WireType,
              Messages, NoMessage, RequestMessages, ReleaseMessages, AnswerMessages
<1>4. session # NoSession
  BY <1>1, NoSessionAssumption DEF RunsIn, FreshIds, TypeOK, EngineType
<1>5. /\ wire'.type = "answer" /\ wire'.session = session /\ wire'.reports = tracking
      /\ (wire'.started <=> session \notin live)
      /\ (wire'.kind = "ok" <=> done = Len(wire.sql))
  BY <1>1
<1>6. NextId' = session
  BY <1>4, <1>5 DEF NextId, IdAfter
<1>7. tracking
  BY <1>2, <1>4, <1>5 DEF NextTracks, TracksAfter, HomesInv, KnownToTrack
<1>8. session \notin doubtful
  BY <1>2, <1>6
<1>9. /\ found \in Sessions /\ session \in SessionIds /\ NotBeyond(found, autocommit)
      /\ found.database # "app" /\ (session \in live \/ session_id = NoSession)
         => FirstInForce(found, autocommit, Reached)
  BY <1>2, <1>7, <1>8, RunsFromScope
<1>10. holds'[session] = after
  <2>1. session \in DOMAIN holds
    BY <1>9 DEF TypeOK, EngineType
  <2>2. QED
    BY <1>1, <2>1 DEF Runs
<1>11. Replaced(wire)' <=> session \notin live /\ session_id # NoSession
  BY <1>2, <1>4, <1>5, <1>7 DEF Replaced
<1>12. Answered("ok")' <=> done = Len(wire.sql)
  BY <1>5 DEF Answered
<1>13. scope \in SUBSET {"database", "schema"} /\ autocommit \in BOOLEAN
  BY DEF TypeOK, DbcType
<1>14. SUFFICES /\ NotBeyond(after, Mode')
                /\ after.database # "app" /\ (session \in live \/ session_id = NoSession)
                   => FirstInForce(after, Mode', Reached')
  <2>1. Scoped(holds[NextId], Mode, Reached)'
        <=> /\ NotBeyond(after, Mode')
            /\ after.database # "app" => FirstInForce(after, Mode', Reached')
    BY <1>2, <1>6, <1>10 DEF Scoped, NotBeyond, FirstInForce
  <2>2. Replaced(wire)' => Reached' = 0
    BY <1>5 DEF Reached
  <2>3. Reached' = 0 => FirstInForce(after, Mode', Reached')
    BY DEF FirstInForce
  <2>4. QED
    BY <1>11, <2>1, <2>2, <2>3
<1> HIDE DEF found
<1>15. CASE pc = "scope" \/ op = "connect"
  <2> DEFINE place == IF pc = "scope" THEN at ELSE stage
  <2>1. place \in 1..Len(ScopeList)
    BY <1>2, <1>3, <1>15, ReachedTypes DEF CallShape, NoMessage, Budget, ConnectBudget, ReachedTyped
  <2>2. wire.sql = <<ScopeOf(scope, autocommit)[place]>> /\ Len(wire.sql) = 1
    BY <1>2, <1>3, <1>15 DEF TextInv, ScopeList
  <2>3. Mode' = autocommit
    BY <1>2, <1>3, <1>15 DEF Mode
  <2>4. Reached = place - 1
    BY <1>2, <1>3, <1>15, <2>1 DEF Reached, Answered
  <2>5. session \in live \/ session_id = NoSession => Reached' = place - 1 + done
    BY <1>1, <1>2, <1>3, <1>11, <1>12, <1>15, <2>1, <2>2 DEF Reached
  <2> HIDE DEF place
  <2>6. done \in 0..1 /\ place \in 1..Len(ScopeOf(scope, autocommit))
    BY <2>1, <2>2 DEF ScopeList
  <2>7. /\ NotBeyond(after, autocommit)
        /\ /\ found.database # "app" => FirstInForce(found, autocommit, place - 1)
           /\ after.database # "app"
           => FirstInForce(after, autocommit, place - 1 + done)
    BY <1>9, <1>13, <2>2, <2>6, ScopeStatementRuns
  <2>8. QED
    BY <1>9, <2>3, <2>4, <2>5, <2>7
<1>16. CASE pc = "statement" /\ op # "connect"
  <2>1. Reached = Len(ScopeOf(scope, autocommit)) /\ ~scope_pending
    BY <1>2, <1>16 DEF Reached, Mode, Answered, CatalogInv
  <2>2. session \in live \/ session_id = NoSession => Reached' = Len(ScopeOf(scope, Mode'))
    <3>1. ~Replaced(wire)' => Reached' = Len(ScopeOf(scope, Mode))'
      BY <1>2, <1>16, <2>1 DEF Reached
    <3>2. QED
      BY <1>2, <1>11, <3>1
  <2>3. CASE op = "autocommit"
    <3>1. wire.sql = (IF autocommit THEN <<"manual">> ELSE <<"auto">>) /\ wire.sql = sql
      BY <1>2, <1>16, <2>3 DEF TextInv
    <3>2. Len(wire.sql) = 1 /\ done \in 0..1
      BY <3>1
    <3>3. Mode' = IF done = 1 THEN ~autocommit ELSE autocommit
      BY <1>2, <1>12, <1>13, <1>16, <2>3, <3>1, <3>2 DEF Mode
    <3>4. /\ NotBeyond(after, Mode')
          /\ after.database = found.database
          /\ FirstInForce(found, autocommit, Len(ScopeOf(scope, autocommit)))
             => FirstInForce(after, Mode', Len(ScopeOf(scope, Mode')))
      BY <1>9, <1>13, <3>1, <3>2, <3>3, ModeRuns
    <3>5. QED
      BY <1>9, <2>1, <2>2, <3>4
  <2>4. CASE op # "autocommit"
    <3>1. wire.sql \in Seq(AppKinds)
      BY <1>2, <1>16, <2>4 DEF TextInv
    <3>2. Mode' = autocommit
      BY <1>2, <2>4 DEF Mode
    <3>3. /\ NotBeyond(after, autocommit)
          /\ after.database # "app" =>
                /\ after.database = found.database
                /\ FirstInForce(found, autocommit, Reached)
                   => FirstInForce(after, autocommit, Reached)
      BY <1>9, <1>13, <3>1, AppRuns
    <3>4. QED
      BY <1>9, <2>1, <2>2, <3>2, <3>3
  <2>5. QED
    BY <2>3, <2>4
<1>17. QED
  BY <1>3, <1>15, <1>16

LEMMA ScopeEngine ==
    TypeInv /\ TypeOK' /\ HomesInv /\ CatalogInv /\ Budget /\ KnownSession /\ TextInv
        /\ NoSessionYet /\ NoOldSession /\ ScopeInForce /\ Engine
    => ScopeInForce'
<1> SUFFICES ASSUME TypeInv, TypeOK, TypeOK', HomesInv, CatalogInv, Budget, KnownSession,
                    TextInv, NoSessionYet, NoOldSession, ScopeInForce, Engine
             PROVE  ScopeInForce'
  BY DEF TypeInv
<1>1. UNCHANGED <<session_id, tracks_sessions, connected, scope_pending, autocommit, scope>>
      /\ UNCHANGED <<pc, op, sql, stage, at>>
  BY EngineLeavesDriver DEF dbcVars, callVars
<1>2. Reached \in Int
  BY ReachedTypes DEF ReachedTyped
<1>3. CASE EngineRuns
  BY <1>3, ScopeRuns
<1>4. CASE EngineRefuses
  <2>1. /\ wire.type = "request" /\ wire'.type = "answer" /\ wire'.session = NoSession
        /\ wire'.kind # "ok" /\ UNCHANGED <<live, holds, doubtful>>
    BY <1>4 DEF EngineRefuses, Requesting, engineVars
  <2>2. NextId' = NextId /\ NextTracks' = NextTracks /\ ~Replaced(wire)'
        /\ ~Answered("ok") /\ ~Answered("ok")'
    BY <1>1, <2>1 DEF NextId, NextTracks, IdAfter, TracksAfter, Replaced, Answered
  <2>3. Mode' = Mode
    BY <1>1, <2>2 DEF Mode
  <2>4. Reached' = Reached
    BY <1>1, <2>1, <2>2, <2>3 DEF Reached
  <2>5. QED
    BY <1>1, <1>2, <2>1, <2>2, <2>3, <2>4, ScopeKept
<1>5. CASE EngineReleases
  <2>1. pc' = "release"
    BY <1>1, <1>5 DEF EngineReleases, HomesInv, WireFollowsCall
  <2>2. QED
    BY <2>1 DEF ScopeInForce
<1>6. CASE EngineLoses \/ EngineUpgraded \/ LateRequestRuns \/ LateRequestDropped
  <2>1. wire' = wire
    BY <1>6 DEF EngineLoses, EngineUpgraded, LateRequestRuns, LateRequestDropped
  <2>2. NextId' = NextId /\ NextTracks' = NextTracks /\ Mode' = Mode /\ Reached' = Reached
    BY <1>1, <2>1 DEF NextId, NextTracks, Mode, Reached, IdAfter, TracksAfter, Replaced, Answered
  <2>3. ASSUME NEW s \in live' \ doubtful'
        PROVE  /\ s \in live \ doubtful
               /\ holds'[s].database = holds[s].database
               /\ holds'[s].schema = holds[s].schema
               /\ holds'[s].auto = holds[s].auto
    <3>1. CASE EngineLoses
      <4>1. PICK session \in live :
                /\ live' = live \ {session} /\ doubtful' = doubtful \ {session}
                /\ holds' = [holds EXCEPT ![session] = FreshSession]
        BY <3>1 DEF EngineLoses
      <4>2. QED
        BY <2>3, <4>1
    <3>2. CASE EngineUpgraded
      BY <2>3, <3>2 DEF EngineUpgraded
    <3>3. CASE LateRequestRuns
      <4>1. PICK request \in late :
                \E session \in RunsIn(request), done \in 0..Len(request.sql) :
                    /\ Runs(request, session, done)
                    /\ doubtful' = IF session \in live /\ ~Sets(request.sql)
                                   THEN doubtful ELSE doubtful \cup {session}
        BY <3>3 DEF LateRequestRuns
      <4>2. PICK session \in RunsIn(request), done \in 0..Len(request.sql) :
                /\ Runs(request, session, done)
                /\ doubtful' = IF session \in live /\ ~Sets(request.sql)
                               THEN doubtful ELSE doubtful \cup {session}
        BY <4>1
      <4>3. live' = live \cup {session} /\ doubtful \subseteq doubtful'
        BY <4>2 DEF Runs
      <4>4. CASE s = session
        <5>1. s \in live /\ ~Sets(request.sql) /\ doubtful' = doubtful
          BY <2>3, <4>2, <4>4
        <5>2. request.sql \in Seq(Kinds)
          BY TextsShape DEF TypeOK, WireType, RequestMessages
        <5>3. s \in DOMAIN holds /\ holds[s].auto \in BOOLEAN
          BY <5>1 DEF TypeOK, EngineType, Sessions
        <5>4. holds'[s] = After(holds[s], SubSeq(request.sql, 1, done))
          BY <4>2, <4>4, <5>1, <5>3 DEF Runs
        <5>5. QED
          BY <2>3, <5>1, <5>2, <5>3, <5>4, KeepsSettings
      <4>5. CASE s # session
        <5>1. s \in live \ doubtful
          BY <2>3, <4>3, <4>5
        <5>2. holds'[s] = holds[s]
          BY <4>2, <4>5, <5>1 DEF Runs, TypeOK, EngineType
        <5>3. QED
          BY <5>1, <5>2
      <4>6. QED
        BY <4>4, <4>5
    <3>4. CASE LateRequestDropped
      BY <2>3, <3>4 DEF LateRequestDropped, engineVars, historyVars
    <3>5. QED
      BY <1>6, <3>1, <3>2, <3>3, <3>4
  <2>4. QED
    BY <1>1, <1>2, <2>2, <2>3, ScopeKept
<1>7. QED
  BY <1>3, <1>4, <1>5, <1>6 DEF Engine

ScopeInv ==
    /\ TypeInv /\ HomesInv /\ CatalogInv /\ Budget
    /\ KnownSession /\ TextInv /\ NoSessionYet /\ NoOldSession /\ ScopeInForce

LEMMA ScopeInForceStep == ScopeInv /\ TypeOK' /\ [Next]_vars => ScopeInForce'
<1> SUFFICES ASSUME TypeInv, TypeOK, TypeOK', CallShape, HomesInv, CatalogInv, Budget,
                    KnownSession, TextInv, NoSessionYet, NoOldSession, ScopeInForce, [Next]_vars
             PROVE  ScopeInForce'
  BY DEF ScopeInv, TypeInv
<1>0. pc = "idle" => wire = NoMessage
  BY DEF CallShape
<1>0a. Reached \in Int /\ Reached' \in Int /\ at \in 1..4 /\ stage \in 0..3
       /\ at' \in 1..4 /\ Len(ScopeList) \in 0..3
  BY ReachedTypes, ReachedTypesNext DEF ReachedTyped
<1>0b. NoSession \notin live'
  BY NoSessionAssumption DEF TypeOK, EngineType
<1>1. CASE CallsBegin
  <2>1. PICK o \in Ops, text \in Texts : Begins(o, text) /\ o # "connect"
    BY <1>1, CallTexts
  <2>2. /\ pc = "idle" /\ wire = NoMessage /\ wire' = NoMessage /\ op' # "connect" /\ at' = 1
        /\ pc' = IF scope_pending THEN "scope" ELSE "statement"
    BY <1>0, <2>1 DEF Begins, Execute
  <2>3. /\ UNCHANGED <<connected, session_id, tracks_sessions, scope_pending, autocommit, scope>>
        /\ UNCHANGED <<live, holds, doubtful>>
    BY <2>1 DEF Begins, dbcVars, engineVars
  <2>4. wire.type # "answer" /\ wire'.type # "answer" /\ ~Answered("ok") /\ ~Answered("ok")'
    BY <2>2 DEF NoMessage, Answered
  <2>5. NextId' = NextId /\ NextTracks' = NextTracks /\ Mode' = autocommit /\ Mode = autocommit
    BY <2>3, <2>4 DEF NextId, NextTracks, Mode
  <2>6. Reached' = Reached
    BY <2>2, <2>3, <2>4, <2>5 DEF Reached
  <2>7. QED
    BY <1>0a, <2>2, <2>3, <2>5, <2>6, ScopeKept
<1>2. CASE SetsUnconnected
  BY <1>2, SetsUnconnectedShape DEF ScopeInForce
<1>3. CASE Connects
  <2>1. PICK named : Connect(named) /\ pc' \in {"idle", "statement"}
    BY <1>3, ConnectShape DEF Connects
  <2>2. session_id' = NoSession /\ wire'.type # "answer"
    BY <1>0, <2>1 DEF Connect, NoMessage
  <2>3. QED
    BY <1>0b, <2>2 DEF ScopeInForce, NextId
<1>4. CASE ConnectUnreachable \/ SQLDisconnect
  <2>1. ~connected'
    BY <1>4 DEF ConnectUnreachable, SQLDisconnect, dbcVars
  <2>2. QED
    BY <2>1 DEF ScopeInForce
<1>5. CASE Sends
  <2>1. UNCHANGED <<dbcVars, callVars, live, holds, doubtful>>
        /\ wire = NoMessage /\ wire'.type # "answer"
    BY <1>5, SendsLeavesDriver
       DEF engineVars, Sends, SendScope, SendStatement, SendRelease, historyVars
  <2>2. wire.type # "answer" /\ ~Answered("ok") /\ ~Answered("ok")'
    BY <2>1 DEF NoMessage, Answered
  <2>3. NextId' = NextId /\ NextTracks' = NextTracks /\ Mode' = Mode
    BY <2>1, <2>2 DEF NextId, NextTracks, Mode, dbcVars, callVars
  <2>4. Reached' = Reached
    BY <2>1, <2>2, <2>3 DEF Reached, dbcVars, callVars
  <2>5. QED
    BY <1>0a, <2>1, <2>3, <2>4, ScopeKept DEF dbcVars, callVars
<1>6. CASE ScopeAnswered \/ Refused \/ Succeeded \/ ConnectStatementSucceeded
  BY <1>6, ScopeAbsorbs
<1>7. CASE ScopeApplied
  <2>1. /\ pc = "scope" /\ wire = NoMessage /\ wire' = NoMessage /\ at > Len(ScopeList)
        /\ pc' = "statement" /\ ~scope_pending'
        /\ UNCHANGED <<connected, session_id, tracks_sessions, autocommit, scope, op, stage>>
        /\ UNCHANGED <<live, holds, doubtful>>
    BY <1>7 DEF ScopeApplied, engineVars, historyVars
  <2>2. wire.type # "answer" /\ wire'.type # "answer" /\ ~Answered("ok") /\ ~Answered("ok")'
    BY <2>1 DEF NoMessage, Answered
  <2>3. NextId' = NextId /\ NextTracks' = NextTracks /\ Mode' = autocommit /\ Mode = autocommit
    BY <2>1, <2>2 DEF NextId, NextTracks, Mode
  <2>4. Reached = at - 1
    BY <1>0a, <2>1, <2>2 DEF Reached
  <2>5. Reached' <= Reached
    <3>1. CASE op = "connect"
      <4>1. stage <= Len(ScopeList)
        BY <2>1, <3>1 DEF Budget, ConnectBudget
      <4>2. Reached' = stage - 1
        BY <1>0a, <2>1, <2>2, <3>1 DEF Reached
      <4>3. QED
        BY <1>0a, <2>1, <2>4, <4>1, <4>2
    <3>2. CASE op # "connect"
      <4>1. Reached' = Len(ScopeList)
        BY <2>1, <2>2, <2>3, <3>2 DEF Reached, ScopeList
      <4>2. QED
        BY <1>0a, <2>1, <2>4, <4>1
    <3>3. QED
      BY <3>1, <3>2
  <2>6. QED
    BY <2>1, <2>3, <2>5, ScopeKept
<1>8. CASE ScopeRestarts \/ StatementRestarts \/ ReportLost
  <2>1. session_id' = NoSession /\ wire'.type # "answer"
    BY <1>8 DEF ScopeRestarts, StatementRestarts, ReportLost, ForgetSession, NoMessage
  <2>2. QED
    BY <1>0b, <2>1 DEF ScopeInForce, NextId
<1>9. CASE Released
  BY <1>9 DEF Released, HomesInv, HeldByConnection, ScopeInForce
<1>10. CASE GiveUp
  BY <1>10, ScopeGivesUp
<1>11. CASE Engine
  BY <1>11, ScopeEngine
<1>12. CASE UNCHANGED vars
  <2>1. UNCHANGED <<connected, session_id, tracks_sessions, scope_pending, autocommit, scope>>
        /\ UNCHANGED <<pc, op, sql, stage, at, wire, live, holds, doubtful>>
    BY <1>12 DEF vars, dbcVars, callVars, engineVars, historyVars
  <2>2. NextId' = NextId /\ NextTracks' = NextTracks /\ Mode' = Mode /\ Reached' = Reached
    BY <2>1 DEF NextId, NextTracks, Mode, Reached, IdAfter, TracksAfter, Replaced, Answered
  <2>3. QED
    BY <1>0a, <2>1, <2>2, ScopeKept
<1>13. QED
  BY <1>1, <1>2, <1>3, <1>4, <1>5, <1>6, <1>7, <1>8, <1>9, <1>10, <1>11, <1>12, Steps

------------------------------------------------------------------------------
\* RunsOnScope

\* The session the application's request runs in, when it is the engine's turn.
LEMMA OnScopeWhereItRuns ==
    ASSUME ScopeInv, AppRequest, EngineRuns, wire.session \notin doubtful, tracks_sessions # 0,
           SessionFor(wire).database # "app"
    PROVE  OnScope(SessionFor(wire))
<1>1. /\ TypeInv /\ TypeOK /\ HomesInv /\ CatalogInv /\ KnownSession /\ NoSessionYet
      /\ ScopeInForce
  BY DEF ScopeInv, TypeInv
<1>2. /\ wire.type = "request" /\ wire.session = session_id /\ ~Refuses(wire) /\ connected
      /\ wire.require = RequireSession /\ pc = "statement" /\ op # "connect"
  BY <1>1 DEF EngineRuns, Requesting, AppRequest, HomesInv, ResumedOrRefused, HeldByConnection
<1>3. tracks_sessions \in {-1, 1} /\ (session_id # NoSession => tracks_sessions = 1)
  BY <1>1 DEF TypeOK, DbcType, KnownSession
<1>4. autocommit \in BOOLEAN /\ scope \in SUBSET {"database", "schema"}
  BY <1>1 DEF TypeOK, DbcType
<1>5. Mode = autocommit /\ NextId = session_id /\ NextTracks = tracks_sessions
      /\ ~scope_pending
  BY <1>1, <1>2 DEF Mode, NextId, NextTracks, Answered, CatalogInv
<1>6. CASE session_id \in live
  <2>1. session_id # NoSession /\ holds[session_id] \in Sessions
    BY <1>1, <1>6, NoSessionAssumption DEF TypeOK, EngineType
  <2>2. SessionFor(wire) = holds[session_id]
    BY <1>2, <1>6 DEF SessionFor
  <2>3. Scoped(holds[session_id], autocommit, Reached)
    BY <1>1, <1>2, <1>3, <1>5, <1>6, <2>1 DEF ScopeInForce
  <2>4. Reached = Len(ScopeOf(scope, autocommit))
    BY <1>2, <1>5 DEF Reached
  <2>5. QED
    BY <1>1, <2>1, <2>2, <2>3, <2>4, InForceIsOnScope DEF Scoped
<1>7. CASE session_id \notin live
  <2>1. session_id = NoSession
    BY <1>1, <1>2, <1>3, <1>7
       DEF Refuses, RequireSession, HomesInv, KnownToTrack
  <2>2. ScopeOf(scope, autocommit) = <<>>
    BY <1>1, <1>2, <2>1 DEF NoSessionYet, ScopeList
  <2>3. SessionFor(wire) = FreshSession
    BY <1>2, <1>7 DEF SessionFor
  <2>4. FirstInForce(FreshSession, autocommit, Len(ScopeOf(scope, autocommit)))
    BY <2>2 DEF FirstInForce
  <2>5. NotBeyond(FreshSession, autocommit) /\ FreshSession.database # "app"
    BY DEF NotBeyond, FreshSession
  <2>6. QED
    BY <1>1, <2>3, <2>4, <2>5, FreshSessionType, InForceIsOnScope
<1>8. QED
  BY <1>6, <1>7

\* For every application and every DSN, with engines upgraded part way through
\* and requests that arrive late: a statement of the application runs in a
\* session on the connection's scope, but for what RunsOnScope excepts, which is
\* a session the application moved, one whose settings nobody was told the fate
\* of, and an engine that replaces sessions unasked (apply_scope,
\* proto.c:321-330, and do_connect's own statements).
THEOREM StaysOnScope == Spec => RunsOnScope
<1>1. Init => ScopeInv
  BY InitType, HomesInit, CatalogInit, BudgetInit, KnownInit, TextInit, NoSessionYetInit,
     NoOldSessionInit, ScopeInForceInit DEF ScopeInv
<1>2. ScopeInv /\ [Next]_vars => ScopeInv'
  <2> SUFFICES ASSUME ScopeInv, [Next]_vars PROVE ScopeInv'
    OBVIOUS
  <2>1. TypeInv' /\ HomesInv' /\ TypeOK'
    BY HomesStep DEF ScopeInv, TypeInv
  <2>2. CatalogInv' /\ Budget' /\ KnownSession' /\ TextInv'
    BY CatalogStep, BudgetStep, KnownSessionStep, TextStep DEF ScopeInv
  <2>3. NoSessionYet' /\ NoOldSession'
    BY NoSessionYetStep, NoOldStep DEF ScopeInv
  <2>4. ScopeInForce'
    BY <2>1, ScopeInForceStep
  <2>5. QED
    BY <2>1, <2>2, <2>3, <2>4 DEF ScopeInv
<1>3. ScopeInv /\ [Next]_vars =>
          [ AppRequest /\ Requesting /\ wire'.type = "answer" /\ wire'.session # NoSession
            /\ wire.session \notin doubtful /\ tracks_sessions # 0
            /\ SessionFor(wire).database # "app"
            => OnScope(SessionFor(wire)) ]_vars
  <2> SUFFICES ASSUME ScopeInv, [Next]_vars,
                      AppRequest, wire.type = "request", wire'.type = "answer",
                      wire'.session # NoSession,
                      wire.session \notin doubtful, tracks_sessions # 0,
                      SessionFor(wire).database # "app"
               PROVE  OnScope(SessionFor(wire))
    BY DEF Requesting
  <2>1. CASE Engine
    <3>1. wire'.session = NoSession \/ wire' = wire \/ EngineRuns
      BY <2>1 DEF Engine, EngineRefuses, EngineReleases, EngineLoses, EngineUpgraded,
                  LateRequestRuns, LateRequestDropped
    <3>2. QED
      BY <3>1, OnScopeWhereItRuns
  <2>2. CASE ~Engine
    <3>1. pc = "statement"
      BY DEF AppRequest
    <3>2. wire' = NoMessage \/ wire' = wire
      <4>1. ~(CallsBegin \/ SetsUnconnected \/ Connects \/ ConnectUnreachable \/ SQLDisconnect)
        BY <3>1, SetsUnconnectedShape
           DEF CallsBegin, Exec, SQLEndTran, SetAutocommit, SetCatalog, Begins, Connects,
               ConnectWithoutScope, ConnectWithScope, Connect, ConnectUnreachable, SQLDisconnect
      <4>2. ~Sends
        BY SendsLeavesDriver DEF NoMessage
      <4>3. CASE ScopeAnswered \/ ScopeApplied \/ ScopeRestarts \/ StatementRestarts
        BY <4>3 DEF ScopeAnswered, ScopeApplied, ScopeRestarts, StatementRestarts
      <4>4. CASE ReportLost \/ Refused \/ Succeeded \/ ConnectStatementSucceeded
                 \/ Released \/ GiveUp
        BY <4>4 DEF ReportLost, Refused, Succeeded, ConnectStatementSucceeded, Released, GiveUp
      <4>5. CASE UNCHANGED vars
        BY <4>5 DEF vars
      <4>6. QED
        BY <2>2, <4>1, <4>2, <4>3, <4>4, <4>5, Steps
    <3>3. QED
      BY <3>2 DEF NoMessage
  <2>3. QED
    BY <2>1, <2>2
<1>4. QED
  BY <1>1, <1>2, <1>3, PTL DEF Spec, RunsOnScope
=============================================================================
