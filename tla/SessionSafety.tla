----------------------------- MODULE SessionSafety -----------------------------
(***************************************************************************)
(* Safety of SessionProtocol proved for every instance: what the driver    *)
(* says of a call is what happened to it, and a session the application    *)
(* relies on is never replaced behind its back.                            *)
(***************************************************************************)
EXTENDS SessionProperties, TLAPS

------------------------------------------------------------------------------
\* Types

\* The scope is at most three statements, all of them the driver's.
LEMMA ScopeOfShape ==
    ASSUME NEW named \in SUBSET {"database", "schema"}, NEW auto \in BOOLEAN
    PROVE  /\ Len(ScopeOf(named, auto)) \in 0..3
           /\ \A i \in 1..Len(ScopeOf(named, auto)) : ScopeOf(named, auto)[i] \in DriverKinds
           /\ ScopeOf(named, auto) # <<>> => Head(ScopeOf(named, auto)) \in DriverKinds
<1> DEFINE D == IF "database" \in named THEN <<"use_database">> ELSE <<>>
           S == IF "schema" \in named THEN <<"use_schema">> ELSE <<>>
           M == IF auto THEN <<>> ELSE <<"manual">>
<1>1. ScopeOf(named, auto) = D \o S \o M
  BY DEF ScopeOf
<1>2. /\ D \in {<<>>, <<"use_database">>}
      /\ S \in {<<>>, <<"use_schema">>}
      /\ M \in {<<>>, <<"manual">>}
  OBVIOUS
<1> HIDE DEF D, S, M
<1>3. QED
  BY <1>1, <1>2, SMTT(30) DEF DriverKinds

------------------------------------------------------------------------------
\* Types. What a step does to the wire and to the call's locals stays in type
\* because of where the call is: CallShape says that much of `pc`.

CallShape ==
    /\ pc = "idle" => wire = NoMessage
    /\ pc \in {"scope", "statement"} => sql \in Texts
    /\ pc = "scope" /\ wire # NoMessage => at <= Len(ScopeList)

TypeInv == TypeOK /\ CallShape

\* What the requests of a call are made of.
LEMMA TextsShape ==
    ASSUME NEW text \in Texts
    PROVE  text \in Seq(Kinds) /\ Len(text) \in Nat \ {0}
<1>1. CASE text \in Requests
  BY <1>1, RequestsAssumption DEF Kinds
<1>2. CASE text \in {<<kind>> : kind \in Kinds}
  <2>1. PICK kind \in Kinds : text = <<kind>>
    BY <1>2
  <2>2. QED
    BY <2>1
<1>3. QED
  BY <1>1, <1>2 DEF Texts

LEMMA ScopeListShape ==
    ASSUME TypeOK
    PROVE  /\ Len(ScopeList) \in 0..3
           /\ \A i \in 1..Len(ScopeList) : <<ScopeList[i]>> \in Texts
BY ScopeOfShape DEF TypeOK, DbcType, ScopeList, Texts, Kinds

LEMMA AfterType ==
    ASSUME NEW session \in Sessions, NEW text
    PROVE  After(session, text) \in Sessions
BY DEF After, Sessions, Has, Uncommitted, Databases

LEMMA FreshSessionType == FreshSession \in Sessions
BY DEF FreshSession, Sessions, Databases

LEMMA NotedTransactionType ==
    ASSUME NEW text, NEW auto \in BOOLEAN, NEW was \in BOOLEAN
    PROVE  NotedTransaction(text, auto, was) \in BOOLEAN
BY DEF NotedTransaction

\* Members of the sets of names, so that no proof below expands them.
LEMMA Names ==
    /\ {"none", "ok", "refused", "link"} \subseteq Results
    /\ LostResults \subseteq Results
    /\ {"connect", "exec", "endtran", "autocommit", "catalog", "disconnect"} \subseteq Ops
    /\ {"none", "dsn", "app"} \subseteq Databases
    /\ NoSession \in OptionalId
    /\ SessionIds \subseteq OptionalId
    /\ NoMessage \in Messages
BY DEF Results, LostResults, Ops, Databases, OptionalId, Messages

\* The three calls that only send one request more.
CallsBegin == Exec \/ SQLEndTran \/ SetAutocommit \/ SetCatalog

LEMMA CallsBeginShape ==
    ASSUME CallsBegin
    PROVE  \E o \in Ops, text \in Texts : Begins(o, text)
<1>1. CASE Exec
  BY <1>1, Names DEF Exec, Texts
<1>2. CASE SQLEndTran
  BY <1>2, Names DEF SQLEndTran, Texts, Kinds, AppKinds
<1>3. CASE SetAutocommit
  <2>1. (IF autocommit THEN <<"manual">> ELSE <<"auto">>) \in Texts
    BY DEF Texts, Kinds, DriverKinds
  <2>2. QED
    BY <1>3, <2>1, Names DEF SetAutocommit
<1>4. CASE SetCatalog
  BY <1>4, Names DEF SetCatalog, Texts, Kinds, AppKinds
<1>5. QED
  BY <1>1, <1>2, <1>3, <1>4 DEF CallsBegin

LEMMA InitType == Init => TypeInv
<1> SUFFICES ASSUME Init PROVE TypeInv
  OBVIOUS
<1>1. DbcType
  BY Names DEF Init, DbcType
<1>2. CallType
  BY Names DEF Init, CallType
<1>2a. PlaceType
  BY DEF Init, PlaceType
<1>3. WireType
  BY Names DEF Init, WireType
<1>4. EngineType
  BY FreshSessionType, MayBeOlderAssumption DEF Init, EngineType
<1>5. HistoryType
  BY Names DEF Init, HistoryType
<1>6. CallShape
  BY DEF Init, CallShape
<1>7. QED
  BY <1>1, <1>2, <1>2a, <1>3, <1>4, <1>5, <1>6 DEF TypeInv, TypeOK

\* What a step leaves alone keeps its type.
LEMMA Unmoved ==
    ASSUME TypeOK
    PROVE  /\ UNCHANGED dbcVars => DbcType'
           /\ UNCHANGED callVars => CallType' /\ PlaceType'
           /\ UNCHANGED <<wire, late>> => WireType'
           /\ UNCHANGED engineVars => EngineType'
           /\ UNCHANGED historyVars => HistoryType'
<1> USE DEF TypeOK
<1>1. UNCHANGED dbcVars => DbcType'
  BY DEF dbcVars, DbcType
<1>2. UNCHANGED callVars => CallType'
  BY DEF callVars, CallType
<1>2a. UNCHANGED callVars => PlaceType'
  BY DEF callVars, PlaceType
<1>3. UNCHANGED <<wire, late>> => WireType'
  BY DEF WireType
<1>4. UNCHANGED engineVars => EngineType'
  BY DEF engineVars, EngineType
<1>5. UNCHANGED historyVars => HistoryType'
  BY DEF historyVars, HistoryType
<1>6. QED
  BY <1>1, <1>2, <1>2a, <1>3, <1>4, <1>5

\* Both ways to start connecting, apart from whether a scope has to go on.
LEMMA ConnectShape ==
    ASSUME TypeOK, ConnectWithoutScope \/ ConnectWithScope
    PROVE  \E named \in SUBSET {"database", "schema"} :
               /\ Connect(named)
               /\ \/ pc' = "idle" /\ sql' = <<>>
                  \/ pc' = "statement" /\ sql' \in Texts
               /\ result' \in {"ok", "none"}
               /\ stage' \in {0, 1}
<1>1. CASE ConnectWithoutScope
  BY <1>1, DsnScopesAssumption DEF ConnectWithoutScope
<1>2. CASE ConnectWithScope
  <2>1. PICK named \in DsnScopes :
            /\ Connect(named)
            /\ pc' = "statement"
            /\ result' = "none"
            /\ stage' = 1
            /\ ScopeOf(named, autocommit) # <<>>
            /\ sql' = <<Head(ScopeOf(named, autocommit))>>
    BY <1>2 DEF ConnectWithScope
  <2>2. named \in SUBSET {"database", "schema"}
    BY DsnScopesAssumption
  <2>3. Head(ScopeOf(named, autocommit)) \in Kinds
    BY <2>1, <2>2, ScopeOfShape DEF Kinds, TypeOK, DbcType
  <2>4. sql' \in Texts
    BY <2>1, <2>3 DEF Texts
  <2>5. QED
    BY <2>1, <2>2, <2>4
<1>3. QED
  BY <1>1, <1>2

LEMMA ApplicationType == TypeInv /\ Application => TypeOK'
<1> SUFFICES ASSUME TypeOK, Application PROVE TypeOK'
  BY DEF TypeInv
<1> USE DEF TypeOK
<1>1. CASE CallsBegin
  <2>1. PICK o \in Ops, text \in Texts : Begins(o, text)
    BY <1>1, CallsBeginShape
  <2>2. CallType'
    BY <2>1, Names DEF Begins, Execute, CallType
  <2>2a. PlaceType'
    BY <2>1 DEF Begins, Execute, PlaceType
  <2>3. HistoryType'
    BY <2>1 DEF Begins, Execute, HistoryType
  <2>4. QED
    BY <2>1, <2>2, <2>2a, <2>3, Unmoved DEF Begins
<1>2. CASE SetAutocommitUnconnected
  <2>1. DbcType'
    BY <1>2 DEF SetAutocommitUnconnected, DbcType
  <2>2. QED
    BY <1>2, <2>1, Unmoved DEF SetAutocommitUnconnected
<1>3. CASE SetCatalogUnconnected
  <2>1. DbcType'
    BY <1>3, Names DEF SetCatalogUnconnected, DbcType
  <2>2. QED
    BY <1>3, <2>1, Unmoved DEF SetCatalogUnconnected
<1>4. CASE ConnectWithoutScope \/ ConnectWithScope
  <2>2. PICK named \in SUBSET {"database", "schema"} :
            /\ Connect(named)
            /\ pc' \in {"idle", "statement"}
            /\ result' \in {"ok", "none"}
            /\ stage' \in {0, 1}
            /\ sql' \in Texts \cup {<<>>}
    BY <1>4, ConnectShape
  <2>3. DbcType'
    BY <2>2, Names DEF Connect, DbcType
  <2>4. CallType'
    BY <2>2, Names DEF Connect, CallType
  <2>4a. PlaceType'
    BY <2>2 DEF Connect, PlaceType
  <2>5. HistoryType'
    BY <2>2 DEF Connect, HistoryType
  <2>6. QED
    BY <2>2, <2>3, <2>4, <2>4a, <2>5, Unmoved DEF Connect
<1>5. CASE ConnectUnreachable
  <2>1. CallType'
    BY <1>5, Names DEF ConnectUnreachable, CallType
  <2>1a. PlaceType'
    BY <1>5 DEF ConnectUnreachable, PlaceType
  <2>2. HistoryType'
    BY <1>5 DEF ConnectUnreachable, HistoryType
  <2>3. QED
    BY <1>5, <2>1, <2>1a, <2>2, Unmoved DEF ConnectUnreachable
<1>6. CASE SQLDisconnect
  <2>1. DbcType'
    BY <1>6 DEF SQLDisconnect, DbcType
  <2>2. CallType'
    BY <1>6, Names DEF SQLDisconnect, CallType
  <2>2a. PlaceType'
    BY <1>6 DEF SQLDisconnect, PlaceType
  <2>3. HistoryType'
    BY <1>6, Names DEF SQLDisconnect, HistoryType
  <2>4. QED
    BY <1>6, <2>1, <2>2, <2>2a, <2>3, Unmoved DEF SQLDisconnect
<1>7. QED
  BY <1>1, <1>2, <1>3, <1>4, <1>5, <1>6 DEF Application, CallsBegin

\* What absorbing an answer does to the connection.
LEMMA AbsorbOnlyType ==
    ASSUME DbcType, wire \in AnswerMessages, AbsorbOnly(wire),
           UNCHANGED <<autocommit, scope>>, connected' \in BOOLEAN
    PROVE  DbcType'
<1>1. session_id' \in OptionalId /\ tracks_sessions' \in {-1, 0, 1}
  BY DEF DbcType, AbsorbOnly, AbsorbSession, IdAfter, TracksAfter, AnswerMessages
<1>2. CASE Replaced(wire)
  BY <1>1, <1>2, Names DEF AbsorbOnly, ResetSessionState, DsnCatalog, DbcType
<1>3. CASE ~Replaced(wire)
  BY <1>1, <1>3 DEF AbsorbOnly, DbcType
<1>4. QED
  BY <1>2, <1>3

LEMMA ForgetSessionType ==
    ASSUME DbcType, ForgetSession, UNCHANGED <<tracks_sessions, autocommit, scope>>,
           connected' \in BOOLEAN
    PROVE  DbcType'
BY Names DEF ForgetSession, ResetSessionState, DsnCatalog, DbcType

LEMMA FailType ==
    ASSUME DbcType, CallType, NEW why \in Results, Fail(why), UNCHANGED op
    PROVE  connected' \in BOOLEAN /\ CallType' /\ PlaceType' /\ posts' \in Nat
<1>1. connected' \in BOOLEAN
  BY DEF Fail, DbcType
<1>2. CallType'
  BY DEF Fail, LocalsGone, CallType
<1>3. PlaceType'
  BY DEF Fail, LocalsGone, PlaceType
<1>4. posts' \in Nat
  BY DEF Fail, LocalsGone
<1>5. QED
  BY <1>1, <1>2, <1>3, <1>4

LEMMA AnswerShape ==
    ASSUME WireType, wire.type = "answer" PROVE wire \in AnswerMessages
BY DEF WireType, Messages, NoMessage, RequestMessages, ReleaseMessages

LEMMA RequestShape ==
    ASSUME WireType, wire.type = "request" PROVE wire \in RequestMessages
BY DEF WireType, Messages, NoMessage, AnswerMessages, ReleaseMessages

LEMMA PostType ==
    ASSUME DbcType, posts \in Nat, NEW text \in Texts, Post(text)
    PROVE  wire' \in Messages /\ posts' \in Nat
BY DEF DbcType, Post, RequireSession, Messages, RequestMessages

\* An answer taken off the wire.
LEMMA WireCleared ==
    ASSUME WireType, wire' = NoMessage, UNCHANGED late PROVE WireType'
BY Names DEF WireType

LEMMA DriverType == TypeInv /\ Driver => TypeOK'
<1> SUFFICES ASSUME TypeOK, CallShape, Driver PROVE TypeOK'
  BY DEF TypeInv
<1> USE DEF TypeOK
<1>1. CASE SendScope \/ SendStatement
  <2>1. \E text \in Texts : Post(text)
    <3>1. CASE SendScope
      <4>1. at \in 1..Len(ScopeList)
        BY <3>1, ScopeListShape DEF SendScope, PlaceType
      <4>2. <<ScopeList[at]>> \in Texts
        BY <4>1, ScopeListShape
      <4>3. QED
        BY <3>1, <4>2 DEF SendScope
    <3>2. CASE SendStatement
      BY <3>2 DEF SendStatement, CallShape
    <3>3. QED
      BY <1>1, <3>1, <3>2
  <2>2. WireType' /\ HistoryType'
    BY <1>1, <2>1, PostType DEF SendScope, SendStatement, WireType, HistoryType
  <2>3. QED
    BY <1>1, <2>2, Unmoved DEF SendScope, SendStatement
<1>2. CASE ScopeAnswered
  <2>1. wire \in AnswerMessages /\ AbsorbOnly(wire)
    BY <1>2, AnswerShape DEF ScopeAnswered, Answered
  <2>2. DbcType'
    BY <1>2, <2>1, AbsorbOnlyType DEF ScopeAnswered, DbcType
  <2>3. at <= Len(ScopeList)
    BY <1>2, <2>1 DEF ScopeAnswered, CallShape, NoMessage, AnswerMessages
  <2>4. CallType'
    BY <1>2, <2>3, ScopeListShape DEF ScopeAnswered, CallType
  <2>4a. PlaceType'
    <3>1. Len(ScopeList) \in 0..3
      BY ScopeListShape
    <3>2. at \in 1..4 /\ stage \in 0..3 /\ at' = at + 1 /\ stage' = stage
      BY <1>2 DEF ScopeAnswered, PlaceType
    <3>3. \A i \in 1..4, n \in 0..3 : i <= n => i + 1 \in 1..4
      OBVIOUS
    <3>4. at + 1 \in 1..4
      BY <2>3, <3>1, <3>2, <3>3, Zenon
    <3>5. QED
      BY <3>2, <3>4, Zenon DEF PlaceType
  <2>5. QED
    BY <1>2, <2>2, <2>4, <2>4a, WireCleared, Unmoved DEF ScopeAnswered
<1>3. CASE ScopeApplied
  <2>1. DbcType'
    BY <1>3 DEF ScopeApplied, DbcType
  <2>2. CallType'
    BY <1>3 DEF ScopeApplied, CallType
  <2>2a. PlaceType'
    BY <1>3 DEF ScopeApplied, PlaceType
  <2>3. QED
    BY <1>3, <2>1, <2>2, <2>2a, Unmoved DEF ScopeApplied
<1>4. CASE ScopeRestarts \/ StatementRestarts
  <2>1. DbcType'
    BY <1>4, ForgetSessionType DEF ScopeRestarts, StatementRestarts, DbcType
  <2>2. CallType'
    BY <1>4 DEF ScopeRestarts, StatementRestarts, CallType
  <2>2a. PlaceType'
    BY <1>4 DEF ScopeRestarts, StatementRestarts, PlaceType
  <2>3. QED
    BY <1>4, <2>1, <2>2, <2>2a, WireCleared, Unmoved DEF ScopeRestarts, StatementRestarts
<1>5. CASE ReportLost
  <2>1. LostResult \in Results
    BY Names DEF LostResult, LostResults
  <2>2. connected' \in BOOLEAN /\ CallType' /\ PlaceType' /\ posts' \in Nat
    BY <1>5, <2>1, FailType DEF ReportLost
  <2>3. DbcType'
    BY <1>5, <2>2, ForgetSessionType DEF ReportLost
  <2>4. HistoryType'
    BY <1>5, <2>2, Names DEF ReportLost, HistoryType
  <2>5. QED
    BY <1>5, <2>2, <2>3, <2>4, WireCleared, Unmoved DEF ReportLost
<1>6. CASE Refused
  <2>1. wire \in AnswerMessages /\ AbsorbOnly(wire)
    BY <1>6, AnswerShape DEF Refused, Answered
  <2>2. connected' \in BOOLEAN /\ CallType' /\ PlaceType' /\ posts' \in Nat
    BY <1>6, FailType, Names DEF Refused
  <2>3. DbcType'
    BY <1>6, <2>1, <2>2, AbsorbOnlyType DEF Refused
  <2>4. HistoryType'
    BY <1>6, <2>2 DEF Refused, HistoryType
  <2>5. QED
    BY <1>6, <2>2, <2>3, <2>4, WireCleared, Unmoved DEF Refused
<1>7. CASE Succeeded
  <2>1. wire \in AnswerMessages /\ AbsorbSession(wire)
    BY <1>7, AnswerShape DEF Succeeded, Answered
  <2>2. session_id' \in OptionalId /\ tracks_sessions' \in {-1, 0, 1}
    BY <2>1 DEF AbsorbSession, IdAfter, TracksAfter, AnswerMessages, DbcType
  <2>3. session_dirty' \in BOOLEAN
    BY <1>7 DEF Succeeded, NotedDirty, DbcType
  <2>3a. in_transaction' \in BOOLEAN
    BY <1>7, NotedTransactionType DEF Succeeded, DbcType
  <2>4. scope_pending' \in BOOLEAN /\ autocommit' \in BOOLEAN
    BY <1>7 DEF Succeeded, DbcType
  <2>5. catalog' \in Databases \cup {"garbled"}
    BY <1>7, Names DEF Succeeded, TrackedCatalog, DsnCatalog, DbcType
  <2>6. DbcType'
    BY <1>7, <2>2, <2>3, <2>3a, <2>4, <2>5 DEF Succeeded, DbcType
  <2>7. CallType'
    BY <1>7, Names DEF Succeeded, LocalsGone, CallType
  <2>7a. PlaceType'
    BY <1>7 DEF Succeeded, LocalsGone, PlaceType
  <2>8. HistoryType'
    BY <1>7, <2>1, Names DEF Succeeded, LocalsGone, AnswerMessages, HistoryType
  <2>9. QED
    BY <1>7, <2>6, <2>7, <2>7a, <2>8, WireCleared, Unmoved DEF Succeeded
<1>8. CASE ConnectStatementSucceeded
  <2>1. wire \in AnswerMessages /\ AbsorbSession(wire)
    BY <1>8, AnswerShape DEF ConnectStatementSucceeded, Answered
  <2>2. session_id' \in OptionalId /\ tracks_sessions' \in {-1, 0, 1}
    BY <2>1 DEF AbsorbSession, IdAfter, TracksAfter, AnswerMessages, DbcType
  <2>3. catalog' \in Databases \cup {"garbled"}
    BY <1>8, Names DEF ConnectStatementSucceeded, DsnCatalog, DbcType
  <2>4. DbcType'
    BY <1>8, <2>2, <2>3 DEF ConnectStatementSucceeded, DbcType
  <2>5. CallType' /\ PlaceType' /\ posts' \in Nat
    <3>1. CASE stage < Len(ScopeList)
      <4>1. sql' \in Texts /\ stage' \in 0..3
        BY <1>8, <3>1, ScopeListShape DEF ConnectStatementSucceeded, PlaceType
      <4>2. CallType'
        BY <1>8, <3>1, <4>1 DEF ConnectStatementSucceeded, CallType
      <4>3. PlaceType' /\ posts' \in Nat
        BY <1>8, <3>1, <4>1 DEF ConnectStatementSucceeded, PlaceType, HistoryType
      <4>4. QED
        BY <4>2, <4>3
    <3>2. CASE ~(stage < Len(ScopeList))
      <4>1. CallType'
        BY <1>8, <3>2, Names DEF ConnectStatementSucceeded, LocalsGone, CallType
      <4>2. PlaceType' /\ posts' \in Nat
        BY <1>8, <3>2 DEF ConnectStatementSucceeded, LocalsGone, PlaceType
      <4>3. QED
        BY <4>1, <4>2
    <3>3. QED
      BY <3>1, <3>2
  <2>6. HistoryType'
    BY <1>8, <2>5 DEF ConnectStatementSucceeded, HistoryType
  <2>7. QED
    BY <1>8, <2>4, <2>5, <2>6, WireCleared, Unmoved DEF ConnectStatementSucceeded
<1>9. CASE SendRelease
  <2>1. WireType'
    BY <1>9
       DEF SendRelease, MustRelease, Messages, ReleaseMessages, OptionalId, WireType, DbcType
  <2>2. QED
    BY <1>9, <2>1, Unmoved DEF SendRelease
<1>10. CASE Released
  <2>1. DbcType'
    BY <1>10, Names DEF Released, DbcType
  <2>2. CallType'
    BY <1>10 DEF Released, CallType
  <2>2a. PlaceType'
    BY <1>10 DEF Released, PlaceType
  <2>3. QED
    BY <1>10, <2>1, <2>2, <2>2a, WireCleared, Unmoved DEF Released
<1>11. QED
  BY <1>1, <1>2, <1>3, <1>4, <1>5, <1>6, <1>7, <1>8, <1>9, <1>10 DEF Driver

LEMMA GiveUpType == TypeInv /\ GiveUp => TypeOK'
<1> SUFFICES ASSUME TypeOK, GiveUp PROVE TypeOK'
  BY DEF TypeInv
<1> USE DEF TypeOK
<1>1. /\ connected' \in BOOLEAN
      /\ session_id' \in OptionalId
      /\ CallType' /\ PlaceType' /\ posts' \in Nat
  <2>1. CASE pc = "release"
    <3>1. CallType'
      BY <2>1 DEF GiveUp, LocalsGone, CallType
    <3>2. PlaceType'
      BY <2>1 DEF GiveUp, LocalsGone, PlaceType
    <3>3. QED
      BY <2>1, <3>1, <3>2, Names DEF GiveUp, LocalsGone, DbcType
  <2>2. CASE pc # "release"
    BY <2>2, FailType, Names DEF GiveUp, DbcType
  <2>3. QED
    BY <2>1, <2>2
<1>2. DbcType'
  BY <1>1 DEF GiveUp, DbcType
<1>3. WireType'
  BY RequestShape, Names DEF GiveUp, Requesting, WireType
<1>4. HistoryType'
  <2>1. Abandoned \subseteq SessionIds
    BY DEF Abandoned, EngineType
  <2>2. doubtful' \in SUBSET SessionIds
    BY DEF GiveUp, HistoryType, EngineType
  <2>3. QED
    BY <1>1, <2>1, <2>2 DEF GiveUp, HistoryType
<1>5. QED
  BY <1>1, <1>2, <1>3, <1>4, Unmoved DEF GiveUp

\* Where a request runs is a session, and running it leaves one.
LEMMA RunsType ==
    ASSUME EngineType, NEW request \in RequestMessages, NEW session \in RunsIn(request),
           NEW done \in 0..Len(request.sql), Runs(request, session, done)
    PROVE  session \in SessionIds /\ EngineType'
<1>1. session \in SessionIds
  BY DEF RunsIn, FreshIds, RequestMessages, OptionalId, EngineType
<1>2. (IF session \in live THEN holds[session] ELSE FreshSession) \in Sessions
  BY <1>1, FreshSessionType DEF EngineType
<1>3. After(IF session \in live THEN holds[session] ELSE FreshSession,
            SubSeq(request.sql, 1, done)) \in Sessions
  BY <1>2, AfterType
<1>4. QED
  BY <1>1, <1>3 DEF Runs, EngineType

LEMMA EngineTyped == TypeInv /\ Engine => TypeOK'
<1> SUFFICES ASSUME TypeOK, Engine PROVE TypeOK'
  BY DEF TypeInv
<1> USE DEF TypeOK
<1>1. CASE EngineRuns
  <2>1. wire \in RequestMessages
    BY <1>1, RequestShape DEF EngineRuns, Requesting
  <2>2. PICK session \in RunsIn(wire), done \in 0..Len(wire.sql) :
            /\ Runs(wire, session, done)
            /\ wire' = [type |-> "answer",
                        kind |-> IF done = Len(wire.sql) THEN "ok" ELSE "refused",
                        session |-> session, reports |-> tracking,
                        started |-> session \notin live]
            /\ calm' = (calm /\ done = Len(wire.sql))
    BY <1>1 DEF EngineRuns
  <2>3. session \in SessionIds /\ EngineType'
    BY <2>1, <2>2, RunsType
  <2>4. WireType'
    BY <1>1, <2>2, <2>3
       DEF EngineRuns, WireType, Messages, AnswerMessages, OptionalId, EngineType
  <2>5. HistoryType'
    BY <1>1, <2>2 DEF EngineRuns, HistoryType
  <2>6. QED
    BY <1>1, <2>3, <2>4, <2>5, Unmoved DEF EngineRuns
<1>2. CASE EngineRefuses
  <2>1. WireType'
    BY <1>2 DEF EngineRefuses, WireType, Messages, AnswerMessages, OptionalId, EngineType
  <2>2. HistoryType'
    BY <1>2 DEF EngineRefuses, HistoryType
  <2>3. QED
    BY <1>2, <2>1, <2>2, Unmoved DEF EngineRefuses
<1>3. CASE EngineReleases
  <2>1. WireType'
    BY <1>3 DEF EngineReleases, WireType, Messages, AnswerMessages, OptionalId, EngineType
  <2>2. EngineType'
    BY <1>3, FreshSessionType DEF EngineReleases, EngineType
  <2>3. HistoryType'
    BY <1>3 DEF EngineReleases, HistoryType
  <2>4. QED
    BY <1>3, <2>1, <2>2, <2>3, Unmoved DEF EngineReleases
<1>4. CASE EngineLoses
  <2>1. EngineType'
    BY <1>4, FreshSessionType DEF EngineLoses, EngineType
  <2>2. HistoryType'
    BY <1>4 DEF EngineLoses, HistoryType
  <2>3. QED
    BY <1>4, <2>1, <2>2, Unmoved DEF EngineLoses
<1>5. CASE EngineUpgraded
  <2>1. EngineType'
    BY <1>5, FreshSessionType DEF EngineUpgraded, EngineType
  <2>2. HistoryType'
    BY <1>5 DEF EngineUpgraded, HistoryType
  <2>3. QED
    BY <1>5, <2>1, <2>2, Unmoved DEF EngineUpgraded
<1>6. CASE LateRequestRuns
  <2>1. PICK request \in late :
            /\ late' = late \ {request}
            /\ \E session \in RunsIn(request), done \in 0..Len(request.sql) :
                /\ Runs(request, session, done)
                /\ orphans' = IF session \in live THEN orphans ELSE orphans \cup {session}
                /\ doubtful' = IF session \in live /\ ~Sets(request.sql)
                               THEN doubtful ELSE doubtful \cup {session}
    BY <1>6 DEF LateRequestRuns
  <2>2. request \in RequestMessages
    BY DEF WireType
  <2>3. EngineType' /\ orphans' \in SUBSET SessionIds /\ doubtful' \in SUBSET SessionIds
    BY <2>1, <2>2, RunsType DEF HistoryType
  <2>4. WireType'
    BY <1>6, <2>1 DEF LateRequestRuns, WireType
  <2>5. HistoryType'
    BY <1>6, <2>3 DEF LateRequestRuns, HistoryType
  <2>6. QED
    BY <1>6, <2>3, <2>4, <2>5, Unmoved DEF LateRequestRuns
<1>7. CASE LateRequestDropped
  <2>1. WireType'
    BY <1>7 DEF LateRequestDropped, WireType
  <2>2. QED
    BY <1>7, <2>1, Unmoved DEF LateRequestDropped
<1>8. QED
  BY <1>1, <1>2, <1>3, <1>4, <1>5, <1>6, <1>7 DEF Engine

------------------------------------------------------------------------------
LEMMA CallShapeStep == TypeInv /\ Next => CallShape'
<1> SUFFICES ASSUME TypeOK, CallShape, Next PROVE CallShape'
  BY DEF TypeInv
<1> USE DEF CallShape
<1>1. CASE CallsBegin
  <2>1. PICK o \in Ops, text \in Texts : Begins(o, text)
    BY <1>1, CallsBeginShape
  <2>2. QED
    BY <2>1 DEF Begins, Execute
<1>2. CASE \/ SetAutocommitUnconnected \/ SetCatalogUnconnected
           \/ ConnectUnreachable \/ SQLDisconnect
  BY <1>2 DEF SetAutocommitUnconnected, SetCatalogUnconnected, ConnectUnreachable,
              SQLDisconnect, callVars
<1>3. CASE ConnectWithoutScope \/ ConnectWithScope
  <2>1. PICK named :
            /\ Connect(named)
            /\ \/ pc' = "idle" /\ sql' = <<>>
               \/ pc' = "statement" /\ sql' \in Texts
    BY <1>3, ConnectShape
  <2>2. QED
    BY <2>1 DEF Connect
<1>4. CASE SendScope
  BY <1>4 DEF SendScope, dbcVars, callVars, ScopeList
<1>5. CASE SendStatement
  BY <1>5 DEF SendStatement, dbcVars, callVars
<1>6. CASE ScopeAnswered \/ ScopeApplied \/ ScopeRestarts \/ StatementRestarts
  BY <1>6 DEF ScopeAnswered, ScopeApplied, ScopeRestarts, StatementRestarts
<1>7. CASE ReportLost \/ Refused
  BY <1>7 DEF ReportLost, Refused, Fail
<1>8. CASE Succeeded
  BY <1>8 DEF Succeeded
<1>9. CASE ConnectStatementSucceeded
  <2>1. CASE stage < Len(ScopeList)
    <3>1. stage + 1 \in 1..Len(ScopeList)
      BY <2>1, ScopeListShape DEF TypeOK, PlaceType
    <3>2. <<ScopeList[stage + 1]>> \in Texts
      BY <3>1, ScopeListShape
    <3>3. QED
      BY <1>9, <2>1, <3>2 DEF ConnectStatementSucceeded
  <2>2. CASE ~(stage < Len(ScopeList))
    BY <1>9, <2>2 DEF ConnectStatementSucceeded
  <2>3. QED
    BY <2>1, <2>2
<1>10. CASE SendRelease \/ Released
  BY <1>10 DEF SendRelease, Released, dbcVars, callVars
<1>11. CASE GiveUp
  BY <1>11 DEF GiveUp, Fail
<1>12. CASE EngineRuns \/ EngineRefuses \/ EngineReleases
  BY <1>12 DEF EngineRuns, EngineRefuses, EngineReleases, Requesting, NoMessage,
               dbcVars, callVars, ScopeList
<1>13. CASE EngineLoses \/ EngineUpgraded \/ LateRequestRuns \/ LateRequestDropped
  BY <1>13 DEF EngineLoses, EngineUpgraded, LateRequestRuns, LateRequestDropped,
               dbcVars, callVars, ScopeList
<1>14. QED
  BY <1>1, <1>2, <1>3, <1>4, <1>5, <1>6, <1>7, <1>8, <1>9, <1>10, <1>11, <1>12, <1>13
     DEF Next, Application, CallsBegin, Driver, Engine

LEMMA TypeInvStep == TypeInv /\ [Next]_vars => TypeInv'
<1> SUFFICES ASSUME TypeInv, [Next]_vars PROVE TypeInv'
  OBVIOUS
<1>1. CASE Next
  <2>1. TypeOK'
    BY <1>1, ApplicationType, DriverType, GiveUpType, EngineTyped DEF Next
  <2>2. QED
    BY <1>1, <2>1, CallShapeStep DEF TypeInv
<1>2. CASE UNCHANGED vars
  <2>1. TypeOK'
    BY <1>2, Unmoved DEF TypeInv, TypeOK, vars
  <2>2. CallShape'
    BY <1>2 DEF TypeInv, CallShape, vars, dbcVars, callVars, ScopeList
  <2>3. QED
    BY <2>1, <2>2 DEF TypeInv
<1>3. QED
  BY <1>1, <1>2

\* Whatever the engine, the link and the application do, every variable of the
\* driver and every message keeps its type: no answer can put a value into the
\* connection that its struct fl_dbc cannot hold.
THEOREM TypeCorrect == Spec => []TypeOK
<1>1. TypeInv => TypeOK
  BY DEF TypeInv
<1>2. QED
  BY InitType, TypeInvStep, <1>1, PTL DEF Spec

------------------------------------------------------------------------------
\* What runs, and what is told of it

\* What the driver notes of a request never misses work left uncommitted.
LEMMA NotesWhatIsUncommitted ==
    ASSUME NEW text \in Texts, NEW auto \in BOOLEAN,
           NEW w1 \in BOOLEAN, NEW w2 \in BOOLEAN, w1 => w2,
           Uncommitted(text, auto, w1)
    PROVE  NotedTransaction(text, auto, w2)
<1>1. text \in Seq(Kinds) /\ Len(text) \in Nat \ {0}
  BY TextsShape
<1>2. \A i \in DOMAIN text : TransactionEffect(text[i]) >= 0 <=> text[i] # "end"
  BY DEF TransactionEffect
<1>3. CASE auto
  <2>1. Deciding(text, auto) = Committing(text, auto)
    BY <1>3 DEF Deciding, Committing, TransactionEffect
  <2>2. QED
    BY <1>2, <2>1 DEF Uncommitted, NotedTransaction
<1>4. CASE ~auto
  <2>1. DOMAIN text = 1..Len(text)
    BY <1>1
  <2>2. Deciding(text, auto) = 1..Len(text)
    BY <1>4, <2>1 DEF Deciding
  <2>3. IsLast(Len(text), Deciding(text, auto))
    BY <1>1, <2>2 DEF IsLast
  <2>4. text[Len(text)] # "end"
    <3>1. SUFFICES ASSUME text[Len(text)] = "end" PROVE FALSE
      OBVIOUS
    <3>2. Len(text) \in Committing(text, auto)
      BY <1>1, <2>1, <3>1 DEF Committing
    <3>3. PICK i \in DOMAIN text : IsLast(i, Committing(text, auto)) /\ text[i] # "end"
      BY <3>2 DEF Uncommitted
    <3>4. Len(text) <= i /\ i \in 1..Len(text)
      BY <2>1, <3>2, <3>3 DEF IsLast
    <3>5. i = Len(text)
      BY <1>1, <3>4
    <3>6. QED
      BY <3>1, <3>3, <3>5
  <2>5. QED
    BY <1>1, <1>2, <2>1, <2>3, <2>4 DEF NotedTransaction
<1>5. QED
  BY <1>3, <1>4

------------------------------------------------------------------------------
\* OutcomeTellsWhatRan

LEMMA OutcomeInit == Init => OutcomeInv
BY DEF Init, OutcomeInv, OutcomeTellsWhatRan, Answered, NoMessage, AppOps, LostResults

LEMMA OutcomeStep == TypeInv /\ OutcomeInv /\ [Next]_vars => OutcomeInv'
<1> SUFFICES ASSUME TypeOK, CallShape, OutcomeInv, [Next]_vars PROVE OutcomeInv'
  BY DEF TypeInv
<1> USE DEF OutcomeInv, OutcomeTellsWhatRan, Answered, NoMessage, AppOps, LostResults
<1>1. CASE CallsBegin
  <2>1. PICK o \in Ops, text \in Texts : Begins(o, text)
    BY <1>1, CallsBeginShape
  <2>2. QED
    BY <2>1 DEF Begins, Execute, CallShape
<1>2. CASE SetAutocommitUnconnected \/ SetCatalogUnconnected \/ UNCHANGED vars
  BY <1>2 DEF SetAutocommitUnconnected, SetCatalogUnconnected, vars, callVars, historyVars
<1>3. CASE ConnectUnreachable \/ SQLDisconnect
  BY <1>3 DEF ConnectUnreachable, SQLDisconnect
<1>4. CASE ConnectWithoutScope \/ ConnectWithScope
  <2>1. PICK named :
            Connect(named) /\ pc' \in {"idle", "statement"} /\ result' \in {"ok", "none"}
    BY <1>4, ConnectShape DEF TypeInv
  <2>2. QED
    BY <2>1 DEF Connect, CallShape
<1>5. CASE SendScope \/ SendStatement
  BY <1>5 DEF SendScope, SendStatement, Post, callVars
<1>6. CASE ScopeAnswered \/ ScopeApplied \/ ScopeRestarts \/ StatementRestarts
  BY <1>6 DEF ScopeAnswered, ScopeApplied, ScopeRestarts, StatementRestarts, historyVars
<1>7. CASE ReportLost
  <2>1. LostResult # "ok"
    BY DEF LostResult
  <2>2. QED
    BY <1>7, <2>1 DEF ReportLost, Fail
<1>8. CASE Refused
  BY <1>8 DEF Refused, Fail
<1>9. CASE Succeeded
  BY <1>9 DEF Succeeded
<1>10. CASE ConnectStatementSucceeded
  BY <1>10 DEF ConnectStatementSucceeded
<1>11. CASE SendRelease \/ Released
  BY <1>11 DEF SendRelease, Released, callVars, historyVars
<1>12. CASE GiveUp
  BY <1>12 DEF GiveUp, Fail
<1>13. CASE EngineRuns
  BY <1>13 DEF EngineRuns, Requesting, AppRequest, callVars, CallShape
<1>14. CASE EngineRefuses \/ EngineReleases
  BY <1>14 DEF EngineRefuses, EngineReleases, Requesting, callVars, CallShape
<1>15. CASE EngineLoses \/ EngineUpgraded \/ LateRequestRuns \/ LateRequestDropped
  BY <1>15 DEF EngineLoses, EngineUpgraded, LateRequestRuns, LateRequestDropped,
               callVars, historyVars
<1>16. QED
  BY <1>1, <1>2, <1>3, <1>4, <1>5, <1>6, <1>7, <1>8, <1>9, <1>10, <1>11, <1>12, <1>13,
     <1>14, <1>15 DEF Next, Application, CallsBegin, Driver, Engine

\* For every application and every engine: a call that answers has run its
\* statement exactly once, one that reports the session lost has not run it,
\* and none runs it twice (fl_proto_execute_as, proto.c:409-447).
THEOREM OutcomeCorrect == Spec => []OutcomeTellsWhatRan
<1>1. Init => TypeInv /\ OutcomeInv
  BY InitType, OutcomeInit
<1>2. TypeInv /\ OutcomeInv /\ [Next]_vars => (TypeInv /\ OutcomeInv)'
  BY TypeInvStep, OutcomeStep
<1>3. OutcomeInv => OutcomeTellsWhatRan
  BY DEF OutcomeInv
<1>4. QED
  BY <1>1, <1>2, <1>3, PTL DEF Spec

------------------------------------------------------------------------------
\* NeverSilentlyReplaced and OlderEngineNeverSentTheField

NothingHeld == txn_home = NoSession /\ ctx_home = NoSession

LEMMA HomesInit == Init => HomesInv
BY DEF Init, HomesInv, HeldIsCurrent, ResumedOrRefused, HeldByConnection, WireFollowsCall,
       KnownToTrack, Requesting, NoMessage

\* Absorbing an answer while the application holds something in the session
\* changes neither the session nor what is noted of it.
LEMMA AbsorbKeepsWhatIsHeld ==
    ASSUME HomesInv, pc \in {"scope", "statement"}, wire.type = "answer",
           ~NothingHeld, AbsorbSession(wire)
    PROVE  /\ ~Replaced(wire) /\ session_id' = session_id /\ tracks_sessions' = 1
           /\ wire.reports
<1>1. session_id # NoSession /\ tracks_sessions = 1
  BY DEF NothingHeld, HomesInv, HeldIsCurrent
<1>2. wire.session \in {NoSession, session_id} /\ ~wire.started /\ wire.reports
  BY <1>1 DEF HomesInv, ResumedOrRefused, RequireSession
<1>3. QED
  BY <1>1, <1>2 DEF AbsorbSession, Replaced, IdAfter, TracksAfter

LEMMA KnownAfterAbsorb ==
    ASSUME KnownToTrack, wire.type = "answer", AbsorbSession(wire), tracking' = tracking
    PROVE  tracks_sessions' = 1 => tracking'
BY DEF KnownToTrack, AbsorbSession, TracksAfter

LEMMA HeldStep == TypeInv /\ HomesInv /\ [Next]_vars => HeldIsCurrent'
<1> SUFFICES ASSUME TypeOK, CallShape, HomesInv, [Next]_vars PROVE HeldIsCurrent'
  BY DEF TypeInv
<1> USE DEF HeldIsCurrent
<1>1. CASE CallsBegin
  <2>1. PICK o \in Ops, text \in Texts : Begins(o, text)
    BY <1>1, CallsBeginShape
  <2>2. QED
    BY <2>1 DEF Begins, dbcVars, HomesInv
<1>2. CASE \/ SetAutocommitUnconnected \/ SetCatalogUnconnected
           \/ ConnectUnreachable \/ SQLDisconnect \/ UNCHANGED vars
  BY <1>2 DEF SetAutocommitUnconnected, SetCatalogUnconnected, ConnectUnreachable,
              SQLDisconnect, vars, dbcVars, historyVars, HomesInv
<1>3. CASE ConnectWithoutScope \/ ConnectWithScope
  <2>1. PICK named : Connect(named)
    BY <1>3, ConnectShape
  <2>2. QED
    BY <2>1 DEF Connect, HomesInv, HeldByConnection
<1>4. CASE SendScope \/ SendStatement \/ SendRelease
  BY <1>4 DEF SendScope, SendStatement, SendRelease, dbcVars, historyVars, HomesInv
<1>5. CASE ScopeAnswered \/ Refused
  <2>1. AbsorbOnly(wire) /\ wire.type = "answer" /\ pc \in {"scope", "statement"}
        /\ UNCHANGED <<txn_home, ctx_home>>
    BY <1>5 DEF ScopeAnswered, Refused, Answered, historyVars
  <2>2. CASE NothingHeld
    BY <2>1, <2>2 DEF NothingHeld
  <2>3. CASE ~NothingHeld
    <3>1. ~Replaced(wire) /\ session_id' = session_id /\ tracks_sessions' = 1
      BY <2>1, <2>3, AbsorbKeepsWhatIsHeld DEF AbsorbOnly
    <3>2. QED
      BY <2>1, <3>1 DEF AbsorbOnly, HomesInv
  <2>4. QED
    BY <2>2, <2>3
<1>6. CASE ScopeApplied
  BY <1>6 DEF ScopeApplied, historyVars, HomesInv
<1>7. CASE ScopeRestarts \/ StatementRestarts
  <2>1. NothingHeld
    BY <1>7 DEF ScopeRestarts, StatementRestarts, LoseSessionFails, HomesInv, NothingHeld
  <2>2. QED
    BY <1>7, <2>1 DEF ScopeRestarts, StatementRestarts, historyVars, NothingHeld
<1>8. CASE ReportLost
  BY <1>8 DEF ReportLost
<1>9. CASE Succeeded
  <2>1. wire.type = "answer" /\ AbsorbSession(wire) /\ pc = "statement"
    BY <1>9 DEF Succeeded, Answered
  <2>2. CASE NotesStatements(op) /\ wire.reports
    <3>1. ASSUME txn_home' # NoSession
          PROVE  in_transaction' /\ session_id' = txn_home' /\ tracks_sessions' = 1
      <4>1. Uncommitted(sql, autocommit, txn_home # NoSession)
            /\ txn_home' = wire.session /\ wire.session # NoSession
        BY <1>9, <2>2, <3>1 DEF Succeeded
      <4>2. session_id' = wire.session /\ tracks_sessions' = 1
        BY <2>1, <2>2, <4>1 DEF AbsorbSession, IdAfter, TracksAfter
      <4>3. (txn_home # NoSession) => in_transaction /\ ~Replaced(wire)
        BY <2>1, AbsorbKeepsWhatIsHeld DEF HomesInv, NothingHeld
      <4>4. NotedTransaction(sql, autocommit, in_transaction /\ ~Replaced(wire))
        <5>1. sql \in Texts /\ autocommit \in BOOLEAN
          BY <2>1 DEF CallShape, TypeOK, DbcType
        <5>2. (txn_home # NoSession) \in BOOLEAN
              /\ (in_transaction /\ ~Replaced(wire)) \in BOOLEAN
          OBVIOUS
        <5>3. QED
          BY <4>1, <4>3, <5>1, <5>2, NotesWhatIsUncommitted
      <4>5. in_transaction' = NotedTransaction(sql, autocommit, in_transaction /\ ~Replaced(wire))
        BY <1>9, <2>2 DEF Succeeded
      <4>6. QED
        BY <4>1, <4>2, <4>4, <4>5
    <3>2. ASSUME ctx_home' # NoSession
          PROVE  session_dirty' /\ session_id' = ctx_home' /\ tracks_sessions' = 1
      <4>1. session_dirty' = NotedDirty(sql, session_dirty /\ ~Replaced(wire))
        BY <1>9, <2>2 DEF Succeeded
      <4>2. CASE Has(sql, "use")
        <5>1. ctx_home' = wire.session /\ wire.session # NoSession
          BY <1>9, <2>2, <3>2, <4>2 DEF Succeeded
        <5>2. session_id' = wire.session /\ tracks_sessions' = 1
          BY <2>1, <2>2, <5>1 DEF AbsorbSession, IdAfter, TracksAfter
        <5>3. NotedDirty(sql, session_dirty /\ ~Replaced(wire))
          BY <4>2 DEF Has, NotedDirty, TouchesSession
        <5>4. QED
          BY <4>1, <5>1, <5>2, <5>3
      <4>3. CASE ~Has(sql, "use")
        <5>1. ctx_home' = ctx_home
          BY <1>9, <2>2, <4>3 DEF Succeeded
        <5>2. ~Replaced(wire) /\ session_id' = session_id /\ tracks_sessions' = 1
          BY <2>1, <3>2, <5>1, AbsorbKeepsWhatIsHeld DEF NothingHeld
        <5>3. session_dirty /\ session_id = ctx_home
          BY <3>2, <5>1 DEF HomesInv
        <5>4. NotedDirty(sql, session_dirty /\ ~Replaced(wire))
          BY <5>2, <5>3 DEF NotedDirty
        <5>5. QED
          BY <4>1, <5>1, <5>2, <5>3, <5>4
      <4>4. QED
        BY <4>2, <4>3
    <3>3. QED
      BY <3>1, <3>2
  <2>3. CASE ~(NotesStatements(op) /\ wire.reports)
    <3>1. UNCHANGED <<txn_home, ctx_home>>
      BY <1>9, <2>3 DEF Succeeded
    <3>2. CASE NothingHeld
      BY <3>1, <3>2 DEF NothingHeld
    <3>3. CASE ~NothingHeld
      <4>1. /\ ~Replaced(wire) /\ session_id' = session_id /\ tracks_sessions' = 1
            /\ wire.reports
        BY <2>1, <3>3, AbsorbKeepsWhatIsHeld
      <4>2. UNCHANGED <<session_dirty, in_transaction>>
        BY <1>9, <2>3, <4>1 DEF Succeeded, TypeOK, DbcType
      <4>3. QED
        BY <3>1, <4>1, <4>2 DEF HomesInv
    <3>4. QED
      BY <3>2, <3>3
  <2>4. QED
    BY <2>2, <2>3
<1>10. CASE ConnectStatementSucceeded \/ Released
  <2>1. NothingHeld /\ UNCHANGED <<txn_home, ctx_home>>
    BY <1>10 DEF ConnectStatementSucceeded, Released, historyVars, HomesInv, HeldByConnection,
                 NothingHeld
  <2>2. QED
    BY <2>1 DEF NothingHeld
<1>11. CASE GiveUp
  <2>1. CASE pc = "release"
    BY <1>11, <2>1 DEF GiveUp, HomesInv, HeldByConnection
  <2>2. CASE pc # "release"
    BY <1>11, <2>2 DEF GiveUp, HomesInv
  <2>3. QED
    BY <2>1, <2>2
<1>12. CASE Engine
  <2>1. UNCHANGED dbcVars /\ UNCHANGED <<txn_home, ctx_home>>
    BY <1>12 DEF Engine, EngineRuns, EngineRefuses, EngineReleases, EngineLoses,
                 EngineUpgraded, LateRequestRuns, LateRequestDropped, historyVars
  <2>2. QED
    BY <2>1 DEF dbcVars, HomesInv
<1>13. QED
  BY <1>1, <1>2, <1>3, <1>4, <1>5, <1>6, <1>7, <1>8, <1>9, <1>10, <1>11, <1>12
     DEF Next, Application, CallsBegin, Driver

\* What an engine answers to a request of the connection's that requires a
\* session: from that session, or from none.
LEMMA RunsInRequired ==
    ASSUME NEW request, request.session # NoSession, request.require, tracking,
           ~Refuses(request), NEW session \in RunsIn(request)
    PROVE  session = request.session /\ session \in live
BY DEF Refuses, RunsIn

LEMMA ResumedStep == TypeInv /\ HomesInv /\ [Next]_vars => ResumedOrRefused'
<1> SUFFICES ASSUME TypeOK, CallShape, HomesInv, [Next]_vars PROVE ResumedOrRefused'
  BY DEF TypeInv
<1> USE DEF ResumedOrRefused, Requesting, RequireSession
<1>1. CASE Application
  <2>1. wire' = NoMessage
    <3>1. CASE CallsBegin
      BY <3>1, CallsBeginShape DEF Begins, CallShape
    <3>2. CASE ConnectWithoutScope \/ ConnectWithScope
      BY <3>2, ConnectShape DEF Connect, CallShape
    <3>3. CASE \/ SetAutocommitUnconnected \/ SetCatalogUnconnected
               \/ ConnectUnreachable \/ SQLDisconnect
      BY <3>3 DEF SetAutocommitUnconnected, SetCatalogUnconnected, ConnectUnreachable,
                  SQLDisconnect, CallShape
    <3>4. QED
      BY <1>1, <3>1, <3>2, <3>3 DEF Application, CallsBegin
  <2>2. QED
    BY <2>1 DEF NoMessage
<1>2. CASE SendScope \/ SendStatement
  BY <1>2 DEF SendScope, SendStatement, Post, dbcVars, callVars
<1>3. CASE \/ ScopeAnswered \/ ScopeRestarts \/ StatementRestarts \/ ReportLost \/ Refused
           \/ Succeeded \/ ConnectStatementSucceeded \/ Released \/ GiveUp
  <2>1. wire' = NoMessage
    BY <1>3 DEF ScopeAnswered, ScopeRestarts, StatementRestarts, ReportLost, Refused,
                Succeeded, ConnectStatementSucceeded, Released, GiveUp
  <2>2. QED
    BY <2>1 DEF NoMessage
<1>4. CASE ScopeApplied
  BY <1>4 DEF ScopeApplied, NoMessage
<1>5. CASE SendRelease
  BY <1>5 DEF SendRelease, callVars
<1>6. CASE EngineRuns
  <2>1. UNCHANGED <<session_id, tracks_sessions, pc>> /\ wire.type = "request"
    BY <1>6 DEF EngineRuns, dbcVars, callVars
  <2>2. PICK session \in RunsIn(wire), done \in 0..Len(wire.sql) :
            wire' = [type |-> "answer",
                     kind |-> IF done = Len(wire.sql) THEN "ok" ELSE "refused",
                     session |-> session, reports |-> tracking,
                     started |-> session \notin live]
    BY <1>6 DEF EngineRuns
  <2>3. ASSUME pc \in {"scope", "statement"}, session_id # NoSession, tracks_sessions = 1
        PROVE  session = session_id /\ session \in live /\ tracking
    <3>1. wire.session = session_id /\ wire.require /\ tracking
      BY <2>1, <2>3 DEF HomesInv, KnownToTrack
    <3>2. ~Refuses(wire)
      BY <1>6 DEF EngineRuns
    <3>3. QED
      BY <2>3, <3>1, <3>2, RunsInRequired
  <2>4. QED
    BY <2>1, <2>2, <2>3
<1>7. CASE EngineRefuses
  <2>1. UNCHANGED <<session_id, tracks_sessions, pc>>
    BY <1>7 DEF EngineRefuses, dbcVars, callVars
  <2>2. wire'.type = "answer" /\ wire'.session = NoSession /\ ~wire'.started
        /\ wire'.reports = tracking
    BY <1>7 DEF EngineRefuses
  <2>3. tracks_sessions = 1 => tracking
    BY DEF HomesInv, KnownToTrack
  <2>4. QED
    BY <2>1, <2>2, <2>3
<1>8. CASE EngineReleases
  <2>1. pc' = "release"
    BY <1>8 DEF EngineReleases, callVars, HomesInv, WireFollowsCall
  <2>2. QED
    BY <2>1
<1>9. CASE \/ EngineLoses \/ EngineUpgraded \/ LateRequestRuns \/ LateRequestDropped
           \/ UNCHANGED vars
  BY <1>9 DEF EngineLoses, EngineUpgraded, LateRequestRuns, LateRequestDropped, vars,
              dbcVars, callVars, HomesInv
<1>10. QED
  BY <1>1, <1>2, <1>3, <1>4, <1>5, <1>6, <1>7, <1>8, <1>9 DEF Next, Driver, Engine

LEMMA HeldByStep == TypeInv /\ HomesInv /\ [Next]_vars => HeldByConnection'
<1> SUFFICES ASSUME TypeOK, CallShape, HomesInv, [Next]_vars PROVE HeldByConnection'
  BY DEF TypeInv
<1>0. HeldByConnection
  BY DEF HomesInv
<1> USE DEF HeldByConnection
<1>1. CASE CallsBegin
  <2>1. PICK o \in Ops, text \in Texts : Begins(o, text) /\ o # "connect"
    BY <1>1 DEF CallsBegin, Exec, SQLEndTran, SetAutocommit, SetCatalog, Texts, Ops,
                Kinds, AppKinds, DriverKinds
  <2>2. QED
    BY <1>0, <2>1 DEF Begins, Execute, dbcVars
<1>2. CASE SetAutocommitUnconnected \/ SetCatalogUnconnected
  BY <1>0, <1>2 DEF SetAutocommitUnconnected, SetCatalogUnconnected, callVars, historyVars
<1>3. CASE ConnectUnreachable \/ SQLDisconnect
  BY <1>0, <1>3 DEF ConnectUnreachable, SQLDisconnect, dbcVars
<1>4. CASE ConnectWithoutScope \/ ConnectWithScope
  <2>1. PICK named : Connect(named) /\ pc' \in {"idle", "statement"}
    BY <1>4, ConnectShape
  <2>2. QED
    BY <1>0, <2>1 DEF Connect
<1>5. CASE SendScope \/ SendStatement \/ SendRelease
  BY <1>0, <1>5 DEF SendScope, SendStatement, SendRelease, dbcVars, callVars, historyVars
<1>6. CASE ScopeAnswered \/ ScopeApplied \/ ScopeRestarts \/ StatementRestarts
  BY <1>0, <1>6 DEF ScopeAnswered, ScopeApplied, ScopeRestarts, StatementRestarts, historyVars
<1>7. CASE ReportLost \/ Refused
  BY <1>0, <1>7 DEF ReportLost, Refused, Fail
<1>8. CASE Succeeded
  BY <1>0, <1>8 DEF Succeeded
<1>9. CASE ConnectStatementSucceeded
  BY <1>0, <1>9 DEF ConnectStatementSucceeded
<1>10. CASE Released
  BY <1>0, <1>10 DEF Released, historyVars
<1>11. CASE GiveUp
  <2>1. CASE pc = "release"
    BY <1>0, <1>11, <2>1 DEF GiveUp
  <2>2. CASE pc # "release"
    BY <1>0, <1>11, <2>2 DEF GiveUp, Fail, CallShape
  <2>3. QED
    BY <2>1, <2>2
<1>12. CASE Engine \/ UNCHANGED vars
  <2>1. UNCHANGED dbcVars /\ UNCHANGED callVars /\ UNCHANGED <<txn_home, ctx_home>>
    BY <1>12 DEF Engine, EngineRuns, EngineRefuses, EngineReleases, EngineLoses,
                 EngineUpgraded, LateRequestRuns, LateRequestDropped, historyVars, vars
  <2>2. QED
    BY <1>0, <2>1 DEF dbcVars, callVars
<1>13. QED
  BY <1>1, <1>2, <1>3, <1>4, <1>5, <1>6, <1>7, <1>8, <1>9, <1>10, <1>11, <1>12
     DEF Next, Application, CallsBegin, Driver

LEMMA WireFollowsStep == TypeInv /\ HomesInv /\ [Next]_vars => WireFollowsCall'
<1> SUFFICES ASSUME CallShape, HomesInv, [Next]_vars PROVE WireFollowsCall'
  BY DEF TypeInv
<1> USE DEF WireFollowsCall, Requesting
<1>1. CASE Application \/ ScopeApplied
  <2>1. wire' = NoMessage
    <3>1. CASE CallsBegin
      BY <3>1, CallsBeginShape DEF Begins, CallShape
    <3>2. CASE ConnectWithoutScope \/ ConnectWithScope
      BY <3>2 DEF ConnectWithoutScope, ConnectWithScope, Connect, CallShape
    <3>3. CASE \/ SetAutocommitUnconnected \/ SetCatalogUnconnected
               \/ ConnectUnreachable \/ SQLDisconnect \/ ScopeApplied
      BY <3>3 DEF SetAutocommitUnconnected, SetCatalogUnconnected, ConnectUnreachable,
                  SQLDisconnect, ScopeApplied, CallShape
    <3>4. QED
      BY <1>1, <3>1, <3>2, <3>3 DEF Application, CallsBegin
  <2>2. QED
    BY <2>1 DEF NoMessage
<1>2. CASE SendScope \/ SendStatement \/ SendRelease
  BY <1>2 DEF SendScope, SendStatement, SendRelease, Post, callVars
<1>3. CASE \/ ScopeAnswered \/ ScopeRestarts \/ StatementRestarts \/ ReportLost \/ Refused
           \/ Succeeded \/ ConnectStatementSucceeded \/ Released \/ GiveUp
  <2>1. wire' = NoMessage
    BY <1>3 DEF ScopeAnswered, ScopeRestarts, StatementRestarts, ReportLost, Refused,
                Succeeded, ConnectStatementSucceeded, Released, GiveUp
  <2>2. QED
    BY <2>1 DEF NoMessage
<1>4. CASE EngineRuns \/ EngineRefuses \/ EngineReleases
  <2>1. wire'.type = "answer"
    BY <1>4 DEF EngineRuns, EngineRefuses, EngineReleases
  <2>2. QED
    BY <2>1
<1>5. CASE \/ EngineLoses \/ EngineUpgraded \/ LateRequestRuns \/ LateRequestDropped
           \/ UNCHANGED vars
  BY <1>5 DEF EngineLoses, EngineUpgraded, LateRequestRuns, LateRequestDropped, vars,
              callVars, HomesInv
<1>6. QED
  BY <1>1, <1>2, <1>3, <1>4, <1>5 DEF Next, Driver, Engine

LEMMA KnownStep == TypeInv /\ HomesInv /\ [Next]_vars => KnownToTrack'
<1> SUFFICES ASSUME CallShape, HomesInv, [Next]_vars PROVE KnownToTrack'
  BY DEF TypeInv
<1>0. KnownToTrack
  BY DEF HomesInv
<1>1. CASE CallsBegin
  <2>1. UNCHANGED dbcVars /\ UNCHANGED <<wire, engineVars>>
    BY <1>1, CallsBeginShape DEF Begins
  <2>2. QED
    BY <1>0, <2>1 DEF KnownToTrack, dbcVars, engineVars
<1>2. CASE ConnectWithoutScope \/ ConnectWithScope
  BY <1>0, <1>2 DEF ConnectWithoutScope, ConnectWithScope, Connect, engineVars, KnownToTrack
<1>3. CASE \/ SetAutocommitUnconnected \/ SetCatalogUnconnected
           \/ ConnectUnreachable \/ SQLDisconnect \/ ScopeApplied \/ UNCHANGED vars
  BY <1>0, <1>3 DEF SetAutocommitUnconnected, SetCatalogUnconnected, ConnectUnreachable,
                    SQLDisconnect, ScopeApplied, vars, dbcVars, engineVars, KnownToTrack
<1>4. CASE SendScope \/ SendStatement \/ SendRelease
  BY <1>0, <1>4 DEF SendScope, SendStatement, SendRelease, Post, dbcVars, engineVars,
                    KnownToTrack
<1>5. CASE ScopeAnswered \/ Refused \/ Succeeded \/ ConnectStatementSucceeded
  <2>1. /\ wire.type = "answer" /\ AbsorbSession(wire)
        /\ wire' = NoMessage /\ tracking' = tracking
    BY <1>5 DEF ScopeAnswered, Refused, Succeeded, ConnectStatementSucceeded, Answered,
                AbsorbOnly, engineVars
  <2>2. tracks_sessions' = 1 => tracking'
    BY <1>0, <2>1, KnownAfterAbsorb
  <2>3. QED
    BY <2>1, <2>2 DEF KnownToTrack, NoMessage
<1>6. CASE ScopeRestarts \/ StatementRestarts \/ ReportLost \/ Released \/ GiveUp
  BY <1>0, <1>6 DEF ScopeRestarts, StatementRestarts, ReportLost, Released, GiveUp,
                    engineVars, KnownToTrack, NoMessage
<1>7. CASE EngineRuns \/ EngineRefuses \/ EngineReleases
  <2>1. wire'.reports = tracking /\ tracking' = tracking /\ UNCHANGED dbcVars
    BY <1>7 DEF EngineRuns, Runs, EngineRefuses, EngineReleases, engineVars
  <2>2. QED
    BY <1>0, <2>1 DEF KnownToTrack, dbcVars
<1>8. CASE EngineLoses \/ EngineUpgraded \/ LateRequestRuns \/ LateRequestDropped
  <2>1. UNCHANGED dbcVars /\ UNCHANGED wire /\ (tracking => tracking')
    BY <1>8 DEF EngineLoses, EngineUpgraded, LateRequestRuns, LateRequestDropped, Runs,
                engineVars
  <2>2. QED
    BY <1>0, <2>1 DEF KnownToTrack, dbcVars
<1>9. QED
  BY <1>1, <1>2, <1>3, <1>4, <1>5, <1>6, <1>7, <1>8
     DEF Next, Application, CallsBegin, Driver, Engine

LEMMA HomesStep == TypeInv /\ HomesInv /\ [Next]_vars => (TypeInv /\ HomesInv)'
BY TypeInvStep, HeldStep, ResumedStep, HeldByStep, WireFollowsStep, KnownStep DEF HomesInv

\* For every application and every engine, older and replaced ones included:
\* while the application holds uncommitted work or a context it was told of,
\* its statements run in the session that has it or not at all
\* (lose_session, proto.c:184-193, and requireSession, proto.c:35-64).
THEOREM NeverReplaced == Spec => []NeverSilentlyReplaced
<1>1. Init => TypeInv /\ HomesInv
  BY InitType, HomesInit
<1>2. HomesInv => NeverSilentlyReplaced
  <2> SUFFICES ASSUME HomesInv, AppRequest, wire.type = "answer", wire.session # NoSession
               PROVE  /\ txn_home \in {NoSession, wire.session}
                      /\ ctx_home \in {NoSession, wire.session}
    BY DEF NeverSilentlyReplaced
  <2>1. txn_home # NoSession => txn_home = wire.session
    BY DEF HomesInv, HeldIsCurrent, ResumedOrRefused, RequireSession, AppRequest
  <2>2. ctx_home # NoSession => ctx_home = wire.session
    BY DEF HomesInv, HeldIsCurrent, ResumedOrRefused, RequireSession, AppRequest
  <2>3. QED
    BY <2>1, <2>2
<1>3. QED
  BY <1>1, <1>2, HomesStep, PTL DEF Spec

LEMMA OlderStep ==
    TypeInv /\ HomesInv /\ OlderEngineNeverSentTheField /\ [Next]_vars
        => OlderEngineNeverSentTheField'
<1> SUFFICES ASSUME TypeInv, HomesInv, OlderEngineNeverSentTheField, [Next]_vars
             PROVE  OlderEngineNeverSentTheField'
  OBVIOUS
<1>1. tracking => tracking'
  BY DEF Next, Application, CallsBegin, Exec, SQLEndTran, SetAutocommit, SetCatalog, Begins,
         SetAutocommitUnconnected, SetCatalogUnconnected, ConnectWithoutScope,
         ConnectWithScope, Connect, ConnectUnreachable, SQLDisconnect, Driver, SendScope,
         ScopeAnswered, ScopeApplied, ScopeRestarts, SendStatement, StatementRestarts,
         ReportLost, Refused, Succeeded, ConnectStatementSucceeded, SendRelease, Released,
         GiveUp, Engine, EngineRuns, Runs, EngineRefuses, EngineReleases, EngineLoses,
         EngineUpgraded, LateRequestRuns, LateRequestDropped, engineVars, vars
<1>2. late' \subseteq late \cup {wire}
  BY DEF Next, Application, CallsBegin, Exec, SQLEndTran, SetAutocommit, SetCatalog, Begins,
         SetAutocommitUnconnected, SetCatalogUnconnected, ConnectWithoutScope,
         ConnectWithScope, Connect, ConnectUnreachable, SQLDisconnect, Driver, SendScope,
         ScopeAnswered, ScopeApplied, ScopeRestarts, SendStatement, StatementRestarts,
         ReportLost, Refused, Succeeded, ConnectStatementSucceeded, SendRelease, Released,
         GiveUp, Engine, EngineRuns, EngineRefuses, EngineReleases, EngineLoses,
         EngineUpgraded, LateRequestRuns, LateRequestDropped, vars
<1>3. wire'.type = "request" /\ wire'.require => tracking'
  <2> SUFFICES ASSUME wire'.type = "request", wire'.require PROVE tracking'
    OBVIOUS
  <2>1. KnownToTrack' /\ ResumedOrRefused' /\ WireFollowsCall'
    BY KnownStep, ResumedStep, WireFollowsStep
  <2>2. pc' \in {"scope", "statement"}
    BY <2>1 DEF WireFollowsCall, Requesting
  <2>3. RequireSession'
    BY <2>1, <2>2 DEF ResumedOrRefused, Requesting
  <2>4. QED
    BY <2>1, <2>3 DEF RequireSession, KnownToTrack
<1>4. QED
  BY <1>1, <1>2, <1>3 DEF OlderEngineNeverSentTheField

\* An engine that does not report newSession is never sent requireSession, not
\* even by a request the driver had given up on (build_request_json,
\* proto.c:35-64): the driver believes it only of an engine that has shown it.
THEOREM OlderEngineSafe == Spec => []OlderEngineNeverSentTheField
<1>1. Init => TypeInv /\ HomesInv /\ OlderEngineNeverSentTheField
  <2>1. Init => OlderEngineNeverSentTheField
    BY DEF Init, OlderEngineNeverSentTheField, NoMessage
  <2>2. QED
    BY <2>1, InitType, HomesInit
<1>2. TypeInv /\ HomesInv /\ OlderEngineNeverSentTheField /\ [Next]_vars
          => (TypeInv /\ HomesInv /\ OlderEngineNeverSentTheField)'
  BY HomesStep, OlderStep
<1>3. QED
  BY <1>1, <1>2, PTL DEF Spec
=============================================================================
