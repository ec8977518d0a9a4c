--------------------------- MODULE RefinementProofs ----------------------------
(***************************************************************************)
(* SessionProtocol implements ReliableConnection, for every set of session *)
(* ids, all requests and scopes, and an engine that reports newSession:    *)
(* each step of the protocol is a step of the promise, or none that the    *)
(* application can see.                                                    *)
(***************************************************************************)
EXTENDS SessionRefinement, SessionSafety

Inv == TypeInv /\ HomesInv /\ OutcomeInv /\ RefinementInv

\* What the application sees.
Seen == <<Connected, autocommit, Calling, Text, Ran, Outcome, Held, Kept>>

------------------------------------------------------------------------------
\* The inductive invariant

\* An engine that reports newSession from the start is the only one there is.
LEMMA RefinementInit == MayBeOlder = FALSE /\ Init => RefinementInv
<1> SUFFICES ASSUME MayBeOlder = FALSE, Init PROVE RefinementInv
  OBVIOUS
<1>1. tracking = TRUE
  BY DEF Init
<1>2. wire.type = "none"
  BY DEF Init, NoMessage
<1>3. QED
  BY <1>1, <1>2 DEF Init, RefinementInv, AlwaysTracked, CallsOfConnection, AppOps, Homes

\* An answer absorbed leaves an id only of an engine known to track it.
LEMMA AbsorbTracked ==
    ASSUME AlwaysTracked, wire.type = "answer", AbsorbSession(wire)
    PROVE  session_id' # NoSession => tracks_sessions' = 1
BY DEF AlwaysTracked, AbsorbSession, IdAfter, TracksAfter

\* What the driver does to the connection keeps the engine's answers tracked.
LEMMA TrackedStep == Inv /\ [Next]_vars => AlwaysTracked'
<1> SUFFICES ASSUME TypeOK, CallShape, HomesInv, AlwaysTracked, [Next]_vars
             PROVE  AlwaysTracked'
  BY DEF Inv, TypeInv, RefinementInv
<1> USE DEF AlwaysTracked
<1>1. CASE CallsBegin
  <2>1. PICK o \in Ops, text \in Texts : Begins(o, text)
    BY <1>1, CallsBeginShape
  <2>2. QED
    BY <2>1 DEF Begins, dbcVars, engineVars
<1>2. CASE \/ SetAutocommitUnconnected \/ SetCatalogUnconnected
           \/ ConnectUnreachable \/ SQLDisconnect \/ UNCHANGED vars
  BY <1>2 DEF SetAutocommitUnconnected, SetCatalogUnconnected, ConnectUnreachable,
              SQLDisconnect, vars, dbcVars, engineVars
<1>3. CASE ConnectWithoutScope \/ ConnectWithScope
  <2>1. PICK named : Connect(named)
    BY <1>3, ConnectShape
  <2>2. QED
    BY <2>1 DEF Connect, engineVars
<1>4. CASE SendScope \/ SendStatement \/ SendRelease
  <2>1. wire'.type # "answer"
    BY <1>4 DEF SendScope, SendStatement, SendRelease, Post
  <2>2. UNCHANGED <<session_id, tracks_sessions, late, tracking>>
    BY <1>4 DEF SendScope, SendStatement, SendRelease, dbcVars, engineVars
  <2>3. QED
    BY <2>1, <2>2
<1>5. CASE ScopeAnswered \/ Refused \/ Succeeded \/ ConnectStatementSucceeded
  <2>1. /\ AbsorbSession(wire) /\ wire.type = "answer" /\ wire' = NoMessage
        /\ late' = late /\ tracking' = tracking
    BY <1>5 DEF ScopeAnswered, Refused, Succeeded, ConnectStatementSucceeded, AbsorbOnly,
                Answered, engineVars
  <2>2. QED
    BY <2>1, AbsorbTracked DEF NoMessage
<1>6. CASE ScopeApplied
  BY <1>6 DEF ScopeApplied, engineVars
<1>7. CASE ScopeRestarts \/ StatementRestarts \/ ReportLost \/ Released
  <2>1. /\ session_id' = NoSession /\ wire' = NoMessage
        /\ UNCHANGED <<late, tracking>>
    BY <1>7 DEF ScopeRestarts, StatementRestarts, ReportLost, Released, ForgetSession,
                engineVars
  <2>2. QED
    BY <2>1 DEF NoMessage
<1>8. CASE GiveUp
  <2>1. /\ wire' = NoMessage /\ tracking' = tracking /\ tracks_sessions' = tracks_sessions
        /\ session_id' \in {session_id, NoSession}
        /\ late' = late \/ (Requesting /\ late' = late \cup {wire})
    BY <1>8 DEF GiveUp, Fail, engineVars
  <2>2. Requesting /\ wire.session # NoSession => wire.require
    BY DEF HomesInv, WireFollowsCall, ResumedOrRefused, RequireSession
  <2>3. QED
    BY <2>1, <2>2 DEF NoMessage
<1>9. CASE EngineRuns
  <2>1. PICK session \in RunsIn(wire), done \in 0..Len(wire.sql) :
            /\ Runs(wire, session, done)
            /\ wire' = [type |-> "answer",
                        kind |-> IF done = Len(wire.sql) THEN "ok" ELSE "refused",
                        session |-> session, reports |-> tracking,
                        started |-> session \notin live]
    BY <1>9 DEF EngineRuns
  <2>2. wire \in RequestMessages
    BY <1>9, RequestShape DEF EngineRuns, Requesting, TypeOK
  <2>3. session # NoSession
    BY <2>1, <2>2, NoSessionAssumption
       DEF RunsIn, FreshIds, RequestMessages, OptionalId, TypeOK, EngineType
  <2>4. QED
    BY <1>9, <2>1, <2>3 DEF EngineRuns, Runs, dbcVars
<1>10. CASE EngineRefuses \/ EngineReleases
  <2>1. /\ wire'.type = "answer" /\ wire'.kind # "ok" /\ wire'.reports = tracking
        /\ UNCHANGED <<session_id, tracks_sessions, late, tracking>>
    <3>1. CASE EngineRefuses
      <4>1. PICK kind \in {"gone", "refused"} :
                wire' = [type |-> "answer", kind |-> kind, session |-> NoSession,
                         reports |-> tracking, started |-> FALSE]
        BY <3>1 DEF EngineRefuses
      <4>2. QED
        BY <3>1, <4>1 DEF EngineRefuses, dbcVars, engineVars
    <3>2. CASE EngineReleases
      BY <3>2 DEF EngineReleases, dbcVars
    <3>3. QED
      BY <1>10, <3>1, <3>2
  <2>2. QED
    BY <2>1
<1>11. CASE EngineLoses \/ EngineUpgraded \/ LateRequestRuns \/ LateRequestDropped
  BY <1>11 DEF EngineLoses, EngineUpgraded, LateRequestRuns, LateRequestDropped, Runs,
               dbcVars, engineVars
<1>12. QED
  BY <1>1, <1>2, <1>3, <1>4, <1>5, <1>6, <1>7, <1>8, <1>9, <1>10, <1>11
     DEF Next, Application, CallsBegin, Driver, Engine

\* A call of the application, and the statement it is to run.
LEMMA AppCallShape ==
    ASSUME CallsBegin
    PROVE  \E o \in AppOps : \E text \in Reliable!TextsOf(o) : Begins(o, text)
<1>1. CASE Exec
  BY <1>1 DEF Exec, AppOps, Reliable!TextsOf
<1>2. CASE SQLEndTran
  BY <1>2 DEF SQLEndTran, AppOps, Reliable!TextsOf
<1>3. CASE SetAutocommit
  BY <1>3 DEF SetAutocommit, AppOps, Reliable!TextsOf
<1>4. CASE SetCatalog
  BY <1>4 DEF SetCatalog, AppOps, Reliable!TextsOf
<1>5. QED
  BY <1>1, <1>2, <1>3, <1>4 DEF CallsBegin

\* What is sent a second time is so for an application that holds nothing.
LEMMA CallsStep == Inv /\ [Next]_vars => CallsOfConnection'
<1> SUFFICES ASSUME TypeOK, CallShape, HomesInv, CallsOfConnection, [Next]_vars
             PROVE  CallsOfConnection'
  BY DEF Inv, TypeInv, RefinementInv
<1> DEFINE None == txn_home = NoSession /\ ctx_home = NoSession
<1>0. (Homes = {} <=> None) /\ (Homes' = {} <=> None')
  BY DEF Homes
<1> HIDE DEF None
<1> USE DEF CallsOfConnection
<1>1. CASE CallsBegin
  <2>1. PICK o \in AppOps : \E text \in Reliable!TextsOf(o) : Begins(o, text)
    BY <1>1, AppCallShape
  <2>2. QED
    BY <2>1 DEF Begins, Execute, dbcVars, AppOps
<1>2. CASE SetAutocommitUnconnected \/ SetCatalogUnconnected \/ UNCHANGED vars
  BY <1>0, <1>2 DEF SetAutocommitUnconnected, SetCatalogUnconnected, vars, dbcVars, callVars,
                    historyVars, None
<1>3. CASE ConnectUnreachable \/ SQLDisconnect
  BY <1>0, <1>3 DEF ConnectUnreachable, SQLDisconnect, dbcVars, None, AppOps
<1>4. CASE ConnectWithoutScope \/ ConnectWithScope
  <2>1. PICK named : Connect(named)
    BY <1>4, ConnectShape
  <2>2. QED
    BY <2>1 DEF Connect, AppOps
<1>5. CASE SendScope \/ SendStatement \/ SendRelease
  BY <1>0, <1>5 DEF SendScope, SendStatement, SendRelease, dbcVars, callVars, historyVars, None
<1>6. CASE ScopeAnswered \/ ScopeApplied
  BY <1>0, <1>6 DEF ScopeAnswered, ScopeApplied, historyVars, None
<1>7. CASE ScopeRestarts \/ StatementRestarts
  <2>1. None'
    BY <1>7 DEF ScopeRestarts, StatementRestarts, historyVars, LoseSessionFails, HomesInv,
                HeldIsCurrent, None
  <2>2. UNCHANGED <<connected, op>> /\ pc \in {"scope", "statement"}
    BY <1>7 DEF ScopeRestarts, StatementRestarts
  <2>3. QED
    BY <1>0, <2>1, <2>2
<1>8. CASE ReportLost \/ Refused
  BY <1>0, <1>8 DEF ReportLost, Refused, Fail, LocalsGone, AppOps
<1>9. CASE Succeeded
  BY <1>0, <1>9 DEF Succeeded, LocalsGone
<1>10. CASE ConnectStatementSucceeded
  BY <1>0, <1>10 DEF ConnectStatementSucceeded, LocalsGone, AppOps
<1>11. CASE Released
  BY <1>0, <1>11 DEF Released, historyVars, None
<1>12. CASE GiveUp
  <2>1. CASE pc = "release"
    BY <1>12, <2>1 DEF GiveUp, LocalsGone
  <2>2. CASE pc # "release"
    BY <1>12, <2>2 DEF GiveUp, Fail, LocalsGone, AppOps
  <2>3. QED
    BY <2>1, <2>2
<1>13. CASE Engine
  <2>1. UNCHANGED dbcVars /\ UNCHANGED callVars /\ UNCHANGED <<txn_home, ctx_home>>
    BY <1>13 DEF Engine, EngineRuns, EngineRefuses, EngineReleases, EngineLoses,
                 EngineUpgraded, LateRequestRuns, LateRequestDropped, historyVars
  <2>2. QED
    BY <1>0, <2>1 DEF dbcVars, callVars, None
<1>14. QED
  BY <1>1, <1>2, <1>3, <1>4, <1>5, <1>6, <1>7, <1>8, <1>9, <1>10, <1>11, <1>12, <1>13
     DEF Next, Application, CallsBegin, Driver

\* The invariant of the refinement is inductive.
LEMMA InvStep == Inv /\ [Next]_vars => Inv'
BY TypeInvStep, HomesStep, OutcomeStep, TrackedStep, CallsStep DEF Inv, RefinementInv

------------------------------------------------------------------------------
\* What a step leaves as the application saw it

LEMMA HomesUnmoved ==
    ASSUME UNCHANGED <<txn_home, ctx_home>>
    PROVE  /\ Held' = Held /\ Homes' = Homes
           /\ live' = live => Kept' = Kept
<1>1. Held' = Held /\ Homes' = Homes
  BY DEF Held, Homes
<1>2. QED
  BY <1>1 DEF Kept

\* A step within a call, or outside of any.
LEMMA Unseen ==
    ASSUME UNCHANGED <<connected, autocommit, op, sql, ran, result, txn_home, ctx_home, live>>,
           pc' = pc \/ (pc \in {"scope", "statement"} /\ pc' \in {"scope", "statement"})
    PROVE  UNCHANGED Seen
<1>1. UNCHANGED <<Held, Kept>>
  BY HomesUnmoved
<1>2. UNCHANGED <<Connected, Calling, Text, Ran, Outcome>>
  BY DEF Connected, InCall, Calling, Text, Ran, Outcome
<1>3. QED
  BY <1>1, <1>2 DEF Seen

\* No call of the application's is under way, and none becomes so.
LEMMA NotACall ==
    ASSUME op \notin AppOps, op' \notin AppOps, ~InCall, ~InCall'
    PROVE  /\ UNCHANGED <<Calling, Text, Ran, Outcome>>
           /\ Calling = "none" /\ Ran' = 0 /\ Outcome' = "none"
BY DEF Calling, Text, Ran, Outcome

\* An application's call returns.
LEMMA CallReturns ==
    ASSUME op \in AppOps, op' = op, pc \in {"scope", "statement"}, pc' = "idle",
           UNCHANGED <<connected, ran>>, NEW why, result' = why
    PROVE  Reliable!Return(why)
BY DEF Reliable!Return, Connected, Calling, InCall, Text, Ran, Outcome, AppOps

\* Whatever else runs statements, it is a connect.
LEMMA CallIsApps ==
    ASSUME Inv, pc \in {"scope", "statement"}, op # "connect"
    PROVE  op \in AppOps
BY DEF Inv, TypeInv, TypeOK, CallType, Ops, AppOps, RefinementInv, CallsOfConnection

------------------------------------------------------------------------------
\* The application's steps

LEMMA BeginsIsCall ==
    ASSUME Inv, NEW o \in AppOps, NEW text \in Reliable!TextsOf(o), Begins(o, text)
    PROVE  Reliable!Call(o)
<1>1. UNCHANGED <<Held, Kept>>
  BY HomesUnmoved DEF Begins, engineVars
<1>2. /\ Connected /\ Connected' /\ Calling = "none" /\ Calling' = o /\ Text' = text
      /\ Ran' = 0 /\ Outcome' = "none"
  BY DEF Begins, Execute, dbcVars, Connected, Calling, InCall, Text, Ran, Outcome, AppOps
<1>3. autocommit' = autocommit
  BY DEF Begins, dbcVars
<1>4. QED
  BY <1>1, <1>2, <1>3 DEF Reliable!Call

\* Every call of the application, connecting and disconnecting included.
LEMMA ApplicationRefines == Inv /\ Application => Reliable!Next \/ UNCHANGED Seen
<1> SUFFICES ASSUME Inv, Application PROVE Reliable!Next \/ UNCHANGED Seen
  OBVIOUS
<1>1. CASE CallsBegin
  <2>1. PICK o \in AppOps : \E text \in Reliable!TextsOf(o) : Begins(o, text)
    BY <1>1, AppCallShape
  <2>2. Reliable!Call(o)
    BY <2>1, BeginsIsCall
  <2>3. QED
    BY <2>2 DEF Reliable!Next, Reliable!Calls, AppOps
<1>2. CASE SetAutocommitUnconnected
  <2>1. UNCHANGED <<Held, Kept>>
    BY <1>2, HomesUnmoved DEF SetAutocommitUnconnected, historyVars, engineVars
  <2>2. Reliable!Choose
    BY <1>2, <2>1 DEF SetAutocommitUnconnected, callVars, historyVars, Reliable!Choose,
                      Connected, Calling, InCall, Text, Ran, Outcome
  <2>3. QED
    BY <2>2 DEF Reliable!Next
<1>3. CASE SetCatalogUnconnected
  BY <1>3, Unseen DEF SetCatalogUnconnected, callVars, historyVars, engineVars
<1>4. ASSUME ~connected, pc = "idle", op' \notin AppOps, ~InCall', UNCHANGED autocommit,
             UNCHANGED <<txn_home, ctx_home, live>>
      PROVE  UNCHANGED <<autocommit, Calling, Text, Ran, Outcome, Held, Kept>> /\ Connected = FALSE
  <2>1. op \notin AppOps /\ ~InCall
    BY <1>4 DEF Inv, RefinementInv, CallsOfConnection, InCall
  <2>2. QED
    BY <1>4, <2>1, NotACall, HomesUnmoved DEF Connected
<1>5. CASE ConnectWithoutScope
  <2>1. PICK named \in DsnScopes : Connect(named) /\ pc' = "idle"
    BY <1>5 DEF ConnectWithoutScope
  <2>2. Connected' = TRUE /\ ~InCall' /\ op' \notin AppOps
    BY <2>1 DEF Connect, Connected, InCall, AppOps
  <2>3. Reliable!Connect
    BY <1>4, <2>1, <2>2 DEF Connect, engineVars, Reliable!Connect
  <2>4. QED
    BY <2>3 DEF Reliable!Next
<1>6. CASE ConnectWithScope
  <2>1. PICK named \in DsnScopes : Connect(named) /\ pc' = "statement"
    BY <1>6 DEF ConnectWithScope
  <2>2. Connected' = FALSE /\ ~InCall' /\ op' \notin AppOps
    BY <2>1 DEF Connect, Connected, InCall, AppOps
  <2>3. QED
    BY <1>4, <2>1, <2>2 DEF Connect, engineVars, Seen
<1>7. CASE ConnectUnreachable
  <2>1. Connected' = FALSE /\ ~InCall' /\ op' \notin AppOps
    BY <1>7 DEF ConnectUnreachable, dbcVars, Connected, InCall, Inv, RefinementInv,
                CallsOfConnection
  <2>2. QED
    BY <1>4, <1>7, <2>1 DEF ConnectUnreachable, dbcVars, engineVars, Seen
<1>8. CASE SQLDisconnect
  <2>1. Held' = {} /\ Kept'
    BY <1>8 DEF SQLDisconnect, Held, Kept, Homes
  <2>2. /\ Connected /\ Connected' = FALSE /\ Calling = "none" /\ Calling' = Calling /\ Text' = Text
        /\ Ran' = 0 /\ Outcome' = "none" /\ autocommit' = autocommit
    BY <1>8 DEF SQLDisconnect, Connected, Calling, InCall, Text, Ran, Outcome, AppOps
  <2>3. Reliable!Disconnect
    BY <2>1, <2>2 DEF Reliable!Disconnect, Reliable!NothingHeld
  <2>4. QED
    BY <2>3 DEF Reliable!Next
<1>9. QED
  BY <1>1, <1>2, <1>3, <1>5, <1>6, <1>7, <1>8 DEF Application, CallsBegin

------------------------------------------------------------------------------
\* The driver's steps

\* While connecting, and while releasing, the application holds nothing and is
\* told of nothing.
LEMMA Unconnected ==
    ASSUME Inv, op' = op, UNCHANGED <<autocommit, txn_home, ctx_home>>,
           \/ op = "connect" /\ pc # "idle" /\ (pc' # "idle" \/ ~connected')
           \/ pc = "release" /\ pc' \in {"idle", "release"} /\ ~connected'
    PROVE  UNCHANGED Seen
<1>1. Homes = {} /\ Homes' = {} /\ Held' = Held
  BY HomesUnmoved DEF Inv, HomesInv, HeldByConnection, Homes
<1>2. Kept' = Kept
  BY <1>1 DEF Kept
<1>3. op \notin AppOps /\ ~InCall /\ Connected = FALSE
  BY DEF Inv, HomesInv, HeldByConnection, OutcomeInv, AppOps, InCall, Connected
<1>4. Connected' = FALSE /\ ~InCall'
  BY DEF Connected, InCall
<1>5. QED
  BY <1>1, <1>2, <1>3, <1>4, NotACall DEF Seen

\* A loss reported: nothing ran, and a transaction that was open is named.
LEMMA ReportLostRefines ==
    ASSUME Inv, ReportLost, op # "connect"
    PROVE  Reliable!ReportLoss
<1>1. op \in AppOps /\ pc \in {"scope", "statement"} /\ op' = op /\ ran' = ran
  BY CallIsApps DEF ReportLost
<1>2. Reliable!Return(LostResult)
  BY <1>1, CallReturns DEF ReportLost, Fail
<1>3. Ran = 0
  BY <1>1 DEF Ran, ReportLost, Answered, Inv, OutcomeInv
<1>4. "transaction" \in Held => in_transaction
  BY DEF Held, Inv, HomesInv, HeldIsCurrent
<1>5. Held # {} => ~SecondTime
  <2>1. SUFFICES ASSUME SecondTime PROVE Held = {}
    OBVIOUS
  <2>2. Recovers(op)
    BY DEF Recovers
  <2>3. restarted \/ second
    BY <2>1, <2>2 DEF SecondTime
  <2>4. Homes = {}
    BY <2>3 DEF Inv, RefinementInv, CallsOfConnection
  <2>5. QED
    BY <2>4 DEF Homes, Held
<1>6. LostResult \in Reliable!Losses
  BY DEF LostResult, Reliable!Losses
<1>7. ("transaction" \in Held => LostResult = "lost_transaction")
      /\ (Held # {} => LostResult # "lost_again")
  BY <1>4, <1>5 DEF LostResult
<1>8. Reliable!NothingHeld
  BY DEF ReportLost, Reliable!NothingHeld, Held, Kept, Homes
<1>9. autocommit' = autocommit
  BY DEF ReportLost
<1>10. QED
  BY <1>2, <1>3, <1>6, <1>7, <1>8, <1>9 DEF Reliable!ReportLoss

\* A refusal, of the statement or of the scope it needed.
LEMMA RefusedRefines ==
    ASSUME Inv, Refused, op # "connect"
    PROVE  Reliable!BeRefused
<1>1. op \in AppOps /\ pc \in {"scope", "statement"} /\ op' = op /\ ran' = ran
  BY CallIsApps DEF Refused
<1>2. Reliable!Return("refused")
  BY <1>1, CallReturns DEF Refused, Fail
<1>3. UNCHANGED <<autocommit, Held, Kept>>
  BY HomesUnmoved DEF Refused, engineVars
<1>4. QED
  BY <1>2, <1>3 DEF Reliable!BeRefused

\* The link fails in a call.
LEMMA GiveUpRefines ==
    ASSUME Inv, GiveUp, pc \in {"scope", "statement"}, op # "connect"
    PROVE  Reliable!LoseLink
<1>1. op \in AppOps /\ op' = op /\ ran' = ran
  BY CallIsApps DEF GiveUp
<1>2. Reliable!Return("link")
  BY <1>1, CallReturns DEF GiveUp, Fail
<1>3. UNCHANGED <<autocommit, Held, Kept>>
  BY HomesUnmoved DEF GiveUp, engineVars
<1>4. QED
  BY <1>2, <1>3 DEF Reliable!LoseLink

\* What the application holds after a success is what the promise says, in the
\* session that it was held in before.
LEMMA SucceededRefines ==
    ASSUME Inv, Succeeded
    PROVE  Reliable!Succeed
<1>1. /\ op \in AppOps /\ pc = "statement" /\ op' = op /\ ran' = ran
      /\ wire.type = "answer" /\ wire.reports /\ wire.session # NoSession
      /\ AbsorbSession(wire) /\ Ran = 1
  <2>1. /\ pc = "statement" /\ op' = op /\ ran' = ran /\ op # "connect"
        /\ wire.type = "answer" /\ wire.kind = "ok" /\ AbsorbSession(wire)
    BY DEF Succeeded, Answered
  <2>2. op \in AppOps
    BY <2>1, CallIsApps
  <2>3. ran = 1
    BY <2>1 DEF Inv, OutcomeInv, Answered
  <2>4. wire.reports /\ wire.session # NoSession
    BY <2>1 DEF Inv, RefinementInv, AlwaysTracked
  <2>5. QED
    BY <2>1, <2>2, <2>3, <2>4 DEF Ran
<1>2. Reliable!Return("ok")
  BY <1>1, CallReturns DEF Succeeded
<1>3. autocommit' = (IF Calling = "autocommit" THEN Text = <<"auto">> ELSE autocommit)
  BY <1>1 DEF Succeeded, Calling, Text, InCall, AppOps
<1>4. CASE op = "autocommit"
  <2>1. UNCHANGED <<txn_home, ctx_home, live>>
    BY <1>4 DEF Succeeded, NotesStatements, engineVars
  <2>2. UNCHANGED <<Held, Kept>>
    BY <2>1, HomesUnmoved
  <2>3. Reliable!HeldAfter = Held
    BY <1>1, <1>4 DEF Reliable!HeldAfter, Calling, InCall
  <2>4. Held = {} => Kept = TRUE
    BY DEF Held, Kept, Homes
  <2>5. QED
    BY <1>1, <1>2, <1>3, <2>2, <2>3, <2>4 DEF Reliable!Succeed
<1>5. CASE op # "autocommit"
  <2>1. /\ txn_home' = (IF Uncommitted(sql, autocommit, txn_home # NoSession)
                        THEN wire.session ELSE NoSession)
        /\ ctx_home' = (IF Has(sql, "use") THEN wire.session ELSE ctx_home)
        /\ live' = live
    BY <1>1, <1>5 DEF Succeeded, NotesStatements, AppOps, engineVars
  <2>2. ("transaction" \in Held <=> txn_home # NoSession)
        /\ ("context" \in Held <=> ctx_home # NoSession)
    BY DEF Held
  <2>3. Held' = Reliable!HeldAfter
    <3>1. Calling # "autocommit" /\ Text = sql
      BY <1>1, <1>5 DEF Calling, Text, InCall, AppOps
    <3>2. txn_home' # NoSession <=> Uncommitted(sql, autocommit, "transaction" \in Held)
      BY <1>1, <2>1, <2>2 DEF Uncommitted
    <3>3. ctx_home' # NoSession <=> Has(sql, "use") \/ "context" \in Held
      BY <1>1, <2>1, <2>2
    <3>4. /\ Uncommitted(Text, autocommit, "transaction" \in Held)
                <=> Reliable!Uncommitted(Text, autocommit, "transaction" \in Held)
          /\ Has(Text, "use") <=> Reliable!Has(Text, "use")
      BY DEF Uncommitted, Reliable!Uncommitted, Committing, Reliable!Committing,
             IsLast, Reliable!IsLast, Has, Reliable!Has
    <3>5. QED
      BY <3>1, <3>2, <3>3, <3>4 DEF Reliable!HeldAfter, Held
  <2>4. Held' = {} => Kept' = TRUE
    BY DEF Held, Kept, Homes
  <2>5. ASSUME Held' # {}, Kept' PROVE Kept
    <3>1. CASE Homes = {}
      BY <3>1 DEF Kept
    <3>2. CASE Homes # {}
      <4>1. ~NothingHeld
        BY <3>2 DEF NothingHeld, Homes
      <4>2. session_id' = session_id
        BY <1>1, <4>1, AbsorbKeepsWhatIsHeld DEF Inv
      <4>3. wire.session = session_id
        BY <1>1, <4>2 DEF AbsorbSession, IdAfter
      <4>4. Homes \subseteq {session_id}
        BY DEF Homes, Inv, HomesInv, HeldIsCurrent
      <4>5. session_id \in Homes'
        <5>1. Homes' # {}
          BY <2>5 DEF Held, Homes
        <5>2. txn_home' \in {session_id, NoSession} /\ ctx_home' \in {session_id, NoSession}
          BY <2>1, <4>3, <4>4 DEF Homes
        <5>3. QED
          BY <5>1, <5>2 DEF Homes
      <4>6. QED
        BY <2>1, <2>5, <4>4, <4>5 DEF Kept
    <3>3. QED
      BY <3>1, <3>2
  <2>6. Held' # {} => Kept' \in {FALSE, Kept}
    BY <2>5 DEF Kept
  <2>7. QED
    BY <1>1, <1>2, <1>3, <2>3, <2>4, <2>6 DEF Reliable!Succeed
<1>6. QED
  BY <1>4, <1>5

\* Every step the driver takes on an answer or before a request.
LEMMA DriverRefines == Inv /\ Driver => Reliable!Next \/ UNCHANGED Seen
<1> SUFFICES ASSUME Inv, Driver PROVE Reliable!Next \/ UNCHANGED Seen
  OBVIOUS
<1>1. CASE SendScope \/ SendStatement \/ SendRelease
  BY <1>1, Unseen DEF SendScope, SendStatement, SendRelease, dbcVars, callVars, historyVars,
                      engineVars
<1>2. CASE ScopeAnswered \/ ScopeApplied \/ ScopeRestarts \/ StatementRestarts
  BY <1>2, Unseen DEF ScopeAnswered, ScopeApplied, ScopeRestarts, StatementRestarts,
                      historyVars, engineVars
<1>3. CASE ReportLost
  <2>1. CASE op = "connect"
    <3>1. txn_home = NoSession /\ ctx_home = NoSession
      BY <1>3, <2>1 DEF ReportLost, Inv, HomesInv, HeldByConnection
    <3>2. QED
      BY <1>3, <2>1, <3>1, Unconnected DEF ReportLost, Fail
  <2>2. CASE op # "connect"
    BY <1>3, <2>2, ReportLostRefines DEF Reliable!Next
  <2>3. QED
    BY <2>1, <2>2
<1>4. CASE Refused
  <2>1. CASE op = "connect"
    BY <1>4, <2>1, Unconnected DEF Refused, Fail
  <2>2. CASE op # "connect"
    BY <1>4, <2>2, RefusedRefines DEF Reliable!Next
  <2>3. QED
    BY <2>1, <2>2
<1>5. CASE Succeeded
  BY <1>5, SucceededRefines DEF Reliable!Next
<1>6. CASE ConnectStatementSucceeded
  <2>1. CASE stage < Len(ScopeList)
    BY <1>6, <2>1, Unconnected DEF ConnectStatementSucceeded
  <2>2. CASE ~(stage < Len(ScopeList))
    <3>1. /\ op = "connect" /\ op' = op /\ pc = "statement" /\ pc' = "idle"
          /\ connected' = connected /\ UNCHANGED <<autocommit, txn_home, ctx_home, live>>
      BY <1>6, <2>2 DEF ConnectStatementSucceeded, engineVars
    <3>2. Connected = FALSE /\ Connected' = TRUE
      BY <3>1 DEF Connected, Inv, HomesInv, HeldByConnection
    <3>3. UNCHANGED <<Calling, Text, Ran, Outcome>>
      BY <3>1, NotACall DEF InCall, AppOps
    <3>4. UNCHANGED <<Held, Kept>>
      BY <3>1, HomesUnmoved
    <3>5. Reliable!Connect
      BY <3>1, <3>2, <3>3, <3>4 DEF Reliable!Connect
    <3>6. QED
      BY <3>5 DEF Reliable!Next
  <2>3. QED
    BY <2>1, <2>2
<1>7. CASE Released
  <2>1. ~connected /\ connected' = connected
    BY <1>7 DEF Released, Inv, HomesInv, HeldByConnection
  <2>2. QED
    BY <1>7, <2>1, Unconnected DEF Released, historyVars
<1>8. QED
  BY <1>1, <1>2, <1>3, <1>4, <1>5, <1>6, <1>7 DEF Driver

\* Every failure of the link.
LEMMA GiveUpStepRefines == Inv /\ GiveUp => Reliable!Next \/ UNCHANGED Seen
<1> SUFFICES ASSUME Inv, GiveUp PROVE Reliable!Next \/ UNCHANGED Seen
  OBVIOUS
<1>1. pc \in {"scope", "statement", "release"}
  BY DEF GiveUp, Inv, TypeInv, CallShape, TypeOK, CallType
<1>2. CASE pc = "release"
  <2>1. ~connected /\ connected' = connected
    BY <1>2 DEF GiveUp, Inv, HomesInv, HeldByConnection
  <2>2. QED
    BY <1>2, <2>1, Unconnected DEF GiveUp
<1>3. CASE pc # "release" /\ op = "connect"
  BY <1>1, <1>3, Unconnected DEF GiveUp, Fail
<1>4. CASE pc # "release" /\ op # "connect"
  BY <1>1, <1>4, GiveUpRefines DEF Reliable!Next
<1>5. QED
  BY <1>2, <1>3, <1>4

------------------------------------------------------------------------------
\* The engine's steps

\* An engine that may run a request of the connection's still has what the
\* application holds: the request requires it.
LEMMA RequestKeeps ==
    ASSUME Inv, Requesting, ~Refuses(wire)
    PROVE  Kept
<1>1. wire.session = session_id /\ wire.require = RequireSession
  BY DEF Inv, HomesInv, WireFollowsCall, ResumedOrRefused
<1>2. Homes # {} => Homes \subseteq {session_id} /\ RequireSession /\ session_id # NoSession
  BY DEF Inv, HomesInv, HeldIsCurrent, Homes, RequireSession
<1>3. tracking
  BY DEF Inv, RefinementInv, AlwaysTracked
<1>4. Homes # {} => session_id \in live
  BY <1>1, <1>2, <1>3 DEF Refuses
<1>5. QED
  BY <1>2, <1>4 DEF Kept

\* What the engine does besides leaves the application's view of the call.
LEMMA EngineUnseen ==
    ASSUME UNCHANGED dbcVars, UNCHANGED callVars, UNCHANGED <<txn_home, ctx_home>>
    PROVE  /\ UNCHANGED <<Connected, autocommit, Calling, Text, Outcome, Held, Homes>>
           /\ ran' = ran => Ran' = Ran
BY HomesUnmoved DEF dbcVars, callVars, Connected, Calling, Text, InCall, Outcome, Ran

\* The engine runs a request: the application's statement, or one of the scope.
LEMMA EngineRunsRefines ==
    ASSUME Inv, EngineRuns
    PROVE  Reliable!Run \/ UNCHANGED Seen
<1>1. UNCHANGED <<Connected, autocommit, Calling, Text, Outcome, Held, Homes>>
      /\ (ran' = ran => Ran' = Ran)
  BY EngineUnseen DEF EngineRuns
<1>2. Kept = TRUE /\ Kept' = TRUE
  <2>1. Kept
    BY RequestKeeps DEF EngineRuns
  <2>2. live \subseteq live'
    BY DEF EngineRuns, Runs
  <2>3. QED
    BY <1>1, <2>1, <2>2 DEF Kept
<1>3. CASE AppRequest
  <2>1. op \in AppOps /\ op' = op /\ pc = "statement" /\ Calling # "none"
    BY <1>3, CallIsApps DEF AppRequest, EngineRuns, callVars, Calling, InCall, AppOps
  <2>2. ran = 0 /\ ran' = 1
    BY <1>3, <2>1 DEF EngineRuns, Requesting, Inv, OutcomeInv
  <2>3. Ran = 0 /\ Ran' = 1
    BY <2>1, <2>2 DEF Ran
  <2>4. QED
    BY <1>1, <1>2, <2>1, <2>3 DEF Reliable!Run
<1>4. CASE ~AppRequest
  BY <1>1, <1>2, <1>4 DEF EngineRuns, Seen
<1>5. QED
  BY <1>3, <1>4

\* A request given up on comes to run in no session that was lost.
LEMMA LateRequestUnseen ==
    ASSUME Inv, LateRequestRuns
    PROVE  UNCHANGED Seen
<1>1. UNCHANGED <<Connected, autocommit, Calling, Text, Outcome, Held, Homes, Ran>>
  BY EngineUnseen DEF LateRequestRuns
<1>2. PICK request \in late :
          /\ ~Refuses(request)
          /\ \E session \in RunsIn(request) : live' = live \cup {session}
  BY DEF LateRequestRuns, Runs
<1>2a. PICK session \in RunsIn(request) : live' = live \cup {session}
  BY <1>2
<1>3. session \in Homes => session \in live
  <2>1. CASE request.session \in live
    BY <1>2, <2>1 DEF RunsIn
  <2>2. CASE request.session \notin live
    <3>1. request.session = NoSession
      BY <1>2, <2>2 DEF Refuses, Inv, RefinementInv, AlwaysTracked
    <3>2. session \in FreshIds
      BY <1>2, <2>2, <3>1 DEF RunsIn
    <3>3. QED
      BY <3>2 DEF FreshIds, Referenced, Homes
  <2>3. QED
    BY <2>1, <2>2
<1>4. Kept' = Kept
  BY <1>1, <1>2a, <1>3 DEF Kept
<1>5. QED
  BY <1>1, <1>4 DEF Seen

\* Every step of the engine.
LEMMA EngineRefines == Inv /\ Engine => Reliable!Next \/ UNCHANGED Seen
<1> SUFFICES ASSUME Inv, Engine PROVE Reliable!Next \/ UNCHANGED Seen
  OBVIOUS
<1>1. CASE EngineRuns
  BY <1>1, EngineRunsRefines DEF Reliable!Next
<1>2. CASE EngineRefuses \/ LateRequestDropped
  BY <1>2, EngineUnseen DEF EngineRefuses, LateRequestDropped, engineVars, historyVars, Kept, Seen
<1>3. CASE EngineReleases
  <2>1. Homes = {}
    BY <1>3 DEF EngineReleases, Inv, HomesInv, WireFollowsCall, HeldByConnection, Homes
  <2>2. UNCHANGED <<Connected, autocommit, Calling, Text, Outcome, Held, Homes, Ran>>
    BY <1>3, EngineUnseen DEF EngineReleases
  <2>3. Kept' = Kept
    BY <2>1, <2>2 DEF Kept
  <2>4. QED
    BY <2>2, <2>3 DEF Seen
<1>4. CASE EngineLoses
  <2>1. UNCHANGED <<Connected, autocommit, Calling, Text, Outcome, Held, Homes, Ran>>
    BY <1>4, EngineUnseen DEF EngineLoses
  <2>2. CASE Kept' = Kept
    BY <2>1, <2>2 DEF Seen
  <2>3. CASE Kept' # Kept
    <3>1. live' \subseteq live
      BY <1>4 DEF EngineLoses
    <3>2. Kept' = FALSE
      BY <2>1, <2>3, <3>1 DEF Kept
    <3>3. Held # {}
      BY <2>1, <3>2 DEF Kept, Homes, Held
    <3>4. Reliable!Lose
      BY <2>1, <3>2, <3>3 DEF Reliable!Lose
    <3>5. QED
      BY <3>4 DEF Reliable!Next
  <2>4. QED
    BY <2>2, <2>3
<1>5. CASE EngineUpgraded
  BY <1>5 DEF EngineUpgraded, Inv, RefinementInv, AlwaysTracked
<1>6. CASE LateRequestRuns
  BY <1>6, LateRequestUnseen
<1>7. QED
  BY <1>1, <1>2, <1>3, <1>4, <1>5, <1>6 DEF Engine

------------------------------------------------------------------------------
\* The initial states are those of the promise.
LEMMA InitRefines == Init => Reliable!Init
BY DEF Init, Reliable!Init, Connected, Calling, Text, InCall, Ran, Outcome, AppOps, Held, Kept,
       Homes

\* Every step is one of the promise, or none that the application sees.
LEMMA StepRefines == Inv /\ [Next]_vars => [Reliable!Next]_(Reliable!vars)
<1> SUFFICES ASSUME Inv, [Next]_vars PROVE Reliable!Next \/ UNCHANGED Seen
  BY DEF Seen, Reliable!vars
<1>1. CASE UNCHANGED vars
  BY <1>1, Unseen DEF vars, dbcVars, callVars, historyVars, engineVars
<1>2. QED
  BY <1>1, ApplicationRefines, DriverRefines, GiveUpStepRefines, EngineRefines DEF Next

\* For every application, every scope and an engine that reports newSession,
\* whatever the link and the engine lose: the connection behaves as the one
\* the application is promised. A call runs its statement once, where the
\* application left off, or fails and says what is known (fl_proto_execute_as
\* with build_request_json, absorb_session, lose_session and apply_scope,
\* proto.c).
THEOREM ImplementsPromise ==
    ASSUME MayBeOlder = FALSE
    PROVE  Spec => ImplementsReliableConnection
<1>1. Init => Inv
  BY InitType, HomesInit, OutcomeInit, RefinementInit DEF Inv
<1>2. Inv /\ [Next]_vars => Inv'
  BY InvStep
<1>3. QED
  BY <1>1, <1>2, InitRefines, StepRefines, PTL
     DEF Spec, ImplementsReliableConnection, Reliable!Spec
=============================================================================
