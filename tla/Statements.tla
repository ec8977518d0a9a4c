----------------------------- MODULE Statements -----------------------------
(***************************************************************************)
(* What one request carries and what it does: to the driver's idea of the  *)
(* session (session.c, track_context in execute.c) and to the session the  *)
(* engine keeps (external, as the driver's comments and tests use it).     *)
(*                                                                         *)
(* A request is a sequence of statements, each abstracted to its kind:     *)
(*   "work"   an ordinary statement: SELECT, INSERT, CREATE TABLE, ...     *)
(*   "begin"  BEGIN or START TRANSACTION                                   *)
(*   "end"    COMMIT or ROLLBACK                                           *)
(*   "use"    USE DATABASE of a database other than the DSN's; it stands   *)
(*            for every statement of touches_session                       *)
(* and, sent by the driver only, always alone in their request,            *)
(*   "use_database", "use_schema"   the DSN's scope                        *)
(*   "manual", "auto"               ALTER SESSION SET AUTOCOMMIT           *)
(***************************************************************************)
EXTENDS Integers, Sequences, FiniteSets

AppKinds == {"work", "begin", "end", "use"}
DriverKinds == {"use_database", "use_schema", "manual", "auto"}
Kinds == AppKinds \cup DriverKinds

\* Statements that change where, or in which commit mode, a session runs.
SettingKinds == DriverKinds \cup {"use"}

------------------------------------------------------------------------------
\* The driver's reading of a request that succeeded.

TouchesSession(kind) == kind = "use"

TransactionEffect(kind) ==
    CASE kind = "begin" -> 1
      [] kind = "end" -> -1
      [] OTHER -> 0

\* fl_session_note walks the statements in order. Only ever setting the flag,
\* it ends up set when any statement sets it ...
NotedDirty(sql, was) == was \/ \E i \in DOMAIN sql : TouchesSession(sql[i])

IsLast(i, S) == i \in S /\ \A j \in S : j <= i

\* ... while the last statement that decides on the transaction has the say:
\* every statement does when the application commits by hand.
Deciding(sql, autocommit) ==
    {i \in DOMAIN sql : TransactionEffect(sql[i]) # 0 \/ ~autocommit}

NotedTransaction(sql, autocommit, was) ==
    \/ was /\ Deciding(sql, autocommit) = {}
    \/ \E i \in DOMAIN sql :
           IsLast(i, Deciding(sql, autocommit)) /\ TransactionEffect(sql[i]) >= 0

\* track_context reads the text from its first word on, and takes everything
\* after USE DATABASE, the statements that follow included, for the name.
TrackedCatalog(sql, was) ==
    IF sql[1] # "use" THEN was ELSE IF Len(sql) = 1 THEN "app" ELSE "garbled"

------------------------------------------------------------------------------
\* The engine's session.

Databases == {"none", "dsn", "app"}
Sessions == [database : Databases, schema : {"none", "dsn"}, auto : BOOLEAN, open : BOOLEAN]

FreshSession == [database |-> "none", schema |-> "none", auto |-> TRUE, open |-> FALSE]

\* Whether uncommitted work is on a session after it ran these statements.
Committing(sql, auto) ==
    {i \in DOMAIN sql : sql[i] \in {"begin", "end"} \/ (sql[i] = "work" /\ ~auto)}

Uncommitted(sql, auto, was) ==
    \/ was /\ Committing(sql, auto) = {}
    \/ \E i \in DOMAIN sql : IsLast(i, Committing(sql, auto)) /\ sql[i] # "end"

Has(sql, kind) == \E i \in DOMAIN sql : sql[i] = kind

\* A USE DATABASE leaves the schema behind: it is why the scope has an order.
After(session, sql) ==
    [database |-> IF Has(sql, "use") THEN "app"
                  ELSE IF Has(sql, "use_database") THEN "dsn" ELSE session.database,
     schema   |-> IF Has(sql, "use") \/ Has(sql, "use_database") THEN "none"
                  ELSE IF Has(sql, "use_schema") THEN "dsn" ELSE session.schema,
     auto     |-> Has(sql, "auto") \/ (session.auto /\ ~Has(sql, "manual")),
     open     |-> Uncommitted(sql, session.auto, session.open)]
=============================================================================
