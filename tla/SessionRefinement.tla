-------------------------- MODULE SessionRefinement ---------------------------
(***************************************************************************)
(* SessionProtocol implements ReliableConnection, towards an engine that   *)
(* reports newSession. Connecting is one step of the latter, taken when it *)
(* succeeds; disconnecting is one step, taken when it begins.              *)
(***************************************************************************)
EXTENDS SessionProperties

Connected == connected /\ ~(op = "connect" /\ pc # "idle")

\* A call of the application is under way; do_connect's statements are not.
InCall == pc \in {"scope", "statement"} /\ op # "connect"
Calling == IF InCall THEN op ELSE "none"
Text == IF InCall THEN sql ELSE <<>>

Ran == IF op \in AppOps THEN ran ELSE 0
Outcome == IF op \in AppOps THEN result ELSE "none"

Homes == {txn_home, ctx_home} \ {NoSession}
Held ==
    {kind \in {"transaction", "context"} :
        IF kind = "transaction" THEN txn_home # NoSession ELSE ctx_home # NoSession}
Kept == Homes \subseteq live

Reliable == INSTANCE ReliableConnection WITH
    connected <- Connected, calling <- Calling, text <- Text, ran <- Ran,
    outcome <- Outcome, held <- Held, kept <- Kept

\* Seen by the application, the protocol with its ids, its recovery from 404s
\* and its scope is a connection that runs a statement once, where the
\* application left off, or says that it did not (proto.c:409-447).
ImplementsReliableConnection == Reliable!Spec

\* What makes the steps of the protocol steps of the promise.

\* The engine reports newSession, and every request with an id requires it,
\* those given up on included: no lost session comes back under its id.
AlwaysTracked ==
    /\ tracking
    /\ session_id # NoSession => tracks_sessions = 1
    /\ wire.type = "answer" =>
           wire.reports /\ (wire.kind = "ok" => wire.session # NoSession)
    /\ \A request \in late : request.session # NoSession => request.require

CallsOfConnection ==
    /\ ~connected => op \notin AppOps
    /\ pc \in {"scope", "statement"} => op # "disconnect"
    /\ restarted \/ second => Homes = {}

RefinementInv == AlwaysTracked /\ CallsOfConnection
=============================================================================
