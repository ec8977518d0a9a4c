-------------------------- MODULE ReliableConnection --------------------------
(***************************************************************************)
(* What an application is promised of its connection (README, "After a     *)
(* lost session", and the diagnostics of proto.c), with no ids, no 404s, no*)
(* scope to put back and no link: a call runs its statement once where the *)
(* application left off, or fails and says what is known.                  *)
(*                                                                         *)
(* `held` is what the application has on the engine and was told of: a     *)
(* transaction with uncommitted work, a context it moved to. `kept` says   *)
(* whether the engine still has it. SessionProtocol implements this        *)
(* (SessionRefinement).                                                    *)
(***************************************************************************)
EXTENDS Statements

CONSTANT Requests       \* what the application may execute

VARIABLES
    connected, autocommit,
    calling,        \* the call under way, or "none"
    text,           \* the statement it is to run
    ran,            \* how often that statement has run
    outcome,        \* what the last call told the application
    held, kept

vars == <<connected, autocommit, calling, text, ran, outcome, held, kept>>

Calls == {"exec", "endtran", "autocommit", "catalog"}
Losses == {"lost_transaction", "lost_context", "lost_again"}

\* What a call sends.
TextsOf(call) ==
    CASE call = "exec" -> Requests
      [] call = "endtran" -> {<<"end">>}
      [] call = "autocommit" -> {IF autocommit THEN <<"manual">> ELSE <<"auto">>}
      [] call = "catalog" -> {<<"use">>}

\* What the application holds once this statement of its has succeeded. The
\* commit mode is no work and no context: a fresh session is given it again.
HeldAfter ==
    IF calling = "autocommit" THEN held
    ELSE {kind \in {"transaction", "context"} :
            IF kind = "transaction"
            THEN Uncommitted(text, autocommit, "transaction" \in held)
            ELSE Has(text, "use") \/ "context" \in held}

NothingHeld == held' = {} /\ kept' = TRUE

------------------------------------------------------------------------------
Init ==
    /\ connected = FALSE
    /\ autocommit = TRUE
    /\ calling = "none"
    /\ text = <<>>
    /\ ran = 0
    /\ outcome = "none"
    /\ held = {}
    /\ kept = TRUE

Connect ==
    /\ ~connected
    /\ connected' = TRUE
    /\ UNCHANGED <<autocommit, calling, text, ran, outcome, held, kept>>

\* The commit mode may be chosen before connecting.
Choose ==
    /\ ~connected
    /\ autocommit' = ~autocommit
    /\ UNCHANGED <<connected, calling, text, ran, outcome, held, kept>>

Call(call) ==
    /\ connected
    /\ calling = "none"
    /\ calling' = call
    /\ text' \in TextsOf(call)
    /\ ran' = 0
    /\ outcome' = "none"
    /\ UNCHANGED <<connected, autocommit, held, kept>>

\* The statement runs, for the first time, where the application left off:
\* not once what it holds is gone.
Run ==
    /\ calling # "none"
    /\ ran = 0
    /\ held # {} => kept
    /\ ran' = 1
    /\ UNCHANGED <<connected, autocommit, calling, text, outcome, held, kept>>

Return(result) ==
    /\ calling # "none"
    /\ calling' = "none"
    /\ text' = <<>>
    /\ outcome' = result
    /\ UNCHANGED <<connected, ran>>

\* What was held before and was lost meanwhile stays lost; what this
\* statement began may be lost already, too.
Succeed ==
    /\ Return("ok")
    /\ ran = 1
    /\ autocommit' = (IF calling = "autocommit" THEN text = <<"auto">> ELSE autocommit)
    /\ held' = HeldAfter
    /\ IF HeldAfter = {} THEN kept' = TRUE ELSE kept' \in {FALSE, kept}

\* The engine's refusal of the statement, or of part of it.
BeRefused == Return("refused") /\ UNCHANGED <<autocommit, held, kept>>

\* The link failed: whether the statement ran is not known.
LoseLink == Return("link") /\ UNCHANGED <<autocommit, held, kept>>

\* The session was lost and the application is told so: nothing ran, and
\* a transaction that was open is named as what is gone.
ReportLoss ==
    /\ ran = 0
    /\ \E why \in Losses :
        /\ Return(why)
        /\ "transaction" \in held => why = "lost_transaction"
        /\ held # {} => why # "lost_again"
    /\ NothingHeld
    /\ UNCHANGED autocommit

\* The engine loses what the application holds: not its doing, and it is not
\* told before its next call.
Lose ==
    /\ held # {}
    /\ kept' = FALSE
    /\ UNCHANGED <<connected, autocommit, calling, text, ran, outcome, held>>

Disconnect ==
    /\ connected
    /\ calling = "none"
    /\ connected' = FALSE
    /\ ran' = 0
    /\ outcome' = "none"
    /\ NothingHeld
    /\ UNCHANGED <<autocommit, calling, text>>

Next ==
    \/ Connect \/ Choose \/ Disconnect
    \/ \E call \in Calls : Call(call)
    \/ Run
    \/ Succeed \/ BeRefused \/ LoseLink \/ ReportLoss
    \/ Lose

Spec == Init /\ [][Next]_vars
=============================================================================
