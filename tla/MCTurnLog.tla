------------------------------ MODULE MCTurnLog ------------------------------
(* One turn that the provider may fail twice before it is cancelled.       *)
EXTENDS TurnLog

MCTurnPrompts == <<"p1">>
MCBudget == [kind \in RetryKind |-> IF kind = "backoff" THEN 2 ELSE 0]
=============================================================================
