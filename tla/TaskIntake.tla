------------------------------ MODULE TaskIntake ------------------------------
(***************************************************************************)
(* What the orchestrator promises about the A2A tasks handed to it,        *)
(* whatever the interleaving of prompts, cancels, switches and quits:      *)
(*   - a task waits, may run, and is answered; it never goes back;         *)
(*   - only a running task is completed or failed, only a waiting one is   *)
(*     rejected;                                                           *)
(*   - one task runs at a time;                                           *)
(*   - a task may be dropped (its id is overwritten or consumed by other   *)
(*     text): then it never runs and is never answered.                    *)
(***************************************************************************)
CONSTANT Tasks

VARIABLE status

Status == {"unknown", "waiting", "running", "dropped", "completed", "failed", "rejected"}

\* The moves of one task.
Lifecycle ==
    {<<"unknown", "waiting">>, <<"waiting", "running">>, <<"waiting", "rejected">>,
     <<"waiting", "dropped">>, <<"running", "completed">>, <<"running", "failed">>,
     <<"running", "dropped">>}

Init == status = [task \in Tasks |-> "unknown"]

Moves(next) ==
    \A task \in Tasks : next[task] = status[task] \/ <<status[task], next[task]>> \in Lifecycle

AtMostOneRuns(next) ==
    \A a, b \in Tasks : next[a] = "running" /\ next[b] = "running" => a = b

\* Several tasks may move in one step, as when an outcome completes one task and
\* releases the deferred prompt of another.
Next ==
    /\ status' \in [Tasks -> Status]
    /\ Moves(status')
    /\ AtMostOneRuns(status')

Spec == Init /\ [][Next]_status
=============================================================================
