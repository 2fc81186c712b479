------------------------------- MODULE TaskStore -------------------------------
(***************************************************************************)
(* The in-memory task store of the A2A server (InMemoryTaskStore): the     *)
(* state of each task, the update sequence the listing is ordered by, the  *)
(* idempotency keys, and the subscriptions to a task's events.             *)
(*                                                                         *)
(* Every map has a lock of its own.  An operation changes a task under the *)
(* lock of the tasks, releases it, and only then notifies the subscribers: *)
(* what a caller has changed and not yet told is in owed.  The operations  *)
(* are actions of a caller; A2aServer says who calls them and when.        *)
(*                                                                         *)
(* A subscription is a channel of 64 events.  A task has at most three     *)
(* (EventsFit in A2aServer), so the branch of a full channel is never      *)
(* taken and is left out.                                                  *)
(***************************************************************************)
EXTENDS Integers, Sequences, FiniteSets

CONSTANTS
    Tasks,       \* task ids
    NoTask,      \* Option::None for a task id
    Keys,        \* idempotency keys
    Callers,     \* threads that call the store and may owe a notification
    Receivers    \* owners of a subscription

ASSUME StoreAssumption == NoTask \notin Tasks

Terminal == {"Completed", "Failed", "Canceled", "Rejected"}
TaskState == {"Submitted", "Working", "InputRequired"} \cup Terminal
EventKind == TaskState \cup {"artifact"}

\* TaskEvent: a status change, or the artifact with the result.
TaskEvent == [task : Tasks, kind : EventKind]
Event(task_id, event) == [task |-> task_id, kind |-> event]

VARIABLES
    status,              \* state of each task, "none" before it is created
    history,             \* tasks whose history holds the client's message
    update_seq,          \* update sequence of each task
    next_seq,
    idempotency_keys,    \* the task created under each key
    subscriptions,       \* receivers whose sender the store keeps, per task
    connected,           \* receivers that have not been dropped
    channel,             \* events a receiver has not taken yet
    owed                 \* events a caller has still to notify

taskVars == <<status, history, update_seq, next_seq, idempotency_keys>>
subVars == <<subscriptions, connected, channel>>
storeVars == <<taskVars, subVars, owed>>

StoreInit ==
    /\ status = [task \in Tasks |-> "none"]
    /\ history = {}
    /\ update_seq = [task \in Tasks |-> 0] /\ next_seq = 1
    /\ idempotency_keys = [key \in Keys |-> NoTask]
    /\ subscriptions = [task \in Tasks |-> {}]
    /\ connected = {} /\ channel = [r \in Receivers |-> <<>>]
    /\ owed = [c \in Callers |-> <<>>]

-----------------------------------------------------------------------------
is_terminal(task) == status[task] \in Terminal

\* A slip in which a terminal state is left for another one.
is_valid_transition_Bug(from, to) ==
    from \in {"Submitted", "Working", "Canceled"} /\ to \in {"Working"} \cup Terminal
is_valid_transition(from, to) ==
    <<from, to>> \in {<<"Submitted", "Working">>, <<"Submitted", "Canceled">>,
        <<"Submitted", "Rejected">>, <<"Working", "InputRequired">>,
        <<"Working", "Completed">>, <<"Working", "Failed">>,
        <<"Working", "Canceled">>, <<"Working", "Rejected">>,
        <<"InputRequired", "Working">>, <<"InputRequired", "Canceled">>}

assign_update_seq(task) ==
    /\ update_seq' = [update_seq EXCEPT ![task] = next_seq]
    /\ next_seq' = next_seq + 1

\* A new task; a key, if one is given, maps to it from then on.
create_task(task, key) ==
    /\ status[task] = "none"
    /\ status' = [status EXCEPT ![task] = "Submitted"]
    /\ assign_update_seq(task)
    /\ idempotency_keys' = IF key \in Keys THEN [idempotency_keys EXCEPT ![key] = task]
                                           ELSE idempotency_keys
    /\ UNCHANGED <<history, subVars, owed>>

\* A status change that the state machine allows; the caller has to notify it.
update_status(caller, task, state) ==
    /\ is_valid_transition(status[task], state)
    /\ status' = [status EXCEPT ![task] = state]
    /\ assign_update_seq(task)
    /\ owed' = [owed EXCEPT ![caller] = <<Event(task, state)>>]
    /\ UNCHANGED <<history, idempotency_keys, subVars>>

\* The events of a completed task: its result, then its state.
completion_events_Bug(task) == <<Event(task, "Completed"), Event(task, "artifact")>>
completion_events(task) == <<Event(task, "artifact"), Event(task, "Completed")>>

\* A slip that completes a task in whatever state it is.
complete_task_Bug(caller, task) ==
    /\ status' = [status EXCEPT ![task] = "Completed"]
    /\ owed' = [owed EXCEPT ![caller] = completion_events(task)]
    /\ UNCHANGED <<history, update_seq, next_seq, idempotency_keys, subVars>>

\* The result and the state are set together; the update sequence is not assigned.
complete_task(caller, task) ==
    /\ is_valid_transition(status[task], "Completed")
    /\ status' = [status EXCEPT ![task] = "Completed"]
    /\ owed' = [owed EXCEPT ![caller] = completion_events(task)]
    /\ UNCHANGED <<history, update_seq, next_seq, idempotency_keys, subVars>>

\* A message is appended to the history of a task that has not ended.
append_history(task) ==
    /\ history' = IF is_terminal(task) THEN history ELSE history \cup {task}
    /\ UNCHANGED <<status, update_seq, next_seq, idempotency_keys>>

subscribe(receiver, task) ==
    /\ subscriptions' = [subscriptions EXCEPT ![task] = @ \cup {receiver}]
    /\ connected' = connected \cup {receiver}
    /\ UNCHANGED <<taskVars, channel, owed>>

\* notify_status_change and notify_artifact_added: the event goes to every
\* subscriber; a sender whose receiver was dropped fails and is pruned.
notify(caller) ==
    /\ owed[caller] # <<>>
    /\ LET event == Head(owed[caller])
           live == subscriptions[event.task] \cap connected
       IN  /\ channel' = [r \in Receivers |->
                 IF r \in live THEN Append(channel[r], event) ELSE channel[r]]
           /\ subscriptions' = [subscriptions EXCEPT ![event.task] = live]
    /\ owed' = [owed EXCEPT ![caller] = Tail(@)]
    /\ UNCHANGED <<taskVars, connected>>

\* The receiver takes the next event, and is dropped if it leaves.
receive(receiver, leaves) ==
    /\ channel[receiver] # <<>>
    /\ channel' = [channel EXCEPT ![receiver] = IF leaves THEN <<>> ELSE Tail(@)]
    /\ connected' = IF leaves THEN connected \ {receiver} ELSE connected
    /\ UNCHANGED <<taskVars, subscriptions, owed>>

disconnect(receiver) ==
    /\ channel' = [channel EXCEPT ![receiver] = <<>>]
    /\ connected' = connected \ {receiver}
    /\ UNCHANGED <<taskVars, subscriptions, owed>>

-----------------------------------------------------------------------------
\* The types of the store's variables.
StoreTypeOK ==
    /\ status \in [Tasks -> TaskState \cup {"none"}]
    /\ history \subseteq Tasks
    /\ update_seq \in [Tasks -> Nat] /\ next_seq \in Nat
    /\ idempotency_keys \in [Keys -> Tasks \cup {NoTask}]
    /\ subscriptions \in [Tasks -> SUBSET Receivers]
    /\ connected \subseteq Receivers
    /\ channel \in [Receivers -> Seq(TaskEvent)]
    /\ owed \in [Callers -> Seq(TaskEvent)]

=============================================================================
