------------------------------- MODULE TuiPrompts -------------------------------
(***************************************************************************)
(* The prompts of the terminal interface: typed or handed in by the A2A    *)
(* server, they wait while one is active, leave together as one text when  *)
(* it ends, or return to the input when the user aborts (Esc, and Esc      *)
(* again while the arm lives).  The interface learns how its turns go from *)
(* the ui-event bus only, whose events carry no name of a turn.            *)
(*                                                                         *)
(* ui is the part of AppState the prompts live in; the methods of AppState *)
(* are operators on it.  The loop and the worker, which Orchestrator       *)
(* models, are here what they owe the interface: they take its events in   *)
(* order, run the submitted texts in order, and end each turn with a       *)
(* TurnCompleted of the worker or a TurnError of the loop.                 *)
(***************************************************************************)
EXTENDS Integers, Sequences, FiniteSets, SequencesExt

CONSTANTS
    MaxPrompts,  \* bound: prompts submitted
    MaxAsks,     \* bound: turns that ask for a permission
    MaxExtras    \* bound: slash commands, cancels of a remote caller, empty Enters

ASSUME TuiPromptsAssumption == {MaxPrompts, MaxAsks, MaxExtras} \subseteq Nat

PromptIds == 1..MaxPrompts
NoPrompt == 0

VARIABLES
    ui,          \* AppState
    to_loop,     \* OrchestratorEvents on their way to the loop
    commands,    \* turns in the worker's channel; a turn is named by its first prompt
    running,     \* the turn the worker runs: [turn, begun, cancelled]
    results,     \* turns whose failure the loop has yet to report
    ui_events,   \* the ui-event bus: [type, turn]
    request,     \* the permission request of a turn
    sent,        \* for the properties: how often a prompt left for the loop
    extras

tuiVars == <<ui, to_loop, commands, running, results, ui_events, request, sent, extras>>

-----------------------------------------------------------------------------
(* prompt_queue.rs *)
enqueue_prompt(u) ==
    [u EXCEPT !.items[u.next_prompt_id] = "Queued", !.pending = Append(@, u.next_prompt_id),
              !.next_prompt_id = @ + 1]

QueueComplete(u) ==
    IF u.active = NoPrompt THEN u
    ELSE [u EXCEPT !.items[u.active] = "Done", !.active = NoPrompt]

cancel_and_drain_to_texts(u) ==
    LET done == QueueComplete(u)
    IN  [done EXCEPT !.pending = <<>>,
                     !.items = [p \in PromptIds |-> IF p \in ToSet(u.pending) THEN "Cancelled" ELSE @[p]]]

\* A slip in which an active prompt does not hold the queue back.
coalesce_pending_prompts_Bug(u) ==
    IF u.pending = <<>> THEN u
    ELSE [u EXCEPT !.active = Head(u.pending), !.pending = <<>>, !.out = u.pending,
                   !.items = [p \in PromptIds |->
                                IF p = Head(u.pending) THEN "InProgress"
                                ELSE IF p \in ToSet(u.pending) THEN "Done" ELSE @[p]]]
\* The prompts that wait leave together; the first stands for all of them.
coalesce_pending_prompts(u) ==
    IF u.pending = <<>> \/ u.active # NoPrompt THEN u
    ELSE [u EXCEPT !.active = Head(u.pending), !.pending = <<>>, !.out = u.pending,
                   !.items = [p \in PromptIds |->
                                IF p = Head(u.pending) THEN "InProgress"
                                ELSE IF p \in ToSet(u.pending) THEN "Done" ELSE @[p]]]

\* More than one prompt in progress: the oldest is kept, the others queue again.
enforce_single_active_invariant(u) ==
    LET busy == {p \in PromptIds : u.items[p] = "InProgress"}
        others == busy \ {Min(busy)}
        kept == IF Cardinality(busy) > 1
                THEN [u EXCEPT !.active = Min(busy), !.pending = SetToSortSeq(others, >) \o @,
                               !.items = [p \in PromptIds |-> IF p \in others THEN "Queued" ELSE @[p]]]
                ELSE u
    IN  IF kept.active = NoPrompt THEN kept ELSE [kept EXCEPT !.items[kept.active] = "InProgress"]

-----------------------------------------------------------------------------
(* lifecycle.rs *)
disarm_abort(u) == [u EXCEPT !.armed = FALSE, !.arm = "none"]
reset_abort(u) == [disarm_abort(u) EXCEPT !.settle_notice = FALSE]
Settled(u) == disarm_abort([u EXCEPT !.phase = "Idle"])

ensure_invariants(u0) ==
    LET armed(u) == u.phase = "AbortPending" /\ u.armed
        stale(u) == u.phase = "AbortPending" /\ ~u.active_cycle
        u1 == IF stale(u0) THEN Settled(u0) ELSE u0
        u2 == IF u1.phase # "AbortPending" THEN disarm_abort(u1) ELSE u1
        u3 == [u2 EXCEPT !.active_cycle = u2.active # NoPrompt \/ u2.pending # <<>>]
        u4 == IF u3.phase = "Idle" /\ u3.active_cycle THEN [u3 EXCEPT !.phase = "Busy"] ELSE u3
        u5 == IF stale(u4) THEN Settled(u4) ELSE u4
        u6 == IF armed(u0) /\ ~armed(u5) THEN [u5 EXCEPT !.settle_notice = TRUE] ELSE u5
    IN  enforce_single_active_invariant(u6)

accept_submit(u) ==
    ensure_invariants(reset_abort([u EXCEPT !.phase = "Busy",
        !.active_cycle = u.active # NoPrompt \/ u.pending # <<>>]))

enqueue_prompt_with_facts(u) == accept_submit(enqueue_prompt(u))

enqueue_immediate_submission(u) ==
    ensure_invariants(reset_abort([u EXCEPT !.immediate = TRUE]))

complete_active_prompt(u) ==
    LET done == QueueComplete(u)
        notice == u.settle_notice \/ (u.phase = "AbortPending" /\ u.armed)
    IN  ensure_invariants(disarm_abort([done EXCEPT !.settle_notice = notice,
            !.phase = "Idle", !.input_locked = FALSE, !.active_cycle = FALSE]))

cancel_and_restore_pending_to_input(u) ==
    ensure_invariants(reset_abort([cancel_and_drain_to_texts(u) EXCEPT
        !.phase = "Idle", !.input_locked = FALSE, !.active_cycle = FALSE]))

request_abort_confirmation(u) ==
    IF u.active = NoPrompt /\ u.pending = <<>> /\ ~u.active_cycle THEN ensure_invariants(u)
    ELSE ensure_invariants([u EXCEPT !.armed = TRUE, !.arm = "live", !.settle_notice = FALSE,
                                     !.phase = "AbortPending"])

sweep_expired_abort(u) ==
    IF u.arm # "expired" THEN u
    ELSE [disarm_abort(u) EXCEPT !.phase = IF u.active_cycle THEN "Busy" ELSE "Idle"]

\* Of take_pending_events, the prompts: what leaves is left in out.
take_next_prompt_for_execution(u) ==
    LET v == coalesce_pending_prompts([u EXCEPT !.out = <<>>])
    IN  ensure_invariants(IF v.out = <<>> THEN v
                          ELSE reset_abort([v EXCEPT !.phase = "Busy", !.active_cycle = TRUE]))

-----------------------------------------------------------------------------
(* reducer.rs *)
handle_escape_confirm(u) ==
    IF u.phase = "AbortPending" /\ u.armed /\ u.active_cycle /\ u.arm = "live"
    THEN [cancel_and_restore_pending_to_input([u EXCEPT !.cancel = TRUE]) EXCEPT !.card = NoPrompt]
    ELSE u

handle_escape(u) ==
    IF u.phase = "Idle" THEN [u EXCEPT !.settle_notice = FALSE]
    ELSE IF u.phase = "AbortPending" /\ u.armed /\ u.arm = "live" THEN handle_escape_confirm(u)
    ELSE request_abort_confirmation(
             IF u.phase = "AbortPending" /\ u.armed THEN sweep_expired_abort(u) ELSE u)

\* A slip in which the end of a turn leaves its card up.
TurnEnded_Bug(u) == [complete_active_prompt(u) EXCEPT !.input_locked = FALSE]
\* TurnCompleted and TurnError alike.
TurnEnded(u) == [complete_active_prompt(u) EXCEPT !.card = NoPrompt, !.input_locked = FALSE]

reduce_event(u, e) ==
    CASE e.type = "InferenceStarted" ->
            ensure_invariants(IF u.phase # "Idle" THEN u
                              ELSE [u EXCEPT !.phase = "Busy", !.input_locked = TRUE])
      [] e.type = "PermissionRequested" -> ensure_invariants([u EXCEPT !.card = e.turn])
      [] e.type = "PermissionDecisionTimedOut" ->
            IF u.card = e.turn THEN [u EXCEPT !.card = NoPrompt] ELSE u
      [] e.type \in {"TurnCompleted", "TurnError"} -> TurnEnded(u)

-----------------------------------------------------------------------------
NoTurn == [turn |-> NoPrompt, begun |-> FALSE, cancelled |-> FALSE]

TuiInit ==
    /\ ui = [items |-> [p \in PromptIds |-> "none"], next_prompt_id |-> 1, pending |-> <<>>,
             active |-> NoPrompt, phase |-> "Idle", input_locked |-> FALSE,
             active_cycle |-> FALSE, armed |-> FALSE, arm |-> "none", settle_notice |-> FALSE,
             card |-> NoPrompt, immediate |-> FALSE, cancel |-> FALSE, out |-> <<>>]
    /\ to_loop = <<>> /\ commands = <<>> /\ running = NoTurn /\ results = <<>>
    /\ ui_events = <<>> /\ request = [p \in PromptIds |-> "none"]
    /\ sent = [p \in PromptIds |-> 0] /\ extras = 0

loopVars == <<commands, running, results, request>>

\* The render loop after an arm that changed u: take_pending_events, and the
\* events in its order: commands, the text, the decision, the cancel.
TakePending(u, decision) ==
    LET v == take_next_prompt_for_execution(u)
        text == IF v.out = <<>> THEN <<>> ELSE <<[type |-> "PromptSubmitted", turn |-> Head(v.out)]>>
        cancel == IF v.cancel THEN <<[type |-> "CancelRequested", turn |-> NoPrompt]>> ELSE <<>>
    IN  /\ ui' = [v EXCEPT !.out = <<>>, !.immediate = FALSE, !.cancel = FALSE]
        /\ to_loop' = to_loop \o text \o decision \o cancel
        /\ sent' = [p \in PromptIds |-> sent[p] + Cardinality({i \in DOMAIN v.out : v.out[i] = p})]

Pressed(u) == TakePending(u, <<>>) /\ UNCHANGED <<loopVars, ui_events>>
Extra == extras < MaxExtras /\ extras' = extras + 1

\* Enter on a text, or an EnqueueExternalPrompt of the ui-state bus.
handle_submit ==
    ui.next_prompt_id <= MaxPrompts /\ Pressed(enqueue_prompt_with_facts(ui)) /\ UNCHANGED extras

\* Enter on a slash command: it goes ahead of the prompts and starts no turn.
SlashSubmitted == Extra /\ Pressed(enqueue_immediate_submission(ui))

\* Enter on an empty input while prompts wait: the running turn is cancelled.
EmptyEnter ==
    ui.phase = "Busy" /\ ui.pending # <<>> /\ Extra /\ Pressed([ui EXCEPT !.cancel = TRUE])

\* With a card up, Esc is the card's.
Escape == ui.card = NoPrompt /\ ui.phase # "Idle" /\ Pressed(handle_escape(ui)) /\ UNCHANGED extras

ArmExpires ==
    /\ ui.arm = "live" /\ ui' = [ui EXCEPT !.arm = "expired"]
    /\ UNCHANGED <<to_loop, loopVars, ui_events, sent, extras>>

\* The status message of an expired arm is swept by the render timer.
ArmSwept ==
    /\ ui.arm = "expired" /\ ui' = sweep_expired_abort(ui)
    /\ UNCHANGED <<to_loop, loopVars, ui_events, sent, extras>>

\* The card's keys: its request is the one that is decided.
reduce_permission_decided ==
    /\ ui.card # NoPrompt
    /\ TakePending(ensure_invariants([ui EXCEPT !.card = NoPrompt]),
                   <<[type |-> "PermissionDecision", turn |-> ui.card]>>)
    /\ UNCHANGED <<loopVars, ui_events, extras>>

\* A slip in which the prompts that were freed wait for the next key.
reduce_event_batch_Bug ==
    \E n \in 1..Len(ui_events) :
        /\ ui_events' = SubSeq(ui_events, n + 1, Len(ui_events))
        /\ ui' = FoldLeft(reduce_event, ui, SubSeq(ui_events, 1, n))
        /\ UNCHANGED <<to_loop, loopVars, sent, extras>>
\* The ui-event arm folds what has queued up, then takes what that set free.
reduce_event_batch ==
    \E n \in 1..Len(ui_events) :
        /\ ui_events' = SubSeq(ui_events, n + 1, Len(ui_events))
        /\ TakePending(FoldLeft(reduce_event, ui, SubSeq(ui_events, 1, n)), <<>>)
        /\ UNCHANGED <<loopVars, extras>>

-----------------------------------------------------------------------------
(* The loop and the worker. *)
Publish(type, turn) == ui_events' = Append(ui_events, [type |-> type, turn |-> turn])

LoopEvent ==
    /\ to_loop # <<>> /\ to_loop' = Tail(to_loop)
    /\ LET e == Head(to_loop)
       IN  CASE e.type = "PromptSubmitted" ->
                    commands' = Append(commands, e.turn) /\ UNCHANGED <<running, request>>
             [] e.type = "PermissionDecision" ->
                    /\ request' = [request EXCEPT ![e.turn] = IF @ = "asked" THEN "ended" ELSE @]
                    /\ UNCHANGED <<commands, running>>
             [] e.type = "CancelRequested" ->
                    /\ running' = [running EXCEPT !.cancelled = running.turn # NoPrompt]
                    /\ UNCHANGED <<commands, request>>
    /\ UNCHANGED <<ui, results, ui_events, sent, extras>>

\* A failure is reported by the loop, which the worker does not wait for.
TurnFailureReported ==
    /\ results # <<>> /\ results' = Tail(results) /\ Publish("TurnError", Head(results))
    /\ UNCHANGED <<ui, to_loop, commands, running, request, sent, extras>>

WorkerTakes ==
    /\ running = NoTurn /\ commands # <<>>
    /\ running' = [NoTurn EXCEPT !.turn = Head(commands)] /\ commands' = Tail(commands)
    /\ UNCHANGED <<ui, to_loop, results, ui_events, request, sent, extras>>

InferenceStarts ==
    /\ running # NoTurn /\ ~running.begun /\ ~running.cancelled
    /\ running' = [running EXCEPT !.begun = TRUE] /\ Publish("InferenceStarted", running.turn)
    /\ UNCHANGED <<ui, to_loop, commands, results, request, sent, extras>>

TurnAsksUser ==
    /\ running.begun /\ ~running.cancelled /\ request[running.turn] = "none"
    /\ Cardinality({p \in PromptIds : request[p] # "none"}) < MaxAsks
    /\ request' = [request EXCEPT ![running.turn] = "asked"]
    /\ Publish("PermissionRequested", running.turn)
    /\ UNCHANGED <<ui, to_loop, commands, running, results, sent, extras>>

AskTimesOut ==
    /\ running # NoTurn /\ request[running.turn] = "asked"
    /\ request' = [request EXCEPT ![running.turn] = "ended"]
    /\ Publish("PermissionDecisionTimedOut", running.turn)
    /\ UNCHANGED <<ui, to_loop, commands, running, results, sent, extras>>

\* An A2A caller cancels the task of the running turn.
RemoteCancel ==
    /\ running # NoTurn /\ ~running.cancelled /\ Extra
    /\ running' = [running EXCEPT !.cancelled = TRUE]
    /\ UNCHANGED <<ui, to_loop, commands, results, ui_events, request, sent>>

\* A turn that waits for a decision ends only when it is cancelled.
CanEnd == running # NoTurn /\ (request[running.turn] # "asked" \/ running.cancelled)
EndTurn ==
    /\ CanEnd /\ running' = NoTurn
    /\ request' = [request EXCEPT ![running.turn] = IF @ = "asked" THEN "ended" ELSE @]
    /\ UNCHANGED <<ui, to_loop, commands, sent, extras>>
TurnCompletes == EndTurn /\ Publish("TurnCompleted", running.turn) /\ UNCHANGED results
TurnFails == EndTurn /\ results' = Append(results, running.turn) /\ UNCHANGED ui_events

WorkerStep ==
    \/ WorkerTakes \/ InferenceStarts \/ TurnAsksUser \/ AskTimesOut \/ TurnCompletes \/ TurnFails

TuiNext ==
    \/ handle_submit \/ SlashSubmitted \/ EmptyEnter \/ Escape \/ ArmExpires \/ ArmSwept
    \/ reduce_permission_decided \/ reduce_event_batch
    \/ LoopEvent \/ TurnFailureReported \/ WorkerStep \/ RemoteCancel

TuiSpec == TuiInit /\ [][TuiNext]_tuiVars

-----------------------------------------------------------------------------
Status == {"none", "Queued", "InProgress", "Done", "Cancelled"}
TuiTypeOK ==
    /\ ui.items \in [PromptIds -> Status] /\ ToSet(ui.pending) \subseteq PromptIds
    /\ ui.phase \in {"Idle", "Busy", "AbortPending"} /\ ui.arm \in {"none", "live", "expired"}
    /\ {ui.active, ui.card, running.turn} \subseteq PromptIds \cup {NoPrompt}
    /\ ToSet(commands) \cup ToSet(results) \subseteq PromptIds
    /\ request \in [PromptIds -> {"none", "asked", "ended"}]

\* A prompt waits in the queue once, or has left for the loop once, or is back in
\* the input and never left: no abort, end of a turn or burst of events sends a
\* prompt twice, drops it, or both returns and runs it.
SentOrReturned ==
    \A p \in PromptIds :
        LET waits == Cardinality({i \in DOMAIN ui.pending : ui.pending[i] = p})
        IN  /\ (waits = 1) = (ui.items[p] = "Queued") /\ waits <= 1
            /\ sent[p] = IF ui.items[p] \in {"InProgress", "Done"} THEN 1 ELSE 0

\* A card is up only while its request is open or news of its end is on the way:
\* the user is never left with a card whose answer nobody takes, although the
\* events that close it name no turn and may be another turn's.
CardBacked ==
    ui.card # NoPrompt =>
        \/ request[ui.card] = "asked"
        \/ \E i \in DOMAIN ui_events : ui_events[i].turn = ui.card
        \/ ui.card \in ToSet(results)

\* Prompts wait behind an active one, and the end of the active prompt's own turn
\* is still to come: no abort, burst of events or end of another turn leaves the
\* queue waiting for an event that was already taken.
QueueMoves ==
    LET ends == {ui_events[i].turn : i \in {j \in DOMAIN ui_events :
                     ui_events[j].type \in {"TurnCompleted", "TurnError"}}}
        submitted == {to_loop[i].turn : i \in DOMAIN to_loop}
    IN  /\ ui.pending # <<>> => ui.active # NoPrompt
        /\ ui.active # NoPrompt =>
               ui.active \in submitted \cup ToSet(commands) \cup {running.turn}
                             \cup ToSet(results) \cup ends
=============================================================================
