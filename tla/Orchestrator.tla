----------------------------- MODULE Orchestrator -----------------------------
(***************************************************************************)
(* The interactive orchestrator of agnt-core: the event loop               *)
(* (run_orchestrator_loop), its stages, and the worker task that runs the  *)
(* commands one by one (CommandRouter::dispatch).                          *)
(*                                                                         *)
(* Three actors meet here.                                                 *)
(*   - The loop polls its channels and runs one handler to the end before  *)
(*     it polls again.  All of ctx and the stage state is its own.         *)
(*   - The worker takes commands in order.  It is the only one that runs a *)
(*     turn, a compaction or a runtime switch.                             *)
(*   - The environment is open: the render loop sends any event at any     *)
(*     time, and the A2A server hands over any task and any cancel.        *)
(*                                                                         *)
(* A handler that awaits a send on the full command channel is parked: the *)
(* commands it still owes wait in outbox and the loop polls nothing until  *)
(* they are sent.  The loop's own variables are read by nobody else, so a  *)
(* handler updates them in one step.                                       *)
(*                                                                         *)
(* The biased order of the select! is not relied on: a message may arrive  *)
(* between two polls of one pass, so any ready source can be the one that  *)
(* is served.                                                              *)
(***************************************************************************)
EXTENDS Integers, Sequences, FiniteSets, SequencesExt

CONSTANTS
    Tasks,                \* A2A task ids the server may hand over
    NoTask,               \* Option::None for a task id
    Servers,              \* MCP servers a toggle may name
    UiInputs,             \* kinds of event the render loop sends
    MaxUiEvents,          \* bound: events the render loop sends
    MaxNotices,           \* bound: completion events of remote tasks
    MaxTurnCompactions,   \* bound: compaction events published by turns
    WORKER_CMD_CAPACITY,  \* width of the worker command channel (256)
    EVENT_CAPACITY,       \* width of the event and result channels (256)
    RESPONSE_CAPACITY,    \* width of each response channel (32)
    BUS_CAPACITY,         \* messages the compaction bus keeps (16)
    StoreRefuses          \* may the session store refuse to open or load?

BlockingKinds == {"model", "agent", "session"}
RefreshKinds == {"session_picker", "agent_picker"}
ConcurrentKinds == RefreshKinds \cup Servers
RequestKinds == BlockingKinds \cup ConcurrentKinds
TextKinds == {"prompt", "compact", "new", "note"}
SignalKinds == {"cancel", "quit", "fatal"}

ASSUME ConstantsAssumption ==
    /\ NoTask \notin Tasks
    /\ Servers \cap (BlockingKinds \cup RefreshKinds \cup {"none"}) = {}
    /\ UiInputs \subseteq TextKinds \cup RequestKinds \cup SignalKinds
    /\ {MaxUiEvents, MaxNotices, MaxTurnCompactions} \subseteq Nat
    /\ {WORKER_CMD_CAPACITY, EVENT_CAPACITY, RESPONSE_CAPACITY, BUS_CAPACITY}
         \subseteq Nat \ {0}
    /\ StoreRefuses \in BOOLEAN

-----------------------------------------------------------------------------
(* Messages.                                                               *)

\* A UI request; id is the number of the render-loop event that carried it,
\* so of two requests the one with the larger id was made later.
Request == [kind : RequestKinds, id : 1..MaxUiEvents]
NoRequest == [kind |-> "none", id |-> 0]

\* A submitted text: tasks holds the A2A tasks whose prompts it contains (the
\* render loop joins queued prompts), so a text with no task is the user's own.
Text == [kind : TextKinds, tasks : SUBSET Tasks]
NoText == [kind |-> "none", tasks |-> {}]

\* A prompt held back while a blocking request is pending.
DeferredPrompt == [text : Text, task_id : Tasks \cup {NoTask}]
NoPrompt == [text |-> NoText, task_id |-> NoTask]

\* Events of the render loop.
UiEvent == [kind : {"text"}, text : Text, request : {NoRequest}]
      \cup [kind : {"request"}, text : {NoText}, request : Request]
      \cup [kind : SignalKinds, text : {NoText}, request : {NoRequest}]

\* Commands to the worker.
WorkerCommand ==
    [kind : {"turn", "attach"}, task_id : Tasks \cup {NoTask},
     tasks : SUBSET Tasks, request : {NoRequest}]
    \cup [kind : {"request"}, task_id : {NoTask}, tasks : {{}}, request : Request]
    \cup [kind : {"compact", "new", "shutdown"}, task_id : {NoTask},
          tasks : {{}}, request : {NoRequest}]

ExecuteTurn(text, task) ==
    [kind |-> "turn", task_id |-> task, tasks |-> text.tasks, request |-> NoRequest]
AttachA2aContext(task) ==
    [kind |-> "attach", task_id |-> NoTask, tasks |-> {task}, request |-> NoRequest]
HandleUiRequest(req) ==
    [kind |-> "request", task_id |-> NoTask, tasks |-> {}, request |-> req]
Plain(kind) ==
    [kind |-> kind, task_id |-> NoTask, tasks |-> {}, request |-> NoRequest]
RunCompaction == Plain("compact")
NewSession == Plain("new")
Shutdown == Plain("shutdown")
NoJob == Plain("idle")

\* A turn's outcome: the task its command was attributed to, whether execute_turn
\* answered Ok, and whether the turn had seen a cancel.
TurnOutcome == [task_id : Tasks \cup {NoTask}, ok : BOOLEAN, cancelled : BOOLEAN]

\* Compaction bus: a request, a progress report, or Completed/Failed.
CompactionEvent == {"requested", "progress", "ended"}

Verdicts == {"none", "completed", "failed", "rejected"}

-----------------------------------------------------------------------------
VARIABLES
    \* -- the loop: control, ctx and loop-local state
    loop,                   \* "running", "joining" the worker, or "ended"
    outbox,                 \* commands a parked handler still has to send
    worker_active,
    active_task,            \* active_external_task_id, set with its prompt
    pending_external_cancel,
    pending_a2a_task_id,
    pending_compaction,
    compaction_active,
    quit_pending,
    pending_completions,    \* pending_completion_events, counted
    deferred_prompt,
    \* -- the UI request stage
    pending_blocking,
    pending_concurrent,
    queued,
    \* -- channels into the loop
    events, worker_results, blocking_responses, concurrent_responses,
    compactions, task_cancels, a2a_tasks, completions,
    lagged,                 \* history: a compaction event was skipped
    silent,                 \* history: a compaction ended without an event
    \* -- the worker
    commands, phase, job, cancelled, store_latch, applied,
    \* -- the environment
    ui_open,                \* the render loop is still running
    ui_sent,                \* events it has sent
    ui_prompts,             \* A2A prompts enqueued at it and not yet submitted
    ui_active,              \* its queue has an active prompt (active_prompt_id)
    turn_ends,              \* ends of turns on their way to it, counted
    offered,                \* tasks the server has handed over
    canceled,               \* tasks a client has cancelled
    noticed,                \* completion events sent
    turn_compactions,       \* compaction events turns have published
    verdict                 \* what the loop has told about each task

turnVars == <<worker_active, active_task, pending_external_cancel>>
intakeVars == <<pending_a2a_task_id, deferred_prompt>>
compactVars == <<pending_compaction, compaction_active>>
noticeVars == <<pending_completions, completions>>
stageVars == <<pending_blocking, pending_concurrent, queued>>
replyVars == <<blocking_responses, concurrent_responses>>
a2aVars == <<task_cancels, a2a_tasks>>
runtimeVars == <<phase, job, store_latch, applied>>
busVars == <<compactions, lagged, silent>>
uiVars == <<ui_open, ui_sent, ui_prompts, ui_active>>
envVars == <<uiVars, turn_ends, offered, canceled, noticed, turn_compactions>>
vars == <<loop, outbox, turnVars, intakeVars, compactVars, noticeVars, stageVars,
          replyVars, a2aVars, runtimeVars, envVars, quit_pending, events,
          worker_results, busVars, commands, cancelled, verdict>>

-----------------------------------------------------------------------------
Init ==
    /\ loop = "running" /\ outbox = <<>>
    /\ worker_active = FALSE /\ active_task = NoTask
    /\ pending_external_cancel = NoTask /\ pending_a2a_task_id = NoTask
    /\ pending_compaction = FALSE /\ compaction_active = FALSE
    /\ quit_pending = FALSE /\ pending_completions = 0
    /\ deferred_prompt = NoPrompt
    /\ pending_blocking = NoRequest /\ pending_concurrent = {} /\ queued = <<>>
    /\ events = <<>> /\ worker_results = <<>>
    /\ blocking_responses = <<>> /\ concurrent_responses = <<>>
    /\ compactions = <<>> /\ lagged = FALSE /\ silent = FALSE
    /\ task_cancels = <<>> /\ a2a_tasks = <<>> /\ completions = 0
    /\ commands = <<>> /\ phase = "idle" /\ job = NoJob /\ cancelled = FALSE
    /\ store_latch = FALSE /\ applied = [k \in BlockingKinds |-> 0]
    /\ ui_open = TRUE /\ ui_sent = 0 /\ ui_prompts = {}
    /\ offered = {} /\ canceled = {}
    /\ ui_active = FALSE /\ turn_ends = 0 /\ noticed = 0 /\ turn_compactions = 0
    /\ verdict = [t \in Tasks |-> "none"]

-----------------------------------------------------------------------------
(* What a handler does to the channels it writes.                          *)

\* The commands a handler sends reach the channel at once while it has room;
\* otherwise the handler is parked and they wait in outbox.
Send(cmds) ==
    IF Len(commands) + Len(cmds) <= WORKER_CMD_CAPACITY
    THEN commands' = commands \o cmds /\ outbox' = <<>>
    ELSE commands' = commands /\ outbox' = cmds

\* The end of a handler: break out of the loop, or poll again.  Whoever leaves
\* the loop asks the worker to shut down after the commands already sent.
Finish(break, cmds) ==
    /\ loop' = IF break THEN "joining" ELSE "running"
    /\ Send(IF break THEN Append(cmds, Shutdown) ELSE cmds)

\* The compaction bus keeps the newest BUS_CAPACITY messages; a receiver that
\* lags skips the oldest ones.
PublishUnbounded(event) ==
    compactions' = Append(compactions, event) /\ UNCHANGED <<lagged, silent>>
Publish(event) ==
    LET full == Len(compactions) = BUS_CAPACITY
    IN  /\ compactions' = Append(IF full THEN Tail(compactions) ELSE compactions, event)
        /\ lagged' = (lagged \/ full)
        /\ UNCHANGED silent

\* A cancel on the broadcast bus reaches a turn only if the turn has subscribed.
Cancelled(requested) == cancelled \/ (requested /\ phase = "listening")

\* What the loop tells about a task: TaskCompleted and TaskFailed on the turn
\* bus, or a rejection in the task store.
Tell(task, what) ==
    IF task = NoTask THEN verdict ELSE [verdict EXCEPT ![task] = what]

-----------------------------------------------------------------------------
(* The decisions of the handlers.  An operator whose name ends in _Bug is a  *)
(* plausible slip in the one after it: the runs check that it is caught.     *)

has_pending == pending_blocking # NoRequest \/ pending_concurrent # {}

\* A blocking request needs an idle worker and no other one in flight.
MustQueue_Bug == worker_active
MustQueue == worker_active \/ pending_blocking # NoRequest

\* The entries of pending_concurrent that stay when a request of this kind has
\* been answered: every entry of the kind goes, so two toggles of one server are
\* both forgotten at the first answer.
Unanswered_Bug(kind) == {}
Unanswered(kind) == pending_concurrent \ {kind}

\* A pending quit leaves the loop once no request is pending.
QuitAfter_Bug(blocking, concurrent) == quit_pending /\ ~has_pending
QuitAfter(blocking, concurrent) ==
    quit_pending /\ blocking = NoRequest /\ concurrent = {}

\* The deferred prompt submit_deferred_prompt takes, or NoPrompt.
Released_Bug(active, blocking) ==
    IF quit_pending \/ active \/ blocking # NoRequest \/ pending_concurrent # {}
    THEN NoPrompt ELSE deferred_prompt
Released(active, blocking) ==
    IF quit_pending \/ active \/ blocking # NoRequest THEN NoPrompt
                                                      ELSE deferred_prompt

\* The request drain_queued dispatches once the worker is idle, or NoRequest.
Drained == IF pending_blocking # NoRequest \/ queued = <<>> THEN NoRequest
                                                            ELSE Head(queued)

\* dispatch_compaction keeps the request for later.
CompactLater_Bug == compaction_active \/ worker_active \/ has_pending
CompactLater == compaction_active \/ worker_active

\* The loop takes the pending task id for the prompt it has received.
TakePendingId_Bug == UNCHANGED pending_a2a_task_id
TakePendingId == pending_a2a_task_id' = NoTask

\* The task whose deferred prompt is replaced.
Superseded_Bug == pending_a2a_task_id
Superseded == deferred_prompt.task_id

\* An incoming task is refused while a turn runs or the command channel is full.
Refused == worker_active \/ Len(commands) >= WORKER_CMD_CAPACITY
PendingAfter_Bug(task) == task
PendingAfter(task) == IF Refused THEN pending_a2a_task_id ELSE task

\* A cancel that came before the task's turn.
EarlyCancel_Bug(task) == FALSE
EarlyCancel(task) == task # NoTask /\ pending_external_cancel = task

-----------------------------------------------------------------------------
(* The slash stage.  SlashHandle(NoText, NoTask, ...) changes nothing.     *)

SlashCommands(text, task) ==
    CASE text.kind = "prompt" -> <<ExecuteTurn(text, task)>>
      [] text.kind = "new"    -> <<NewSession>>
      [] OTHER                -> <<>>

StartsTurn_Bug(text) == text.kind # "none"
StartsTurn(text) == text.kind = "prompt"

\* active and owner are worker_active and active_external_task_id as the handler
\* left them before it called the stage.
SlashHandle(text, task, active, owner) ==
    LET cancel == StartsTurn(text) /\ EarlyCancel(task)
    IN  /\ worker_active' = (active \/ StartsTurn(text))
        /\ active_task' = IF StartsTurn(text) /\ task # NoTask THEN task ELSE owner
        /\ pending_external_cancel' = IF cancel THEN NoTask ELSE pending_external_cancel
        /\ cancelled' = Cancelled(cancel)
        /\ IF text.kind = "compact" THEN Publish("requested") ELSE UNCHANGED busVars

Polling == loop = "running" /\ outbox = <<>>
Got(kind) == Polling /\ events # <<>> /\ Head(events).kind = kind

-----------------------------------------------------------------------------
(* The loop: one action per select! arm, or per outcome of an arm.         *)

\* A parked handler's next command goes out as soon as there is room.
FlushOutbox ==
    /\ outbox # <<>> /\ Len(commands) < WORKER_CMD_CAPACITY
    /\ commands' = Append(commands, Head(outbox))
    /\ outbox' = Tail(outbox)
    /\ UNCHANGED <<loop, turnVars, intakeVars, compactVars, noticeVars, stageVars,
                   replyVars, a2aVars, runtimeVars, envVars, quit_pending, events,
                   worker_results, busVars, cancelled, verdict>>

\* PromptSubmitted while a blocking request is pending: the prompt takes the
\* pending task id with it and replaces an earlier deferred prompt, whose task
\* is rejected as superseded.
DeferPrompt ==
    /\ Got("text") /\ pending_blocking # NoRequest
    /\ events' = Tail(events)
    /\ deferred_prompt' = [text |-> Head(events).text, task_id |-> pending_a2a_task_id]
    /\ TakePendingId
    /\ verdict' = Tell(Superseded, "rejected")
    /\ UNCHANGED <<loop, outbox, turnVars, compactVars, noticeVars, stageVars,
                   replyVars, a2aVars, runtimeVars, envVars, quit_pending,
                   worker_results, busVars, commands, cancelled>>

\* PromptSubmitted otherwise: the slash stage handles it with the pending id.
SubmitPrompt ==
    /\ Got("text") /\ pending_blocking = NoRequest
    /\ events' = Tail(events)
    /\ TakePendingId
    /\ LET text == Head(events).text
       IN  /\ SlashHandle(text, pending_a2a_task_id, worker_active, active_task)
           /\ Finish(FALSE, SlashCommands(text, pending_a2a_task_id))
    /\ UNCHANGED <<deferred_prompt, compactVars, noticeVars, stageVars, replyVars,
                   a2aVars, runtimeVars, envVars, quit_pending, worker_results,
                   verdict>>

\* A queue without its request of a kind: it holds at most one, because the next
\* action is the only one to add to it.
Without(queue, kind) == RemoveFirstMatch(queue, LAMBDA r : r.kind = kind)

\* A model or agent switch waits while the worker is busy or another blocking
\* request is pending; it replaces the one of its kind that waits.
QueueRequest ==
    /\ Got("request")
    /\ LET req == Head(events).request
       IN  /\ req.kind \in {"model", "agent"} /\ MustQueue
           /\ queued' = Append(Without(queued, req.kind), req)
    /\ events' = Tail(events)
    /\ UNCHANGED <<loop, outbox, turnVars, intakeVars, compactVars, noticeVars,
                   pending_blocking, pending_concurrent, replyVars, a2aVars,
                   runtimeVars, envVars, quit_pending, worker_results, busVars,
                   commands, cancelled, verdict>>

DispatchBlocking ==
    /\ Got("request")
    /\ LET req == Head(events).request
       IN  /\ req.kind \in BlockingKinds /\ ~MustQueue
           /\ pending_blocking' = req
           /\ Finish(FALSE, <<HandleUiRequest(req)>>)
    /\ events' = Tail(events)
    /\ UNCHANGED <<turnVars, intakeVars, compactVars, noticeVars, pending_concurrent,
                   queued, replyVars, a2aVars, runtimeVars, envVars, quit_pending,
                   worker_results, busVars, cancelled, verdict>>

\* A toggle always goes to the worker, a refresh unless one is in flight.
DispatchConcurrent ==
    /\ Got("request")
    /\ LET req == Head(events).request
       IN  /\ req.kind \in Servers \cup (RefreshKinds \ pending_concurrent)
           /\ pending_concurrent' = pending_concurrent \cup {req.kind}
           /\ Finish(FALSE, <<HandleUiRequest(req)>>)
    /\ events' = Tail(events)
    /\ UNCHANGED <<turnVars, intakeVars, compactVars, noticeVars, pending_blocking,
                   queued, replyVars, a2aVars, runtimeVars, envVars, quit_pending,
                   worker_results, busVars, cancelled, verdict>>

\* A session switch is refused while busy and ignored while a blocking request
\* is pending; a refresh already in flight is skipped.
IgnoreRequest ==
    /\ Got("request")
    /\ LET req == Head(events).request
       IN  \/ req.kind = "session" /\ MustQueue
           \/ req.kind \in RefreshKinds \cap pending_concurrent
    /\ events' = Tail(events)
    /\ UNCHANGED <<loop, outbox, turnVars, intakeVars, compactVars, noticeVars,
                   stageVars, replyVars, a2aVars, runtimeVars, envVars, quit_pending,
                   worker_results, busVars, commands, cancelled, verdict>>

CancelRequested ==
    /\ Got("cancel")
    /\ events' = Tail(events)
    /\ cancelled' = Cancelled(TRUE)
    /\ UNCHANGED <<loop, outbox, turnVars, intakeVars, compactVars, noticeVars,
                   stageVars, replyVars, a2aVars, runtimeVars, envVars, quit_pending,
                   worker_results, busVars, commands, verdict>>

\* What a Quit has to wait for.
QuitMustWait ==
    worker_active \/ has_pending \/ pending_compaction \/ compaction_active

\* A Quit waits for what is in flight, and cancels a running turn.
QuitLater ==
    /\ Got("quit") /\ QuitMustWait
    /\ events' = Tail(events)
    /\ quit_pending' = TRUE
    /\ cancelled' = Cancelled(worker_active)
    /\ UNCHANGED <<loop, outbox, turnVars, intakeVars, compactVars, noticeVars,
                   stageVars, replyVars, a2aVars, runtimeVars, envVars,
                   worker_results, busVars, commands, verdict>>

QuitNow ==
    /\ \/ Got("quit") /\ ~QuitMustWait
       \/ Got("fatal")
    /\ events' = Tail(events)
    /\ Finish(TRUE, <<>>)
    /\ UNCHANGED <<turnVars, intakeVars, compactVars, noticeVars, stageVars,
                   replyVars, a2aVars, runtimeVars, envVars, quit_pending,
                   worker_results, busVars, cancelled, verdict>>

\* A turn ended: settle its task, tell the render loop of a failed turn, dispatch
\* a queued blocking request and a queued compaction, honour a pending quit, then
\* submit the deferred prompt or let one buffered completion event through.
HandleWorkerResult ==
    /\ Polling /\ worker_results # <<>>
    /\ worker_results' = Tail(worker_results)
    /\ verdict' = Tell(active_task,
                       IF Head(worker_results).ok THEN "completed" ELSE "failed")
    /\ LET blocking == IF Drained = NoRequest THEN pending_blocking ELSE Drained
           entry == Released(FALSE, blocking)
           requests == IF Drained = NoRequest THEN <<>> ELSE <<HandleUiRequest(Drained)>>
           compaction == IF pending_compaction THEN <<RunCompaction>> ELSE <<>>
           prompt == SlashCommands(entry.text, entry.task_id)
       IN  /\ pending_blocking' = blocking
           /\ queued' = IF Drained = NoRequest THEN queued ELSE Tail(queued)
           /\ SlashHandle(entry.text, entry.task_id, FALSE, NoTask)
           /\ deferred_prompt' = IF entry = NoPrompt THEN deferred_prompt ELSE NoPrompt
           /\ Finish(quit_pending, requests \o compaction \o prompt)
    /\ pending_compaction' = FALSE
    /\ pending_completions' =
         IF quit_pending \/ worker_active' \/ pending_completions = 0
         THEN pending_completions ELSE pending_completions - 1
    /\ turn_ends' = turn_ends + IF Head(worker_results).ok THEN 0 ELSE 1
    /\ UNCHANGED <<pending_a2a_task_id, compaction_active, completions,
                   pending_concurrent, replyVars, a2aVars, runtimeVars, uiVars,
                   offered, canceled, noticed, turn_compactions, quit_pending, events>>

HandleBlockingResponse ==
    /\ Polling /\ blocking_responses # <<>>
    /\ blocking_responses' = Tail(blocking_responses)
    /\ pending_blocking' = NoRequest
    /\ LET entry == Released(worker_active, NoRequest)
       IN  /\ SlashHandle(entry.text, entry.task_id, worker_active, active_task)
           /\ deferred_prompt' = IF entry = NoPrompt THEN deferred_prompt ELSE NoPrompt
           /\ Finish(QuitAfter(NoRequest, pending_concurrent),
                     SlashCommands(entry.text, entry.task_id))
    /\ UNCHANGED <<pending_a2a_task_id, compactVars, noticeVars, pending_concurrent,
                   queued, concurrent_responses, a2aVars, runtimeVars, envVars,
                   quit_pending, events, worker_results, verdict>>

HandleConcurrentResponse ==
    /\ Polling /\ concurrent_responses # <<>>
    /\ concurrent_responses' = Tail(concurrent_responses)
    /\ pending_concurrent' = Unanswered(Head(concurrent_responses).kind)
    /\ Finish(QuitAfter(pending_blocking, pending_concurrent'), <<>>)
    /\ UNCHANGED <<turnVars, intakeVars, compactVars, noticeVars, pending_blocking,
                   queued, blocking_responses, a2aVars, runtimeVars, envVars,
                   quit_pending, events, worker_results, busVars, cancelled,
                   verdict>>

compactionUnchanged ==
    UNCHANGED <<turnVars, intakeVars, noticeVars, stageVars, replyVars, a2aVars,
                runtimeVars, envVars, quit_pending, events, worker_results, lagged,
                silent, cancelled, verdict>>

\* dispatch_compaction: run it now, or keep one request for later.
DispatchCompaction ==
    /\ Polling /\ compactions # <<>> /\ Head(compactions) = "requested"
    /\ compactions' = Tail(compactions)
    /\ pending_compaction' = (pending_compaction \/ CompactLater)
    /\ compaction_active' = (compaction_active \/ ~CompactLater)
    /\ Finish(FALSE, IF CompactLater THEN <<>> ELSE <<RunCompaction>>)
    /\ compactionUnchanged

\* Completed or Failed: the queued compaction follows at once unless a turn is
\* running, and a pending quit leaves when none was started.
CompactionEnded ==
    /\ Polling /\ compactions # <<>> /\ Head(compactions) = "ended"
    /\ compactions' = Tail(compactions)
    /\ LET next == pending_compaction /\ ~worker_active
       IN  /\ compaction_active' = next
           /\ pending_compaction' = (pending_compaction /\ ~next)
           /\ Finish(quit_pending /\ ~next, IF next THEN <<RunCompaction>> ELSE <<>>)
    /\ compactionUnchanged

CompactionProgress ==
    /\ Polling /\ compactions # <<>> /\ Head(compactions) = "progress"
    /\ compactions' = Tail(compactions)
    /\ UNCHANGED <<loop, outbox, compactVars, commands>>
    /\ compactionUnchanged

HandleExternalCancel ==
    /\ Polling /\ task_cancels # <<>>
    /\ task_cancels' = Tail(task_cancels)
    /\ LET task == Head(task_cancels)
       IN  /\ cancelled' = Cancelled(task = active_task)
           /\ pending_external_cancel' =
                IF task = active_task THEN pending_external_cancel ELSE task
    /\ UNCHANGED <<loop, outbox, worker_active, active_task, intakeVars, compactVars,
                   noticeVars, stageVars, replyVars, a2a_tasks, runtimeVars, envVars,
                   quit_pending, events, worker_results, busVars, commands,
                   verdict>>

\* A task is handed to the worker with try_send, or rejected when a turn is
\* running or the command channel is full.
TakeA2aTask ==
    /\ Polling /\ a2a_tasks # <<>>
    /\ a2a_tasks' = Tail(a2a_tasks)
    /\ LET task == Head(a2a_tasks)
       IN  /\ commands' = IF Refused THEN commands
                                     ELSE Append(commands, AttachA2aContext(task))
           /\ pending_a2a_task_id' = PendingAfter(task)
           /\ verdict' = IF Refused THEN Tell(task, "rejected") ELSE verdict
    /\ UNCHANGED <<loop, outbox, turnVars, deferred_prompt, compactVars, noticeVars,
                   stageVars, replyVars, task_cancels, runtimeVars, envVars,
                   quit_pending, events, worker_results, busVars, cancelled>>

\* A completion event of a remote task waits for an idle worker; otherwise its
\* prompt goes to the render loop, which may submit it like a user's own.
TakeCompletion ==
    /\ Polling /\ completions > 0
    /\ completions' = completions - 1
    /\ pending_completions' =
         IF worker_active THEN pending_completions + 1 ELSE pending_completions
    /\ UNCHANGED <<loop, outbox, turnVars, intakeVars, compactVars, stageVars,
                   replyVars, a2aVars, runtimeVars, envVars, quit_pending, events,
                   worker_results, busVars, commands, cancelled, verdict>>

\* The worker took Shutdown and was joined.
Ended ==
    /\ loop = "joining" /\ phase = "stopped"
    /\ loop' = "ended"
    /\ UNCHANGED <<outbox, turnVars, intakeVars, compactVars, noticeVars, stageVars,
                   replyVars, a2aVars, runtimeVars, envVars, quit_pending, events,
                   worker_results, busVars, commands, cancelled, verdict>>

LoopNext ==
    \/ FlushOutbox \/ DeferPrompt \/ SubmitPrompt \/ QueueRequest
    \/ DispatchBlocking \/ DispatchConcurrent \/ IgnoreRequest
    \/ CancelRequested \/ QuitLater \/ QuitNow \/ HandleWorkerResult
    \/ HandleBlockingResponse \/ HandleConcurrentResponse
    \/ DispatchCompaction \/ CompactionEnded \/ CompactionProgress
    \/ HandleExternalCancel \/ TakeA2aTask \/ TakeCompletion \/ Ended
-----------------------------------------------------------------------------
(* The worker: the commands run one at a time, in order.                   *)

LoopListens == loop = "running"

\* The worker waits for room in a channel as long as the loop holds its receiver;
\* after that its message is dropped.
HasRoom(ch, capacity) == LoopListens => Len(ch) < capacity
Delivered(ch, message) == IF LoopListens THEN Append(ch, message) ELSE ch

StartOf(kind) ==
    CASE kind = "turn"     -> "starting"
      [] kind = "compact"  -> "opening"
      [] kind = "request"  -> "serving"
      [] kind = "shutdown" -> "stopped"
      [] OTHER             -> "idle"

\* Take the next command.  Attaching an A2A context always ends with the prompt
\* enqueued at the render loop, whether or not the session could be attached.
\* Whoever changes the session clears the store latch.
TakeCommand ==
    /\ phase = "idle" /\ commands # <<>>
    /\ LET cmd == Head(commands)
       IN  /\ phase' = StartOf(cmd.kind)
           /\ job' = IF phase' = "idle" THEN NoJob ELSE cmd
           /\ ui_prompts' = IF cmd.kind = "attach" THEN ui_prompts \cup cmd.tasks
                                                   ELSE ui_prompts
           /\ store_latch' \in CASE cmd.kind = "new"    -> {FALSE}
                                 [] cmd.kind = "attach" -> {store_latch, FALSE}
                                 [] OTHER               -> {store_latch}
    /\ commands' = Tail(commands)
    /\ cancelled' = FALSE
    /\ UNCHANGED <<loop, outbox, turnVars, intakeVars, compactVars, noticeVars,
                   stageVars, replyVars, a2aVars, applied, ui_open, ui_sent,
                   ui_active, turn_ends, offered, canceled, noticed, turn_compactions,
                   quit_pending, events, worker_results, busVars, verdict>>

\* The hook chain subscribes to the cancel bus after the turn has read its
\* session: a cancel published before that is not seen.
SubscribeCancel ==
    /\ phase = "starting"
    /\ phase' = "listening"
    /\ UNCHANGED <<loop, outbox, turnVars, intakeVars, compactVars, noticeVars,
                   stageVars, replyVars, a2aVars, job, store_latch, applied, envVars,
                   quit_pending, events, worker_results, busVars, commands,
                   cancelled, verdict>>

\* A completion call of a turn finds the conversation over the threshold and
\* asks for a compaction, or cannot read the conversation and reports a failed
\* one; a store that refuses to open is latched and never asked again here.
TurnCompaction ==
    /\ phase = "listening" /\ turn_compactions < MaxTurnCompactions
    /\ turn_compactions' = turn_compactions + 1
    /\ ~store_latch
    /\ \/ Publish("requested") /\ UNCHANGED store_latch
       \/ StoreRefuses /\ Publish("ended") /\ store_latch' \in BOOLEAN
    /\ UNCHANGED <<loop, outbox, turnVars, intakeVars, compactVars, noticeVars,
                   stageVars, replyVars, a2aVars, phase, job, applied, uiVars,
                   turn_ends, offered, canceled, noticed, quit_pending, events,
                   worker_results, commands, cancelled, verdict>>

\* The outcome of a turn.  A turn that stopped on a cancel still answers Ok: the
\* executor turns it into an early return.  It may fail before it subscribes.  A
\* turn that answers Ok has told the render loop of its end before that.
EndTurn(ok) ==
    /\ phase = "listening" \/ (phase = "starting" /\ ~ok)
    /\ HasRoom(worker_results, EVENT_CAPACITY)
    /\ worker_results' = Delivered(worker_results,
         [task_id |-> job.task_id, ok |-> ok, cancelled |-> cancelled])
    /\ phase' = "idle" /\ job' = NoJob /\ cancelled' = FALSE
    /\ turn_ends' = turn_ends + IF ok THEN 1 ELSE 0
    /\ UNCHANGED <<loop, outbox, turnVars, intakeVars, compactVars, noticeVars,
                   stageVars, replyVars, a2aVars, store_latch, applied, uiVars,
                   offered, canceled, noticed, turn_compactions, quit_pending, events,
                   busVars, commands, verdict>>

\* A compaction run reports Completed or Failed on the bus.
ReportEnd_Bug == UNCHANGED busVars
ReportEnd == Publish("ended")
EndInSilence == silent' = TRUE /\ UNCHANGED <<compactions, lagged>>

\* run_compaction opens the session store.  A store that refuses reports it the
\* first time only; once it has opened, the run reports its end in every case.
OpenStore ==
    /\ phase = "opening"
    /\ \/ /\ StoreRefuses
          /\ IF store_latch THEN EndInSilence ELSE ReportEnd
          /\ store_latch' = TRUE
          /\ phase' = "idle" /\ job' = NoJob
       \/ /\ ReportEnd
          /\ store_latch' = FALSE
          /\ phase' = "idle" /\ job' = NoJob
       \/ /\ Publish("progress")
          /\ store_latch' = FALSE
          /\ phase' = "summarizing" /\ job' = job
    /\ UNCHANGED <<loop, outbox, turnVars, intakeVars, compactVars, noticeVars,
                   stageVars, replyVars, a2aVars, applied, envVars, quit_pending,
                   events, worker_results, commands, cancelled, verdict>>

SummaryChunk ==
    /\ phase = "summarizing"
    /\ Publish("progress")
    /\ UNCHANGED <<loop, outbox, turnVars, intakeVars, compactVars, noticeVars,
                   stageVars, replyVars, a2aVars, runtimeVars, envVars, quit_pending,
                   events, worker_results, commands, cancelled, verdict>>

EndCompaction ==
    /\ phase = "summarizing"
    /\ ReportEnd
    /\ phase' = "idle" /\ job' = NoJob
    /\ UNCHANGED <<loop, outbox, turnVars, intakeVars, compactVars, noticeVars,
                   stageVars, replyVars, a2aVars, store_latch, applied, envVars,
                   quit_pending, events, worker_results, commands, cancelled, verdict>>

\* A switch takes effect, or fails and leaves the runtime as it was.
ServeRequest ==
    /\ phase = "serving"
    /\ LET req == job.request
       IN  \/ /\ req.kind \in BlockingKinds
              /\ HasRoom(blocking_responses, RESPONSE_CAPACITY)
              /\ \/ /\ applied' = [applied EXCEPT ![req.kind] = req.id]
                    /\ store_latch' = (store_latch /\ req.kind # "session")
                 \/ UNCHANGED <<applied, store_latch>>
              /\ blocking_responses' = Delivered(blocking_responses, req)
              /\ UNCHANGED concurrent_responses
           \/ /\ req.kind \in ConcurrentKinds
              /\ HasRoom(concurrent_responses, RESPONSE_CAPACITY)
              /\ concurrent_responses' = Delivered(concurrent_responses, req)
              /\ UNCHANGED <<blocking_responses, applied, store_latch>>
    /\ phase' = "idle" /\ job' = NoJob
    /\ UNCHANGED <<loop, outbox, turnVars, intakeVars, compactVars, noticeVars,
                   stageVars, a2aVars, envVars, quit_pending, events,
                   worker_results, busVars, commands, cancelled, verdict>>

\* What the worker does without an end of its own choosing, and the rest.
WorkerProgress ==
    \/ TakeCommand \/ SubscribeCancel \/ (\E ok \in BOOLEAN : EndTurn(ok))
    \/ OpenStore \/ EndCompaction \/ ServeRequest
WorkerNext == WorkerProgress \/ TurnCompaction \/ SummaryChunk

-----------------------------------------------------------------------------
(* The environment: the render loop and the A2A server.                    *)

\* The render loop sends an event.  Slash commands are sent at once; a prompt only
\* while its queue has no active one, and it may carry any of the A2A prompts that
\* wait there.  A cancel may be an aborted turn (a confirmed Esc), which also takes
\* the active prompt off the queue.  After a quit or a fatal error it is gone.
UiSend(kind) ==
    /\ loop = "running" /\ ui_open /\ ui_sent < MaxUiEvents
    /\ Len(events) < EVENT_CAPACITY
    /\ ui_sent' = ui_sent + 1
    /\ ui_open' = (kind \notin {"quit", "fatal"})
    /\ \/ /\ kind \in TextKinds
          /\ \E joined \in SUBSET ui_prompts :
                /\ kind # "prompt" => joined = {}
                /\ kind = "prompt" => ~ui_active
                /\ ui_prompts' = ui_prompts \ joined
                /\ events' = Append(events,
                     [kind |-> "text", request |-> NoRequest,
                      text |-> [kind |-> kind, tasks |-> joined]])
          /\ ui_active' = (ui_active \/ kind = "prompt")
       \/ /\ kind \in RequestKinds
          /\ events' = Append(events,
               [kind |-> "request", text |-> NoText,
                request |-> [kind |-> kind, id |-> ui_sent + 1]])
          /\ UNCHANGED <<ui_prompts, ui_active>>
       \/ /\ kind \in SignalKinds
          /\ events' = Append(events,
               [kind |-> kind, text |-> NoText, request |-> NoRequest])
          /\ ui_active' \in IF kind = "cancel" THEN {ui_active, FALSE} ELSE {ui_active}
          /\ UNCHANGED ui_prompts
    /\ UNCHANGED <<loop, outbox, turnVars, intakeVars, compactVars, noticeVars,
                   stageVars, replyVars, a2aVars, runtimeVars, turn_ends, offered, canceled,
                   noticed, turn_compactions, quit_pending, worker_results, busVars,
                   commands, cancelled, verdict>>

\* The end of a turn reaches the render loop and completes its active prompt,
\* whichever turn it was.
UiTurnEnded ==
    /\ ui_open /\ turn_ends > 0
    /\ turn_ends' = turn_ends - 1
    /\ ui_active' = FALSE
    /\ UNCHANGED <<loop, outbox, turnVars, intakeVars, compactVars, noticeVars,
                   stageVars, replyVars, a2aVars, runtimeVars, ui_open, ui_sent,
                   ui_prompts, offered, canceled, noticed, turn_compactions, quit_pending,
                   events, worker_results, busVars, commands, cancelled, verdict>>

\* The A2A server hands over a task it has moved to Working.
OfferTask(task) ==
    /\ loop = "running" /\ task \notin offered
    /\ offered' = offered \cup {task}
    /\ a2a_tasks' = Append(a2a_tasks, task)
    /\ UNCHANGED <<loop, outbox, turnVars, intakeVars, compactVars, noticeVars,
                   stageVars, replyVars, task_cancels, runtimeVars, uiVars, turn_ends,
                   canceled, noticed, turn_compactions, quit_pending, events,
                   worker_results, busVars, commands, cancelled, verdict>>

\* An A2A client cancels a task.  The task store accepts the first cancel only and
\* none of a rejected task; of a completed or failed one it hears later, by the bus.
CancelTask(task) ==
    /\ loop = "running" /\ task \in offered \ canceled
    /\ verdict[task] # "rejected"
    /\ canceled' = canceled \cup {task}
    /\ task_cancels' = Append(task_cancels, task)
    /\ UNCHANGED <<loop, outbox, turnVars, intakeVars, compactVars, noticeVars,
                   stageVars, replyVars, a2a_tasks, runtimeVars, uiVars, turn_ends,
                   offered, noticed, turn_compactions, quit_pending, events,
                   worker_results, busVars, commands, cancelled, verdict>>

\* A remote task this agent sent out has completed.
RemoteCompletion ==
    /\ loop = "running" /\ noticed < MaxNotices
    /\ noticed' = noticed + 1
    /\ completions' = completions + 1
    /\ UNCHANGED <<loop, outbox, turnVars, intakeVars, compactVars,
                   pending_completions, stageVars, replyVars, a2aVars, runtimeVars,
                   uiVars, turn_ends, offered, canceled, turn_compactions,
                   quit_pending, events, worker_results, busVars, commands,
                   cancelled, verdict>>

EnvNext ==
    \/ \E kind \in UiInputs : UiSend(kind)
    \/ UiTurnEnded
    \/ \E task \in Tasks : OfferTask(task) \/ CancelTask(task)
    \/ RemoteCompletion

Next == LoopNext \/ WorkerNext \/ EnvNext

\* The runtime polls the loop and the worker; nobody makes the environment act.
Fairness == WF_vars(LoopNext) /\ WF_vars(WorkerProgress)
Spec == Init /\ [][Next]_vars
FairSpec == Spec /\ Fairness

-----------------------------------------------------------------------------
(* Properties.                                                             *)

CommandsOK ==
    /\ commands \in Seq(WorkerCommand) /\ Len(commands) <= WORKER_CMD_CAPACITY
    /\ outbox \in Seq(WorkerCommand)
TurnOK ==
    /\ active_task \in Tasks \cup {NoTask}
    /\ pending_external_cancel \in Tasks \cup {NoTask}
IntakeOK ==
    /\ pending_a2a_task_id \in Tasks \cup {NoTask}
    /\ deferred_prompt \in DeferredPrompt \cup {NoPrompt}
FlagsOK ==
    /\ worker_active \in BOOLEAN /\ cancelled \in BOOLEAN
    /\ pending_compaction \in BOOLEAN /\ compaction_active \in BOOLEAN
    /\ quit_pending \in BOOLEAN /\ lagged \in BOOLEAN /\ silent \in BOOLEAN
    /\ store_latch \in BOOLEAN /\ ui_open \in BOOLEAN /\ ui_active \in BOOLEAN
NoticeOK == pending_completions \in Nat /\ completions \in Nat
StageOK ==
    /\ pending_blocking \in Request \cup {NoRequest}
    /\ pending_concurrent \subseteq ConcurrentKinds
    /\ queued \in Seq(Request)
ReplyOK ==
    /\ blocking_responses \in Seq(Request)
    /\ Len(blocking_responses) <= RESPONSE_CAPACITY
    /\ concurrent_responses \in Seq(Request)
    /\ Len(concurrent_responses) <= RESPONSE_CAPACITY
A2aOK == task_cancels \in Seq(Tasks) /\ a2a_tasks \in Seq(Tasks)
RuntimeOK ==
    /\ phase \in {"idle", "starting", "listening", "opening", "summarizing",
                  "serving", "stopped"}
    /\ job \in WorkerCommand \cup {NoJob}
    /\ phase = "serving" => job.kind = "request"
    /\ applied \in [BlockingKinds -> 0..MaxUiEvents]
EventsOK == events \in Seq(UiEvent) /\ Len(events) <= EVENT_CAPACITY
ResultsOK == worker_results \in Seq(TurnOutcome) /\ Len(worker_results) <= EVENT_CAPACITY
BusOK == compactions \in Seq(CompactionEvent) /\ Len(compactions) <= BUS_CAPACITY
UiOK == ui_sent \in 0..MaxUiEvents /\ ui_prompts \subseteq Tasks /\ turn_ends \in Nat
OfferedOK ==
    /\ offered \subseteq Tasks /\ canceled \subseteq Tasks
    /\ noticed \in 0..MaxNotices
    /\ turn_compactions \in 0..MaxTurnCompactions

\* Every variable has its type, no channel holds more than its capacity, and a
\* serving worker holds a request.
TypeOK ==
    /\ loop \in {"running", "joining", "ended"}
    /\ FlagsOK /\ CommandsOK /\ TurnOK /\ IntakeOK /\ NoticeOK /\ StageOK
    /\ ReplyOK /\ A2aOK /\ RuntimeOK /\ EventsOK /\ ResultsOK /\ BusOK
    /\ UiOK /\ OfferedOK
    /\ verdict \in [Tasks -> Verdicts]

\* What the worker still has to do, in order: its job and the commands behind it.
Backlog == <<job>> \o commands \o outbox

\* worker_active is never left set with no turn to clear it: a turn is on its way
\* to the worker, running, or has its outcome in the result channel.  Otherwise
\* every later quit, task and compaction would wait for ever.
BusyBacked ==
    loop = "running" /\ worker_active =>
        \/ \E i \in DOMAIN Backlog : Backlog[i].kind = "turn"
        \/ worker_results # <<>>

\* Blocking UI requests exclude one another: a model, agent or session switch is
\* in flight only as pending_blocking, and once at most.
BlockingInFlight == {i \in DOMAIN Backlog : Backlog[i].request.kind \in BlockingKinds}
BlockingExclusive ==
    loop = "running" =>
        /\ Cardinality(BlockingInFlight) + Len(blocking_responses) <= 1
        /\ \A i \in BlockingInFlight : Backlog[i].request = pending_blocking
        /\ \A i \in DOMAIN blocking_responses :
              blocking_responses[i] = pending_blocking

\* A picker refresh is never run twice at once: while one is on its way to the
\* worker or its answer is on its way back, a second request is skipped.
RefreshSingleFlight ==
    loop = "running" =>
        \A kind \in RefreshKinds :
            Cardinality({i \in DOMAIN Backlog : Backlog[i].request.kind = kind})
              + Cardinality({i \in DOMAIN concurrent_responses :
                               concurrent_responses[i].kind = kind}) <= 1

\* A deferred prompt always has a handler ahead that will submit it: the answer
\* of the blocking request, or the outcome of a turn.  Only a quit drops it.
DeferredBacked ==
    loop = "running" /\ deferred_prompt # NoPrompt =>
        pending_blocking # NoRequest \/ worker_active \/ quit_pending

\* A queued compaction always has a handler ahead that will dispatch it.
CompactionQueueBacked ==
    loop = "running" /\ pending_compaction => compaction_active \/ worker_active

\* compaction_active is never left set with no compaction to clear it, unless the
\* bus skipped a message or a refusing store ended a compaction in silence.
CompactionFlagBacked ==
    loop = "running" /\ compaction_active =>
        \/ \E i \in DOMAIN Backlog : Backlog[i].kind = "compact"
        \/ \E i \in DOMAIN compactions : compactions[i] = "ended"
        \/ lagged \/ silent

\* A pending quit always waits for something whose handler checks it again.
QuitBacked ==
    loop = "running" /\ quit_pending => worker_active \/ has_pending \/ compaction_active

\* A quit ends the loop: whatever it waits for comes to an end and is noticed
\* (the user's second Ctrl-C "quits").  A skipped bus message may prevent it.
QuitExits == quit_pending ~> (loop = "ended" \/ lagged)

\* The part of QuitExits the code keeps: a quit ends the loop unless a compaction
\* met a store that had already been reported as refusing, and so ended in silence.
QuitExitsUnlessRefused == quit_pending ~> (loop = "ended" \/ lagged \/ silent)

\* The tasks the server has handed over and the loop has not looked at.
Waiting == {a2a_tasks[i] : i \in DOMAIN a2a_tasks}
Held == {pending_a2a_task_id, deferred_prompt.task_id, active_task} \ {NoTask}

\* A task id has one owner: it waits in the channel, is the pending id, belongs
\* to the deferred prompt or to the running turn, and never two of them; and what
\* has an owner has not been answered.
OneOwner ==
    /\ Len(a2a_tasks) = Cardinality(Waiting)
    /\ Waiting \cap Held = {}
    /\ pending_a2a_task_id # NoTask =>
          pending_a2a_task_id \notin {deferred_prompt.task_id, active_task}
    /\ active_task # NoTask => active_task # deferred_prompt.task_id
    /\ \A task \in Waiting \cup Held : task \in offered /\ verdict[task] = "none"

\* How a task stands, as TaskIntake sees it.
TaskStatus(task) ==
    IF task \notin offered THEN "unknown"
    ELSE IF verdict[task] # "none" THEN verdict[task]
    ELSE IF task = active_task THEN "running"
    ELSE IF task \in Waiting \cup Held THEN "waiting"
    ELSE "dropped"

Intake == INSTANCE TaskIntake WITH status <- [task \in Tasks |-> TaskStatus(task)]

\* The orchestrator implements TaskIntake: every step, of whichever handler, moves
\* every task along its lifecycle.
TasksFollowIntake == Intake!Spec

\* A task is answered once: after the loop has completed, failed or rejected a
\* task no later outcome, deferral or refusal tells anything else about it.
AnsweredOnce ==
    [][\A task \in Tasks : verdict[task] # "none" => verdict'[task] = verdict[task]]_vars

\* A cancel is held back only for a task whose turn has not started: the slot never
\* keeps the cancel of the running task, which would then not be cancelled.
CancelNotStranded ==
    pending_external_cancel # NoTask => pending_external_cancel # active_task

\* A turn is attributed to a task only if its prompt contains the task's prompt.
TurnBelongsToTask ==
    \A i \in DOMAIN Backlog :
        Backlog[i].task_id # NoTask => Backlog[i].task_id \in Backlog[i].tasks

\* A turn that ended on a cancel does not complete its task.
CancelledTurnFailsItsTask ==
    [][\A task \in Tasks :
         verdict[task] = "none" /\ verdict'[task] = "completed"
            => ~Head(worker_results).cancelled]_vars

\* A later switch wins: the runtime never goes back to an older model or agent.
SwitchesInOrder ==
    [][\A kind \in BlockingKinds : applied'[kind] >= applied[kind]]_vars

=============================================================================
