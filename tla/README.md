# nu-agent in TLA+

This directory is the verification project of nu-agent: TLA+ modules translated
from the Rust sources, TLC configurations that check them on small instances, and
theorems that TLAPS proves for every value of the constants. Paths below are
relative to the repository (`src/` is its root). `PROJECT.json` maps every
definition of the model to the lines it stands for.

    tlc -config orch_ui.cfg MCOrchestrator        # check one run
    tlc -config a2a_store.cfg MCA2aServer
    tlc -config components.cfg MCComponents
    tlapm OrchestratorProofs.tla                  # check the proofs of one module

## 1. The system

nu-agent is a coding agent: a terminal program that sends the user's prompts to a
model, runs the tools the model asks for, and can be called by other agents (A2A).
It is a Rust workspace; lines are Rust lines.

| crate | lines | what it holds |
|---|---|---|
| `agnt-core` | 34 800 | orchestrator loop, conversation and turns, hooks, bus, session logic, tools, configuration |
| `agnt-tui` | 14 600 | the terminal user interface (render loop, prompt queue, reducer) |
| `agnt-a2a` | 6 900 | A2A server, task store, client, discovery |
| `agnt-cli` | 3 600 | `main`, the modes (TUI, stderr, ACP), the wiring of channels |
| `agnt-acp` | 3 400 | bridge to editors (Agent Client Protocol) |
| `agnt-plugin` | 3 200 | the nushell plugin front end |
| `agnt-storage` | 1 900 | SQLite engine for sessions and memory |
| `agnt-render`, `agnt-tty`, `agnt-testkit` | 2 800 | rendering, terminal, test helpers |

### 1.1 Components

Each entry gives the state a component keeps, its operations, how it meets the
others, what is hard about it, and what makes it correct. The status of each in
the model is in section 2 and in `PROJECT.json`.

**Interactive orchestrator loop** (`agnt-core/src/orchestrator/loop_impl.rs`,
`handlers.rs`). One task that `select!`s over ten sources: the render loop's
events, turn outcomes, answers to blocking and to concurrent UI requests, the
compaction bus, A2A tasks, A2A cancels, completions of remote tasks, the external
bus and permission decisions. *State:* `OrchestrationContext` (`worker_active`,
`active_external_task_id`, `pending_external_cancel`, `pending_compaction`,
`compaction_active`, `quit_pending`, `pending_completion_events`) and loop-local
variables (`pending_a2a_task_id`, `deferred_prompt`). *Hard:* every wait is a flag
that some later handler must clear, and the sources arrive in any order. *Correct
when:* nothing that waits is forgotten, a task has one owner and one answer, a quit
ends the program.

**UI request stage** (`orchestrator/stages/ui_request.rs`). *State:*
`pending_blocking`, `pending_concurrent`, `queued`. *Operations:* dispatch, queue,
skip, answer, `drain_queued`. Blocking requests (model, agent, session switch) need
an idle worker and exclude one another; refreshes and MCP toggles run beside a turn.
*Correct when:* at most one blocking request is in flight, the latest switch wins.

**Slash stage and session stage** (`stages/slash.rs`, `stages/session.rs`). Turn a
text into a command for the worker; publish the outcome of a task's turn.

**Worker command router** (`orchestrator/router.rs`). A task that takes commands one
by one: run a turn, run a compaction, serve a UI request, attach A2A context, new
session, shut down. It alone touches the runtime.

**Signal bus** (`bus/hub.rs`, `bus/channel.rs`). Broadcast channels with a bounded
memory: turn 64, compaction 16, cancel 64, UI state 64, UI events 1024. A receiver
that lags skips messages; a receiver that subscribes late has missed them.

**Turn execution** (`conversation/turn/**`). Streams a response, runs tools, retries,
stops on a cancel. *Correct when:* every turn has exactly one outcome.

**Compaction run** (`conversation/compaction/**`, `hook/chain.rs`). Summarises the
conversation; publishes requested, progress and completed or failed. A store that
refuses to open is reported once (a latch).

**Hook chain and turn guards** (`hook/**`). Doom-loop detection, circuit breaker,
sub-turn cap, output repetition, completion check. Pure bookkeeping per turn.

**Permission resolver** (`hook/permission_resolver.rs`). A map of oneshot senders the
worker waits on; the loop completes it for the TUI, `AcpPermissionBridge` for an ACP client,
and nobody in stderr mode, where an ask is denied.

**A2A server and task store** (`agnt-a2a/src/server/**`, `task_store/memory.rs`). HTTP
handlers on many threads; a store with one lock per map. *Hard:* the locks are
released before subscribers are notified, and handlers read, subscribe and wait in
several steps. *Correct when:* a task follows its state machine, a waiter does not
sleep through the end of its task, a listing reflects the last updates.

**A2A client, tools, agent, discovery** (`agnt-a2a/src/client`, `tools`, `agent`,
`discovery`). HTTP calls, mDNS.

**TUI prompt queue and render loop** (`agnt-tui/src/interactive.rs`,
`state/prompt_queue.rs`). *State:* the queue of prompts, the active one. It joins
queued prompts into one text, restores them on an abort. **TUI rendering and input**:
a reducer and widgets.

**Session and conversation memory** (`agnt-core/src/session/**`,
`conversation/turn/**`, `conversation/runtime.rs`). *State:* the log of a session, the
fact rows of its turns, the model, persona, threshold and token count in use. A run that
ends any other way than well writes its delta itself, attempt by attempt. *Hard:* the
log may move under it (another process, a compaction), each of its writes may fail, and
the process may die between two. *Correct when:* the log stays one a provider accepts,
with every call and its result in it once, and what a switch leaves behind belongs to
the session and the model in use.

**Storage** (`agnt-storage`). One thread per handle with a mailbox, a SQLite transaction
per unit. *Hard:* callers leave, units panic, processes die, and several engines share
the file. *Correct when:* each request takes effect at one instant, at most once, and
its caller is never told otherwise.

**MCP runtime** (`agnt-core/src/mcp/**`, `tools/registry`, the circuit breaker). *State:*
which servers are connected, enabled and failed how often, and the definitions a turn
offers. *Correct when:* what is offered can be called, and the panel tells the truth.

**Tools and authorisation** (`agnt-core/src/tools/**`). The rules, their overlays, the
grants of a session. *Correct when:* nothing runs that no rule and no user allowed.

**ACP bridge** (`agnt-acp`). A dispatch loop for the editor's messages, a task per
prompt, a lock per session. *Correct when:* a cancel that was taken is what is answered,
and the loop stays free while a turn runs.

**User hooks runner**, **configuration and vault**, **command line, plugin and rendering
crates**: see the notes in `PROJECT.json`.

### 1.2 How they interact

    render loop --events(256)--> LOOP --commands(256)--> WORKER (turn, compaction, switch)
        ^                         ^  ^ <--results(256), responses(32)--- |
        |                         |  +--<------ compaction bus(16) ----- |
        +---- ui_event, ui_state, turn buses <---------------------------+
    A2A server --tasks(64), cancels--> LOOP --reject--> task store <-- listener <-- turn bus

The hazards, one by one and at their lines, are in `PROJECT.json` under `hazards`.

## 2. What is modelled

### 2.1 `Orchestrator`

The loop with its stages, the worker, the compaction and cancel buses, and an open
environment. Three groups of actions:

- **The loop.** One action per `select!` arm or per outcome of an arm. Handlers run
  to the end before the loop polls again and the loop's variables belong to it alone,
  so a handler is one step. The exception is a handler that awaits room in the full
  command channel: the commands it still owes go to `outbox`, nothing is polled while
  `outbox` is not empty, and `FlushOutbox` sends them one by one. What such a handler
  does to the loop's own variables after the await happens in its first step, which
  nobody can tell apart.
- **The worker.** `phase` tells where it is: `idle`, `starting` (a turn that has not
  subscribed to the cancel bus), `listening` (a turn that has), `opening` (a compaction
  that opens the store), `summarizing`, `serving` a request, `stopped`.
- **The environment.** The render loop sends any event of `UiInputs` at any time, with
  the one restraint its queue imposes: a prompt only while no prompt is active. A text
  carries the set of A2A tasks whose prompts it contains, so that a property can compare
  it with the task the loop attributes it to. The A2A server hands over and cancels
  tasks; a turn may ask for compactions.

The `biased` order of the `select!` is not relied on: a message can arrive between two
polls of one pass, so any ready source may be served next.

| in the model | in the code |
|---|---|
| `events`, `worker_results`, `blocking_responses`, ... | the `mpsc` channels of `run_orchestrator_loop` |
| `commands` | `worker_cmd_tx`/`rx`, with its capacity |
| `compactions`, `PublishUnbounded`, `Publish` | the broadcast compaction channel and its lagging receiver |
| `cancelled`, `Cancelled(_)` | the cancel bus seen by the running turn |
| `store_latch` | the latch that reports a refusing store once |
| `applied` | the request that was applied last, per kind of switch |
| `verdict` | `TaskCompleted`, `TaskFailed` and `reject_task`, per task |
| `lagged`, `silent` | history: a skipped message, a compaction that ended without an event |

`Request.id` numbers requests by age; it exists only so that "older" and "newer" can
be said.

### 2.2 `TaskIntake`

What the loop promises of an A2A task, without any of its machinery: unknown, then
waiting, then running or answered or dropped, and never back. `Orchestrator!TaskStatus`
is the refinement mapping and `TasksFollowIntake` the claim that every step of
`Orchestrator` moves each task along `TaskIntake` or leaves it alone.

### 2.3 `TaskStore` and `A2aServer`

`TaskStore` is the state of `InMemoryTaskStore` and its operations, as actions of a
caller; `A2aServer` is who calls them: the HTTP handlers, the loop and the listener of
turn outcomes. Every map of the store has its own lock, so an operation is one step as
far as it holds one lock and no further. The point where this matters is a status change:
it is made under the lock of the tasks, the lock is released, and the subscribers are
notified afterwards. What a caller has changed and not yet told is in `owed`, and
`Notify` is a step of its own, one per event.

A request is a process whose place is `pc`; each place lies between two calls of its
handler to the store.

| in the model | in the code |
|---|---|
| `status`, `update_seq`, `next_seq`, `idempotency_keys` | the maps of `InMemoryTaskStore` and its counter |
| `subscriptions`, `connected`, `channel` | the senders per task, and the receivers at their other ends |
| `mode` | the three ways `handle_tasks_send` and `handle_tasks_send_stream` answer |
| `handed`, `rereading`, `waiting`, `reading` | `wait_for_terminal` and the read after it: subscribe, read again, receive until the end or the deadline, read |
| `looked`, `subscribed`, `streaming` | `handle_tasks_subscribe`: read and test, subscribe, send the snapshot, stream |
| `incoming` | the channel to the orchestrator loop (64), a send waits for room |
| `held` | what the loop has taken and not ended: by `reject_busy_task` or by `apply_turn_event_to_store` |
| `overdue`, `repeated` | history: a deadline that passed, a key that was a repeated one |

- The loop and the listener end a task they hold once at most; `AnsweredOnce` of
  `Orchestrator` is what allows it. They may also never do so: the turn bus may skip the
  outcome, and nothing in the code makes up for it.
- Ids of tasks come from a finite set, and an id is never given twice.
- A client that goes away before its answer stops its handler at an await; the model
  covers this by requests that take no further step (fairness is asked only in the
  liveness property, of the requests that stay). A stream whose client goes away is
  `HangUp`: its sender stays in the store until a notification fails and prunes it.
- `EventsFit` shows that a subscriber's channel of 64 never holds more than three events;
  the branch that drops an event from a full channel is therefore left out.
- The code never asks for `InputRequired`; the state machine has it all the same.

### 2.4 `TurnLog`

What a turn leaves in the log of its session. An attempt is one run of the model; rig
saves its messages when the run succeeds and nothing otherwise, so every other exit (a
retry, a failure, a cancel) goes through `persist_turn_delta`, which is the chain
`RecoverLoad`, `RecoverSave`, `Settle` of the model. Every place where the code awaits
the store is a `phase`, and between any two of them another process may append or compact,
a read or a write may fail (`MaxFaults`), and the process may die (`Crash`).

| in the model | in the code |
|---|---|
| `log`, `entry_turns`, `turns` | the entries of the session and the fact rows with the keys they claim |
| `pre_turn` | what `execute_turn` read of the log before the attempt |
| `run`, `snapshot`, `records` | rig's run, the history it last reported, `TurnToolLog` |
| `stopped`, `loaded` | why the attempt ended, and the delta about to be saved |
| `retries`, `Budget` | the retries of each kind a turn has |
| `lost` | history: turns whose work was not saved, and how the user was told |

A message holds what the code tells apart: the prompts and results of a user message, the
calls and chunks of an assistant's. `merged` is rig's canonical history: two user messages in
a row become one, so a prompt may end up in the message that answers the calls before it.

What `drop_stored_results` is there for, that a result is stored once, is not true of the code
(`ResultStoredOnce`, run `v_stored_twice`). What is true is `RepeatsNeedMerge`: a call or a
result is there twice only when the attempt that saved it again began on a log that ended with
a prompt nobody replied to (`run_together`), and an earlier message asks the same (`poses`).

### 2.5 `TurnGuards`

The counters the hook chain keeps per attempt and per turn: the doom loop with its ladder
of steering, the cap on sub-turns, the repetition of output, and the retries that reset
some of them. `streak` counts, for the properties, what the model actually did.

### 2.6 `PermissionGate`

The decision about a tool call from the hook to the end of the call: `evaluate` over the
policy in force with its overlays, the session's grants, the display, and the wait for the
user, which is a map of oneshots (`pending`, `rx`) that is filled from the other side. A wait
ends in an answer, a cancel, a deadline, or with the calls that are dropped at the end of the
grace of a cancelled turn; calls that a cancelled turn has not dispatched get their not-run
pair. A rule is its scope, the calls it matches and its rank. The calls of one turn run one
at a time; two of them may have the same key. `decision_timeout` is FALSE under
`decision_timeout_secs = 0`, which takes the deadline away.

Three front ends, chosen at the start, differ in who answers and in what is shown:

| front end | `interactive`, `renders_tool_previews` | an ask | where the display of a call is seen (`shown`) |
|---|---|---|---|
| TUI | TRUE, TRUE | a card; the loop's permission stage delivers the answer | the card; the preview of an allowed call; the preview of a not-run pair unless `previewed` holds the key; never again with the result |
| ACP | TRUE, FALSE | the bridge takes the request (`unseen`), denies a key that was rejected for good (`deny_set`), else asks the client | the card (`build_tool_call`) and, since nothing is recorded as previewed, the result; `PreviewRequested` has no ACP equivalent, so a call refused without a card is never seen |
| stderr | FALSE, FALSE | denied | the result, unless a spinner hides it |

`run_turn_with_notifications` awaits the client inside the `select!` that polls the turn, so
while the client has a card (`ClientAsked`) no step of the turn is taken (`Polled`): neither
the cancel nor the deadline of the request is seen, although the comment at
`permission_resolver.rs:562-564` says that an unanswered card may not block the turn. The
display is taken to be the same whenever it is built (an edit of the file between the card
and the result is data).

### 2.7 `McpServers`

The registry of tools, the connections, the definitions a turn offers, the circuit breaker
and the panel. A toggle travels through `toggles` to the worker and back through
`toggle_responses`; a turn keeps the tools it began with (`offered`), so a call may reach
a server the breaker has hidden since.

### 2.8 `RuntimeSwitch`

What the runtime keeps in step when its model, its persona or its session changes:
configuration, cached client, completion model, threshold, the model the hooks report,
tokens, usage and the latch of the store. `switch_model` and `switch_persona` commit, test,
build and roll back in the order of the code.

### 2.9 `AcpSession` and `TuiPrompts`: the two front ends

`AcpSession`: the dispatch loop handles one message at a time and awaits its handler;
`dispatch` names the session whose lock it waits for. A prompt has a task of its own that
queues for the session's lock (`waiters`, first come first served), runs its turn, asks the
client and compacts. A session that is opened again gets a new instance, and turns of the
former one go on.

`TuiPrompts`: `AppState` as far as prompts, the armed abort and the permission card are
concerned, with its methods as operators on it. The loop and the worker are reduced to
what they owe the interface: events taken in order, turns run in order, and one end for
each. `ui_events` names turns only for the properties; the interface cannot tell them apart,
and that is what makes the properties hard.

### 2.10 `SessionStore` and `StorageEngine`

`SessionStore` is what a caller of `agnt-storage` may rely on: a request takes effect at
one instant or never, on a log of the length it named, and what its caller is told is true.
`StorageEngine` is how it is done: a thread per handle, a mailbox, a unit at a time, a
transaction of two writes, the write lock of SQLite, the migration, and everything that may
go wrong (`Fail`, `UnitPanics`, `ProcessDies`, `CallerLeaves`, a closed mailbox). The
instance `Promise` maps the store to the committed rows `db`, and `KeepsPromise` says that
every behaviour of the engine is one of the store. A caller whose thread died is told an
error and learns nothing of what landed: the abstract store allows exactly that.

### 2.11 `MCComponents`

The modules 2.4 to 2.10 share no variable: the code that connects them is the
orchestrator's, and what one needs of another is part of its own environment. They are
checked in one run. `focus`, chosen once, names the component that moves; the others keep
their single initial state (`Still`), so the states add up and do not multiply, and each
component behaves as it does alone. The states of each: log 73 000, guards 41 000, gate
132 000, MCP 35 000, runtime 5 000, ACP 53 000, TUI 235 000, engine 150 000.

### 2.12 Not modelled, and why

- Of the A2A server: the listing with its pages and filters, push webhooks, the exchange
  of files and the restart of the HTTP server; of the A2A client, tools and discovery,
  everything (HTTP calls and mDNS).
- `ACP set_model` swaps the session's model without the gate, the threshold and the
  session's record; the comments there say so and intend it, and `RuntimeSwitch` models the
  switch of the worker only.
- The external-bus arm of the loop has no production publisher; the router's
  `ClearSession` is never sent by this loop.
- In `Orchestrator` the render loop's queue is over-approximated (on an abort it may put
  A2A prompts back) and a permission decision changes nothing; `TuiPrompts` and
  `PermissionGate` hold the detail, without the tasks of A2A.
- The turn, UI-state and UI-event buses carry what the user sees; their lag is not
  modelled.
- Journal, titles and listing of sessions, the summary a compaction writes, token
  accounting, the transport and OAuth of MCP, the bodies of the file and shell tools, the
  user's hooks (processes), configuration and vault (parsing at start).
- Text, layout, HTTP, SQL: data no property tells apart. Most of the repository is of that
  kind (widgets, rendering, commands, tools, formats), and the mapped share of its lines
  stays small for that reason.

## 3. The runs

`MCOrchestrator` and `MCA2aServer` add model values and symmetries, `MCAcpSession` and
`MCTurnLog` the values of a single run, `MCComponents` the small instances of section 2.11.
`CHECK_DEADLOCK FALSE` everywhere: an idle program waits for input, an ended loop does
nothing more, and a server whose bounded requests are all answered has nothing to do.

### 3.1 The orchestrator

The capacities are parameters (256, 32 and 16 in the code). They
are 1 to 4 here so that full channels, parked handlers and skipped bus messages really
happen within the bounded number of inputs; the code never compares a length with
anything but zero and the capacity.

| run | instance | shows |
|---|---|---|
| `orch_ui` | 4 render-loop events of 10 kinds, 1 completion, commands 2, bus 1 | `BusyBacked`, `BlockingExclusive`, `RefreshSingleFlight`, `DeferredBacked` |
| `orch_quit` | 4 events among prompt, compact, model, picker, quit; a store that may refuse; commands 1, bus 3; fairness | `TypeOK`, `CompactionQueueBacked`, `CompactionFlagBacked`, `QuitBacked`, and that a quit ends the loop (`QuitExitsUnlessRefused`) |
| `orch_a2a` | 2 tasks with their cancels, 4 events; commands 1, bus 2 | `OneOwner`, `CancelNotStranded`, `AnsweredOnce`, the refinement `TasksFollowIntake` |

Why the bounds are enough. The defects these properties look for need two actors that
want the same slot: two switches, two tasks, a prompt against a switch, a quit against a
compaction. Four events allow each of these pairs and one more event to disturb them.
The numbers of tasks, switches and events are bounds of the instance only; the theorems
of section 4 do not depend on them.

Four of its runs end in a counterexample, each against a sentence of the repository:

| run | property | what happens |
|---|---|---|
| `v_attribution` | `TurnBelongsToTask` | The id of an accepted task waits in `pending_a2a_task_id` until a prompt arrives, and the first prompt takes it, whoever wrote it. The comments speak of "the matching `PromptSubmitted`". |
| `v_cancelled` | `CancelledTurnFailsItsTask` | A cancelled turn answers `Ok`, so its task is published as completed. The listener's comment expects a failure "on error/cancellation". |
| `v_switch` | `SwitchesInOrder` | A model switch queued behind another one is not drained by that one's answer; a newer switch is dispatched at once, and the older one is applied after the next turn. A test says "last queued model switch should win". |
| `v_quit` | `QuitExits` | A second compaction of a refusing store ends without an event; `compaction_active` stays set and a quit waits for ever. The manual says a second `Ctrl-C` quits. |

`QuitExits` and `QuitExitsUnlessRefused` except a bus message that was skipped: the code
has no recovery from it (hazard at `loop_impl.rs:545`).

**Fairness of the orchestrator.** `WF(LoopNext)` and `WF(WorkerProgress)`: tokio polls both tasks, and what
the worker waits for (a model's response, a store) ends. The environment is not fair,
and neither are the compactions a turn asks for nor the chunks of a summary, which may
go on or not.

### 3.2 The A2A server

| run | instance | shows |
|---|---|---|
| `a2a_store` | 1 task, 2 sends of any mode, 1 key, 1 subscriber, 2 cancels, incoming capacity 1; fairness | `TypeOK`, `NoLostWakeup`, `EventsFit`, `ResultBeforeCompletion`, `EndsAgree`, `BlockingAnswersEnd`, and that whoever waits or streams hears the end (`EndIsHeard`) |

Why the bounds are enough. Operations on different tasks share only the update sequence
and the room in the incoming channel, so one task with everybody at it is where requests
disturb each other. Four parties can end that task (two cancels, the loop, the listener),
one more than a state machine that forgets its terminal states would need to be caught;
two receivers (a send and a subscriber) can be at different places of the same
notification, and the second send repeats the key of the first. `EventsFit` counts the
events of one task: working, the artifact and one end.

One run ends in a counterexample:

| run | property | what happens |
|---|---|---|
| `v_subscribe` | `AcceptedStreamsProduce` | A task ends between the test of `handle_tasks_subscribe` and its subscription. The stream is accepted, sends the finished task, and then waits for ever. A comment there says a stream on a finished task "can never produce further events" and is refused for that; `wait_for_terminal` reads again after it subscribes, this handler does not. |

`complete_task` assigns no update sequence (`update_seq` keeps its value there): at equal
timestamps a completed task is listed behind tasks that changed before it.

**Fairness of the server.** Weak fairness of each send, each stream, and each caller that
owes a notification: every handler is a tokio task, none blocks another for ever.
Deadlines, clients, cancels, the loop and the listener are not fair. `EndIsHeard` says
that a task's end is heard once it has happened, without the help of the deadline, never
that a task ends.

### 3.3 The other components

| run | instance | shows |
|---|---|---|
| `components` | the bounds below; fairness of the permission gate | the twenty properties below |

| component | instance | property | what would break it |
|---|---|---|---|
| log | 2 turns, 2 attempts, 1 call per batch, 1 write of another process, 1 fault, a crash | `CallsAnswered` | a call that the turn's end left open, a result saved without its call |
| | | `RepeatsNeedMerge` | a stored result that is left in the delta's first message, a call listed as missing that the delta holds |
| | | `DeltaKeepsWork` | a delta cut at the wrong prompt, a call that was dispatched and lost |
| | | `RowsClaimNew` | a row that claims entries of an earlier turn because the log could not be read |
| guards | 2 signatures, 2 segments, threshold 3, ladder of 1, cap 2 | `LoopCut`, `RepetitionBounded` | a counter that is reset by the wrong event |
| gate | 3 calls of 2 tools, 3 rules of 2 scopes, 2 personas, 2 turns | `AllowBacked` | a grant that outlives its persona or server, an answer that comes late |
| | three front ends, with and without a deadline | `DisplayOnce` | in the TUI a display shown by both the card and the result, or by neither; in ACP a result without it |
| | | `RequestEnds` | an answer before the sender is registered, which only the deadline ends |
| mcp | 2 servers, breaker at 2, 3 toggles, 3 calls, 1 switch | `PanelAgrees`, `VisibleBacked`, `BreakerHolds` | overlapping toggles, a failed reconnect, the reset of a switch |
| runtime | 3 models (one with an unknown window), 2 sessions, 5 operations | `ModelInStep`, `SessionOwn` | a roll-back that leaves half of a switch, a count of the former session |
| acp | 1 session opened twice, 2 prompts, 2 further requests | `CancelReported` | a cancel that is taken by the wrong prompt or cleared by its start |
| tui | 3 prompts, 1 permission request, 1 extra key | `SentOrReturned`, `CardBacked`, `QueueMoves` | an end of turn attributed to the prompt after it, a card nobody takes the answer of |
| engine | 2 handles, 2 requests, logs up to 2, 1 death | `KeepsPromise` | a test of the length outside the transaction, an answer before the commit |
| all | | `TypeOK` | |

Why the bounds are enough. A retry, its predecessor and the turn after it are what the
log's properties relate, so two turns with two attempts between them and one disturbance.
The gate's three calls are the one that asked, one that shares its rule, and one of another
tool. The ladder and the breaker count; their bounds are the smallest that separate the
first step, the last step and the one after it. Three prompts are the active one, one that
waits and one that joins it. Two requests race on one log length. The theorems of section 4
do away with the bounds of every component.

Two runs end in a counterexample:

| run | property | what happens |
|---|---|---|
| `v_stored_twice` | `ResultStoredOnce` | An attempt that fails at its first model call saves its bare prompt, so the next one runs on a log that ends with that prompt. When it is cancelled, the canonical history merges the two; `prompt_anchor` does not find the new prompt and takes an earlier message with the same text, the delta is cut there, and the calls and results behind it are saved a second time. `RepeatsNeedMerge` says that this is the only way. |
| `v_dispatch` | `DispatchStaysFree` | A configuration request is awaited in the dispatch loop and waits there for the lock of the running turn (`session.rs:359`, `:430`). Until the turn ends no cancel and no permission answer is read; if the turn waits for that answer, both wait for ever. The comment at the prompt's branch (`lib.rs:199-202`) demands the opposite. |

**Fairness of the components.** One assumption: `RequestEnds` needs that some resolver
that can take a step eventually does (`GateFairness`). The resolver is a future of a turn
that tokio polls. With a deadline a step is possible in every state of a wait; without one
(`decision_timeout_secs = 0`, "leaves the request waiting indefinitely",
`permission_resolver.rs:158-159`) only once an answer or a cancel has reached the resolver,
and `RequestEnds` owes the end only then. While an ACP client is being asked nothing polls
the turn, and the property promises nothing (`ClientAsked`): the bound of that wait is the
client's. Users, editors, models, processes and faults are not fair.

## 4. What is proved

Every theorem holds for every value of the constants under the named assumptions of its
module. All of them are safety properties or step simulations; each rests on an inductive
invariant that is stronger than what it says.

**`OrchestratorProofs`** (from `ConstantsAssumption`)

- `TypeCorrect`: every variable keeps its type and no channel holds more than its
  capacity. One lemma per handler; messages are typed by constructor lemmas, the bus by a
  lemma on `Publish`, the parked handler by a lemma on `Send`.
- `PromptsNotForgotten`, `CompactionsNotForgotten`, `QuitsNotForgotten`: a deferred prompt,
  a queued compaction, a pending quit each have a handler ahead that will look at them.
  None is inductive alone: the handler that clears `worker_active` must itself release the
  prompt, dispatch the compaction or leave the loop, so they are kept together in `KeptInv`.
- `TasksHaveOneOwner` and `TasksAnsweredOnce`: a task waits in one place or runs, and keeps
  its verdict. `OwnerInv` looks at a task only, and every action of the loop is one of seven
  moves of it (`Rests`, `Offers`, `Looks`, `Defers`, `Takes`, `Passes`, `Settles`); the moves
  are shown to keep the invariant once, and each handler is shown to be a move.
- `FollowsTaskIntake`: the refinement. The same moves, each of which is a step of
  `TaskIntake` or a stutter for every task.
- `CancelsReachTheirTurn`: the cancel of the running task is never left in the slot.
- `BusyFlagBacked` and `CompactionFlagFollows`: the two flags follow from what is under way.
  `WorkInv` relates the flag, the commands in the channel and in `outbox`, the worker's phase
  and the results on their way.
- `SwitchesExclusive` and `RefreshesSingle`: at most one blocking switch, and one refresh of a
  kind, is between its dispatch and its answer. `FlightInv` does not count messages: it says
  where the one in flight is (the channel, `outbox`, the worker, the answers), that no two
  places hold one, and that its flag is set; every action is one of a few moves of it.

**`A2aServerProofs`** (from `StoreAssumption` and `ServerAssumption`)

- `TypeCorrect`: one lemma per operation of the store, one step per action of the server.
- `NobodySleepsThrough`: a send that waits is registered, connected, and has the end in its
  channel or owed to it (`WakeInv`). `OthersWake` shows once that whatever others do on the
  store keeps a send awake; what remains are the send's own steps, of which the second read
  is the one the property hangs on.
- The other four rest on two views of a step: `OwnSteps` (a step is one of the request's own,
  or leaves all it has alone) and `StoreMoves` (a step changes a status, creates a task, adds
  a subscription, notifies, drains a channel, or leaves the store alone).
- `EndsNeverDiffer`: `TruthInv` says that a task that has ended keeps its state, that what a
  caller still owes, a channel holds or a stream was told is true of the task, and that a
  receiver is subscribed to its own task only.
- `BlockedUntilTheEnd`: with it, a wait that is over before its deadline is over because the
  task has ended (`BlockInv`).
- `ChannelsNeverFill`: what a channel holds and what its task has still to send are three at
  most (`Fit`). A change of status gives no more to send, since no two callers owe the start,
  or the end, of one task (`OneStart`, `OneEnd`); a notification moves one event over.
- `ResultsComeFirst`: a stream is subscribed before its task works (`NotYet`, and `Alone`: no
  other send makes it work), so it is there when the result goes out, and its channel keeps
  the order (`FirstSent`, `FirstInChannel`).

**`StorageEngineProofs`** (from `NamesDistinct` and `BoundsAreNat`): `TypeCorrect`, and
`PromiseKept`, the refinement of `SessionStore`. `EngineInv` says that the lock is held
exactly while a transaction is open, that an open transaction sees the committed rows with
its own writes on top (so the test of the length it made at its first write still holds at
its commit), that a request in a mailbox or before its commit is undecided, and that a
request is in one place.

**`RuntimeProofs`**, two components with few theorems. MCP (from `McpAssumption`):
`VisibleToolsBacked`, `BreakerBounds`, `PanelFollows`. `McpInv` says that an enabled server is
connected, that the breaker's counts are the failures in a row, and that a row shows what the
last toggle on its way will make of it; `McpTypeCorrect` adds what is known of the tools. The
switches of the runtime (from `RuntimeAssumption`): `SwitchesKeepStep`, `SessionsStayApart`,
`RuntimeTypeCorrect`.

**`TurnGuardsProofs`** (from `GuardAssumption`, which asks that
`OUTPUT_REPETITION_THRESHOLD` is greater than one; it is 5 in the code): `LoopsEnd`, whose
`LoopInv` says that the window of recent signatures remembers the streak and that the ladder
counts its steps; `RepetitionsEnd`, whose `RepInv` bounds the repetitions by the retries used
times the ladder, plus the steps of the present one; `GuardTypeCorrect`, from both.

**`FrontEndProofs`**, the two front ends. The ACP bridge (from `AcpAssumption`):
`CancelsReported`, under `OnePrompt`: the client awaits a prompt before it sends the next of that session, as the protocol asks.
`AcpInv` says where a prompt is from the lock it holds or waits for, and that the flag of a
prompt that is owed a cancel stays set. `AcpTypeCorrect` holds for a client that awaits
nothing; what it needs is that a queued prompt is in the line of its instance and the dispatch
loop in the line it waits in, so that whoever is served is there to be taken out (`AcpShape`).
The prompts of the TUI (from `TuiPromptsAssumption`):
`TuiTypeCorrect`, `PromptsSentOrReturned`, `CardsAreBacked` and `QueueAlwaysMoves`.

- None of the three is inductive alone. `TuiInv` adds what they lean on: the active prompt is
  the one in progress, and the queue holds each waiting prompt once (`QueueOK`); the end of the
  active turn is still ahead of the render loop: submitted, in the channel, running, failed
  or on the bus (`Ahead`, `ActiveInv`); a card whose request is over has a closing event ahead
  of it, no ask of it behind that, and no answer under way (`CardOK`, `RequestInv`).
- The render loop reduces a batch of events before it looks at the queue, so the invariant is
  stated after the first `k` events of a batch (`BatchInv`). The fold is opened by the search
  for a least counterexample (`EveryNumber`), and one event is treated at a time.
- What is ahead of the loop only grows by what the loop, the worker and the bus do; that is
  one lemma (`BehindKeeps`), and each of their steps is shown to be an instance of it. Every
  key of the user goes through two others (`InputKeeps`, `PendingTaken`).

**`PermissionGateProofs`** (from `PermissionGateAssumption` and `GlobalApart`, that no rule
is named like the default of the policy): `GateTypeCorrect`; `AllowsAreBacked`, whose `GateInv`
says that an open request was decided as an ask by the policy in force and that a grant goes
back to an answer under it; `DisplaysShownOnce`, whose `DisplayInv` says that one call is in
hand at a time and, unless the turn is cancelled, no key but its own is recorded as previewed
(`OneInHand`); that in the TUI a call in hand is on record and was shown once (`TuiShown`); and
for ACP that a request is on the bus, on the card or answered, never two of them (`OnePlace`),
and that what the client was shown follows from how far call and request are (`AcpShown`): an
answer that allows was given on a card, so an asked call that runs has shown its card.

**`TurnLogProofs`** (from `TurnLogAssumption`), the log a turn leaves:

- `LogTypeCorrect`; `RowsAreNew`, whose `RowsInv` says that what was read of the log before
  the attempt holds every key that was given out until then, so a row of this turn claims none
  of them; `DeltaKeepsAll`; `CallsAllAnswered`; `RepeatsOnlyMerged`.
- `DeltaKeepsAll` and `CallsAllAnswered` rest on `WorkInv`: the ids of calls given out before the turn are not given
  again (`GivenInv`), the turn's own calls are told apart from them (`OwnInv`), the history of
  the run tells every dispatched call, answered or open (`RunInv`, `Tells`), the history rig
  reported last is one the run had (`ReportInv`), a delta about to be saved answers each of its
  calls (`DeltaInv`), and the log is closed (`Closed`).
- The delta is computed by folds and recursive functions of the community modules. An induction
  over them is carried out as the search for a least counterexample (`EveryNumber`), once per
  operator; above them stand lemmas about what a concatenation of histories keeps (`Joins`),
  where a result is placed (`Placed`) and what closing the open calls leaves (`Finished`).
- `RepeatsOnlyMerged` needs `MergeInv` beside it. It follows a fact (a call, a result) from the
  message it is first in to the log. What a run commits is its own and new (`Attempt`). A history
  it can report has the turn's prompt somewhere; behind the prompt are the attempt's own facts,
  each once, before it facts of the base, and when an earlier message asks the same, what lies
  between the two follows such a message in the base too (`Sourced`; `SourcedCanonical` shows
  that rig's repair keeps it, from what `Joins` says of the pieces of a merged message). If the
  prompt itself was merged away, the base ends with a prompt nobody replied to (`Dangling`).
  `DeltaExplained` carries that through the anchor, the dropped results, the missing calls and
  the closing of the open ones: a fact of the delta is new and there once, or `Explained`. Last,
  a delta is only saved on the log it was made for (`BaseIsLog`: a log as long as before the
  attempt is the base of the run; `ExplainedInv`: keys that did not move), so the log grows by
  explained facts (`RepeatsGrow`).

Only model-checked: liveness (`QuitExitsUnlessRefused`, `EndIsHeard`, `RequestEnds`), which
is out of the provers' reach. `TypeOK` of `MCComponents` is the conjunction of the
components' types; each conjunct is a theorem of its own component, and the run checks them
together.

## 5. Plan

1. The listing of the A2A store: pages against updates between two pages, what a client that
   reads every page may miss or see twice.
2. The tasks of A2A inside the render loop's queue, composing `TuiPrompts` with the loop.
