-------------------------- MODULE OrchestratorProofs --------------------------
(***************************************************************************)
(* Theorems about the orchestrator, for every number of tasks, servers and *)
(* UI events and every capacity of its channels.                           *)
(***************************************************************************)
EXTENDS Orchestrator, SequenceTheorems, FiniteSetTheorems, WellFoundedInduction, TLAPS

-----------------------------------------------------------------------------
(* The commands and messages have their types.                             *)

\* Every command a handler builds is a worker command.
LEMMA CommandTypes ==
  /\ \A text \in Text, task \in Tasks \cup {NoTask} : ExecuteTurn(text, task) \in WorkerCommand
  /\ \A task \in Tasks : AttachA2aContext(task) \in WorkerCommand
  /\ \A req \in Request : HandleUiRequest(req) \in WorkerCommand
  /\ RunCompaction \in WorkerCommand
  /\ NewSession \in WorkerCommand
  /\ Shutdown \in WorkerCommand
<1>1. \A text \in Text, task \in Tasks \cup {NoTask} : ExecuteTurn(text, task) \in WorkerCommand
  BY DEF ExecuteTurn, WorkerCommand, Text
<1>2. \A task \in Tasks : AttachA2aContext(task) \in WorkerCommand
  BY DEF AttachA2aContext, WorkerCommand
<1>3. \A req \in Request : HandleUiRequest(req) \in WorkerCommand
  BY DEF HandleUiRequest, WorkerCommand
<1>4. /\ RunCompaction \in WorkerCommand
      /\ NewSession \in WorkerCommand
      /\ Shutdown \in WorkerCommand
  BY DEF RunCompaction, NewSession, Shutdown, Plain, WorkerCommand
<1> QED
  BY <1>1, <1>2, <1>3, <1>4

\* What a command carries.
LEMMA CommandFields ==
  ASSUME NEW cmd \in WorkerCommand \cup {NoJob}
  PROVE  /\ cmd.task_id \in Tasks \cup {NoTask}
         /\ cmd.tasks \subseteq Tasks
         /\ cmd.kind = "request" => cmd.request \in Request
  BY DEF WorkerCommand, NoJob, Plain

\* What a prompt entry carries.
LEMMA PromptFields ==
  ASSUME NEW entry \in DeferredPrompt \cup {NoPrompt}
  PROVE  entry.text \in Text \cup {NoText} /\ entry.task_id \in Tasks \cup {NoTask}
  BY DEF DeferredPrompt, NoPrompt

\* What an event of the render loop carries.
LEMMA EventFields ==
  ASSUME NEW event \in UiEvent
  PROVE  /\ event.kind = "text" => event.text \in Text
         /\ event.kind = "request" => event.request \in Request
  BY DEF UiEvent, SignalKinds

\* The head and the tail of a bounded channel.
LEMMA HeadTail ==
  ASSUME NEW S, NEW ch \in Seq(S), ch # <<>>
  PROVE  Head(ch) \in S /\ Tail(ch) \in Seq(S) /\ Len(Tail(ch)) = Len(ch) - 1 /\ Len(ch) > 0
  OBVIOUS

-----------------------------------------------------------------------------
(* Type correctness.                                                       *)

\* What the assumption on the constants says of the bounds.
LEMMA Capacities ==
  /\ WORKER_CMD_CAPACITY \in Nat /\ WORKER_CMD_CAPACITY > 0
  /\ EVENT_CAPACITY \in Nat /\ EVENT_CAPACITY > 0
  /\ RESPONSE_CAPACITY \in Nat /\ RESPONSE_CAPACITY > 0
  /\ BUS_CAPACITY \in Nat /\ BUS_CAPACITY > 0
  /\ MaxUiEvents \in Nat /\ MaxNotices \in Nat /\ MaxTurnCompactions \in Nat
  BY ConstantsAssumption

\* The command channel stays within its capacity whether or not a handler is parked.
LEMMA SendType ==
  ASSUME CommandsOK, NEW cmds \in Seq(WorkerCommand), Send(cmds)
  PROVE  CommandsOK'
<1>1. CASE Len(commands) + Len(cmds) <= WORKER_CMD_CAPACITY
  <2>1. commands' = commands \o cmds /\ outbox' = <<>>
    BY <1>1 DEF Send
  <2> QED
    BY <1>1, <2>1 DEF CommandsOK
<1>2. CASE ~(Len(commands) + Len(cmds) <= WORKER_CMD_CAPACITY)
  BY <1>2 DEF Send, CommandsOK
<1> QED
  BY <1>1, <1>2

\* So it does at the end of a handler that breaks out of the loop.
LEMMA FinishType ==
  ASSUME CommandsOK, NEW cmds \in Seq(WorkerCommand), NEW break, Finish(break, cmds)
  PROVE  CommandsOK' /\ loop' \in {"running", "joining", "ended"}
<1>1. Append(cmds, Shutdown) \in Seq(WorkerCommand)
  BY CommandTypes
<1>2. CASE break
  BY <1>1, <1>2, SendType DEF Finish
<1>3. CASE ~break
  BY <1>3, SendType DEF Finish
<1> QED
  BY <1>2, <1>3

\* Whoever leaves the loop sends Shutdown and nothing else.
LEMMA LeaveType ==
  ASSUME CommandsOK, Finish(TRUE, <<>>)
  PROVE  CommandsOK' /\ loop' \in {"running", "joining", "ended"}
<1>1. Append(<<>>, Shutdown) \in Seq(WorkerCommand)
  BY CommandTypes
<1>2. loop' = "joining" /\ Send(Append(<<>>, Shutdown))
  BY Zenon DEF Finish
<1> QED
  BY <1>1, <1>2, SendType

\* The compaction bus drops its oldest message and never outgrows its capacity.
LEMMA PublishType ==
  ASSUME BusOK, NEW event \in CompactionEvent, Publish(event)
  PROVE  BusOK'
<1>1. CASE Len(compactions) = BUS_CAPACITY
  <2>1. compactions # <<>>
    BY <1>1, Capacities
  <2>2. Tail(compactions) \in Seq(CompactionEvent) /\ Len(Tail(compactions)) = BUS_CAPACITY - 1
    BY <1>1, <2>1, HeadTail DEF BusOK
  <2>3. compactions' = Append(Tail(compactions), event)
    BY <1>1 DEF Publish
  <2> QED
    BY <2>2, <2>3, Capacities DEF BusOK
<1>2. CASE Len(compactions) # BUS_CAPACITY
  <2>1. compactions' = Append(compactions, event)
    BY <1>2 DEF Publish
  <2> QED
    BY <1>2, <2>1, Capacities DEF BusOK
<1> QED
  BY <1>1, <1>2

\* Publishing keeps the histories of the bus flags.
LEMMA PublishFlag ==
  ASSUME lagged \in BOOLEAN, silent \in BOOLEAN, NEW event, Publish(event)
  PROVE  lagged' \in BOOLEAN /\ silent' \in BOOLEAN
  BY DEF Publish

\* The slash stage leaves the turn state and the bus well formed.
LEMMA SlashType ==
  ASSUME BusOK, TurnOK, NEW text \in Text \cup {NoText}, NEW task \in Tasks \cup {NoTask},
         NEW active, NEW owner \in Tasks \cup {NoTask},
         SlashHandle(text, task, active, owner)
  PROVE  BusOK' /\ TurnOK'
<1>1. BusOK'
  <2>1. CASE text.kind = "compact"
    <3>1. Publish("requested")
      BY <2>1 DEF SlashHandle
    <3> QED
      BY <3>1, PublishType DEF CompactionEvent
  <2>2. CASE text.kind # "compact"
    BY <2>2 DEF SlashHandle, busVars, BusOK
  <2> QED
    BY <2>1, <2>2
<1>2. TurnOK'
  BY DEF SlashHandle, TurnOK
<1> QED
  BY <1>1, <1>2

\* The flags the slash stage sets.
LEMMA SlashFlags ==
  ASSUME lagged \in BOOLEAN, silent \in BOOLEAN, cancelled \in BOOLEAN, NEW active \in BOOLEAN,
         NEW text, NEW task, NEW owner, SlashHandle(text, task, active, owner)
  PROVE  /\ lagged' \in BOOLEAN /\ silent' \in BOOLEAN
         /\ cancelled' \in BOOLEAN /\ worker_active' \in BOOLEAN
<1>1. lagged' \in BOOLEAN /\ silent' \in BOOLEAN
  BY PublishFlag DEF SlashHandle, busVars
<1>2. cancelled' \in BOOLEAN
  BY DEF SlashHandle, Cancelled
<1>3. worker_active' \in BOOLEAN
  BY DEF SlashHandle, StartsTurn
<1> QED
  BY <1>1, <1>2, <1>3

\* The slash stage sends worker commands only.
LEMMA SlashCommandsType ==
  ASSUME NEW text \in Text \cup {NoText}, NEW task \in Tasks \cup {NoTask}
  PROVE  SlashCommands(text, task) \in Seq(WorkerCommand)
<1>1. CASE text.kind = "prompt"
  <2>1. text \in Text
    BY <1>1 DEF NoText
  <2> QED
    BY <1>1, <2>1, CommandTypes DEF SlashCommands
<1>2. CASE text.kind = "new"
  BY <1>2, CommandTypes DEF SlashCommands
<1>3. CASE text.kind \notin {"prompt", "new"}
  BY <1>3 DEF SlashCommands
<1> QED
  BY <1>1, <1>2, <1>3

\* What the worker delivers fits into its channel.
LEMMA DeliveredType ==
  ASSUME NEW S, NEW ch \in Seq(S), NEW capacity \in Nat, Len(ch) <= capacity,
         NEW message \in S, HasRoom(ch, capacity)
  PROVE  Delivered(ch, message) \in Seq(S) /\ Len(Delivered(ch, message)) <= capacity
<1>1. CASE LoopListens
  <2>1. Len(ch) < capacity
    BY <1>1 DEF HasRoom
  <2>2. Delivered(ch, message) = Append(ch, message)
    BY <1>1 DEF Delivered
  <2> QED
    BY <2>1, <2>2
<1>2. CASE ~LoopListens
  BY <1>2 DEF Delivered
<1> QED
  BY <1>1, <1>2

\* Telling about a task, or about none, gives a verdict.
LEMMA TellType ==
  ASSUME verdict \in [Tasks -> Verdicts], NEW task \in Tasks \cup {NoTask},
         NEW what \in Verdicts
  PROVE  Tell(task, what) \in [Tasks -> Verdicts]
  BY DEF Tell

\* The initial state has its type.
LEMMA TypeInit == Init => TypeOK
<1> SUFFICES ASSUME Init PROVE TypeOK
  OBVIOUS
<1> USE Capacities DEF Init
<1>1. FlagsOK
  BY DEF FlagsOK
<1>2. CommandsOK
  BY DEF CommandsOK
<1>3. TurnOK
  BY DEF TurnOK
<1>4. IntakeOK
  BY DEF IntakeOK
<1>5. NoticeOK
  BY DEF NoticeOK
<1>6. StageOK
  BY DEF StageOK
<1>7. ReplyOK
  BY DEF ReplyOK
<1>8. A2aOK
  BY DEF A2aOK
<1>9. RuntimeOK
  BY DEF RuntimeOK
<1>10. EventsOK
  BY DEF EventsOK
<1>11. ResultsOK
  BY DEF ResultsOK
<1>12. BusOK
  BY DEF BusOK
<1>13. UiOK
  BY DEF UiOK
<1>14. OfferedOK
  BY DEF OfferedOK
<1>15. verdict \in [Tasks -> Verdicts]
  BY DEF Verdicts
<1> QED
  BY <1>1, <1>2, <1>3, <1>4, <1>5, <1>6, <1>7, <1>8, <1>9,
     <1>10, <1>11, <1>12, <1>13, <1>14, <1>15
  DEF TypeOK

\* What an action leaves alone keeps its type.
LEMMA Frame ==
  /\ FlagsOK /\ UNCHANGED <<worker_active, cancelled, pending_compaction, compaction_active,
                            quit_pending, lagged, silent, store_latch, ui_open, ui_active>> => FlagsOK'
  /\ CommandsOK /\ UNCHANGED <<commands, outbox>> => CommandsOK'
  /\ TurnOK /\ UNCHANGED turnVars => TurnOK'
  /\ IntakeOK /\ UNCHANGED intakeVars => IntakeOK'
  /\ NoticeOK /\ UNCHANGED noticeVars => NoticeOK'
  /\ StageOK /\ UNCHANGED stageVars => StageOK'
  /\ ReplyOK /\ UNCHANGED replyVars => ReplyOK'
  /\ A2aOK /\ UNCHANGED a2aVars => A2aOK'
  /\ RuntimeOK /\ UNCHANGED <<phase, job, applied>> => RuntimeOK'
  /\ EventsOK /\ UNCHANGED events => EventsOK'
  /\ ResultsOK /\ UNCHANGED worker_results => ResultsOK'
  /\ BusOK /\ UNCHANGED compactions => BusOK'
  /\ UiOK /\ UNCHANGED <<ui_sent, ui_prompts, turn_ends>> => UiOK'
  /\ OfferedOK /\ UNCHANGED <<offered, canceled, noticed, turn_compactions>> => OfferedOK'
<1>0. FlagsOK /\ UNCHANGED <<worker_active, cancelled, pending_compaction, compaction_active,
                            quit_pending, lagged, silent, store_latch, ui_open, ui_active>> => FlagsOK'
  BY DEF FlagsOK
<1>1. CommandsOK /\ UNCHANGED <<commands, outbox>> => CommandsOK'
  BY DEF CommandsOK
<1>2. TurnOK /\ UNCHANGED turnVars => TurnOK'
  BY DEF TurnOK, turnVars
<1>3. IntakeOK /\ UNCHANGED intakeVars => IntakeOK'
  BY DEF IntakeOK, intakeVars
<1>4. NoticeOK /\ UNCHANGED noticeVars => NoticeOK'
  BY DEF NoticeOK, noticeVars
<1>5. StageOK /\ UNCHANGED stageVars => StageOK'
  BY DEF StageOK, stageVars
<1>6. ReplyOK /\ UNCHANGED replyVars => ReplyOK'
  BY DEF ReplyOK, replyVars
<1>7. A2aOK /\ UNCHANGED a2aVars => A2aOK'
  BY DEF A2aOK, a2aVars
<1>8. RuntimeOK /\ UNCHANGED <<phase, job, applied>> => RuntimeOK'
  BY DEF RuntimeOK
<1>9. EventsOK /\ UNCHANGED events => EventsOK'
  BY DEF EventsOK
<1>10. ResultsOK /\ UNCHANGED worker_results => ResultsOK'
  BY DEF ResultsOK
<1>11. BusOK /\ UNCHANGED compactions => BusOK'
  BY DEF BusOK
<1>12. UiOK /\ UNCHANGED <<ui_sent, ui_prompts, turn_ends>> => UiOK'
  BY DEF UiOK
<1>13. OfferedOK /\ UNCHANGED <<offered, canceled, noticed, turn_compactions>> => OfferedOK'
  BY DEF OfferedOK
<1> QED
  BY <1>0, <1>1, <1>2, <1>3, <1>4, <1>5, <1>6, <1>7, <1>8, <1>9, <1>10, <1>11, <1>12, <1>13

\* A set of numbers that is not empty has a least element.
LEMMA LeastElement ==
  ASSUME NEW S \in SUBSET Nat, S # {}
  PROVE  Min(S) \in S
<1>1. PICK m \in S : \A x \in S : <<x, m>> \notin OpToRel(<, Nat)
  BY WFMin, NatLessThanWellFounded, Zenon
<1>2. \A x \in S : ~(x < m)
  BY <1>1, Zenon DEF OpToRel
<1>3. \A x \in S : m <= x
  BY <1>2
<1> QED
  BY <1>3 DEF Min

\* Removing the waiting request of a kind takes out its first place.
LEMMA WithoutFirst ==
  ASSUME NEW S, NEW queue \in Seq(S), NEW kind, NEW places,
         places = {i \in 1..Len(queue) : queue[i].kind = kind}, places # {}
  PROVE  Without(queue, kind) = SubSeq(queue, 1, Min(places) - 1)
                                  \o SubSeq(queue, Min(places) + 1, Len(queue))
<1>1. \E i \in 1..Len(queue) : queue[i].kind = kind
  OBVIOUS
<1>2. Without(queue, kind) =
        LET I == {i \in 1..Len(queue) : queue[i].kind = kind}
        IN  LET k == IF I # {} THEN Min(I) ELSE 0
            IN  SubSeq(queue, 1, k - 1) \o SubSeq(queue, k + 1, Len(queue))
  BY <1>1, Zenon DEF Without, RemoveFirstMatch, RemoveAt, SelectInSeq
<1> QED
  BY <1>2, Zenon

\* What is left is a queue of requests.
LEMMA WithoutType ==
  ASSUME NEW S, NEW queue \in Seq(S), NEW kind
  PROVE  Without(queue, kind) \in Seq(S)
<1>1. PICK places : places = {i \in 1..Len(queue) : queue[i].kind = kind}
  OBVIOUS
<1>2. CASE places # {}
  <2>1. places \subseteq 1..Len(queue) /\ places \in SUBSET Nat
    BY <1>1
  <2>2. PICK k \in 1..Len(queue) : k = Min(places)
    BY <1>2, <2>1, LeastElement
  <2>3. Without(queue, kind) = SubSeq(queue, 1, k - 1) \o SubSeq(queue, k + 1, Len(queue))
    BY <1>1, <1>2, <2>2, WithoutFirst
  <2>4. SubSeq(queue, 1, k - 1) \in Seq(S)
    BY SubSeqProperties
  <2>5. SubSeq(queue, k + 1, Len(queue)) \in Seq(S)
    BY SubSeqProperties
  <2> QED
    BY <2>3, <2>4, <2>5, ConcatProperties
<1>3. CASE places = {}
  BY <1>1, <1>3 DEF Without, RemoveFirstMatch, RemoveAt, SelectInSeq
<1> QED
  BY <1>2, <1>3

\* Taking an event of a given kind off the render loop's channel.
LEMMA TakeEvent ==
  ASSUME EventsOK, NEW kind, Got(kind), events' = Tail(events)
  PROVE  EventsOK' /\ Head(events) \in UiEvent /\ Head(events).kind = kind
  BY HeadTail, Capacities DEF EventsOK, Got

\* Every step of loop, worker and environment keeps every variable in its type and
\* every channel within its capacity.
LEMMA TypeStep == TypeOK /\ [Next]_vars => TypeOK'
<1> SUFFICES ASSUME TypeOK, [Next]_vars PROVE TypeOK'
  OBVIOUS
<1> USE DEF TypeOK
<1>1. CASE FlushOutbox
  <2>1. CommandsOK'
    BY <1>1, HeadTail, Capacities DEF FlushOutbox, CommandsOK
  <2> QED
    BY <1>1, <2>1, Frame DEF FlushOutbox, turnVars, compactVars, runtimeVars, envVars, uiVars, busVars
<1>2. CASE DeferPrompt
  <2>1. EventsOK' /\ Head(events).text \in Text
    BY <1>2, TakeEvent, EventFields DEF DeferPrompt
  <2>2. IntakeOK'
    BY <1>2, <2>1 DEF DeferPrompt, IntakeOK, DeferredPrompt, TakePendingId
  <2>3. Superseded \in Tasks \cup {NoTask}
    BY PromptFields DEF Superseded, IntakeOK
  <2>4. verdict' \in [Tasks -> Verdicts]
    BY <1>2, <2>3, TellType DEF DeferPrompt, Verdicts
  <2> QED
    BY <1>2, <2>1, <2>2, <2>4, Frame
    DEF DeferPrompt, turnVars, compactVars, runtimeVars, envVars, uiVars, busVars
<1>3. CASE SubmitPrompt
  <2>1. EventsOK' /\ Head(events).text \in Text
    BY <1>3, TakeEvent, EventFields DEF SubmitPrompt
  <2>2. /\ pending_a2a_task_id \in Tasks \cup {NoTask} /\ active_task \in Tasks \cup {NoTask}
        /\ SlashHandle(Head(events).text, pending_a2a_task_id, worker_active, active_task)
        /\ Finish(FALSE, SlashCommands(Head(events).text, pending_a2a_task_id))
    BY <1>3 DEF SubmitPrompt, IntakeOK, TurnOK
  <2>3. TurnOK' /\ BusOK'
    BY <2>1, <2>2, SlashType
  <2>4. CommandsOK' /\ loop' \in {"running", "joining", "ended"}
    BY <2>1, <2>2, SlashCommandsType, FinishType
  <2>5. IntakeOK'
    BY <1>3 DEF SubmitPrompt, IntakeOK, TakePendingId
  <2>6. worker_active' \in BOOLEAN /\ cancelled' \in BOOLEAN /\ lagged' \in BOOLEAN /\ silent' \in BOOLEAN
    BY <2>2, SlashFlags DEF FlagsOK
  <2>7. FlagsOK'
    BY <1>3, <2>6 DEF SubmitPrompt, FlagsOK, compactVars, runtimeVars, envVars, uiVars
  <2> QED
    BY <1>3, <2>1, <2>3, <2>4, <2>5, <2>7, Frame DEF SubmitPrompt, runtimeVars, envVars, uiVars
<1>4. CASE QueueRequest
  <2>1. EventsOK' /\ Head(events).request \in Request
    BY <1>4, TakeEvent, EventFields DEF QueueRequest
  <2>2. Without(queued, Head(events).request.kind) \in Seq(Request)
    BY WithoutType DEF StageOK
  <2>3. StageOK'
    BY <1>4, <2>1, <2>2 DEF QueueRequest, StageOK
  <2> QED
    BY <1>4, <2>1, <2>3, Frame
    DEF QueueRequest, turnVars, compactVars, runtimeVars, envVars, uiVars, busVars
<1>5. CASE DispatchBlocking
  <2>1. EventsOK' /\ Head(events).request \in Request
    BY <1>5, TakeEvent, EventFields DEF DispatchBlocking
  <2>2. StageOK'
    BY <1>5, <2>1 DEF DispatchBlocking, StageOK
  <2>3. CommandsOK' /\ loop' \in {"running", "joining", "ended"}
    <3>1. Finish(FALSE, <<HandleUiRequest(Head(events).request)>>)
      BY <1>5 DEF DispatchBlocking
    <3>2. <<HandleUiRequest(Head(events).request)>> \in Seq(WorkerCommand)
      BY <2>1, CommandTypes
    <3> QED
      BY <3>1, <3>2, FinishType
  <2> QED
    BY <1>5, <2>1, <2>2, <2>3, Frame
    DEF DispatchBlocking, turnVars, compactVars, runtimeVars, envVars, uiVars, busVars
<1>6. CASE DispatchConcurrent
  <2>1. EventsOK' /\ Head(events).request \in Request
    BY <1>6, TakeEvent, EventFields DEF DispatchConcurrent
  <2>2. StageOK'
    BY <1>6, <2>1 DEF DispatchConcurrent, StageOK, ConcurrentKinds
  <2>3. CommandsOK' /\ loop' \in {"running", "joining", "ended"}
    <3>1. Finish(FALSE, <<HandleUiRequest(Head(events).request)>>)
      BY <1>6 DEF DispatchConcurrent
    <3>2. <<HandleUiRequest(Head(events).request)>> \in Seq(WorkerCommand)
      BY <2>1, CommandTypes
    <3> QED
      BY <3>1, <3>2, FinishType
  <2> QED
    BY <1>6, <2>1, <2>2, <2>3, Frame
    DEF DispatchConcurrent, turnVars, compactVars, runtimeVars, envVars, uiVars, busVars
<1>7. CASE IgnoreRequest
  <2>1. EventsOK'
    BY <1>7, TakeEvent DEF IgnoreRequest
  <2> QED
    BY <1>7, <2>1, Frame
    DEF IgnoreRequest, turnVars, compactVars, runtimeVars, envVars, uiVars, busVars
<1>8. CASE CancelRequested
  <2>1. EventsOK'
    BY <1>8, TakeEvent DEF CancelRequested
  <2>2. FlagsOK'
    BY <1>8 DEF CancelRequested, Cancelled, FlagsOK, turnVars, compactVars, runtimeVars,
       envVars, uiVars, busVars
  <2> QED
    BY <1>8, <2>1, <2>2, Frame DEF CancelRequested, runtimeVars, envVars, uiVars, busVars
<1>9. CASE QuitLater
  <2>1. EventsOK'
    BY <1>9, TakeEvent DEF QuitLater
  <2>2. FlagsOK'
    BY <1>9 DEF QuitLater, Cancelled, FlagsOK, turnVars, compactVars, runtimeVars,
       envVars, uiVars, busVars
  <2> QED
    BY <1>9, <2>1, <2>2, Frame DEF QuitLater, runtimeVars, envVars, uiVars, busVars
<1>10. CASE QuitNow
  <2>1. EventsOK'
    BY <1>10, TakeEvent DEF QuitNow
  <2>2. CommandsOK' /\ loop' \in {"running", "joining", "ended"}
    BY <1>10, LeaveType, Zenon DEF QuitNow
  <2> QED
    BY <1>10, <2>1, <2>2, Frame
    DEF QuitNow, turnVars, compactVars, runtimeVars, envVars, uiVars, busVars
<1>11. CASE HandleWorkerResult
  <2> DEFINE blocking == IF Drained = NoRequest THEN pending_blocking ELSE Drained
             entry == Released(FALSE, blocking)
             requests == IF Drained = NoRequest THEN <<>> ELSE <<HandleUiRequest(Drained)>>
             compaction == IF pending_compaction THEN <<RunCompaction>> ELSE <<>>
             prompt == SlashCommands(entry.text, entry.task_id)
  <2>1. /\ worker_results # <<>> /\ worker_results' = Tail(worker_results)
        /\ pending_blocking' = blocking
        /\ queued' = IF Drained = NoRequest THEN queued ELSE Tail(queued)
        /\ SlashHandle(entry.text, entry.task_id, FALSE, NoTask)
        /\ deferred_prompt' = IF entry = NoPrompt THEN deferred_prompt ELSE NoPrompt
        /\ Finish(quit_pending, requests \o compaction \o prompt)
        /\ pending_compaction' = FALSE
    BY <1>11 DEF HandleWorkerResult
  <2>2. entry \in DeferredPrompt \cup {NoPrompt}
    BY DEF Released, IntakeOK
  <2>3. entry.text \in Text \cup {NoText} /\ entry.task_id \in Tasks \cup {NoTask}
    BY <2>2, PromptFields
  <2>4. Drained # NoRequest => Drained \in Request /\ Tail(queued) \in Seq(Request)
    BY HeadTail DEF Drained, StageOK
  <2>5. requests \in Seq(WorkerCommand)
    BY <2>4, CommandTypes
  <2>6. compaction \in Seq(WorkerCommand)
    BY CommandTypes
  <2>7. prompt \in Seq(WorkerCommand)
    BY <2>3, SlashCommandsType
  <2>8. blocking \in Request \cup {NoRequest}
    BY <2>4 DEF StageOK
  <2> HIDE DEF blocking, entry, requests, compaction, prompt
  <2>9. (requests \o compaction) \o prompt \in Seq(WorkerCommand)
    BY <2>5, <2>6, <2>7, ConcatProperties
  <2>10. CommandsOK' /\ loop' \in {"running", "joining", "ended"}
    BY <2>1, <2>9, FinishType
  <2>11. BusOK' /\ TurnOK'
    BY <2>1, <2>3, SlashType
  <2>12. lagged' \in BOOLEAN /\ silent' \in BOOLEAN /\ cancelled' \in BOOLEAN /\ worker_active' \in BOOLEAN
    BY <2>1, SlashFlags DEF FlagsOK
  <2>13. /\ compaction_active' = compaction_active /\ quit_pending' = quit_pending
         /\ store_latch' = store_latch /\ ui_open' = ui_open /\ ui_active' = ui_active
    BY <1>11 DEF HandleWorkerResult, runtimeVars, uiVars
  <2>14. FlagsOK'
    BY <2>1, <2>12, <2>13 DEF FlagsOK
  <2>15. StageOK'
    <3>1. pending_concurrent' = pending_concurrent
      BY <1>11 DEF HandleWorkerResult
    <3> QED
      BY <2>1, <2>4, <2>8, <3>1 DEF StageOK
  <2>16. IntakeOK'
    <3>1. pending_a2a_task_id' = pending_a2a_task_id
      BY <1>11 DEF HandleWorkerResult
    <3> QED
      BY <2>1, <3>1 DEF IntakeOK
  <2>17. ResultsOK'
    BY <2>1, HeadTail, Capacities DEF ResultsOK
  <2>18. NoticeOK'
    <3>1. completions' = completions
      BY <1>11 DEF HandleWorkerResult
    <3>2. pending_completions' \in {pending_completions, pending_completions - 1}
          /\ (pending_completions = 0 => pending_completions' = pending_completions)
      BY <1>11 DEF HandleWorkerResult
    <3> QED
      BY <3>1, <3>2 DEF NoticeOK
  <2>19. UiOK'
    <3>1. ui_sent' = ui_sent /\ ui_prompts' = ui_prompts
      BY <1>11 DEF HandleWorkerResult, uiVars
    <3>2. turn_ends' \in {turn_ends + 0, turn_ends + 1}
      BY <1>11 DEF HandleWorkerResult
    <3> QED
      BY <3>1, <3>2 DEF UiOK
  <2>20. verdict' \in [Tasks -> Verdicts]
    <3>1. active_task \in Tasks \cup {NoTask}
      BY DEF TurnOK
    <3>2. \E what \in {"completed", "failed"} : verdict' = Tell(active_task, what)
      BY <1>11 DEF HandleWorkerResult
    <3> QED
      BY <3>1, <3>2, TellType DEF Verdicts
  <2>21. ReplyOK' /\ A2aOK' /\ RuntimeOK' /\ EventsOK' /\ OfferedOK'
    BY <1>11, Frame DEF HandleWorkerResult, runtimeVars
  <2> QED
    BY <2>10, <2>11, <2>14, <2>15, <2>16, <2>17, <2>18, <2>19, <2>20, <2>21
<1>12. CASE HandleBlockingResponse
  <2> DEFINE entry == Released(worker_active, NoRequest)
             prompt == SlashCommands(entry.text, entry.task_id)
             break == QuitAfter(NoRequest, pending_concurrent)
  <2>1. /\ blocking_responses # <<>> /\ blocking_responses' = Tail(blocking_responses)
        /\ pending_blocking' = NoRequest
        /\ SlashHandle(entry.text, entry.task_id, worker_active, active_task)
        /\ deferred_prompt' = IF entry = NoPrompt THEN deferred_prompt ELSE NoPrompt
        /\ Finish(break, prompt)
    BY <1>12 DEF HandleBlockingResponse
  <2>2. entry \in DeferredPrompt \cup {NoPrompt}
    BY DEF Released, IntakeOK
  <2>3. entry.text \in Text \cup {NoText} /\ entry.task_id \in Tasks \cup {NoTask}
    BY <2>2, PromptFields
  <2>4. prompt \in Seq(WorkerCommand)
    BY <2>3, SlashCommandsType
  <2> HIDE DEF entry, prompt, break
  <2>5. CommandsOK' /\ loop' \in {"running", "joining", "ended"}
    BY <2>1, <2>4, FinishType
  <2>6. active_task \in Tasks \cup {NoTask}
    BY DEF TurnOK
  <2>7. BusOK' /\ TurnOK'
    BY <2>1, <2>3, <2>6, SlashType
  <2>8. lagged' \in BOOLEAN /\ silent' \in BOOLEAN /\ cancelled' \in BOOLEAN /\ worker_active' \in BOOLEAN
    BY <2>1, SlashFlags DEF FlagsOK
  <2>9. FlagsOK'
    BY <1>12, <2>8
    DEF HandleBlockingResponse, FlagsOK, compactVars, runtimeVars, envVars, uiVars
  <2>10. StageOK'
    BY <1>12, <2>1 DEF HandleBlockingResponse, StageOK
  <2>11. IntakeOK'
    BY <1>12, <2>1 DEF HandleBlockingResponse, IntakeOK
  <2>12. ReplyOK'
    BY <1>12, <2>1, HeadTail, Capacities DEF HandleBlockingResponse, ReplyOK
  <2> QED
    BY <1>12, <2>5, <2>7, <2>9, <2>10, <2>11, <2>12, Frame
    DEF HandleBlockingResponse, runtimeVars, envVars, uiVars
<1>13. CASE HandleConcurrentResponse
  <2> DEFINE break == QuitAfter(pending_blocking, pending_concurrent')
  <2>1. Finish(break, <<>>)
    BY <1>13 DEF HandleConcurrentResponse
  <2> HIDE DEF break
  <2>2. CommandsOK' /\ loop' \in {"running", "joining", "ended"}
    <3>1. <<>> \in Seq(WorkerCommand)
      OBVIOUS
    <3> QED
      BY <2>1, <3>1, FinishType
  <2>3. StageOK'
    BY <1>13 DEF HandleConcurrentResponse, StageOK, Unanswered
  <2>4. ReplyOK'
    BY <1>13, HeadTail, Capacities DEF HandleConcurrentResponse, ReplyOK
  <2> QED
    BY <1>13, <2>2, <2>3, <2>4, Frame
    DEF HandleConcurrentResponse, turnVars, compactVars, runtimeVars, envVars, uiVars, busVars
<1>14. CASE DispatchCompaction
  <2> DEFINE cmds == IF CompactLater THEN <<>> ELSE <<RunCompaction>>
  <2>1. Finish(FALSE, cmds)
    BY <1>14 DEF DispatchCompaction
  <2>2. cmds \in Seq(WorkerCommand)
    BY CommandTypes
  <2> HIDE DEF cmds
  <2>3. CommandsOK' /\ loop' \in {"running", "joining", "ended"}
    BY <2>1, <2>2, FinishType
  <2>4. BusOK'
    BY <1>14, HeadTail, Capacities DEF DispatchCompaction, BusOK
  <2>5. pending_compaction' \in BOOLEAN /\ compaction_active' \in BOOLEAN
    BY <1>14 DEF DispatchCompaction
  <2>6. FlagsOK'
    BY <1>14, <2>5
    DEF DispatchCompaction, compactionUnchanged, FlagsOK, turnVars, runtimeVars, envVars, uiVars
  <2> QED
    BY <1>14, <2>3, <2>4, <2>6, Frame
    DEF DispatchCompaction, compactionUnchanged, runtimeVars, envVars, uiVars
<1>15. CASE CompactionEnded
  <2> DEFINE next == pending_compaction /\ ~worker_active
             cmds == IF next THEN <<RunCompaction>> ELSE <<>>
             break == quit_pending /\ ~next
  <2>1. Finish(break, cmds)
    BY <1>15 DEF CompactionEnded
  <2>2. cmds \in Seq(WorkerCommand)
    BY CommandTypes
  <2> HIDE DEF cmds, break
  <2>3. CommandsOK' /\ loop' \in {"running", "joining", "ended"}
    BY <2>1, <2>2, FinishType
  <2>4. BusOK'
    BY <1>15, HeadTail, Capacities DEF CompactionEnded, BusOK
  <2>5. pending_compaction' \in BOOLEAN /\ compaction_active' \in BOOLEAN
    BY <1>15 DEF CompactionEnded
  <2>6. FlagsOK'
    BY <1>15, <2>5
    DEF CompactionEnded, compactionUnchanged, FlagsOK, turnVars, runtimeVars, envVars, uiVars
  <2> QED
    BY <1>15, <2>3, <2>4, <2>6, Frame
    DEF CompactionEnded, compactionUnchanged, runtimeVars, envVars, uiVars
<1>16. CASE CompactionProgress
  <2>1. BusOK'
    BY <1>16, HeadTail, Capacities DEF CompactionProgress, BusOK
  <2> QED
    BY <1>16, <2>1, Frame
    DEF CompactionProgress, compactionUnchanged, turnVars, compactVars, runtimeVars, envVars, uiVars
<1>17. CASE HandleExternalCancel
  <2>1. Head(task_cancels) \in Tasks /\ A2aOK'
    BY <1>17, HeadTail DEF HandleExternalCancel, A2aOK
  <2>2. TurnOK'
    BY <1>17, <2>1 DEF HandleExternalCancel, TurnOK
  <2>3. cancelled' \in BOOLEAN
    BY <1>17 DEF HandleExternalCancel, Cancelled, FlagsOK
  <2>4. FlagsOK'
    BY <1>17, <2>3 DEF HandleExternalCancel, FlagsOK, compactVars, runtimeVars, envVars, uiVars, busVars
  <2> QED
    BY <1>17, <2>1, <2>2, <2>4, Frame DEF HandleExternalCancel, runtimeVars, envVars, uiVars, busVars
<1>18. CASE TakeA2aTask
  <2>1. Head(a2a_tasks) \in Tasks /\ A2aOK'
    BY <1>18, HeadTail DEF TakeA2aTask, A2aOK
  <2>2. IntakeOK'
    BY <1>18, <2>1 DEF TakeA2aTask, PendingAfter, IntakeOK
  <2>3. verdict' \in [Tasks -> Verdicts]
    <3>1. verdict' = verdict \/ verdict' = Tell(Head(a2a_tasks), "rejected")
      BY <1>18 DEF TakeA2aTask
    <3> QED
      BY <2>1, <3>1, TellType DEF Verdicts
  <2>4. CommandsOK'
    <3>1. AttachA2aContext(Head(a2a_tasks)) \in WorkerCommand
      BY <2>1, CommandTypes
    <3>2. CASE Refused
      BY <1>18, <3>2 DEF TakeA2aTask, CommandsOK
    <3>3. CASE ~Refused
      <4>1. commands' = Append(commands, AttachA2aContext(Head(a2a_tasks))) /\ outbox' = outbox
        BY <1>18, <3>3 DEF TakeA2aTask
      <4>2. ~(Len(commands) >= WORKER_CMD_CAPACITY)
        BY <3>3 DEF Refused
      <4> QED
        BY <3>1, <4>1, <4>2, Capacities DEF CommandsOK
    <3> QED
      BY <3>2, <3>3
  <2> QED
    BY <1>18, <2>1, <2>2, <2>3, <2>4, Frame
    DEF TakeA2aTask, turnVars, compactVars, runtimeVars, envVars, uiVars, busVars
<1>19. CASE TakeCompletion
  <2>1. NoticeOK'
    <3>1. /\ completions > 0 /\ completions' = completions - 1
          /\ pending_completions' \in {pending_completions, pending_completions + 1}
      BY <1>19 DEF TakeCompletion
    <3> QED
      BY <3>1 DEF NoticeOK
  <2> QED
    BY <1>19, <2>1, Frame
    DEF TakeCompletion, turnVars, compactVars, runtimeVars, envVars, uiVars, busVars
<1>20. CASE Ended
  BY <1>20, Frame DEF Ended, turnVars, compactVars, runtimeVars, envVars, uiVars, busVars
<1>21. CASE WorkerNext
  <2>1. CASE TakeCommand
    <3>1. Head(commands) \in WorkerCommand /\ CommandsOK'
      BY <2>1, HeadTail, Capacities DEF TakeCommand, CommandsOK
    <3>2. RuntimeOK'
      BY <2>1, <3>1 DEF TakeCommand, RuntimeOK, StartOf
    <3>3. UiOK'
      BY <2>1, <3>1, CommandFields DEF TakeCommand, UiOK
    <3>4. FlagsOK'
      <4>1. store_latch' \in BOOLEAN
        BY <2>1 DEF TakeCommand, FlagsOK
      <4> QED
        BY <2>1, <4>1 DEF TakeCommand, FlagsOK, turnVars, compactVars, busVars
    <3> QED
      BY <2>1, <3>1, <3>2, <3>3, <3>4, Frame DEF TakeCommand, busVars
  <2>2. CASE SubscribeCancel
    <3>1. RuntimeOK'
      BY <2>2 DEF SubscribeCancel, RuntimeOK
    <3> QED
      BY <2>2, <3>1, Frame DEF SubscribeCancel, turnVars, compactVars, envVars, uiVars, busVars
  <2>3. ASSUME NEW ok \in BOOLEAN, EndTurn(ok) PROVE TypeOK'
    <3>1. RuntimeOK'
      BY <2>3 DEF EndTurn, RuntimeOK
    <3>2. [task_id |-> job.task_id, ok |-> ok, cancelled |-> cancelled] \in TurnOutcome
      BY CommandFields DEF TurnOutcome, RuntimeOK, FlagsOK
    <3>3. ResultsOK'
      <4>1. /\ HasRoom(worker_results, EVENT_CAPACITY)
            /\ worker_results' = Delivered(worker_results,
                 [task_id |-> job.task_id, ok |-> ok, cancelled |-> cancelled])
        BY <2>3 DEF EndTurn
      <4> QED
        BY <3>2, <4>1, DeliveredType, Capacities DEF ResultsOK
    <3>4. UiOK'
      <4>1. turn_ends' \in {turn_ends + 0, turn_ends + 1}
        BY <2>3 DEF EndTurn
      <4> QED
        BY <2>3, <4>1 DEF EndTurn, UiOK, uiVars
    <3>5. FlagsOK'
      BY <2>3 DEF EndTurn, FlagsOK, turnVars, compactVars, uiVars, busVars
    <3> QED
      BY <2>3, <3>1, <3>3, <3>4, <3>5, Frame DEF EndTurn, busVars
  <2>4. CASE OpenStore
    <3>1. phase' \in {"idle", "summarizing"} /\ job' \in {NoJob, job} /\ store_latch' \in BOOLEAN
      BY <2>4 DEF OpenStore
    <3>2. RuntimeOK'
      BY <2>4, <3>1 DEF OpenStore, RuntimeOK
    <3>3. Publish("ended") \/ Publish("progress") \/ EndInSilence
      BY <2>4 DEF OpenStore, ReportEnd
    <3>4. BusOK' /\ lagged' \in BOOLEAN /\ silent' \in BOOLEAN
      BY <3>3, PublishType, PublishFlag DEF CompactionEvent, FlagsOK, BusOK, EndInSilence
    <3>5. FlagsOK'
      BY <2>4, <3>1, <3>4 DEF OpenStore, FlagsOK, turnVars, compactVars, envVars, uiVars
    <3> QED
      BY <2>4, <3>2, <3>4, <3>5, Frame DEF OpenStore, envVars, uiVars
  <2>5. CASE EndCompaction
    <3>1. RuntimeOK'
      BY <2>5 DEF EndCompaction, RuntimeOK
    <3>2. Publish("ended")
      BY <2>5 DEF EndCompaction, ReportEnd
    <3>3. BusOK' /\ lagged' \in BOOLEAN /\ silent' \in BOOLEAN
      BY <3>2, PublishType, PublishFlag DEF CompactionEvent, FlagsOK
    <3>4. FlagsOK'
      BY <2>5, <3>3 DEF EndCompaction, FlagsOK, turnVars, compactVars, envVars, uiVars
    <3> QED
      BY <2>5, <3>1, <3>3, <3>4, Frame DEF EndCompaction, envVars, uiVars
  <2>6. CASE ServeRequest
    <3>1. job.request \in Request
      BY <2>6, CommandFields DEF ServeRequest, RuntimeOK
    <3>2. /\ applied' \in {applied, [applied EXCEPT ![job.request.kind] = job.request.id]}
          /\ store_latch' \in BOOLEAN
      BY <2>6 DEF ServeRequest, FlagsOK
    <3>3. job.request.id \in 0..MaxUiEvents
      BY <3>1, Capacities DEF Request
    <3>4. applied' \in [BlockingKinds -> 0..MaxUiEvents]
      BY <3>2, <3>3 DEF RuntimeOK
    <3>5. RuntimeOK'
      BY <2>6, <3>4 DEF ServeRequest, RuntimeOK
    <3>6. ReplyOK'
      <4>1. \/ /\ HasRoom(blocking_responses, RESPONSE_CAPACITY)
               /\ blocking_responses' = Delivered(blocking_responses, job.request)
               /\ UNCHANGED concurrent_responses
            \/ /\ HasRoom(concurrent_responses, RESPONSE_CAPACITY)
               /\ concurrent_responses' = Delivered(concurrent_responses, job.request)
               /\ UNCHANGED blocking_responses
        BY <2>6 DEF ServeRequest
      <4> QED
        BY <3>1, <4>1, DeliveredType, Capacities DEF ReplyOK
    <3>7. FlagsOK'
      BY <2>6, <3>2 DEF ServeRequest, FlagsOK, turnVars, compactVars, envVars, uiVars, busVars
    <3> QED
      BY <2>6, <3>5, <3>6, <3>7, Frame DEF ServeRequest, envVars, uiVars, busVars
  <2>7. CASE TurnCompaction
    <3>1. Publish("requested") \/ Publish("ended")
      BY <2>7 DEF TurnCompaction
    <3>2. BusOK' /\ lagged' \in BOOLEAN /\ silent' \in BOOLEAN
      BY <3>1, PublishType, PublishFlag DEF CompactionEvent, FlagsOK
    <3>3. store_latch' \in BOOLEAN
      BY <2>7 DEF TurnCompaction, FlagsOK
    <3>4. OfferedOK'
      BY <2>7, Capacities DEF TurnCompaction, OfferedOK
    <3>5. FlagsOK'
      BY <2>7, <3>2, <3>3 DEF TurnCompaction, FlagsOK, turnVars, compactVars, uiVars
    <3> QED
      BY <2>7, <3>2, <3>4, <3>5, Frame DEF TurnCompaction, uiVars
  <2>8. CASE SummaryChunk
    <3>1. Publish("progress")
      BY <2>8 DEF SummaryChunk
    <3>2. BusOK' /\ lagged' \in BOOLEAN /\ silent' \in BOOLEAN
      BY <3>1, PublishType, PublishFlag DEF CompactionEvent, FlagsOK
    <3>3. FlagsOK'
      BY <2>8, <3>2 DEF SummaryChunk, FlagsOK, turnVars, compactVars, runtimeVars, envVars, uiVars
    <3> QED
      BY <2>8, <3>2, <3>3, Frame DEF SummaryChunk, runtimeVars, envVars, uiVars
  <2> QED
    BY <1>21, <2>1, <2>2, <2>3, <2>4, <2>5, <2>6, <2>7, <2>8 DEF WorkerNext, WorkerProgress
<1>22. CASE EnvNext
  <2>1. ASSUME NEW kind \in UiInputs, UiSend(kind) PROVE TypeOK'
    <3>1. ui_open' \in BOOLEAN
      BY <2>1 DEF UiSend
    <3>2. ui_active' \in BOOLEAN
      <4>1. \/ ui_active' = (ui_active \/ kind = "prompt")
            \/ ui_active' = ui_active
            \/ ui_active' \in {ui_active, FALSE}
        BY <2>1, Zenon DEF UiSend
      <4> QED
        BY <4>1 DEF FlagsOK
    <3>3. FlagsOK'
      BY <2>1, <3>1, <3>2 DEF UiSend, FlagsOK, turnVars, compactVars, runtimeVars, busVars
    <3>4. ui_sent + 1 \in 1..MaxUiEvents /\ ui_sent' = ui_sent + 1
      BY <2>1, Capacities DEF UiSend, UiOK
    <3>5. ui_prompts \subseteq Tasks
      BY DEF UiOK
    <3>6. UiOK'
      <4>1. ui_prompts' \subseteq ui_prompts
        BY <2>1, Zenon DEF UiSend
      <4>2. turn_ends' = turn_ends
        BY <2>1 DEF UiSend
      <4> QED
        BY <3>4, <3>5, <4>1, <4>2, Capacities DEF UiOK
    <3>7. \E event \in UiEvent : events' = Append(events, event)
      <4>1. ASSUME kind \in TextKinds, NEW joined \in SUBSET ui_prompts,
                   events' = Append(events, [kind |-> "text", request |-> NoRequest,
                                             text |-> [kind |-> kind, tasks |-> joined]])
            PROVE  \E event \in UiEvent : events' = Append(events, event)
        <5>1. [kind |-> kind, tasks |-> joined] \in Text
          BY <3>5, <4>1 DEF Text
        <5> QED
          BY <4>1, <5>1 DEF UiEvent
      <4>2. ASSUME kind \in RequestKinds,
                   events' = Append(events, [kind |-> "request", text |-> NoText,
                                             request |-> [kind |-> kind, id |-> ui_sent + 1]])
            PROVE  \E event \in UiEvent : events' = Append(events, event)
        <5>1. [kind |-> kind, id |-> ui_sent + 1] \in Request
          BY <3>4, <4>2 DEF Request
        <5> QED
          BY <4>2, <5>1 DEF UiEvent
      <4>3. ASSUME kind \in SignalKinds,
                   events' = Append(events, [kind |-> kind, text |-> NoText, request |-> NoRequest])
            PROVE  \E event \in UiEvent : events' = Append(events, event)
        BY <4>3 DEF UiEvent
      <4> QED
        BY <2>1, <4>1, <4>2, <4>3, Zenon DEF UiSend
    <3>8. EventsOK'
      <4>1. Len(events) < EVENT_CAPACITY
        BY <2>1 DEF UiSend
      <4> QED
        BY <3>7, <4>1, Capacities DEF EventsOK
    <3> QED
      BY <2>1, <3>3, <3>6, <3>8, Frame DEF UiSend, runtimeVars, busVars
  <2>2. CASE UiTurnEnded
    <3>1. FlagsOK'
      BY <2>2 DEF UiTurnEnded, FlagsOK, turnVars, compactVars, runtimeVars, busVars
    <3>2. UiOK'
      BY <2>2 DEF UiTurnEnded, UiOK
    <3> QED
      BY <2>2, <3>1, <3>2, Frame DEF UiTurnEnded, runtimeVars, busVars
  <2>3. ASSUME NEW task \in Tasks, OfferTask(task) PROVE TypeOK'
    <3>1. A2aOK' /\ OfferedOK'
      BY <2>3 DEF OfferTask, A2aOK, OfferedOK
    <3> QED
      BY <2>3, <3>1, Frame DEF OfferTask, turnVars, compactVars, runtimeVars, uiVars, busVars
  <2>4. ASSUME NEW task \in Tasks, CancelTask(task) PROVE TypeOK'
    <3>1. A2aOK' /\ OfferedOK'
      BY <2>4 DEF CancelTask, A2aOK, OfferedOK
    <3> QED
      BY <2>4, <3>1, Frame
      DEF CancelTask, turnVars, compactVars, runtimeVars, uiVars, busVars
  <2>5. CASE RemoteCompletion
    <3>1. NoticeOK' /\ OfferedOK'
      BY <2>5, Capacities DEF RemoteCompletion, NoticeOK, OfferedOK
    <3> QED
      BY <2>5, <3>1, Frame
      DEF RemoteCompletion, turnVars, compactVars, runtimeVars, uiVars, busVars
  <2> QED
    BY <1>22, <2>1, <2>2, <2>3, <2>4, <2>5 DEF EnvNext
<1>23. CASE UNCHANGED vars
  BY <1>23, Frame DEF vars, turnVars, compactVars, runtimeVars, envVars, uiVars, busVars
<1> QED
  BY <1>1, <1>2, <1>3, <1>4, <1>5, <1>6, <1>7, <1>8, <1>9, <1>10, <1>11, <1>12, <1>13,
     <1>14, <1>15, <1>16, <1>17, <1>18, <1>19, <1>20, <1>21, <1>22, <1>23
  DEF Next, LoopNext

\* The specification keeps its types and never overfills a channel: whatever the
\* capacities, the worker command channel, the event and result channels, the
\* response channels and the compaction bus stay within them.
THEOREM TypeCorrect == Spec => []TypeOK
<1> QED
  BY TypeInit, TypeStep, PTL DEF Spec

-----------------------------------------------------------------------------
(* Nothing the loop keeps for later is forgotten.                          *)

\* QuitBacked is not inductive alone: a quit may be waiting for a queued
\* compaction only, which CompactionQueueBacked ties to its carrier.
KeptInv == DeferredBacked /\ CompactionQueueBacked /\ QuitBacked

\* The loop starts with nothing kept for later.
LEMMA KeptInvInit == Init => KeptInv
  BY DEF Init, KeptInv, DeferredBacked, CompactionQueueBacked, QuitBacked

\* Every step of loop, worker and environment keeps a handler ahead of what waits.
LEMMA KeptInvStep == KeptInv /\ [Next]_vars => KeptInv'
<1> SUFFICES ASSUME KeptInv, [Next]_vars PROVE KeptInv'
  OBVIOUS
<1> USE DEF KeptInv, DeferredBacked, CompactionQueueBacked, QuitBacked, has_pending
<1>1. CASE FlushOutbox
  BY <1>1 DEF FlushOutbox, turnVars, intakeVars, compactVars, stageVars
<1>2. CASE DeferPrompt
  BY <1>2 DEF DeferPrompt, Got, turnVars, compactVars, stageVars
<1>3. CASE SubmitPrompt
  BY <1>3 DEF SubmitPrompt, SlashHandle, Got, Polling, Finish, compactVars, stageVars
<1>4. CASE QueueRequest
  BY <1>4 DEF QueueRequest, turnVars, intakeVars, compactVars
<1>5. CASE DispatchBlocking
  BY <1>5 DEF DispatchBlocking, MustQueue, Got, Polling, Finish, turnVars, intakeVars, compactVars
<1>6. CASE DispatchConcurrent
  <2>1. Head(events).request.kind \in pending_concurrent'
    BY <1>6 DEF DispatchConcurrent
  <2> QED
    BY <1>6, <2>1 DEF DispatchConcurrent, Got, Polling, Finish, turnVars, intakeVars, compactVars
<1>7. CASE IgnoreRequest
  BY <1>7 DEF IgnoreRequest, turnVars, intakeVars, compactVars, stageVars
<1>8. CASE CancelRequested
  BY <1>8 DEF CancelRequested, turnVars, intakeVars, compactVars, stageVars
<1>9. CASE QuitLater
  BY <1>9 DEF QuitLater, QuitMustWait, Got, Polling, turnVars, intakeVars, compactVars, stageVars
<1>10. CASE QuitNow
  BY <1>10 DEF QuitNow, Finish
<1>11. CASE HandleWorkerResult
  BY <1>11 DEF HandleWorkerResult, SlashHandle, Released, Drained, Finish
<1>12. CASE HandleBlockingResponse
  BY <1>12 DEF HandleBlockingResponse, SlashHandle, Released, QuitAfter, Finish, Polling, compactVars
<1>13. CASE HandleConcurrentResponse
  BY <1>13 DEF HandleConcurrentResponse, QuitAfter, Finish, Polling, turnVars, intakeVars, compactVars
<1>14. CASE DispatchCompaction
  BY <1>14 DEF DispatchCompaction, CompactLater, compactionUnchanged, Finish, Polling, turnVars, intakeVars, stageVars
<1>15. CASE CompactionEnded
  BY <1>15 DEF CompactionEnded, compactionUnchanged, Finish, Polling, turnVars, intakeVars, stageVars
<1>16. CASE CompactionProgress
  BY <1>16 DEF CompactionProgress, compactionUnchanged, turnVars, intakeVars, compactVars, stageVars
<1>17. CASE HandleExternalCancel
  BY <1>17 DEF HandleExternalCancel, intakeVars, compactVars, stageVars
<1>18. CASE TakeA2aTask
  BY <1>18 DEF TakeA2aTask, turnVars, compactVars, stageVars
<1>19. CASE TakeCompletion
  BY <1>19 DEF TakeCompletion, turnVars, intakeVars, compactVars, stageVars
<1>20. CASE Ended
  BY <1>20 DEF Ended
<1>21. CASE WorkerNext
  <2> USE DEF turnVars, intakeVars, compactVars, stageVars
  <2>1. CASE TakeCommand
    BY <2>1 DEF TakeCommand
  <2>2. CASE SubscribeCancel
    BY <2>2 DEF SubscribeCancel
  <2>3. ASSUME NEW ok \in BOOLEAN, EndTurn(ok) PROVE KeptInv'
    BY <2>3 DEF EndTurn
  <2>4. CASE OpenStore
    BY <2>4 DEF OpenStore
  <2>5. CASE EndCompaction
    BY <2>5 DEF EndCompaction
  <2>6. CASE ServeRequest
    BY <2>6 DEF ServeRequest
  <2>7. CASE TurnCompaction
    BY <2>7 DEF TurnCompaction
  <2>8. CASE SummaryChunk
    BY <2>8 DEF SummaryChunk
  <2> QED
    BY <1>21, <2>1, <2>2, <2>3, <2>4, <2>5, <2>6, <2>7, <2>8 DEF WorkerNext, WorkerProgress
<1>22. CASE EnvNext
  <2> USE DEF turnVars, intakeVars, compactVars, stageVars
  <2>1. ASSUME NEW kind \in UiInputs, UiSend(kind) PROVE KeptInv'
    BY <2>1 DEF UiSend
  <2>2. CASE UiTurnEnded
    BY <2>2 DEF UiTurnEnded
  <2>3. ASSUME NEW task \in Tasks, OfferTask(task) \/ CancelTask(task) PROVE KeptInv'
    BY <2>3 DEF OfferTask, CancelTask
  <2>4. CASE RemoteCompletion
    BY <2>4 DEF RemoteCompletion
  <2> QED
    BY <1>22, <2>1, <2>2, <2>3, <2>4 DEF EnvNext
<1>23. CASE UNCHANGED vars
  BY <1>23 DEF vars, turnVars, intakeVars, compactVars, stageVars
<1> QED
  BY <1>1, <1>2, <1>3, <1>4, <1>5, <1>6, <1>7, <1>8, <1>9, <1>10, <1>11, <1>12, <1>13,
     <1>14, <1>15, <1>16, <1>17, <1>18, <1>19, <1>20, <1>21, <1>22, <1>23
  DEF Next, LoopNext

\* A prompt the loop has put aside always has a handler ahead that submits it,
\* whatever order turns, compactions and answers end in.
THEOREM PromptsNotForgotten == Spec => []DeferredBacked
<1>1. KeptInv => DeferredBacked
  BY DEF KeptInv
<1> QED
  BY KeptInvInit, KeptInvStep, <1>1, PTL DEF Spec

\* A queued compaction always has a handler ahead that dispatches it.
THEOREM CompactionsNotForgotten == Spec => []CompactionQueueBacked
<1>1. KeptInv => CompactionQueueBacked
  BY DEF KeptInv
<1> QED
  BY KeptInvInit, KeptInvStep, <1>1, PTL DEF Spec

\* A pending quit always has a handler ahead that leaves the loop.
THEOREM QuitsNotForgotten == Spec => []QuitBacked
<1>1. KeptInv => QuitBacked
  BY DEF KeptInv
<1> QED
  BY KeptInvInit, KeptInvStep, <1>1, PTL DEF Spec

-----------------------------------------------------------------------------
(* A task has one owner, and is answered once.                             *)

\* OneOwner with its count of the channel stated as injectivity, and the verdicts
\* of tasks the server has not handed over.
Apart == IsInjective(a2a_tasks)
Queue == ToSet(a2a_tasks)
Disjoint ==
    /\ Queue \cap Held = {}
    /\ pending_a2a_task_id # NoTask =>
          pending_a2a_task_id \notin {deferred_prompt.task_id, active_task}
    /\ active_task # NoTask => active_task # deferred_prompt.task_id
Owned == \A task \in Queue \cup Held : task \in offered /\ verdict[task] = "none"
Unheard == \A task \in Tasks \ offered : verdict[task] = "none"
OwnerInv == Apart /\ Disjoint /\ Owned /\ Unheard

\* A channel that holds no message twice is as long as its set of messages.
LEMMA LengthIsCount ==
  ASSUME NEW S, NEW ch \in Seq(S), IsInjective(ch)
  PROVE  Len(ch) = Cardinality(ToSet(ch))
<1>1. ch \in Surjection(1..Len(ch), ToSet(ch))
  BY DEF Surjection, ToSet
<1>2. ch \in Injection(1..Len(ch), ToSet(ch))
  BY DEF Injection, IsInjective, ToSet
<1>3. IsFiniteSet(1..Len(ch)) /\ Cardinality(1..Len(ch)) = Len(ch)
  <2>1. Len(ch) \in Nat
    OBVIOUS
  <2>2. /\ IsFiniteSet(1..Len(ch))
        /\ Cardinality(1..Len(ch)) = IF 1 > Len(ch) THEN 0 ELSE Len(ch) - 1 + 1
    BY <2>1, FS_Interval
  <2> QED
    BY <2>1, <2>2
<1> QED
  BY <1>1, <1>2, <1>3, FS_Surjection

\* Taking the head of a channel without duplicates takes that message out of it.
LEMMA TakeHead ==
  ASSUME NEW S, NEW ch \in Seq(S), ch # <<>>, IsInjective(ch)
  PROVE  /\ IsInjective(Tail(ch))
         /\ ToSet(Tail(ch)) = ToSet(ch) \ {Head(ch)}
         /\ Head(ch) \in ToSet(ch)
<1>1. \A i \in DOMAIN Tail(ch) : Tail(ch)[i] = ch[i + 1] /\ i + 1 \in DOMAIN ch
  OBVIOUS
<1>2. Head(ch) = ch[1] /\ 1 \in DOMAIN ch
  OBVIOUS
<1>3. IsInjective(Tail(ch))
  BY <1>1 DEF IsInjective
<1>4. ToSet(Tail(ch)) \subseteq ToSet(ch) \ {Head(ch)}
  <2> SUFFICES ASSUME NEW i \in DOMAIN Tail(ch)
               PROVE  Tail(ch)[i] \in ToSet(ch) /\ Tail(ch)[i] # Head(ch)
    BY DEF ToSet
  <2>1. i + 1 # 1
    OBVIOUS
  <2> QED
    BY <1>1, <1>2, <2>1 DEF ToSet, IsInjective
<1>5. ToSet(ch) \ {Head(ch)} \subseteq ToSet(Tail(ch))
  <2> SUFFICES ASSUME NEW j \in DOMAIN ch, ch[j] # Head(ch)
               PROVE  ch[j] \in ToSet(Tail(ch))
    BY DEF ToSet
  <2>1. j - 1 \in DOMAIN Tail(ch) /\ Tail(ch)[j - 1] = ch[j]
    BY <1>2
  <2> QED
    BY <2>1 DEF ToSet
<1> QED
  BY <1>2, <1>3, <1>4, <1>5 DEF ToSet

\* Appending a message that is not in the channel.
LEMMA AppendNew ==
  ASSUME NEW S, NEW ch \in Seq(S), NEW m \in S
  PROVE  /\ ToSet(Append(ch, m)) = ToSet(ch) \cup {m}
         /\ IsInjective(ch) /\ m \notin ToSet(ch) => IsInjective(Append(ch, m))
<1>1. DOMAIN Append(ch, m) = 1..(Len(ch) + 1)
  OBVIOUS
<1>2. \A i \in 1..(Len(ch) + 1) : Append(ch, m)[i] = IF i <= Len(ch) THEN ch[i] ELSE m
  OBVIOUS
<1>3. ToSet(Append(ch, m)) \subseteq ToSet(ch) \cup {m}
  BY <1>1, <1>2 DEF ToSet
<1>4. ToSet(ch) \subseteq ToSet(Append(ch, m))
  BY <1>1, <1>2 DEF ToSet
<1>5. m \in ToSet(Append(ch, m))
  <2>1. Len(ch) + 1 \in DOMAIN Append(ch, m) /\ Append(ch, m)[Len(ch) + 1] = m
    BY <1>1, <1>2
  <2> QED
    BY <2>1 DEF ToSet
<1>6. IsInjective(ch) /\ m \notin ToSet(ch) => IsInjective(Append(ch, m))
  BY <1>1, <1>2 DEF IsInjective, ToSet
<1> QED
  BY <1>3, <1>4, <1>5, <1>6

\* Under OwnerInv the tasks and the channel have one owner each.
LEMMA OwnersApart == TypeOK /\ OwnerInv => OneOwner
<1> SUFFICES ASSUME TypeOK, OwnerInv PROVE OneOwner
  OBVIOUS
<1>1. a2a_tasks \in Seq(Tasks)
  BY DEF TypeOK, A2aOK
<1>2. Len(a2a_tasks) = Cardinality(Queue)
  BY <1>1, LengthIsCount DEF OwnerInv, Apart, Queue
<1>3. Waiting = Queue
  BY DEF Waiting, Queue, ToSet
<1> QED
  BY <1>2, <1>3 DEF OneOwner, OwnerInv, Disjoint, Owned

\* No task has been handed over and none answered.
LEMMA OwnerInit == Init => OwnerInv
<1> SUFFICES ASSUME Init PROVE OwnerInv
  OBVIOUS
<1>1. Queue = {} /\ Apart
  BY DEF Init, Queue, Apart, ToSet, IsInjective
<1>2. Held = {}
  BY DEF Init, Held, NoPrompt
<1> QED
  BY <1>1, <1>2 DEF Init, OwnerInv, Disjoint, Owned, Unheard, NoPrompt

\* The types these proofs need.
OwnerTypes ==
    /\ a2a_tasks \in Seq(Tasks) /\ Queue \subseteq Tasks
    /\ pending_a2a_task_id \in Tasks \cup {NoTask} /\ active_task \in Tasks \cup {NoTask}
    /\ deferred_prompt.task_id \in Tasks \cup {NoTask}
    /\ verdict \in [Tasks -> Verdicts] /\ offered \subseteq Tasks
    /\ NoTask \notin Tasks

\* What the type invariant says of the owners.
LEMMA OwnerTyped == TypeOK => OwnerTypes
  BY PromptFields, ConstantsAssumption
  DEF TypeOK, A2aOK, IntakeOK, TurnOK, OfferedOK, Queue, ToSet, OwnerTypes

-----------------------------------------------------------------------------
(* What a step does to the tasks: one of seven moves.                      *)

\* Nothing.
Rests == UNCHANGED <<a2a_tasks, intakeVars, active_task, offered, verdict>>

\* The server hands over a new task.
Offers ==
    \E task \in Tasks \ offered :
        /\ a2a_tasks' = Append(a2a_tasks, task)
        /\ offered' = offered \cup {task}
        /\ UNCHANGED <<active_task, pending_a2a_task_id, deferred_prompt, verdict>>

\* The loop takes a task from the channel: its id is pending, or it is rejected.
Looks ==
    /\ a2a_tasks # <<>> /\ a2a_tasks' = Tail(a2a_tasks)
    /\ UNCHANGED <<deferred_prompt, active_task, offered>>
    /\ \/ /\ pending_a2a_task_id' = pending_a2a_task_id
          /\ verdict' = Tell(Head(a2a_tasks), "rejected")
       \/ pending_a2a_task_id' = Head(a2a_tasks) /\ verdict' = verdict

\* A prompt is deferred with the pending id, and supersedes the one before it.
Defers ==
    /\ UNCHANGED <<a2a_tasks, active_task, offered>>
    /\ pending_a2a_task_id' = NoTask
    /\ deferred_prompt'.task_id = pending_a2a_task_id
    /\ verdict' = Tell(deferred_prompt.task_id, "rejected")

\* The pending id is taken, for the turn that starts or for none.
Takes ==
    /\ UNCHANGED <<a2a_tasks, deferred_prompt, offered, verdict>>
    /\ pending_a2a_task_id' = NoTask
    /\ active_task' \in {active_task, pending_a2a_task_id}

\* The deferred prompt starts its turn, or goes as a command without one, or stays.
Releases(owner) ==
    /\ UNCHANGED <<a2a_tasks, pending_a2a_task_id, offered>>
    /\ \/ /\ active_task' = owner
          /\ deferred_prompt'.task_id \in {deferred_prompt.task_id, NoTask}
       \/ active_task' = deferred_prompt.task_id /\ deferred_prompt' = NoPrompt
Passes == Releases(active_task) /\ verdict' = verdict

\* The task of the turn that ended is answered.
Settles ==
    /\ Releases(NoTask)
    /\ \E what \in {"completed", "failed"} : verdict' = Tell(active_task, what)

\* Every step of the loop, the worker and the environment is one of them.
LEMMA StepMoves ==
  [Next]_vars => Rests \/ Offers \/ Looks \/ Defers \/ Takes \/ Passes \/ Settles
<1> SUFFICES ASSUME [Next]_vars
             PROVE  Rests \/ Offers \/ Looks \/ Defers \/ Takes \/ Passes \/ Settles
  OBVIOUS
<1> USE DEF Rests, intakeVars
<1>1. CASE FlushOutbox
  BY <1>1 DEF FlushOutbox, turnVars, a2aVars, envVars
<1>2. CASE DeferPrompt
  BY <1>2 DEF DeferPrompt, TakePendingId, Superseded, Defers, turnVars, a2aVars, envVars
<1>3. CASE SubmitPrompt
  BY <1>3 DEF SubmitPrompt, SlashHandle, TakePendingId, Takes, a2aVars, envVars
<1>4. CASE QueueRequest
  BY <1>4 DEF QueueRequest, turnVars, a2aVars, envVars
<1>5. CASE DispatchBlocking
  BY <1>5 DEF DispatchBlocking, turnVars, a2aVars, envVars
<1>6. CASE DispatchConcurrent
  BY <1>6 DEF DispatchConcurrent, turnVars, a2aVars, envVars
<1>7. CASE IgnoreRequest
  BY <1>7 DEF IgnoreRequest, turnVars, a2aVars, envVars
<1>8. CASE CancelRequested
  BY <1>8 DEF CancelRequested, turnVars, a2aVars, envVars
<1>9. CASE QuitLater
  BY <1>9 DEF QuitLater, turnVars, a2aVars, envVars
<1>10. CASE QuitNow
  BY <1>10 DEF QuitNow, turnVars, a2aVars, envVars
<1>11. CASE HandleWorkerResult
  <2>1. UNCHANGED <<a2a_tasks, offered, pending_a2a_task_id>>
    BY <1>11 DEF HandleWorkerResult, a2aVars
  <2>2. \E what \in {"completed", "failed"} : verdict' = Tell(active_task, what)
    BY <1>11 DEF HandleWorkerResult
  <2>3. \/ /\ active_task' = NoTask
           /\ deferred_prompt'.task_id \in {deferred_prompt.task_id, NoTask}
        \/ active_task' = deferred_prompt.task_id /\ deferred_prompt' = NoPrompt
    BY <1>11 DEF HandleWorkerResult, SlashHandle, Released, NoPrompt, NoText, StartsTurn
  <2> QED
    BY <2>1, <2>2, <2>3 DEF Settles, Releases
<1>12. CASE HandleBlockingResponse
  <2>1. UNCHANGED <<a2a_tasks, offered, pending_a2a_task_id, verdict>>
    BY <1>12 DEF HandleBlockingResponse, a2aVars, envVars
  <2>2. \/ /\ active_task' = active_task
           /\ deferred_prompt'.task_id \in {deferred_prompt.task_id, NoTask}
        \/ active_task' = deferred_prompt.task_id /\ deferred_prompt' = NoPrompt
    BY <1>12 DEF HandleBlockingResponse, SlashHandle, Released, NoPrompt, NoText, StartsTurn
  <2> QED
    BY <2>1, <2>2 DEF Passes, Releases
<1>13. CASE HandleConcurrentResponse
  BY <1>13 DEF HandleConcurrentResponse, turnVars, a2aVars, envVars
<1>14. CASE DispatchCompaction
  BY <1>14 DEF DispatchCompaction, compactionUnchanged, turnVars, a2aVars, envVars
<1>15. CASE CompactionEnded
  BY <1>15 DEF CompactionEnded, compactionUnchanged, turnVars, a2aVars, envVars
<1>16. CASE CompactionProgress
  BY <1>16 DEF CompactionProgress, compactionUnchanged, turnVars, a2aVars, envVars
<1>17. CASE HandleExternalCancel
  BY <1>17 DEF HandleExternalCancel, turnVars, a2aVars, envVars
<1>18. CASE TakeA2aTask
  BY <1>18 DEF TakeA2aTask, PendingAfter, Looks, turnVars, envVars
<1>19. CASE TakeCompletion
  BY <1>19 DEF TakeCompletion, turnVars, a2aVars, envVars
<1>20. CASE Ended
  BY <1>20 DEF Ended, turnVars, a2aVars, envVars
<1>21. CASE WorkerNext
  <2> USE DEF turnVars, a2aVars, envVars
  <2>1. CASE TakeCommand
    BY <2>1 DEF TakeCommand
  <2>2. CASE SubscribeCancel
    BY <2>2 DEF SubscribeCancel
  <2>3. ASSUME NEW ok \in BOOLEAN, EndTurn(ok) PROVE Rests
    BY <2>3 DEF EndTurn
  <2>4. CASE OpenStore
    BY <2>4 DEF OpenStore
  <2>5. CASE EndCompaction
    BY <2>5 DEF EndCompaction
  <2>6. CASE ServeRequest
    BY <2>6 DEF ServeRequest
  <2>7. CASE TurnCompaction
    BY <2>7 DEF TurnCompaction
  <2>8. CASE SummaryChunk
    BY <2>8 DEF SummaryChunk
  <2> QED
    BY <1>21, <2>1, <2>2, <2>3, <2>4, <2>5, <2>6, <2>7, <2>8 DEF WorkerNext, WorkerProgress
<1>22. CASE EnvNext
  <2>1. ASSUME NEW kind \in UiInputs, UiSend(kind) PROVE Rests
    BY <2>1 DEF UiSend, turnVars, a2aVars
  <2>2. CASE UiTurnEnded
    BY <2>2 DEF UiTurnEnded, turnVars, a2aVars
  <2>3. ASSUME NEW task \in Tasks, OfferTask(task) PROVE Offers
    BY <2>3 DEF OfferTask, Offers, turnVars
  <2>4. ASSUME NEW task \in Tasks, CancelTask(task) PROVE Rests
    BY <2>4 DEF CancelTask, turnVars
  <2>5. CASE RemoteCompletion
    BY <2>5 DEF RemoteCompletion, turnVars, a2aVars
  <2> QED
    BY <1>22, <2>1, <2>2, <2>3, <2>4, <2>5 DEF EnvNext
<1>23. CASE UNCHANGED vars
  BY <1>23 DEF vars, turnVars, a2aVars, envVars
<1> QED
  BY <1>1, <1>2, <1>3, <1>4, <1>5, <1>6, <1>7, <1>8, <1>9, <1>10, <1>11, <1>12, <1>13,
     <1>14, <1>15, <1>16, <1>17, <1>18, <1>19, <1>20, <1>21, <1>22, <1>23
  DEF Next, LoopNext

\* A move leaves each task with one owner, and an owned task without an answer.
LEMMA RestsKeeps == ASSUME OwnerInv, Rests PROVE OwnerInv'
  BY DEF OwnerInv, Apart, Disjoint, Owned, Unheard, Queue, Held, Rests, intakeVars

\* A new task waits in the channel and nowhere else.
LEMMA OffersKeeps ==
  ASSUME OwnerTypes, OwnerInv, NEW task \in Tasks \ offered,
         a2a_tasks' = Append(a2a_tasks, task), offered' = offered \cup {task},
         UNCHANGED <<active_task, pending_a2a_task_id, deferred_prompt, verdict>>
  PROVE  OwnerInv' /\ Queue' = Queue \cup {task} /\ Held' = Held /\ task \notin Queue \cup Held
<1>1. task \notin Queue /\ task \notin Held /\ verdict[task] = "none"
  BY DEF OwnerInv, Owned, Unheard
<1>2. Apart' /\ Queue' = Queue \cup {task} /\ Held' = Held
  BY <1>1, AppendNew DEF OwnerTypes, OwnerInv, Apart, Queue, Held
<1>3. Disjoint'
  BY <1>1, <1>2 DEF Disjoint, OwnerInv
<1>4. Owned' /\ Unheard'
  BY <1>1, <1>2 DEF Owned, Unheard, OwnerInv
<1> QED
  BY <1>1, <1>2, <1>3, <1>4 DEF OwnerInv

\* A task that leaves the channel had no other owner.
LEMMA LooksKeeps ==
  ASSUME OwnerTypes, OwnerInv, Looks
  PROVE  /\ OwnerInv' /\ Queue' = Queue \ {Head(a2a_tasks)}
         /\ Head(a2a_tasks) \in Queue \ Held
         /\ Held' \subseteq Held \cup {Head(a2a_tasks)}
<1> DEFINE task == Head(a2a_tasks)
<1>1. /\ a2a_tasks # <<>> /\ a2a_tasks' = Tail(a2a_tasks)
      /\ UNCHANGED <<deferred_prompt, active_task, offered>>
      /\ \/ pending_a2a_task_id' = pending_a2a_task_id /\ verdict' = Tell(task, "rejected")
         \/ pending_a2a_task_id' = task /\ verdict' = verdict
  BY DEF Looks
<1>2. Apart' /\ Queue' = Queue \ {task} /\ task \in Queue
  BY <1>1, TakeHead DEF OwnerTypes, OwnerInv, Apart, Queue
<1> HIDE DEF task
<1>3. /\ \A other \in Tasks \ {task} : verdict'[other] = verdict[other]
      /\ task \in Held' => verdict'[task] = verdict[task]
      /\ Held' \subseteq Held \cup {task}
  BY <1>1, <1>2 DEF OwnerTypes, Tell, Held, OwnerInv, Disjoint
<1>4. Held \subseteq Tasks /\ task \in Tasks /\ task \in offered /\ task \notin Held
  BY <1>2 DEF OwnerTypes, Held, OwnerInv, Owned, Disjoint
<1>5. Owned'
  BY <1>1, <1>2, <1>3, <1>4 DEF OwnerTypes, Owned, OwnerInv
<1>6. Disjoint'
  BY <1>1, <1>2, <1>3, <1>4 DEF OwnerTypes, Disjoint, OwnerInv, Held
<1>7. Unheard'
  BY <1>1, <1>3, <1>4 DEF Unheard, OwnerInv
<1> QED
  BY <1>2, <1>3, <1>4, <1>5, <1>6, <1>7 DEF OwnerInv, task

\* The id moves from the pending slot into the deferred prompt, and the superseded
\* one is answered.
LEMMA DefersKeeps == ASSUME OwnerTypes, OwnerInv, Defers PROVE OwnerInv'
<1>1. UNCHANGED Queue /\ Apart'
  BY DEF OwnerInv, Apart, Queue, Defers
<1>2. Held' \subseteq Held /\ deferred_prompt.task_id \notin Held' \cup Queue
  BY DEF Held, OwnerInv, Disjoint, OwnerTypes, Defers
<1>3. \A task \in Tasks \ {deferred_prompt.task_id} : verdict'[task] = verdict[task]
  BY DEF Tell, OwnerTypes, Defers
<1>4. Queue \cup Held \subseteq Tasks
  BY DEF Held, OwnerTypes
<1>5. Owned'
  BY <1>1, <1>2, <1>3, <1>4 DEF Owned, OwnerInv, Defers
<1>6. deferred_prompt.task_id # NoTask => deferred_prompt.task_id \in offered
  BY DEF OwnerInv, Owned, Held
<1>7. Unheard'
  BY <1>3, <1>6 DEF OwnerTypes, Unheard, OwnerInv, Defers
<1>8. Disjoint'
  BY <1>1, <1>2 DEF Disjoint, OwnerInv, Defers
<1> QED
  BY <1>1, <1>5, <1>7, <1>8 DEF OwnerInv

\* The id moves from the pending slot into the turn, or is lost.
LEMMA TakesKeeps == ASSUME OwnerTypes, OwnerInv, Takes PROVE OwnerInv'
<1>1. UNCHANGED Queue /\ Apart' /\ Held' \subseteq Held
  BY DEF OwnerInv, Apart, Queue, Held, Takes
<1>2. Disjoint'
  BY <1>1 DEF OwnerInv, Disjoint, OwnerTypes, Takes
<1>3. Owned' /\ Unheard'
  BY <1>1 DEF OwnerInv, Owned, Unheard, Takes
<1> QED
  BY <1>1, <1>2, <1>3 DEF OwnerInv

\* The id moves from the deferred prompt into the turn, or is lost.
LEMMA PassesKeeps == ASSUME OwnerTypes, OwnerInv, Passes PROVE OwnerInv'
<1> USE DEF Passes, Releases
<1>1. UNCHANGED Queue /\ Apart' /\ Held' \subseteq Held
  BY DEF OwnerInv, Apart, Queue, Held, NoPrompt
<1>2. Disjoint'
  BY <1>1 DEF OwnerInv, Disjoint, OwnerTypes, NoPrompt
<1>3. Owned' /\ Unheard'
  BY <1>1 DEF OwnerInv, Owned, Unheard
<1> QED
  BY <1>1, <1>2, <1>3 DEF OwnerInv

\* The task of the ended turn has no owner any more, and the next one none but the
\* turn.
LEMMA SettlesKeeps ==
  ASSUME OwnerTypes, OwnerInv, Settles
  PROVE  OwnerInv' /\ Queue' = Queue /\ Held' \subseteq Held \ {active_task}
<1> USE DEF Settles, Releases
<1>1. UNCHANGED Queue /\ Apart' /\ Held' \subseteq Held \ {active_task}
  BY DEF OwnerInv, Apart, Queue, Held, NoPrompt, Disjoint
<1>2. Disjoint'
  BY <1>1 DEF OwnerInv, Disjoint, OwnerTypes, NoPrompt
<1>3. \A task \in Tasks \ {active_task} : verdict'[task] = verdict[task]
  BY DEF Tell, OwnerTypes
<1>4. active_task # NoTask => active_task \in offered /\ active_task \notin Queue
  BY DEF OwnerInv, Owned, Held, Disjoint
<1>5. Held \subseteq Tasks /\ Queue \subseteq Tasks /\ NoTask \notin Held
  BY DEF Held, OwnerTypes
<1>6. Owned'
  BY <1>1, <1>3, <1>4, <1>5 DEF OwnerInv, Owned, OwnerTypes
<1>7. Unheard'
  BY <1>3, <1>4 DEF OwnerInv, Unheard, OwnerTypes
<1> QED
  BY <1>1, <1>2, <1>6, <1>7 DEF OwnerInv

\* Every step keeps the invariant.
LEMMA OwnerStep == TypeOK /\ OwnerInv /\ [Next]_vars => OwnerInv'
<1> SUFFICES ASSUME TypeOK, OwnerInv, [Next]_vars PROVE OwnerInv'
  OBVIOUS
<1>1. OwnerTypes
  BY OwnerTyped
<1>2. CASE Offers
  BY <1>1, <1>2, OffersKeeps DEF Offers
<1> QED
  BY <1>1, <1>2, StepMoves, RestsKeeps, LooksKeeps, DefersKeeps, TakesKeeps, PassesKeeps,
     SettlesKeeps

\* Whatever the order of prompts, deferrals, refusals and outcomes, a task id is in
\* one place only: the channel, the pending id, the deferred prompt or the turn.
THEOREM TasksHaveOneOwner == Spec => []OneOwner
<1> QED
  BY TypeInit, TypeStep, OwnerInit, OwnerStep, OwnersApart, PTL DEF Spec

\* No later outcome, deferral or refusal tells anything else about an answered task.
LEMMA VerdictStays ==
  ASSUME TypeOK, OwnerInv, [Next]_vars, NEW task \in Tasks, verdict[task] # "none"
  PROVE  verdict'[task] = verdict[task]
<1>1. OwnerTypes
  BY OwnerTyped
<1>2. task \notin Queue \cup Held
  BY DEF OwnerInv, Owned
<1>3. task # active_task /\ task # deferred_prompt.task_id
  BY <1>1, <1>2 DEF Held, OwnerTypes
<1>4. CASE Looks
  <2>1. task # Head(a2a_tasks)
    BY <1>1, <1>2, <1>4, LooksKeeps
  <2> QED
    BY <1>1, <1>4, <2>1 DEF Looks, Tell, OwnerTypes
<1>5. CASE Defers
  BY <1>1, <1>3, <1>5 DEF Defers, Tell, OwnerTypes
<1>6. CASE Settles
  BY <1>1, <1>3, <1>6 DEF Settles, Tell, OwnerTypes
<1>7. Rests \/ Offers \/ Takes \/ Passes => verdict' = verdict
  BY DEF Rests, Offers, Takes, Passes
<1> QED
  BY StepMoves, <1>4, <1>5, <1>6, <1>7

\* After the loop has completed, failed or rejected a task nothing else is told about
\* it: every later step of every handler leaves its verdict alone.
THEOREM TasksAnsweredOnce == Spec => AnsweredOnce
<1>1. TypeOK /\ OwnerInv /\ [Next]_vars
        => [\A task \in Tasks : verdict[task] # "none" => verdict'[task] = verdict[task]]_vars
  BY VerdictStays
<1> QED
  BY <1>1, TypeInit, TypeStep, OwnerInit, OwnerStep, PTL DEF Spec, AnsweredOnce

-----------------------------------------------------------------------------
(* The orchestrator implements TaskIntake.                                 *)

\* One task moves along its lifecycle, or stays.
Along(s, t) ==
    \/ s = t
    \/ s = "unknown" /\ t = "waiting"
    \/ s = "waiting" /\ t \in {"running", "rejected", "dropped"}
    \/ s = "running" /\ t \in {"completed", "failed", "dropped"}

\* These are moves of TaskIntake.
LEMMA AlongIsLifecycle ==
  ASSUME NEW s, NEW t, Along(s, t)
  PROVE  s = t \/ <<s, t>> \in Intake!Lifecycle
  BY DEF Along, Intake!Lifecycle

\* The status of a task, read off what owns it.
StatusRead(task) ==
    /\ task \notin offered => TaskStatus(task) = "unknown"
    /\ task \in offered /\ verdict[task] # "none" => TaskStatus(task) = verdict[task]
    /\ task = active_task => TaskStatus(task) = "running"
    /\ task \in Queue \cup {pending_a2a_task_id, deferred_prompt.task_id}
          => TaskStatus(task) = "waiting"
    /\ task \in offered /\ verdict[task] = "none" /\ task \notin Queue \cup Held
          => TaskStatus(task) = "dropped"
StatusReads == \A task \in Tasks : StatusRead(task)

\* A task's owner decides its status.
LEMMA StatusOf == OwnerTypes /\ OwnerInv => StatusReads
<1> SUFFICES ASSUME OwnerTypes, OwnerInv, NEW task \in Tasks PROVE StatusRead(task)
  BY DEF StatusReads
<1>1. Waiting = Queue
  BY DEF Waiting, Queue, ToSet
<1>2. task \in Queue \cup Held => task \in offered /\ verdict[task] = "none"
  BY DEF OwnerInv, Owned
<1>3. task \in {active_task, pending_a2a_task_id, deferred_prompt.task_id} <=> task \in Held
  BY DEF Held, OwnerTypes
<1>4. task = active_task => task \notin Queue \cup {pending_a2a_task_id, deferred_prompt.task_id}
  BY DEF Held, OwnerInv, Disjoint, OwnerTypes
<1> QED
  BY <1>1, <1>2, <1>3, <1>4 DEF TaskStatus, StatusRead

\* Every step moves every task along its lifecycle.
LEMMA StatusMoves ==
  ASSUME TypeOK, OwnerInv, TypeOK', OwnerInv', [Next]_vars, NEW task \in Tasks
  PROVE  Along(TaskStatus(task), TaskStatus(task)')
<1>1. OwnerTypes /\ OwnerTypes'
  BY OwnerTyped, PTL
<1>2. StatusReads /\ StatusReads'
  BY <1>1, StatusOf, PTL
<1>3. StatusRead(task) /\ StatusRead(task)'
  BY <1>2 DEF StatusReads
<1>4. verdict[task] # "none" => verdict'[task] = verdict[task]
  BY VerdictStays
<1>5. offered \subseteq offered'
  BY StepMoves DEF Rests, Offers, Looks, Defers, Takes, Passes, Settles, Releases
<1>6. CASE verdict[task] # "none"
  <2>1. task \in offered
    BY <1>6 DEF OwnerInv, Unheard
  <2> QED
    BY <1>3, <1>4, <1>5, <1>6, <2>1 DEF StatusRead, Along
<1>7. CASE verdict[task] = "none" /\ task \notin offered
  <2>1. Offers => task \notin offered' \/ task \in Queue'
    <3> SUFFICES ASSUME Offers, task \in offered' PROVE task \in Queue'
      OBVIOUS
    <3>1. PICK other \in Tasks \ offered :
             /\ a2a_tasks' = Append(a2a_tasks, other) /\ offered' = offered \cup {other}
             /\ UNCHANGED <<active_task, pending_a2a_task_id, deferred_prompt, verdict>>
      BY DEF Offers
    <3>2. Queue' = Queue \cup {other}
      BY <1>1, <3>1, OffersKeeps
    <3> QED
      BY <1>7, <3>1, <3>2
  <2>2. ~Offers => offered' = offered
    BY StepMoves DEF Rests, Looks, Defers, Takes, Passes, Settles, Releases
  <2> QED
    BY <1>3, <1>7, <2>1, <2>2 DEF StatusRead, Along
<1>8. CASE verdict[task] = "none" /\ task \in offered
  <2> USE <1>1, <1>3, <1>5, <1>8 DEF StatusRead, Along
  <2>1. CASE Rests
    BY <2>1 DEF Rests, TaskStatus, Waiting, Held, intakeVars
  <2>2. CASE Offers
    <3>1. task \in Queue' <=> task \in Queue
      BY <2>2, OffersKeeps DEF Offers
    <3> QED
      BY <2>2, <3>1 DEF Offers, Held
  <2>3. CASE Looks
    BY <2>3, LooksKeeps DEF Looks, Held, Tell, OwnerTypes, OwnerInv, Disjoint
  <2>4. CASE Defers
    BY <2>4 DEF Defers, Held, Tell, OwnerTypes, OwnerInv, Disjoint, Queue
  <2>5. CASE Takes
    BY <2>5 DEF Takes, Held, OwnerTypes, OwnerInv, Disjoint, Queue
  <2>6. CASE Passes
    BY <2>6 DEF Passes, Releases, Held, NoPrompt, OwnerTypes, OwnerInv, Disjoint, Queue
  <2>7. CASE Settles
    BY <2>7 DEF Settles, Releases, Held, NoPrompt, Tell, OwnerTypes, OwnerInv, Disjoint, Queue
  <2> QED
    BY StepMoves, <2>1, <2>2, <2>3, <2>4, <2>5, <2>6, <2>7
<1> QED
  BY <1>6, <1>7, <1>8

\* The orchestrator's steps are steps of TaskIntake.
LEMMA StepRefines ==
  TypeOK /\ OwnerInv /\ TypeOK' /\ OwnerInv' /\ [Next]_vars
    => [Intake!Next]_[task \in Tasks |-> TaskStatus(task)]
<1> SUFFICES ASSUME TypeOK, OwnerInv, TypeOK', OwnerInv', [Next]_vars
             PROVE  Intake!Next
  OBVIOUS
<1>1. OwnerTypes /\ OwnerTypes'
  BY OwnerTyped, PTL
<1> DEFINE status == [task \in Tasks |-> TaskStatus(task)]
<1>2. \A task \in Tasks : TaskStatus(task)' \in Intake!Status
  BY <1>1 DEF OwnerTypes, Verdicts, TaskStatus, Intake!Status
<1>3. status' \in [Tasks -> Intake!Status]
  BY <1>2
<1>4. Intake!Moves(status')
  <2> SUFFICES ASSUME NEW task \in Tasks
               PROVE  \/ status'[task] = status[task]
                      \/ <<status[task], status'[task]>> \in Intake!Lifecycle
    BY DEF Intake!Moves
  <2>1. Along(status[task], status'[task])
    BY StatusMoves
  <2> QED
    BY <2>1, AlongIsLifecycle
<1>5. Intake!AtMostOneRuns(status')
  <2>1. \A a, b \in Tasks : TaskStatus(a)' = "running" /\ TaskStatus(b)' = "running" => a = b
    BY <1>1 DEF OwnerTypes, Verdicts, TaskStatus
  <2> QED
    BY <2>1 DEF Intake!AtMostOneRuns
<1> QED
  BY <1>3, <1>4, <1>5 DEF Intake!Next

\* No task is known when the loop starts.
LEMMA InitRefines == Init => Intake!Init
<1> SUFFICES ASSUME Init, NEW task \in Tasks PROVE TaskStatus(task) = "unknown"
  BY DEF Intake!Init
<1> QED
  BY DEF Init, TaskStatus

\* Whatever the bounds, the loop moves every task along the lifecycle TaskIntake
\* states: no task is completed without having run, none runs after its answer.
THEOREM FollowsTaskIntake == Spec => TasksFollowIntake
<1> QED
  BY InitRefines, StepRefines, TypeInit, TypeStep, OwnerInit, OwnerStep, PTL
  DEF Spec, TasksFollowIntake, Intake!Spec

-----------------------------------------------------------------------------
(* A cancel held back is never the cancel of the running task.             *)

\* The slash stage uses the cancel of the task whose turn it starts.
LEMMA SlashKeepsCancel ==
  ASSUME CancelNotStranded, NEW text, NEW task, NEW active, NEW owner \in {active_task, NoTask},
         SlashHandle(text, task, active, owner)
  PROVE  CancelNotStranded'
  BY DEF CancelNotStranded, SlashHandle, EarlyCancel

\* So does every other step: only a cancel of another task is held back.
LEMMA CancelStep == CancelNotStranded /\ [Next]_vars => CancelNotStranded'
<1> SUFFICES ASSUME CancelNotStranded, [Next]_vars PROVE CancelNotStranded'
  OBVIOUS
<1> USE DEF CancelNotStranded, turnVars
<1>1. CASE FlushOutbox
  BY <1>1 DEF FlushOutbox
<1>2. CASE DeferPrompt
  BY <1>2 DEF DeferPrompt
<1>3. CASE SubmitPrompt
  BY <1>3, SlashKeepsCancel DEF SubmitPrompt
<1>4. CASE QueueRequest
  BY <1>4 DEF QueueRequest
<1>5. CASE DispatchBlocking
  BY <1>5 DEF DispatchBlocking
<1>6. CASE DispatchConcurrent
  BY <1>6 DEF DispatchConcurrent
<1>7. CASE IgnoreRequest
  BY <1>7 DEF IgnoreRequest
<1>8. CASE CancelRequested
  BY <1>8 DEF CancelRequested
<1>9. CASE QuitLater
  BY <1>9 DEF QuitLater
<1>10. CASE QuitNow
  BY <1>10 DEF QuitNow
<1>11. CASE HandleWorkerResult
  BY <1>11, SlashKeepsCancel DEF HandleWorkerResult
<1>12. CASE HandleBlockingResponse
  BY <1>12, SlashKeepsCancel DEF HandleBlockingResponse
<1>13. CASE HandleConcurrentResponse
  BY <1>13 DEF HandleConcurrentResponse
<1>14. CASE DispatchCompaction
  BY <1>14 DEF DispatchCompaction, compactionUnchanged
<1>15. CASE CompactionEnded
  BY <1>15 DEF CompactionEnded, compactionUnchanged
<1>16. CASE CompactionProgress
  BY <1>16 DEF CompactionProgress, compactionUnchanged
<1>17. CASE HandleExternalCancel
  BY <1>17 DEF HandleExternalCancel
<1>18. CASE TakeA2aTask
  BY <1>18 DEF TakeA2aTask
<1>19. CASE TakeCompletion
  BY <1>19 DEF TakeCompletion
<1>20. CASE Ended
  BY <1>20 DEF Ended
<1>21. CASE WorkerNext
  <2>1. CASE TakeCommand
    BY <2>1 DEF TakeCommand
  <2>2. CASE SubscribeCancel
    BY <2>2 DEF SubscribeCancel
  <2>3. ASSUME NEW ok \in BOOLEAN, EndTurn(ok) PROVE CancelNotStranded'
    BY <2>3 DEF EndTurn
  <2>4. CASE OpenStore
    BY <2>4 DEF OpenStore
  <2>5. CASE EndCompaction
    BY <2>5 DEF EndCompaction
  <2>6. CASE ServeRequest
    BY <2>6 DEF ServeRequest
  <2>7. CASE TurnCompaction
    BY <2>7 DEF TurnCompaction
  <2>8. CASE SummaryChunk
    BY <2>8 DEF SummaryChunk
  <2> QED
    BY <1>21, <2>1, <2>2, <2>3, <2>4, <2>5, <2>6, <2>7, <2>8 DEF WorkerNext, WorkerProgress
<1>22. CASE EnvNext
  <2>1. ASSUME NEW kind \in UiInputs, UiSend(kind) PROVE CancelNotStranded'
    BY <2>1 DEF UiSend
  <2>2. CASE UiTurnEnded
    BY <2>2 DEF UiTurnEnded
  <2>3. ASSUME NEW task \in Tasks, OfferTask(task) \/ CancelTask(task) PROVE CancelNotStranded'
    BY <2>3 DEF OfferTask, CancelTask
  <2>4. CASE RemoteCompletion
    BY <2>4 DEF RemoteCompletion
  <2> QED
    BY <1>22, <2>1, <2>2, <2>3, <2>4 DEF EnvNext
<1>23. CASE UNCHANGED vars
  BY <1>23 DEF vars
<1> QED
  BY <1>1, <1>2, <1>3, <1>4, <1>5, <1>6, <1>7, <1>8, <1>9, <1>10, <1>11, <1>12, <1>13,
     <1>14, <1>15, <1>16, <1>17, <1>18, <1>19, <1>20, <1>21, <1>22, <1>23
  DEF Next, LoopNext

\* Whichever of the prompt and the cancel comes first, the slot never keeps the
\* cancel of the task whose turn runs.
THEOREM CancelsReachTheirTurn == Spec => []CancelNotStranded
<1>1. Init => CancelNotStranded
  BY DEF Init, CancelNotStranded
<1> QED
  BY <1>1, CancelStep, PTL DEF Spec

-----------------------------------------------------------------------------
(* The flags of the loop are backed by work that will clear them.          *)

\* The worker still owes a command of this kind: its job, one in the channel, or
\* one a parked handler holds.
Has(cmds, kind) == \E i \in DOMAIN cmds : cmds[i].kind = kind
Owes(kind) == job.kind = kind \/ Has(commands, kind) \/ Has(outbox, kind)

\* A turn or compaction the worker runs is its job, and an idle worker has none.
JobFits ==
    /\ phase \in {"starting", "listening"} => job.kind = "turn"
    /\ phase \in {"opening", "summarizing"} => job.kind = "compact"
    /\ phase = "serving" => job.kind = "request"
    /\ phase = "idle" => job.kind = "idle"
EndReported == \E i \in DOMAIN compactions : compactions[i] = "ended"
TurnBacked == loop = "running" /\ worker_active => Owes("turn") \/ worker_results # <<>>
RunBacked ==
    loop = "running" /\ compaction_active =>
        Owes("compact") \/ EndReported \/ lagged \/ silent
WorkInv == JobFits /\ TurnBacked /\ RunBacked

LEMMA Joined ==
  ASSUME NEW S, NEW s \in Seq(S), NEW t \in Seq(S)
  PROVE  /\ Len(s \o t) = Len(s) + Len(t) /\ DOMAIN (s \o t) = 1..Len(s \o t)
         /\ \A i \in 1..Len(s \o t) : (s \o t)[i] = IF i <= Len(s) THEN s[i] ELSE t[i - Len(s)]
  OBVIOUS

\* What the worker owes is in its backlog.
LEMMA BacklogOwes ==
  ASSUME TypeOK, NEW kind
  PROVE  Owes(kind) <=> \E i \in DOMAIN Backlog : Backlog[i].kind = kind
<1>1. commands \in Seq(WorkerCommand) /\ outbox \in Seq(WorkerCommand)
      /\ job \in WorkerCommand \cup {NoJob}
  BY DEF TypeOK, CommandsOK, RuntimeOK
<1>2. <<job>> \in Seq(WorkerCommand \cup {NoJob}) /\ Len(<<job>>) = 1
  BY <1>1
<1>3. /\ commands \in Seq(WorkerCommand \cup {NoJob})
      /\ outbox \in Seq(WorkerCommand \cup {NoJob})
  BY <1>1
<1> DEFINE front == <<job>> \o commands
<1>4. /\ front \in Seq(WorkerCommand \cup {NoJob})
      /\ Len(front) = 1 + Len(commands)
      /\ \A i \in 1..Len(front) : front[i] = IF i = 1 THEN job ELSE commands[i - 1]
  BY ONLY <1>2, <1>3
<1> HIDE DEF front
<1>5. /\ Len(front \o outbox) = 1 + Len(commands) + Len(outbox)
      /\ \A i \in 1..Len(front \o outbox) :
            (front \o outbox)[i] = IF i <= Len(front) THEN front[i]
                                   ELSE outbox[i - Len(front)]
      /\ DOMAIN (front \o outbox) = 1..Len(front \o outbox)
  <2>1. /\ Len(front \o outbox) = Len(front) + Len(outbox)
        /\ \A i \in 1..Len(front \o outbox) :
              (front \o outbox)[i] = IF i <= Len(front) THEN front[i]
                                     ELSE outbox[i - Len(front)]
        /\ DOMAIN (front \o outbox) = 1..Len(front \o outbox)
    BY ONLY <1>3, <1>4, Joined
  <2> QED
    BY ONLY <1>4, <2>1
<1>6. Backlog = front \o outbox
  BY DEF Backlog, front
<1>7. Owes(kind) => \E i \in DOMAIN Backlog : Backlog[i].kind = kind
  <2>1. CASE job.kind = kind
    <3>1. 1 \in DOMAIN Backlog /\ Backlog[1] = job
      BY <1>1, <1>4, <1>5, <1>6
    <3> QED
      BY <2>1, <3>1
  <2>2. CASE Has(commands, kind)
    <3>1. PICK i \in DOMAIN commands : commands[i].kind = kind
      BY <2>2 DEF Has
    <3>2. i + 1 \in DOMAIN Backlog /\ Backlog[i + 1] = commands[i]
      BY <1>1, <1>4, <1>5, <1>6
    <3> QED
      BY <3>1, <3>2
  <2>3. CASE Has(outbox, kind)
    <3>1. PICK i \in DOMAIN outbox : outbox[i].kind = kind
      BY <2>3 DEF Has
    <3>2. /\ i + 1 + Len(commands) \in DOMAIN Backlog
          /\ Backlog[i + 1 + Len(commands)] = outbox[i]
      BY <1>1, <1>4, <1>5, <1>6
    <3> QED
      BY <3>1, <3>2
  <2> QED
    BY <2>1, <2>2, <2>3 DEF Owes
<1>8. ASSUME NEW i \in DOMAIN Backlog, Backlog[i].kind = kind PROVE Owes(kind)
  <2>1. CASE i = 1
    BY <1>1, <1>4, <1>5, <1>6, <1>8, <2>1 DEF Owes
  <2>2. CASE i # 1 /\ i <= Len(front)
    <3>1. i - 1 \in DOMAIN commands /\ commands[i - 1] = Backlog[i]
      BY <1>1, <1>4, <1>5, <1>6, <2>2
    <3> QED
      BY <1>8, <3>1 DEF Owes, Has
  <2>3. CASE i > Len(front)
    <3>1. i - Len(front) \in DOMAIN outbox /\ outbox[i - Len(front)] = Backlog[i]
      BY <1>1, <1>4, <1>5, <1>6, <2>3
    <3> QED
      BY <1>8, <3>1 DEF Owes, Has
  <2>4. i \in Nat /\ Len(front) \in Nat
    BY <1>1, <1>4, <1>5, <1>6
  <2> QED
    BY <2>1, <2>2, <2>3, <2>4
<1> QED
  BY <1>7, <1>8

\* The commands of two channels together.
LEMMA HasConcat ==
  ASSUME NEW c \in Seq(WorkerCommand), NEW d \in Seq(WorkerCommand), NEW kind
  PROVE  Has(c \o d, kind) <=> Has(c, kind) \/ Has(d, kind)
<1>1. /\ DOMAIN (c \o d) = 1..(Len(c) + Len(d))
      /\ \A i \in 1..(Len(c) + Len(d)) :
            (c \o d)[i] = IF i <= Len(c) THEN c[i] ELSE d[i - Len(c)]
  OBVIOUS
<1>2. Has(c \o d, kind) => Has(c, kind) \/ Has(d, kind)
  BY <1>1 DEF Has
<1>3. Has(c, kind) => Has(c \o d, kind)
  BY <1>1 DEF Has
<1>4. ASSUME NEW i \in DOMAIN d, d[i].kind = kind PROVE Has(c \o d, kind)
  <2>1. i + Len(c) \in DOMAIN (c \o d) /\ (c \o d)[i + Len(c)] = d[i]
    BY <1>1
  <2> QED
    BY <1>4, <2>1 DEF Has
<1> QED
  BY <1>2, <1>3, <1>4 DEF Has

\* A channel something was sent on is not empty.
LEMMA AppendFills ==
  ASSUME NEW S, NEW ch \in Seq(S), NEW message
  PROVE  Append(ch, message) # <<>>
<1>1. Len(Append(ch, message)) = Len(ch) + 1 /\ Len(ch) \in Nat
  OBVIOUS
<1>2. Len(<<>>) = 0
  OBVIOUS
<1> QED
  BY <1>1, <1>2

\* Appending a command adds its kind.
LEMMA HasAppend ==
  ASSUME NEW c \in Seq(WorkerCommand), NEW cmd \in WorkerCommand, NEW kind
  PROVE  Has(Append(c, cmd), kind) <=> Has(c, kind) \/ cmd.kind = kind
<1>1. /\ DOMAIN Append(c, cmd) = 1..(Len(c) + 1)
      /\ \A i \in 1..(Len(c) + 1) : Append(c, cmd)[i] = IF i <= Len(c) THEN c[i] ELSE cmd
  OBVIOUS
<1>2. Len(c) + 1 \in DOMAIN Append(c, cmd) /\ Append(c, cmd)[Len(c) + 1] = cmd
  BY <1>1
<1> QED
  BY <1>1, <1>2 DEF Has

\* The head and the tail of a channel make it up.
LEMMA HasTail ==
  ASSUME NEW c \in Seq(WorkerCommand), c # <<>>, NEW kind
  PROVE  Has(c, kind) <=> Head(c).kind = kind \/ Has(Tail(c), kind)
<1>1. \A i \in DOMAIN c : i = 1 \/ (i - 1 \in DOMAIN Tail(c) /\ Tail(c)[i - 1] = c[i])
  OBVIOUS
<1>2. \A i \in DOMAIN Tail(c) : i + 1 \in DOMAIN c /\ c[i + 1] = Tail(c)[i]
  OBVIOUS
<1>3. 1 \in DOMAIN c /\ c[1] = Head(c)
  OBVIOUS
<1> QED
  BY <1>1, <1>2, <1>3 DEF Has

\* A handler that polls owes afterwards what it owed and what it sends.
LEMMA FinishOwes ==
  ASSUME CommandsOK, outbox = <<>>, job' = job, NEW cmds \in Seq(WorkerCommand), NEW break,
         Finish(break, cmds), NEW kind, Owes(kind) \/ Has(cmds, kind)
  PROVE  Owes(kind)'
<1> DEFINE sent == IF break THEN Append(cmds, Shutdown) ELSE cmds
<1>1. sent \in Seq(WorkerCommand) /\ (Has(cmds, kind) => Has(sent, kind))
  BY CommandTypes, HasAppend
<1>2. ~Has(outbox, kind)
  BY DEF Has
<1>3. \/ commands' = commands \o sent
      \/ commands' = commands /\ outbox' = sent
  BY DEF Finish, Send
<1> HIDE DEF sent
<1>4. commands \in Seq(WorkerCommand)
  BY DEF CommandsOK
<1>5. CASE commands' = commands \o sent
  <2>1. Has(commands', kind) <=> Has(commands, kind) \/ Has(sent, kind)
    BY <1>1, <1>4, <1>5, HasConcat
  <2> QED
    BY <1>1, <1>2, <2>1 DEF Owes, Has
<1>6. CASE commands' = commands /\ outbox' = sent
  BY <1>1, <1>2, <1>6 DEF Owes, Has
<1> QED
  BY <1>3, <1>5, <1>6

\* The bus keeps the report of an end, or is known to have skipped a message.
LEMMA PublishReports ==
  ASSUME BusOK, NEW event \in CompactionEvent, Publish(event),
         EndReported \/ lagged \/ silent \/ event = "ended"
  PROVE  (EndReported \/ lagged \/ silent)'
<1>1. compactions \in Seq(CompactionEvent)
  BY DEF BusOK
<1>2. CASE Len(compactions) = BUS_CAPACITY
  <2>1. lagged' = (lagged \/ Len(compactions) = BUS_CAPACITY)
    BY Zenon DEF Publish
  <2>2. lagged' = TRUE
    BY <1>2, <2>1, Zenon
  <2> QED
    BY <2>2
<1>3. CASE Len(compactions) # BUS_CAPACITY
  <2>1. compactions' = Append(compactions, event) /\ silent' = silent
    BY <1>3 DEF Publish
  <2>0. lagged => lagged'
    BY Zenon DEF Publish
  <2>2. \A i \in DOMAIN compactions : i \in DOMAIN compactions' /\ compactions'[i] = compactions[i]
    BY <1>1, <2>1
  <2>3. Len(compactions) + 1 \in DOMAIN compactions' /\ compactions'[Len(compactions) + 1] = event
    BY <1>1, <2>1
  <2> QED
    BY <2>0, <2>1, <2>2, <2>3 DEF EndReported
<1> QED
  BY <1>2, <1>3

\* So does the slash stage, which may publish a request.
LEMMA SlashReports ==
  ASSUME BusOK, NEW text, NEW task, NEW active, NEW owner,
         SlashHandle(text, task, active, owner), EndReported \/ lagged \/ silent
  PROVE  (EndReported \/ lagged \/ silent)'
<1>1. CASE text.kind = "compact"
  BY <1>1, PublishReports DEF SlashHandle, CompactionEvent
<1>2. CASE text.kind # "compact"
  BY <1>2 DEF SlashHandle, busVars, EndReported
<1> QED
  BY <1>1, <1>2

\* A step that touches neither the loop's flags nor what backs them.
LEMMA WorkFrame ==
  ASSUME WorkInv, UNCHANGED <<loop, worker_active, compaction_active, worker_results, compactions,
                              lagged, silent, commands, outbox, phase, job>>
  PROVE  WorkInv'
  BY DEF WorkInv, JobFits, TurnBacked, RunBacked, Owes, Has, EndReported

\* A prompt is sent as a turn.
LEMMA SlashStarts ==
  ASSUME NEW text \in Text \cup {NoText}, NEW task, StartsTurn(text)
  PROVE  Has(SlashCommands(text, task), "turn")
  BY DEF StartsTurn, SlashCommands, Has, ExecuteTurn

\* A handler that only sends commands keeps the invariant.
LEMMA Sends ==
  ASSUME WorkInv, CommandsOK, outbox = <<>>, NEW break, NEW cmds \in Seq(WorkerCommand),
         Finish(break, cmds), loop = "running",
         UNCHANGED <<worker_active, compaction_active, worker_results, compactions, lagged,
                     silent, phase, job>>
  PROVE  WorkInv'
<1>1. \A kind : Owes(kind) => Owes(kind)'
  BY FinishOwes
<1> QED
  BY <1>1 DEF WorkInv, JobFits, TurnBacked, RunBacked, EndReported

\* Taking another message leaves the report of an end on the bus.
LEMMA OthersStay ==
  ASSUME BusOK, compactions # <<>>, Head(compactions) # "ended",
         compactions' = Tail(compactions), EndReported
  PROVE  EndReported'
<1>1. PICK i \in DOMAIN compactions : compactions[i] = "ended"
  BY DEF EndReported
<1>2. i - 1 \in DOMAIN Tail(compactions) /\ Tail(compactions)[i - 1] = "ended"
  BY <1>1 DEF BusOK
<1> QED
  BY <1>2 DEF EndReported

\* Every step keeps the flags backed.
LEMMA WorkStep == TypeOK /\ WorkInv /\ [Next]_vars => WorkInv'
<1> SUFFICES ASSUME TypeOK, WorkInv, [Next]_vars PROVE WorkInv'
  OBVIOUS
<1> USE DEF turnVars, intakeVars, compactVars, stageVars, replyVars, runtimeVars, busVars,
            envVars, uiVars
<1>0. /\ CommandsOK /\ BusOK /\ worker_results \in Seq(TurnOutcome)
      /\ commands \in Seq(WorkerCommand) /\ outbox \in Seq(WorkerCommand)
  BY DEF TypeOK, CommandsOK, ResultsOK
<1>1. CASE FlushOutbox
  <2>1. /\ commands' = Append(commands, Head(outbox)) /\ outbox # <<>> /\ outbox' = Tail(outbox)
        /\ UNCHANGED <<loop, worker_active, compaction_active, worker_results, compactions,
                       lagged, silent, phase, job>>
    BY <1>1 DEF FlushOutbox
  <2>2. Head(outbox) \in WorkerCommand
    BY <1>0, <2>1
  <2>3. ASSUME NEW kind PROVE Owes(kind)' <=> Owes(kind)
    <3>1. Has(commands', kind) <=> Has(commands, kind) \/ Head(outbox).kind = kind
      BY <1>0, <2>1, <2>2, HasAppend
    <3>2. Has(outbox, kind) <=> Head(outbox).kind = kind \/ Has(outbox', kind)
      BY <1>0, <2>1, HasTail
    <3>3. Owes(kind)' <=> job.kind = kind \/ Has(commands', kind) \/ Has(outbox', kind)
      BY <2>1 DEF Owes, Has
    <3> QED
      BY <3>1, <3>2, <3>3 DEF Owes
  <2> QED
    BY <2>1, <2>3 DEF WorkInv, JobFits, TurnBacked, RunBacked, EndReported
<1>2. CASE DeferPrompt
  BY <1>2, WorkFrame DEF DeferPrompt
<1>3. CASE SubmitPrompt
  <2> DEFINE text == Head(events).text
             cmds == SlashCommands(text, pending_a2a_task_id)
  <2>1. /\ SlashHandle(text, pending_a2a_task_id, worker_active, active_task)
        /\ Finish(FALSE, cmds) /\ outbox = <<>> /\ loop = "running"
        /\ UNCHANGED <<compaction_active, worker_results, phase, job>>
    BY <1>3 DEF SubmitPrompt, Got, Polling
  <2>2. text \in Text /\ pending_a2a_task_id \in Tasks \cup {NoTask}
    BY <1>3, TakeEvent, EventFields DEF SubmitPrompt, Got, TypeOK, IntakeOK, EventsOK
  <2>3. cmds \in Seq(WorkerCommand) /\ (StartsTurn(text) => Has(cmds, "turn"))
    BY <2>2, SlashCommandsType, SlashStarts
  <2> HIDE DEF text, cmds
  <2>4. \A kind : Owes(kind) \/ Has(cmds, kind) => Owes(kind)'
    BY <1>0, <2>1, <2>3, FinishOwes
  <2>5. TurnBacked'
    BY <2>1, <2>3, <2>4 DEF SlashHandle, WorkInv, TurnBacked
  <2>6. RunBacked'
    BY <1>0, <2>1, <2>4, SlashReports DEF WorkInv, RunBacked
  <2> QED
    BY <2>1, <2>5, <2>6 DEF WorkInv, JobFits
<1>4. CASE QueueRequest
  BY <1>4, WorkFrame DEF QueueRequest
<1>5. CASE DispatchBlocking
  <2>1. /\ Finish(FALSE, <<HandleUiRequest(Head(events).request)>>) /\ outbox = <<>>
        /\ loop = "running"
        /\ UNCHANGED <<worker_active, compaction_active, worker_results, compactions, lagged,
                       silent, phase, job>>
    BY <1>5 DEF DispatchBlocking, Got, Polling
  <2>2. <<HandleUiRequest(Head(events).request)>> \in Seq(WorkerCommand)
    BY <1>5, TakeEvent, EventFields, CommandTypes DEF DispatchBlocking, Got, TypeOK, EventsOK
  <2> QED
    BY <1>0, <2>1, <2>2, Sends
<1>6. CASE DispatchConcurrent
  <2>1. /\ Finish(FALSE, <<HandleUiRequest(Head(events).request)>>) /\ outbox = <<>>
        /\ loop = "running"
        /\ UNCHANGED <<worker_active, compaction_active, worker_results, compactions, lagged,
                       silent, phase, job>>
    BY <1>6 DEF DispatchConcurrent, Got, Polling
  <2>2. <<HandleUiRequest(Head(events).request)>> \in Seq(WorkerCommand)
    BY <1>6, TakeEvent, EventFields, CommandTypes DEF DispatchConcurrent, Got, TypeOK, EventsOK
  <2> QED
    BY <1>0, <2>1, <2>2, Sends
<1>7. CASE IgnoreRequest
  BY <1>7, WorkFrame DEF IgnoreRequest
<1>8. CASE CancelRequested
  BY <1>8, WorkFrame DEF CancelRequested
<1>9. CASE QuitLater
  BY <1>9, WorkFrame DEF QuitLater
<1>10. CASE QuitNow
  BY <1>10 DEF QuitNow, Finish, WorkInv, JobFits, TurnBacked, RunBacked
<1>11. CASE HandleWorkerResult
  <2> DEFINE blocking == IF Drained = NoRequest THEN pending_blocking ELSE Drained
             entry == Released(FALSE, blocking)
             requests == IF Drained = NoRequest THEN <<>> ELSE <<HandleUiRequest(Drained)>>
             compaction == IF pending_compaction THEN <<RunCompaction>> ELSE <<>>
             prompt == SlashCommands(entry.text, entry.task_id)
             cmds == requests \o compaction \o prompt
  <2>1. /\ SlashHandle(entry.text, entry.task_id, FALSE, NoTask)
        /\ Finish(quit_pending, cmds) /\ outbox = <<>> /\ loop = "running"
        /\ UNCHANGED <<compaction_active, phase, job>>
    BY <1>11 DEF HandleWorkerResult, Polling
  <2>2. entry \in DeferredPrompt \cup {NoPrompt}
    BY DEF Released, TypeOK, IntakeOK
  <2>3. Drained # NoRequest => Drained \in Request
    BY HeadTail DEF Drained, TypeOK, StageOK
  <2>4. /\ requests \in Seq(WorkerCommand) /\ compaction \in Seq(WorkerCommand)
        /\ prompt \in Seq(WorkerCommand)
        /\ StartsTurn(entry.text) => Has(prompt, "turn")
    <3>1. entry.text \in Text \cup {NoText} /\ entry.task_id \in Tasks \cup {NoTask}
      BY <2>2, PromptFields
    <3>2. requests \in Seq(WorkerCommand)
      BY <2>3, CommandTypes
    <3>3. compaction \in Seq(WorkerCommand)
      BY CommandTypes
    <3>4. prompt \in Seq(WorkerCommand) /\ (StartsTurn(entry.text) => Has(prompt, "turn"))
      BY <3>1, SlashCommandsType, SlashStarts
    <3> QED
      BY <3>2, <3>3, <3>4
  <2> HIDE DEF entry, requests, compaction, prompt
  <2>5. cmds \in Seq(WorkerCommand) /\ (StartsTurn(entry.text) => Has(cmds, "turn"))
    <3>1. requests \o compaction \in Seq(WorkerCommand)
      BY <2>4
    <3>2. cmds \in Seq(WorkerCommand)
      BY <2>4, <3>1
    <3>3. Has(prompt, "turn") => Has(cmds, "turn")
      BY <2>4, <3>1, HasConcat
    <3> QED
      BY <2>4, <3>2, <3>3
  <2> HIDE DEF cmds
  <2>6. \A kind : Owes(kind) \/ Has(cmds, kind) => Owes(kind)'
    BY <1>0, <2>1, <2>5, FinishOwes
  <2>7. TurnBacked'
    BY <2>1, <2>5, <2>6 DEF SlashHandle, TurnBacked
  <2>8. RunBacked'
    BY <1>0, <2>1, <2>6, SlashReports DEF WorkInv, RunBacked
  <2> QED
    BY <2>1, <2>7, <2>8 DEF WorkInv, JobFits
<1>12. CASE HandleBlockingResponse
  <2> DEFINE entry == Released(worker_active, NoRequest)
             cmds == SlashCommands(entry.text, entry.task_id)
             break == QuitAfter(NoRequest, pending_concurrent)
  <2>1. /\ SlashHandle(entry.text, entry.task_id, worker_active, active_task)
        /\ Finish(break, cmds) /\ outbox = <<>> /\ loop = "running"
        /\ UNCHANGED <<compaction_active, worker_results, phase, job>>
    BY <1>12 DEF HandleBlockingResponse, Polling
  <2>2. entry \in DeferredPrompt \cup {NoPrompt}
    BY DEF Released, TypeOK, IntakeOK
  <2>3. cmds \in Seq(WorkerCommand) /\ (StartsTurn(entry.text) => Has(cmds, "turn"))
    BY <2>2, PromptFields, SlashCommandsType, SlashStarts
  <2> HIDE DEF entry, cmds, break
  <2>4. \A kind : Owes(kind) \/ Has(cmds, kind) => Owes(kind)'
    BY <1>0, <2>1, <2>3, FinishOwes
  <2>5. TurnBacked'
    BY <2>1, <2>3, <2>4 DEF SlashHandle, WorkInv, TurnBacked
  <2>6. RunBacked'
    BY <1>0, <2>1, <2>4, SlashReports DEF WorkInv, RunBacked
  <2> QED
    BY <2>1, <2>5, <2>6 DEF WorkInv, JobFits
<1>13. CASE HandleConcurrentResponse
  <2> DEFINE break == QuitAfter(pending_blocking, pending_concurrent')
  <2>1. /\ Finish(break, <<>>) /\ outbox = <<>> /\ loop = "running"
        /\ UNCHANGED <<worker_active, compaction_active, worker_results, compactions, lagged,
                       silent, phase, job>>
    BY <1>13 DEF HandleConcurrentResponse, Polling
  <2> HIDE DEF break
  <2>2. <<>> \in Seq(WorkerCommand)
    OBVIOUS
  <2> QED
    BY <1>0, <2>1, <2>2, Sends
<1>14. CASE DispatchCompaction
  <2> DEFINE cmds == IF CompactLater THEN <<>> ELSE <<RunCompaction>>
  <2>1. /\ compactions # <<>> /\ Head(compactions) = "requested"
        /\ compactions' = Tail(compactions)
        /\ compaction_active' = (compaction_active \/ ~CompactLater)
        /\ Finish(FALSE, cmds) /\ outbox = <<>> /\ loop = "running"
        /\ UNCHANGED <<worker_active, worker_results, lagged, silent, phase, job>>
    BY <1>14 DEF DispatchCompaction, compactionUnchanged, Polling
  <2>2. cmds \in Seq(WorkerCommand) /\ (~CompactLater => Has(cmds, "compact"))
    BY CommandTypes DEF Has, RunCompaction, Plain
  <2> HIDE DEF cmds
  <2>3. \A kind : Owes(kind) \/ Has(cmds, kind) => Owes(kind)'
    BY <1>0, <2>1, <2>2, FinishOwes
  <2>4. EndReported => EndReported'
    BY <1>0, <2>1, OthersStay
  <2>5. TurnBacked' /\ RunBacked'
    BY <2>1, <2>2, <2>3, <2>4 DEF WorkInv, TurnBacked, RunBacked
  <2> QED
    BY <2>1, <2>5 DEF WorkInv, JobFits
<1>15. CASE CompactionEnded
  <2> DEFINE next == pending_compaction /\ ~worker_active
             cmds == IF next THEN <<RunCompaction>> ELSE <<>>
             break == quit_pending /\ ~next
  <2>1. /\ compaction_active' = next
        /\ Finish(break, cmds) /\ outbox = <<>> /\ loop = "running"
        /\ UNCHANGED <<worker_active, worker_results, lagged, silent, phase, job>>
    BY <1>15 DEF CompactionEnded, compactionUnchanged, Polling
  <2>2. cmds \in Seq(WorkerCommand) /\ (next => Has(cmds, "compact"))
    BY CommandTypes DEF Has, RunCompaction, Plain
  <2> HIDE DEF cmds, break, next
  <2>3. \A kind : Owes(kind) \/ Has(cmds, kind) => Owes(kind)'
    BY <1>0, <2>1, <2>2, FinishOwes
  <2>4. TurnBacked' /\ RunBacked'
    BY <2>1, <2>2, <2>3 DEF WorkInv, TurnBacked, RunBacked
  <2> QED
    BY <2>1, <2>4 DEF WorkInv, JobFits
<1>16. CASE CompactionProgress
  <2>1. /\ compactions # <<>> /\ Head(compactions) = "progress"
        /\ compactions' = Tail(compactions)
        /\ UNCHANGED <<loop, worker_active, compaction_active, worker_results, lagged, silent,
                       commands, outbox, phase, job>>
    BY <1>16 DEF CompactionProgress, compactionUnchanged
  <2>2. EndReported => EndReported'
    BY <1>0, <2>1, OthersStay
  <2> QED
    BY <2>1, <2>2 DEF WorkInv, JobFits, TurnBacked, RunBacked, Owes, Has
<1>17. CASE HandleExternalCancel
  BY <1>17, WorkFrame DEF HandleExternalCancel
<1>18. CASE TakeA2aTask
  <2>1. /\ a2a_tasks # <<>>
        /\ commands' \in {commands, Append(commands, AttachA2aContext(Head(a2a_tasks)))}
        /\ UNCHANGED <<loop, worker_active, compaction_active, worker_results, compactions,
                       lagged, silent, outbox, phase, job>>
    BY <1>18 DEF TakeA2aTask
  <2>2. AttachA2aContext(Head(a2a_tasks)) \in WorkerCommand
    BY <2>1, CommandTypes DEF TypeOK, A2aOK
  <2>3. ASSUME NEW kind, Owes(kind) PROVE Owes(kind)'
    <3>1. Has(commands, kind) => Has(commands', kind)
      BY <1>0, <2>1, <2>2, HasAppend
    <3> QED
      BY <2>1, <2>3, <3>1 DEF Owes, Has
  <2> QED
    BY <2>1, <2>3 DEF WorkInv, JobFits, TurnBacked, RunBacked, EndReported
<1>19. CASE TakeCompletion
  BY <1>19, WorkFrame DEF TakeCompletion
<1>20. CASE Ended
  BY <1>20 DEF Ended, WorkInv, JobFits, TurnBacked, RunBacked
<1>21. CASE WorkerNext
  <2>1. CASE TakeCommand
    <3>1. /\ phase = "idle" /\ commands # <<>> /\ commands' = Tail(commands)
          /\ phase' = StartOf(Head(commands).kind)
          /\ job' = IF phase' = "idle" THEN NoJob ELSE Head(commands)
          /\ UNCHANGED <<loop, worker_active, compaction_active, worker_results, compactions,
                         lagged, silent, outbox>>
      BY <2>1 DEF TakeCommand
    <3>2. JobFits'
      BY <3>1 DEF JobFits, StartOf, NoJob, Plain
    <3>3. \A kind \in {"turn", "compact"} : Owes(kind) => Owes(kind)'
      <4> SUFFICES ASSUME NEW kind \in {"turn", "compact"}, Owes(kind) PROVE Owes(kind)'
        OBVIOUS
      <4>1. job.kind = "idle"
        BY <3>1 DEF WorkInv, JobFits
      <4>2. CASE Has(commands, kind)
        <5>1. Head(commands).kind = kind \/ Has(Tail(commands), kind)
          BY <1>0, <3>1, <4>2, HasTail
        <5>2. Head(commands).kind = kind => job' = Head(commands)
          BY <3>1 DEF StartOf
        <5> QED
          BY <3>1, <5>1, <5>2 DEF Owes
      <4>3. CASE Has(outbox, kind)
        BY <3>1, <4>3 DEF Owes
      <4> QED
        BY <4>1, <4>2, <4>3 DEF Owes
    <3> QED
      BY <3>1, <3>2, <3>3 DEF WorkInv, TurnBacked, RunBacked, EndReported
  <2>2. CASE SubscribeCancel
    BY <2>2 DEF SubscribeCancel, WorkInv, JobFits, TurnBacked, RunBacked, Owes, Has, EndReported
  <2>3. ASSUME NEW ok \in BOOLEAN, EndTurn(ok) PROVE WorkInv'
    <3>1. /\ job.kind = "turn" /\ phase' = "idle" /\ job' = NoJob
          /\ UNCHANGED <<loop, worker_active, compaction_active, compactions, lagged, silent,
                         commands, outbox>>
      BY <2>3 DEF EndTurn, WorkInv, JobFits
    <3>2. loop = "running" => worker_results' # <<>>
      BY <1>0, <2>3, AppendFills DEF EndTurn, Delivered, LoopListens
    <3>3. Owes("compact") => Owes("compact")'
      BY <3>1 DEF Owes, Has
    <3> QED
      BY <3>1, <3>2, <3>3 DEF WorkInv, JobFits, TurnBacked, RunBacked, EndReported, NoJob, Plain
  <2>4. CASE OpenStore
    <3>1. /\ job.kind = "compact"
          /\ \/ Publish("ended") \/ silent' = TRUE
             \/ Publish("progress") /\ phase' = "summarizing" /\ job' = job
          /\ UNCHANGED <<loop, worker_active, compaction_active, worker_results, commands, outbox>>
      BY <2>4 DEF OpenStore, ReportEnd, EndInSilence, WorkInv, JobFits
    <3>2. JobFits'
      BY <2>4 DEF OpenStore, WorkInv, JobFits, NoJob, Plain
    <3>3. Owes("turn") => Owes("turn")'
      BY <3>1, <3>2 DEF Owes, Has
    <3>4. Owes("compact")' \/ (EndReported \/ lagged \/ silent)'
      BY <1>0, <3>1, PublishReports DEF Owes, CompactionEvent
    <3> QED
      BY <3>1, <3>2, <3>3, <3>4 DEF WorkInv, TurnBacked, RunBacked
  <2>5. CASE EndCompaction
    <3>1. /\ job.kind = "compact" /\ Publish("ended") /\ phase' = "idle" /\ job' = NoJob
          /\ UNCHANGED <<loop, worker_active, compaction_active, worker_results, commands, outbox>>
      BY <2>5 DEF EndCompaction, ReportEnd, WorkInv, JobFits
    <3>2. Owes("turn") => Owes("turn")'
      BY <3>1 DEF Owes, Has
    <3>3. (EndReported \/ lagged \/ silent)'
      BY <1>0, <3>1, PublishReports DEF CompactionEvent
    <3> QED
      BY <3>1, <3>2, <3>3 DEF WorkInv, JobFits, TurnBacked, RunBacked, NoJob, Plain
  <2>6. CASE ServeRequest
    <3>1. /\ job.kind = "request" /\ phase' = "idle" /\ job' = NoJob
          /\ UNCHANGED <<loop, worker_active, compaction_active, worker_results, compactions,
                         lagged, silent, commands, outbox>>
      BY <2>6 DEF ServeRequest, WorkInv, JobFits
    <3>2. \A kind \in {"turn", "compact"} : Owes(kind) => Owes(kind)'
      BY <3>1 DEF Owes, Has
    <3> QED
      BY <3>1, <3>2 DEF WorkInv, JobFits, TurnBacked, RunBacked, EndReported, NoJob, Plain
  <2>7. ASSUME NEW event \in CompactionEvent, Publish(event),
               UNCHANGED <<loop, worker_active, compaction_active, worker_results, commands,
                           outbox, phase, job>>
        PROVE  WorkInv'
    BY <1>0, <2>7, PublishReports DEF WorkInv, JobFits, TurnBacked, RunBacked, Owes, Has
  <2>8. CASE TurnCompaction
    BY <2>7, <2>8 DEF TurnCompaction, CompactionEvent
  <2>9. CASE SummaryChunk
    BY <2>7, <2>9 DEF SummaryChunk, CompactionEvent
  <2> QED
    BY <1>21, <2>1, <2>2, <2>3, <2>4, <2>5, <2>6, <2>8, <2>9 DEF WorkerNext, WorkerProgress
<1>22. CASE EnvNext
  <2>1. ASSUME NEW kind \in UiInputs, UiSend(kind) PROVE WorkInv'
    BY <2>1, WorkFrame DEF UiSend
  <2>2. CASE UiTurnEnded
    BY <2>2, WorkFrame DEF UiTurnEnded
  <2>3. ASSUME NEW task \in Tasks, OfferTask(task) \/ CancelTask(task) PROVE WorkInv'
    BY <2>3, WorkFrame DEF OfferTask, CancelTask
  <2>4. CASE RemoteCompletion
    BY <2>4, WorkFrame DEF RemoteCompletion
  <2> QED
    BY <1>22, <2>1, <2>2, <2>3, <2>4 DEF EnvNext
<1>23. CASE UNCHANGED vars
  BY <1>23, WorkFrame DEF vars
<1> QED
  BY <1>1, <1>2, <1>3, <1>4, <1>5, <1>6, <1>7, <1>8, <1>9, <1>10, <1>11, <1>12, <1>13,
     <1>14, <1>15, <1>16, <1>17, <1>18, <1>19, <1>20, <1>21, <1>22, <1>23
  DEF Next, LoopNext

LEMMA WorkInit == Init => WorkInv
  BY DEF Init, WorkInv, JobFits, TurnBacked, RunBacked, NoJob, Plain

\* worker_active is never left set with no turn to clear it: neither a parked
\* handler nor the order of turns and compactions leaves the loop waiting for nobody.
THEOREM BusyFlagBacked == Spec => []BusyBacked
<1>1. TypeOK /\ WorkInv => BusyBacked
  BY BacklogOwes DEF WorkInv, TurnBacked, BusyBacked
<1> QED
  BY <1>1, WorkInit, TypeInit, TypeStep, WorkStep, PTL DEF Spec

\* compaction_active is left set with no run to clear it only after an end that was
\* lost by the bus or never announced.
THEOREM CompactionFlagFollows == Spec => []CompactionFlagBacked
<1>1. TypeOK /\ WorkInv => CompactionFlagBacked
  BY BacklogOwes DEF WorkInv, RunBacked, EndReported, CompactionFlagBacked
<1> QED
  BY <1>1, WorkInit, TypeInit, TypeStep, WorkStep, PTL DEF Spec

-----------------------------------------------------------------------------
(* Requests in flight exclude one another.                                 *)

\* No command of the sequence carries a request of these kinds; one at most does.
NoneOf(cmds, kinds) == \A i \in DOMAIN cmds : cmds[i].request.kind \notin kinds
OneOf(cmds, kinds) ==
    \A i, j \in DOMAIN cmds :
        cmds[i].request.kind \in kinds /\ cmds[j].request.kind \in kinds => i = j

BlockingFlight ==
    loop = "running" =>
        /\ OneOf(Backlog, BlockingKinds)
        /\ \A i \in DOMAIN Backlog :
              Backlog[i].request.kind \in BlockingKinds => Backlog[i].request = pending_blocking
        /\ blocking_responses # <<>> =>
              /\ Len(blocking_responses) = 1 /\ blocking_responses[1] = pending_blocking
              /\ NoneOf(Backlog, BlockingKinds)
RefreshOf(kind) ==
    /\ OneOf(Backlog, {kind})
    /\ kind \notin pending_concurrent => NoneOf(Backlog, {kind})
    /\ \A i \in DOMAIN concurrent_responses : concurrent_responses[i].kind = kind =>
          kind \in pending_concurrent /\ NoneOf(Backlog, {kind})
    /\ \A i, j \in DOMAIN concurrent_responses :
          concurrent_responses[i].kind = kind /\ concurrent_responses[j].kind = kind => i = j
RefreshFlight == loop = "running" => \A kind \in RefreshKinds : RefreshOf(kind)

\* What waits in the queue is a model or an agent switch.
Waits == [kind : {"model", "agent"}, id : 1..MaxUiEvents]
FlightInv == BlockingFlight /\ RefreshFlight /\ queued \in Seq(Waits)

\* What a step does to the backlog: its entries move up by d places, the place p may
\* get the request req, and no other request comes to it.
Moves(old, new, d, p, req) ==
    \A i \in DOMAIN new :
        \/ new[i].request.kind \notin RequestKinds
        \/ i # p /\ i + d \in DOMAIN old /\ new[i].request = old[i + d].request
        \/ i = p /\ new[i].request = req

LEMMA KindsApart ==
  /\ NoRequest.kind \notin RequestKinds
  /\ \A kind \in RefreshKinds : kind \notin BlockingKinds /\ kind \notin Servers
  /\ \A kind \in Servers : kind \notin BlockingKinds
  BY ConstantsAssumption DEF NoRequest, RequestKinds, BlockingKinds, ConcurrentKinds, RefreshKinds

\* The request of a command is one of the stage, or none.
LEMMA CommandRequest ==
  ASSUME NEW cmd \in WorkerCommand \cup {NoJob}
  PROVE  cmd.request \in Request \cup {NoRequest}
  BY DEF WorkerCommand, NoJob, Plain

\* The entries of the backlog.
LEMMA Entries ==
  ASSUME NEW j, NEW c \in Seq(WorkerCommand), NEW o \in Seq(WorkerCommand), NEW b,
         b = <<j>> \o c \o o, j \in WorkerCommand \cup {NoJob}
  PROVE  /\ DOMAIN b = 1..(1 + Len(c) + Len(o))
         /\ \A i \in 1..(1 + Len(c) + Len(o)) :
               b[i] = IF i = 1 THEN j
                      ELSE IF i <= 1 + Len(c) THEN c[i - 1] ELSE o[i - 1 - Len(c)]
<1>1. <<j>> \in Seq(WorkerCommand \cup {NoJob}) /\ Len(<<j>>) = 1 /\ <<j>>[1] = j
  OBVIOUS
<1>2. c \in Seq(WorkerCommand \cup {NoJob}) /\ o \in Seq(WorkerCommand \cup {NoJob})
  OBVIOUS
<1>3. PICK front : front = <<j>> \o c
  OBVIOUS
<1>4. /\ front \in Seq(WorkerCommand \cup {NoJob}) /\ Len(front) = 1 + Len(c)
      /\ \A i \in 1..Len(front) : front[i] = IF i = 1 THEN j ELSE c[i - 1]
  BY ONLY <1>1, <1>2, <1>3
<1>5. b = front \o o
  BY <1>3
<1>6. /\ Len(b) = Len(front) + Len(o) /\ DOMAIN b = 1..Len(b)
      /\ \A i \in 1..Len(b) : b[i] = IF i <= Len(front) THEN front[i] ELSE o[i - Len(front)]
  <2>1. PICK S : S = WorkerCommand \cup {NoJob}
    OBVIOUS
  <2>2. front \in Seq(S) /\ o \in Seq(S)
    BY ONLY <1>2, <1>4, <2>1
  <2> QED
    BY ONLY <1>5, <2>2, Joined
<1>7. Len(c) \in Nat /\ Len(o) \in Nat
  OBVIOUS
<1>8. DOMAIN b = 1..(1 + Len(c) + Len(o))
  BY ONLY <1>4, <1>6, <1>7
<1>9. ASSUME NEW i \in 1..(1 + Len(c) + Len(o))
      PROVE  b[i] = IF i = 1 THEN j
                    ELSE IF i <= 1 + Len(c) THEN c[i - 1] ELSE o[i - 1 - Len(c)]
  <2>1. b[i] = IF i <= 1 + Len(c) THEN front[i] ELSE o[i - (1 + Len(c))]
    BY ONLY <1>4, <1>6, <1>7, <1>9
  <2>2. i - (1 + Len(c)) = i - 1 - Len(c)
    BY ONLY <1>7, <1>9
  <2>3. i <= 1 + Len(c) => front[i] = IF i = 1 THEN j ELSE c[i - 1]
    BY ONLY <1>4, <1>7, <1>9
  <2>4. i = 1 => i <= 1 + Len(c)
    BY ONLY <1>7
  <2> QED
    BY ONLY <2>1, <2>2, <2>3, <2>4
<1> QED
  BY <1>8, <1>9

\* The commands a handler sends come behind what the worker owed.
LEMMA FinishMoves ==
  ASSUME CommandsOK, outbox = <<>>, job \in WorkerCommand \cup {NoJob}, job' = job,
         NEW cmds \in Seq(WorkerCommand), NEW break, Finish(break, cmds),
         NEW p \in Nat \ {0}, NEW req,
         \A i \in DOMAIN cmds : IF i = p THEN cmds[i].request = req
                                ELSE cmds[i].request.kind \notin RequestKinds
  PROVE  Moves(Backlog, Backlog', 0, Len(Backlog) + p, req)
<1>1. commands \in Seq(WorkerCommand) /\ outbox \in Seq(WorkerCommand)
  BY DEF CommandsOK
<1>2. PICK sent \in Seq(WorkerCommand) :
        /\ sent = IF break THEN Append(cmds, Shutdown) ELSE cmds
        /\ \A i \in DOMAIN sent : \/ i \in DOMAIN cmds /\ sent[i] = cmds[i]
                                  \/ sent[i] = Shutdown
  <2>1. CASE break
    <3>1. Append(cmds, Shutdown) \in Seq(WorkerCommand)
      BY CommandTypes
    <3>2. \A i \in DOMAIN Append(cmds, Shutdown) :
             \/ i \in DOMAIN cmds /\ Append(cmds, Shutdown)[i] = cmds[i]
             \/ Append(cmds, Shutdown)[i] = Shutdown
      OBVIOUS
    <3> QED
      BY <2>1, <3>1, <3>2
  <2>2. CASE ~break
    BY <2>2
  <2> QED
    BY <2>1, <2>2
<1>3. Send(sent)
  BY <1>2 DEF Finish
<1>4. commands' \in Seq(WorkerCommand) /\ outbox' \in Seq(WorkerCommand)
  BY <1>3, SendType DEF CommandsOK
<1>5. \/ commands' = commands \o sent /\ outbox' = <<>>
      \/ commands' = commands /\ outbox' = sent
  BY <1>3 DEF Send
<1>6. PICK n \in Nat, m \in Nat : n = Len(commands) /\ m = Len(sent)
  BY <1>1
<1>7. /\ DOMAIN Backlog = 1..(1 + n) /\ Len(Backlog) = 1 + n
      /\ \A i \in 1..(1 + n) : Backlog[i] = IF i = 1 THEN job ELSE commands[i - 1]
  <2>1. /\ DOMAIN Backlog = 1..(1 + n + 0)
        /\ \A i \in 1..(1 + n + 0) : Backlog[i] = IF i = 1 THEN job
              ELSE IF i <= 1 + n THEN commands[i - 1] ELSE outbox[i - 1 - n]
    <3>1. Len(outbox) = 0
      OBVIOUS
    <3> QED
      BY ONLY <1>1, <1>6, <3>1, Entries, job \in WorkerCommand \cup {NoJob} DEF Backlog
  <2>2. Backlog \in Seq(WorkerCommand \cup {NoJob})
    BY <1>1 DEF Backlog
  <2> QED
    BY <2>1, <2>2
<1>8. /\ DOMAIN Backlog' = 1..(1 + n + m)
      /\ \A i \in 1..(1 + n + m) : Backlog'[i] = IF i = 1 THEN job
            ELSE IF i <= 1 + n THEN commands[i - 1] ELSE sent[i - 1 - n]
  <2>1. PICK b : b = <<job>> \o commands' \o outbox'
    OBVIOUS
  <2>2. Backlog' = b
    BY <2>1 DEF Backlog
  <2>3. /\ DOMAIN b = 1..(1 + Len(commands') + Len(outbox'))
        /\ \A i \in 1..(1 + Len(commands') + Len(outbox')) : b[i] = IF i = 1 THEN job
              ELSE IF i <= 1 + Len(commands') THEN commands'[i - 1]
                   ELSE outbox'[i - 1 - Len(commands')]
    BY ONLY <1>4, <2>1, Entries, job \in WorkerCommand \cup {NoJob}
  <2>4. CASE commands' = commands /\ outbox' = sent
    <3>1. Len(commands') = n /\ Len(outbox') = m
      BY ONLY <1>6, <2>3, <2>4
    <3>2. \A i : commands'[i] = commands[i] /\ outbox'[i] = sent[i]
      BY ONLY <2>4
    <3> QED
      BY ONLY <2>2, <2>3, <3>1, <3>2
  <2>5. CASE commands' = commands \o sent /\ outbox' = <<>>
    <3>1. /\ Len(commands') = n + m /\ Len(outbox') = 0
          /\ \A i \in 1..(n + m) : commands'[i] = IF i <= n THEN commands[i] ELSE sent[i - n]
      <4>1. /\ Len(commands \o sent) = n + m
            /\ \A i \in 1..(n + m) : (commands \o sent)[i] = IF i <= n THEN commands[i] ELSE sent[i - n]
        BY ONLY <1>1, <1>2, <1>6, Joined
      <4> QED
        BY <2>5, <4>1
    <3>2. DOMAIN b = 1..(1 + n + m)
      BY ONLY <2>3, <3>1, <1>6
    <3>3. ASSUME NEW i \in 1..(1 + n + m)
          PROVE  b[i] = IF i = 1 THEN job
                        ELSE IF i <= 1 + n THEN commands[i - 1] ELSE sent[i - 1 - n]
      <4>1. b[i] = IF i = 1 THEN job ELSE commands'[i - 1]
        BY ONLY <1>6, <2>3, <3>1, <3>3
      <4>2. i # 1 => commands'[i - 1] = IF i - 1 <= n THEN commands[i - 1] ELSE sent[i - 1 - n]
        BY ONLY <1>6, <3>1, <3>3
      <4> QED
        BY ONLY <4>1, <4>2, <1>6, <3>3
    <3> QED
      BY ONLY <2>2, <3>2, <3>3
  <2> QED
    BY <1>5, <2>4, <2>5
<1>9. ASSUME NEW i \in DOMAIN Backlog'
      PROVE  \/ Backlog'[i].request.kind \notin RequestKinds
             \/ i # 1 + n + p /\ i + 0 \in DOMAIN Backlog /\ Backlog'[i].request = Backlog[i + 0].request
             \/ i = 1 + n + p /\ Backlog'[i].request = req
  <2>1. CASE i <= 1 + n
    <3>1. i \in 1..(1 + n) /\ i + 0 = i /\ i # 1 + n + p
      BY ONLY <1>6, <1>8, <1>9, <2>1, p \in Nat \ {0}
    <3>2. Backlog'[i] = Backlog[i]
      BY ONLY <1>7, <1>8, <1>9, <2>1, <3>1
    <3> QED
      BY ONLY <1>7, <3>1, <3>2
  <2>2. CASE ~(i <= 1 + n)
    <3>0. i - 1 - n \in 1..m
      BY ONLY <1>6, <1>8, <1>9, <2>2
    <3>1. PICK k \in 1..m : k = i - 1 - n
      BY ONLY <3>0
    <3>2. Backlog'[i] = sent[k] /\ (k = p <=> i = 1 + n + p)
      <4>1. i \in 1..(1 + n + m)
        BY ONLY <1>8, <1>9
      <4>2. Backlog'[i] = IF i = 1 THEN job
              ELSE IF i <= 1 + n THEN commands[i - 1] ELSE sent[i - 1 - n]
        BY ONLY <1>8, <4>1
      <4>3. i # 1
        BY ONLY <1>6, <2>2
      <4>0. n \in Int /\ p \in Int /\ i \in Int /\ k = i - 1 - n
        BY ONLY <1>6, <3>1, <4>1, p \in Nat \ {0}
      <4>4. k = p <=> i = 1 + n + p
        BY ONLY <4>0
      <4>5. Backlog'[i] = sent[k]
        BY ONLY <2>2, <3>1, <4>2, <4>3
      <4> QED
        BY ONLY <4>4, <4>5
    <3>3. k \in DOMAIN sent
      BY <1>6, <3>1
    <3>4. Shutdown.request.kind \notin RequestKinds
      BY KindsApart DEF Shutdown, Plain
    <3>5. CASE k \in DOMAIN cmds /\ sent[k] = cmds[k]
      BY <3>2, <3>5
    <3> QED
      BY <1>2, <3>2, <3>3, <3>4, <3>5
  <2> QED
    BY <2>1, <2>2
<1> QED
  BY ONLY <1>7, <1>9 DEF Moves

\* The worker's next command, the end of its job, a command that leaves the outbox and
\* one without a request bring no request to the backlog.
LEMMA QuietMoves ==
  ASSUME NEW j \in WorkerCommand \cup {NoJob}, NEW c \in Seq(WorkerCommand),
         NEW o \in Seq(WorkerCommand), NEW old, old = <<j>> \o c \o o, NEW new
  PROVE  /\ \A x \in {NoJob, Head(c)} : c # <<>> /\ new = <<x>> \o Tail(c) \o o =>
               Moves(old, new, 1, 0, NoRequest)
         /\ new = <<NoJob>> \o c \o o => Moves(old, new, 0, 0, NoRequest)
         /\ o # <<>> /\ new = <<j>> \o Append(c, Head(o)) \o Tail(o) =>
               Moves(old, new, 0, 0, NoRequest)
         /\ \A x \in WorkerCommand : x.request = NoRequest /\ new = <<j>> \o Append(c, x) \o o /\ o = <<>> =>
               Moves(old, new, 0, 0, NoRequest)
<1>1. PICK n \in Nat, m \in Nat : n = Len(c) /\ m = Len(o)
  OBVIOUS
<1>2. /\ DOMAIN old = 1..(1 + n + m)
      /\ \A i \in 1..(1 + n + m) :
            old[i] = IF i = 1 THEN j ELSE IF i <= 1 + n THEN c[i - 1] ELSE o[i - 1 - n]
  BY <1>1, Entries
<1>3. NoJob \in WorkerCommand \cup {NoJob} /\ NoJob.request.kind \notin RequestKinds
  BY KindsApart DEF NoJob, Plain
<1>4. ASSUME NEW x \in {NoJob, Head(c)}, c # <<>>, new = <<x>> \o Tail(c) \o o
      PROVE  Moves(old, new, 1, 0, NoRequest)
  <2>1. /\ Tail(c) \in Seq(WorkerCommand) /\ Len(Tail(c)) = n - 1 /\ n > 0
        /\ Head(c) = c[1] /\ Head(c) \in WorkerCommand
        /\ \A i \in 1..(n - 1) : Tail(c)[i] = c[i + 1]
    BY <1>1, <1>4
  <2>2. x \in WorkerCommand \cup {NoJob}
    BY <2>1
  <2>3. /\ DOMAIN new = 1..(1 + Len(Tail(c)) + Len(o))
        /\ \A i \in 1..(1 + Len(Tail(c)) + Len(o)) :
              new[i] = IF i = 1 THEN x ELSE IF i <= 1 + Len(Tail(c)) THEN Tail(c)[i - 1]
                                            ELSE o[i - 1 - Len(Tail(c))]
    BY <1>4, <2>1, <2>2, Entries
  <2>4. /\ DOMAIN new = 1..(n + m)
        /\ \A i \in 1..(n + m) :
              new[i] = IF i = 1 THEN x ELSE IF i <= n THEN Tail(c)[i - 1] ELSE o[i - n]
    BY ONLY <1>1, <2>1, <2>3
  <2>5. ASSUME NEW i \in 1..(n + m)
        PROVE  i + 1 \in DOMAIN old /\ i # 0 /\ (new[i] = old[i + 1] \/ new[i] = NoJob)
    <3>1. i + 1 \in 1..(1 + n + m) /\ i # 0 /\ i + 1 # 1 /\ i + 1 - 1 = i /\ i + 1 - 1 - n = i - n
      BY ONLY <1>1, <2>5
    <3>2. old[i + 1] = IF i <= n THEN c[i] ELSE o[i - n]
      BY ONLY <1>1, <1>2, <2>5, <3>1
    <3>3. CASE i = 1
      <4>1. old[i + 1] = c[1]
        BY ONLY <1>1, <2>1, <3>2, <3>3
      <4> QED
        BY <1>2, <2>1, <2>4, <2>5, <3>1, <3>3, <4>1
    <3>4. CASE i # 1
      <4>1. i <= n => Tail(c)[i - 1] = c[i]
        <5>1. i <= n => i - 1 \in 1..(n - 1) /\ i - 1 + 1 = i
          BY ONLY <1>1, <2>5, <3>4
        <5> QED
          BY ONLY <2>1, <5>1
      <4> QED
        BY ONLY <1>2, <2>4, <2>5, <3>1, <3>2, <3>4, <4>1
    <3> QED
      BY <3>3, <3>4
  <2> QED
    BY <1>3, <2>4, <2>5 DEF Moves
<1>5. ASSUME new = <<NoJob>> \o c \o o PROVE Moves(old, new, 0, 0, NoRequest)
  <2>1. /\ DOMAIN new = 1..(1 + n + m)
        /\ \A i \in 1..(1 + n + m) :
              new[i] = IF i = 1 THEN NoJob ELSE IF i <= 1 + n THEN c[i - 1] ELSE o[i - 1 - n]
    BY <1>1, <1>3, <1>5, Entries
  <2>2. \A i \in 1..(1 + n + m) : i + 0 \in DOMAIN old /\ i # 0 /\ (new[i] = old[i + 0] \/ new[i] = NoJob)
    BY ONLY <1>1, <1>2, <2>1
  <2> QED
    BY <1>3, <2>1, <2>2 DEF Moves
<1>6. ASSUME NEW x \in WorkerCommand, NEW rest \in Seq(WorkerCommand), NEW r \in Nat, r = Len(rest),
             new = <<j>> \o Append(c, x) \o rest,
             \A i \in 1..r : i + 1 \in 1..m /\ o[i + 1] = rest[i],
             x.request = NoRequest \/ (m > 0 /\ x = o[1])
      PROVE  Moves(old, new, 0, 0, NoRequest)
  <2>1. /\ Append(c, x) \in Seq(WorkerCommand) /\ Len(Append(c, x)) = n + 1
        /\ \A i \in 1..(n + 1) : Append(c, x)[i] = IF i <= n THEN c[i] ELSE x
    BY <1>1
  <2>2. PICK cx : cx = Append(c, x)
    OBVIOUS
  <2>3. /\ DOMAIN new = 1..(1 + Len(cx) + r)
        /\ \A i \in 1..(1 + Len(cx) + r) :
              new[i] = IF i = 1 THEN j ELSE IF i <= 1 + Len(cx) THEN cx[i - 1]
                                            ELSE rest[i - 1 - Len(cx)]
    BY <1>6, <2>1, <2>2, Entries
  <2>4. /\ DOMAIN new = 1..(2 + n + r)
        /\ \A i \in 1..(2 + n + r) :
              new[i] = IF i = 1 THEN j ELSE IF i <= 2 + n THEN cx[i - 1] ELSE rest[i - 2 - n]
    <3>1. Len(cx) = n + 1
      BY ONLY <2>1, <2>2
    <3>2. 1 + Len(cx) + r = 2 + n + r /\ 1 + Len(cx) = 2 + n
      BY ONLY <3>1, <1>1, r \in Nat
    <3>3. \A i \in 1..(2 + n + r) : i - 1 - Len(cx) = i - 2 - n
      BY ONLY <3>1, <1>1, r \in Nat
    <3> QED
      BY ONLY <2>3, <3>2, <3>3
  <2>5. ASSUME NEW i \in 1..(2 + n + r)
        PROVE  \/ new[i].request.kind \notin RequestKinds
               \/ i # 0 /\ i + 0 \in DOMAIN old /\ new[i].request = old[i + 0].request
    <3>0. i \in Int /\ i # 0 /\ i + 0 = i
      BY ONLY <1>1, <2>5
    <3>1. CASE i <= n + 1
      <4>1. i \in DOMAIN old
        BY ONLY <1>1, <1>2, <2>5, <3>1
      <4>2. new[i] = old[i]
        <5>1. i <= 2 + n /\ i \in 1..(1 + n + m) /\ i <= 1 + n
          BY ONLY <1>1, <1>2, <2>5, <3>1
        <5>2. i # 1 => cx[i - 1] = c[i - 1]
          <6>1. i # 1 => i - 1 \in 1..(n + 1) /\ i - 1 <= n
            BY ONLY <1>1, <2>5, <3>1
          <6> QED
            BY ONLY <2>1, <2>2, <6>1
        <5> QED
          BY ONLY <1>2, <2>4, <2>5, <5>1, <5>2
      <4> QED
        BY ONLY <3>0, <4>1, <4>2
    <3>2. CASE i = n + 2
      <4>1. new[i] = x
        <5>1. i # 1 /\ i <= 2 + n /\ i - 1 \in 1..(n + 1) /\ ~(i - 1 <= n)
          BY ONLY <1>1, <3>2
        <5> QED
          BY ONLY <2>1, <2>2, <2>4, <2>5, <5>1
      <4>2. CASE x.request = NoRequest
        BY <4>1, <4>2, KindsApart
      <4>3. CASE m > 0 /\ x = o[1]
        <5>1. i \in 1..(1 + n + m) /\ i # 1 /\ ~(i <= 1 + n) /\ i - 1 - n = 1
          BY ONLY <1>1, <3>2, <4>3
        <5>2. old[i] = o[1]
          BY ONLY <1>2, <5>1
        <5> QED
          BY ONLY <1>2, <3>0, <4>1, <4>3, <5>1, <5>2
      <4> QED
        BY <1>6, <4>2, <4>3
    <3>3. CASE i > n + 2
      <4>1. i - 2 - n \in 1..r /\ i # 1 /\ ~(i <= 2 + n)
        BY ONLY <1>1, <2>5, <3>3, r \in Nat
      <4>2. new[i] = rest[i - 2 - n]
        BY ONLY <2>4, <2>5, <4>1
      <4>3. i - 2 - n + 1 \in 1..m /\ o[i - 2 - n + 1] = rest[i - 2 - n]
        BY <1>6, <4>1
      <4>4. i - 2 - n + 1 = i - 1 - n /\ i \in 1..(1 + n + m) /\ ~(i <= 1 + n)
        BY ONLY <1>1, <2>5, <3>3, <4>3
      <4>5. old[i] = o[i - 1 - n]
        BY ONLY <1>2, <4>1, <4>4
      <4> QED
        BY ONLY <1>2, <3>0, <4>2, <4>3, <4>4, <4>5
    <3> QED
      BY ONLY <1>1, <3>0, <3>1, <3>2, <3>3
  <2> QED
    BY ONLY <2>4, <2>5 DEF Moves
<1>7. ASSUME o # <<>>, new = <<j>> \o Append(c, Head(o)) \o Tail(o)
      PROVE  Moves(old, new, 0, 0, NoRequest)
  <2>1. /\ Tail(o) \in Seq(WorkerCommand) /\ Len(Tail(o)) = m - 1 /\ m > 0
        /\ Head(o) = o[1] /\ Head(o) \in WorkerCommand
        /\ \A i \in 1..(m - 1) : i + 1 \in 1..m /\ o[i + 1] = Tail(o)[i]
    BY <1>1, <1>7
  <2>2. m - 1 \in Nat
    BY <1>1, <2>1
  <2>3. PICK x \in WorkerCommand, rest \in Seq(WorkerCommand), r \in Nat :
          x = Head(o) /\ rest = Tail(o) /\ r = m - 1
    BY <2>1, <2>2
  <2>4. /\ r = Len(rest) /\ new = <<j>> \o Append(c, x) \o rest /\ m > 0 /\ x = o[1]
        /\ \A i \in 1..r : i + 1 \in 1..m /\ o[i + 1] = rest[i]
    BY ONLY <1>7, <2>1, <2>3
  <2> QED
    BY ONLY <1>6, <2>3, <2>4
<1>8. ASSUME NEW x \in WorkerCommand, x.request = NoRequest, o = <<>>,
             new = <<j>> \o Append(c, x) \o o
      PROVE  Moves(old, new, 0, 0, NoRequest)
  <2>1. Len(o) = 0
    BY <1>8
  <2>2. \A i \in 1..0 : i + 1 \in 1..m /\ o[i + 1] = o[i]
    OBVIOUS
  <2>3. PICK rest \in Seq(WorkerCommand), r \in Nat : rest = o /\ r = 0
    OBVIOUS
  <2>4. /\ r = Len(rest) /\ new = <<j>> \o Append(c, x) \o rest /\ x.request = NoRequest
        /\ \A i \in 1..r : i + 1 \in 1..m /\ o[i + 1] = rest[i]
    BY ONLY <1>8, <2>1, <2>2, <2>3
  <2> QED
    BY ONLY <1>6, <1>8, <2>3, <2>4
<1> QED
  BY <1>4, <1>5, <1>7, <1>8

\* The places of the backlog are numbers.
LEMMA Places ==
  /\ TypeOK => DOMAIN Backlog \subseteq Nat
  /\ TypeOK' => DOMAIN Backlog' \subseteq Nat
<1>1. TypeOK => DOMAIN Backlog \subseteq Nat
  <2>1. ASSUME TypeOK
        PROVE  /\ commands \in Seq(WorkerCommand) /\ outbox \in Seq(WorkerCommand)
               /\ job \in WorkerCommand \cup {NoJob}
    BY <2>1 DEF TypeOK, CommandsOK, RuntimeOK
  <2> QED
    BY <2>1, Entries DEF Backlog
<1>2. TypeOK' => DOMAIN Backlog' \subseteq Nat
  <2>1. ASSUME TypeOK'
        PROVE  /\ commands' \in Seq(WorkerCommand) /\ outbox' \in Seq(WorkerCommand)
               /\ job' \in WorkerCommand \cup {NoJob}
    BY <2>1 DEF TypeOK, CommandsOK, RuntimeOK
  <2>2. Backlog' = <<job'>> \o commands' \o outbox'
    BY DEF Backlog
  <2> QED
    BY <2>1, <2>2, Entries
<1> QED
  BY <1>1, <1>2

\* A move brings no request but req, and none twice.
LEMMA MovesKeep ==
  ASSUME NEW old, NEW new, NEW d \in Nat, NEW p, NEW req, Moves(old, new, d, p, req),
         DOMAIN new \subseteq Nat, NEW kinds \in SUBSET RequestKinds
  PROVE  /\ req.kind \notin kinds /\ NoneOf(old, kinds) => NoneOf(new, kinds)
         /\ req.kind \notin kinds /\ OneOf(old, kinds) => OneOf(new, kinds)
         /\ NoneOf(old, kinds) => OneOf(new, kinds)
<1>1. \A i \in DOMAIN new : new[i].request.kind \in kinds =>
         \/ i # p /\ i + d \in DOMAIN old /\ new[i].request = old[i + d].request
         \/ i = p /\ new[i].request = req
  BY DEF Moves
<1>2. \A i, j \in DOMAIN new : i + d = j + d => i = j
  OBVIOUS
<1>3. ASSUME req.kind \notin kinds
      PROVE  \A i \in DOMAIN new : new[i].request.kind \in kinds =>
               i + d \in DOMAIN old /\ new[i].request = old[i + d].request
  BY <1>1, <1>3
<1>4. req.kind \notin kinds /\ NoneOf(old, kinds) => NoneOf(new, kinds)
  BY <1>3 DEF NoneOf
<1>5. req.kind \notin kinds /\ OneOf(old, kinds) => OneOf(new, kinds)
  <2> SUFFICES ASSUME req.kind \notin kinds, OneOf(old, kinds),
                      NEW i \in DOMAIN new, NEW j \in DOMAIN new,
                      new[i].request.kind \in kinds, new[j].request.kind \in kinds
               PROVE  i = j
    BY DEF OneOf
  <2>1. /\ i + d \in DOMAIN old /\ old[i + d].request.kind \in kinds
        /\ j + d \in DOMAIN old /\ old[j + d].request.kind \in kinds
    BY <1>3
  <2>2. i + d = j + d
    BY <2>1 DEF OneOf
  <2> QED
    BY <1>2, <2>2
<1>6. NoneOf(old, kinds) => OneOf(new, kinds)
  BY <1>1 DEF NoneOf, OneOf
<1> QED
  BY <1>4, <1>5, <1>6

\* A request of the backlog was there before, or is req.
LEMMA MovesFrom ==
  ASSUME NEW old, NEW new, NEW d, NEW p, NEW req, Moves(old, new, d, p, req),
         NEW i \in DOMAIN new, new[i].request.kind \in RequestKinds, new[i].request # req
  PROVE  \E j \in DOMAIN old : old[j].request = new[i].request
  BY DEF Moves

\* A step that brings no blocking request to the worker and none of their answers.
LEMMA BlockingRests ==
  ASSUME TypeOK', BlockingFlight, loop' = "running" => loop = "running",
         UNCHANGED <<pending_blocking, blocking_responses>>, NEW req,
         req.kind \notin BlockingKinds,
         NEW d \in Nat, NEW p, Moves(Backlog, Backlog', d, p, req)
  PROVE  BlockingFlight'
<1>1. PICK old, new : old = Backlog /\ new = Backlog'
  OBVIOUS
<1>2. DOMAIN new \subseteq Nat /\ Moves(old, new, d, p, req)
  BY <1>1, Places
<1>3. BlockingKinds \in SUBSET RequestKinds
  BY DEF RequestKinds
<1>4. /\ NoneOf(old, BlockingKinds) => NoneOf(new, BlockingKinds)
      /\ OneOf(old, BlockingKinds) => OneOf(new, BlockingKinds)
  BY ONLY <1>2, <1>3, MovesKeep, d \in Nat, req.kind \notin BlockingKinds
<1>6. ASSUME NEW i \in DOMAIN new, new[i].request.kind \in BlockingKinds
      PROVE  \E j \in DOMAIN old : old[j].request = new[i].request
  <2>1. new[i].request.kind \in RequestKinds /\ new[i].request # req
    BY ONLY <1>3, <1>6, req.kind \notin BlockingKinds
  <2> QED
    BY ONLY <1>2, <2>1, <1>6, MovesFrom
<1>5. ASSUME loop' = "running"
      PROVE  /\ OneOf(new, BlockingKinds)
             /\ \A i \in DOMAIN new : new[i].request.kind \in BlockingKinds =>
                   new[i].request = pending_blocking
             /\ blocking_responses # <<>> =>
                   /\ Len(blocking_responses) = 1 /\ blocking_responses[1] = pending_blocking
                   /\ NoneOf(new, BlockingKinds)
  <2>1. /\ OneOf(old, BlockingKinds)
        /\ \A i \in DOMAIN old : old[i].request.kind \in BlockingKinds =>
              old[i].request = pending_blocking
        /\ blocking_responses # <<>> =>
              /\ Len(blocking_responses) = 1 /\ blocking_responses[1] = pending_blocking
              /\ NoneOf(old, BlockingKinds)
    BY <1>1, <1>5 DEF BlockingFlight
  <2> QED
    BY ONLY <1>4, <1>6, <2>1
<1> QED
  BY <1>1, <1>5 DEF BlockingFlight, OneOf, NoneOf

\* The same of a refresh; the answers of its kind may move up by e places.
LEMMA RefreshMoves ==
  ASSUME TypeOK', NEW kind \in RefreshKinds, RefreshOf(kind),
         kind \in pending_concurrent' <=> kind \in pending_concurrent, NEW req, req.kind # kind,
         NEW d \in Nat, NEW p, Moves(Backlog, Backlog', d, p, req), NEW e \in Nat,
         \A i \in DOMAIN concurrent_responses' : concurrent_responses'[i].kind = kind =>
            i + e \in DOMAIN concurrent_responses /\ concurrent_responses[i + e].kind = kind
  PROVE  RefreshOf(kind)'
<1>1. PICK old, new : old = Backlog /\ new = Backlog'
  OBVIOUS
<1>2. DOMAIN new \subseteq Nat /\ Moves(old, new, d, p, req)
  BY <1>1, Places
<1>3. {kind} \in SUBSET RequestKinds /\ req.kind \notin {kind}
  BY DEF RequestKinds, ConcurrentKinds
<1>4. /\ NoneOf(old, {kind}) => NoneOf(new, {kind})
      /\ OneOf(old, {kind}) => OneOf(new, {kind})
  BY ONLY <1>2, <1>3, MovesKeep, d \in Nat
<1>5. /\ OneOf(old, {kind})
      /\ kind \notin pending_concurrent => NoneOf(old, {kind})
      /\ \A i \in DOMAIN concurrent_responses : concurrent_responses[i].kind = kind =>
            kind \in pending_concurrent /\ NoneOf(old, {kind})
  BY <1>1 DEF RefreshOf
<1>6. /\ OneOf(new, {kind})
      /\ kind \notin pending_concurrent' => NoneOf(new, {kind})
      /\ \A i \in DOMAIN concurrent_responses' : concurrent_responses'[i].kind = kind =>
            kind \in pending_concurrent' /\ NoneOf(new, {kind})
  BY <1>4, <1>5
<1>7. ASSUME NEW i \in DOMAIN concurrent_responses', NEW j \in DOMAIN concurrent_responses',
             concurrent_responses'[i].kind = kind, concurrent_responses'[j].kind = kind
      PROVE  i = j
  <2>1. DOMAIN concurrent_responses' \subseteq Nat
    BY DEF TypeOK, ReplyOK
  <2>2. i + e = j + e
    BY <1>7 DEF RefreshOf
  <2> QED
    BY ONLY <1>7, <2>1, <2>2, e \in Nat
<1> QED
  BY <1>1, <1>6, <1>7 DEF RefreshOf, OneOf, NoneOf

\* So it is with the answers where they were.
LEMMA RefreshRests ==
  ASSUME TypeOK', NEW kind \in RefreshKinds, RefreshOf(kind), UNCHANGED concurrent_responses,
         kind \in pending_concurrent' <=> kind \in pending_concurrent, NEW req, req.kind # kind,
         NEW d \in Nat, NEW p, Moves(Backlog, Backlog', d, p, req)
  PROVE  RefreshOf(kind)'
<1>1. \A i \in DOMAIN concurrent_responses' : concurrent_responses'[i].kind = kind =>
         i + 0 \in DOMAIN concurrent_responses /\ concurrent_responses[i + 0].kind = kind
  BY DEF TypeOK, ReplyOK
<1> QED
  BY <1>1, RefreshMoves

\* A refresh with no command and no answer left, or with none but a new one.
LEMMA RefreshAlone ==
  ASSUME TypeOK', NEW kind \in RefreshKinds, NEW req, NoneOf(Backlog, {kind}),
         NEW d \in Nat, NEW p, Moves(Backlog, Backlog', d, p, req),
         req.kind = kind => kind \in pending_concurrent',
         \A i \in DOMAIN concurrent_responses' : concurrent_responses'[i].kind # kind
  PROVE  RefreshOf(kind)'
<1>1. PICK old, new : old = Backlog /\ new = Backlog'
  OBVIOUS
<1>2. DOMAIN new \subseteq Nat /\ Moves(old, new, d, p, req) /\ NoneOf(old, {kind})
  BY <1>1, Places
<1>3. {kind} \in SUBSET RequestKinds
  BY DEF RequestKinds, ConcurrentKinds
<1>4. OneOf(new, {kind}) /\ (req.kind \notin {kind} => NoneOf(new, {kind}))
  BY ONLY <1>2, <1>3, MovesKeep, d \in Nat
<1>5. kind \notin pending_concurrent' => NoneOf(new, {kind})
  BY <1>4
<1> QED
  BY <1>1, <1>4, <1>5 DEF RefreshOf, OneOf, NoneOf

\* A step that adds no request and leaves the stage and the answers alone.
LEMMA FlightRests ==
  ASSUME TypeOK', FlightInv, loop' = "running" => loop = "running",
         UNCHANGED <<pending_blocking, pending_concurrent, replyVars>>, queued' \in Seq(Waits),
         NEW d \in Nat, NEW p, Moves(Backlog, Backlog', d, p, NoRequest)
  PROVE  FlightInv'
<1> USE DEF replyVars, FlightInv
<1>1. \A kind \in RequestKinds : NoRequest.kind # kind
  BY KindsApart
<1>2. BlockingFlight'
  BY <1>1, BlockingRests DEF RequestKinds
<1>3. RefreshFlight'
  BY <1>1, RefreshRests DEF RefreshFlight, RequestKinds, ConcurrentKinds
<1> QED
  BY <1>2, <1>3

\* Nothing is in flight while no blocking request is pending.
LEMMA NoneInFlight ==
  ASSUME TypeOK, BlockingFlight, loop = "running", pending_blocking = NoRequest
  PROVE  NoneOf(Backlog, BlockingKinds) /\ blocking_responses = <<>>
<1>1. \A kind \in BlockingKinds : NoRequest.kind # kind
  BY KindsApart DEF RequestKinds
<1>2. NoneOf(Backlog, BlockingKinds)
  BY <1>1 DEF BlockingFlight, NoneOf
<1>3. NoRequest \notin Request
  BY KindsApart DEF Request
<1>4. blocking_responses \in Seq(Request)
  BY DEF TypeOK, ReplyOK
<1>5. ASSUME blocking_responses # <<>> PROVE FALSE
  <2>1. Len(blocking_responses) = 1 /\ blocking_responses[1] = NoRequest
    BY <1>5 DEF BlockingFlight
  <2>2. blocking_responses[1] \in Request
    BY <1>4, <2>1
  <2> QED
    BY <1>3, <2>1, <2>2
<1> QED
  BY <1>2, <1>5

\* The answered blocking request leaves nothing in flight.
LEMMA BlockingEnds ==
  ASSUME TypeOK', NoneOf(Backlog, BlockingKinds), blocking_responses' = <<>>,
         NEW d \in Nat, NEW p, Moves(Backlog, Backlog', d, p, NoRequest)
  PROVE  BlockingFlight'
<1>1. PICK old, new : old = Backlog /\ new = Backlog'
  OBVIOUS
<1>2. DOMAIN new \subseteq Nat /\ Moves(old, new, d, p, NoRequest) /\ NoneOf(old, BlockingKinds)
  BY <1>1, Places
<1>3. BlockingKinds \in SUBSET RequestKinds /\ NoRequest.kind \notin BlockingKinds
  BY KindsApart DEF RequestKinds
<1>4. NoneOf(new, BlockingKinds)
  BY ONLY <1>2, <1>3, MovesKeep, d \in Nat
<1> QED
  BY <1>1, <1>4 DEF BlockingFlight, OneOf, NoneOf

\* A blocking request that is sent while none is pending is the only one.
LEMMA BlockingStarts ==
  ASSUME TypeOK, TypeOK', FlightInv, loop = "running", pending_blocking = NoRequest,
         NEW req, req.kind \in BlockingKinds, pending_blocking' = req,
         UNCHANGED <<pending_concurrent, replyVars>>, queued' \in Seq(Waits),
         NEW d \in Nat, NEW p, Moves(Backlog, Backlog', d, p, req)
  PROVE  FlightInv'
<1> USE DEF replyVars, FlightInv
<1>1. PICK old, new : old = Backlog /\ new = Backlog'
  OBVIOUS
<1>2. DOMAIN new \subseteq Nat /\ Moves(old, new, d, p, req)
  BY <1>1, Places
<1>3. NoneOf(old, BlockingKinds) /\ blocking_responses = <<>>
  BY <1>1, NoneInFlight
<1>4. BlockingKinds \in SUBSET RequestKinds
  BY DEF RequestKinds
<1>5. OneOf(new, BlockingKinds)
  BY ONLY <1>2, <1>3, <1>4, MovesKeep, d \in Nat
<1>6. ASSUME NEW i \in DOMAIN new, new[i].request.kind \in BlockingKinds,
             new[i].request # req
      PROVE  FALSE
  <2>1. new[i].request.kind \in RequestKinds
    BY ONLY <1>4, <1>6
  <2>2. PICK j \in DOMAIN old : old[j].request = new[i].request
    BY ONLY <1>2, <1>6, <2>1, MovesFrom
  <2> QED
    BY ONLY <1>3, <1>6, <2>2 DEF NoneOf
<1>7. BlockingFlight'
  BY <1>1, <1>3, <1>5, <1>6 DEF BlockingFlight, OneOf, NoneOf
<1>8. RefreshFlight'
  BY KindsApart, RefreshRests DEF RefreshFlight
<1> QED
  BY <1>7, <1>8

\* The served request is out of the backlog.
LEMMA ServedOut ==
  ASSUME TypeOK, TypeOK', job' = NoJob, UNCHANGED <<commands, outbox>>
  PROVE  /\ Moves(Backlog, Backlog', 0, 0, NoRequest)
         /\ \A kinds \in SUBSET RequestKinds :
               job.request.kind \in kinds =>
                  /\ 1 \in DOMAIN Backlog /\ Backlog[1].request.kind \in kinds
                  /\ Backlog[1].request = job.request
                  /\ OneOf(Backlog, kinds) => NoneOf(Backlog', kinds)
<1>1. /\ commands \in Seq(WorkerCommand) /\ outbox \in Seq(WorkerCommand)
      /\ job \in WorkerCommand \cup {NoJob}
  BY DEF TypeOK, CommandsOK, RuntimeOK
<1>0. PICK old, new : old = Backlog /\ new = Backlog'
  OBVIOUS
<1>2. PICK n \in Nat, m \in Nat : n = Len(commands) /\ m = Len(outbox)
  BY <1>1
<1>3. old = <<job>> \o commands \o outbox /\ new = <<NoJob>> \o commands \o outbox
  BY <1>0 DEF Backlog
<1>4. Moves(old, new, 0, 0, NoRequest)
  BY ONLY <1>1, <1>3, QuietMoves
<1>5. /\ DOMAIN old = 1..(1 + n + m)
      /\ \A i \in 1..(1 + n + m) :
            old[i] = IF i = 1 THEN job
                     ELSE IF i <= 1 + n THEN commands[i - 1] ELSE outbox[i - 1 - n]
  BY <1>1, <1>2, <1>3, Entries
<1>6. /\ DOMAIN new = 1..(1 + n + m)
      /\ \A i \in 1..(1 + n + m) :
            new[i] = IF i = 1 THEN NoJob
                     ELSE IF i <= 1 + n THEN commands[i - 1] ELSE outbox[i - 1 - n]
  BY <1>1, <1>2, <1>3, Entries
<1>7. ASSUME NEW kinds \in SUBSET RequestKinds, job.request.kind \in kinds
      PROVE  /\ 1 \in DOMAIN old /\ old[1].request.kind \in kinds
             /\ old[1].request = job.request
             /\ OneOf(old, kinds) => NoneOf(new, kinds)
  <2>1. 1 \in DOMAIN old /\ old[1] = job
    BY ONLY <1>2, <1>5
  <2>2. NoJob.request.kind \notin kinds
    BY KindsApart DEF NoJob, Plain
  <2>3. \A i \in DOMAIN new : i = 1 \/ (i \in DOMAIN old /\ new[i] = old[i])
    BY ONLY <1>5, <1>6
  <2>4. new[1] = NoJob
    BY ONLY <1>2, <1>6
  <2>5. OneOf(old, kinds) => NoneOf(new, kinds)
    BY <1>7, <2>1, <2>2, <2>3, <2>4 DEF OneOf, NoneOf
  <2> QED
    BY <1>7, <2>1, <2>5
<1> QED
  BY <1>0, <1>4, <1>7

\* A step that leaves the backlog, the stage and the answers alone.
LEMMA FlightFrame ==
  ASSUME FlightInv, loop' = "running" => loop = "running",
         UNCHANGED <<job, commands, outbox, pending_blocking, pending_concurrent, replyVars>>,
         queued' \in Seq(Waits)
  PROVE  FlightInv'
<1>1. UNCHANGED <<Backlog, pending_blocking, pending_concurrent, blocking_responses,
                  concurrent_responses>>
  BY DEF Backlog, replyVars
<1> QED
  BY <1>1 DEF FlightInv, BlockingFlight, RefreshFlight, RefreshOf, NoneOf, OneOf

\* What the loop sends beside the requests of the stage carries none.
LEMMA SlashRequests ==
  ASSUME NEW text, NEW task
  PROVE  NoneOf(SlashCommands(text, task), RequestKinds)
<1>1. NoRequest.kind \notin RequestKinds
  BY KindsApart
<1> QED
  BY <1>1 DEF NoneOf, SlashCommands, ExecuteTurn, NewSession, Plain
\* Neither does a compaction.
LEMMA CompactionRequests ==
  NoneOf(<<RunCompaction>>, RequestKinds) /\ NoneOf(<<>>, RequestKinds)
<1>1. NoRequest.kind \notin RequestKinds
  BY KindsApart
<1> QED
  BY <1>1 DEF NoneOf, RunCompaction, Plain

\* A handler that sends no request moves none.
LEMMA SendsMove ==
  ASSUME TypeOK, outbox = <<>>, job' = job, NEW cmds \in Seq(WorkerCommand), NEW break,
         Finish(break, cmds), NoneOf(cmds, RequestKinds)
  PROVE  \E p : Moves(Backlog, Backlog', 0, p, NoRequest)
<1>1. PICK p \in Nat \ {0} : p = Len(cmds) + 1
  OBVIOUS
<1>2. \A i \in DOMAIN cmds : i # p
  BY <1>1
<1>3. \A i \in DOMAIN cmds : IF i = p THEN cmds[i].request = NoRequest
                             ELSE cmds[i].request.kind \notin RequestKinds
  BY <1>2 DEF NoneOf
<1>4. CommandsOK /\ job \in WorkerCommand \cup {NoJob}
  BY DEF TypeOK, RuntimeOK
<1> QED
  BY <1>1, <1>3, <1>4, FinishMoves

\* A handler that sends a request first moves that one only.
LEMMA RequestMoves ==
  ASSUME TypeOK, outbox = <<>>, job' = job, NEW cmds \in Seq(WorkerCommand), NEW break,
         Finish(break, cmds), NEW req, cmds # <<>>, cmds[1].request = req,
         \A i \in DOMAIN cmds : i # 1 => cmds[i].request.kind \notin RequestKinds
  PROVE  \E p : Moves(Backlog, Backlog', 0, p, req)
<1>1. CommandsOK /\ job \in WorkerCommand \cup {NoJob}
  BY DEF TypeOK, RuntimeOK
<1>2. PICK p \in Nat \ {0} : p = 1
  OBVIOUS
<1>3. \A i \in DOMAIN cmds : IF i = p THEN cmds[i].request = req
                             ELSE cmds[i].request.kind \notin RequestKinds
  BY <1>2
<1> QED
  BY <1>1, <1>3, FinishMoves

\* So does one that sends nothing else.
LEMMA RequestSent ==
  ASSUME TypeOK, outbox = <<>>, job' = job, NEW req \in Request,
         Finish(FALSE, <<HandleUiRequest(req)>>)
  PROVE  \E p : Moves(Backlog, Backlog', 0, p, req)
<1>1. PICK cmd \in WorkerCommand : cmd = HandleUiRequest(req)
  BY CommandTypes
<1>2. cmd.request = req
  BY <1>1 DEF HandleUiRequest
<1>3. PICK cmds : cmds = <<cmd>>
  OBVIOUS
<1>4. /\ cmds \in Seq(WorkerCommand) /\ cmds # <<>> /\ cmds[1].request = req
      /\ \A i \in DOMAIN cmds : i # 1 => cmds[i].request.kind \notin RequestKinds
  BY <1>2, <1>3
<1>5. Finish(FALSE, cmds)
  BY <1>1, <1>3, Zenon
<1> QED
  BY <1>4, <1>5, RequestMoves

\* A handler that sends no request and leaves the stage and the answers alone.
LEMMA FlightSends ==
  ASSUME TypeOK, TypeOK', FlightInv, loop = "running", outbox = <<>>, job' = job,
         NEW cmds \in Seq(WorkerCommand), NEW break, Finish(break, cmds),
         NoneOf(cmds, RequestKinds),
         UNCHANGED <<pending_blocking, pending_concurrent, replyVars>>, queued' \in Seq(Waits)
  PROVE  FlightInv'
<1>1. PICK p : Moves(Backlog, Backlog', 0, p, NoRequest)
  BY SendsMove
<1> QED
  BY <1>1, FlightRests

\* A toggle or a refresh that is sent.
LEMMA ConcurrentStarts ==
  ASSUME TypeOK, TypeOK', FlightInv, loop = "running", outbox = <<>>, job' = job,
         NEW req \in Request, req.kind \in Servers \cup (RefreshKinds \ pending_concurrent),
         pending_concurrent' = pending_concurrent \cup {req.kind},
         Finish(FALSE, <<HandleUiRequest(req)>>),
         UNCHANGED <<pending_blocking, replyVars, queued>>
  PROVE  FlightInv'
<1>3. PICK p : Moves(Backlog, Backlog', 0, p, req)
  BY RequestSent
<1>4. req.kind \notin BlockingKinds
  BY KindsApart
<1>5. BlockingFlight'
  BY <1>3, <1>4, BlockingRests DEF FlightInv, replyVars
<1>6. ASSUME NEW kind \in RefreshKinds PROVE RefreshOf(kind)'
  <2>1. RefreshOf(kind)
    BY DEF FlightInv, RefreshFlight
  <2>2. CASE req.kind # kind
    BY <1>3, <2>1, <2>2, RefreshRests DEF replyVars
  <2>3. CASE req.kind = kind
    <3>1. kind \notin pending_concurrent
      BY <2>3, KindsApart
    <3>2. /\ NoneOf(Backlog, {kind})
          /\ \A i \in DOMAIN concurrent_responses : concurrent_responses[i].kind # kind
      BY <2>1, <3>1 DEF RefreshOf
    <3> QED
      BY <1>3, <2>3, <3>2, RefreshAlone DEF replyVars
  <2> QED
    BY <2>2, <2>3
<1> QED
  BY <1>5, <1>6 DEF FlightInv, RefreshFlight

\* A switch that is dispatched.
LEMMA SwitchStarts ==
  ASSUME TypeOK, TypeOK', FlightInv, loop = "running", outbox = <<>>, job' = job,
         NEW req \in Request, req.kind \in BlockingKinds, ~MustQueue, pending_blocking' = req,
         Finish(FALSE, <<HandleUiRequest(req)>>),
         UNCHANGED <<pending_concurrent, replyVars, queued>>
  PROVE  FlightInv'
<1>1. PICK p : Moves(Backlog, Backlog', 0, p, req)
  BY RequestSent
<1>2. pending_blocking = NoRequest
  BY DEF MustQueue
<1> QED
  BY <1>1, <1>2, BlockingStarts DEF FlightInv

\* The end of a turn dispatches the first switch that waits.
LEMMA TurnResultFlight ==
  ASSUME TypeOK, TypeOK', FlightInv, HandleWorkerResult PROVE FlightInv'
<1> DEFINE blocking == IF Drained = NoRequest THEN pending_blocking ELSE Drained
           entry == Released(FALSE, blocking)
           compaction == IF pending_compaction THEN <<RunCompaction>> ELSE <<>>
           prompt == SlashCommands(entry.text, entry.task_id)
           requests == IF Drained = NoRequest THEN <<>> ELSE <<HandleUiRequest(Drained)>>
<1>1. /\ Finish(quit_pending, requests \o compaction \o prompt) /\ outbox = <<>>
      /\ loop = "running" /\ job' = job /\ pending_blocking' = blocking
      /\ queued' = IF Drained = NoRequest THEN queued ELSE Tail(queued)
      /\ UNCHANGED <<pending_concurrent, replyVars>>
  BY DEF HandleWorkerResult, Polling, runtimeVars
<1>2. entry \in DeferredPrompt \cup {NoPrompt}
  BY DEF Released, TypeOK, IntakeOK
<1>3. prompt \in Seq(WorkerCommand) /\ NoneOf(prompt, RequestKinds)
  BY <1>2, PromptFields, SlashCommandsType, SlashRequests
<1>4. compaction \in Seq(WorkerCommand) /\ NoneOf(compaction, RequestKinds)
  BY CommandTypes, CompactionRequests
<1> HIDE DEF entry, compaction, prompt
<1>5. CASE Drained = NoRequest
  <2>1. requests \o compaction \o prompt = compaction \o prompt
    BY <1>4, <1>5
  <2>2. PICK cmds : cmds = compaction \o prompt
    OBVIOUS
  <2>3. /\ cmds \in Seq(WorkerCommand) /\ Len(cmds) = Len(compaction) + Len(prompt)
        /\ \A i \in 1..Len(cmds) : cmds[i] = IF i <= Len(compaction) THEN compaction[i]
                                             ELSE prompt[i - Len(compaction)]
    BY ONLY <1>3, <1>4, <2>2, ConcatProperties
  <2>4. NoneOf(cmds, RequestKinds)
    <3>1. ASSUME NEW i \in DOMAIN cmds
          PROVE  \/ i \in DOMAIN compaction /\ cmds[i] = compaction[i]
                 \/ i - Len(compaction) \in DOMAIN prompt /\ cmds[i] = prompt[i - Len(compaction)]
      BY ONLY <1>3, <1>4, <2>3, <3>1
    <3> QED
      BY <1>3, <1>4, <3>1 DEF NoneOf
  <2>5. Finish(quit_pending, cmds) /\ queued' \in Seq(Waits)
        /\ UNCHANGED <<pending_blocking, pending_concurrent, replyVars>>
    BY <1>1, <1>5, <2>1, <2>2 DEF FlightInv
  <2> QED
    BY <1>1, <2>3, <2>4, <2>5, FlightSends
<1>6. CASE Drained # NoRequest
  <2>1. pending_blocking = NoRequest /\ queued # <<>> /\ Drained = Head(queued)
    BY <1>6 DEF Drained
  <2>2. Drained \in Waits /\ Drained \in Request /\ Tail(queued) \in Seq(Waits)
    BY <2>1, HeadTail DEF FlightInv, TypeOK, StageOK
  <2>3. PICK req \in Request : req = Drained /\ req.kind \in BlockingKinds
    BY <2>2 DEF Waits, BlockingKinds
  <2>4. PICK cmd \in WorkerCommand : cmd = HandleUiRequest(req)
    BY CommandTypes
  <2>5. cmd.request = req
    BY <2>4 DEF HandleUiRequest
  <2>6. PICK cmds : cmds = <<cmd>> \o compaction \o prompt
    OBVIOUS
  <2>7. /\ DOMAIN cmds = 1..(1 + Len(compaction) + Len(prompt))
        /\ \A i \in 1..(1 + Len(compaction) + Len(prompt)) :
              cmds[i] = IF i = 1 THEN cmd
                        ELSE IF i <= 1 + Len(compaction) THEN compaction[i - 1]
                        ELSE prompt[i - 1 - Len(compaction)]
    BY ONLY <1>3, <1>4, <2>4, <2>6, Entries
  <2>8. cmds \in Seq(WorkerCommand)
    BY ONLY <1>3, <1>4, <2>4, <2>6, ConcatProperties
  <2>9. ASSUME NEW i \in DOMAIN cmds, i # 1
        PROVE  \/ i - 1 \in DOMAIN compaction /\ cmds[i] = compaction[i - 1]
               \/ /\ i - 1 - Len(compaction) \in DOMAIN prompt
                  /\ cmds[i] = prompt[i - 1 - Len(compaction)]
    BY ONLY <1>3, <1>4, <2>7, <2>9
  <2>10. \A i \in DOMAIN cmds : i # 1 => cmds[i].request.kind \notin RequestKinds
    BY <1>3, <1>4, <2>9 DEF NoneOf
  <2>11. cmds # <<>> /\ cmds[1].request = req
    BY <1>3, <1>4, <2>5, <2>7
  <2>12. Finish(quit_pending, cmds)
    BY <1>1, <1>6, <2>3, <2>4, <2>6
  <2>13. PICK p : Moves(Backlog, Backlog', 0, p, req)
    BY <1>1, <2>8, <2>10, <2>11, <2>12, RequestMoves
  <2>14. pending_blocking' = req /\ queued' \in Seq(Waits)
    BY <1>1, <1>6, <2>2, <2>3
  <2> QED
    BY <1>1, <2>1, <2>3, <2>13, <2>14, BlockingStarts
<1> QED
  BY <1>5, <1>6

\* The answer of a switch is the only one, and nothing of its kind is left.
LEMMA SwitchAnswered ==
  ASSUME TypeOK, TypeOK', FlightInv, HandleBlockingResponse PROVE FlightInv'
<1> DEFINE entry == Released(worker_active, NoRequest)
           cmds == SlashCommands(entry.text, entry.task_id)
           break == QuitAfter(NoRequest, pending_concurrent)
<1>1. /\ Finish(break, cmds) /\ outbox = <<>> /\ loop = "running" /\ job' = job
      /\ blocking_responses # <<>> /\ blocking_responses' = Tail(blocking_responses)
      /\ UNCHANGED <<pending_concurrent, concurrent_responses, queued>>
  BY DEF HandleBlockingResponse, Polling, runtimeVars
<1>2. entry \in DeferredPrompt \cup {NoPrompt}
  BY DEF Released, TypeOK, IntakeOK
<1>3. cmds \in Seq(WorkerCommand) /\ NoneOf(cmds, RequestKinds)
  BY <1>2, PromptFields, SlashCommandsType, SlashRequests
<1> HIDE DEF entry, cmds, break
<1>4. PICK p : Moves(Backlog, Backlog', 0, p, NoRequest)
  BY <1>1, <1>3, SendsMove
<1>5. NoneOf(Backlog, BlockingKinds) /\ Len(blocking_responses) = 1
  BY <1>1 DEF FlightInv, BlockingFlight
<1>6. blocking_responses' = <<>>
  BY <1>1, <1>5 DEF TypeOK, ReplyOK
<1>7. BlockingFlight'
  BY <1>4, <1>5, <1>6, BlockingEnds
<1>8. \A kind \in RefreshKinds : NoRequest.kind # kind
  BY KindsApart DEF RequestKinds, ConcurrentKinds
<1>9. RefreshFlight'
  BY <1>1, <1>4, <1>8, RefreshRests DEF FlightInv, RefreshFlight
<1> QED
  BY <1>1, <1>7, <1>9 DEF FlightInv

\* The answer of a refresh is the only one of its kind.
LEMMA ConcurrentAnswered ==
  ASSUME TypeOK, TypeOK', FlightInv, HandleConcurrentResponse PROVE FlightInv'
<1> DEFINE break == QuitAfter(pending_blocking, pending_concurrent')
<1>1. /\ Finish(break, <<>>) /\ outbox = <<>> /\ loop = "running" /\ job' = job
      /\ concurrent_responses # <<>> /\ concurrent_responses' = Tail(concurrent_responses)
      /\ pending_concurrent' = pending_concurrent \ {Head(concurrent_responses).kind}
      /\ UNCHANGED <<pending_blocking, blocking_responses, queued>>
  BY DEF HandleConcurrentResponse, Polling, runtimeVars, Unanswered
<1> HIDE DEF break
<1>2. PICK cmds : cmds = <<>>
  OBVIOUS
<1>3. cmds \in Seq(WorkerCommand) /\ NoneOf(cmds, RequestKinds) /\ Finish(break, cmds)
  BY <1>1, <1>2, CompactionRequests
<1>4. PICK p : Moves(Backlog, Backlog', 0, p, NoRequest)
  BY <1>1, <1>3, SendsMove
<1>5. \A kind \in RequestKinds : NoRequest.kind # kind
  BY KindsApart
<1>6. BlockingFlight'
  BY <1>1, <1>4, <1>5, BlockingRests DEF FlightInv, RequestKinds
<1>7. /\ concurrent_responses \in Seq(Request)
      /\ 1 \in DOMAIN concurrent_responses
      /\ Head(concurrent_responses) = concurrent_responses[1]
      /\ \A i \in DOMAIN concurrent_responses' :
            /\ i + 1 \in DOMAIN concurrent_responses /\ i + 1 # 1
            /\ concurrent_responses'[i] = concurrent_responses[i + 1]
  BY <1>1 DEF TypeOK, ReplyOK
<1>8. ASSUME NEW kind \in RefreshKinds PROVE RefreshOf(kind)'
  <2>1. RefreshOf(kind) /\ NoRequest.kind # kind
    BY <1>1, <1>5 DEF FlightInv, RefreshFlight, RequestKinds, ConcurrentKinds
  <2>2. CASE concurrent_responses[1].kind = kind
    <3>1. NoneOf(Backlog, {kind})
      BY <1>7, <2>1, <2>2 DEF RefreshOf
    <3>2. \A i \in DOMAIN concurrent_responses' : concurrent_responses'[i].kind # kind
      BY <1>7, <2>1, <2>2 DEF RefreshOf
    <3> QED
      BY <1>4, <2>1, <3>1, <3>2, RefreshAlone
  <2>3. CASE concurrent_responses[1].kind # kind
    <3>1. kind \in pending_concurrent' <=> kind \in pending_concurrent
      BY <1>1, <1>7, <2>3
    <3>2. \A i \in DOMAIN concurrent_responses' : concurrent_responses'[i].kind = kind =>
             i + 1 \in DOMAIN concurrent_responses /\ concurrent_responses[i + 1].kind = kind
      BY <1>7
    <3> QED
      BY <1>4, <2>1, <3>1, <3>2, RefreshMoves
  <2> QED
    BY <2>2, <2>3
<1> QED
  BY <1>1, <1>6, <1>8 DEF FlightInv, RefreshFlight

\* The answer of a switch leaves when its command has been served.
LEMMA SwitchServed ==
  ASSUME TypeOK, TypeOK', FlightInv, ServeRequest, job.request.kind \in BlockingKinds
  PROVE  FlightInv'
<1>1. /\ job' = NoJob
      /\ blocking_responses' = Delivered(blocking_responses, job.request)
      /\ UNCHANGED <<loop, commands, outbox, pending_blocking, pending_concurrent, queued,
                     concurrent_responses>>
  BY KindsApart DEF ServeRequest, stageVars, ConcurrentKinds
<1>2. PICK old, new : old = Backlog /\ new = Backlog'
  OBVIOUS
<1>3. BlockingKinds \in SUBSET RequestKinds
  BY DEF RequestKinds
<1>4. /\ Moves(Backlog, Backlog', 0, 0, NoRequest)
      /\ 1 \in DOMAIN old /\ old[1].request = job.request
      /\ OneOf(old, BlockingKinds) => NoneOf(new, BlockingKinds)
  BY <1>1, <1>2, <1>3, ServedOut
<1>5. ASSUME loop = "running"
      PROVE  /\ NoneOf(new, BlockingKinds) /\ job.request = pending_blocking
             /\ blocking_responses' = <<job.request>>
  <2>1. /\ OneOf(old, BlockingKinds)
        /\ old[1].request.kind \in BlockingKinds => old[1].request = pending_blocking
        /\ blocking_responses # <<>> => NoneOf(old, BlockingKinds)
    BY <1>2, <1>4, <1>5 DEF FlightInv, BlockingFlight
  <2>2. blocking_responses = <<>>
    BY <1>4, <2>1 DEF NoneOf
  <2>3. blocking_responses' = Append(<<>>, job.request)
    BY <1>1, <1>5, <2>2 DEF Delivered, LoopListens
  <2> QED
    BY <1>4, <2>1, <2>3
<1>6. BlockingFlight'
  BY <1>1, <1>2, <1>5 DEF BlockingFlight, OneOf, NoneOf
<1>7. \A kind \in RefreshKinds : NoRequest.kind # kind
  BY KindsApart DEF RequestKinds, ConcurrentKinds
<1>8. RefreshFlight'
  BY <1>1, <1>4, <1>7, RefreshRests DEF FlightInv, RefreshFlight
<1> QED
  BY <1>1, <1>6, <1>8 DEF FlightInv

\* So does the answer of a refresh or a toggle.
LEMMA ConcurrentServed ==
  ASSUME TypeOK, TypeOK', FlightInv, ServeRequest, job.request.kind \notin BlockingKinds
  PROVE  FlightInv'
<1>1. /\ job' = NoJob /\ job.request.kind \in ConcurrentKinds
      /\ concurrent_responses' = Delivered(concurrent_responses, job.request)
      /\ UNCHANGED <<loop, commands, outbox, pending_blocking, pending_concurrent, queued,
                     blocking_responses>>
  BY DEF ServeRequest, stageVars
<1>2. PICK old, new : old = Backlog /\ new = Backlog'
  OBVIOUS
<1>3. Moves(Backlog, Backlog', 0, 0, NoRequest)
  BY <1>1, ServedOut
<1>4. \A kind \in RequestKinds : NoRequest.kind # kind
  BY KindsApart
<1>5. BlockingFlight'
  BY <1>1, <1>3, <1>4, BlockingRests DEF FlightInv, RequestKinds
<1>6. ASSUME loop = "running"
      PROVE  /\ concurrent_responses \in Seq(Request)
             /\ concurrent_responses' = Append(concurrent_responses, job.request)
  BY <1>1, <1>6 DEF Delivered, LoopListens, TypeOK, ReplyOK
<1>7. ASSUME loop = "running", NEW kind \in RefreshKinds PROVE RefreshOf(kind)'
  <2>1. RefreshOf(kind) /\ NoRequest.kind # kind
    BY <1>4, <1>7 DEF FlightInv, RefreshFlight, RequestKinds, ConcurrentKinds
  <2>2. PICK n \in Nat : n = Len(concurrent_responses)
    BY <1>6, <1>7
  <2>3. /\ DOMAIN concurrent_responses = 1..n /\ DOMAIN concurrent_responses' = 1..(n + 1)
        /\ \A i \in 1..n : concurrent_responses'[i] = concurrent_responses[i]
        /\ concurrent_responses'[n + 1] = job.request
    BY <1>6, <1>7, <2>2
  <2>4. CASE job.request.kind # kind
    <3>1. ASSUME NEW i \in DOMAIN concurrent_responses', concurrent_responses'[i].kind = kind
          PROVE  i + 0 \in DOMAIN concurrent_responses /\ concurrent_responses[i + 0].kind = kind
      <4>1. i # n + 1
        BY <2>3, <2>4, <3>1
      <4>2. i \in 1..n /\ i + 0 = i
        BY ONLY <2>2, <2>3, <3>1, <4>1
      <4> QED
        BY <2>3, <3>1, <4>2
    <3> QED
      BY <1>1, <1>3, <2>1, <3>1, RefreshMoves
  <2>5. CASE job.request.kind = kind
    <3>1. {kind} \in SUBSET RequestKinds
      BY DEF RequestKinds, ConcurrentKinds
    <3>2. /\ 1 \in DOMAIN old /\ old[1].request.kind \in {kind}
          /\ OneOf(old, {kind}) => NoneOf(new, {kind})
      BY <1>1, <1>2, <2>5, <3>1, ServedOut
    <3>3. ~NoneOf(old, {kind})
      BY <3>2 DEF NoneOf
    <3>4. /\ OneOf(old, {kind}) /\ kind \in pending_concurrent
          /\ \A i \in DOMAIN concurrent_responses : concurrent_responses[i].kind # kind
      BY <1>2, <2>1, <3>3 DEF RefreshOf
    <3>5. NoneOf(new, {kind})
      BY <3>2, <3>4
    <3>6. \A i \in DOMAIN concurrent_responses' : concurrent_responses'[i].kind = kind => i = n + 1
      BY <2>2, <2>3, <3>4
    <3>7. OneOf(new, {kind})
      BY <3>5 DEF OneOf, NoneOf
    <3> QED
      BY <1>1, <1>2, <3>4, <3>5, <3>6, <3>7 DEF RefreshOf, OneOf, NoneOf
  <2> QED
    BY <2>4, <2>5
<1> QED
  BY <1>1, <1>5, <1>7 DEF FlightInv, RefreshFlight

\* The end of a job brings no request.
LEMMA WorkerMoves ==
  ASSUME TypeOK, TypeOK', FlightInv, loop' = loop, job' = NoJob,
         UNCHANGED <<commands, outbox, stageVars, replyVars>>
  PROVE  FlightInv'
<1>1. Moves(Backlog, Backlog', 0, 0, NoRequest)
  BY ServedOut
<1> QED
  BY <1>1, FlightRests DEF stageVars, FlightInv

\* Every step keeps what is in flight apart.
LEMMA FlightStep == TypeOK /\ TypeOK' /\ FlightInv /\ [Next]_vars => FlightInv'
<1> SUFFICES ASSUME TypeOK, TypeOK', FlightInv, [Next]_vars PROVE FlightInv'
  OBVIOUS
<1>0. /\ commands \in Seq(WorkerCommand) /\ outbox \in Seq(WorkerCommand)
      /\ job \in WorkerCommand \cup {NoJob} /\ queued \in Seq(Waits)
      /\ EventsOK
  BY DEF TypeOK, CommandsOK, RuntimeOK, FlightInv
<1>a. PICK old, new : old = Backlog /\ new = Backlog'
  OBVIOUS
<1>b. old = <<job>> \o commands \o outbox /\ new = <<job'>> \o commands' \o outbox'
  BY <1>a DEF Backlog
<1>c. <<>> \in Seq(WorkerCommand) /\ NoneOf(<<>>, RequestKinds)
  BY CompactionRequests
<1>1. CASE FlushOutbox
  <2>1. /\ commands' = Append(commands, Head(outbox)) /\ outbox # <<>> /\ outbox' = Tail(outbox)
        /\ UNCHANGED <<loop, job, pending_blocking, pending_concurrent, replyVars, queued>>
    BY <1>1 DEF FlushOutbox, stageVars, runtimeVars
  <2>2. new = <<job>> \o Append(commands, Head(outbox)) \o Tail(outbox)
    BY <1>b, <2>1
  <2>3. Moves(old, new, 0, 0, NoRequest)
    BY ONLY <1>0, <1>b, <2>1, <2>2, QuietMoves
  <2> QED
    BY <1>0, <1>a, <2>1, <2>3, FlightRests
<1>2. CASE DeferPrompt
  BY <1>0, <1>2, FlightFrame DEF DeferPrompt, stageVars, runtimeVars
<1>3. CASE SubmitPrompt
  <2> DEFINE text == Head(events).text
             cmds == SlashCommands(text, pending_a2a_task_id)
  <2>1. /\ Finish(FALSE, cmds) /\ outbox = <<>> /\ loop = "running" /\ job' = job
        /\ UNCHANGED <<pending_blocking, pending_concurrent, replyVars, queued>>
    BY <1>3 DEF SubmitPrompt, Got, Polling, stageVars, runtimeVars
  <2>2. text \in Text /\ pending_a2a_task_id \in Tasks \cup {NoTask}
    BY <1>3, TakeEvent, EventFields DEF SubmitPrompt, Got, TypeOK, IntakeOK, EventsOK
  <2>3. cmds \in Seq(WorkerCommand) /\ NoneOf(cmds, RequestKinds)
    BY <2>2, SlashCommandsType, SlashRequests
  <2> HIDE DEF text, cmds
  <2> QED
    BY <1>0, <2>1, <2>3, FlightSends
<1>4. CASE QueueRequest
  <2>1. PICK req : req = Head(events).request
    OBVIOUS
  <2>2. /\ req.kind \in {"model", "agent"} /\ queued' = Append(Without(queued, req.kind), req)
        /\ UNCHANGED <<loop, job, commands, outbox, pending_blocking, pending_concurrent, replyVars>>
    BY <1>4, <2>1 DEF QueueRequest, runtimeVars
  <2>3. req \in Request
    BY <1>4, <2>1, TakeEvent, EventFields DEF QueueRequest, Got, TypeOK, EventsOK
  <2>4. req \in Waits
    BY <2>2, <2>3 DEF Waits, Request
  <2>5. PICK rest \in Seq(Waits) : rest = Without(queued, req.kind)
    BY <1>0, WithoutType
  <2>6. queued' \in Seq(Waits)
    BY <2>2, <2>4, <2>5
  <2> QED
    BY <2>2, <2>6, FlightFrame
<1>5. CASE DispatchBlocking
  <2>1. PICK req : req = Head(events).request
    OBVIOUS
  <2>2. req \in Request
    BY <1>5, <2>1, TakeEvent, EventFields DEF DispatchBlocking, Got, TypeOK, EventsOK
  <2>3. /\ req.kind \in BlockingKinds /\ ~MustQueue /\ pending_blocking' = req
        /\ Finish(FALSE, <<HandleUiRequest(req)>>) /\ loop = "running" /\ outbox = <<>>
        /\ job' = job /\ UNCHANGED <<pending_concurrent, replyVars, queued>>
    BY <1>5, <2>1 DEF DispatchBlocking, Got, Polling, runtimeVars
  <2> QED
    BY <2>2, <2>3, SwitchStarts
<1>6. CASE DispatchConcurrent
  <2>1. PICK req : req = Head(events).request
    OBVIOUS
  <2>2. req \in Request
    BY <1>6, <2>1, TakeEvent, EventFields DEF DispatchConcurrent, Got, TypeOK, EventsOK
  <2>3. /\ req.kind \in Servers \cup (RefreshKinds \ pending_concurrent)
        /\ pending_concurrent' = pending_concurrent \cup {req.kind}
        /\ Finish(FALSE, <<HandleUiRequest(req)>>) /\ loop = "running" /\ outbox = <<>>
        /\ job' = job /\ UNCHANGED <<pending_blocking, replyVars, queued>>
    BY <1>6, <2>1 DEF DispatchConcurrent, Got, Polling, runtimeVars
  <2> QED
    BY <2>2, <2>3, ConcurrentStarts
<1>7. CASE IgnoreRequest
  BY <1>0, <1>7, FlightFrame DEF IgnoreRequest, stageVars, runtimeVars
<1>8. CASE CancelRequested
  BY <1>0, <1>8, FlightFrame DEF CancelRequested, stageVars, runtimeVars
<1>9. CASE QuitLater
  BY <1>0, <1>9, FlightFrame DEF QuitLater, stageVars, runtimeVars
<1>10. CASE QuitNow
  <2>1. Finish(TRUE, <<>>) /\ outbox = <<>> /\ loop = "running" /\ job' = job
        /\ UNCHANGED <<pending_blocking, pending_concurrent, replyVars, queued>>
    BY <1>10 DEF QuitNow, Got, Polling, stageVars, runtimeVars
  <2> QED
    BY <1>0, <1>c, <2>1, FlightSends
<1>11. CASE HandleWorkerResult
  BY <1>11, TurnResultFlight
<1>12. CASE HandleBlockingResponse
  BY <1>12, SwitchAnswered
<1>13. CASE HandleConcurrentResponse
  BY <1>13, ConcurrentAnswered
<1>14. CASE DispatchCompaction
  <2> DEFINE cmds == IF CompactLater THEN <<>> ELSE <<RunCompaction>>
  <2>1. Finish(FALSE, cmds) /\ outbox = <<>> /\ loop = "running" /\ job' = job
        /\ UNCHANGED <<pending_blocking, pending_concurrent, replyVars, queued>>
    BY <1>14 DEF DispatchCompaction, compactionUnchanged, Polling, stageVars, runtimeVars
  <2>2. cmds \in Seq(WorkerCommand) /\ NoneOf(cmds, RequestKinds)
    BY CommandTypes, CompactionRequests
  <2> HIDE DEF cmds
  <2> QED
    BY <1>0, <2>1, <2>2, FlightSends
<1>15. CASE CompactionEnded
  <2> DEFINE next == pending_compaction /\ ~worker_active
             cmds == IF next THEN <<RunCompaction>> ELSE <<>>
             break == quit_pending /\ ~next
  <2>1. Finish(break, cmds) /\ outbox = <<>> /\ loop = "running" /\ job' = job
        /\ UNCHANGED <<pending_blocking, pending_concurrent, replyVars, queued>>
    BY <1>15 DEF CompactionEnded, compactionUnchanged, Polling, stageVars, runtimeVars
  <2>2. cmds \in Seq(WorkerCommand) /\ NoneOf(cmds, RequestKinds)
    BY CommandTypes, CompactionRequests
  <2> HIDE DEF cmds, break, next
  <2> QED
    BY <1>0, <2>1, <2>2, FlightSends
<1>16. CASE CompactionProgress
  BY <1>0, <1>16, FlightFrame DEF CompactionProgress, compactionUnchanged, stageVars, runtimeVars
<1>17. CASE HandleExternalCancel
  BY <1>0, <1>17, FlightFrame DEF HandleExternalCancel, stageVars, runtimeVars
<1>18. CASE TakeA2aTask
  <2>1. /\ a2a_tasks # <<>> /\ outbox = <<>>
        /\ commands' \in {commands, Append(commands, AttachA2aContext(Head(a2a_tasks)))}
        /\ UNCHANGED <<loop, outbox, job, pending_blocking, pending_concurrent, replyVars, queued>>
    BY <1>18 DEF TakeA2aTask, Polling, stageVars, runtimeVars
  <2>2. PICK cmd \in WorkerCommand : cmd = AttachA2aContext(Head(a2a_tasks))
    BY <2>1, CommandTypes DEF TypeOK, A2aOK
  <2>3. cmd.request = NoRequest
    BY <2>2 DEF AttachA2aContext
  <2>4. CASE commands' = commands
    BY <1>0, <2>1, <2>4, FlightFrame
  <2>5. CASE commands' = Append(commands, cmd)
    <3>1. new = <<job>> \o Append(commands, cmd) \o outbox
      BY <1>b, <2>1, <2>5
    <3>2. Moves(old, new, 0, 0, NoRequest)
      BY ONLY <1>0, <1>b, <2>1, <2>2, <2>3, <3>1, QuietMoves
    <3> QED
      BY <1>0, <1>a, <2>1, <3>2, FlightRests
  <2> QED
    BY <2>1, <2>2, <2>4, <2>5
<1>19. CASE TakeCompletion
  BY <1>0, <1>19, FlightFrame DEF TakeCompletion, stageVars, runtimeVars
<1>20. CASE Ended
  BY <1>20 DEF Ended, FlightInv, BlockingFlight, RefreshFlight, stageVars
<1>21. CASE WorkerNext
  <2>1. CASE TakeCommand
    <3>1. /\ commands # <<>> /\ commands' = Tail(commands)
          /\ job' \in {NoJob, Head(commands)}
          /\ UNCHANGED <<loop, outbox, pending_blocking, pending_concurrent, replyVars, queued>>
      BY <2>1 DEF TakeCommand, stageVars
    <3>2. PICK x \in {NoJob, Head(commands)} : x = job'
      BY <3>1
    <3>3. new = <<x>> \o Tail(commands) \o outbox
      BY <1>b, <3>1, <3>2
    <3>4. Moves(old, new, 1, 0, NoRequest)
      BY ONLY <1>0, <1>b, <3>1, <3>2, <3>3, QuietMoves
    <3> QED
      BY <1>0, <1>a, <3>1, <3>4, FlightRests
  <2>2. CASE SubscribeCancel
    BY <1>0, <2>2, FlightFrame DEF SubscribeCancel, stageVars
  <2>3. ASSUME NEW ok \in BOOLEAN, EndTurn(ok) PROVE FlightInv'
    BY <2>3, WorkerMoves DEF EndTurn
  <2>4. CASE OpenStore
    <3>1. job' \in {job, NoJob} /\ UNCHANGED <<loop, commands, outbox, stageVars, replyVars>>
      BY <2>4 DEF OpenStore
    <3> QED
      BY <1>0, <3>1, WorkerMoves, FlightFrame DEF stageVars
  <2>5. CASE EndCompaction
    BY <2>5, WorkerMoves DEF EndCompaction
  <2>6. CASE ServeRequest
    BY <2>6, SwitchServed, ConcurrentServed
  <2>7. CASE TurnCompaction
    BY <1>0, <2>7, FlightFrame DEF TurnCompaction, stageVars
  <2>8. CASE SummaryChunk
    BY <1>0, <2>8, FlightFrame DEF SummaryChunk, stageVars, runtimeVars
  <2> QED
    BY <1>21, <2>1, <2>2, <2>3, <2>4, <2>5, <2>6, <2>7, <2>8 DEF WorkerNext, WorkerProgress
<1>22. CASE EnvNext
  <2>1. ASSUME NEW kind \in UiInputs, UiSend(kind) PROVE FlightInv'
    BY <1>0, <2>1, FlightFrame DEF UiSend, stageVars, runtimeVars
  <2>2. CASE UiTurnEnded
    BY <1>0, <2>2, FlightFrame DEF UiTurnEnded, stageVars, runtimeVars
  <2>3. ASSUME NEW task \in Tasks, OfferTask(task) \/ CancelTask(task) PROVE FlightInv'
    BY <1>0, <2>3, FlightFrame DEF OfferTask, CancelTask, stageVars, runtimeVars
  <2>4. CASE RemoteCompletion
    BY <1>0, <2>4, FlightFrame DEF RemoteCompletion, stageVars, runtimeVars
  <2> QED
    BY <1>22, <2>1, <2>2, <2>3, <2>4 DEF EnvNext
<1>23. CASE UNCHANGED vars
  BY <1>0, <1>23, FlightFrame DEF vars, stageVars, runtimeVars
<1> QED
  BY <1>1, <1>2, <1>3, <1>4, <1>5, <1>6, <1>7, <1>8, <1>9, <1>10, <1>11, <1>12, <1>13,
     <1>14, <1>15, <1>16, <1>17, <1>18, <1>19, <1>20, <1>21, <1>22, <1>23
  DEF Next, LoopNext

\* Nothing is in flight at first.
LEMMA FlightInit == Init => FlightInv
<1> SUFFICES ASSUME Init PROVE FlightInv
  OBVIOUS
<1>1. Backlog \in Seq({NoJob})
  BY DEF Init, Backlog
<1>2. \A i \in DOMAIN Backlog : Backlog[i].request.kind \notin RequestKinds
  BY <1>1, KindsApart DEF NoJob, Plain
<1>3. BlockingFlight
  BY <1>2 DEF Init, BlockingFlight, OneOf, RequestKinds
<1>4. RefreshFlight
  BY <1>2 DEF Init, RefreshFlight, RefreshOf, OneOf, NoneOf, RequestKinds, ConcurrentKinds
<1> QED
  BY <1>3, <1>4 DEF Init, FlightInv

\* A set whose members are all equal has at most one.
LEMMA AtMostOne ==
  ASSUME NEW S, \A x, y \in S : x = y
  PROVE  /\ IsFiniteSet(S) /\ Cardinality(S) \in {0, 1}
         /\ S = {} => Cardinality(S) = 0
<1>1. CASE S = {}
  BY <1>1, FS_EmptySet
<1>2. CASE S # {}
  <2>1. PICK x : S = {x}
    BY <1>2
  <2> QED
    BY <1>2, <2>1, FS_Singleton
<1> QED
  BY <1>1, <1>2

\* Two blocking requests never run at once, whatever is queued, deferred or parked:
\* a switch is in flight only as pending_blocking, in the backlog or as an answer.
THEOREM SwitchesExclusive == Spec => []BlockingExclusive
<1>1. ASSUME TypeOK, FlightInv PROVE BlockingExclusive
  <2> SUFFICES ASSUME loop = "running"
               PROVE  /\ Cardinality(BlockingInFlight) + Len(blocking_responses) <= 1
                      /\ \A i \in BlockingInFlight : Backlog[i].request = pending_blocking
                      /\ \A i \in DOMAIN blocking_responses :
                            blocking_responses[i] = pending_blocking
    BY DEF BlockingExclusive
  <2>1. /\ OneOf(Backlog, BlockingKinds)
        /\ \A i \in DOMAIN Backlog :
              Backlog[i].request.kind \in BlockingKinds => Backlog[i].request = pending_blocking
        /\ blocking_responses # <<>> =>
              /\ Len(blocking_responses) = 1 /\ blocking_responses[1] = pending_blocking
              /\ NoneOf(Backlog, BlockingKinds)
    BY <1>1 DEF FlightInv, BlockingFlight
  <2>2. blocking_responses \in Seq(Request)
    BY <1>1 DEF TypeOK, ReplyOK
  <2>3. \A i, j \in BlockingInFlight : i = j
    BY <2>1 DEF BlockingInFlight, OneOf
  <2>4. /\ Cardinality(BlockingInFlight) \in {0, 1}
        /\ BlockingInFlight = {} => Cardinality(BlockingInFlight) = 0
    BY <2>3, AtMostOne
  <2>5. blocking_responses # <<>> => BlockingInFlight = {}
    BY <2>1 DEF BlockingInFlight, NoneOf
  <2>6. Cardinality(BlockingInFlight) + Len(blocking_responses) <= 1
    <3>1. CASE blocking_responses = <<>>
      <4>1. Len(blocking_responses) = 0
        BY <3>1
      <4> QED
        BY ONLY <2>4, <4>1
    <3>2. CASE blocking_responses # <<>>
      <4>1. Len(blocking_responses) = 1 /\ Cardinality(BlockingInFlight) = 0
        BY <2>1, <2>4, <2>5, <3>2
      <4> QED
        BY ONLY <4>1
    <3> QED
      BY <3>1, <3>2
  <2>7. \A i \in DOMAIN blocking_responses : blocking_responses[i] = pending_blocking
    BY <2>1, <2>2
  <2> QED
    BY <2>1, <2>6, <2>7 DEF BlockingInFlight
<1> QED
  BY <1>1, TypeInit, TypeStep, FlightInit, FlightStep, PTL DEF Spec

\* A picker refresh is never in flight twice, on its way out and back together.
THEOREM RefreshesSingle == Spec => []RefreshSingleFlight
<1>1. ASSUME TypeOK, FlightInv PROVE RefreshSingleFlight
  <2> SUFFICES ASSUME loop = "running", NEW kind \in RefreshKinds
               PROVE  Cardinality({i \in DOMAIN Backlog : Backlog[i].request.kind = kind})
                        + Cardinality({i \in DOMAIN concurrent_responses :
                                         concurrent_responses[i].kind = kind}) <= 1
    BY DEF RefreshSingleFlight
  <2>1. RefreshOf(kind)
    BY <1>1 DEF FlightInv, RefreshFlight
  <2> DEFINE out == {i \in DOMAIN Backlog : Backlog[i].request.kind = kind}
             back == {i \in DOMAIN concurrent_responses : concurrent_responses[i].kind = kind}
  <2>3. (\A i, j \in out : i = j) /\ (\A i, j \in back : i = j)
    BY <2>1 DEF RefreshOf, OneOf
  <2>4. back # {} => out = {}
    BY <2>1 DEF RefreshOf, NoneOf
  <2> HIDE DEF out, back
  <2>5. /\ Cardinality(out) \in {0, 1} /\ Cardinality(back) \in {0, 1}
        /\ back = {} => Cardinality(back) = 0
        /\ out = {} => Cardinality(out) = 0
    BY <2>3, AtMostOne
  <2> QED
    BY <2>4, <2>5 DEF out, back
<1> QED
  BY <1>1, TypeInit, TypeStep, FlightInit, FlightStep, PTL DEF Spec
=============================================================================
