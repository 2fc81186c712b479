------------------------------- MODULE A2aServer -------------------------------
(***************************************************************************)
(* The request handlers of the A2A server over the task store, with the    *)
(* two that end its tasks: the orchestrator loop, which rejects, and the   *)
(* listener of the turn bus, which completes and fails.                    *)
(*                                                                         *)
(* Each request is a process that calls the store in several steps, and    *)
(* any other request, the loop or the listener may come in between.  pc is *)
(* the place a request has reached.                                        *)
(*   message:send     start, created, working, then answered (immediate),  *)
(*                    or handed, rereading, waiting, reading, answered     *)
(*   message:stream   start, created, subscribed, working, streaming       *)
(*   tasks:subscribe  start, looked, subscribed, streaming                 *)
(*   tasks:cancel     start, canceled, answered                            *)
(* A request the store refuses ends in "refused".                          *)
(***************************************************************************)
EXTENDS TaskStore

CONSTANTS
    Sends,               \* message:send and message:stream requests
    Watchers,            \* tasks:subscribe requests
    Cancelers,           \* tasks:cancel requests
    Loop,                \* the orchestrator loop, as a caller of the store
    Listener,            \* the listener of the turn bus, as a caller
    NoKey,               \* Option::None for an idempotency key
    INCOMING_CAPACITY    \* width of the incoming task channel (64)

Modes == {"immediate", "blocking", "stream"}
Requests == Sends \cup Watchers \cup Cancelers

ASSUME ServerAssumption ==
    /\ Sends \cap (Watchers \cup Cancelers) = {} /\ Watchers \cap Cancelers = {}
    /\ {Loop, Listener} \cap Requests = {} /\ Loop # Listener
    /\ NoKey \notin Keys
    /\ Callers = Sends \cup Cancelers \cup {Loop, Listener}
    /\ Receivers = Sends \cup Watchers
    /\ INCOMING_CAPACITY \in Nat \ {0}

VARIABLES
    pc,          \* the place each request has reached
    mode,        \* how each send wants to be answered
    target,      \* the task a request is about
    answer,      \* the state a send was answered with
    told,        \* what a stream has passed on to its client
    overdue,     \* history: blocking sends whose deadline has passed
    repeated,    \* history: sends whose key was a repeated one
    incoming,    \* tasks on their way to the loop
    held         \* tasks the loop has taken and not ended

requestVars == <<pc, mode, target, answer, told, overdue, repeated>>
loopVars == <<incoming, held>>
vars == <<storeVars, requestVars, loopVars>>

Init ==
    /\ StoreInit
    /\ pc = [r \in Requests |-> "start"]
    /\ mode = [s \in Sends |-> "immediate"]
    /\ target = [r \in Requests |-> NoTask]
    /\ answer = [s \in Sends |-> "none"]
    /\ told = [r \in Receivers |-> {}]
    /\ overdue = {} /\ repeated = {} /\ incoming = {} /\ held = {}

Goto(r, place) == pc' = [pc EXCEPT ![r] = place]
At(r, place) == pc[r] = place

-----------------------------------------------------------------------------
(* message:send and message:stream.                                        *)

\* A new task, under a fresh id.  Only message:send knows idempotency keys.
CreateTask(s, task, how, key) ==
    /\ At(s, "start")
    /\ key \in Keys => how # "stream" /\ idempotency_keys[key] = NoTask
    /\ create_task(task, key)
    /\ mode' = [mode EXCEPT ![s] = how]
    /\ target' = [target EXCEPT ![s] = task]
    /\ Goto(s, "created")
    /\ UNCHANGED <<answer, told, overdue, repeated, loopVars>>

\* A repeated key is answered with the task it stands for, in every mode at once.
RepeatedKey(s, how, key) ==
    /\ At(s, "start") /\ how # "stream"
    /\ idempotency_keys[key] # NoTask
    /\ mode' = [mode EXCEPT ![s] = how]
    /\ target' = [target EXCEPT ![s] = idempotency_keys[key]]
    /\ answer' = [answer EXCEPT ![s] = status[idempotency_keys[key]]]
    /\ repeated' = repeated \cup {s}
    /\ Goto(s, "answered")
    /\ UNCHANGED <<storeVars, told, overdue, loopVars>>

\* A streaming send subscribes before its task is Working.
StreamSubscribe(s) ==
    /\ At(s, "created") /\ mode[s] = "stream"
    /\ subscribe(s, target[s])
    /\ Goto(s, "subscribed")
    /\ UNCHANGED <<mode, target, answer, told, overdue, repeated, loopVars>>

ReadyToWork(s) == At(s, IF mode[s] = "stream" THEN "subscribed" ELSE "created")

StartWorking(s) ==
    /\ ReadyToWork(s)
    /\ update_status(s, target[s], "Working")
    /\ Goto(s, "working")
    /\ UNCHANGED <<mode, target, answer, told, overdue, repeated, loopVars>>

\* The task was cancelled before it was Working: an internal error, and the
\* subscription is dropped.
WorkRefused(s) ==
    /\ ReadyToWork(s)
    /\ ~is_valid_transition(status[target[s]], "Working")
    /\ disconnect(s)
    /\ Goto(s, "refused")
    /\ UNCHANGED <<mode, target, answer, told, overdue, repeated, loopVars>>

\* Where a send goes on after the hand-over.  A slip makes every send wait.
AfterHandOver_Bug(s) == IF mode[s] = "stream" THEN "streaming" ELSE "handed"
AfterHandOver(s) == CASE mode[s] = "stream"    -> "streaming"
                      [] mode[s] = "blocking"  -> "handed"
                      [] mode[s] = "immediate" -> "answered"

\* The message goes into the history and to the loop, which may have to make room.
HandOver(s) ==
    /\ At(s, "working") /\ owed[s] = <<>>
    /\ Cardinality(incoming) < INCOMING_CAPACITY
    /\ append_history(target[s])
    /\ incoming' = incoming \cup {target[s]}
    /\ Goto(s, AfterHandOver(s))
    /\ answer' = IF mode[s] = "immediate" THEN [answer EXCEPT ![s] = "Working"] ELSE answer
    /\ UNCHANGED <<subVars, owed, mode, target, told, overdue, repeated, held>>

-----------------------------------------------------------------------------
(* wait_for_terminal.  Its first test looks at a task that is Working.     *)

WaitSubscribe(s) ==
    /\ At(s, "handed")
    /\ subscribe(s, target[s])
    /\ Goto(s, "rereading")
    /\ UNCHANGED <<mode, target, answer, told, overdue, repeated, loopVars>>

\* The task is read again after the subscription.  A slip leaves the test out.
EndedMeanwhile_Bug(s) == FALSE
EndedMeanwhile(s) == is_terminal(target[s])

ReRead(s) ==
    /\ At(s, "rereading")
    /\ \/ /\ EndedMeanwhile(s)
          /\ answer' = [answer EXCEPT ![s] = status[target[s]]]
          /\ disconnect(s)
          /\ Goto(s, "answered")
       \/ /\ ~EndedMeanwhile(s)
          /\ Goto(s, "waiting")
          /\ UNCHANGED <<storeVars, answer>>
    /\ UNCHANGED <<mode, target, told, overdue, repeated, loopVars>>

\* The next event; only a terminal state ends the wait.
EndsWait_Bug(event) == event.kind = "Completed"
EndsWait(event) == event.kind \in Terminal

WaitReceive(s) ==
    /\ At(s, "waiting")
    /\ receive(s, FALSE)
    /\ IF EndsWait(Head(channel[s])) THEN Goto(s, "reading") ELSE UNCHANGED pc
    /\ UNCHANGED <<mode, target, answer, told, overdue, repeated, loopVars>>

Deadline(s) ==
    /\ At(s, "waiting")
    /\ overdue' = overdue \cup {s}
    /\ Goto(s, "reading")
    /\ UNCHANGED <<storeVars, mode, target, answer, told, repeated, loopVars>>

\* The answer is the task as it is now, not as it was when the wait began.
FinalState_Bug(s) == "Working"
FinalState(s) == status[target[s]]

FinalRead(s) ==
    /\ At(s, "reading")
    /\ answer' = [answer EXCEPT ![s] = FinalState(s)]
    /\ disconnect(s)
    /\ Goto(s, "answered")
    /\ UNCHANGED <<mode, target, told, overdue, repeated, loopVars>>

-----------------------------------------------------------------------------
(* tasks:subscribe and the streams.                                        *)

\* A client names a task it has heard of.
Lookup(w, task) ==
    /\ At(w, "start") /\ status[task] # "none"
    /\ target' = [target EXCEPT ![w] = task]
    /\ Goto(w, IF is_terminal(task) THEN "refused" ELSE "looked")
    /\ UNCHANGED <<storeVars, mode, answer, told, overdue, repeated, loopVars>>

WatchSubscribe(w) ==
    /\ At(w, "looked")
    /\ subscribe(w, target[w])
    /\ Goto(w, "subscribed")
    /\ UNCHANGED <<mode, target, answer, told, overdue, repeated, loopVars>>

\* What a whole task tells: its state and, once it is completed, its result.
Snapshot(task) ==
    {status[task]} \cup (IF status[task] = "Completed" THEN {"artifact"} ELSE {})

\* The first event of a subscription is the task as it is now.
InitialSnapshot(w) ==
    /\ At(w, "subscribed")
    /\ told' = [told EXCEPT ![w] = Snapshot(target[w])]
    /\ Goto(w, "streaming")
    /\ UNCHANGED <<storeVars, mode, target, answer, overdue, repeated, loopVars>>

\* A stream passes the next event on and ends with a terminal state; tasks:subscribe
\* then sends the whole task once more.
StreamReceive(r) ==
    LET event == Head(channel[r])
        last == event.kind \in Terminal
    IN  /\ At(r, "streaming")
        /\ receive(r, last)
        /\ told' = [told EXCEPT ![r] = @ \cup {event.kind} \cup
                       (IF last /\ r \in Watchers THEN Snapshot(target[r]) ELSE {})]
        /\ IF last THEN Goto(r, "ended") ELSE UNCHANGED pc
        /\ UNCHANGED <<mode, target, answer, overdue, repeated, loopVars>>

\* The client of a stream has gone; the next send to it fails.
HangUp(r) ==
    /\ At(r, "streaming")
    /\ disconnect(r)
    /\ Goto(r, "ended")
    /\ UNCHANGED <<mode, target, answer, told, overdue, repeated, loopVars>>

-----------------------------------------------------------------------------
(* tasks:cancel, and what everyone who has changed a task does next.       *)

CancelTask(c, task) ==
    /\ At(c, "start") /\ status[task] # "none"
    /\ target' = [target EXCEPT ![c] = task]
    /\ \/ /\ update_status(c, task, "Canceled")
          /\ Goto(c, "canceled")
       \/ /\ ~is_valid_transition(status[task], "Canceled")
          /\ Goto(c, "refused")
          /\ UNCHANGED storeVars
    /\ UNCHANGED <<mode, answer, told, overdue, repeated, loopVars>>

\* The loop hears of the cancel (task_cancel_tx), and the client gets its answer.
AnswerCancel(c) ==
    /\ At(c, "canceled") /\ owed[c] = <<>>
    /\ Goto(c, "answered")
    /\ UNCHANGED <<storeVars, mode, target, answer, told, overdue, repeated, loopVars>>

Notify(caller) == notify(caller) /\ UNCHANGED <<requestVars, loopVars>>

-----------------------------------------------------------------------------
(* The loop and the listener.  Either works on one task at a time.  A task is  *)
(* ended once at most (AnsweredOnce in Orchestrator), and maybe never.         *)

LoopTake(task) ==
    /\ owed[Loop] = <<>> /\ task \in incoming
    /\ incoming' = incoming \ {task}
    /\ held' = held \cup {task}
    /\ UNCHANGED <<storeVars, requestVars>>

\* The store's error, that the task has ended already, is only logged.
Ended(task, changed, state) ==
    /\ task \in held
    /\ held' = held \ {task}
    /\ changed \/ (~is_valid_transition(status[task], state) /\ UNCHANGED storeVars)
    /\ UNCHANGED <<requestVars, incoming>>

LoopReject(task) ==
    /\ owed[Loop] = <<>>
    /\ Ended(task, update_status(Loop, task, "Rejected"), "Rejected")

ListenerComplete(task) ==
    /\ owed[Listener] = <<>>
    /\ Ended(task, complete_task(Listener, task), "Completed")

ListenerFail(task) ==
    /\ owed[Listener] = <<>>
    /\ Ended(task, update_status(Listener, task, "Failed"), "Failed")

-----------------------------------------------------------------------------
SendStep(s) ==
    \/ StreamSubscribe(s) \/ StartWorking(s) \/ WorkRefused(s) \/ HandOver(s)
    \/ WaitSubscribe(s) \/ ReRead(s) \/ WaitReceive(s) \/ FinalRead(s)
WatchStep(w) == WatchSubscribe(w) \/ InitialSnapshot(w)
LoopTakes == \E task \in Tasks : LoopTake(task)

\* What the server and the loop do by themselves.
ServerNext ==
    \/ \E s \in Sends : SendStep(s)
    \/ \E w \in Watchers : WatchStep(w)
    \/ \E r \in Receivers : StreamReceive(r)
    \/ \E c \in Cancelers : AnswerCancel(c)
    \/ \E caller \in Callers : Notify(caller)
    \/ LoopTakes

\* What clients, deadlines and turns do, or not.
EnvNext ==
    \/ \E s \in Sends, task \in Tasks, how \in Modes, key \in Keys \cup {NoKey} :
          CreateTask(s, task, how, key)
    \/ \E s \in Sends, how \in Modes, key \in Keys : RepeatedKey(s, how, key)
    \/ \E w \in Watchers, task \in Tasks : Lookup(w, task)
    \/ \E c \in Cancelers, task \in Tasks : CancelTask(c, task)
    \/ \E s \in Sends : Deadline(s)
    \/ \E r \in Receivers : HangUp(r)
    \/ \E task \in Tasks : LoopReject(task) \/ ListenerComplete(task) \/ ListenerFail(task)

Next == ServerNext \/ EnvNext
Spec == Init /\ [][Next]_vars

\* Every request and every caller of the store is polled by the runtime.  Deadlines,
\* clients and turns are not made to act, and nothing depends on the loop.
Fairness ==
    /\ \A s \in Sends : WF_vars(SendStep(s))
    /\ \A r \in Receivers : WF_vars(StreamReceive(r))
    /\ \A caller \in Callers : WF_vars(Notify(caller))
FairSpec == Spec /\ Fairness

-----------------------------------------------------------------------------
(* Properties.                                                             *)

Places == {"start", "created", "subscribed", "working", "handed", "rereading",
           "waiting", "reading", "answered", "refused", "streaming", "looked",
           "ended", "canceled"}

RequestTypeOK ==
    /\ pc \in [Requests -> Places]
    /\ mode \in [Sends -> Modes]
    /\ target \in [Requests -> Tasks \cup {NoTask}]
    /\ answer \in [Sends -> TaskState \cup {"none"}]
    /\ told \in [Receivers -> SUBSET (EventKind \cup {"none"})]
    /\ overdue \subseteq Sends /\ repeated \subseteq Sends
    /\ incoming \subseteq Tasks /\ held \subseteq Tasks
PlacesOK ==
    /\ \A r \in Requests : At(r, "start") \/ target[r] \in Tasks
    /\ \A s \in Sends :
          /\ pc[s] \in {"handed", "rereading", "waiting", "reading"} => mode[s] = "blocking"
          /\ pc[s] \in {"subscribed", "streaming"} => mode[s] = "stream"

\* Every variable has its type, a request that has begun has a task, only blocking
\* sends wait and, of the sends, only streaming ones stream.
TypeOK == StoreTypeOK /\ RequestTypeOK /\ PlacesOK

\* An event that ends the task is in the sequence.
HasEnd(events, task) ==
    \E i \in DOMAIN events : events[i].task = task /\ events[i].kind \in Terminal

\* The end of the task is in the receiver's channel or about to be notified.
EndOnItsWay(receiver, task) ==
    \/ HasEnd(channel[receiver], task)
    \/ \E caller \in Callers : HasEnd(owed[caller], task)

\* No lost wakeup: a blocking send that waits, and a stream that has begun, on a task
\* that has ended has the terminal event before it, whatever happened between the
\* hand-over, the subscription and the second read.
NoLostWakeup ==
    \A s \in Sends :
        At(s, "waiting") \/ (mode[s] = "stream" /\ pc[s] \in {"working", "streaming"})
            => (is_terminal(target[s]) => EndOnItsWay(s, target[s]))

\* A blocking send that waits, or a stream, hears of the end of its task by itself,
\* without its deadline.
EndIsHeard ==
    \A s \in Sends :
        pc[s] \in {"waiting", "streaming"} /\ is_terminal(target[s])
            ~> pc[s] \in {"answered", "ended"}

\* A channel never holds more than three events, so its 64 places are never full
\* and try_send never drops one.
EventsFit == \A r \in Receivers : Len(channel[r]) <= 3

\* A streaming send that was told of the completion was given the result first: the
\* stream ends with the terminal state and sends no final task.
ResultBeforeCompletion ==
    \A s \in Sends : "Completed" \in told[s] => "artifact" \in told[s]

\* Everyone is told of the same end: no stream ends, and no send is answered, with a
\* terminal state that is not the one the task keeps, although a cancel, a rejection
\* and a completion race and are notified in any order.
EndsAgree ==
    /\ \A r \in Receivers : \A kind \in told[r] \cap Terminal : status[target[r]] = kind
    /\ \A s \in Sends : answer[s] \in Terminal => status[target[s]] = answer[s]

\* A blocking send is answered with a task that has ended, unless its deadline passed
\* or its key was a repeated one.
BlockingAnswersEnd ==
    \A s \in Sends :
        At(s, "answered") /\ mode[s] = "blocking"
            => answer[s] \in Terminal \/ s \in overdue \/ s \in repeated

\* A subscription that the server accepted can still produce an event: the task has
\* not ended, or its end is on its way.
AcceptedStreamsProduce ==
    \A w \in Watchers :
        At(w, "streaming") => (is_terminal(target[w]) => EndOnItsWay(w, target[w]))

=============================================================================
