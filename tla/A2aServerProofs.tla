---------------------------- MODULE A2aServerProofs ----------------------------
(***************************************************************************)
(* Theorems about the A2A server and its task store, for every number of   *)
(* tasks, keys, requests and cancels.                                      *)
(***************************************************************************)
EXTENDS A2aServer, SequenceTheorems, TLAPS

-----------------------------------------------------------------------------
(* The operations of the store keep its types.                             *)

LEMMA EventTypes ==
  ASSUME NEW task \in Tasks
  PROVE  /\ \A kind \in TaskState : Event(task, kind) \in TaskEvent
         /\ completion_events(task) \in Seq(TaskEvent)
<1>1. \A kind \in EventKind : Event(task, kind) \in TaskEvent
  BY DEF Event, TaskEvent
<1>2. Event(task, "artifact") \in TaskEvent /\ Event(task, "Completed") \in TaskEvent
  BY <1>1 DEF EventKind, TaskState, Terminal
<1> QED
  BY <1>1, <1>2 DEF completion_events, EventKind

\* The head and the tail of a channel.
LEMMA HeadTail ==
  ASSUME NEW S, NEW ch \in Seq(S), ch # <<>>
  PROVE  Head(ch) \in S /\ Tail(ch) \in Seq(S)
  OBVIOUS

LEMMA CreateTypes ==
  ASSUME StoreTypeOK, NEW task \in Tasks, NEW key, create_task(task, key)
  PROVE  StoreTypeOK'
  BY DEF StoreTypeOK, create_task, assign_update_seq, subVars, TaskState

LEMMA UpdateTypes ==
  ASSUME StoreTypeOK, NEW caller \in Callers, NEW task \in Tasks, NEW state \in TaskState,
         update_status(caller, task, state)
  PROVE  StoreTypeOK'
<1>1. <<Event(task, state)>> \in Seq(TaskEvent)
  BY EventTypes
<1> QED
  BY <1>1 DEF StoreTypeOK, update_status, assign_update_seq, subVars

LEMMA CompleteTypes ==
  ASSUME StoreTypeOK, NEW caller \in Callers, NEW task \in Tasks, complete_task(caller, task)
  PROVE  StoreTypeOK'
<1>1. completion_events(task) \in Seq(TaskEvent)
  BY EventTypes
<1> QED
  BY <1>1 DEF StoreTypeOK, complete_task, subVars, TaskState, Terminal

LEMMA SubscribeTypes ==
  ASSUME StoreTypeOK, NEW receiver \in Receivers, NEW task \in Tasks, subscribe(receiver, task)
  PROVE  StoreTypeOK'
  BY DEF StoreTypeOK, subscribe, taskVars

LEMMA NotifyTypes ==
  ASSUME StoreTypeOK, NEW caller \in Callers, notify(caller)
  PROVE  StoreTypeOK'
<1> DEFINE event == Head(owed[caller])
           live == subscriptions[event.task] \cap connected
<1>1. event \in TaskEvent /\ Tail(owed[caller]) \in Seq(TaskEvent)
  BY HeadTail DEF StoreTypeOK, notify
<1>2. channel' = [r \in Receivers |->
                    IF r \in live THEN Append(channel[r], event) ELSE channel[r]]
  BY DEF notify
<1>3. channel' \in [Receivers -> Seq(TaskEvent)]
  BY <1>1, <1>2 DEF StoreTypeOK
<1>4. event.task \in Tasks /\ live \subseteq Receivers
  BY <1>1 DEF StoreTypeOK, TaskEvent
<1>5. subscriptions' = [subscriptions EXCEPT ![event.task] = live]
  BY DEF notify
<1>6. subscriptions' \in [Tasks -> SUBSET Receivers]
  BY <1>4, <1>5 DEF StoreTypeOK
<1>7. owed' \in [Callers -> Seq(TaskEvent)]
  BY <1>1 DEF StoreTypeOK, notify
<1> QED
  BY <1>3, <1>6, <1>7 DEF StoreTypeOK, notify, taskVars

LEMMA ReceiveTypes ==
  ASSUME StoreTypeOK, NEW receiver \in Receivers, NEW leaves, receive(receiver, leaves)
  PROVE  StoreTypeOK' /\ Head(channel[receiver]) \in TaskEvent
<1>1. Head(channel[receiver]) \in TaskEvent /\ Tail(channel[receiver]) \in Seq(TaskEvent)
  BY HeadTail DEF StoreTypeOK, receive
<1> QED
  BY <1>1 DEF StoreTypeOK, receive, taskVars

LEMMA DisconnectTypes ==
  ASSUME StoreTypeOK, NEW receiver \in Receivers, disconnect(receiver)
  PROVE  StoreTypeOK'
  BY DEF StoreTypeOK, disconnect, taskVars

LEMMA SameStoreTypes ==
  ASSUME StoreTypeOK, UNCHANGED storeVars
  PROVE  StoreTypeOK'
  BY DEF StoreTypeOK, storeVars, taskVars, subVars

-----------------------------------------------------------------------------
(* Type correctness.                                                       *)

\* Who is a request, a receiver and a caller.
LEMMA Roles ==
  /\ Sends \subseteq Requests /\ Watchers \subseteq Requests /\ Cancelers \subseteq Requests
  /\ Receivers = Sends \cup Watchers /\ Receivers \subseteq Requests
  /\ Callers = Sends \cup Cancelers \cup {Loop, Listener}
  /\ Sends \cap Watchers = {} /\ Sends \cap Cancelers = {} /\ Watchers \cap Cancelers = {}
  /\ Loop \notin Requests /\ Listener \notin Requests /\ Loop # Listener
  BY ServerAssumption DEF Requests

\* Whoever is past its start, or goes there, has a task of the store.
LEMMA TargetTask ==
  ASSUME TypeOK, NEW r \in Requests, pc[r] # "start"
  PROVE  target[r] \in Tasks /\ status[target[r]] \in TaskState \cup {"none"}
  BY DEF TypeOK, PlacesOK, At, StoreTypeOK

LEMMA SendTypes ==
  ASSUME TypeOK, NEW s \in Sends, SendStep(s)
  PROVE  TypeOK'
<1> USE DEF At, Goto, RequestTypeOK, PlacesOK, Places
<1>0. s \in Requests /\ s \in Receivers /\ s \in Callers
  BY Roles
<1>1. CASE StreamSubscribe(s)
  <2>1. target[s] \in Tasks
    BY <1>0, <1>1, TargetTask DEF StreamSubscribe
  <2>2. StoreTypeOK'
    BY <1>0, <1>1, <2>1, SubscribeTypes DEF StreamSubscribe, TypeOK
  <2> QED
    BY <1>0, <1>1, <2>2 DEF StreamSubscribe, TypeOK, loopVars
<1>2. CASE StartWorking(s)
  <2>1. target[s] \in Tasks
    BY <1>0, <1>2, TargetTask DEF StartWorking, ReadyToWork
  <2>2. StoreTypeOK'
    BY <1>0, <1>2, <2>1, UpdateTypes DEF StartWorking, TypeOK, TaskState
  <2>3. /\ Goto(s, "working")
        /\ UNCHANGED <<mode, target, answer, told, overdue, repeated, loopVars>>
    BY <1>2 DEF StartWorking
  <2> QED
    BY <1>0, <2>1, <2>2, <2>3 DEF TypeOK, loopVars
<1>3. CASE WorkRefused(s)
  <2>1. StoreTypeOK'
    BY <1>0, <1>3, DisconnectTypes DEF WorkRefused, TypeOK
  <2>2. target[s] \in Tasks
    BY <1>0, <1>3, TargetTask DEF WorkRefused, ReadyToWork
  <2>3. /\ Goto(s, "refused")
        /\ UNCHANGED <<mode, target, answer, told, overdue, repeated, loopVars>>
    BY <1>3 DEF WorkRefused
  <2> QED
    BY <1>0, <2>1, <2>2, <2>3 DEF TypeOK, loopVars
<1>4. CASE HandOver(s)
  <2>1. target[s] \in Tasks
    BY <1>0, <1>4, TargetTask DEF HandOver
  <2>2. StoreTypeOK'
    BY <1>4, <2>1 DEF HandOver, append_history, StoreTypeOK, TypeOK, subVars
  <2>3. mode[s] \in Modes
    BY DEF TypeOK
  <2>4. /\ AfterHandOver(s) \in {"streaming", "handed", "answered"}
        /\ AfterHandOver(s) = "streaming" => mode[s] = "stream"
        /\ AfterHandOver(s) = "handed" => mode[s] = "blocking"
    BY <2>3 DEF AfterHandOver, Modes
  <2>5. RequestTypeOK'
    BY <1>0, <1>4, <2>1, <2>4 DEF HandOver, TypeOK, TaskState
  <2> QED
    BY <1>0, <1>4, <2>2, <2>4, <2>5 DEF HandOver, TypeOK
<1>5. CASE WaitSubscribe(s)
  <2>1. target[s] \in Tasks
    BY <1>0, <1>5, TargetTask DEF WaitSubscribe
  <2>2. StoreTypeOK'
    BY <1>0, <1>5, <2>1, SubscribeTypes DEF WaitSubscribe, TypeOK
  <2> QED
    BY <1>0, <1>5, <2>2 DEF WaitSubscribe, TypeOK, loopVars
<1>6. CASE ReRead(s)
  <2>1. target[s] \in Tasks /\ status[target[s]] \in TaskState \cup {"none"}
    BY <1>0, <1>6, TargetTask DEF ReRead
  <2>2. StoreTypeOK'
    BY <1>0, <1>6, DisconnectTypes, SameStoreTypes DEF ReRead, TypeOK
  <2>3. mode[s] = "blocking"
    BY <1>6 DEF ReRead, TypeOK
  <2>4. CASE EndedMeanwhile(s) /\ Goto(s, "answered")
    BY <1>0, <1>6, <2>1, <2>2, <2>4 DEF ReRead, TypeOK, loopVars
  <2>5. CASE Goto(s, "waiting") /\ UNCHANGED answer
    BY <1>0, <1>6, <2>1, <2>2, <2>3, <2>5 DEF ReRead, TypeOK, loopVars
  <2> QED
    BY <1>6, <2>4, <2>5 DEF ReRead
<1>7. CASE WaitReceive(s)
  <2>1. StoreTypeOK'
    BY <1>0, <1>7, ReceiveTypes DEF WaitReceive, TypeOK
  <2>2. mode[s] = "blocking" /\ target[s] \in Tasks
    BY <1>0, <1>7, TargetTask DEF WaitReceive, TypeOK
  <2>3. UNCHANGED <<mode, target, answer, told, overdue, repeated, loopVars>>
    BY <1>7 DEF WaitReceive
  <2>4. CASE Goto(s, "reading")
    BY <1>0, <2>1, <2>2, <2>3, <2>4 DEF TypeOK, loopVars
  <2>5. CASE UNCHANGED pc
    BY <1>0, <2>1, <2>2, <2>3, <2>5 DEF TypeOK, loopVars
  <2> QED
    BY <1>7, <2>4, <2>5 DEF WaitReceive
<1>8. CASE FinalRead(s)
  <2>1. FinalState(s) \in TaskState \cup {"none"}
    BY <1>0, <1>8, TargetTask DEF FinalRead, FinalState
  <2>2. StoreTypeOK'
    BY <1>0, <1>8, DisconnectTypes DEF FinalRead, TypeOK
  <2> QED
    BY <1>0, <1>8, <2>1, <2>2 DEF FinalRead, TypeOK, loopVars
<1> QED
  BY <1>1, <1>2, <1>3, <1>4, <1>5, <1>6, <1>7, <1>8 DEF SendStep

\* What a snapshot or an event tells has its type.
LEMMA ToldTypes ==
  ASSUME TypeOK
  PROVE  /\ \A task \in Tasks : Snapshot(task) \subseteq EventKind \cup {"none"}
         /\ \A event \in TaskEvent : event.kind \in EventKind
  BY DEF TypeOK, StoreTypeOK, Snapshot, EventKind, TaskEvent

LEMMA StreamTypes ==
  ASSUME TypeOK, NEW r \in Receivers,
         (r \in Watchers /\ WatchStep(r)) \/ StreamReceive(r) \/ HangUp(r)
  PROVE  TypeOK'
<1> USE DEF At, Goto, RequestTypeOK, PlacesOK, Places
<1>0. r \in Requests
  BY Roles
<1>1. CASE r \in Watchers /\ WatchSubscribe(r)
  <2>1. target[r] \in Tasks
    BY <1>0, <1>1, TargetTask DEF WatchSubscribe
  <2>2. StoreTypeOK'
    BY <1>1, <2>1, SubscribeTypes DEF WatchSubscribe, TypeOK
  <2> QED
    BY <1>0, <1>1, <2>2, Roles DEF WatchSubscribe, TypeOK, loopVars
<1>2. CASE r \in Watchers /\ InitialSnapshot(r)
  <2>1. Snapshot(target[r]) \subseteq EventKind \cup {"none"}
    BY <1>0, <1>2, TargetTask, ToldTypes DEF InitialSnapshot
  <2>2. StoreTypeOK'
    BY <1>2, SameStoreTypes DEF InitialSnapshot, TypeOK
  <2> QED
    BY <1>0, <1>2, <2>1, <2>2, Roles DEF InitialSnapshot, TypeOK, loopVars
<1>3. CASE StreamReceive(r)
  <2> DEFINE event == Head(channel[r])
             more == IF event.kind \in Terminal /\ r \in Watchers THEN Snapshot(target[r]) ELSE {}
  <2>1. StoreTypeOK' /\ event \in TaskEvent
    BY <1>3, ReceiveTypes DEF StreamReceive, TypeOK
  <2>2. event.kind \in EventKind /\ more \subseteq EventKind \cup {"none"}
    BY <1>0, <1>3, <2>1, TargetTask, ToldTypes DEF StreamReceive
  <2>3. told' = [told EXCEPT ![r] = @ \cup {event.kind} \cup more]
    BY <1>3 DEF StreamReceive
  <2>4. told' \in [Receivers -> SUBSET (EventKind \cup {"none"})]
    <3> HIDE DEF more, event
    <3> QED
      BY <2>2, <2>3 DEF TypeOK
  <2> QED
    BY <1>0, <1>3, <2>1, <2>4, Roles DEF StreamReceive, TypeOK, loopVars
<1>4. CASE HangUp(r)
  <2>1. StoreTypeOK'
    BY <1>4, DisconnectTypes DEF HangUp, TypeOK
  <2> QED
    BY <1>0, <1>4, <2>1, Roles DEF HangUp, TypeOK, loopVars
<1> QED
  BY <1>1, <1>2, <1>3, <1>4 DEF WatchStep

LEMMA ServerTypes ==
  ASSUME TypeOK, ServerNext
  PROVE  TypeOK'
<1> USE DEF At, Goto, RequestTypeOK, PlacesOK, Places
<1>1. ASSUME NEW s \in Sends, SendStep(s) PROVE TypeOK'
  BY <1>1, SendTypes
<1>2. ASSUME NEW w \in Watchers, WatchStep(w) PROVE TypeOK'
  BY <1>2, StreamTypes, Roles
<1>3. ASSUME NEW r \in Receivers, StreamReceive(r) PROVE TypeOK'
  BY <1>3, StreamTypes
<1>4. ASSUME NEW c \in Cancelers, AnswerCancel(c) PROVE TypeOK'
  <2>1. StoreTypeOK'
    BY <1>4, SameStoreTypes DEF AnswerCancel, TypeOK
  <2> QED
    BY <1>4, <2>1, Roles DEF AnswerCancel, TypeOK, loopVars
<1>5. ASSUME NEW caller \in Callers, Notify(caller) PROVE TypeOK'
  <2>1. StoreTypeOK'
    BY <1>5, NotifyTypes DEF Notify, TypeOK
  <2> QED
    BY <1>5, <2>1 DEF Notify, TypeOK, loopVars, requestVars
<1>6. CASE LoopTakes
  <2>1. StoreTypeOK'
    BY <1>6, SameStoreTypes DEF LoopTakes, LoopTake, TypeOK
  <2> QED
    BY <1>6, <2>1 DEF LoopTakes, LoopTake, TypeOK, requestVars
<1> QED
  BY <1>1, <1>2, <1>3, <1>4, <1>5, <1>6 DEF ServerNext

LEMMA EnvTypes ==
  ASSUME TypeOK, EnvNext
  PROVE  TypeOK'
<1> USE DEF At, Goto, RequestTypeOK, PlacesOK, Places
<1>1. ASSUME NEW s \in Sends, NEW task \in Tasks, NEW how \in Modes, NEW key \in Keys \cup {NoKey},
             CreateTask(s, task, how, key)
      PROVE  TypeOK'
  <2>1. StoreTypeOK'
    BY <1>1, CreateTypes DEF CreateTask, TypeOK
  <2> QED
    BY <1>1, <2>1, Roles DEF CreateTask, TypeOK, loopVars
<1>2. ASSUME NEW s \in Sends, NEW how \in Modes, NEW key \in Keys, RepeatedKey(s, how, key)
      PROVE  TypeOK'
  <2>1. StoreTypeOK'
    BY <1>2, SameStoreTypes DEF RepeatedKey, TypeOK
  <2>2. /\ idempotency_keys[key] \in Tasks
        /\ status[idempotency_keys[key]] \in TaskState \cup {"none"}
    BY <1>2 DEF RepeatedKey, TypeOK, StoreTypeOK
  <2> QED
    BY <1>2, <2>1, <2>2, Roles DEF RepeatedKey, TypeOK, loopVars
<1>3. ASSUME NEW w \in Watchers, NEW task \in Tasks, Lookup(w, task) PROVE TypeOK'
  <2>1. StoreTypeOK'
    BY <1>3, SameStoreTypes DEF Lookup, TypeOK
  <2> QED
    BY <1>3, <2>1, Roles DEF Lookup, TypeOK, loopVars
<1>4. ASSUME NEW c \in Cancelers, NEW task \in Tasks, CancelTask(c, task) PROVE TypeOK'
  <2>1. StoreTypeOK'
    BY <1>4, Roles, UpdateTypes, SameStoreTypes DEF CancelTask, TypeOK, TaskState, Terminal
  <2> QED
    BY <1>4, <2>1, Roles DEF CancelTask, TypeOK, loopVars
<1>5. ASSUME NEW s \in Sends, Deadline(s) PROVE TypeOK'
  <2>1. StoreTypeOK'
    BY <1>5, SameStoreTypes DEF Deadline, TypeOK
  <2> QED
    BY <1>5, <2>1, Roles DEF Deadline, TypeOK, loopVars
<1>6. ASSUME NEW r \in Receivers, HangUp(r) PROVE TypeOK'
  BY <1>6, StreamTypes
<1>7. ASSUME NEW task \in Tasks, LoopReject(task) \/ ListenerComplete(task) \/ ListenerFail(task)
      PROVE  TypeOK'
  <2>1. Loop \in Callers /\ Listener \in Callers
    BY Roles
  <2>2. "Rejected" \in TaskState /\ "Failed" \in TaskState
    BY DEF TaskState, Terminal
  <2>3. StoreTypeOK'
    BY <1>7, <2>1, <2>2, UpdateTypes, CompleteTypes, SameStoreTypes
       DEF LoopReject, ListenerComplete, ListenerFail, Ended, TypeOK
  <2>4. held' = held \ {task} /\ UNCHANGED <<requestVars, incoming>>
    BY <1>7 DEF LoopReject, ListenerComplete, ListenerFail, Ended
  <2> QED
    BY <2>3, <2>4 DEF TypeOK, requestVars
<1> QED
  BY <1>1, <1>2, <1>3, <1>4, <1>5, <1>6, <1>7 DEF EnvNext

LEMMA TypeStep ==
  ASSUME TypeOK, [Next]_vars
  PROVE  TypeOK'
<1>1. CASE UNCHANGED vars
  <2>1. StoreTypeOK'
    BY <1>1, SameStoreTypes DEF vars, TypeOK
  <2> QED
    BY <1>1, <2>1 DEF vars, TypeOK, RequestTypeOK, PlacesOK, At, requestVars, loopVars
<1> QED
  BY <1>1, ServerTypes, EnvTypes DEF Next

LEMMA TypeInit ==
  ASSUME Init
  PROVE  TypeOK
  BY Roles DEF Init, StoreInit, TypeOK, StoreTypeOK, RequestTypeOK, PlacesOK, At, Places, Modes

\* Every variable keeps its type, a request that has begun has a task, and only the
\* sends that are meant to wait or to stream do so, for every number of requests.
THEOREM TypeCorrect == Spec => []TypeOK
<1> QED
  BY TypeInit, TypeStep, PTL DEF Spec

-----------------------------------------------------------------------------
(* No lost wakeup.                                                         *)
(*                                                                         *)
(* NoLostWakeup is inductive together with three facts: a request that has *)
(* not changed its task owes no notification, a send that listens is       *)
(* registered with its task and connected, and TypeOK.                     *)

Quiet(r) == pc[r] \in {"start", "created", "subscribed"} => owed[r] = <<>>

Listens(s) ==
    \/ pc[s] \in {"rereading", "waiting"}
    \/ mode[s] = "stream" /\ pc[s] \in {"subscribed", "working", "streaming"}
Registered(s) == s \in subscriptions[target[s]] /\ s \in connected

Waits(s) == At(s, "waiting") \/ (mode[s] = "stream" /\ pc[s] \in {"working", "streaming"})
WillHear(s) == Waits(s) /\ is_terminal(target[s]) => EndOnItsWay(s, target[s])

Awake(s) == Quiet(s) /\ (Listens(s) => Registered(s)) /\ WillHear(s)
WakeInv ==
    TypeOK /\ (\A s \in Sends : Awake(s)) /\ (\A c \in Cancelers : Quiet(c))

\* An end in a sequence is its head or in its tail.
LEMMA EndSplit ==
  ASSUME NEW events \in Seq(TaskEvent), NEW task, events # <<>>, HasEnd(events, task)
  PROVE  \/ Head(events).task = task /\ Head(events).kind \in Terminal
         \/ HasEnd(Tail(events), task)
<1>1. PICK i \in DOMAIN events : events[i].task = task /\ events[i].kind \in Terminal
  BY DEF HasEnd
<1>2. CASE i = 1
  BY <1>1, <1>2
<1>3. CASE i # 1
  <2>1. i - 1 \in DOMAIN Tail(events) /\ Tail(events)[i - 1] = events[i]
    BY <1>3
  <2> QED
    BY <1>1, <2>1 DEF HasEnd
<1> QED
  BY <1>2, <1>3

\* A sequence that grows keeps its ends and gains that of the new event.
LEMMA EndAppend ==
  ASSUME NEW events \in Seq(TaskEvent), NEW event \in TaskEvent, NEW task
  PROVE  /\ HasEnd(events, task) => HasEnd(Append(events, event), task)
         /\ event.task = task /\ event.kind \in Terminal => HasEnd(Append(events, event), task)
<1> DEFINE longer == Append(events, event)
<1>1. /\ DOMAIN events \subseteq DOMAIN longer
      /\ \A i \in DOMAIN events : longer[i] = events[i]
      /\ Len(events) + 1 \in DOMAIN longer /\ longer[Len(events) + 1] = event
  OBVIOUS
<1> QED
  <2> HIDE DEF longer
  <2>1. ASSUME HasEnd(events, task) PROVE HasEnd(longer, task)
    BY <1>1, <2>1 DEF HasEnd
  <2>2. ASSUME event.task = task, event.kind \in Terminal PROVE HasEnd(longer, task)
    BY <1>1, <2>2 DEF HasEnd
  <2> QED
    BY <2>1, <2>2 DEF longer

\* A notification takes the end of a task to every receiver that is registered.
LEMMA EndNotified ==
  ASSUME StoreTypeOK, NEW s \in Receivers, NEW task \in Tasks, NEW caller \in Callers,
         s \in subscriptions[task], s \in connected, EndOnItsWay(s, task), notify(caller)
  PROVE  EndOnItsWay(s, task)'
<1> DEFINE event == Head(owed[caller])
<1>1. event \in TaskEvent /\ owed[caller] # <<>> /\ owed[caller] \in Seq(TaskEvent)
  BY HeadTail DEF StoreTypeOK, notify
<1>2. channel'[s] = channel[s] \/ channel'[s] = Append(channel[s], event)
  BY DEF notify
<1>3. event.task = task => channel'[s] = Append(channel[s], event)
  BY DEF notify
<1>4. owed' = [owed EXCEPT ![caller] = Tail(@)]
  BY DEF notify
<1>5. channel[s] \in Seq(TaskEvent)
  BY DEF StoreTypeOK
<1> HIDE DEF event
<1>6. CASE HasEnd(channel[s], task)
  <2>1. HasEnd(channel'[s], task)
    BY <1>1, <1>2, <1>5, <1>6, EndAppend
  <2> QED
    BY <2>1 DEF EndOnItsWay, HasEnd
<1>7. CASE \E c \in Callers : HasEnd(owed[c], task)
  <2>1. PICK c \in Callers : HasEnd(owed[c], task)
    BY <1>7
  <2>2. CASE HasEnd(owed'[c], task)
    BY <2>2 DEF EndOnItsWay, HasEnd
  <2>3. CASE ~HasEnd(owed'[c], task)
    <3>1. c = caller
      BY <1>4, <2>1, <2>3 DEF StoreTypeOK
    <3>2. owed'[c] = Tail(owed[c])
      BY <1>4, <3>1 DEF StoreTypeOK
    <3>3. event.task = task /\ event.kind \in Terminal
      BY <1>1, <2>1, <2>3, <3>1, <3>2, EndSplit DEF event
    <3>4. HasEnd(Append(channel[s], event), task)
      BY <1>1, <1>5, <3>3, EndAppend
    <3>5. HasEnd(channel'[s], task)
      BY <1>3, <3>3, <3>4
    <3> QED
      BY <3>5 DEF EndOnItsWay, HasEnd
  <2> QED
    BY <2>2, <2>3
<1> QED
  BY <1>6, <1>7 DEF EndOnItsWay

\* Who takes an event that is not the end leaves the end on its way.
LEMMA EndReceived ==
  ASSUME StoreTypeOK, NEW s \in Receivers, NEW task \in Tasks, EndOnItsWay(s, task),
         receive(s, FALSE), Head(channel[s]).kind \notin Terminal
  PROVE  EndOnItsWay(s, task)'
<1>1. channel[s] \in Seq(TaskEvent) /\ channel[s] # <<>>
  BY DEF StoreTypeOK, receive
<1>2. channel'[s] = Tail(channel[s]) /\ owed' = owed
  BY DEF StoreTypeOK, receive
<1>3. HasEnd(channel[s], task) => HasEnd(channel'[s], task)
  BY <1>1, <1>2, EndSplit
<1> QED
  BY <1>2, <1>3 DEF EndOnItsWay, HasEnd

\* A caller that owes nothing and ends a task owes its end from then on, and takes
\* nothing away from anybody.
LEMMA EndOwed ==
  ASSUME StoreTypeOK, NEW caller \in Callers, NEW task \in Tasks, owed[caller] = <<>>,
         NEW state \in TaskState, NEW s \in Receivers, NEW other \in Tasks,
         update_status(caller, task, state)
           \/ (complete_task(caller, task) /\ state = "Completed")
  PROVE  /\ EndOnItsWay(s, other) => EndOnItsWay(s, other)'
         /\ state \in Terminal => EndOnItsWay(s, task)'
         /\ status' = [status EXCEPT ![task] = state]
         /\ \A c \in Callers : c # caller => owed'[c] = owed[c]
         /\ UNCHANGED subVars
<1>1. status' = [status EXCEPT ![task] = state] /\ UNCHANGED subVars
  BY DEF update_status, complete_task
<1>2. PICK events : owed' = [owed EXCEPT ![caller] = events]
                    /\ (state \in Terminal => HasEnd(events, task))
  <2>1. CASE update_status(caller, task, state)
    <3>1. state \in Terminal => HasEnd(<<Event(task, state)>>, task)
      BY DEF HasEnd, Event
    <3>2. owed' = [owed EXCEPT ![caller] = <<Event(task, state)>>]
      BY <2>1 DEF update_status
    <3> QED
      BY <3>1, <3>2
  <2>2. CASE complete_task(caller, task) /\ state = "Completed"
    <3>1. /\ 2 \in DOMAIN completion_events(task)
          /\ completion_events(task)[2] = Event(task, "Completed")
      BY DEF completion_events
    <3>2. HasEnd(completion_events(task), task)
      BY <3>1 DEF HasEnd, Event, Terminal
    <3> QED
      BY <2>2, <3>2 DEF complete_task
  <2> QED
    BY <2>1, <2>2
<1>3. owed'[caller] = events /\ \A c \in Callers : c # caller => owed'[c] = owed[c]
  BY <1>2 DEF StoreTypeOK
<1>4. ~HasEnd(owed[caller], other)
  BY DEF HasEnd
<1>5. EndOnItsWay(s, other) => EndOnItsWay(s, other)'
  BY <1>1, <1>3, <1>4 DEF EndOnItsWay, HasEnd, subVars
<1>6. state \in Terminal => EndOnItsWay(s, task)'
  BY <1>2, <1>3 DEF EndOnItsWay, HasEnd
<1> QED
  BY <1>1, <1>3, <1>5, <1>6

\* A step on the store that is not one of s.
ByOthers(s) ==
    \/ UNCHANGED storeVars
    \/ \E task \in Tasks, key \in Keys \cup {NoKey} : create_task(task, key)
    \/ \E task \in Tasks : append_history(task) /\ UNCHANGED <<subVars, owed>>
    \/ \E caller \in Callers \ {s}, task \in Tasks, state \in TaskState :
          /\ owed[caller] = <<>>
          /\ \/ update_status(caller, task, state)
             \/ complete_task(caller, task) /\ state = "Completed"
    \/ \E caller \in Callers : notify(caller)
    \/ \E r \in Receivers \ {s} :
          \/ \E task \in Tasks : subscribe(r, task)
          \/ \E leaves \in BOOLEAN : receive(r, leaves)
          \/ disconnect(r)

\* Who owes nothing owes nothing after a step of somebody else.
LEMMA OthersOwe ==
  ASSUME StoreTypeOK, NEW c \in Callers, owed[c] = <<>>, ByOthers(c)
  PROVE  owed'[c] = <<>>
<1>1. ASSUME NEW caller \in Callers \ {c}, NEW task \in Tasks, NEW state \in TaskState,
             update_status(caller, task, state) \/ complete_task(caller, task)
      PROVE  owed'[c] = <<>>
  BY <1>1 DEF update_status, complete_task, StoreTypeOK
<1>2. ASSUME NEW caller \in Callers, notify(caller) PROVE owed'[c] = <<>>
  BY <1>2 DEF notify, StoreTypeOK
<1> QED
  BY <1>1, <1>2 DEF ByOthers, storeVars, create_task, subscribe, receive, disconnect

\* A send stays awake while others use the store.
LEMMA OthersWake ==
  ASSUME TypeOK, NEW s \in Sends, Awake(s), ByOthers(s),
         pc'[s] = pc[s], mode'[s] = mode[s], target'[s] = target[s]
  PROVE  Awake(s)'
<1>0. StoreTypeOK /\ s \in Receivers /\ s \in Callers /\ s \in Requests
  BY Roles DEF TypeOK
<1>1. Quiet(s)'
  BY <1>0, OthersOwe DEF Awake, Quiet
<1>2. Listens(s)' => Listens(s) /\ target[s] \in Tasks
  BY <1>0, TargetTask DEF Listens
<1>3. (Listens(s) => Registered(s)')
  <2>1. SUFFICES ASSUME Listens(s), Registered(s), target[s] \in Tasks PROVE Registered(s)'
    BY <1>0, TargetTask DEF Awake, Listens
  <2>2. ASSUME NEW caller \in Callers, notify(caller) PROVE Registered(s)'
    <3> DEFINE event == Head(owed[caller])
               live == subscriptions[event.task] \cap connected
    <3>1. subscriptions' = [subscriptions EXCEPT ![event.task] = live] /\ connected' = connected
      BY <2>2 DEF notify
    <3>2. s \in subscriptions'[target[s]]
      BY <2>1, <3>1, <1>0 DEF Registered, StoreTypeOK
    <3> QED
      BY <2>1, <3>1, <3>2 DEF Registered
  <2>3. ASSUME NEW r \in Receivers \ {s}, NEW task \in Tasks, subscribe(r, task)
        PROVE  Registered(s)'
    BY <1>0, <2>1, <2>3 DEF subscribe, Registered, StoreTypeOK
  <2>4. ASSUME NEW r \in Receivers \ {s}, NEW leaves \in BOOLEAN,
               receive(r, leaves) \/ disconnect(r)
        PROVE  Registered(s)'
    BY <1>0, <2>1, <2>4 DEF receive, disconnect, Registered, StoreTypeOK
  <2> QED
    BY <2>1, <2>2, <2>3, <2>4
       DEF ByOthers, storeVars, subVars, create_task, update_status, complete_task, Registered
<1>4. WillHear(s)'
  <2>1. SUFFICES ASSUME Waits(s), is_terminal(target[s])' PROVE EndOnItsWay(s, target[s])'
    BY DEF WillHear, Waits, At
  <2>2. Registered(s) /\ target[s] \in Tasks
    BY <1>0, <2>1, TargetTask DEF Awake, Waits, Listens, At
  <2>3. PICK task \in Tasks : task = target[s]
    BY <2>2
  <2>4. /\ is_terminal(task) => EndOnItsWay(s, task)
        /\ status'[task] \in Terminal /\ target'[s] = task
    BY <2>1, <2>3 DEF Awake, WillHear, is_terminal
  <2>5. SUFFICES EndOnItsWay(s, task)'
    BY <2>4 DEF EndOnItsWay, HasEnd
  <2>6. ASSUME status' = status, owed' = owed, channel'[s] = channel[s]
        PROVE  EndOnItsWay(s, task)'
    BY <2>4, <2>6 DEF EndOnItsWay, HasEnd, is_terminal
  <2>7. CASE UNCHANGED storeVars
    BY <2>6, <2>7 DEF storeVars, taskVars, subVars
  <2>8. ASSUME NEW new \in Tasks, NEW key, create_task(new, key) PROVE EndOnItsWay(s, task)'
    <3>1. status' = [status EXCEPT ![new] = "Submitted"] /\ UNCHANGED <<channel, owed>>
      BY <2>8 DEF create_task, subVars
    <3>2. is_terminal(task)
      BY <1>0, <2>2, <2>4, <3>1 DEF StoreTypeOK, is_terminal, Terminal
    <3> QED
      BY <2>4, <3>1, <3>2 DEF EndOnItsWay, HasEnd
  <2>9. ASSUME NEW other \in Tasks, append_history(other), UNCHANGED <<subVars, owed>>
        PROVE  EndOnItsWay(s, task)'
    BY <2>6, <2>9 DEF append_history, subVars
  <2>10. ASSUME NEW caller \in Callers \ {s}, NEW other \in Tasks, NEW state \in TaskState,
                owed[caller] = <<>>,
                \/ update_status(caller, other, state)
                \/ complete_task(caller, other) /\ state = "Completed"
         PROVE  EndOnItsWay(s, task)'
    <3>1. /\ EndOnItsWay(s, task) => EndOnItsWay(s, task)'
          /\ state \in Terminal => EndOnItsWay(s, other)'
          /\ status' = [status EXCEPT ![other] = state]
      BY <1>0, <2>10, EndOwed
    <3>2. CASE other = task
      BY <1>0, <2>4, <3>1, <3>2 DEF StoreTypeOK
    <3>3. CASE other # task
      BY <1>0, <2>4, <3>1, <3>3 DEF StoreTypeOK, is_terminal
    <3> QED
      BY <3>2, <3>3
  <2>11. ASSUME NEW caller \in Callers, notify(caller) PROVE EndOnItsWay(s, task)'
    <3>1. is_terminal(task)
      BY <2>4, <2>11 DEF notify, taskVars, is_terminal
    <3>2. s \in subscriptions[task] /\ s \in connected
      BY <2>2, <2>3 DEF Registered
    <3> QED
      BY <1>0, <2>4, <2>11, <3>1, <3>2, EndNotified
  <2>12. ASSUME NEW r \in Receivers \ {s}, NEW leaves \in BOOLEAN, NEW other \in Tasks,
                subscribe(r, other) \/ receive(r, leaves) \/ disconnect(r)
         PROVE  EndOnItsWay(s, task)'
    <3>1. status' = status /\ owed' = owed
      BY <2>12 DEF subscribe, receive, disconnect, taskVars
    <3>2. channel'[s] = channel[s]
      BY <1>0, <2>12 DEF subscribe, receive, disconnect, StoreTypeOK
    <3> QED
      BY <2>6, <3>1, <3>2
  <2>13. \A r \in Receivers \ {s} :
           (\E leaves \in BOOLEAN : receive(r, leaves)) \/ disconnect(r) => EndOnItsWay(s, task)'
    BY <2>12
  <2> QED
    BY <2>7, <2>8, <2>9, <2>10, <2>11, <2>12, <2>13 DEF ByOthers
<1> QED
  BY <1>1, <1>2, <1>3, <1>4 DEF Awake

\* In these places a send neither listens nor has anything to hear.
LEMMA Apart ==
  ASSUME NEW s \in Sends,
         pc'[s] \in {"handed", "reading", "answered", "refused", "ended"}
  PROVE  Awake(s)'
  BY DEF Awake, Quiet, Listens, WillHear, Waits, At

\* A send that takes an event that is not the end, and stays, still has the end to hear.
LEMMA TakesAndStays ==
  ASSUME TypeOK, NEW s \in Sends, Awake(s), Waits(s), receive(s, FALSE),
         Head(channel[s]).kind \notin Terminal, UNCHANGED <<pc, mode, target>>
  PROVE  Awake(s)'
<1>1. s \in Receivers /\ target[s] \in Tasks
  BY Roles, TargetTask DEF Waits, At
<1>2. PICK task \in Tasks : task = target[s]
  BY <1>1
<1>3. UNCHANGED <<status, subscriptions, connected, owed>>
  BY DEF receive, taskVars
<1>4. EndOnItsWay(s, task) => EndOnItsWay(s, task)'
  BY <1>1, EndReceived DEF TypeOK
<1>5. WillHear(s)'
  <2>1. SUFFICES ASSUME Waits(s)', is_terminal(target[s])' PROVE EndOnItsWay(s, task)'
    BY <1>2 DEF WillHear, EndOnItsWay, HasEnd
  <2> QED
    BY <1>2, <1>3, <1>4, <2>1 DEF Awake, WillHear, is_terminal
<1> QED
  BY <1>3, <1>5 DEF Awake, Quiet, Listens, Registered

\* A send's own steps keep it awake.
LEMMA SendWake ==
  ASSUME TypeOK, NEW s \in Sends, Awake(s), SendStep(s)
  PROVE  Awake(s)'
<1> USE DEF At, Goto
<1>0. /\ StoreTypeOK /\ s \in Receivers /\ s \in Callers /\ s \in Requests
      /\ pc \in [Requests -> Places]
  BY Roles DEF TypeOK, RequestTypeOK
<1>1. CASE StreamSubscribe(s)
  <2>1. target[s] \in Tasks /\ pc'[s] = "subscribed" /\ UNCHANGED <<target, owed>>
    BY <1>0, <1>1, TargetTask DEF StreamSubscribe, subscribe
  <2>2. Registered(s)'
    BY <1>0, <1>1, <2>1 DEF StreamSubscribe, subscribe, Registered, StoreTypeOK
  <2> QED
    BY <1>1, <2>1, <2>2 DEF StreamSubscribe, Awake, Quiet, WillHear, Waits
<1>2. CASE StartWorking(s)
  <2>1. target[s] \in Tasks /\ pc'[s] = "working" /\ UNCHANGED <<mode, target, subVars>>
    BY <1>0, <1>2, TargetTask DEF StartWorking, ReadyToWork, update_status
  <2>2. status'[target[s]] = "Working"
    BY <1>0, <1>2, <2>1 DEF StartWorking, update_status, StoreTypeOK
  <2>3. mode[s] = "stream" => Registered(s)
    BY <1>2 DEF StartWorking, ReadyToWork, Awake, Listens
  <2>4. ~is_terminal(target[s])'
    BY <2>1, <2>2 DEF is_terminal, Terminal
  <2> QED
    BY <2>1, <2>3, <2>4 DEF Awake, Quiet, Listens, Registered, WillHear, subVars
<1>3. CASE WorkRefused(s)
  BY <1>0, <1>3, Apart DEF WorkRefused
<1>4. CASE HandOver(s)
  <2>1. /\ pc[s] = "working" /\ pc'[s] = AfterHandOver(s)
        /\ UNCHANGED <<status, subVars, owed, mode, target>>
    BY <1>0, <1>4 DEF HandOver, append_history
  <2>2. mode[s] \in Modes
    BY DEF TypeOK, RequestTypeOK
  <2>3. CASE mode[s] = "stream"
    <3>1. pc'[s] = "streaming"
      BY <2>1, <2>3 DEF AfterHandOver
    <3>2. Registered(s)' /\ (is_terminal(target[s]) => EndOnItsWay(s, target[s]))
      BY <2>1, <2>3 DEF Awake, Listens, WillHear, Waits, Registered, subVars
    <3> QED
      BY <2>1, <3>1, <3>2
         DEF Awake, Quiet, WillHear, is_terminal, EndOnItsWay, HasEnd, subVars
  <2>4. CASE mode[s] # "stream"
    <3>1. pc'[s] \in {"handed", "answered"}
      BY <2>1, <2>2, <2>4 DEF AfterHandOver, Modes
    <3> QED
      BY <3>1, Apart
  <2> QED
    BY <2>3, <2>4
<1>5. CASE WaitSubscribe(s)
  <2>1. target[s] \in Tasks /\ pc'[s] = "rereading" /\ UNCHANGED target
    BY <1>0, <1>5, TargetTask DEF WaitSubscribe
  <2>2. Registered(s)'
    BY <1>0, <1>5, <2>1 DEF WaitSubscribe, subscribe, Registered, StoreTypeOK
  <2> QED
    BY <2>1, <2>2 DEF Awake, Quiet, WillHear, Waits
<1>6. CASE ReRead(s)
  <2>1. CASE pc'[s] = "answered"
    BY <2>1, Apart
  <2>2. CASE ~is_terminal(target[s]) /\ Goto(s, "waiting") /\ UNCHANGED storeVars
    <3>1. pc[s] = "rereading" /\ pc'[s] = "waiting" /\ UNCHANGED <<status, subscriptions, connected, target>>
      BY <1>0, <1>6, <2>2 DEF ReRead, storeVars, taskVars, subVars
    <3> QED
      BY <2>2, <3>1 DEF Awake, Quiet, Listens, Registered, WillHear, is_terminal
  <2> QED
    BY <1>0, <1>6, <2>1, <2>2 DEF ReRead, EndedMeanwhile
<1>7. CASE WaitReceive(s)
  <2>1. CASE Goto(s, "reading")
    BY <1>0, <2>1, Apart
  <2>2. CASE Head(channel[s]).kind \notin Terminal /\ UNCHANGED pc
    BY <1>7, <2>2, TakesAndStays DEF WaitReceive, Waits
  <2> QED
    BY <1>7, <2>1, <2>2 DEF WaitReceive, EndsWait
<1>8. CASE FinalRead(s)
  BY <1>0, <1>8, Apart DEF FinalRead
<1> QED
  BY <1>1, <1>2, <1>3, <1>4, <1>5, <1>6, <1>7, <1>8 DEF SendStep

\* A request's step is, to all the others, one of another request on the store.
LEMMA SendForOthers ==
  ASSUME TypeOK, NEW s \in Sends, Quiet(s), SendStep(s), NEW r \in Requests \ {s}
  PROVE  /\ ByOthers(r) /\ pc'[r] = pc[r] /\ target'[r] = target[r] /\ UNCHANGED mode
<1>0. /\ s \in Receivers \ {r} /\ s \in Callers \ {r} /\ s \in Requests
      /\ pc \in [Requests -> Places] /\ FALSE \in BOOLEAN
      /\ (pc[s] # "start" => target[s] \in Tasks)
  BY Roles, TargetTask DEF TypeOK, RequestTypeOK
<1>1. pc'[r] = pc[r] /\ target'[r] = target[r] /\ UNCHANGED mode
  BY <1>0 DEF SendStep, StreamSubscribe, StartWorking, WorkRefused, HandOver, WaitSubscribe,
              ReRead, WaitReceive, FinalRead, Goto
<1>2. ByOthers(r)
  <2>1. CASE StreamSubscribe(s) \/ WaitSubscribe(s)
    BY <1>0, <2>1 DEF StreamSubscribe, WaitSubscribe, ByOthers, At
  <2>2. CASE StartWorking(s)
    <3>1. owed[s] = <<>> /\ pc[s] # "start"
      BY <2>2 DEF StartWorking, ReadyToWork, At, Quiet
    <3>2. "Working" \in TaskState
      BY DEF TaskState
    <3> QED
      BY <1>0, <2>2, <3>1, <3>2 DEF StartWorking, ByOthers
  <2>3. CASE WorkRefused(s) \/ FinalRead(s)
    BY <1>0, <2>3 DEF WorkRefused, FinalRead, ByOthers
  <2>4. CASE HandOver(s)
    BY <1>0, <2>4 DEF HandOver, ByOthers, At
  <2>5. CASE ReRead(s)
    BY <1>0, <2>5 DEF ReRead, ByOthers
  <2>6. CASE WaitReceive(s)
    BY <1>0, <2>6 DEF WaitReceive, ByOthers
  <2> QED
    BY <2>1, <2>2, <2>3, <2>4, <2>5, <2>6 DEF SendStep
<1> QED
  BY <1>1, <1>2

\* A step on the store that is nobody's own and moves no request.
LEMMA WakeFrame ==
  ASSUME WakeInv, \A r \in Requests : ByOthers(r),
         UNCHANGED <<pc, mode, target>>, TypeOK'
  PROVE  WakeInv'
<1>1. ASSUME NEW s \in Sends PROVE Awake(s)'
  BY <1>1, OthersWake, Roles DEF WakeInv
<1>2. ASSUME NEW c \in Cancelers PROVE Quiet(c)'
  BY <1>2, OthersOwe, Roles DEF WakeInv, TypeOK, Quiet
<1> QED
  BY <1>1, <1>2 DEF WakeInv

\* One request moves: it is enough to look at that one.
LEMMA WakeOne ==
  ASSUME WakeInv, TypeOK', NEW r \in Requests,
         \A q \in Requests \ {r} :
            ByOthers(q) /\ pc'[q] = pc[q] /\ target'[q] = target[q]
              /\ (q \in Sends => mode'[q] = mode[q]),
         r \in Sends => Awake(r)', r \in Cancelers => Quiet(r)'
  PROVE  WakeInv'
<1>1. ASSUME NEW s \in Sends PROVE Awake(s)'
  <2>1. CASE s # r
    BY <1>1, <2>1, OthersWake, Roles DEF WakeInv
  <2> QED
    BY <2>1
<1>2. ASSUME NEW c \in Cancelers PROVE Quiet(c)'
  <2>1. CASE c # r
    BY <1>2, <2>1, OthersOwe, Roles DEF WakeInv, TypeOK, Quiet
  <2> QED
    BY <2>1
<1> QED
  BY <1>1, <1>2 DEF WakeInv

LEMMA WakeServer ==
  ASSUME WakeInv, ServerNext, TypeOK'
  PROVE  WakeInv'
<1> USE DEF At, Goto
<1>0. TypeOK /\ pc \in [Requests -> Places]
  BY DEF WakeInv, TypeOK, RequestTypeOK
<1>1. ASSUME NEW s \in Sends, SendStep(s) PROVE WakeInv'
  <2>1. Awake(s) /\ Quiet(s) /\ s \in Requests /\ s \notin Cancelers
    BY Roles DEF WakeInv, Awake
  <2>2. Awake(s)'
    BY <1>0, <1>1, <2>1, SendWake
  <2>3. \A q \in Requests \ {s} :
           ByOthers(q) /\ pc'[q] = pc[q] /\ target'[q] = target[q] /\ UNCHANGED mode
    BY <1>0, <1>1, <2>1, SendForOthers
  <2> QED
    BY <2>1, <2>2, <2>3, WakeOne
<1>2. ASSUME NEW w \in Watchers, WatchStep(w) PROVE WakeInv'
  <2>1. w \in Requests /\ w \notin Sends /\ w \notin Cancelers /\ w \in Receivers
    BY Roles
  <2>2. /\ \A q \in Requests \ {w} : pc'[q] = pc[q]
        /\ UNCHANGED <<target, mode>>
    BY <1>0, <1>2 DEF WatchStep, WatchSubscribe, InitialSnapshot
  <2>3. CASE WatchSubscribe(w)
    <3>1. target[w] \in Tasks
      BY <1>0, <2>1, <2>3, TargetTask DEF WatchSubscribe
    <3>2. \A q \in Requests \ {w} : ByOthers(q)
      BY <2>1, <2>3, <3>1 DEF WatchSubscribe, ByOthers
    <3> QED
      BY <2>1, <2>2, <3>2, WakeOne
  <2>4. CASE InitialSnapshot(w)
    <3>1. \A q \in Requests \ {w} : ByOthers(q)
      BY <2>4 DEF InitialSnapshot, ByOthers
    <3> QED
      BY <2>1, <2>2, <3>1, WakeOne
  <2> QED
    BY <1>2, <2>3, <2>4 DEF WatchStep
<1>3. ASSUME NEW r \in Receivers, StreamReceive(r) PROVE WakeInv'
  <2> DEFINE event == Head(channel[r])
             last == event.kind \in Terminal
  <2>1. r \in Requests /\ r \notin Cancelers
    BY Roles
  <2>2. /\ last => receive(r, TRUE)
        /\ ~last => receive(r, FALSE)
        /\ pc[r] = "streaming" /\ UNCHANGED <<target, mode>>
    BY <1>3 DEF StreamReceive, receive
  <2>3. IF last THEN pc' = [pc EXCEPT ![r] = "ended"] ELSE pc' = pc
    BY <1>3 DEF StreamReceive
  <2>4. \A q \in Requests \ {r} : ByOthers(q) /\ pc'[q] = pc[q]
    BY <1>0, <2>2, <2>3 DEF ByOthers
  <2>5. r \in Sends => Awake(r)'
    <3> SUFFICES ASSUME r \in Sends PROVE Awake(r)'
      OBVIOUS
    <3>1. CASE last
      <4>1. pc'[r] = "ended"
        BY <1>0, <2>1, <2>3, <3>1
      <4> QED
        BY <4>1, Apart
    <3>2. CASE ~last
      <4>1. mode[r] = "stream"
        BY <1>0, <2>2 DEF TypeOK, PlacesOK
      <4>2. Awake(r) /\ Waits(r) /\ receive(r, FALSE)
        BY <2>2, <3>2, <4>1 DEF WakeInv, Waits
      <4> QED
        BY <1>0, <2>2, <2>3, <3>2, <4>2, TakesAndStays
    <3> QED
      BY <3>1, <3>2
  <2> QED
    BY <2>1, <2>2, <2>4, <2>5, WakeOne
<1>4. ASSUME NEW c \in Cancelers, AnswerCancel(c) PROVE WakeInv'
  <2>1. /\ \A q \in Requests \ {c} : ByOthers(q) /\ pc'[q] = pc[q]
        /\ pc'[c] = "answered" /\ UNCHANGED <<target, mode>>
    BY <1>0, <1>4, Roles DEF AnswerCancel, ByOthers
  <2> QED
    BY <2>1, Roles, WakeOne DEF Quiet
<1>5. ASSUME NEW caller \in Callers, Notify(caller) PROVE WakeInv'
  <2>1. \A q \in Requests : ByOthers(q)
    BY <1>5 DEF Notify, ByOthers
  <2> QED
    BY <1>5, <2>1, WakeFrame DEF Notify, requestVars
<1>6. CASE LoopTakes
  BY <1>6, WakeFrame DEF LoopTakes, LoopTake, ByOthers, requestVars
<1> QED
  BY <1>1, <1>2, <1>3, <1>4, <1>5, <1>6 DEF ServerNext

LEMMA WakeEnv ==
  ASSUME WakeInv, EnvNext, TypeOK'
  PROVE  WakeInv'
<1> USE DEF At, Goto
<1>0. /\ TypeOK /\ pc \in [Requests -> Places] /\ mode \in [Sends -> Modes]
      /\ target \in [Requests -> Tasks \cup {NoTask}]
  BY DEF WakeInv, TypeOK, RequestTypeOK
<1>1. ASSUME NEW s \in Sends, NEW task \in Tasks, NEW how \in Modes, NEW key \in Keys \cup {NoKey},
             CreateTask(s, task, how, key)
      PROVE  WakeInv'
  <2>1. s \in Requests /\ s \notin Cancelers /\ Quiet(s)
    BY Roles DEF WakeInv, Awake
  <2>2. pc[s] = "start" /\ pc'[s] = "created" /\ owed' = owed
    BY <1>0, <1>1, <2>1 DEF CreateTask, create_task
  <2>3. Awake(s)'
    BY <2>1, <2>2 DEF Awake, Quiet, Listens, WillHear, Waits
  <2>4. \A q \in Requests \ {s} :
           ByOthers(q) /\ pc'[q] = pc[q] /\ target'[q] = target[q]
             /\ (q \in Sends => mode'[q] = mode[q])
    BY <1>0, <1>1, <2>1 DEF CreateTask, ByOthers
  <2> QED
    BY <2>1, <2>3, <2>4, WakeOne
<1>2. ASSUME NEW s \in Sends, NEW how \in Modes, NEW key \in Keys, RepeatedKey(s, how, key)
      PROVE  WakeInv'
  <2>1. s \in Requests /\ s \notin Cancelers
    BY Roles
  <2>2. Awake(s)'
    BY <1>0, <1>2, <2>1, Apart DEF RepeatedKey
  <2>3. \A q \in Requests \ {s} :
           ByOthers(q) /\ pc'[q] = pc[q] /\ target'[q] = target[q]
             /\ (q \in Sends => mode'[q] = mode[q])
    BY <1>0, <1>2, <2>1 DEF RepeatedKey, ByOthers
  <2> QED
    BY <2>1, <2>2, <2>3, WakeOne
<1>3. ASSUME NEW w \in Watchers, NEW task \in Tasks, Lookup(w, task) PROVE WakeInv'
  <2>1. w \in Requests /\ w \notin Cancelers /\ w \notin Sends
    BY Roles
  <2>2. \A q \in Requests \ {w} :
           ByOthers(q) /\ pc'[q] = pc[q] /\ target'[q] = target[q]
             /\ (q \in Sends => mode'[q] = mode[q])
    BY <1>0, <1>3, <2>1 DEF Lookup, ByOthers
  <2> QED
    BY <2>1, <2>2, WakeOne
<1>4. ASSUME NEW c \in Cancelers, NEW task \in Tasks, CancelTask(c, task) PROVE WakeInv'
  <2>1. c \in Requests /\ c \in Callers /\ c \notin Sends /\ Quiet(c)
    BY Roles DEF WakeInv
  <2>2. pc[c] = "start" /\ pc'[c] \in {"canceled", "refused"} /\ owed[c] = <<>>
    BY <1>0, <1>4, <2>1 DEF CancelTask, Quiet
  <2>3. \A q \in Requests \ {c} :
           pc'[q] = pc[q] /\ target'[q] = target[q] /\ (q \in Sends => mode'[q] = mode[q])
    BY <1>0, <1>4, <2>1 DEF CancelTask
  <2>4. \A q \in Requests \ {c} : ByOthers(q)
    BY <1>4, <2>1, <2>2 DEF CancelTask, ByOthers, TaskState, Terminal
  <2>5. Quiet(c)'
    BY <2>2 DEF Quiet
  <2> QED
    BY <2>1, <2>3, <2>4, <2>5, WakeOne
<1>5. ASSUME NEW s \in Sends, Deadline(s) PROVE WakeInv'
  <2>1. s \in Requests /\ s \notin Cancelers
    BY Roles
  <2>2. Awake(s)'
    BY <1>0, <1>5, <2>1, Apart DEF Deadline
  <2>3. \A q \in Requests \ {s} :
           ByOthers(q) /\ pc'[q] = pc[q] /\ target'[q] = target[q]
             /\ (q \in Sends => mode'[q] = mode[q])
    BY <1>0, <1>5, <2>1 DEF Deadline, ByOthers
  <2> QED
    BY <2>1, <2>2, <2>3, WakeOne
<1>6. ASSUME NEW r \in Receivers, HangUp(r) PROVE WakeInv'
  <2>1. r \in Requests /\ r \notin Cancelers
    BY Roles
  <2>2. r \in Sends => Awake(r)'
    BY <1>0, <1>6, <2>1, Apart DEF HangUp
  <2>3. \A q \in Requests \ {r} :
           ByOthers(q) /\ pc'[q] = pc[q] /\ target'[q] = target[q]
             /\ (q \in Sends => mode'[q] = mode[q])
    BY <1>0, <1>6, <2>1 DEF HangUp, ByOthers
  <2> QED
    BY <2>1, <2>2, <2>3, WakeOne
<1>7. ASSUME NEW task \in Tasks, LoopReject(task) \/ ListenerComplete(task) \/ ListenerFail(task)
      PROVE  WakeInv'
  <2>1. Loop \in Callers /\ Listener \in Callers /\ Loop \notin Requests /\ Listener \notin Requests
    BY Roles
  <2>2. {"Rejected", "Failed", "Completed"} \subseteq TaskState
    BY DEF TaskState, Terminal
  <2>3. \A q \in Requests : ByOthers(q)
    BY <1>7, <2>1, <2>2 DEF LoopReject, ListenerComplete, ListenerFail, Ended, ByOthers
  <2>4. UNCHANGED <<pc, mode, target>>
    BY <1>7 DEF LoopReject, ListenerComplete, ListenerFail, Ended, requestVars
  <2> QED
    BY <2>3, <2>4, WakeFrame
<1> QED
  BY <1>1, <1>2, <1>3, <1>4, <1>5, <1>6, <1>7 DEF EnvNext

LEMMA WakeInit ==
  ASSUME Init
  PROVE  WakeInv
<1>1. /\ \A r \in Requests : pc[r] = "start"
      /\ \A c \in Callers : owed[c] = <<>>
  BY DEF Init, StoreInit
<1> QED
  BY <1>1, TypeInit, Roles DEF WakeInv, Awake, Quiet, Listens, WillHear, Waits, At

\* However subscriptions, cancels, rejections and completions interleave with a send, it
\* never waits or streams on a task that has ended without the end before it.
THEOREM NobodySleepsThrough == Spec => []NoLostWakeup
<1>1. ASSUME WakeInv, [Next]_vars PROVE WakeInv'
  <2>1. TypeOK /\ TypeOK'
    BY <1>1, TypeStep DEF WakeInv
  <2>2. CASE UNCHANGED vars
    <3>1. \A r \in Requests : ByOthers(r)
      BY <2>2 DEF ByOthers, vars
    <3> QED
      BY <1>1, <2>1, <2>2, <3>1, WakeFrame DEF vars, requestVars
  <2> QED
    BY <1>1, <2>1, <2>2, WakeServer, WakeEnv DEF Next
<1>2. WakeInv => NoLostWakeup
  BY DEF WakeInv, Awake, WillHear, Waits, NoLostWakeup
<1> QED
  BY <1>1, <1>2, WakeInit, PTL DEF Spec


-----------------------------------------------------------------------------
(* What a step does, seen from one request and seen from the store.        *)

(* The steps of a request itself.                                          *)
Mine(r) ==
    \/ /\ r \in Sends
       /\ \/ SendStep(r) \/ Deadline(r)
          \/ \E task \in Tasks, how \in Modes, key \in Keys \cup {NoKey} : CreateTask(r, task, how, key)
          \/ \E how \in Modes, key \in Keys : RepeatedKey(r, how, key)
    \/ /\ r \in Receivers
       /\ StreamReceive(r) \/ HangUp(r)
    \/ /\ r \in Watchers
       /\ WatchStep(r) \/ \E task \in Tasks : Lookup(r, task)
    \/ /\ r \in Cancelers
       /\ AnswerCancel(r) \/ \E task \in Tasks : CancelTask(r, task)

(* What a request has of its own does not change.                          *)
Still(r) ==
    /\ pc'[r] = pc[r] /\ target'[r] = target[r]
    /\ r \in Sends => /\ mode'[r] = mode[r] /\ answer'[r] = answer[r]
                      /\ r \in overdue => r \in overdue'
                      /\ r \in repeated => r \in repeated'
    /\ r \in Receivers => told'[r] = told[r]

\* Only a request's own steps change what it has of its own.
LEMMA OwnSteps ==
  ASSUME TypeOK, [Next]_vars, NEW r \in Requests
  PROVE  Mine(r) \/ Still(r)
<1>0. /\ pc \in [Requests -> Places] /\ target \in [Requests -> Tasks \cup {NoTask}]
      /\ mode \in [Sends -> Modes] /\ answer \in [Sends -> TaskState \cup {"none"}]
      /\ told \in [Receivers -> SUBSET (EventKind \cup {"none"})]
  BY DEF TypeOK, RequestTypeOK
<1>1. ASSUME UNCHANGED requestVars PROVE Still(r)
  BY ONLY <1>1 DEF requestVars, Still
<1>2. ASSUME NEW s \in Sends, s # r,
             \/ StreamSubscribe(s) \/ StartWorking(s) \/ WorkRefused(s) \/ WaitSubscribe(s)
      PROVE  Still(r)
  BY ONLY <1>0, <1>2, Roles DEF StreamSubscribe, StartWorking, WorkRefused, WaitSubscribe, Goto, Still
<1>3. ASSUME NEW s \in Sends, s # r, ReRead(s) \/ FinalRead(s) \/ HandOver(s)
      PROVE  Still(r)
  BY ONLY <1>0, <1>3, Roles DEF ReRead, FinalRead, HandOver, Goto, Still
<1>4. ASSUME NEW s \in Sends, s # r, WaitReceive(s) \/ Deadline(s)
      PROVE  Still(r)
  BY ONLY <1>0, <1>4, Roles DEF WaitReceive, Deadline, Goto, Still
<1>5. ASSUME NEW s \in Sends, s # r, NEW task, NEW how, NEW key,
             CreateTask(s, task, how, key) \/ RepeatedKey(s, how, key)
      PROVE  Still(r)
  BY ONLY <1>0, <1>5, Roles DEF CreateTask, RepeatedKey, Goto, Still
<1>6. ASSUME NEW q \in Receivers, q # r, StreamReceive(q) \/ HangUp(q)
      PROVE  Still(r)
  BY ONLY <1>0, <1>6, Roles DEF StreamReceive, HangUp, Goto, Still
<1>7. ASSUME NEW w \in Watchers, w # r, NEW task, WatchSubscribe(w) \/ InitialSnapshot(w) \/ Lookup(w, task)
      PROVE  Still(r)
  BY ONLY <1>0, <1>7, Roles DEF WatchSubscribe, InitialSnapshot, Lookup, Goto, Still
<1>8. ASSUME NEW c \in Cancelers, c # r, NEW task, CancelTask(c, task) \/ AnswerCancel(c)
      PROVE  Still(r)
  BY ONLY <1>0, <1>8, Roles DEF CancelTask, AnswerCancel, Goto, Still
<1>9. ASSUME NEW task,
             \/ \E caller \in Callers : Notify(caller)
             \/ LoopTake(task) \/ LoopReject(task) \/ ListenerComplete(task) \/ ListenerFail(task)
             \/ UNCHANGED vars
      PROVE  UNCHANGED requestVars
  BY ONLY <1>9 DEF Notify, LoopTake, LoopReject, ListenerComplete, ListenerFail, Ended, vars
<1>10. CASE ServerNext
  <2>1. ASSUME NEW s \in Sends, SendStep(s) PROVE Mine(r) \/ Still(r)
    <3>1. CASE s = r
      BY <2>1, <3>1 DEF Mine
    <3>2. CASE s # r
      BY ONLY <2>1, <3>2, <1>2, <1>3, <1>4 DEF SendStep
    <3> QED
      BY <3>1, <3>2
  <2>2. ASSUME NEW w \in Watchers, WatchStep(w) PROVE Mine(r) \/ Still(r)
    <3>1. CASE w = r
      BY <2>2, <3>1 DEF Mine
    <3>2. CASE w # r
      BY ONLY <2>2, <3>2, <1>7 DEF WatchStep
    <3> QED
      BY <3>1, <3>2
  <2>3. ASSUME NEW q \in Receivers, StreamReceive(q) PROVE Mine(r) \/ Still(r)
    <3>1. CASE q = r
      BY <2>3, <3>1 DEF Mine
    <3>2. CASE q # r
      BY ONLY <2>3, <3>2, <1>6
    <3> QED
      BY <3>1, <3>2
  <2>4. ASSUME NEW c \in Cancelers, AnswerCancel(c) PROVE Mine(r) \/ Still(r)
    <3>1. CASE c = r
      BY <2>4, <3>1 DEF Mine
    <3>2. CASE c # r
      BY ONLY <2>4, <3>2, <1>8
    <3> QED
      BY <3>1, <3>2
  <2>5. CASE (\E caller \in Callers : Notify(caller)) \/ LoopTakes
    BY ONLY <2>5, <1>1, <1>9 DEF LoopTakes
  <2> QED
    BY ONLY <1>10, <2>1, <2>2, <2>3, <2>4, <2>5 DEF ServerNext
<1>11. CASE EnvNext
  <2>1. ASSUME NEW s \in Sends, NEW task \in Tasks, NEW how \in Modes, NEW key \in Keys \cup {NoKey},
               CreateTask(s, task, how, key)
        PROVE  Mine(r) \/ Still(r)
    <3>1. CASE s = r
      BY <2>1, <3>1 DEF Mine
    <3>2. CASE s # r
      BY ONLY <2>1, <3>2, <1>5
    <3> QED
      BY <3>1, <3>2
  <2>2. ASSUME NEW s \in Sends, NEW how \in Modes, NEW key \in Keys, RepeatedKey(s, how, key)
        PROVE  Mine(r) \/ Still(r)
    <3>1. CASE s = r
      BY <2>2, <3>1 DEF Mine
    <3>2. CASE s # r
      BY ONLY <2>2, <3>2, <1>5
    <3> QED
      BY <3>1, <3>2
  <2>3. ASSUME NEW w \in Watchers, NEW task \in Tasks, Lookup(w, task) PROVE Mine(r) \/ Still(r)
    <3>1. CASE w = r
      BY <2>3, <3>1 DEF Mine
    <3>2. CASE w # r
      BY ONLY <2>3, <3>2, <1>7
    <3> QED
      BY <3>1, <3>2
  <2>4. ASSUME NEW c \in Cancelers, NEW task \in Tasks, CancelTask(c, task) PROVE Mine(r) \/ Still(r)
    <3>1. CASE c = r
      BY <2>4, <3>1 DEF Mine
    <3>2. CASE c # r
      BY ONLY <2>4, <3>2, <1>8
    <3> QED
      BY <3>1, <3>2
  <2>5. ASSUME NEW s \in Sends, Deadline(s) PROVE Mine(r) \/ Still(r)
    <3>1. CASE s = r
      BY <2>5, <3>1 DEF Mine
    <3>2. CASE s # r
      BY ONLY <2>5, <3>2, <1>4
    <3> QED
      BY <3>1, <3>2
  <2>6. ASSUME NEW q \in Receivers, HangUp(q) PROVE Mine(r) \/ Still(r)
    <3>1. CASE q = r
      BY <2>6, <3>1 DEF Mine
    <3>2. CASE q # r
      BY ONLY <2>6, <3>2, <1>6
    <3> QED
      BY <3>1, <3>2
  <2>7. ASSUME NEW task \in Tasks, LoopReject(task) \/ ListenerComplete(task) \/ ListenerFail(task)
        PROVE  Still(r)
    BY ONLY <2>7, <1>1, <1>9
  <2> QED
    BY ONLY <1>11, <2>1, <2>2, <2>3, <2>4, <2>5, <2>6, <2>7 DEF EnvNext
<1>12. CASE UNCHANGED vars
  BY ONLY <1>12, <1>1 DEF vars
<1> QED
  BY <1>10, <1>11, <1>12 DEF Next

(* A status changes, and the caller has it to notify.                      *)
Changes(c, task, state) ==
    /\ is_valid_transition(status[task], state)
    /\ status' = [status EXCEPT ![task] = state]
    /\ owed' = [owed EXCEPT ![c] = IF state = "Completed" THEN completion_events(task)
                                   ELSE <<Event(task, state)>>]
    /\ UNCHANGED subVars
    /\ state = "Working" => c \in Sends /\ task = target[c] /\ ReadyToWork(c) /\ Goto(c, "working")

Creates(s, task) ==
    /\ pc[s] = "start" /\ status[task] = "none"
    /\ status' = [status EXCEPT ![task] = "Submitted"]
    /\ target' = [target EXCEPT ![s] = task] /\ Goto(s, "created")
    /\ UNCHANGED <<subVars, owed>>

Joins(r) ==
    /\ target[r] \in Tasks /\ subscribe(r, target[r])
    /\ r \in Sends /\ mode[r] = "stream" => pc[r] = "created"

Drains(r) ==
    \/ disconnect(r)
    \/ /\ \E leaves \in BOOLEAN : receive(r, leaves)
       /\ r \in Sends /\ mode[r] = "stream" => told'[r] = told[r] \cup {Head(channel[r]).kind}

Rests == UNCHANGED <<status, subVars, owed>>

StoreMove ==
    \/ \E c \in Callers, task \in Tasks, state \in {"Working"} \cup Terminal : Changes(c, task, state)
    \/ \E s \in Sends, task \in Tasks : Creates(s, task)
    \/ \E r \in Receivers : Joins(r)
    \/ \E c \in Callers : Notify(c)
    \/ \E r \in Receivers : Drains(r)
    \/ Rests

\* Every step moves the store in one of these ways.
LEMMA StoreMoves ==
  ASSUME TypeOK, [Next]_vars
  PROVE  StoreMove
<1>1. ASSUME NEW s \in Sends, SendStep(s) PROVE StoreMove
  <2>0. s \in Requests /\ s \in Receivers /\ s \in Callers
    BY Roles
  <2>1. CASE StreamSubscribe(s)
    <3>1. target[s] \in Tasks
      BY <2>0, <2>1, TargetTask DEF StreamSubscribe, At
    <3> QED
      BY ONLY <2>0, <2>1, <3>1 DEF StreamSubscribe, At, Joins, StoreMove
  <2>2. CASE WaitSubscribe(s)
    <3>1. target[s] \in Tasks /\ mode[s] = "blocking"
      BY <2>0, <2>2, TargetTask DEF WaitSubscribe, At, TypeOK, PlacesOK
    <3> QED
      BY ONLY <2>0, <2>2, <3>1 DEF WaitSubscribe, Joins, StoreMove
  <2>3. CASE StartWorking(s)
    <3>1. target[s] \in Tasks
      BY <2>0, <2>3, TargetTask DEF StartWorking, ReadyToWork, At
    <3>2. Changes(s, target[s], "Working")
      BY ONLY <2>3, s \in Sends DEF StartWorking, update_status, Changes
    <3> QED
      BY ONLY <2>0, <3>1, <3>2 DEF StoreMove
  <2>4. CASE HandOver(s)
    BY ONLY <2>4 DEF HandOver, append_history, Rests, StoreMove
  <2>5. CASE ReRead(s)
    BY ONLY <2>0, <2>5 DEF ReRead, storeVars, taskVars, Rests, Drains, StoreMove
  <2>6. CASE WorkRefused(s) \/ FinalRead(s)
    BY ONLY <2>0, <2>6 DEF WorkRefused, FinalRead, Drains, StoreMove
  <2>7. CASE WaitReceive(s)
    <3>1. mode[s] = "blocking"
      BY <2>0, <2>7 DEF WaitReceive, At, TypeOK, PlacesOK
    <3> QED
      BY ONLY <2>0, <2>7, <3>1 DEF WaitReceive, Drains, StoreMove
  <2> QED
    BY ONLY <1>1, <2>1, <2>2, <2>3, <2>4, <2>5, <2>6, <2>7 DEF SendStep
<1>2. ASSUME NEW w \in Watchers, WatchStep(w) PROVE StoreMove
  <2>0. w \in Receivers /\ w \notin Sends
    BY Roles
  <2>1. CASE WatchSubscribe(w)
    <3>1. target[w] \in Tasks
      BY <2>0, <2>1, TargetTask, Roles DEF WatchSubscribe, At
    <3> QED
      BY ONLY <2>0, <2>1, <3>1 DEF WatchSubscribe, Joins, StoreMove
  <2>2. CASE InitialSnapshot(w)
    BY ONLY <2>2 DEF InitialSnapshot, storeVars, taskVars, Rests, StoreMove
  <2> QED
    BY ONLY <1>2, <2>1, <2>2 DEF WatchStep
<1>3. ASSUME NEW r \in Receivers, StreamReceive(r) \/ HangUp(r) PROVE StoreMove
  <2>1. CASE StreamReceive(r)
    <3>1. (Head(channel[r]).kind \in Terminal) \in BOOLEAN
      OBVIOUS
    <3>2. \E leaves \in BOOLEAN : receive(r, leaves)
      BY ONLY <2>1, <3>1 DEF StreamReceive
    <3>3. r \in Sends => told'[r] = told[r] \cup {Head(channel[r]).kind}
      BY <2>1, Roles DEF StreamReceive, TypeOK, RequestTypeOK
    <3> QED
      BY ONLY <3>2, <3>3, r \in Receivers DEF Drains, StoreMove
  <2>2. CASE HangUp(r)
    BY ONLY <2>2, r \in Receivers DEF HangUp, Drains, StoreMove
  <2> QED
    BY <1>3, <2>1, <2>2
<1>4. ASSUME NEW s \in Sends, NEW task \in Tasks, NEW how, NEW key, CreateTask(s, task, how, key)
      PROVE  StoreMove
  <2>1. Creates(s, task)
    BY ONLY <1>4 DEF CreateTask, create_task, Creates, At
  <2> QED
    BY ONLY <2>1, s \in Sends, task \in Tasks DEF StoreMove
<1>5. ASSUME NEW task \in Tasks, NEW c \in Cancelers, CancelTask(c, task) PROVE StoreMove
  <2>1. CASE UNCHANGED storeVars
    BY ONLY <2>1 DEF storeVars, taskVars, Rests, StoreMove
  <2>2. CASE update_status(c, task, "Canceled")
    <3>1. Changes(c, task, "Canceled")
      BY ONLY <2>2 DEF update_status, Changes
    <3>2. c \in Callers
      BY Roles
    <3> QED
      BY ONLY <3>1, <3>2, task \in Tasks DEF StoreMove, Terminal
  <2> QED
    BY ONLY <1>5, <2>1, <2>2 DEF CancelTask
<1>6. ASSUME NEW task \in Tasks, LoopReject(task) \/ ListenerComplete(task) \/ ListenerFail(task)
      PROVE  StoreMove
  <2>1. CASE UNCHANGED storeVars
    BY ONLY <2>1 DEF storeVars, taskVars, Rests, StoreMove
  <2>2. CASE update_status(Loop, task, "Rejected")
    <3>1. Changes(Loop, task, "Rejected")
      BY ONLY <2>2 DEF update_status, Changes
    <3>2. Loop \in Callers
      BY Roles
    <3> QED
      BY ONLY <3>1, <3>2, task \in Tasks DEF StoreMove, Terminal
  <2>3. CASE update_status(Listener, task, "Failed")
    <3>1. Changes(Listener, task, "Failed")
      BY ONLY <2>3 DEF update_status, Changes
    <3>2. Listener \in Callers
      BY Roles
    <3> QED
      BY ONLY <3>1, <3>2, task \in Tasks DEF StoreMove, Terminal
  <2>4. CASE complete_task(Listener, task)
    <3>1. Changes(Listener, task, "Completed")
      BY ONLY <2>4 DEF complete_task, Changes
    <3>2. Listener \in Callers
      BY Roles
    <3> QED
      BY ONLY <3>1, <3>2, task \in Tasks DEF StoreMove, Terminal
  <2> QED
    BY ONLY <1>6, <2>1, <2>2, <2>3, <2>4 DEF LoopReject, ListenerComplete, ListenerFail, Ended
<1>7. ASSUME NEW r, NEW task, NEW how, NEW key,
             \/ RepeatedKey(r, how, key) \/ Lookup(r, task) \/ Deadline(r) \/ AnswerCancel(r)
             \/ LoopTake(task) \/ UNCHANGED vars
      PROVE  StoreMove
  BY ONLY <1>7 DEF RepeatedKey, Lookup, Deadline, AnswerCancel, LoopTake, vars, storeVars, taskVars,
                   Rests, StoreMove
<1>8. ASSUME \E c \in Callers : Notify(c) PROVE StoreMove
  BY ONLY <1>8 DEF StoreMove
<1>9. CASE ServerNext
  BY ONLY <1>9, <1>1, <1>2, <1>3, <1>7, <1>8 DEF ServerNext, LoopTakes
<1>10. CASE EnvNext
  BY ONLY <1>10, <1>3, <1>4, <1>5, <1>6, <1>7 DEF EnvNext
<1> QED
  BY <1>7, <1>9, <1>10 DEF Next

\* A task that has ended keeps its state; a task does not become new again.
LEMMA EndsKept ==
  ASSUME TypeOK, [Next]_vars, NEW task \in Tasks
  PROVE  /\ status[task] \in Terminal => status'[task] = status[task]
         /\ status[task] # "none" => status'[task] # "none"
         /\ status[task] \notin {"none", "Submitted"} => status'[task] \notin {"none", "Submitted"}
<1>0. status \in [Tasks -> TaskState \cup {"none"}]
  BY DEF TypeOK, StoreTypeOK
<1>1. ASSUME NEW c \in Callers, NEW t \in Tasks, NEW state \in {"Working"} \cup Terminal,
             Changes(c, t, state)
      PROVE  /\ status[task] \in Terminal => status'[task] = status[task]
             /\ status'[task] = status[task] \/ status'[task] \in {"Working"} \cup Terminal
  BY ONLY <1>0, <1>1, task \in Tasks DEF Changes, is_valid_transition, Terminal
<1>2. ASSUME NEW s \in Sends, NEW t \in Tasks, Creates(s, t)
      PROVE  status'[task] = status[task] \/ (status[task] = "none" /\ status'[task] = "Submitted")
  BY ONLY <1>0, <1>2, task \in Tasks DEF Creates
<1>3. ASSUME NEW r, Joins(r) \/ Notify(r) \/ Drains(r) \/ Rests PROVE status' = status
  BY ONLY <1>3 DEF Joins, subscribe, Notify, notify, Drains, disconnect, receive, Rests, taskVars
<1>4. "none" \notin {"Working"} \cup Terminal /\ "Submitted" \notin {"Working"} \cup Terminal
  BY DEF Terminal
<1> QED
  BY ONLY StoreMoves, TypeOK, [Next]_vars, <1>1, <1>2, <1>3, <1>4 DEF StoreMove

-----------------------------------------------------------------------------
(* Everyone is told of the same end.                                       *)

Fresh == \A r \in Requests : pc[r] = "start" => target[r] = NoTask

(* What a caller owes is nothing, one status that the task has reached, or *)
(* the result of a completed task and its state.                           *)
Reached(task, kind) ==
    IF kind \in Terminal THEN status[task] = kind ELSE status[task] \notin {"none", "Submitted"}
OwesStatus(c, task, kind) == owed[c] = <<Event(task, kind)>> /\ Reached(task, kind)
OwesResult(c, task) == owed[c] = completion_events(task) /\ status[task] = "Completed"
OwedTrue ==
    \A c \in Callers :
       \/ owed[c] = <<>>
       \/ \E task \in Tasks, kind \in {"Working"} \cup Terminal : OwesStatus(c, task, kind)
       \/ \E task \in Tasks : OwesResult(c, task)

(* A receiver is subscribed to its own task only, and what its channel     *)
(* says of that task is so.                                                *)
OwnSubscription == \A r \in Receivers, task \in Tasks : r \in subscriptions[task] => target[r] = task

Holds(r) == {channel[r][i] : i \in DOMAIN channel[r]}
True(event) ==
    /\ event.kind \in Terminal => status[event.task] = event.kind
    /\ event.kind = "artifact" => status[event.task] = "Completed"
    /\ event.kind = "Working" => status[event.task] \notin {"none", "Submitted"}
OwnEvents == \A r \in Receivers : \A event \in Holds(r) : event.task = target[r] /\ True(event)

ToldTrue ==
    \A r \in Receivers : \A kind \in told[r] \cap Terminal :
       target[r] \in Tasks /\ status[target[r]] = kind
AnswerTrue ==
    \A s \in Sends : answer[s] \in Terminal => target[s] \in Tasks /\ status[target[s]] = answer[s]

TruthInv ==
    TypeOK /\ Fresh /\ OwedTrue /\ OwnSubscription /\ OwnEvents /\ ToldTrue /\ AnswerTrue

\* A request's own steps leave its start behind and give it a task there only.
LEMMA MineMoves ==
  ASSUME TypeOK, NEW r \in Requests, Mine(r)
  PROVE  pc'[r] # "start" /\ (target'[r] = target[r] \/ pc[r] = "start")
<1>0. pc \in [Requests -> Places] /\ target \in [Requests -> Tasks \cup {NoTask}]
      /\ \A s \in Sends : mode[s] \in Modes
  BY DEF TypeOK, RequestTypeOK
<1>1. CASE r \in Sends /\ SendStep(r)
  <2>1. ASSUME \/ StreamSubscribe(r) \/ StartWorking(r) \/ WorkRefused(r)
               \/ WaitSubscribe(r) \/ FinalRead(r)
        PROVE  pc'[r] # "start" /\ target'[r] = target[r]
    BY ONLY <1>0, <2>1, r \in Requests
       DEF StreamSubscribe, StartWorking, WorkRefused, WaitSubscribe, FinalRead, Goto
  <2>2. ASSUME ReRead(r) \/ WaitReceive(r) PROVE pc'[r] # "start" /\ target'[r] = target[r]
    BY ONLY <1>0, <2>2, r \in Requests DEF ReRead, WaitReceive, Goto, At
  <2>3. ASSUME HandOver(r) PROVE pc'[r] # "start" /\ target'[r] = target[r]
    BY ONLY <1>0, <1>1, <2>3, r \in Requests DEF HandOver, AfterHandOver, Goto, Modes
  <2> QED
    BY ONLY <1>1, <2>1, <2>2, <2>3 DEF SendStep
<1>2. ASSUME \/ Deadline(r) \/ HangUp(r) \/ StreamReceive(r) \/ WatchStep(r) \/ AnswerCancel(r)
      PROVE  pc'[r] # "start" /\ target'[r] = target[r]
  BY ONLY <1>0, <1>2, r \in Requests
     DEF Deadline, HangUp, StreamReceive, WatchStep, WatchSubscribe, InitialSnapshot, AnswerCancel,
         Goto, At
<1>3. ASSUME NEW task, NEW how, NEW key,
             CreateTask(r, task, how, key) \/ RepeatedKey(r, how, key) \/ Lookup(r, task)
             \/ CancelTask(r, task)
      PROVE  pc'[r] # "start" /\ pc[r] = "start"
  BY ONLY <1>0, <1>3, r \in Requests DEF CreateTask, RepeatedKey, Lookup, CancelTask, Goto, At
<1> QED
  BY ONLY Mine(r), <1>1, <1>2, <1>3 DEF Mine

\* A request keeps the task it has.
LEMMA TargetKept ==
  ASSUME TypeOK, Fresh, [Next]_vars
  PROVE  /\ \A r \in Requests : target[r] \in Tasks => target'[r] = target[r] /\ pc'[r] # "start"
         /\ Fresh'
<1>1. ASSUME NEW r \in Requests, target[r] \in Tasks
      PROVE  target'[r] = target[r] /\ pc'[r] # "start"
  <2>1. pc[r] # "start"
    BY <1>1, StoreAssumption DEF Fresh
  <2> QED
    BY ONLY <2>1, OwnSteps, MineMoves, TypeOK, [Next]_vars, r \in Requests DEF Still
<1>2. ASSUME NEW r \in Requests, pc'[r] = "start" PROVE target'[r] = NoTask
  <2>1. Still(r)
    BY ONLY <1>2, OwnSteps, MineMoves, TypeOK, [Next]_vars, r \in Requests
  <2> QED
    BY ONLY <1>2, <2>1, r \in Requests, Fresh DEF Still, Fresh
<1> QED
  BY <1>1, <1>2 DEF Fresh

LEMMA Tails ==
  /\ \A task, kind : Tail(<<Event(task, kind)>>) = <<>> /\ Head(<<Event(task, kind)>>) = Event(task, kind)
  /\ \A task : /\ Tail(completion_events(task)) = <<Event(task, "Completed")>>
               /\ Head(completion_events(task)) = Event(task, "artifact")
  BY DEF completion_events

LEMMA OwedStep ==
  ASSUME TypeOK, OwedTrue, [Next]_vars
  PROVE  OwedTrue'
<1>0. /\ status \in [Tasks -> TaskState \cup {"none"}] /\ owed \in [Callers -> Seq(TaskEvent)]
  BY DEF TypeOK, StoreTypeOK
<1>1. \A task \in Tasks : \A kind : Reached(task, kind) => Reached(task, kind)'
  BY ONLY TypeOK, [Next]_vars, EndsKept DEF Reached
<1>2. ASSUME NEW c \in Callers, owed'[c] = owed[c]
      PROVE  \/ owed'[c] = <<>>
             \/ \E task \in Tasks, kind \in {"Working"} \cup Terminal : OwesStatus(c, task, kind)'
             \/ \E task \in Tasks : OwesResult(c, task)'
  <2>1. \A task \in Tasks : status[task] = "Completed" => status'[task] = "Completed"
    BY ONLY TypeOK, [Next]_vars, EndsKept DEF Terminal
  <2> QED
    BY ONLY OwedTrue, <1>1, <1>2, <2>1 DEF OwedTrue, OwesStatus, OwesResult
<1>3. ASSUME NEW c \in Callers, NEW t \in Tasks, NEW state \in {"Working"} \cup Terminal,
             Changes(c, t, state)
      PROVE  OwedTrue'
  <2>1. /\ \A d \in Callers : d # c => owed'[d] = owed[d]
        /\ owed'[c] = IF state = "Completed" THEN completion_events(t) ELSE <<Event(t, state)>>
        /\ status'[t] = state
    BY ONLY <1>0, <1>3 DEF Changes
  <2>2. \/ OwesStatus(c, t, state)' \/ OwesResult(c, t)'
    BY ONLY <2>1, <1>3 DEF OwesStatus, OwesResult, Reached, Terminal
  <2> QED
    BY <1>2, <2>1, <2>2 DEF OwedTrue
<1>4. ASSUME NEW c \in Callers, Notify(c) PROVE OwedTrue'
  <2>1. /\ owed[c] # <<>> /\ owed'[c] = Tail(owed[c]) /\ \A d \in Callers : d # c => owed'[d] = owed[d]
        /\ UNCHANGED status
    BY ONLY <1>0, <1>4 DEF Notify, notify, taskVars
  <2>2. owed'[c] = <<>> \/ \E task \in Tasks : OwesStatus(c, task, "Completed")'
    <3>1. CASE \E task \in Tasks : OwesResult(c, task)
      BY ONLY <2>1, <3>1, Tails DEF OwesResult, OwesStatus, Reached, Terminal
    <3>2. CASE \E task \in Tasks, kind \in {"Working"} \cup Terminal : OwesStatus(c, task, kind)
      BY ONLY <2>1, <3>2, Tails DEF OwesStatus
    <3> QED
      BY ONLY OwedTrue, c \in Callers, <2>1, <3>1, <3>2 DEF OwedTrue
  <2> QED
    BY <1>2, <2>1, <2>2 DEF OwedTrue, Terminal
<1>5. ASSUME NEW r, (\E s \in Sends : Creates(s, r)) \/ Joins(r) \/ Drains(r) \/ Rests
      PROVE  OwedTrue'
  <2>1. owed' = owed
    BY ONLY <1>5 DEF Creates, Joins, subscribe, Drains, disconnect, receive, Rests
  <2> QED
    BY <1>2, <2>1 DEF OwedTrue
<1> QED
  BY ONLY StoreMoves, TypeOK, [Next]_vars, <1>3, <1>4, <1>5 DEF StoreMove

LEMMA SubscriptionStep ==
  ASSUME TypeOK, Fresh, OwnSubscription, [Next]_vars
  PROVE  OwnSubscription'
<1>0. /\ subscriptions \in [Tasks -> SUBSET Receivers] /\ owed \in [Callers -> Seq(TaskEvent)]
      /\ Receivers \subseteq Requests
  BY Roles DEF TypeOK, StoreTypeOK
<1>1. ASSUME NEW r \in Receivers, NEW task \in Tasks, r \in subscriptions[task]
      PROVE  target'[r] = task
  <2>1. target[r] = task
    BY ONLY <1>1, OwnSubscription DEF OwnSubscription
  <2> QED
    BY ONLY <1>0, <2>1, TargetKept, TypeOK, Fresh, [Next]_vars, r \in Receivers, task \in Tasks
<1>2. ASSUME NEW q \in Receivers, Joins(q) PROVE OwnSubscription'
  <2>1. /\ target[q] \in Tasks
        /\ \A task \in Tasks : \A r \in subscriptions'[task] :
              r \in subscriptions[task] \/ (r = q /\ task = target[q])
    BY ONLY <1>0, <1>2 DEF Joins, subscribe
  <2>2. target'[q] = target[q]
    BY ONLY <1>0, <2>1, TargetKept, TypeOK, Fresh, [Next]_vars, q \in Receivers
  <2> QED
    BY ONLY <1>1, <2>1, <2>2 DEF OwnSubscription
<1>3. ASSUME NEW c \in Callers, Notify(c) PROVE OwnSubscription'
  <2>1. Head(owed[c]).task \in Tasks
    <3>1. owed[c] \in Seq(TaskEvent) /\ owed[c] # <<>>
      BY ONLY <1>0, <1>3 DEF Notify, notify
    <3>2. Head(owed[c]) \in TaskEvent
      BY ONLY <3>1, HeadTail
    <3> QED
      BY ONLY <3>2 DEF TaskEvent
  <2>2. \A task \in Tasks : subscriptions'[task] \subseteq subscriptions[task]
    BY ONLY <1>0, <1>3, <2>1 DEF Notify, notify
  <2> QED
    BY ONLY <1>1, <2>2 DEF OwnSubscription
<1>4. ASSUME NEW r, \/ \E c, task, state : Changes(c, task, state)
                    \/ \E task : Creates(r, task) \/ Drains(r) \/ Rests
      PROVE  OwnSubscription'
  <2>1. subscriptions' = subscriptions
    BY ONLY <1>4 DEF Changes, Creates, Drains, disconnect, receive, Rests, subVars
  <2> QED
    BY ONLY <1>1, <2>1 DEF OwnSubscription
<1> QED
  BY ONLY StoreMoves, TypeOK, [Next]_vars, <1>2, <1>3, <1>4 DEF StoreMove

\* What a channel holds after it grows or shrinks.
LEMMA Held ==
  ASSUME NEW q \in Seq(TaskEvent)
  PROVE  /\ \A event \in TaskEvent :
               {Append(q, event)[i] : i \in DOMAIN Append(q, event)}
                  \subseteq {q[i] : i \in DOMAIN q} \cup {event}
         /\ q # <<>> => {Tail(q)[i] : i \in DOMAIN Tail(q)} \subseteq {q[i] : i \in DOMAIN q}
         /\ q # <<>> => Head(q) \in {q[i] : i \in DOMAIN q}
<1>1. ASSUME NEW event \in TaskEvent, NEW i \in DOMAIN Append(q, event)
      PROVE  Append(q, event)[i] \in {q[j] : j \in DOMAIN q} \cup {event}
  BY <1>1
<1>2. ASSUME q # <<>>, NEW i \in DOMAIN Tail(q)
      PROVE  Tail(q)[i] \in {q[j] : j \in DOMAIN q}
  <2>1. i + 1 \in DOMAIN q /\ Tail(q)[i] = q[i + 1]
    BY <1>2
  <2> QED
    BY <2>1
<1>3. ASSUME q # <<>> PROVE Head(q) \in {q[i] : i \in DOMAIN q}
  <2>1. 1 \in DOMAIN q /\ Head(q) = q[1]
    BY <1>3
  <2> QED
    BY <2>1
<1> QED
  BY <1>1, <1>2, <1>3

\* An event that goes out is true, and goes to those whose task it is about.
LEMMA SentTrue ==
  ASSUME TypeOK, OwedTrue, NEW c \in Callers, notify(c)
  PROVE  /\ Head(owed[c]) \in TaskEvent /\ True(Head(owed[c]))
         /\ Head(owed[c]).kind \in {"Working", "artifact"} \cup Terminal
<1>1. owed[c] \in Seq(TaskEvent) /\ owed[c] # <<>>
  BY DEF notify, TypeOK, StoreTypeOK
<1>2. Head(owed[c]) \in TaskEvent
  BY <1>1, HeadTail
<1>3. ASSUME NEW task \in Tasks, OwesResult(c, task)
      PROVE  True(Head(owed[c])) /\ Head(owed[c]).kind = "artifact"
  <2>1. Head(owed[c]) = Event(task, "artifact") /\ status[task] = "Completed"
    BY ONLY <1>3, Tails DEF OwesResult
  <2>2. Head(owed[c]).task = task /\ Head(owed[c]).kind = "artifact"
    BY ONLY <2>1 DEF Event
  <2> QED
    BY ONLY <2>1, <2>2 DEF True, Terminal
<1>4. ASSUME NEW task \in Tasks, NEW kind \in {"Working"} \cup Terminal, OwesStatus(c, task, kind)
      PROVE  True(Head(owed[c])) /\ Head(owed[c]).kind = kind
  <2>1. Head(owed[c]) = Event(task, kind) /\ Reached(task, kind)
    BY ONLY <1>4, Tails DEF OwesStatus
  <2>2. Head(owed[c]).task = task /\ Head(owed[c]).kind = kind
    BY ONLY <2>1 DEF Event
  <2>3. kind # "artifact" /\ (kind = "Working" => kind \notin Terminal)
    BY DEF Terminal
  <2> QED
    BY ONLY <2>1, <2>2, <2>3 DEF True, Reached
<1> QED
  <2>1. \/ \E task \in Tasks, kind \in {"Working"} \cup Terminal : OwesStatus(c, task, kind)
        \/ \E task \in Tasks : OwesResult(c, task)
    BY ONLY OwedTrue, c \in Callers, <1>1 DEF OwedTrue
  <2> QED
    BY ONLY <1>2, <1>3, <1>4, <2>1

LEMMA EventsStep ==
  ASSUME TypeOK, Fresh, OwedTrue, OwnSubscription, OwnEvents, [Next]_vars
  PROVE  OwnEvents'
<1>0. /\ channel \in [Receivers -> Seq(TaskEvent)] /\ Receivers \subseteq Requests
      /\ \A r \in Receivers : channel[r] \in Seq(TaskEvent)
  BY Roles DEF TypeOK, StoreTypeOK
<1>1. \A event \in TaskEvent : True(event) => True(event)'
  <2>1. \A event \in TaskEvent : event.task \in Tasks
    BY DEF TaskEvent
  <2> QED
    BY ONLY <2>1, TypeOK, [Next]_vars, EndsKept DEF True, Terminal
<1>2. ASSUME NEW r \in Receivers, NEW event \in TaskEvent, event.task = target[r], True(event)
      PROVE  event.task = target'[r] /\ True(event)'
  <2>1. event.task \in Tasks
    BY DEF TaskEvent
  <2> QED
    BY ONLY <1>0, <1>1, <1>2, <2>1, TargetKept, TypeOK, Fresh, [Next]_vars
<1>3. ASSUME NEW r \in Receivers, Holds(r)' \subseteq Holds(r)
      PROVE  \A event \in Holds(r)' : event.task = target'[r] /\ True(event)'
  <2>1. Holds(r) \subseteq TaskEvent
    BY <1>0 DEF Holds
  <2> QED
    BY ONLY OwnEvents, <1>2, <1>3, <2>1 DEF OwnEvents
<1>4. ASSUME NEW r \in Receivers, channel'[r] = channel[r]
      PROVE  \A event \in Holds(r)' : event.task = target'[r] /\ True(event)'
  <2>1. Holds(r)' = Holds(r)
    BY ONLY <1>4 DEF Holds
  <2> QED
    BY <1>3, <2>1
<1>5. ASSUME NEW c \in Callers, Notify(c) PROVE OwnEvents'
  <2> DEFINE event == Head(owed[c])
  <2>1. /\ event \in TaskEvent /\ True(event)
        /\ \A r \in Receivers : channel'[r] # channel[r] =>
              channel'[r] = Append(channel[r], event) /\ r \in subscriptions[event.task]
    BY ONLY TypeOK, OwedTrue, <1>0, <1>5, SentTrue DEF Notify, notify
  <2>2. event.task \in Tasks
    BY <2>1 DEF TaskEvent
  <2> HIDE DEF event
  <2>3. ASSUME NEW r \in Receivers, channel'[r] # channel[r]
        PROVE  \A e \in Holds(r)' : e.task = target'[r] /\ True(e)'
    <3>1. channel'[r] = Append(channel[r], event) /\ event.task = target[r]
      BY ONLY <2>1, <2>2, <2>3, OwnSubscription DEF OwnSubscription
    <3>2. Holds(r)' \subseteq Holds(r) \cup {event} /\ Holds(r) \subseteq TaskEvent
      BY ONLY <1>0, <2>1, <3>1, Held, r \in Receivers DEF Holds
    <3>3. \A e \in Holds(r) : e.task = target[r] /\ True(e)
      BY ONLY OwnEvents, r \in Receivers DEF OwnEvents
    <3> QED
      BY ONLY <1>2, <2>1, <3>1, <3>2, <3>3, r \in Receivers
  <2> QED
    BY ONLY <1>4, <2>3 DEF OwnEvents
<1>6. ASSUME NEW q \in Receivers, Drains(q) PROVE OwnEvents'
  <2>1. /\ \A r \in Receivers : r # q => channel'[r] = channel[r]
        /\ channel'[q] = <<>> \/ (channel[q] # <<>> /\ channel'[q] = Tail(channel[q]))
    BY ONLY <1>0, <1>6 DEF Drains, disconnect, receive
  <2>2. Holds(q)' \subseteq Holds(q)
    <3>1. CASE channel'[q] = <<>>
      BY ONLY <3>1 DEF Holds
    <3>2. CASE channel[q] # <<>> /\ channel'[q] = Tail(channel[q])
      BY ONLY <1>0, <3>2, Held, q \in Receivers DEF Holds
    <3> QED
      BY ONLY <2>1, <3>1, <3>2
  <2> QED
    BY ONLY <1>3, <1>4, <2>1, <2>2 DEF OwnEvents
<1>7. ASSUME NEW r, \/ \E c, task, state : Changes(c, task, state)
                    \/ \E task : Creates(r, task) \/ Joins(r) \/ Rests
      PROVE  OwnEvents'
  <2>1. channel' = channel
    BY ONLY <1>7 DEF Changes, Creates, Joins, subscribe, Rests, subVars
  <2> QED
    BY ONLY <1>4, <2>1 DEF OwnEvents
<1> QED
  BY ONLY StoreMoves, TypeOK, [Next]_vars, <1>5, <1>6, <1>7 DEF StoreMove

LEMMA MineTold ==
  ASSUME NEW r \in Receivers, Mine(r)
  PROVE  told'[r] = told[r] \/ StreamReceive(r) \/ (r \in Watchers /\ InitialSnapshot(r))
<1>1. CASE SendStep(r)
  BY ONLY <1>1 DEF SendStep, StreamSubscribe, StartWorking, WorkRefused, HandOver, WaitSubscribe,
                   ReRead, WaitReceive, FinalRead
<1>2. ASSUME NEW task, NEW how, NEW key,
             \/ CreateTask(r, task, how, key) \/ RepeatedKey(r, how, key) \/ Deadline(r)
             \/ HangUp(r) \/ WatchSubscribe(r) \/ Lookup(r, task)
      PROVE  told'[r] = told[r]
  BY ONLY <1>2 DEF CreateTask, RepeatedKey, Deadline, HangUp, WatchSubscribe, Lookup
<1>3. r \notin Cancelers
  BY Roles
<1> QED
  BY ONLY Mine(r), <1>1, <1>2, <1>3 DEF Mine, WatchStep

LEMMA MineAnswer ==
  ASSUME NEW s \in Sends, Mine(s)
  PROVE  \/ answer'[s] = answer[s] \/ HandOver(s) \/ ReRead(s) \/ FinalRead(s)
         \/ \E how \in Modes, key \in Keys : RepeatedKey(s, how, key)
<1>1. CASE SendStep(s)
  BY ONLY <1>1 DEF SendStep, StreamSubscribe, StartWorking, WorkRefused, WaitSubscribe, WaitReceive
<1>2. ASSUME NEW task, NEW how, NEW key,
             \/ CreateTask(s, task, how, key) \/ Deadline(s) \/ HangUp(s) \/ StreamReceive(s)
      PROVE  answer'[s] = answer[s]
  BY ONLY <1>2 DEF CreateTask, Deadline, HangUp, StreamReceive
<1>3. s \notin Cancelers /\ s \notin Watchers
  BY Roles
<1> QED
  BY ONLY Mine(s), <1>1, <1>2, <1>3 DEF Mine

LEMMA ToldStep ==
  ASSUME TruthInv, [Next]_vars
  PROVE  ToldTrue'
<1>0. /\ TypeOK /\ Fresh /\ ToldTrue /\ OwnEvents /\ Receivers \subseteq Requests
      /\ told \in [Receivers -> SUBSET (EventKind \cup {"none"})]
      /\ channel \in [Receivers -> Seq(TaskEvent)]
  BY Roles DEF TruthInv, TypeOK, RequestTypeOK, StoreTypeOK
<1>1. ASSUME NEW r \in Receivers, NEW kind \in Terminal, target[r] \in Tasks, status[target[r]] = kind
      PROVE  target'[r] \in Tasks /\ status'[target'[r]] = kind
  BY ONLY <1>0, <1>1, TargetKept, EndsKept, [Next]_vars
<1>2. ASSUME NEW r \in Receivers, NEW kind \in told'[r] \cap Terminal, kind \notin told[r]
      PROVE  target[r] \in Tasks /\ status[target[r]] = kind
  <2>1. told'[r] # told[r]
    BY <1>2
  <2>2. Mine(r)
    BY ONLY <1>0, <2>1, OwnSteps, [Next]_vars, r \in Receivers DEF Still
  <2>3. StreamReceive(r) \/ InitialSnapshot(r)
    BY ONLY <2>1, <2>2, MineTold, r \in Receivers
  <2>4. target[r] \in Tasks
    BY <1>0, <2>3, TargetTask DEF StreamReceive, InitialSnapshot, At
  <2>5. kind \in Snapshot(target[r]) => status[target[r]] = kind
    BY ONLY kind \in told'[r] \cap Terminal DEF Snapshot, Terminal
  <2>6. CASE InitialSnapshot(r)
    <3>1. told'[r] = Snapshot(target[r])
      BY ONLY <1>0, <2>6, r \in Receivers DEF InitialSnapshot
    <3> QED
      BY ONLY <2>4, <2>5, <3>1, kind \in told'[r] \cap Terminal
  <2>7. CASE StreamReceive(r)
    <3> DEFINE event == Head(channel[r])
    <3>1. channel[r] \in Seq(TaskEvent) /\ channel[r] # <<>>
      BY ONLY <1>0, <2>7, r \in Receivers DEF StreamReceive, receive
    <3>2. event \in Holds(r)
      BY ONLY <3>1, Held DEF Holds
    <3>3. event.task = target[r] /\ (event.kind \in Terminal => status[target[r]] = event.kind)
      BY ONLY <1>0, <3>2, r \in Receivers DEF OwnEvents, True
    <3>4. told'[r] \subseteq told[r] \cup {event.kind} \cup Snapshot(target[r])
      BY ONLY <1>0, <2>7, r \in Receivers DEF StreamReceive
    <3> HIDE DEF event
    <3> QED
      BY ONLY <1>2, <2>4, <2>5, <3>3, <3>4
  <2> QED
    BY <2>3, <2>6, <2>7
<1>3. ASSUME NEW r \in Receivers, NEW kind \in told'[r] \cap Terminal
      PROVE  target'[r] \in Tasks /\ status'[target'[r]] = kind
  BY ONLY <1>0, <1>1, <1>2, <1>3 DEF ToldTrue
<1> QED
  BY ONLY <1>3 DEF ToldTrue

LEMMA AnswerStep ==
  ASSUME TruthInv, [Next]_vars
  PROVE  AnswerTrue'
<1>0. /\ TypeOK /\ Fresh /\ AnswerTrue /\ Sends \subseteq Requests
      /\ answer \in [Sends -> TaskState \cup {"none"}] /\ target \in [Requests -> Tasks \cup {NoTask}]
      /\ idempotency_keys \in [Keys -> Tasks \cup {NoTask}]
  BY Roles DEF TruthInv, TypeOK, RequestTypeOK, StoreTypeOK
<1>1. ASSUME NEW s \in Sends, NEW kind \in Terminal, target[s] \in Tasks, status[target[s]] = kind
      PROVE  target'[s] \in Tasks /\ status'[target'[s]] = kind
  BY ONLY <1>0, <1>1, TargetKept, EndsKept, [Next]_vars
<1>2. ASSUME NEW s \in Sends, answer'[s] \in Terminal
      PROVE  target'[s] \in Tasks /\ status'[target'[s]] = answer'[s]
  <2>1. CASE answer'[s] = answer[s]
    BY ONLY <1>0, <1>1, <1>2, <2>1 DEF AnswerTrue
  <2>2. CASE ReRead(s) \/ FinalRead(s)
    <3>1. target[s] \in Tasks
      BY <1>0, <2>2, TargetTask DEF ReRead, FinalRead, At
    <3>2. answer'[s] = answer[s] \/ answer'[s] = status[target[s]]
      BY ONLY <1>0, <2>2, s \in Sends DEF ReRead, FinalRead, FinalState
    <3> QED
      BY ONLY <1>1, <1>2, <2>1, <3>1, <3>2
  <2>3. CASE \E how \in Modes, key \in Keys : RepeatedKey(s, how, key)
    <3>1. PICK how \in Modes, key \in Keys : RepeatedKey(s, how, key)
      BY <2>3
    <3>2. /\ target'[s] = idempotency_keys[key] /\ target'[s] \in Tasks
          /\ answer'[s] = status[idempotency_keys[key]] /\ status' = status
      BY ONLY <1>0, <3>1, s \in Sends DEF RepeatedKey, storeVars, taskVars
    <3> QED
      BY ONLY <3>2
  <2>4. CASE HandOver(s)
    BY ONLY <1>0, <1>2, <2>1, <2>4 DEF HandOver, Terminal
  <2>5. answer'[s] # answer[s] => Mine(s)
    BY ONLY <1>0, OwnSteps, [Next]_vars, s \in Sends DEF Still
  <2> QED
    BY ONLY <2>1, <2>2, <2>3, <2>4, <2>5, MineAnswer, s \in Sends
<1> QED
  BY ONLY <1>2 DEF AnswerTrue

LEMMA TruthStep ==
  ASSUME TruthInv, [Next]_vars
  PROVE  TruthInv'
  BY TypeStep, TargetKept, OwedStep, SubscriptionStep, EventsStep, ToldStep, AnswerStep DEF TruthInv

LEMMA TruthInit ==
  ASSUME Init
  PROVE  TruthInv
<1>1. /\ Fresh /\ OwedTrue /\ OwnSubscription
  BY DEF Init, StoreInit, Fresh, OwedTrue, OwnSubscription
<1>2. OwnEvents
  BY DEF Init, StoreInit, OwnEvents, Holds
<1>3. ToldTrue /\ AnswerTrue
  BY Roles DEF Init, ToldTrue, AnswerTrue, Terminal
<1> QED
  BY <1>1, <1>2, <1>3, TypeInit DEF TruthInv

\* However a cancel, a rejection and a completion race, and in whatever order they are
\* notified, streams end and sends are answered with the one end the task keeps.
THEOREM EndsNeverDiffer == Spec => []EndsAgree
<1>1. TruthInv => EndsAgree
  BY DEF TruthInv, ToldTrue, AnswerTrue, EndsAgree
<1> QED
  BY <1>1, TruthInit, TruthStep, PTL DEF Spec


-----------------------------------------------------------------------------
(* A blocking send waits until the end.                                    *)

(* A wait that ends before its deadline ends with the task, and a blocking *)
(* send is answered after its wait.                                        *)
WaitDone(s) ==
    At(s, "reading") /\ s \notin overdue => target[s] \in Tasks /\ status[target[s]] \in Terminal
AnswerDone(s) ==
    At(s, "answered") /\ mode[s] = "blocking" => answer[s] \in Terminal \/ s \in overdue \/ s \in repeated
BlockInv == TruthInv /\ \A s \in Sends : WaitDone(s) /\ AnswerDone(s)

LEMMA MineWaits ==
  ASSUME BlockInv, NEW s \in Sends, Mine(s)
  PROVE  /\ pc'[s] = "reading" /\ s \notin overdue' => target[s] \in Tasks /\ status[target[s]] \in Terminal
         /\ pc'[s] = "answered" /\ mode'[s] = "blocking"
               => answer'[s] \in Terminal \/ s \in overdue' \/ s \in repeated'
<1> DEFINE Goal == /\ pc'[s] = "reading" /\ s \notin overdue' => target[s] \in Tasks /\ status[target[s]] \in Terminal
                   /\ pc'[s] = "answered" /\ mode'[s] = "blocking"
                         => answer'[s] \in Terminal \/ s \in overdue' \/ s \in repeated'
<1>0. /\ pc \in [Requests -> Places] /\ mode \in [Sends -> Modes]
      /\ answer \in [Sends -> TaskState \cup {"none"}] /\ s \in Requests /\ s \in Receivers
      /\ channel \in [Receivers -> Seq(TaskEvent)] /\ OwnEvents /\ TypeOK
  BY Roles DEF BlockInv, TruthInv, TypeOK, RequestTypeOK, StoreTypeOK
<1>1. CASE StreamSubscribe(s) \/ StartWorking(s) \/ WorkRefused(s) \/ WaitSubscribe(s)
  BY ONLY <1>0, <1>1 DEF StreamSubscribe, StartWorking, WorkRefused, WaitSubscribe, Goto
<1>2. CASE HandOver(s)
  BY ONLY <1>0, <1>2 DEF HandOver, AfterHandOver, Goto, Modes
<1>3. CASE ReRead(s)
  BY ONLY <1>0, <1>3 DEF ReRead, EndedMeanwhile, is_terminal, Goto
<1>4. CASE WaitReceive(s)
  <2> DEFINE event == Head(channel[s])
  <2>1. channel[s] \in Seq(TaskEvent) /\ channel[s] # <<>> /\ At(s, "waiting")
    BY ONLY <1>0, <1>4 DEF WaitReceive, receive
  <2>2. event \in Holds(s)
    BY ONLY <2>1, Held DEF Holds
  <2>3. event.kind \in Terminal => status[target[s]] \in Terminal
    <3>1. event.task = target[s] /\ True(event)
      BY ONLY <1>0, <2>2 DEF OwnEvents
    <3> HIDE DEF event
    <3> QED
      BY ONLY <3>1 DEF True
  <2>4. target[s] \in Tasks
    BY ONLY <1>0, <2>1, TargetTask DEF At
  <2>5. (event.kind \in Terminal /\ pc'[s] = "reading") \/ pc'[s] = "waiting"
    BY ONLY <1>0, <1>4, <2>1 DEF WaitReceive, EndsWait, Goto, At
  <2> QED
    BY ONLY <2>3, <2>4, <2>5
<1>5. CASE FinalRead(s)
  <2>1. s \notin overdue => status[target[s]] \in Terminal
    BY ONLY BlockInv, <1>5 DEF BlockInv, WaitDone, FinalRead
  <2> QED
    BY ONLY <1>0, <1>5, <2>1 DEF FinalRead, FinalState, Goto
<1>6. CASE Deadline(s)
  BY ONLY <1>0, <1>6 DEF Deadline, Goto
<1>7. CASE StreamReceive(s) \/ HangUp(s)
  BY ONLY <1>0, <1>7 DEF StreamReceive, HangUp, Goto, At
<1>8. ASSUME NEW task, NEW how, NEW key, CreateTask(s, task, how, key) \/ RepeatedKey(s, how, key)
      PROVE  Goal
  BY ONLY <1>0, <1>8 DEF CreateTask, RepeatedKey, Goto
<1>9. s \notin Cancelers /\ s \notin Watchers
  BY Roles
<1> QED
  BY ONLY Mine(s), <1>1, <1>2, <1>3, <1>4, <1>5, <1>6, <1>7, <1>8, <1>9 DEF Mine, SendStep

LEMMA BlockStep ==
  ASSUME BlockInv, [Next]_vars
  PROVE  BlockInv'
<1>0. TruthInv /\ TypeOK /\ Fresh
  BY DEF BlockInv, TruthInv
<1>1. ASSUME NEW s \in Sends PROVE (WaitDone(s) /\ AnswerDone(s))'
  <2>0. s \in Requests
    BY Roles
  <2>1. ASSUME target[s] \in Tasks, status[target[s]] \in Terminal
        PROVE  target'[s] \in Tasks /\ status'[target'[s]] \in Terminal
    BY ONLY <1>0, <2>0, <2>1, TargetKept, EndsKept, [Next]_vars
  <2>2. CASE Mine(s)
    BY ONLY BlockInv, <2>1, <2>2, MineWaits, s \in Sends DEF WaitDone, AnswerDone, At
  <2>3. CASE Still(s)
    BY ONLY BlockInv, <2>1, <2>3, s \in Sends DEF Still, BlockInv, WaitDone, AnswerDone, At
  <2> QED
    BY ONLY <1>0, <2>0, <2>2, <2>3, OwnSteps, [Next]_vars
<1> QED
  BY ONLY <1>0, <1>1, TruthStep, [Next]_vars DEF BlockInv

\* A blocking send is answered with a task that has ended, whatever races with its
\* subscription, unless its deadline passed or its key was a repeated one.
THEOREM BlockedUntilTheEnd == Spec => []BlockingAnswersEnd
<1>1. Init => BlockInv
  BY TruthInit, Roles DEF Init, BlockInv, WaitDone, AnswerDone, At
<1>2. BlockInv => BlockingAnswersEnd
  BY DEF BlockInv, AnswerDone, BlockingAnswersEnd
<1> QED
  BY <1>1, <1>2, BlockStep, PTL DEF Spec


-----------------------------------------------------------------------------
(* A channel has room for every event that is still to come.               *)

OwesStart(c, task) == owed[c] = <<Event(task, "Working")>>
OwesBoth(c, task) == owed[c] = completion_events(task)
OwesEnd(c, task) == \E kind \in Terminal : owed[c] = <<Event(task, kind)>>

(* No two callers owe the start, or the end, of one task.                  *)
Known == \A task \in Tasks : status[task] # "InputRequired"
OneStart ==
    \A task \in Tasks, c \in Callers, d \in Callers : OwesStart(c, task) /\ OwesStart(d, task) => c = d
OneEnd ==
    \A task \in Tasks, c \in Callers, d \in Callers :
       OwesBoth(c, task) \/ OwesEnd(c, task) => (OwesBoth(d, task) \/ OwesEnd(d, task) => c = d)

(* The events a subscriber of a task may still be sent: one of the start,  *)
(* and at the end the result and the last state.                           *)
StartAhead(task) ==
    IF status[task] \in {"none", "Submitted"} \/ \E c \in Callers : OwesStart(c, task) THEN 1 ELSE 0
EndAhead(task) ==
    IF status[task] \notin Terminal \/ \E c \in Callers : OwesBoth(c, task) THEN 2
    ELSE IF \E c \in Callers : OwesEnd(c, task) THEN 1 ELSE 0
Fit(r) ==
    IF target[r] \in Tasks
    THEN Len(channel[r]) + StartAhead(target[r]) + EndAhead(target[r]) <= 3
    ELSE channel[r] = <<>>

FitInv == TruthInv /\ Known /\ OneStart /\ OneEnd /\ \A r \in Receivers : Fit(r)

LEMMA EventsDiffer ==
  /\ \A t, u, k, l : <<Event(t, k)>> = <<Event(u, l)>> => t = u /\ k = l
  /\ \A t, u : completion_events(t) = completion_events(u) => t = u
  /\ \A t, u, k : /\ <<Event(t, k)>> # completion_events(u) /\ <<Event(t, k)>> # <<>>
                  /\ completion_events(u) # <<>>
<1>1. \A t, u, k, l : Event(t, k) = Event(u, l) => t = u /\ k = l
  BY DEF Event
<1>2. \A t, u, k, l : <<Event(t, k)>> = <<Event(u, l)>> => Event(t, k) = Event(u, l)
  OBVIOUS
<1>3. \A t, u : completion_events(t) = completion_events(u) => Event(t, "artifact") = Event(u, "artifact")
  BY DEF completion_events
<1>4. \A t, u, k : /\ <<Event(t, k)>> # completion_events(u) /\ <<Event(t, k)>> # <<>>
                   /\ completion_events(u) # <<>>
  BY DEF completion_events
<1> QED
  BY ONLY <1>1, <1>2, <1>3, <1>4

\* What a change and a notification do to what is owed.
LEMMA OwedChange ==
  ASSUME TypeOK, NEW c \in Callers, NEW task \in Tasks, NEW d \in Callers, NEW t \in Tasks,
         NEW state \in {"Working"} \cup Terminal, Changes(d, t, state)
  PROVE  IF c # d THEN owed'[c] = owed[c]
         ELSE /\ OwesStart(c, task)' => task = t /\ state = "Working"
              /\ OwesBoth(c, task)' \/ OwesEnd(c, task)' => task = t /\ state \in Terminal
<1>0. owed \in [Callers -> Seq(TaskEvent)]
  BY DEF TypeOK, StoreTypeOK
<1>1. /\ c # d => owed'[c] = owed[c]
      /\ c = d => owed'[c] = IF state = "Completed" THEN completion_events(t) ELSE <<Event(t, state)>>
  BY ONLY <1>0, Changes(d, t, state), c \in Callers, d \in Callers DEF Changes
<1>2. "Completed" \in Terminal /\ "Working" \notin Terminal
  BY DEF Terminal
<1> QED
  BY ONLY <1>1, <1>2, EventsDiffer, state \in {"Working"} \cup Terminal DEF OwesStart, OwesBoth, OwesEnd

LEMMA OwedNotify ==
  ASSUME TypeOK, OwedTrue, NEW c \in Callers, NEW task \in Tasks, NEW d \in Callers, Notify(d)
  PROVE  IF c # d THEN owed'[c] = owed[c]
         ELSE /\ ~OwesStart(c, task)' /\ ~OwesBoth(c, task)'
              /\ OwesEnd(c, task)' => OwesBoth(c, task)
<1>0. /\ owed \in [Callers -> Seq(TaskEvent)] /\ owed[d] # <<>>
      /\ c # d => owed'[c] = owed[c]
      /\ owed'[d] = Tail(owed[d])
  BY DEF TypeOK, StoreTypeOK, Notify, notify
<1>1. ASSUME NEW t \in Tasks, OwesResult(d, t)
      PROVE  owed[d] = completion_events(t) /\ owed'[d] = <<Event(t, "Completed")>>
  BY ONLY <1>0, <1>1, Tails DEF OwesResult
<1>2. ASSUME NEW t \in Tasks, NEW kind \in {"Working"} \cup Terminal, OwesStatus(d, t, kind)
      PROVE  owed'[d] = <<>>
  BY ONLY <1>0, <1>2, Tails DEF OwesStatus
<1>3. owed'[d] = <<>> \/ \E t \in Tasks : owed[d] = completion_events(t) /\ owed'[d] = <<Event(t, "Completed")>>
  BY ONLY <1>0, <1>1, <1>2, OwedTrue, d \in Callers DEF OwedTrue
<1>4. CASE owed'[d] = <<>>
  BY ONLY <1>0, <1>4, EventsDiffer DEF OwesStart, OwesBoth, OwesEnd
<1>5. ASSUME NEW t \in Tasks, owed[d] = completion_events(t), owed'[d] = <<Event(t, "Completed")>>, c = d
      PROVE  ~OwesStart(c, task)' /\ ~OwesBoth(c, task)' /\ (OwesEnd(c, task)' => OwesBoth(c, task))
  <2>0. owed'[c] = <<Event(t, "Completed")>>
    BY <1>5
  <2>1. ~OwesStart(c, task)' /\ ~OwesBoth(c, task)'
    <3>1. "Completed" # "Working"
      OBVIOUS
    <3>2. owed'[c] # <<Event(task, "Working")>>
      BY ONLY <2>0, <3>1, EventsDiffer
    <3>3. owed'[c] # completion_events(task)
      BY ONLY <2>0, EventsDiffer
    <3> QED
      BY ONLY <3>2, <3>3 DEF OwesStart, OwesBoth
  <2>2. OwesEnd(c, task)' => t = task
    BY ONLY <2>0, EventsDiffer DEF OwesEnd
  <2> QED
    BY ONLY <1>5, <2>1, <2>2 DEF OwesBoth
<1> QED
  BY ONLY <1>0, <1>3, <1>4, <1>5

\* Who owes a start owes it of a task that has begun, who owes an end of one that has ended.
LEMMA OwedReached ==
  ASSUME OwedTrue, NEW c \in Callers, NEW task \in Tasks
  PROVE  /\ OwesStart(c, task) => status[task] \notin {"none", "Submitted"}
         /\ OwesBoth(c, task) \/ OwesEnd(c, task) => status[task] \in Terminal
<1>1. "Completed" \in Terminal /\ "Working" \notin Terminal
  BY DEF Terminal
<1>2. \/ owed[c] = <<>>
      \/ \E t \in Tasks, kind \in {"Working"} \cup Terminal : OwesStatus(c, t, kind)
      \/ \E t \in Tasks : OwesResult(c, t)
  BY ONLY OwedTrue, c \in Callers DEF OwedTrue
<1>3. CASE owed[c] = <<>>
  BY ONLY <1>3, EventsDiffer DEF OwesStart, OwesBoth, OwesEnd
<1>4. ASSUME NEW t \in Tasks, NEW kind \in {"Working"} \cup Terminal, OwesStatus(c, t, kind)
      PROVE  /\ OwesStart(c, task) => status[task] \notin {"none", "Submitted"}
             /\ OwesBoth(c, task) \/ OwesEnd(c, task) => status[task] \in Terminal
  <2>1. owed[c] = <<Event(t, kind)>> /\ Reached(t, kind)
    BY ONLY <1>4 DEF OwesStatus
  <2>2. OwesStart(c, task) => t = task /\ kind = "Working"
    BY ONLY <2>1, EventsDiffer DEF OwesStart
  <2>3. ~OwesBoth(c, task) /\ (OwesEnd(c, task) => t = task /\ kind \in Terminal)
    BY ONLY <2>1, EventsDiffer DEF OwesBoth, OwesEnd
  <2> QED
    BY ONLY <1>1, <2>1, <2>2, <2>3 DEF Reached
<1>5. ASSUME NEW t \in Tasks, OwesResult(c, t)
      PROVE  /\ ~OwesStart(c, task)
             /\ OwesBoth(c, task) \/ OwesEnd(c, task) => status[task] \in Terminal
  <2>1. owed[c] = completion_events(t) /\ status[t] = "Completed"
    BY ONLY <1>5 DEF OwesResult
  <2>2. ~OwesStart(c, task) /\ ~OwesEnd(c, task) /\ (OwesBoth(c, task) => t = task)
    BY ONLY <2>1, EventsDiffer DEF OwesStart, OwesBoth, OwesEnd
  <2> QED
    BY ONLY <1>1, <2>1, <2>2
<1> QED
  BY ONLY <1>2, <1>3, <1>4, <1>5

\* A transition to Working is the first, and one to a terminal state the last.
LEMMA OnceEach ==
  ASSUME Known, NEW t \in Tasks, NEW state \in {"Working"} \cup Terminal,
         is_valid_transition(status[t], state)
  PROVE  /\ state = "Working" => status[t] = "Submitted"
         /\ state \in Terminal => status[t] \notin Terminal
  BY DEF Known, is_valid_transition, Terminal

LEMMA OneStep ==
  ASSUME TypeOK, OwedTrue, Known, OneStart, OneEnd, [Next]_vars
  PROVE  Known' /\ OneStart' /\ OneEnd'
<1>0. status \in [Tasks -> TaskState \cup {"none"}]
  BY DEF TypeOK, StoreTypeOK
<1>1. ASSUME NEW d \in Callers, NEW t \in Tasks, NEW state \in {"Working"} \cup Terminal,
             Changes(d, t, state)
      PROVE  Known' /\ OneStart' /\ OneEnd'
  <2>1. status' = [status EXCEPT ![t] = state] /\ is_valid_transition(status[t], state)
    BY ONLY <1>1 DEF Changes
  <2>2. Known'
    BY ONLY <1>0, <1>1, <2>1, Known DEF Known, Terminal
  <2>3. /\ state = "Working" => \A c \in Callers : ~OwesStart(c, t)
        /\ state \in Terminal => \A c \in Callers : ~OwesBoth(c, t) /\ ~OwesEnd(c, t)
    BY ONLY <1>1, <2>1, Known, OwedTrue, OnceEach, OwedReached
  <2>4. ASSUME NEW c \in Callers, NEW task \in Tasks
        PROVE  /\ OwesStart(c, task)' => OwesStart(c, task) \/ (c = d /\ task = t /\ state = "Working")
               /\ OwesBoth(c, task)' \/ OwesEnd(c, task)' =>
                     OwesBoth(c, task) \/ OwesEnd(c, task) \/ (c = d /\ task = t /\ state \in Terminal)
    <3>1. CASE c = d
      BY ONLY <1>1, <3>1, TypeOK, OwedChange, c \in Callers, task \in Tasks
    <3>2. CASE owed'[c] = owed[c]
      BY ONLY <3>2 DEF OwesStart, OwesBoth, OwesEnd
    <3> QED
      BY ONLY <1>1, <3>1, <3>2, TypeOK, OwedChange, c \in Callers, task \in Tasks
  <2>5. OneStart'
    BY ONLY <2>3, <2>4, OneStart DEF OneStart
  <2>6. OneEnd'
    BY ONLY <2>3, <2>4, OneEnd DEF OneEnd
  <2> QED
    BY <2>2, <2>5, <2>6
<1>2. ASSUME NEW d \in Callers, Notify(d) PROVE Known' /\ OneStart' /\ OneEnd'
  <2>1. Known'
    BY ONLY <1>2, Known DEF Known, Notify, notify, taskVars
  <2>2. ASSUME NEW c \in Callers, NEW task \in Tasks
        PROVE  /\ OwesStart(c, task)' => OwesStart(c, task)
               /\ OwesBoth(c, task)' \/ OwesEnd(c, task)' => OwesBoth(c, task) \/ OwesEnd(c, task)
    <3>1. CASE c = d
      BY ONLY <1>2, <3>1, TypeOK, OwedTrue, OwedNotify, c \in Callers, task \in Tasks
    <3>2. CASE owed'[c] = owed[c]
      BY ONLY <3>2 DEF OwesStart, OwesBoth, OwesEnd
    <3> QED
      BY ONLY <1>2, <3>1, <3>2, TypeOK, OwedTrue, OwedNotify, c \in Callers, task \in Tasks
  <2>3. OneStart'
    BY ONLY <2>2, OneStart DEF OneStart
  <2>4. OneEnd'
    BY ONLY <2>2, OneEnd DEF OneEnd
  <2> QED
    BY <2>1, <2>3, <2>4
<1>3. ASSUME NEW s \in Sends, NEW t \in Tasks, Creates(s, t) PROVE Known' /\ OneStart' /\ OneEnd'
  <2>1. owed' = owed /\ status' = [status EXCEPT ![t] = "Submitted"]
    BY ONLY <1>3 DEF Creates
  <2> QED
    BY ONLY <1>0, <2>1, Known, OneStart, OneEnd DEF Known, OneStart, OneEnd, OwesStart, OwesBoth, OwesEnd
<1>4. ASSUME NEW r, Joins(r) \/ Drains(r) \/ Rests PROVE Known' /\ OneStart' /\ OneEnd'
  <2>1. owed' = owed /\ status' = status
    BY ONLY <1>4 DEF Joins, subscribe, Drains, disconnect, receive, Rests, taskVars
  <2> QED
    BY ONLY <2>1, Known, OneStart, OneEnd DEF Known, OneStart, OneEnd, OwesStart, OwesBoth, OwesEnd
<1> QED
  BY ONLY StoreMoves, TypeOK, [Next]_vars, <1>1, <1>2, <1>3, <1>4 DEF StoreMove

\* Nobody comes to owe a start or an end but by changing the status.
LEMMA OwedFrom ==
  ASSUME TypeOK, OwedTrue, Known, [Next]_vars, NEW c \in Callers, NEW task \in Tasks
  PROVE  /\ OwesStart(c, task)' => OwesStart(c, task) \/ status[task] = "Submitted"
         /\ OwesBoth(c, task)' => OwesBoth(c, task) \/ status[task] \notin Terminal
         /\ OwesEnd(c, task)' => OwesEnd(c, task) \/ OwesBoth(c, task) \/ status[task] \notin Terminal
<1> DEFINE Goal == /\ OwesStart(c, task)' => OwesStart(c, task) \/ status[task] = "Submitted"
                   /\ OwesBoth(c, task)' => OwesBoth(c, task) \/ status[task] \notin Terminal
                   /\ OwesEnd(c, task)' =>
                         OwesEnd(c, task) \/ OwesBoth(c, task) \/ status[task] \notin Terminal
<1>1. ASSUME owed'[c] = owed[c] PROVE Goal
  BY ONLY <1>1 DEF OwesStart, OwesBoth, OwesEnd
<1>2. ASSUME NEW d \in Callers, NEW t \in Tasks, NEW state \in {"Working"} \cup Terminal,
             Changes(d, t, state)
      PROVE  Goal
  <2>1. is_valid_transition(status[t], state)
    BY ONLY <1>2 DEF Changes
  <2>2. CASE c = d
    BY ONLY <1>2, <2>1, <2>2, TypeOK, Known, OwedChange, OnceEach, c \in Callers, task \in Tasks
  <2> QED
    BY ONLY <1>1, <1>2, <2>2, TypeOK, OwedChange, c \in Callers, task \in Tasks
<1>3. ASSUME NEW d \in Callers, Notify(d) PROVE Goal
  <2>1. CASE c = d
    BY ONLY <1>3, <2>1, TypeOK, OwedTrue, OwedNotify, c \in Callers, task \in Tasks
  <2> QED
    BY ONLY <1>1, <1>3, <2>1, TypeOK, OwedTrue, OwedNotify, c \in Callers, task \in Tasks
<1>4. ASSUME NEW r, (\E t : Creates(r, t)) \/ Joins(r) \/ Drains(r) \/ Rests PROVE Goal
  <2>1. owed' = owed
    BY ONLY <1>4 DEF Creates, Joins, subscribe, Drains, disconnect, receive, Rests
  <2> QED
    BY ONLY <1>1, <2>1
<1> QED
  BY ONLY StoreMoves, TypeOK, [Next]_vars, <1>2, <1>3, <1>4 DEF StoreMove

LEMMA Aheads ==
  ASSUME NEW task
  PROVE  /\ StartAhead(task) \in 0 .. 1 /\ EndAhead(task) \in 0 .. 2
         /\ StartAhead(task)' \in 0 .. 1 /\ EndAhead(task)' \in 0 .. 2
  BY DEF StartAhead, EndAhead

\* Nothing makes more events of a task come.
LEMMA AheadStep ==
  ASSUME TypeOK, OwedTrue, Known, [Next]_vars, NEW task \in Tasks
  PROVE  StartAhead(task)' <= StartAhead(task) /\ EndAhead(task)' <= EndAhead(task)
<1>1. /\ status[task] \in Terminal => status'[task] \in Terminal
      /\ status'[task] \in {"none", "Submitted"} => status[task] \in {"none", "Submitted"}
  BY ONLY TypeOK, [Next]_vars, EndsKept, task \in Tasks
<1>2. \A c \in Callers :
         /\ OwesStart(c, task)' => OwesStart(c, task) \/ status[task] = "Submitted"
         /\ OwesBoth(c, task)' => OwesBoth(c, task) \/ status[task] \notin Terminal
         /\ OwesEnd(c, task)' => OwesEnd(c, task) \/ OwesBoth(c, task) \/ status[task] \notin Terminal
  BY ONLY TypeOK, OwedTrue, Known, [Next]_vars, OwedFrom, task \in Tasks
<1>3. StartAhead(task)' <= StartAhead(task)
  BY ONLY <1>1, <1>2 DEF StartAhead
<1>4. EndAhead(task)' <= EndAhead(task)
  BY ONLY <1>1, <1>2 DEF EndAhead
<1> QED
  BY <1>3, <1>4

\* Whoever owes something owes the start, the result and the end, or the end of one task.
LEMMA OwesOne ==
  ASSUME OwedTrue, NEW c \in Callers, owed[c] # <<>>
  PROVE  \E task \in Tasks : /\ Head(owed[c]).task = task
                             /\ OwesStart(c, task) \/ OwesBoth(c, task) \/ OwesEnd(c, task)
<1>1. ASSUME NEW task \in Tasks, NEW kind \in {"Working"} \cup Terminal, OwesStatus(c, task, kind)
      PROVE  Head(owed[c]).task = task /\ (OwesStart(c, task) \/ OwesEnd(c, task))
  <2>1. owed[c] = <<Event(task, kind)>> /\ Head(owed[c]) = Event(task, kind)
    BY ONLY <1>1, Tails DEF OwesStatus
  <2> QED
    BY ONLY <1>1, <2>1 DEF OwesStart, OwesEnd, Event
<1>2. ASSUME NEW task \in Tasks, OwesResult(c, task)
      PROVE  Head(owed[c]).task = task /\ OwesBoth(c, task)
  <2>1. owed[c] = completion_events(task) /\ Head(owed[c]) = Event(task, "artifact")
    BY ONLY <1>2, Tails DEF OwesResult
  <2> QED
    BY ONLY <1>2, <2>1 DEF OwesBoth, Event
<1> QED
  BY ONLY <1>1, <1>2, OwedTrue, c \in Callers, owed[c] # <<>> DEF OwedTrue

\* A notification is one event fewer to come.
LEMMA NotifySpends ==
  ASSUME TypeOK, OwedTrue, Known, OneStart, OneEnd, NEW d \in Callers, Notify(d), [Next]_vars
  PROVE  \E task \in Tasks :
            /\ Head(owed[d]).task = task
            /\ StartAhead(task)' + EndAhead(task)' + 1 <= StartAhead(task) + EndAhead(task)
<1>1. owed[d] # <<>> /\ status' = status
  BY DEF Notify, notify, taskVars
<1>2. PICK task \in Tasks : /\ Head(owed[d]).task = task
                            /\ OwesStart(d, task) \/ OwesBoth(d, task) \/ OwesEnd(d, task)
  BY ONLY <1>1, OwedTrue, OwesOne, d \in Callers
<1>3. /\ ~OwesStart(d, task)' /\ ~OwesBoth(d, task)'
      /\ OwesEnd(d, task)' => OwesBoth(d, task)
  BY ONLY TypeOK, OwedTrue, OwedNotify, d \in Callers, task \in Tasks, Notify(d)
<1>4. ASSUME NEW c \in Callers, c # d
      PROVE  /\ OwesStart(c, task)' => OwesStart(c, task)
             /\ OwesBoth(c, task)' => OwesBoth(c, task)
             /\ OwesEnd(c, task)' => OwesEnd(c, task)
  <2>1. owed'[c] = owed[c]
    BY ONLY <1>4, TypeOK, OwedTrue, OwedNotify, d \in Callers, task \in Tasks, Notify(d)
  <2> QED
    BY ONLY <2>1 DEF OwesStart, OwesBoth, OwesEnd
<1>5. /\ StartAhead(task)' <= StartAhead(task) /\ EndAhead(task)' <= EndAhead(task)
      /\ StartAhead(task) \in 0 .. 1 /\ EndAhead(task) \in 0 .. 2
      /\ StartAhead(task)' \in 0 .. 1 /\ EndAhead(task)' \in 0 .. 2
  BY ONLY TypeOK, OwedTrue, Known, [Next]_vars, AheadStep, Aheads, task \in Tasks
<1>6. /\ OwesStart(d, task) => status[task] \notin {"none", "Submitted"}
      /\ OwesBoth(d, task) \/ OwesEnd(d, task) => status[task] \in Terminal
      /\ OwesEnd(d, task) => ~OwesBoth(d, task)
  <2>1. OwesEnd(d, task) => ~OwesBoth(d, task)
    BY ONLY EventsDiffer DEF OwesEnd, OwesBoth
  <2> QED
    BY ONLY OwedTrue, OwedReached, d \in Callers, task \in Tasks, <2>1
<1>7. CASE OwesStart(d, task)
  <2>1. \A c \in Callers : ~OwesStart(c, task)'
    BY ONLY <1>3, <1>4, <1>7, OneStart, d \in Callers, task \in Tasks DEF OneStart
  <2>2. StartAhead(task) = 1 /\ StartAhead(task)' = 0
    BY ONLY <1>1, <1>6, <1>7, <2>1, d \in Callers DEF StartAhead
  <2> QED
    BY ONLY <1>2, <1>5, <2>2
<1>8. CASE OwesBoth(d, task)
  <2>1. \A c \in Callers : ~OwesBoth(c, task)'
    BY ONLY <1>3, <1>4, <1>8, OneEnd, d \in Callers, task \in Tasks DEF OneEnd
  <2>2. EndAhead(task) = 2 /\ EndAhead(task)' <= 1
    BY ONLY <1>1, <1>6, <1>8, <2>1, d \in Callers DEF EndAhead
  <2> QED
    BY ONLY <1>2, <1>5, <2>2
<1>9. CASE OwesEnd(d, task)
  <2>1. \A c \in Callers : ~OwesBoth(c, task)' /\ ~OwesEnd(c, task)'
    BY ONLY <1>3, <1>4, <1>6, <1>9, OneEnd, d \in Callers, task \in Tasks DEF OneEnd
  <2>2. EndAhead(task) >= 1 /\ EndAhead(task)' = 0
    BY ONLY <1>1, <1>6, <1>9, <2>1, d \in Callers DEF EndAhead
  <2> QED
    BY ONLY <1>2, <1>5, <2>2
<1> QED
  BY <1>2, <1>7, <1>8, <1>9

LEMMA FitStep ==
  ASSUME FitInv, [Next]_vars, NEW r \in Receivers
  PROVE  Fit(r)'
<1>0. /\ TypeOK /\ Fresh /\ OwedTrue /\ OwnSubscription /\ Known /\ OneStart /\ OneEnd /\ Fit(r)
      /\ r \in Requests /\ target[r] \in Tasks \cup {NoTask} /\ target'[r] \in Tasks \cup {NoTask}
      /\ subscriptions \in [Tasks -> SUBSET Receivers] /\ channel[r] \in Seq(TaskEvent)
      /\ channel \in [Receivers -> Seq(TaskEvent)]
  <2>1. TypeOK /\ TypeOK'
    BY TypeStep DEF FitInv, TruthInv
  <2> QED
    BY <2>1, Roles DEF FitInv, TruthInv, TypeOK, RequestTypeOK, StoreTypeOK
<1>1. \/ channel'[r] = channel[r] \/ channel'[r] = <<>>
      \/ channel[r] # <<>> /\ channel'[r] = Tail(channel[r])
      \/ \E d \in Callers : /\ Notify(d) /\ Head(owed[d]).task = target[r] /\ target[r] \in Tasks
                            /\ channel'[r] = Append(channel[r], Head(owed[d]))
  <2>1. ASSUME NEW d \in Callers, Notify(d), channel'[r] # channel[r]
        PROVE  /\ Head(owed[d]).task = target[r] /\ target[r] \in Tasks
               /\ channel'[r] = Append(channel[r], Head(owed[d]))
    <3>1. Head(owed[d]).task \in Tasks
      BY ONLY <1>0, <2>1, NotifySpends, [Next]_vars
    <3>2. channel'[r] = Append(channel[r], Head(owed[d])) /\ r \in subscriptions[Head(owed[d]).task]
      BY ONLY <2>1, r \in Receivers DEF Notify, notify
    <3> QED
      BY ONLY <1>0, <3>1, <3>2, r \in Receivers DEF OwnSubscription
  <2>2. ASSUME NEW q \in Receivers, Drains(q)
        PROVE  \/ channel'[r] = channel[r] \/ channel'[r] = <<>>
               \/ channel[r] # <<>> /\ channel'[r] = Tail(channel[r])
    BY ONLY <1>0, <2>2, r \in Receivers DEF Drains, disconnect, receive
  <2>3. ASSUME NEW q, \/ \E c, task, state : Changes(c, task, state)
                      \/ \E task : Creates(q, task) \/ Joins(q) \/ Rests
        PROVE  channel' = channel
    BY ONLY <2>3 DEF Changes, Creates, Joins, subscribe, Rests, subVars
  <2> QED
    BY ONLY <1>0, StoreMoves, [Next]_vars, <2>1, <2>2, <2>3 DEF StoreMove
<1>2. ASSUME NEW task \in Tasks, target[r] = task PROVE Fit(r)'
  <2>1. target'[r] = task
    BY ONLY <1>0, <1>2, TargetKept, [Next]_vars
  <2>2. /\ StartAhead(task)' <= StartAhead(task) /\ EndAhead(task)' <= EndAhead(task)
        /\ StartAhead(task) \in 0 .. 1 /\ EndAhead(task) \in 0 .. 2
        /\ StartAhead(task)' \in 0 .. 1 /\ EndAhead(task)' \in 0 .. 2
    BY ONLY <1>0, <1>2, [Next]_vars, AheadStep, Aheads
  <2>3. Len(channel[r]) + StartAhead(task) + EndAhead(task) <= 3
    BY ONLY <1>0, <1>2 DEF Fit
  <2>4. Len(channel'[r]) + StartAhead(task)' + EndAhead(task)' <= 3
    <3>1. ASSUME NEW d \in Callers, Notify(d), Head(owed[d]).task = target[r],
                 channel'[r] = Append(channel[r], Head(owed[d]))
          PROVE  Len(channel'[r]) + StartAhead(task)' + EndAhead(task)' <= 3
      <4>1. StartAhead(task)' + EndAhead(task)' + 1 <= StartAhead(task) + EndAhead(task)
        BY ONLY <1>0, <1>2, <3>1, NotifySpends, [Next]_vars
      <4>2. Len(channel'[r]) = Len(channel[r]) + 1 /\ Len(channel[r]) \in Nat
        BY ONLY <1>0, <3>1
      <4> QED
        BY ONLY <2>2, <2>3, <4>1, <4>2
    <3>2. CASE \/ channel'[r] = channel[r] \/ channel'[r] = <<>>
               \/ channel[r] # <<>> /\ channel'[r] = Tail(channel[r])
      <4>1. Len(channel'[r]) <= Len(channel[r]) /\ Len(channel'[r]) \in Nat /\ Len(channel[r]) \in Nat
        BY ONLY <1>0, <3>2
      <4> QED
        BY ONLY <2>2, <2>3, <4>1
    <3> QED
      BY ONLY <1>1, <3>1, <3>2
  <2> QED
    BY ONLY <1>2, <2>1, <2>4 DEF Fit
<1>3. CASE target[r] = NoTask
  <2>1. channel[r] = <<>>
    BY <1>0, <1>3, StoreAssumption DEF Fit
  <2>2. channel'[r] = <<>>
    BY <1>1, <1>3, <2>1, StoreAssumption
  <2>3. ASSUME NEW task \in Tasks PROVE StartAhead(task)' + EndAhead(task)' <= 3
    <3>1. StartAhead(task)' \in 0 .. 1 /\ EndAhead(task)' \in 0 .. 2
      BY Aheads
    <3> QED
      BY ONLY <3>1
  <2>4. ASSUME NEW task \in Tasks PROVE StartAhead(task)' \in 0 .. 1 /\ EndAhead(task)' \in 0 .. 2
    BY Aheads
  <2>5. ASSUME NEW task \in Tasks, target'[r] = task PROVE Fit(r)'
    <3>1. Fit(r)' <=> Len(channel'[r]) + StartAhead(task)' + EndAhead(task)' <= 3
      BY ONLY <2>5 DEF Fit
    <3> QED
      BY ONLY <2>2, <2>3, <2>4, <3>1, task \in Tasks
  <2>6. target'[r] \notin Tasks => Fit(r)'
    BY ONLY <2>2 DEF Fit
  <2> QED
    BY ONLY <2>5, <2>6
<1> QED
  BY <1>0, <1>2, <1>3

\* No channel ever holds more than three events, so the 64 places of a subscription are
\* never full, however slow its receiver is.
THEOREM ChannelsNeverFill == Spec => []EventsFit
<1>1. Init => FitInv
  <2> SUFFICES ASSUME Init PROVE FitInv
    OBVIOUS
  <2>1. Known /\ OneStart /\ OneEnd
    BY EventsDiffer DEF Init, StoreInit, Known, OneStart, OneEnd, OwesStart, OwesBoth, OwesEnd
  <2>2. \A r \in Receivers : Fit(r)
    BY Roles, StoreAssumption DEF Init, StoreInit, Fit
  <2> QED
    BY <2>1, <2>2, TruthInit DEF FitInv
<1>2. FitInv /\ [Next]_vars => FitInv'
  <2> SUFFICES ASSUME FitInv, [Next]_vars PROVE FitInv'
    OBVIOUS
  <2>1. TypeOK /\ OwedTrue /\ TruthInv'
    BY TruthStep DEF FitInv, TruthInv
  <2> QED
    BY <2>1, OneStep, FitStep DEF FitInv
<1>3. FitInv => EventsFit
  <2> SUFFICES ASSUME FitInv, NEW r \in Receivers PROVE Len(channel[r]) <= 3
    BY DEF EventsFit
  <2>1. Fit(r) /\ channel[r] \in Seq(TaskEvent)
    BY DEF FitInv, TruthInv, TypeOK, StoreTypeOK
  <2>2. StartAhead(target[r]) \in 0 .. 1 /\ EndAhead(target[r]) \in 0 .. 2
    BY Aheads
  <2> QED
    BY ONLY <2>1, <2>2 DEF Fit
<1> QED
  BY <1>1, <1>2, <1>3, PTL DEF Spec


-----------------------------------------------------------------------------
(* A stream is given the result before it is told of the completion.       *)

(* A send that has not started the work is alone with its task, which can  *)
(* only have been cancelled or rejected.                                   *)
Young(s) == pc[s] \in {"created", "subscribed"}
NotYet == \A s \in Sends : Young(s) => target[s] \in Tasks /\ status[target[s]] \in {"Submitted", "Canceled", "Rejected"}
Alone == \A s \in Sends, q \in Sends : Young(s) /\ Young(q) /\ target[s] = target[q] => s = q

(* Of a completed task the result is first in every channel, and comes     *)
(* before the state if only the state is still to be notified.             *)
OwesDone(c, task) == owed[c] = <<Event(task, "Completed")>>
Given(s) == "artifact" \in told[s] \/ \E i \in DOMAIN channel[s] : channel[s][i].kind = "artifact"
FirstInChannel(s) ==
    \A i \in DOMAIN channel[s] : channel[s][i].kind = "Completed" =>
       "artifact" \in told[s] \/ \E j \in DOMAIN channel[s] : j < i /\ channel[s][j].kind = "artifact"
FirstSent(s) ==
    \A task \in Tasks, c \in Callers :
       OwesDone(c, task) /\ s \in connected /\ s \in subscriptions[task] => Given(s)
FirstTold(s) == "Completed" \in told[s] => "artifact" \in told[s]

ResultInv ==
    /\ TruthInv /\ NotYet /\ Alone
    /\ \A s \in Sends : FirstTold(s) /\ (mode[s] = "stream" => FirstInChannel(s) /\ FirstSent(s))

LEMMA MineYoung ==
  ASSUME TypeOK, NEW s \in Sends, Mine(s), Young(s)'
  PROVE  \/ Young(s) /\ target'[s] = target[s]
         \/ \E task \in Tasks : Creates(s, task)
<1>0. /\ pc \in [Requests -> Places] /\ s \in Requests /\ mode[s] \in Modes
      /\ pc'[s] \in {"created", "subscribed"}
  BY Roles DEF TypeOK, RequestTypeOK, Young
<1>1. CASE StreamSubscribe(s)
  BY ONLY <1>1 DEF StreamSubscribe, Young, At
<1>2. CASE StartWorking(s) \/ WorkRefused(s) \/ WaitSubscribe(s) \/ FinalRead(s) \/ Deadline(s) \/ HangUp(s)
  BY ONLY <1>0, <1>2 DEF StartWorking, WorkRefused, WaitSubscribe, FinalRead, Deadline, HangUp, Goto
<1>3. CASE ReRead(s) \/ WaitReceive(s) \/ StreamReceive(s)
  BY ONLY <1>0, <1>3 DEF ReRead, WaitReceive, StreamReceive, Goto, At
<1>4. CASE HandOver(s)
  BY ONLY <1>0, <1>4 DEF HandOver, AfterHandOver, Goto, Modes
<1>5. ASSUME NEW how, NEW key, RepeatedKey(s, how, key) PROVE FALSE
  BY ONLY <1>0, <1>5 DEF RepeatedKey, Goto
<1>6. ASSUME NEW task \in Tasks, NEW how, NEW key, CreateTask(s, task, how, key)
      PROVE  Creates(s, task)
  BY ONLY <1>6 DEF CreateTask, create_task, Creates, At
<1>7. s \notin Cancelers /\ s \notin Watchers
  BY Roles
<1> QED
  BY ONLY Mine(s), <1>1, <1>2, <1>3, <1>4, <1>5, <1>6, <1>7 DEF Mine, SendStep

\* A young send has been young with its task, or has just created it.
LEMMA YoungFrom ==
  ASSUME TypeOK, [Next]_vars, NEW s \in Sends, Young(s)'
  PROVE  \/ Young(s) /\ target'[s] = target[s]
         \/ \E task \in Tasks : Creates(s, task)
  BY ONLY TypeOK, [Next]_vars, s \in Sends, Young(s)', Roles, OwnSteps, MineYoung DEF Still, Young

LEMMA YoungStep ==
  ASSUME ResultInv, [Next]_vars
  PROVE  NotYet' /\ Alone'
<1>0. /\ TypeOK /\ Fresh /\ NotYet /\ Alone /\ Sends \subseteq Requests
      /\ status \in [Tasks -> TaskState \cup {"none"}] /\ target \in [Requests -> Tasks \cup {NoTask}]
      /\ pc \in [Requests -> Places]
  BY Roles DEF ResultInv, TruthInv, TypeOK, RequestTypeOK, StoreTypeOK
<1>1. ASSUME NEW s \in Sends, NEW task \in Tasks, Creates(s, task)
      PROVE  NotYet' /\ Alone'
  <2>1. /\ status[task] = "none" /\ status' = [status EXCEPT ![task] = "Submitted"]
        /\ pc[s] = "start" /\ target'[s] = task
        /\ \A q \in Sends : q # s => target'[q] = target[q] /\ pc'[q] = pc[q]
    BY ONLY <1>0, <1>1 DEF Creates, Goto
  <2>2. ASSUME NEW q \in Sends, q # s, Young(q)'
        PROVE  /\ Young(q) /\ target'[q] = target[q] /\ target[q] \in Tasks /\ target[q] # task
               /\ status[target[q]] \in {"Submitted", "Canceled", "Rejected"}
    BY ONLY <1>0, <2>1, <2>2 DEF Young, NotYet
  <2>3. NotYet'
    BY ONLY <1>0, <2>1, <2>2 DEF NotYet
  <2>4. Alone'
    BY ONLY <1>0, <2>1, <2>2 DEF Alone
  <2> QED
    BY <2>3, <2>4
<1>2. CASE \A s \in Sends, task \in Tasks : ~Creates(s, task)
  <2>1. \A s \in Sends : Young(s)' => Young(s) /\ target'[s] = target[s]
    BY ONLY <1>0, <1>2, [Next]_vars, YoungFrom
  <2>2. Alone'
    BY ONLY <1>0, <2>1 DEF Alone
  <2>3. ASSUME NEW c \in Callers, NEW t \in Tasks, NEW state \in {"Working"} \cup Terminal,
               Changes(c, t, state), NEW s \in Sends, Young(s)'
        PROVE  target'[s] \in Tasks /\ status'[target'[s]] \in {"Submitted", "Canceled", "Rejected"}
    <3>1. /\ Young(s) /\ target'[s] = target[s] /\ target[s] \in Tasks
          /\ status[target[s]] \in {"Submitted", "Canceled", "Rejected"}
      BY ONLY <1>0, <2>1, <2>3 DEF NotYet
    <3>2. CASE t # target[s]
      BY ONLY <1>0, <2>3, <3>1, <3>2 DEF Changes
    <3>3. CASE t = target[s] /\ state # "Working"
      BY ONLY <1>0, <2>3, <3>1, <3>3 DEF Changes, is_valid_transition, Terminal
    <3>4. CASE t = target[s] /\ state = "Working"
      <4>1. c \in Sends /\ t = target[c] /\ Young(c) /\ pc'[c] = "working"
        BY ONLY <1>0, <2>3, <3>4 DEF Changes, ReadyToWork, At, Goto, Young
      <4>2. c = s
        BY ONLY <1>0, <3>1, <3>4, <4>1, s \in Sends DEF Alone
      <4> QED
        BY ONLY <2>3, <4>1, <4>2 DEF Young
    <3> QED
      BY ONLY <3>2, <3>3, <3>4
  <2>4. ASSUME NEW r, Joins(r) \/ Notify(r) \/ Drains(r) \/ Rests PROVE NotYet'
    <3>1. status' = status
      BY ONLY <2>4 DEF Joins, subscribe, Notify, notify, Drains, disconnect, receive, Rests, taskVars
    <3> QED
      BY ONLY <1>0, <2>1, <3>1 DEF NotYet
  <2>5. NotYet'
    <3>1. CASE \E c \in Callers, t \in Tasks, state \in {"Working"} \cup Terminal : Changes(c, t, state)
      BY ONLY <2>3, <3>1 DEF NotYet
    <3> QED
      BY ONLY <1>0, <1>2, <2>4, <3>1, StoreMoves, [Next]_vars DEF StoreMove
  <2> QED
    BY <2>2, <2>5
<1> QED
  BY <1>1, <1>2

LEMMA MineMode ==
  ASSUME NEW s \in Sends, Mine(s)
  PROVE  mode'[s] = mode[s] \/ pc[s] = "start"
<1>1. CASE SendStep(s)
  BY ONLY <1>1 DEF SendStep, StreamSubscribe, StartWorking, WorkRefused, HandOver, WaitSubscribe,
                   ReRead, WaitReceive, FinalRead
<1>2. ASSUME NEW task, NEW how, NEW key,
             \/ CreateTask(s, task, how, key) \/ RepeatedKey(s, how, key) \/ Deadline(s)
             \/ HangUp(s) \/ StreamReceive(s)
      PROVE  mode'[s] = mode[s] \/ pc[s] = "start"
  BY ONLY <1>2 DEF CreateTask, RepeatedKey, Deadline, HangUp, StreamReceive, At
<1>3. s \notin Cancelers /\ s \notin Watchers
  BY Roles
<1> QED
  BY ONLY Mine(s), <1>1, <1>2, <1>3 DEF Mine

\* A send is told of an event when its stream takes one, and of nothing else.
LEMMA SendTold ==
  ASSUME TypeOK, [Next]_vars, NEW s \in Sends
  PROVE  told'[s] = told[s] \/ (StreamReceive(s) /\ told'[s] = told[s] \cup {Head(channel[s]).kind})
<1>0. s \in Receivers /\ s \in Requests /\ s \notin Watchers
      /\ told \in [Receivers -> SUBSET (EventKind \cup {"none"})]
  BY Roles DEF TypeOK, RequestTypeOK
<1>1. told'[s] = told[s] \/ StreamReceive(s)
  BY ONLY <1>0, TypeOK, [Next]_vars, OwnSteps, MineTold DEF Still
<1>2. StreamReceive(s) => told'[s] = told[s] \cup {Head(channel[s]).kind}
  BY ONLY <1>0 DEF StreamReceive
<1> QED
  BY <1>1, <1>2

\* Where the events are after a channel grows or shrinks.
LEMMA Shifted ==
  ASSUME NEW ch \in Seq(TaskEvent), NEW event \in TaskEvent
  PROVE  /\ \A i \in DOMAIN ch : /\ i \in DOMAIN Append(ch, event) /\ Append(ch, event)[i] = ch[i]
                                 /\ i < Len(ch) + 1
         /\ \A i \in DOMAIN Append(ch, event) : i \in DOMAIN ch \/ i = Len(ch) + 1
         /\ Len(ch) + 1 \in DOMAIN Append(ch, event) /\ Append(ch, event)[Len(ch) + 1] = event
         /\ ch # <<>> =>
               /\ Head(ch) = ch[1] /\ 1 \in DOMAIN ch
               /\ \A i \in DOMAIN Tail(ch) : i \in Int /\ i + 1 \in DOMAIN ch /\ Tail(ch)[i] = ch[i + 1]
               /\ \A i \in DOMAIN ch : i \in Int /\ (i = 1 \/ (i - 1 \in DOMAIN Tail(ch) /\ Tail(ch)[i - 1] = ch[i]))
<1>1. /\ DOMAIN ch = 1 .. Len(ch) /\ DOMAIN Append(ch, event) = 1 .. Len(ch) + 1 /\ Len(ch) \in Nat
      /\ \A i \in 1 .. Len(ch) : Append(ch, event)[i] = ch[i]
      /\ Append(ch, event)[Len(ch) + 1] = event
  OBVIOUS
<1>2. ASSUME ch # <<>>
      PROVE  /\ Head(ch) = ch[1] /\ Len(ch) >= 1 /\ DOMAIN Tail(ch) = 1 .. Len(ch) - 1
             /\ \A i \in 1 .. Len(ch) - 1 : Tail(ch)[i] = ch[i + 1]
  BY <1>2
<1>3. ASSUME ch # <<>>, NEW i \in DOMAIN ch
      PROVE  i \in Int /\ (i = 1 \/ (i - 1 \in DOMAIN Tail(ch) /\ Tail(ch)[i - 1] = ch[i]))
  <2>1. i \in 1 .. Len(ch) /\ (i # 1 => i - 1 \in 1 .. Len(ch) - 1) /\ (i - 1) + 1 = i
    BY ONLY <1>1, <1>2, <1>3
  <2> QED
    BY ONLY <1>2, <1>3, <2>1
<1>4. ASSUME ch # <<>>, NEW i \in DOMAIN Tail(ch)
      PROVE  i \in Int /\ i + 1 \in DOMAIN ch /\ Tail(ch)[i] = ch[i + 1]
  BY ONLY <1>1, <1>2, <1>4
<1> QED
  BY ONLY <1>1, <1>2, <1>3, <1>4

\* Who owes the state of a completed task alone has sent the result, or sends it now.
LEMMA OwesDoneFrom ==
  ASSUME TypeOK, OwedTrue, [Next]_vars, NEW c \in Callers, NEW task \in Tasks, OwesDone(c, task)'
  PROVE  OwesDone(c, task) \/ (Notify(c) /\ OwesBoth(c, task))
<1>1. "Completed" \in Terminal /\ (OwesDone(c, task)' => OwesEnd(c, task)')
  BY DEF OwesDone, OwesEnd, Terminal
<1>2. ASSUME owed'[c] = owed[c] PROVE OwesDone(c, task)
  BY ONLY OwesDone(c, task)', <1>2 DEF OwesDone
<1>3. ASSUME NEW d \in Callers, NEW t \in Tasks, NEW state \in {"Working"} \cup Terminal,
             Changes(d, t, state)
      PROVE  OwesDone(c, task)
  <2>1. \/ owed'[c] = owed[c] \/ owed'[c] = completion_events(t)
        \/ state # "Completed" /\ owed'[c] = <<Event(t, state)>>
    <3>1. owed \in [Callers -> Seq(TaskEvent)]
      BY DEF TypeOK, StoreTypeOK
    <3> QED
      BY ONLY <1>3, <3>1, c \in Callers DEF Changes
  <2>2. owed'[c] = <<Event(task, "Completed")>>
    BY DEF OwesDone
  <2> QED
    BY ONLY <1>2, <2>1, <2>2, EventsDiffer
<1>4. ASSUME NEW d \in Callers, Notify(d) PROVE OwesDone(c, task) \/ (Notify(c) /\ OwesBoth(c, task))
  <2>1. CASE c = d
    BY ONLY <1>1, <1>4, <2>1, TypeOK, OwedTrue, OwedNotify, OwesDone(c, task)', c \in Callers, task \in Tasks
  <2> QED
    BY ONLY <1>2, <1>4, <2>1, TypeOK, OwedTrue, OwedNotify, c \in Callers, task \in Tasks
<1>5. ASSUME NEW r, (\E t : Creates(r, t)) \/ Joins(r) \/ Drains(r) \/ Rests PROVE owed' = owed
  BY ONLY <1>5 DEF Creates, Joins, subscribe, Drains, disconnect, receive, Rests
<1> QED
  BY ONLY StoreMoves, TypeOK, [Next]_vars, <1>2, <1>3, <1>4, <1>5 DEF StoreMove

\* Only the state goes out as Completed, and only the result before it.
LEMMA DoneSent ==
  ASSUME OwedTrue, NEW c \in Callers, owed[c] # <<>>
  PROVE  /\ Head(owed[c]).kind = "Completed" => \E task \in Tasks : Head(owed[c]).task = task /\ OwesDone(c, task)
         /\ \A task \in Tasks : OwesBoth(c, task) => Head(owed[c]).kind = "artifact" /\ Head(owed[c]).task = task
<1>1. ASSUME NEW task \in Tasks, NEW kind \in {"Working"} \cup Terminal, OwesStatus(c, task, kind)
      PROVE  Head(owed[c]).task = task /\ (Head(owed[c]).kind = "Completed" => OwesDone(c, task))
  <2>1. owed[c] = <<Event(task, kind)>> /\ Head(owed[c]) = Event(task, kind)
    BY ONLY <1>1, Tails DEF OwesStatus
  <2> QED
    BY ONLY <1>1, <2>1 DEF OwesDone, Event
<1>2. ASSUME NEW task \in Tasks, OwesBoth(c, task)
      PROVE  Head(owed[c]).kind = "artifact" /\ Head(owed[c]).task = task
  <2>1. Head(owed[c]) = Event(task, "artifact")
    BY ONLY <1>2, Tails DEF OwesBoth
  <2> QED
    BY ONLY <2>1 DEF Event
<1>3. \A task \in Tasks : OwesResult(c, task) => OwesBoth(c, task)
  BY DEF OwesResult, OwesBoth
<1> QED
  BY ONLY <1>1, <1>2, <1>3, OwedTrue, c \in Callers, owed[c] # <<>> DEF OwedTrue

LEMMA FirstToldStep ==
  ASSUME ResultInv, [Next]_vars, NEW s \in Sends
  PROVE  FirstTold(s)'
<1>0. TypeOK /\ s \in Requests /\ s \in Receivers /\ FirstTold(s) /\ channel[s] \in Seq(TaskEvent)
  BY Roles DEF ResultInv, TruthInv, TypeOK, StoreTypeOK
<1>1. CASE told'[s] = told[s]
  BY ONLY <1>0, <1>1 DEF FirstTold
<1>2. CASE StreamReceive(s) /\ told'[s] = told[s] \cup {Head(channel[s]).kind}
  <2>1. mode[s] = "stream" /\ channel[s] # <<>>
    BY <1>0, <1>2 DEF StreamReceive, receive, At, TypeOK, PlacesOK
  <2>2. Head(channel[s]) = channel[s][1] /\ 1 \in DOMAIN channel[s] /\ DOMAIN channel[s] \subseteq {i \in Nat : i >= 1}
    BY ONLY <1>0, <2>1
  <2>3. Head(channel[s]).kind = "Completed" => "artifact" \in told[s]
    <3>1. FirstInChannel(s)
      BY ONLY ResultInv, <2>1, s \in Sends DEF ResultInv
    <3> QED
      BY ONLY <2>2, <3>1 DEF FirstInChannel
  <2> QED
    BY ONLY <1>0, <1>2, <2>3 DEF FirstTold
<1> QED
  BY ONLY <1>0, <1>1, <1>2, SendTold, [Next]_vars, s \in Sends

\* A stream that has not begun has no event and no subscription.
LEMMA FreshStream ==
  ASSUME TruthInv, [Next]_vars, NEW s \in Sends, pc[s] = "start"
  PROVE  channel'[s] = <<>> /\ \A task \in Tasks : s \notin subscriptions'[task]
<1>0. /\ TypeOK /\ OwedTrue /\ s \in Receivers /\ s \in Requests /\ target[s] = NoTask /\ NoTask \notin Tasks
      /\ channel \in [Receivers -> Seq(TaskEvent)] /\ subscriptions \in [Tasks -> SUBSET Receivers]
      /\ \A task \in Tasks : s \notin subscriptions[task]
  BY Roles, StoreAssumption DEF TruthInv, Fresh, OwnSubscription, TypeOK, StoreTypeOK
<1>1. channel[s] = <<>>
  <2>1. ASSUME channel[s] # <<>> PROVE FALSE
    <3>1. Head(channel[s]) \in Holds(s) /\ Head(channel[s]) \in TaskEvent
      BY ONLY <1>0, <2>1, Held, HeadTail DEF Holds
    <3> QED
      BY <1>0, <3>1 DEF TruthInv, OwnEvents, TaskEvent
  <2> QED
    BY <2>1
<1>2. ASSUME NEW r \in Receivers, Joins(r)
      PROVE  channel'[s] = <<>> /\ \A task \in Tasks : s \notin subscriptions'[task]
  BY ONLY <1>0, <1>1, <1>2 DEF Joins, subscribe
<1>3. ASSUME NEW c \in Callers, Notify(c)
      PROVE  channel'[s] = <<>> /\ \A task \in Tasks : s \notin subscriptions'[task]
  <2>1. Head(owed[c]).task \in Tasks
    BY <1>0, <1>3, OwesOne DEF Notify, notify
  <2> QED
    BY ONLY <1>0, <1>1, <1>3, <2>1 DEF Notify, notify
<1>4. ASSUME NEW r \in Receivers, Drains(r)
      PROVE  channel'[s] = <<>> /\ \A task \in Tasks : s \notin subscriptions'[task]
  BY ONLY <1>0, <1>1, <1>4 DEF Drains, disconnect, receive
<1>5. ASSUME NEW r, \/ \E c, task, state : Changes(c, task, state)
                    \/ \E task : Creates(r, task) \/ Rests
      PROVE  channel'[s] = <<>> /\ \A task \in Tasks : s \notin subscriptions'[task]
  BY ONLY <1>0, <1>1, <1>5 DEF Changes, Creates, Rests, subVars
<1> QED
  BY ONLY <1>0, StoreMoves, [Next]_vars, <1>2, <1>3, <1>4, <1>5 DEF StoreMove

LEMMA FirstStep ==
  ASSUME ResultInv, [Next]_vars, NEW s \in Sends, mode[s] = "stream", NEW task \in Tasks, target[s] = task
  PROVE  FirstInChannel(s)' /\ FirstSent(s)'
<1>0. /\ TypeOK /\ OwedTrue /\ OwnSubscription /\ NotYet /\ s \in Receivers
      /\ FirstInChannel(s) /\ FirstSent(s)
      /\ channel \in [Receivers -> Seq(TaskEvent)] /\ subscriptions \in [Tasks -> SUBSET Receivers]
      /\ channel[s] \in Seq(TaskEvent) /\ told[s] \subseteq told'[s]
  <2>1. TypeOK /\ told[s] \subseteq told'[s]
    BY SendTold DEF ResultInv, TruthInv
  <2> QED
    BY <2>1, Roles DEF ResultInv, TruthInv, TypeOK, StoreTypeOK
<1>1. ASSUME NEW c \in Callers, NEW t \in Tasks, OwesDone(c, t)'
      PROVE  OwesDone(c, t) \/ (Notify(c) /\ OwesBoth(c, t))
  BY ONLY <1>0, <1>1, [Next]_vars, OwesDoneFrom
<1>2. ASSUME channel'[s] = channel[s]
      PROVE  FirstInChannel(s)' /\ (Given(s) => Given(s)')
  <2>1. FirstInChannel(s)'
    BY ONLY <1>0, <1>2 DEF FirstInChannel
  <2>2. Given(s) => Given(s)'
    BY ONLY <1>0, <1>2 DEF Given
  <2> QED
    BY <2>1, <2>2
<1>3. ASSUME channel'[s] = channel[s], \A c \in Callers : ~Notify(c),
             \A t \in Tasks : s \in connected' /\ s \in subscriptions'[t]
                                => s \in connected /\ s \in subscriptions[t]
      PROVE  FirstInChannel(s)' /\ FirstSent(s)'
  <2>1. FirstSent(s)'
    BY ONLY <1>0, <1>1, <1>2, <1>3 DEF FirstSent
  <2> QED
    BY <1>2, <1>3, <2>1
<1>4. ASSUME NEW d \in Callers, Notify(d) PROVE FirstInChannel(s)' /\ FirstSent(s)'
  <2> DEFINE event == Head(owed[d])
  <2>1. owed[d] # <<>> /\ event \in TaskEvent /\ event.task \in Tasks
    <3>1. owed[d] # <<>> /\ event \in TaskEvent
      BY ONLY <1>0, <1>4, SentTrue DEF Notify, notify
    <3> QED
      BY <3>1 DEF TaskEvent
  <2>2. /\ connected' = connected
        /\ \A t \in Tasks : subscriptions'[t] \subseteq subscriptions[t]
        /\ s \in subscriptions'[event.task] => s \in connected /\ s \in subscriptions[event.task]
        /\ channel'[s] = IF s \in connected /\ s \in subscriptions[event.task]
                         THEN Append(channel[s], event) ELSE channel[s]
    BY ONLY <1>0, <1>4, <2>1 DEF Notify, notify
  <2>3. /\ event.kind = "Completed" => OwesDone(d, event.task)
        /\ \A t \in Tasks : OwesBoth(d, t) => event.kind = "artifact" /\ event.task = t
    BY ONLY <1>0, <2>1, DoneSent
  <2> HIDE DEF event
  <2>4. CASE s \in connected /\ s \in subscriptions[event.task]
    <3>1. channel'[s] = Append(channel[s], event)
      BY ONLY <2>2, <2>4
    <3>2. Given(s) => Given(s)'
      BY ONLY <1>0, <2>1, <3>1, Shifted DEF Given
    <3>3. event.kind = "artifact" => Given(s)'
      BY ONLY <1>0, <2>1, <3>1, Shifted DEF Given
    <3>4. event.kind = "Completed" => Given(s)
      BY ONLY <1>0, <2>1, <2>3, <2>4 DEF FirstSent
    <3>5. ASSUME NEW i \in DOMAIN channel'[s], channel'[s][i].kind = "Completed"
          PROVE  "artifact" \in told'[s]
                 \/ \E j \in DOMAIN channel'[s] : j < i /\ channel'[s][j].kind = "artifact"
      <4>1. CASE i \in DOMAIN channel[s]
        <5>1. "artifact" \in told[s] \/ \E j \in DOMAIN channel[s] : j < i /\ channel[s][j].kind = "artifact"
          BY ONLY <1>0, <2>1, <3>1, <3>5, <4>1, Shifted DEF FirstInChannel
        <5> QED
          BY ONLY <1>0, <2>1, <3>1, <5>1, Shifted
      <4>2. CASE i = Len(channel[s]) + 1
        <5>1. Given(s)
          BY ONLY <1>0, <2>1, <3>1, <3>4, <3>5, <4>2, Shifted
        <5> QED
          BY ONLY <1>0, <2>1, <3>1, <4>2, <5>1, Shifted DEF Given
      <4> QED
        BY ONLY <1>0, <2>1, <3>1, <3>5, <4>1, <4>2, Shifted
    <3>6. FirstInChannel(s)'
      BY ONLY <3>5 DEF FirstInChannel
    <3>7. ASSUME NEW t \in Tasks, NEW c \in Callers, OwesDone(c, t)', s \in connected', s \in subscriptions'[t]
          PROVE  Given(s)'
      <4>1. CASE OwesDone(c, t)
        BY ONLY <1>0, <2>2, <3>2, <3>7, <4>1 DEF FirstSent
      <4>2. CASE Notify(c) /\ OwesBoth(c, t)
        <5>1. c # d => owed'[c] = owed[c]
          BY <1>0, <1>4 DEF Notify, notify, TypeOK, StoreTypeOK
        <5>2. c = d
          BY ONLY <3>7, <4>2, <5>1, EventsDiffer DEF OwesDone, OwesBoth
        <5> QED
          BY ONLY <2>3, <3>3, <3>7, <4>2, <5>2
      <4> QED
        BY ONLY <1>1, <3>7, <4>1, <4>2
    <3> QED
      BY ONLY <3>6, <3>7 DEF FirstSent
  <2>5. CASE ~(s \in connected /\ s \in subscriptions[event.task])
    <3>1. channel'[s] = channel[s] /\ s \notin subscriptions'[event.task]
      BY ONLY <2>2, <2>5
    <3>2. ASSUME NEW t \in Tasks, NEW c \in Callers, OwesDone(c, t)', s \in connected', s \in subscriptions'[t]
          PROVE  Given(s)'
      <4>1. CASE OwesDone(c, t)
        BY ONLY <1>0, <1>2, <2>2, <3>1, <3>2, <4>1 DEF FirstSent
      <4>2. CASE Notify(c) /\ OwesBoth(c, t)
        <5>1. c # d => owed'[c] = owed[c]
          BY <1>0, <1>4 DEF Notify, notify, TypeOK, StoreTypeOK
        <5>2. c = d
          BY ONLY <3>2, <4>2, <5>1, EventsDiffer DEF OwesDone, OwesBoth
        <5> QED
          BY ONLY <2>3, <3>1, <3>2, <4>2, <5>2
      <4> QED
        BY ONLY <1>1, <3>2, <4>1, <4>2
    <3> QED
      BY ONLY <1>2, <3>1, <3>2 DEF FirstSent
  <2> QED
    BY <2>4, <2>5
<1>5. ASSUME NEW r \in Receivers, Joins(r) PROVE FirstInChannel(s)' /\ FirstSent(s)'
  <2>1. /\ channel' = channel /\ owed' = owed
        /\ \A t \in Tasks : s \in connected' /\ s \in subscriptions'[t]
              => (s \in connected /\ s \in subscriptions[t]) \/ r = s
        /\ \A t \in Tasks : s \in subscriptions'[t] => s \in subscriptions[t] \/ t = target[s]
        /\ r = s => pc[s] = "created"
    BY ONLY <1>0, <1>5, mode[s] = "stream", s \in Sends DEF Joins, subscribe
  <2>2. FirstInChannel(s)' /\ (Given(s) => Given(s)')
    BY ONLY <1>2, <2>1
  <2>3. ASSUME NEW t \in Tasks, NEW c \in Callers, OwesDone(c, t)', s \in connected', s \in subscriptions'[t]
        PROVE  Given(s)'
    <3>1. OwesDone(c, t)
      BY ONLY <2>1, <2>3 DEF OwesDone
    <3>2. CASE r = s
      <4>1. t = task
        BY ONLY <1>0, <2>1, <2>3, target[s] = task DEF OwnSubscription
      <4>2. status[task] \in {"Submitted", "Canceled", "Rejected"}
        BY ONLY <1>0, <2>1, <3>2, s \in Sends, target[s] = task DEF NotYet, Young
      <4>3. status[task] = "Completed"
        <5>1. owed[c] = <<Event(task, "Completed")>>
          BY ONLY <3>1, <4>1 DEF OwesDone
        <5>2. ASSUME NEW u \in Tasks, NEW kind \in {"Working"} \cup Terminal, OwesStatus(c, u, kind)
              PROVE  status[task] = "Completed"
          <6>1. u = task /\ kind = "Completed"
            BY ONLY <5>1, <5>2, EventsDiffer DEF OwesStatus
          <6> QED
            BY ONLY <5>2, <6>1 DEF OwesStatus, Reached, Terminal
        <5>3. ASSUME NEW u \in Tasks, OwesResult(c, u) PROVE FALSE
          BY ONLY <5>1, <5>3, EventsDiffer DEF OwesResult
        <5>4. owed[c] # <<>>
          BY ONLY <5>1, EventsDiffer
        <5> QED
          BY ONLY <1>0, <5>2, <5>3, <5>4, c \in Callers DEF OwedTrue
      <4> QED
        BY ONLY <4>2, <4>3
    <3>3. CASE r # s
      BY ONLY <1>0, <2>1, <2>2, <2>3, <3>1, <3>3 DEF FirstSent
    <3> QED
      BY <3>2, <3>3
  <2> QED
    BY ONLY <2>2, <2>3 DEF FirstSent
<1>6. ASSUME NEW r \in Receivers, Drains(r) PROVE FirstInChannel(s)' /\ FirstSent(s)'
  <2>1. /\ subscriptions' = subscriptions /\ owed' = owed /\ connected' \subseteq connected
        /\ r # s => channel'[s] = channel[s]
        /\ r = s => \/ channel'[s] = <<>> /\ s \notin connected'
                    \/ /\ channel[s] # <<>> /\ channel'[s] = Tail(channel[s])
                       /\ told'[s] = told[s] \cup {Head(channel[s]).kind}
    BY ONLY <1>0, <1>6, mode[s] = "stream", s \in Sends DEF Drains, disconnect, receive
  <2>2. ASSUME NEW c \in Callers, NEW t \in Tasks PROVE OwesDone(c, t)' => OwesDone(c, t)
    BY ONLY <2>1 DEF OwesDone
  <2>3. CASE channel'[s] = channel[s]
    BY ONLY <1>0, <1>2, <2>1, <2>2, <2>3 DEF FirstSent
  <2>4. CASE channel'[s] = <<>> /\ s \notin connected'
    BY ONLY <2>4 DEF FirstSent, FirstInChannel
  <2>5. CASE /\ channel[s] # <<>> /\ channel'[s] = Tail(channel[s])
             /\ told'[s] = told[s] \cup {Head(channel[s]).kind}
    <3>0. TaskEvent # {}
      <4>1. Head(channel[s]) \in TaskEvent
        BY ONLY <1>0, <2>5, HeadTail
      <4> QED
        BY ONLY <4>1
    <3>1. ASSUME NEW i \in DOMAIN channel[s], channel[s][i].kind = "artifact"
          PROVE  "artifact" \in told'[s]
                 \/ (i - 1 \in DOMAIN channel'[s] /\ channel'[s][i - 1].kind = "artifact")
      BY ONLY <1>0, <2>5, <3>0, <3>1, Shifted
    <3>2. Given(s) => Given(s)'
      BY ONLY <1>0, <3>1 DEF Given
    <3>3. ASSUME NEW i \in DOMAIN channel'[s], channel'[s][i].kind = "Completed"
          PROVE  "artifact" \in told'[s]
                 \/ \E j \in DOMAIN channel'[s] : j < i /\ channel'[s][j].kind = "artifact"
      <4>1. i \in Int /\ i + 1 \in DOMAIN channel[s] /\ channel[s][i + 1].kind = "Completed"
        BY ONLY <1>0, <2>5, <3>0, <3>3, Shifted
      <4>2. \/ "artifact" \in told[s]
            \/ \E j \in DOMAIN channel[s] : j < i + 1 /\ channel[s][j].kind = "artifact"
        BY ONLY <1>0, <4>1 DEF FirstInChannel
      <4>3. ASSUME NEW j \in DOMAIN channel[s], j < i + 1, channel[s][j].kind = "artifact"
            PROVE  "artifact" \in told'[s]
                   \/ (j - 1 \in DOMAIN channel'[s] /\ j - 1 < i /\ channel'[s][j - 1].kind = "artifact")
        <5>1. j \in Int
          BY ONLY <1>0, <2>5, <3>0, <4>3, Shifted
        <5> QED
          BY ONLY <3>1, <4>1, <4>3, <5>1
      <4> QED
        BY ONLY <1>0, <4>2, <4>3
    <3>4. FirstInChannel(s)'
      BY ONLY <3>3 DEF FirstInChannel
    <3> QED
      BY ONLY <1>0, <2>1, <2>2, <3>2, <3>4 DEF FirstSent
  <2> QED
    BY ONLY <2>1, <2>3, <2>4, <2>5
<1>7. ASSUME NEW r, \/ \E c, t, state : Changes(c, t, state)
                    \/ \E t : Creates(r, t) \/ Rests
      PROVE  UNCHANGED subVars
  BY ONLY <1>7 DEF Changes, Creates, Rests
<1>8. ASSUME UNCHANGED subVars PROVE FirstInChannel(s)' /\ FirstSent(s)'
  BY ONLY <1>3, <1>4, <1>8 DEF subVars
<1> QED
  BY ONLY <1>0, StoreMoves, [Next]_vars, <1>4, <1>5, <1>6, <1>7, <1>8 DEF StoreMove

LEMMA ResultStep ==
  ASSUME ResultInv, [Next]_vars
  PROVE  ResultInv'
<1>0. TypeOK /\ Fresh /\ TruthInv
  BY DEF ResultInv, TruthInv
<1>1. ASSUME NEW s \in Sends, mode'[s] = "stream" PROVE FirstInChannel(s)' /\ FirstSent(s)'
  <2>1. CASE pc[s] = "start"
    <3>1. channel'[s] = <<>> /\ \A task \in Tasks : s \notin subscriptions'[task]
      BY ONLY <1>0, <2>1, FreshStream, [Next]_vars, s \in Sends
    <3> QED
      BY ONLY <3>1 DEF FirstInChannel, FirstSent
  <2>2. CASE pc[s] # "start"
    <3>1. target[s] \in Tasks
      BY <1>0, <2>2, TargetTask, Roles
    <3>2. mode[s] = "stream"
      BY ONLY <1>0, <1>1, <2>2, Roles, OwnSteps, MineMode, [Next]_vars DEF Still
    <3> QED
      BY ONLY <3>1, <3>2, FirstStep, ResultInv, [Next]_vars, s \in Sends
  <2> QED
    BY <2>1, <2>2
<1> QED
  BY ONLY <1>0, <1>1, ResultInv, [Next]_vars, TruthStep, YoungStep, FirstToldStep DEF ResultInv

\* A streaming send that is told of the completion has been given the result before: its
\* stream ends there, and it is sent no final task.
THEOREM ResultsComeFirst == Spec => []ResultBeforeCompletion
<1>1. Init => ResultInv
  <2> SUFFICES ASSUME Init PROVE ResultInv
    OBVIOUS
  <2>1. NotYet /\ Alone
    BY Roles DEF Init, NotYet, Alone, Young
  <2>2. \A s \in Sends : FirstTold(s) /\ FirstInChannel(s) /\ FirstSent(s)
    BY Roles DEF Init, StoreInit, FirstTold, FirstInChannel, FirstSent
  <2> QED
    BY <2>1, <2>2, TruthInit DEF ResultInv
<1>2. ResultInv => ResultBeforeCompletion
  BY DEF ResultInv, FirstTold, ResultBeforeCompletion
<1> QED
  BY <1>1, <1>2, ResultStep, PTL DEF Spec

=============================================================================
