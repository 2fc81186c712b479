------------------------------- MODULE AcpSession -------------------------------
(***************************************************************************)
(* The editor's side of the agent.  One dispatch loop handles the client's *)
(* messages one at a time and awaits each handler; only a prompt runs in a *)
(* task of its own, which takes the session's runtime lock for its turn    *)
(* and for the compaction the turn asked for.  While the client is asked   *)
(* for a permission the turn is not polled, and the client's answer is a   *)
(* message of the same dispatch loop.                                      *)
(*                                                                         *)
(* An instance is one opening of a session: opening a live session again   *)
(* replaces the handle, and a turn of the former instance goes on.         *)
(***************************************************************************)
EXTENDS Integers, Sequences, FiniteSets, SequencesExt

CONSTANTS
    Sessions, Prompts,   \* session ids; prompt requests, each sent once
    Tools,               \* keys of the calls that ask
    Config,              \* the config request in the dispatch loop, not a prompt
    Idle,
    OnePrompt,           \* the client awaits a prompt before the session's next
    MaxOpens, MaxClientAsks, MaxRequests   \* bounds: openings, asks, other requests

ASSUME AcpAssumption ==
    /\ Config \notin Prompts /\ Idle \notin Prompts \cup {Config} /\ MaxOpens \in Nat

VARIABLES
    live,        \* the instance a session id names, 0 when it is not live
    stored,      \* sessions the store holds a log of
    opened,      \* instances opened so far
    cancel_requested,
    holder,      \* who holds the runtime lock of an instance
    waiters,     \* who waits for it, first come first served
    dispatch,    \* the instance whose lock the dispatch loop waits for, or 0
    prompts,     \* each prompt: [pc, session, inst, cancelled, outcome]
    denied,      \* what the bridge of a prompt remembers as rejected for good
    asks, requests,
    owed         \* for the properties: prompts a cancel was handled for

acpVars == <<live, stored, opened, cancel_requested, holder, waiters, dispatch, prompts,
    denied, asks, requests, owed>>

Inst == 1..MaxOpens
InTurn == {"turn", "asking", "compacting"}
Outstanding(p) == prompts[p].pc \notin {"unsent", "done", "error"}

AcpInit ==
    /\ live = [s \in Sessions |-> 0] /\ stored \in SUBSET Sessions /\ opened = 0
    /\ cancel_requested = [i \in Inst |-> FALSE]
    /\ holder = [i \in Inst |-> Idle] /\ waiters = [i \in Inst |-> <<>>] /\ dispatch = 0
    /\ prompts = [p \in Prompts |-> [pc |-> "unsent", session |-> CHOOSE s \in Sessions : TRUE,
                                     inst |-> 0, cancelled |-> FALSE, outcome |-> "none"]]
    /\ denied = [p \in Prompts |-> {}] /\ asks = 0 /\ requests = 0 /\ owed = {}

lockVars == <<holder, waiters>>
acpTurnVars == <<prompts, denied, asks>>
Request == requests < MaxRequests /\ requests' = requests + 1

-----------------------------------------------------------------------------
(* The dispatch loop: one message, its handler awaited. *)
DispatchFree == dispatch = 0

\* session/new, session/load and session/resume: a handle of its own, which
\* replaces the one the id named.
open_session(s) ==
    /\ DispatchFree /\ opened < MaxOpens
    /\ s \in stored \/ live[s] = 0     \* load and resume need the log; new has a new id
    /\ opened' = opened + 1 /\ live' = [live EXCEPT ![s] = opened + 1]
    /\ UNCHANGED <<stored, cancel_requested, lockVars, dispatch, acpTurnVars, requests, owed>>

\* The handler of a prompt only spawns its task.
SendPrompt(p, s) ==
    /\ DispatchFree /\ prompts[p].pc = "unsent"
    /\ OnePrompt => \A q \in Prompts : Outstanding(q) => prompts[q].session # s
    /\ prompts' = [prompts EXCEPT ![p].pc = "spawned", ![p].session = s]
    /\ UNCHANGED <<live, stored, opened, cancel_requested, lockVars, dispatch, denied, asks,
                   requests, owed>>

\* session/set_config_option awaits the runtime lock in the loop itself.
set_config_option(s) ==
    /\ DispatchFree /\ Request /\ live[s] # 0
    /\ dispatch' = live[s] /\ waiters' = [waiters EXCEPT ![live[s]] = Append(@, Config)]
    /\ UNCHANGED <<live, stored, opened, cancel_requested, holder, acpTurnVars, owed>>

\* The lock is free: the switch is made and the response sent.
ConfigAnswered ==
    /\ dispatch # 0 /\ holder[dispatch] = Idle /\ Head(waiters[dispatch]) = Config
    /\ waiters' = [waiters EXCEPT ![dispatch] = Tail(@)] /\ dispatch' = 0
    /\ UNCHANGED <<live, stored, opened, cancel_requested, holder, acpTurnVars, requests, owed>>

\* session/cancel: the flag, and the event for the turn that listens.
cancel(s) ==
    /\ DispatchFree /\ Request /\ live[s] # 0
    /\ cancel_requested' = [cancel_requested EXCEPT ![live[s]] = TRUE]
    /\ LET mine == {p \in Prompts : prompts[p].inst = live[s]}
       IN  /\ prompts' = [p \in Prompts |-> IF p \in mine /\ prompts[p].pc \in InTurn
                             THEN [prompts[p] EXCEPT !.cancelled = TRUE] ELSE prompts[p]]
           /\ owed' = owed \cup {p \in mine : prompts[p].pc \in InTurn \cup {"queued", "unlocking", "ended"}}
    /\ UNCHANGED <<live, stored, opened, lockVars, dispatch, denied, asks>>

close_session(s) ==
    /\ DispatchFree /\ Request /\ live[s] # 0 /\ live' = [live EXCEPT ![s] = 0]
    /\ UNCHANGED <<stored, opened, cancel_requested, lockVars, dispatch, acpTurnVars, owed>>

delete_session(s) ==
    /\ DispatchFree /\ Request
    /\ live' = [live EXCEPT ![s] = 0] /\ stored' = stored \ {s}
    /\ UNCHANGED <<opened, cancel_requested, lockVars, dispatch, acpTurnVars, owed>>

\* The client's answer to session/request_permission; "reject-always" is kept
\* by the bridge, which lives as long as the prompt.
PermissionAnswered(p, outcome) ==
    /\ DispatchFree /\ prompts[p].pc = "asking"
    /\ prompts' = [prompts EXCEPT ![p].pc = "turn", ![p].outcome = "none"]
    /\ denied' = IF outcome = "reject-always"
                 THEN [denied EXCEPT ![p] = @ \cup {prompts[p].outcome}] ELSE denied
    /\ UNCHANGED <<live, stored, opened, cancel_requested, lockVars, dispatch, asks, requests, owed>>

-----------------------------------------------------------------------------
(* The task of a prompt. *)
Step(p, pc) == prompts' = [prompts EXCEPT ![p].pc = pc]

\* The flag of the instance is cleared before the lock is asked for.
PromptStart(p) ==
    /\ prompts[p].pc = "spawned"
    /\ LET inst == live[prompts[p].session]
       IN  IF inst = 0 THEN Step(p, "error") /\ UNCHANGED <<cancel_requested, waiters>>
           ELSE /\ prompts' = [prompts EXCEPT ![p].pc = "queued", ![p].inst = inst]
                /\ cancel_requested' = [cancel_requested EXCEPT ![inst] = FALSE]
                /\ waiters' = [waiters EXCEPT ![inst] = Append(@, p)]
    /\ UNCHANGED <<live, stored, opened, holder, dispatch, denied, asks, requests, owed>>

\* A slip in which the flag is cleared once the lock is held.
PromptLocks_Bug(p) ==
    LET inst == prompts[p].inst
    IN  /\ prompts[p].pc = "queued" /\ holder[inst] = Idle /\ Head(waiters[inst]) = p
        /\ holder' = [holder EXCEPT ![inst] = p] /\ waiters' = [waiters EXCEPT ![inst] = Tail(@)]
        /\ cancel_requested' = [cancel_requested EXCEPT ![inst] = FALSE]
        /\ Step(p, "turn")
        /\ UNCHANGED <<live, stored, opened, dispatch, denied, asks, requests, owed>>
PromptLocks(p) ==
    LET inst == prompts[p].inst
    IN  /\ prompts[p].pc = "queued" /\ holder[inst] = Idle /\ Head(waiters[inst]) = p
        /\ holder' = [holder EXCEPT ![inst] = p] /\ waiters' = [waiters EXCEPT ![inst] = Tail(@)]
        /\ Step(p, "turn")
        /\ UNCHANGED <<live, stored, opened, cancel_requested, dispatch, denied, asks, requests, owed>>

\* A call asks: the drain awaits the client and polls nothing else meanwhile.  A
\* key the client rejected for good is denied at once.
TurnAsks(p, key) ==
    /\ prompts[p].pc = "turn" /\ ~prompts[p].cancelled /\ key \notin denied[p]
    /\ asks < MaxClientAsks /\ asks' = asks + 1
    /\ prompts' = [prompts EXCEPT ![p].pc = "asking", ![p].outcome = key]
    /\ UNCHANGED <<live, stored, opened, cancel_requested, lockVars, dispatch, denied, requests, owed>>

\* The turn ends and saves; the compaction it asked for runs under the lock.
TurnEnds(p) ==
    /\ prompts[p].pc = "turn"
    /\ stored' = stored \cup {prompts[p].session}
    /\ \E outcome \in {"end_turn", "max_turns", "max_tokens"}, pc \in {"compacting", "unlocking"} :
        prompts' = [prompts EXCEPT ![p].pc = pc, ![p].outcome = outcome]
    /\ UNCHANGED <<live, opened, cancel_requested, lockVars, dispatch, denied, asks, requests, owed>>

CompactionEnds(p) ==
    /\ prompts[p].pc = "compacting" /\ Step(p, "unlocking")
    /\ UNCHANGED <<live, stored, opened, cancel_requested, lockVars, dispatch, denied, asks,
                   requests, owed>>

Unlock(p) ==
    /\ prompts[p].pc = "unlocking" /\ Step(p, "ended")
    /\ holder' = [holder EXCEPT ![prompts[p].inst] = Idle]
    /\ UNCHANGED <<live, stored, opened, cancel_requested, waiters, dispatch, denied, asks,
                   requests, owed>>

\* The flag is read after the lock is released: a cancel wins over the outcome.
StopReason(p) ==
    /\ prompts[p].pc = "ended"
    /\ prompts' = [prompts EXCEPT ![p].pc = "done", ![p].outcome =
                     IF cancel_requested[prompts[p].inst] THEN "cancelled" ELSE @]
    /\ UNCHANGED <<live, stored, opened, cancel_requested, lockVars, dispatch, denied, asks,
                   requests, owed>>

AcpNext ==
    \/ \E s \in Sessions :
        \/ open_session(s) \/ set_config_option(s) \/ cancel(s)
        \/ close_session(s) \/ delete_session(s)
        \/ \E p \in Prompts : SendPrompt(p, s)
    \/ ConfigAnswered
    \/ \E p \in Prompts :
        \/ \E outcome \in {"allow", "reject", "reject-always"} : PermissionAnswered(p, outcome)
        \/ PromptStart(p) \/ PromptLocks(p)
        \/ \E key \in Tools : TurnAsks(p, key)
        \/ TurnEnds(p) \/ CompactionEnds(p) \/ Unlock(p) \/ StopReason(p)

AcpSpec == AcpInit /\ [][AcpNext]_acpVars

-----------------------------------------------------------------------------
AcpTypeOK ==
    /\ \A s \in Sessions : live[s] \in 0..opened
    /\ stored \subseteq Sessions /\ dispatch \in 0..opened /\ owed \subseteq Prompts
    /\ \A i \in Inst : holder[i] \in Prompts \cup {Idle}
                       /\ ToSet(waiters[i]) \subseteq Prompts \cup {Config}
    /\ \A p \in Prompts : prompts[p].pc \in {"unsent", "spawned", "queued", "turn", "asking",
                              "compacting", "unlocking", "ended", "done", "error"}

\* A cancel handled between the start of a prompt and its answer is what the client
\* is told, whether it found the prompt waiting for the lock, in its turn, in the
\* compaction behind it or already past the lock.
CancelReported ==
    \A p \in owed : prompts[p].pc = "done" => prompts[p].outcome = "cancelled"

\* "The dispatch loop must stay free to deliver session/cancel and the client's
\* session/request_permission response while the turn is in flight" (lib.rs): it
\* never waits for the lock a turn holds.
DispatchStaysFree ==
    \A p \in Prompts : dispatch # 0 /\ prompts[p].inst = dispatch => prompts[p].pc \notin InTurn
=============================================================================
