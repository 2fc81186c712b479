---------------------------- MODULE FrontEndProofs ----------------------------
(***************************************************************************)
(* Theorems about the two front ends: the editor's side of the agent, for  *)
(* every set of sessions and prompts, and the prompts of the terminal      *)
(* interface, for every number of them.                                    *)
(***************************************************************************)
EXTENDS AcpSession, TuiPrompts, SequenceTheorems, FiniteSetTheorems, WellFoundedInduction, TLAPS

-----------------------------------------------------------------------------
(* The editor: the inductive invariant.                                    *)

AnySession == CHOOSE s \in Sessions : TRUE
Started == InTurn \cup {"queued", "unlocking", "ended"}
PromptState == Started \cup {"unsent", "spawned", "done", "error"}
Outcome == Tools \cup {"none", "cancelled", "end_turn", "max_turns", "max_tokens"}

PromptRecords == [pc : PromptState, session : Sessions \cup {AnySession}, inst : Nat,
                  cancelled : BOOLEAN, outcome : Outcome]

AcpTypes ==
    /\ opened \in Nat /\ opened <= MaxOpens
    /\ live \in [Sessions -> Nat] /\ \A s \in Sessions : live[s] <= opened
    /\ cancel_requested \in [Inst -> BOOLEAN]
    /\ prompts \in [Prompts -> PromptRecords]
    /\ owed \in SUBSET Prompts

(* A prompt has an instance once its task has started, which is one of the *)
(* session it was sent to.                                                 *)
Placed ==
    /\ \A p \in Prompts : /\ prompts[p].inst <= opened
                          /\ prompts[p].pc \in Started => prompts[p].inst # 0
                          /\ prompts[p].pc \in {"unsent", "spawned"} => prompts[p].inst = 0
                          /\ prompts[p].pc # "unsent" => prompts[p].session \in Sessions
    /\ \A p \in Prompts, s \in Sessions :
          prompts[p].inst # 0 /\ live[s] = prompts[p].inst => prompts[p].session = s
    /\ \A s, t \in Sessions : live[s] = live[t] /\ live[s] # 0 => s = t

(* The client awaits the answer of a prompt.                               *)
OneOutstanding ==
    \A p, q \in Prompts :
       Outstanding(p) /\ Outstanding(q) /\ prompts[p].session = prompts[q].session => p = q

(* The flag of a prompt that was cancelled stays until its answer.         *)
FlagKept ==
    \A p \in owed :
       /\ prompts[p].pc \in Started \cup {"done"}
       /\ prompts[p].pc \in Started => cancel_requested[prompts[p].inst]
       /\ prompts[p].pc = "done" => prompts[p].outcome = "cancelled"

AcpInv == AcpTypes /\ Placed /\ OneOutstanding /\ FlagKept

(* A step of a prompt's task that leaves the flags alone.                  *)
TaskStep(p, pc) ==
    /\ UNCHANGED <<opened, live, cancel_requested, owed>>
    /\ prompts[p].pc \in Started /\ pc \in Started \cup {"done"}
    /\ prompts' \in [Prompts -> PromptRecords]
    /\ \A q \in Prompts : q # p => prompts'[q] = prompts[q]
    /\ prompts'[p].pc = pc
    /\ prompts'[p].session = prompts[p].session /\ prompts'[p].inst = prompts[p].inst
    /\ pc = "done" /\ cancel_requested[prompts[p].inst] => prompts'[p].outcome = "cancelled"

LEMMA States ==
  /\ \A pc \in {"unsent", "spawned", "done", "error"} : pc \notin Started
  /\ \A pc \in {"queued", "turn", "asking", "compacting", "unlocking", "ended"} : pc \in Started
  BY DEF Started, InTurn

LEMMA TaskKeeps ==
  ASSUME AcpInv, NEW p \in Prompts, NEW pc, TaskStep(p, pc)
  PROVE  AcpInv'
<1> USE States DEF AcpInv, AcpTypes, Placed, OneOutstanding, FlagKept
<1>1. /\ \A q \in Prompts : prompts'[q].session = prompts[q].session /\ prompts'[q].inst = prompts[q].inst
      /\ \A q \in Prompts : q # p => prompts'[q] = prompts[q]
      /\ prompts'[p].pc = pc /\ prompts[p].pc \in Started /\ pc \in Started \cup {"done"}
      /\ pc = "done" /\ cancel_requested[prompts[p].inst] => prompts'[p].outcome = "cancelled"
      /\ UNCHANGED <<opened, live, cancel_requested, owed>>
  BY DEF TaskStep
<1>2. AcpTypes'
  BY DEF TaskStep
<1>3. Placed'
  BY <1>1
<1>4. OneOutstanding'
  <2>1. \A q \in Prompts : Outstanding(q)' => Outstanding(q)
    BY <1>1 DEF Outstanding
  <2> QED
    BY <1>1, <2>1
<1>5. FlagKept'
  BY <1>1
<1> QED
  BY <1>2, <1>3, <1>4, <1>5

\* What a step writes of a prompt.
LEMMA Written ==
  ASSUME AcpTypes, NEW p \in Prompts, NEW pc \in PromptState, NEW outcome \in Outcome,
         prompts' = [prompts EXCEPT ![p].pc = pc, ![p].outcome = outcome]
  PROVE  /\ prompts' \in [Prompts -> PromptRecords]
         /\ \A q \in Prompts : q # p => prompts'[q] = prompts[q]
         /\ prompts'[p].pc = pc /\ prompts'[p].outcome = outcome
         /\ prompts'[p].session = prompts[p].session /\ prompts'[p].inst = prompts[p].inst
<1>1. prompts \in [Prompts -> PromptRecords]
  BY DEF AcpTypes
<1>2. prompts[p] \in PromptRecords /\ prompts'[p] = [prompts[p] EXCEPT !.pc = pc, !.outcome = outcome]
  BY ONLY <1>1, prompts' = [prompts EXCEPT ![p].pc = pc, ![p].outcome = outcome], p \in Prompts
<1>3. /\ prompts'[p] \in PromptRecords /\ prompts'[p].pc = pc /\ prompts'[p].outcome = outcome
      /\ prompts'[p].session = prompts[p].session /\ prompts'[p].inst = prompts[p].inst
  BY ONLY <1>2, pc \in PromptState, outcome \in Outcome DEF PromptRecords
<1>4. prompts' = [prompts EXCEPT ![p] = prompts'[p]]
  BY ONLY <1>1, <1>2, prompts' = [prompts EXCEPT ![p].pc = pc, ![p].outcome = outcome], p \in Prompts
<1> QED
  BY ONLY <1>1, <1>3, <1>4, p \in Prompts

\* Every step of a prompt's turn, of its answer and of its permissions is one of those.
LEMMA TaskSteps ==
  ASSUME AcpTypes, NEW p \in Prompts,
         \/ \E outcome \in {"allow", "reject", "reject-always"} : PermissionAnswered(p, outcome)
         \/ PromptLocks(p) \/ \E key \in Tools : TurnAsks(p, key)
         \/ TurnEnds(p) \/ CompactionEnds(p) \/ Unlock(p) \/ StopReason(p)
  PROVE  \E pc : TaskStep(p, pc) /\ pc # "queued"
<1> USE DEF AcpTypes, PromptRecords, PromptState, Started, InTurn, Outcome, TaskStep, Step
<1>1. ASSUME NEW outcome \in {"allow", "reject", "reject-always"}, PermissionAnswered(p, outcome)
      PROVE  TaskStep(p, "turn")
  BY <1>1 DEF PermissionAnswered
<1>2. ASSUME PromptLocks(p) PROVE TaskStep(p, "turn")
  BY <1>2 DEF PromptLocks
<1>3. ASSUME NEW key \in Tools, TurnAsks(p, key) PROVE TaskStep(p, "asking")
  <2>1. prompts' = [prompts EXCEPT ![p].pc = "asking", ![p].outcome = key]
    BY <1>3 DEF TurnAsks
  <2>2. "asking" \in PromptState /\ key \in Outcome
    OBVIOUS
  <2>3. /\ prompts' \in [Prompts -> PromptRecords]
        /\ \A q \in Prompts : q # p => prompts'[q] = prompts[q]
        /\ prompts'[p].pc = "asking"
        /\ prompts'[p].session = prompts[p].session /\ prompts'[p].inst = prompts[p].inst
    BY ONLY AcpTypes, p \in Prompts, <2>1, <2>2, Written
  <2> QED
    BY ONLY <1>3, <2>3 DEF TurnAsks, TaskStep, Started, InTurn
<1>4. ASSUME TurnEnds(p) PROVE \E pc : TaskStep(p, pc) /\ pc # "queued"
  <2>1. PICK outcome \in {"end_turn", "max_turns", "max_tokens"}, pc \in {"compacting", "unlocking"} :
           prompts' = [prompts EXCEPT ![p].pc = pc, ![p].outcome = outcome]
    BY <1>4 DEF TurnEnds
  <2>2. pc \in PromptState /\ outcome \in Outcome
    BY <2>1
  <2>3. /\ prompts' \in [Prompts -> PromptRecords]
        /\ \A q \in Prompts : q # p => prompts'[q] = prompts[q]
        /\ prompts'[p].pc = pc
        /\ prompts'[p].session = prompts[p].session /\ prompts'[p].inst = prompts[p].inst
    BY ONLY AcpTypes, p \in Prompts, <2>1, <2>2, Written
  <2>4. TaskStep(p, pc)
    BY ONLY <1>4, <2>3, pc \in {"compacting", "unlocking"}
       DEF TurnEnds, TaskStep, Started, InTurn
  <2> QED
    BY <2>1, <2>4
<1>5. ASSUME CompactionEnds(p) PROVE TaskStep(p, "unlocking")
  BY <1>5 DEF CompactionEnds
<1>6. ASSUME Unlock(p) PROVE TaskStep(p, "ended")
  BY <1>6 DEF Unlock
<1>7. ASSUME StopReason(p) PROVE TaskStep(p, "done")
  <2>1. PICK told \in Outcome :
           told = IF cancel_requested[prompts[p].inst] THEN "cancelled" ELSE prompts[p].outcome
    BY DEF Outcome
  <2>2. prompts' = [prompts EXCEPT ![p].pc = "done", ![p].outcome = told]
    BY ONLY <1>7, <2>1 DEF StopReason
  <2>3. "done" \in PromptState
    OBVIOUS
  <2>4. /\ prompts' \in [Prompts -> PromptRecords]
        /\ \A q \in Prompts : q # p => prompts'[q] = prompts[q]
        /\ prompts'[p].pc = "done" /\ prompts'[p].outcome = told
        /\ prompts'[p].session = prompts[p].session /\ prompts'[p].inst = prompts[p].inst
    BY ONLY AcpTypes, p \in Prompts, told \in Outcome, <2>2, <2>3, Written
  <2> QED
    BY ONLY <1>7, <2>1, <2>4 DEF StopReason, TaskStep, Started, InTurn
<1> QED
  BY <1>1, <1>2, <1>3, <1>4, <1>5, <1>6, <1>7

-----------------------------------------------------------------------------
\* A task that starts clears a flag no other prompt of its instance still needs.
LEMMA StartStep ==
  ASSUME AcpInv, NEW p \in Prompts, PromptStart(p)
  PROVE  AcpInv'
<1> USE AcpAssumption, States DEF AcpInv, AcpTypes, Placed, OneOutstanding, FlagKept
<1> DEFINE i == live[prompts[p].session]
<1>1. /\ prompts[p].pc = "spawned" /\ prompts[p].inst = 0 /\ p \notin owed /\ Outstanding(p)
      /\ UNCHANGED <<live, opened, owed>> /\ i \in Nat /\ i <= opened
  BY DEF PromptStart, Outstanding
<1>2. CASE i = 0
  <2>1. prompts' = [prompts EXCEPT ![p].pc = "error"] /\ UNCHANGED cancel_requested
    BY <1>2 DEF PromptStart, Step
  <2>2. /\ \A q \in Prompts : /\ prompts'[q].session = prompts[q].session
                              /\ prompts'[q].inst = prompts[q].inst
                              /\ q # p => prompts'[q] = prompts[q]
        /\ prompts'[p].pc = "error"
    BY <2>1 DEF PromptRecords
  <2>3. AcpTypes'
    BY <1>1, <2>1 DEF PromptRecords, PromptState
  <2>4. Placed'
    BY <1>1, <2>2
  <2>5. OneOutstanding'
    <3>1. \A q \in Prompts : Outstanding(q)' => Outstanding(q)
      BY <2>2 DEF Outstanding
    <3> QED
      BY <2>2, <3>1
  <2>6. FlagKept'
    BY <1>1, <2>1, <2>2
  <2> QED
    BY <2>3, <2>4, <2>5, <2>6
<1>3. CASE i # 0
  <2>1. /\ prompts' = [prompts EXCEPT ![p].pc = "queued", ![p].inst = i]
        /\ cancel_requested' = [cancel_requested EXCEPT ![i] = FALSE]
    BY <1>3 DEF PromptStart
  <2>2. /\ \A q \in Prompts : /\ prompts'[q].session = prompts[q].session
                              /\ q # p => prompts'[q] = prompts[q]
        /\ prompts'[p].pc = "queued" /\ prompts'[p].inst = i
    BY <2>1 DEF PromptRecords
  <2>3. AcpTypes'
    <3>1. prompts' \in [Prompts -> PromptRecords]
      <4>1. \A x \in PromptRecords : [[x EXCEPT !.pc = "queued"] EXCEPT !.inst = i] \in PromptRecords
        BY ONLY <1>1, States DEF PromptRecords, PromptState
      <4> QED
        BY <2>1, <4>1
    <3>2. cancel_requested' \in [Inst -> BOOLEAN]
      BY <2>1
    <3> QED
      BY <1>1, <3>1, <3>2
  <2>4. Placed'
    BY <1>1, <1>3, <2>2
  <2>5. OneOutstanding'
    <3>1. \A q \in Prompts : Outstanding(q)' => Outstanding(q)
      BY <1>1, <2>2 DEF Outstanding
    <3> QED
      BY <2>2, <3>1
  <2>6. FlagKept'
    <3>1. ASSUME NEW q \in owed, prompts[q].pc \in Started PROVE prompts[q].inst # i
      <4>1. q # p /\ Outstanding(q) /\ q \in Prompts
        BY <1>1, <3>1 DEF Outstanding
      <4>2. prompts[q].session # prompts[p].session
        BY <1>1, <4>1
      <4> QED
        BY <1>1, <1>3, <4>1, <4>2
    <3>2. \A q \in owed : q # p /\ prompts'[q] = prompts[q]
      BY <1>1, <2>2
    <3>3. \A q \in owed : prompts[q].pc \in Started => prompts[q].inst \in Inst
      BY DEF Inst, PromptRecords
    <3> QED
      BY <1>1, <2>1, <3>1, <3>2, <3>3
  <2> QED
    BY <2>3, <2>4, <2>5, <2>6
<1> QED
  BY <1>2, <1>3

\* A cancel raises the flag of the instance for every prompt it is owed to.
LEMMA CancelStep ==
  ASSUME AcpInv, NEW s \in Sessions, cancel(s)
  PROVE  AcpInv'
<1> USE AcpAssumption, States DEF AcpInv, AcpTypes, Placed, OneOutstanding, FlagKept
<1> DEFINE mine == {p \in Prompts : prompts[p].inst = live[s]}
<1>1. /\ cancel_requested' = [cancel_requested EXCEPT ![live[s]] = TRUE]
      /\ prompts' = [p \in Prompts |-> IF p \in mine /\ prompts[p].pc \in InTurn
                             THEN [prompts[p] EXCEPT !.cancelled = TRUE] ELSE prompts[p]]
      /\ owed' = owed \cup {p \in mine : prompts[p].pc \in Started}
      /\ UNCHANGED <<live, opened>> /\ live[s] \in Inst
  BY DEF cancel, Started, Inst
<1>2. /\ prompts' \in [Prompts -> PromptRecords]
      /\ \A p \in Prompts : /\ prompts'[p].pc = prompts[p].pc /\ prompts'[p].inst = prompts[p].inst
                             /\ prompts'[p].session = prompts[p].session
                             /\ prompts'[p].outcome = prompts[p].outcome
  <2>1. \A x \in PromptRecords : LET y == [x EXCEPT !.cancelled = TRUE]
                                IN  /\ y \in PromptRecords /\ y.pc = x.pc /\ y.inst = x.inst
                                    /\ y.session = x.session /\ y.outcome = x.outcome
    BY ONLY DEF PromptRecords
  <2>2. \A p \in Prompts : prompts[p] \in PromptRecords
                /\ prompts'[p] \in {prompts[p], [prompts[p] EXCEPT !.cancelled = TRUE]}
    BY <1>1
  <2>3. prompts' \in [Prompts -> PromptRecords]
    BY <1>1, <2>1
  <2>4. ASSUME NEW p \in Prompts
        PROVE  /\ prompts'[p].pc = prompts[p].pc /\ prompts'[p].inst = prompts[p].inst
               /\ prompts'[p].session = prompts[p].session
               /\ prompts'[p].outcome = prompts[p].outcome
    BY ONLY <2>1, <2>2, p \in Prompts
  <2> QED
    BY <2>3, <2>4
<1>3. AcpTypes'
  BY <1>1, <1>2
<1>4. Placed'
  BY <1>1, <1>2
<1>5. OneOutstanding'
  BY <1>2 DEF Outstanding
<1>6. FlagKept'
  <2>1. ASSUME NEW p \in owed'
        PROVE  /\ prompts[p].pc \in Started \cup {"done"}
               /\ prompts[p].pc \in Started => cancel_requested'[prompts[p].inst]
               /\ prompts[p].pc = "done" => prompts[p].outcome = "cancelled"
    <3>1. CASE p \in owed
      <4>1. prompts[p].pc \in Started => prompts[p].inst \in Inst
        BY <3>1 DEF Inst, PromptRecords
      <4> QED
        BY <1>1, <3>1, <4>1
    <3>2. CASE p \in mine /\ prompts[p].pc \in Started
      BY <1>1, <3>2
    <3> QED
      BY <1>1, <2>1, <3>1, <3>2
  <2> QED
    BY <1>1, <1>2, <1>3, <2>1
<1> QED
  BY <1>3, <1>4, <1>5, <1>6

\* A prompt is sent when the client awaits none of its session.
LEMMA SendStep ==
  ASSUME OnePrompt, AcpInv, NEW p \in Prompts, NEW s \in Sessions, SendPrompt(p, s)
  PROVE  AcpInv'
<1> USE AcpAssumption, States DEF AcpInv, AcpTypes, Placed, OneOutstanding, FlagKept
<1>1. /\ prompts' = [prompts EXCEPT ![p].pc = "spawned", ![p].session = s]
      /\ \A q \in Prompts : Outstanding(q) => prompts[q].session # s
      /\ UNCHANGED <<live, opened, cancel_requested, owed>>
      /\ prompts[p].pc = "unsent" /\ prompts[p].inst = 0 /\ p \notin owed
  BY DEF SendPrompt
<1>2. /\ \A q \in Prompts : q # p => prompts'[q] = prompts[q]
      /\ prompts'[p].pc = "spawned" /\ prompts'[p].inst = 0 /\ prompts'[p].session = s
  BY <1>1 DEF PromptRecords
<1>3. AcpTypes'
  <2>1. \A x \in PromptRecords : [[x EXCEPT !.pc = "spawned"] EXCEPT !.session = s] \in PromptRecords
    BY ONLY s \in Sessions DEF PromptRecords, PromptState
  <2>2. prompts' \in [Prompts -> PromptRecords]
    BY <1>1, <2>1
  <2> QED
    BY <1>1, <2>2
<1>4. Placed'
  BY <1>1, <1>2
<1>5. OneOutstanding'
  <2>1. \A q \in Prompts : q # p /\ Outstanding(q)' => Outstanding(q) /\ prompts'[q] = prompts[q]
    BY <1>2 DEF Outstanding
  <2> QED
    BY <1>1, <1>2, <2>1
<1>6. FlagKept'
  BY <1>1, <1>2
<1> QED
  BY <1>3, <1>4, <1>5, <1>6

\* Opening and closing a session only change what its id names.
LEMMA OpenStep ==
  ASSUME AcpInv, UNCHANGED <<cancel_requested, prompts, owed>>,
         \/ UNCHANGED <<live, opened>>
         \/ \E s \in Sessions : live' = [live EXCEPT ![s] = 0] /\ UNCHANGED opened
         \/ \E s \in Sessions : /\ opened < MaxOpens /\ opened' = opened + 1
                                /\ live' = [live EXCEPT ![s] = opened + 1]
  PROVE  AcpInv'
<1> USE AcpAssumption DEF AcpInv, AcpTypes, Placed, OneOutstanding, FlagKept, Outstanding
<1>1. CASE UNCHANGED <<live, opened>>
  BY <1>1
<1>2. ASSUME NEW s \in Sessions, live' = [live EXCEPT ![s] = 0], UNCHANGED opened PROVE AcpInv'
  BY <1>2
<1>3. ASSUME NEW s \in Sessions, opened < MaxOpens, opened' = opened + 1,
             live' = [live EXCEPT ![s] = opened + 1]
      PROVE  AcpInv'
  <2>1. \A p \in Prompts : prompts[p].inst \in Nat /\ prompts[p].inst # opened + 1
    BY DEF PromptRecords
  <2>2. \A t \in Sessions : live[t] \in Nat /\ live[t] # opened + 1
    OBVIOUS
  <2>3. AcpTypes'
    BY <1>3
  <2>4. Placed'
    BY <1>3, <2>1, <2>2
  <2> QED
    BY <2>3, <2>4
<1> QED
  BY <1>1, <1>2, <1>3

LEMMA AcpStep ==
  ASSUME OnePrompt, AcpInv, [AcpNext]_acpVars
  PROVE  AcpInv'
<1>1. ASSUME NEW s \in Sessions,
             \/ open_session(s) \/ set_config_option(s) \/ close_session(s) \/ delete_session(s)
      PROVE  AcpInv'
  BY <1>1, OpenStep DEF open_session, set_config_option, close_session, delete_session, acpTurnVars
<1>2. CASE ConfigAnswered \/ UNCHANGED acpVars
  BY <1>2, OpenStep DEF ConfigAnswered, acpVars, acpTurnVars
<1>3. ASSUME NEW p \in Prompts,
             \/ \E outcome \in {"allow", "reject", "reject-always"} : PermissionAnswered(p, outcome)
             \/ PromptLocks(p) \/ \E key \in Tools : TurnAsks(p, key)
             \/ TurnEnds(p) \/ CompactionEnds(p) \/ Unlock(p) \/ StopReason(p)
      PROVE  AcpInv'
  <2>1. AcpTypes
    BY DEF AcpInv
  <2> QED
    BY <1>3, <2>1, TaskSteps, TaskKeeps
<1> QED
  BY <1>1, <1>2, <1>3, CancelStep, SendStep, StartStep DEF AcpNext

\* While the client awaits each prompt before it sends the session's next, a cancel
\* handled between a prompt's start and its answer is the answer.
THEOREM CancelsReported ==
  ASSUME OnePrompt
  PROVE  AcpSpec => []CancelReported
<1>1. AcpInit => AcpInv
  <2> SUFFICES ASSUME AcpInit PROVE AcpInv
    OBVIOUS
  <2> USE AcpAssumption, States DEF AcpInit
  <2>1. AcpTypes
    BY DEF AcpTypes, PromptRecords, PromptState, Outcome, AnySession
  <2>2. \A p \in Prompts : prompts[p].pc = "unsent" /\ prompts[p].inst = 0
    OBVIOUS
  <2>3. Placed
    BY <2>2 DEF Placed
  <2>4. OneOutstanding
    BY <2>2 DEF OneOutstanding, Outstanding
  <2>5. FlagKept
    BY DEF FlagKept
  <2> QED
    BY <2>1, <2>3, <2>4, <2>5 DEF AcpInv
<1>2. AcpInv /\ [AcpNext]_acpVars => AcpInv'
  BY AcpStep
<1>3. AcpInv => CancelReported
  BY DEF AcpInv, FlagKept, CancelReported
<1> QED
  BY <1>1, <1>2, <1>3, PTL DEF AcpSpec

-----------------------------------------------------------------------------
(* The terminal interface: the inductive invariant.                        *)

UiRecord == [items : [PromptIds -> Status], next_prompt_id : Nat \ {0}, pending : Seq(PromptIds),
             active : PromptIds \cup {NoPrompt}, phase : {"Idle", "Busy", "AbortPending"},
             input_locked : BOOLEAN, active_cycle : BOOLEAN, armed : BOOLEAN,
             arm : {"none", "live", "expired"}, settle_notice : BOOLEAN,
             card : PromptIds \cup {NoPrompt}, immediate : BOOLEAN, cancel : BOOLEAN,
             out : Seq(PromptIds)]

LoopEvents == [type : {"PromptSubmitted", "PermissionDecision"}, turn : PromptIds]
                  \cup [type : {"CancelRequested"}, turn : {NoPrompt}]
UiEvents == [type : {"InferenceStarted", "PermissionRequested", "PermissionDecisionTimedOut",
                     "TurnCompleted", "TurnError"}, turn : PromptIds]

ChannelTypes ==
    /\ to_loop \in Seq(LoopEvents) /\ commands \in Seq(PromptIds) /\ results \in Seq(PromptIds)
    /\ ui_events \in Seq(UiEvents)
    /\ running \in [turn : PromptIds, begun : BOOLEAN, cancelled : BOOLEAN] \cup {NoTurn}
    /\ request \in [PromptIds -> {"none", "asked", "ended"}]
    /\ extras \in Nat

Has(s, e) == \E i \in DOMAIN s : s[i] = e

(* A prompt is queued while it waits, in progress while it is active, and  *)
(* unknown before it was submitted.                                        *)
QueueShape(u) ==
    /\ \A i, j \in DOMAIN u.pending : u.pending[i] = u.pending[j] => i = j
    /\ \A p \in PromptIds :
           /\ u.items[p] = "Queued" <=> Has(u.pending, p)
           /\ u.items[p] = "InProgress" <=> u.active = p
           /\ u.next_prompt_id <= p => u.items[p] = "none"

QueueOK(u) == u \in UiRecord /\ QueueShape(u)

Left(u) == {p \in PromptIds : u.items[p] \in {"InProgress", "Done"}}
SentInv == sent = [p \in PromptIds |-> IF p \in Left(ui) THEN 1 ELSE 0]

(* The end of a turn that has been submitted is ahead of the interface; k  *)
(* events of the bus have been looked at.                                  *)
Ends == {"TurnCompleted", "TurnError"}
Ahead(p, k) ==
    \/ Has(to_loop, [type |-> "PromptSubmitted", turn |-> p])
    \/ Has(commands, p)
    \/ running.turn = p
    \/ Has(results, p)
    \/ \E i \in DOMAIN ui_events : i > k /\ ui_events[i].turn = p /\ ui_events[i].type \in Ends

ActiveAhead(u, k) == u.active # NoPrompt => Ahead(u.active, k)
ActiveInv == ActiveAhead(ui, 0) /\ (ui.pending # <<>> => ui.active # NoPrompt)

(* The card of a request that is over has an event ahead that takes it     *)
(* down; the events of a request come in order, and the answer of the user *)
(* after its card is gone.                                                 *)
Asks(p, i) == ui_events[i].turn = p /\ ui_events[i].type = "PermissionRequested"
Decided(p) == Has(to_loop, [type |-> "PermissionDecision", turn |-> p])
Open(p, k) ==
    \/ request[p] = "asked"
    \/ Has(results, p)
    \/ \E i \in DOMAIN ui_events : /\ i > k /\ ui_events[i].turn = p
                                   /\ ui_events[i].type \in Ends \cup {"PermissionDecisionTimedOut"}

CardOK(card, k) ==
    card # NoPrompt =>
        /\ request[card] # "none" /\ ~Decided(card) /\ Open(card, k)
        /\ \A i \in DOMAIN ui_events : i > k => ~Asks(card, i)
RequestInv ==
    \A p \in PromptIds :
        /\ Decided(p) => request[p] # "none"
        /\ \A i \in DOMAIN ui_events : Asks(p, i) =>
               /\ request[p] # "none" /\ ~Decided(p) /\ Open(p, i)
               /\ \A j \in DOMAIN ui_events : Asks(p, j) => j = i

TuiInv == QueueOK(ui) /\ ChannelTypes /\ SentInv /\ ActiveInv /\ CardOK(ui.card, 0) /\ RequestInv

(* The interface after k events of a batch.                                *)
BatchInv(u, k) ==
    QueueOK(u) /\ Left(u) = Left(ui) /\ ActiveAhead(u, k) /\ CardOK(u.card, k)

\* The least number of a set.
LEMMA LeastNumber ==
  ASSUME NEW S \in SUBSET Nat, S # {}
  PROVE  \E m \in S : \A x \in S : m <= x
<1>1. PICK m \in S : \A x \in S : <<x, m>> \notin OpToRel(<, Nat)
  BY WFMin, NatLessThanWellFounded, Zenon
<1>2. \A x \in S : ~(x < m)
  BY <1>1, Zenon DEF OpToRel
<1> QED
  BY <1>2

\* Induction for a set of numbers.
LEMMA EveryNumber ==
  ASSUME NEW S \in SUBSET Nat, 0 \in S, \A n \in S : n + 1 \in S
  PROVE  \A n \in Nat : n \in S
<1> DEFINE Rest == Nat \ S
<1>1. ASSUME Rest # {} PROVE FALSE
  <2> HIDE DEF Rest
  <2>0. Rest \in SUBSET Nat
    BY DEF Rest
  <2>1. PICK m \in Rest : \A x \in Rest : m <= x
    BY <1>1, <2>0, LeastNumber
  <2>2. m \in Nat /\ m \notin S /\ m # 0
    BY <2>1 DEF Rest
  <2>3. m - 1 \in Nat /\ ~(m <= m - 1) /\ (m - 1) + 1 = m
    BY <2>2
  <2>4. m - 1 \in S
    BY <2>1, <2>3 DEF Rest
  <2> QED
    BY <2>2, <2>3, <2>4
<1> QED
  BY <1>1

LEMMA LargestNumber ==
  ASSUME NEW n \in Nat, NEW s \in SUBSET (1..n), n \in s
  PROVE  Max(s) = n
<1>1. \A y \in s : y \in Int /\ n >= y
  OBVIOUS
<1>2. \E x \in s : \A y \in s : x >= y
  BY <1>1
<1>3. Max(s) \in s /\ \A y \in s : Max(s) >= y
  BY <1>2, Zenon DEF Max
<1>4. \A m : m \in s /\ (\A y \in s : m >= y) => m = n
  BY <1>1
<1> QED
  BY <1>3, <1>4, Zenon

-----------------------------------------------------------------------------
(* The operators on sequences: a batch is reduced event by event, and the  *)
(* prompts in progress are found one by one.                               *)

Batch(u, msgs) == FoldLeft(reduce_event, u, msgs)
BatchIterates(h, u, msgs, n) ==
  h = [s \in SUBSET (1..n) |-> IF s = {} THEN u ELSE reduce_event(h[s \ {Max(s)}], msgs[Max(s)])]

LEMMA BatchIter ==
  ASSUME NEW u, NEW msgs, NEW n, DOMAIN msgs = 1..n, \E g : BatchIterates(g, u, msgs, n)
  PROVE  \E h : BatchIterates(h, u, msgs, n) /\ Batch(u, msgs) = h[1..n]
<1>1. PICK g : BatchIterates(g, u, msgs, n)
  OBVIOUS
<1> QED
  BY <1>1, Zenon DEF Batch, FoldLeft, MapThenFoldSet, BatchIterates

LEMMA BatchIteratesExist ==
  ASSUME NEW u, NEW msgs, NEW n \in Nat
  PROVE  \E g : BatchIterates(g, u, msgs, n)
<1> DEFINE P == {k \in Nat : \E g : BatchIterates(g, u, msgs, k)}
<1> HIDE DEF P
<1>1. 0 \in P
  <2>1. PICK g : g = [s \in SUBSET (1..0) |-> u]
    OBVIOUS
  <2>2. 1..0 = {}
    OBVIOUS
  <2>3. \A s \in SUBSET (1..0) : s = {}
    BY <2>2
  <2>4. BatchIterates(g, u, msgs, 0)
    BY <2>1, <2>3, Zenon DEF BatchIterates
  <2> QED
    BY <2>4 DEF P
<1>2. ASSUME NEW k \in P PROVE k + 1 \in P
  <2>0. k \in Nat
    BY DEF P
  <2>1. PICK h : BatchIterates(h, u, msgs, k)
    BY DEF P
  <2>2. PICK g : g = [s \in SUBSET (1..(k + 1)) |->
                        IF k + 1 \in s THEN reduce_event(h[s \ {k + 1}], msgs[k + 1]) ELSE h[s]]
    OBVIOUS
  <2>3. \A s \in SUBSET (1..(k + 1)) : k + 1 \notin s => s \in SUBSET (1..k)
    <3>1. \A x \in 1..(k + 1) : x # k + 1 => x \in 1..k
      BY <2>0
    <3> QED
      BY <3>1
  <2>4. \A s \in SUBSET (1..k) :
            h[s] = IF s = {} THEN u ELSE reduce_event(h[s \ {Max(s)}], msgs[Max(s)])
    BY <2>1, Zenon DEF BatchIterates
  <2>5. ASSUME NEW s \in SUBSET (1..(k + 1))
        PROVE  g[s] = IF s = {} THEN u ELSE reduce_event(g[s \ {Max(s)}], msgs[Max(s)])
    <3>1. CASE k + 1 \in s
      <4>1. Max(s) = k + 1 /\ s # {}
        BY <2>0, <3>1, LargestNumber
      <4>2. s \ {k + 1} \in SUBSET (1..(k + 1)) /\ k + 1 \notin s \ {k + 1}
        OBVIOUS
      <4>3. g[s \ {k + 1}] = h[s \ {k + 1}]
        BY <2>2, <4>2, Zenon
      <4>4. g[s] = reduce_event(h[s \ {k + 1}], msgs[k + 1])
        BY <2>2, <3>1, Zenon
      <4> QED
        BY <4>1, <4>3, <4>4, Zenon
    <3>2. CASE k + 1 \notin s
      <4>1. s \in SUBSET (1..k) /\ g[s] = h[s]
        BY <2>2, <2>3, <3>2, Zenon
      <4>2. CASE s = {}
        BY <4>1, <4>2, <2>4, Zenon
      <4>3. CASE s # {}
        <5>1. s \ {Max(s)} \in SUBSET (1..(k + 1)) /\ k + 1 \notin s \ {Max(s)}
          BY <3>2
        <5>2. g[s \ {Max(s)}] = h[s \ {Max(s)}]
          BY <2>2, <5>1, Zenon
        <5> QED
          BY <4>1, <4>3, <5>2, <2>4, Zenon
      <4> QED
        BY <4>2, <4>3
    <3> QED
      BY <3>1, <3>2
  <2>6. BatchIterates(g, u, msgs, k + 1)
    BY <2>2, <2>5, Zenon DEF BatchIterates
  <2> QED
    BY <2>0, <2>6 DEF P
<1>3. P \in SUBSET Nat
  BY DEF P
<1>4. n \in P
  BY <1>1, <1>2, <1>3, EveryNumber
<1> QED
  BY <1>4 DEF P

\* A batch is reduced from its first event to its last.
LEMMA BatchSteps ==
  ASSUME NEW u, NEW msgs, NEW n \in Nat, DOMAIN msgs = 1..n
  PROVE  \E g : /\ g[0] = u
                /\ \A k \in 1..n : g[k] = reduce_event(g[k - 1], msgs[k])
                /\ Batch(u, msgs) = g[n]
<1>1. PICK h : BatchIterates(h, u, msgs, n) /\ Batch(u, msgs) = h[1..n]
  BY BatchIteratesExist, BatchIter, Zenon
<1>2. PICK g : g = [k \in 0..n |-> h[1..k]]
  OBVIOUS
<1>3. \A s \in SUBSET (1..n) :
          h[s] = IF s = {} THEN u ELSE reduce_event(h[s \ {Max(s)}], msgs[Max(s)])
  BY <1>1, Zenon DEF BatchIterates
<1>4. g[0] = u
  <2>1. 1..0 = {} /\ 0 \in 0..n
    OBVIOUS
  <2>2. {} \in SUBSET (1..n)
    OBVIOUS
  <2> QED
    BY <1>2, <1>3, <2>1, <2>2, Zenon
<1>5. ASSUME NEW k \in 1..n PROVE g[k] = reduce_event(g[k - 1], msgs[k])
  <2>1. k \in Nat /\ k \in 0..n /\ k - 1 \in 0..n /\ 1..k \in SUBSET (1..n) /\ 1..k # {} /\ k \in 1..k
    OBVIOUS
  <2>2. Max(1..k) = k
    BY <2>1, LargestNumber
  <2>3. (1..k) \ {k} = 1..(k - 1)
    OBVIOUS
  <2> QED
    BY <1>2, <1>3, <2>1, <2>2, <2>3, Zenon
<1>6. n \in 0..n
  OBVIOUS
<1> QED
  BY <1>1, <1>2, <1>4, <1>5, <1>6, Zenon

-----------------------------------------------------------------------------
(* The methods of AppState.                                                *)

\* While the active prompt is the one in progress, there is nothing to enforce.
LEMMA EnforceSame ==
  ASSUME NEW u \in UiRecord, QueueShape(u)
  PROVE  enforce_single_active_invariant(u) = u
<1> DEFINE busy == {p \in PromptIds : u.items[p] = "InProgress"}
<1>1. \A p \in PromptIds : u.items[p] = "InProgress" <=> u.active = p
  BY DEF QueueShape
<1>2. busy = {} \/ busy = {u.active}
  BY <1>1
<1>3. ~(Cardinality(busy) > 1)
  <2>1. Cardinality({}) = 0 /\ Cardinality({u.active}) = 1
    BY FS_EmptySet, FS_Singleton
  <2> QED
    BY <1>2, <2>1
<1>4. enforce_single_active_invariant(u) =
          IF u.active = NoPrompt THEN u ELSE [u EXCEPT !.items[u.active] = "InProgress"]
  BY <1>3, Zenon DEF enforce_single_active_invariant
<1>5. u.active # NoPrompt => u.active \in PromptIds /\ u.items[u.active] = "InProgress"
  BY <1>1 DEF UiRecord
<1>6. u.active # NoPrompt => [u EXCEPT !.items[u.active] = "InProgress"] = u
  <2> SUFFICES ASSUME u.active # NoPrompt PROVE [u EXCEPT !.items[u.active] = "InProgress"] = u
    OBVIOUS
  <2>1. u.items \in [PromptIds -> Status]
    BY DEF UiRecord
  <2>2. [u.items EXCEPT ![u.active] = "InProgress"] = u.items
    BY <1>5, <2>1
  <2> QED
    BY <2>2 DEF UiRecord
<1> QED
  BY <1>4, <1>6

\* The prompts, the card and what leaves are those of u.
SamePrompts(v, u) ==
    /\ v \in UiRecord /\ v.items = u.items /\ v.next_prompt_id = u.next_prompt_id
    /\ v.pending = u.pending /\ v.active = u.active /\ v.card = u.card
    /\ v.cancel = u.cancel /\ v.immediate = u.immediate /\ v.out = u.out

LEMMA SameShape ==
  ASSUME NEW u, NEW v, QueueOK(u), SamePrompts(v, u)
  PROVE  QueueOK(v) /\ Left(v) = Left(u)
<1>0. v.pending = u.pending /\ v.items = u.items /\ v.active = u.active
      /\ v.next_prompt_id = u.next_prompt_id
  BY DEF SamePrompts
<1>1. QueueShape(v)
  BY <1>0 DEF QueueOK, QueueShape
<1> QED
  BY <1>1 DEF QueueOK, SamePrompts, Left

LEMMA AbortSame ==
  ASSUME NEW u \in UiRecord
  PROVE  SamePrompts(disarm_abort(u), u) /\ SamePrompts(reset_abort(u), u) /\ SamePrompts(Settled(u), u)
<1>1. SamePrompts(disarm_abort(u), u)
  BY DEF disarm_abort, UiRecord, SamePrompts
<1>2. SamePrompts(reset_abort(u), u)
  BY DEF reset_abort, disarm_abort, UiRecord, SamePrompts
<1>3. SamePrompts(Settled(u), u)
  BY DEF Settled, disarm_abort, UiRecord, SamePrompts
<1> QED
  BY <1>1, <1>2, <1>3

LEMMA EnsureSame ==
  ASSUME NEW u0, QueueOK(u0)
  PROVE  SamePrompts(ensure_invariants(u0), u0)
<1> DEFINE armed(u) == u.phase = "AbortPending" /\ u.armed
           stale(u) == u.phase = "AbortPending" /\ ~u.active_cycle
           u1 == IF stale(u0) THEN Settled(u0) ELSE u0
           u2 == IF u1.phase # "AbortPending" THEN disarm_abort(u1) ELSE u1
           u3 == [u2 EXCEPT !.active_cycle = u2.active # NoPrompt \/ u2.pending # <<>>]
           u4 == IF u3.phase = "Idle" /\ u3.active_cycle THEN [u3 EXCEPT !.phase = "Busy"] ELSE u3
           u5 == IF stale(u4) THEN Settled(u4) ELSE u4
           u6 == IF armed(u0) /\ ~armed(u5) THEN [u5 EXCEPT !.settle_notice = TRUE] ELSE u5
<1>0. u0 \in UiRecord /\ SamePrompts(u0, u0)
  BY DEF QueueOK, SamePrompts
<1>1. SamePrompts(u1, u0)
  BY <1>0, AbortSame
<1> HIDE DEF u1
<1>2. SamePrompts(u2, u0)
  <2>1. u1 \in UiRecord
    BY <1>1 DEF SamePrompts
  <2>2. SamePrompts(disarm_abort(u1), u1)
    BY <2>1, AbortSame
  <2>3. SamePrompts(disarm_abort(u1), u0)
    BY <2>2, <1>1, Zenon DEF SamePrompts
  <2> QED
    BY <1>1, <2>3
<1> HIDE DEF u2
<1>3. SamePrompts(u3, u0)
  BY <1>2 DEF SamePrompts, UiRecord
<1> HIDE DEF u3
<1>4. SamePrompts(u4, u0)
  <2>1. SamePrompts([u3 EXCEPT !.phase = "Busy"], u0)
    BY <1>3 DEF SamePrompts, UiRecord
  <2> QED
    BY <1>3, <2>1
<1> HIDE DEF u4
<1>5. SamePrompts(u5, u0)
  <2>1. u4 \in UiRecord
    BY <1>4 DEF SamePrompts
  <2>2. SamePrompts(Settled(u4), u4)
    BY <2>1, AbortSame
  <2>3. SamePrompts(Settled(u4), u0)
    BY <2>2, <1>4, Zenon DEF SamePrompts
  <2> QED
    BY <1>4, <2>3
<1> HIDE DEF u5
<1>6. SamePrompts(u6, u0)
  <2>1. SamePrompts([u5 EXCEPT !.settle_notice = TRUE], u0)
    BY <1>5 DEF SamePrompts, UiRecord
  <2> QED
    BY <1>5, <2>1
<1>7. ensure_invariants(u0) = enforce_single_active_invariant(u6)
  BY Zenon DEF ensure_invariants, u1, u2, u3, u4, u5
<1> HIDE DEF u6
<1>8. u6 \in UiRecord /\ QueueShape(u6)
  BY <1>6, SameShape, Zenon DEF QueueOK
<1>9. enforce_single_active_invariant(u6) = u6
  BY <1>8, EnforceSame
<1> QED
  BY <1>6, <1>7, <1>9

\* What the methods leave alone: the prompts that have left for the loop, and
\* the active one unless it is done.
Keeps(v, u) ==
    QueueOK(v) /\ Left(v) = Left(u) /\ (v.active = u.active \/ v.active = NoPrompt)

LEMMA SameKeeps ==
  ASSUME NEW u, NEW v, QueueOK(u), SamePrompts(v, u)
  PROVE  Keeps(v, u)
BY SameShape DEF Keeps, SamePrompts

LEMMA KeepsTwice ==
  ASSUME NEW u, NEW v, NEW w, Keeps(v, u), Keeps(w, v)
  PROVE  Keeps(w, u)
BY DEF Keeps

LEMMA EnsureResetSame ==
  ASSUME NEW u, QueueOK(u)
  PROVE  SamePrompts(ensure_invariants(reset_abort(u)), u)
<1> DEFINE r == reset_abort(u)
<1>1. SamePrompts(r, u)
  BY AbortSame DEF QueueOK
<1> HIDE DEF r
<1>2. QueueOK(r)
  BY <1>1, SameShape
<1>3. SamePrompts(ensure_invariants(r), r)
  BY <1>2, EnsureSame
<1>4. SamePrompts(ensure_invariants(r), u)
  BY <1>1, <1>3, Zenon DEF SamePrompts
<1> QED
  BY <1>4 DEF r

LEMMA EnsureDisarmSame ==
  ASSUME NEW u, QueueOK(u)
  PROVE  SamePrompts(ensure_invariants(disarm_abort(u)), u)
<1> DEFINE r == disarm_abort(u)
<1>1. SamePrompts(r, u)
  BY AbortSame DEF QueueOK
<1> HIDE DEF r
<1>2. QueueOK(r)
  BY <1>1, SameShape
<1>3. SamePrompts(ensure_invariants(r), r)
  BY <1>2, EnsureSame
<1>4. SamePrompts(ensure_invariants(r), u)
  BY <1>1, <1>3, Zenon DEF SamePrompts
<1> QED
  BY <1>4 DEF r

\* The active prompt is done; the others wait on.
Completes(v, u) ==
    Keeps(v, u) /\ v.active = NoPrompt /\ v.pending = u.pending /\ v.card = u.card

LEMMA QueueCompletes ==
  ASSUME NEW u, QueueOK(u)
  PROVE  Completes(QueueComplete(u), u)
<1>1. CASE u.active = NoPrompt
  BY <1>1 DEF QueueComplete, Completes, Keeps
<1>2. CASE u.active # NoPrompt
  <2> DEFINE v == [u EXCEPT !.items[u.active] = "Done", !.active = NoPrompt]
  <2>0. u \in UiRecord /\ u.active \in PromptIds /\ u.items \in [PromptIds -> Status]
    BY <1>2 DEF QueueOK, UiRecord
  <2>1. QueueComplete(u) = v
    BY <1>2 DEF QueueComplete
  <2>2. v \in UiRecord /\ v.pending = u.pending /\ v.card = u.card /\ v.active = NoPrompt
        /\ v.next_prompt_id = u.next_prompt_id
        /\ v.items = [u.items EXCEPT ![u.active] = "Done"]
    BY <2>0 DEF UiRecord, Status
  <2> HIDE DEF v
  <2>3. \A p \in PromptIds : v.items[p] = IF p = u.active THEN "Done" ELSE u.items[p]
    BY <2>0, <2>2
  <2>4. NoPrompt \notin PromptIds
    BY DEF NoPrompt, PromptIds
  <2>5. u.items[u.active] = "InProgress"
    BY <2>0 DEF QueueOK, QueueShape
  <2>6. ASSUME NEW p \in PromptIds
        PROVE  /\ v.items[p] = "Queued" <=> Has(v.pending, p)
               /\ v.items[p] = "InProgress" <=> v.active = p
               /\ v.next_prompt_id <= p => v.items[p] = "none"
    <3>1. /\ u.items[p] = "Queued" <=> Has(u.pending, p)
          /\ u.items[p] = "InProgress" <=> u.active = p
          /\ u.next_prompt_id <= p => u.items[p] = "none"
      BY DEF QueueOK, QueueShape
    <3>2. CASE p = u.active
      BY <2>2, <2>3, <2>4, <2>5, <3>1, <3>2
    <3>3. CASE p # u.active
      BY <2>2, <2>3, <2>4, <3>1, <3>3
    <3> QED
      BY <3>2, <3>3
  <2>7. QueueOK(v)
    <3>1. \A i, j \in DOMAIN v.pending : v.pending[i] = v.pending[j] => i = j
      BY <2>2 DEF QueueOK, QueueShape
    <3> QED
      BY <2>2, <2>6, <3>1 DEF QueueOK, QueueShape
  <2>8. Left(v) = Left(u)
    BY <2>3, <2>5 DEF Left
  <2> QED
    BY <2>1, <2>2, <2>7, <2>8 DEF Completes, Keeps
<1> QED
  BY <1>1, <1>2

LEMMA ActiveCompletes ==
  ASSUME NEW u, QueueOK(u)
  PROVE  Completes(complete_active_prompt(u), u)
<1> DEFINE done == QueueComplete(u)
           notice == u.settle_notice \/ (u.phase = "AbortPending" /\ u.armed)
           r == [done EXCEPT !.settle_notice = notice, !.phase = "Idle",
                             !.input_locked = FALSE, !.active_cycle = FALSE]
<1>1. Completes(done, u)
  BY QueueCompletes
<1>2. notice \in BOOLEAN
  BY DEF QueueOK, UiRecord
<1> HIDE DEF done, notice
<1>3. SamePrompts(r, done)
  BY <1>1, <1>2 DEF SamePrompts, UiRecord, Completes, Keeps, QueueOK
<1>4. complete_active_prompt(u) = ensure_invariants(disarm_abort(r))
  BY Zenon DEF complete_active_prompt, done, notice
<1> HIDE DEF r
<1>5. QueueOK(r)
  BY <1>1, <1>3, SameShape DEF Completes, Keeps
<1>6. SamePrompts(ensure_invariants(disarm_abort(r)), r)
  BY <1>5, EnsureDisarmSame
<1>7. SamePrompts(ensure_invariants(disarm_abort(r)), done)
  BY <1>3, <1>6, Zenon DEF SamePrompts
<1>8. Keeps(ensure_invariants(disarm_abort(r)), done)
  BY <1>1, <1>7, SameKeeps DEF Completes, Keeps
<1> QED
  BY <1>1, <1>4, <1>7, <1>8, KeepsTwice DEF Completes, SamePrompts

\* The prompts that wait go back to the input: none is left behind.
Drains(v, u) ==
    Keeps(v, u) /\ v.active = NoPrompt /\ v.pending = <<>> /\ v.card = u.card

LEMMA TextsDrain ==
  ASSUME NEW u, QueueOK(u)
  PROVE  Drains(cancel_and_drain_to_texts(u), u)
<1> DEFINE done == QueueComplete(u)
           items == [p \in PromptIds |-> IF p \in ToSet(u.pending) THEN "Cancelled" ELSE done.items[p]]
           v == [done EXCEPT !.pending = <<>>, !.items = items]
<1>1. Completes(done, u)
  BY QueueCompletes
<1>2. cancel_and_drain_to_texts(u) = v
  BY DEF cancel_and_drain_to_texts
<1> HIDE DEF done
<1>0. done \in UiRecord /\ done.items \in [PromptIds -> Status]
  BY <1>1 DEF Completes, Keeps, QueueOK, UiRecord
<1>3. items \in [PromptIds -> Status]
  BY <1>0 DEF Status
<1>4. \A p \in PromptIds : p \in ToSet(u.pending) <=> Has(u.pending, p)
  BY DEF ToSet, Has
<1>5. \A p \in PromptIds : items[p] = IF Has(u.pending, p)
                                      THEN "Cancelled" ELSE done.items[p]
  BY <1>4
<1> HIDE DEF items
<1>6. <<>> \in Seq(PromptIds)
  OBVIOUS
<1>7. v \in UiRecord /\ v.pending = <<>> /\ v.items = items /\ v.active = NoPrompt
      /\ v.card = u.card /\ v.next_prompt_id = done.next_prompt_id
  BY <1>0, <1>1, <1>3, <1>6 DEF UiRecord, Completes
<1> HIDE DEF v
<1>8. NoPrompt \notin PromptIds /\ DOMAIN <<>> = {} /\ \A p : ~Has(<<>>, p)
  BY DEF NoPrompt, PromptIds, Has
<1>9. ASSUME NEW p \in PromptIds
      PROVE  /\ v.items[p] = "Queued" <=> Has(v.pending, p)
             /\ v.items[p] = "InProgress" <=> v.active = p
             /\ v.next_prompt_id <= p => v.items[p] = "none"
             /\ v.items[p] \in {"InProgress", "Done"} <=> done.items[p] \in {"InProgress", "Done"}
  <2>1. /\ done.items[p] = "Queued" <=> Has(u.pending, p)
        /\ done.items[p] = "InProgress" <=> done.active = p
        /\ done.next_prompt_id <= p => done.items[p] = "none"
    BY <1>1 DEF Completes, Keeps, QueueOK, QueueShape
  <2>2. done.active # p /\ v.active # p
    BY <1>1, <1>7, <1>8 DEF Completes
  <2> QED
    BY <1>5, <1>7, <1>8, <2>1, <2>2
<1>10. QueueOK(v)
  BY <1>7, <1>8, <1>9 DEF QueueOK, QueueShape
<1>11. Left(v) = Left(done)
  BY <1>9 DEF Left
<1> QED
  BY <1>1, <1>2, <1>7, <1>10, <1>11 DEF Drains, Keeps, Completes

LEMMA RestoreDrains ==
  ASSUME NEW u, QueueOK(u)
  PROVE  Drains(cancel_and_restore_pending_to_input(u), u)
<1> DEFINE d == cancel_and_drain_to_texts(u)
           r == [d EXCEPT !.phase = "Idle", !.input_locked = FALSE, !.active_cycle = FALSE]
<1>1. Drains(d, u)
  BY TextsDrain
<1> HIDE DEF d
<1>2. SamePrompts(r, d)
  BY <1>1 DEF SamePrompts, UiRecord, Drains, Keeps, QueueOK
<1>3. cancel_and_restore_pending_to_input(u) = ensure_invariants(reset_abort(r))
  BY Zenon DEF cancel_and_restore_pending_to_input, d
<1> HIDE DEF r
<1>4. QueueOK(r)
  BY <1>1, <1>2, SameShape DEF Drains, Keeps
<1>5. SamePrompts(ensure_invariants(reset_abort(r)), r)
  BY <1>4, EnsureResetSame
<1>6. SamePrompts(ensure_invariants(reset_abort(r)), d)
  BY <1>2, <1>5, Zenon DEF SamePrompts
<1>7. Keeps(ensure_invariants(reset_abort(r)), d)
  BY <1>1, <1>6, SameKeeps DEF Drains, Keeps
<1> QED
  BY <1>1, <1>3, <1>6, <1>7, KeepsTwice DEF Drains, SamePrompts

LEMMA SweepSame ==
  ASSUME NEW u, QueueOK(u)
  PROVE  SamePrompts(sweep_expired_abort(u), u)
<1>1. u \in UiRecord /\ SamePrompts(u, u)
  BY DEF QueueOK, SamePrompts
<1>2. SamePrompts(disarm_abort(u), u)
  BY <1>1, AbortSame
<1> DEFINE d == disarm_abort(u)
           x == IF u.active_cycle THEN "Busy" ELSE "Idle"
<1>3. x \in {"Idle", "Busy", "AbortPending"}
  OBVIOUS
<1> HIDE DEF d, x
<1>4. SamePrompts([d EXCEPT !.phase = x], u)
  BY <1>2, <1>3 DEF SamePrompts, UiRecord, d
<1>5. sweep_expired_abort(u) = IF u.arm # "expired" THEN u ELSE [d EXCEPT !.phase = x]
  BY Zenon DEF sweep_expired_abort, d, x
<1> QED
  BY <1>1, <1>4, <1>5

LEMMA AbortRequestSame ==
  ASSUME NEW u, QueueOK(u)
  PROVE  SamePrompts(request_abort_confirmation(u), u)
<1> DEFINE r == [u EXCEPT !.armed = TRUE, !.arm = "live", !.settle_notice = FALSE,
                          !.phase = "AbortPending"]
<1>1. SamePrompts(r, u)
  BY DEF SamePrompts, UiRecord, QueueOK
<1>2. request_abort_confirmation(u) = ensure_invariants(u)
      \/ request_abort_confirmation(u) = ensure_invariants(r)
  BY Zenon DEF request_abort_confirmation
<1> HIDE DEF r
<1>3. QueueOK(r)
  BY <1>1, SameShape
<1>4. SamePrompts(ensure_invariants(r), r) /\ SamePrompts(ensure_invariants(u), u)
  BY <1>3, EnsureSame
<1>5. SamePrompts(ensure_invariants(r), u)
  BY <1>1, <1>4, Zenon DEF SamePrompts
<1> QED
  BY <1>2, <1>4, <1>5

\* What a key or an event may do to the prompts before some of them leave: it takes
\* the card down at most.
Handles(v, u) == Keeps(v, u) /\ (v.card = u.card \/ v.card = NoPrompt)

LEMMA EscapeHandles ==
  ASSUME NEW u, QueueOK(u)
  PROVE  Handles(handle_escape(u), u)
<1>1. Handles(u, u)
  BY DEF Handles, Keeps
<1>2. Handles([u EXCEPT !.settle_notice = FALSE], u)
  <2>1. SamePrompts([u EXCEPT !.settle_notice = FALSE], u)
    BY DEF SamePrompts, UiRecord, QueueOK
  <2> QED
    BY <2>1, SameKeeps DEF Handles, SamePrompts
<1>3. Handles(handle_escape_confirm(u), u)
  <2> DEFINE c == [u EXCEPT !.cancel = TRUE]
             r == cancel_and_restore_pending_to_input(c)
  <2>1. c \in UiRecord /\ c.items = u.items /\ c.next_prompt_id = u.next_prompt_id
        /\ c.pending = u.pending /\ c.active = u.active /\ c.card = u.card
    BY DEF QueueOK, UiRecord
  <2> HIDE DEF c
  <2>2. QueueOK(c) /\ Left(c) = Left(u)
    BY <2>1 DEF QueueOK, QueueShape, Left
  <2>3. Drains(r, c)
    BY <2>2, RestoreDrains
  <2> HIDE DEF r
  <2>4. [r EXCEPT !.card = NoPrompt] \in UiRecord
        /\ [r EXCEPT !.card = NoPrompt].items = r.items
        /\ [r EXCEPT !.card = NoPrompt].next_prompt_id = r.next_prompt_id
        /\ [r EXCEPT !.card = NoPrompt].pending = r.pending
        /\ [r EXCEPT !.card = NoPrompt].active = r.active
        /\ [r EXCEPT !.card = NoPrompt].card = NoPrompt
    BY <2>3 DEF Drains, Keeps, QueueOK, UiRecord
  <2>5. QueueOK([r EXCEPT !.card = NoPrompt]) /\ Left([r EXCEPT !.card = NoPrompt]) = Left(r)
    <3>1. QueueOK(r)
      BY <2>3 DEF Drains, Keeps
    <3> DEFINE w == [r EXCEPT !.card = NoPrompt]
    <3>2. w \in UiRecord /\ w.items = r.items /\ w.next_prompt_id = r.next_prompt_id
          /\ w.pending = r.pending /\ w.active = r.active
      BY <2>4
    <3> HIDE DEF w
    <3>3. QueueOK(w) /\ Left(w) = Left(r)
      BY <3>1, <3>2 DEF QueueOK, QueueShape, Left
    <3> QED
      BY <3>3 DEF w
  <2>6. Handles([r EXCEPT !.card = NoPrompt], u)
    BY <2>1, <2>2, <2>3, <2>4, <2>5 DEF Handles, Keeps, Drains
  <2>7. handle_escape_confirm(u) = u \/ handle_escape_confirm(u) = [r EXCEPT !.card = NoPrompt]
    BY Zenon DEF handle_escape_confirm, r, c
  <2> QED
    BY <1>1, <2>6, <2>7
<1>4. \A w : SamePrompts(w, u) => Handles(request_abort_confirmation(w), u)
  <2> SUFFICES ASSUME NEW w, SamePrompts(w, u)
               PROVE  Handles(request_abort_confirmation(w), u)
    OBVIOUS
  <2>1. QueueOK(w)
    BY SameShape
  <2>2. SamePrompts(request_abort_confirmation(w), w)
    BY <2>1, AbortRequestSame
  <2>3. SamePrompts(request_abort_confirmation(w), u)
    BY <2>2, Zenon DEF SamePrompts
  <2> QED
    BY <2>3, SameKeeps DEF Handles, SamePrompts
<1>5. SamePrompts(sweep_expired_abort(u), u) /\ SamePrompts(u, u)
  BY SweepSame DEF SamePrompts, QueueOK
<1>6. \/ handle_escape(u) = [u EXCEPT !.settle_notice = FALSE]
      \/ handle_escape(u) = handle_escape_confirm(u)
      \/ handle_escape(u) = request_abort_confirmation(sweep_expired_abort(u))
      \/ handle_escape(u) = request_abort_confirmation(u)
  BY Zenon DEF handle_escape
<1> QED
  BY <1>2, <1>3, <1>4, <1>5, <1>6

\* A new prompt waits behind the others.
LEMMA EnqueueKeeps ==
  ASSUME NEW u, QueueOK(u), u.next_prompt_id <= MaxPrompts
  PROVE  LET v == enqueue_prompt_with_facts(u)
         IN  Keeps(v, u) /\ v.active = u.active /\ v.card = u.card
<1> DEFINE n == u.next_prompt_id
           e == enqueue_prompt(u)
<1>0. u \in UiRecord /\ n \in PromptIds /\ u.items \in [PromptIds -> Status] /\ u.pending \in Seq(PromptIds)
      /\ n \in Nat
  BY TuiPromptsAssumption DEF QueueOK, UiRecord, PromptIds
<1> DEFINE items == [u.items EXCEPT ![n] = "Queued"]
           pending == Append(u.pending, n)
<1>a. items \in [PromptIds -> Status] /\ pending \in Seq(PromptIds) /\ n + 1 \in Nat \ {0}
  BY <1>0 DEF Status
<1>b. e = [u EXCEPT !.items = items, !.pending = pending, !.next_prompt_id = n + 1]
  BY <1>0 DEF enqueue_prompt, UiRecord
<1> HIDE DEF e, items, pending
<1>c. e \in UiRecord /\ e.items = items /\ e.pending = pending
      /\ e.next_prompt_id = n + 1 /\ e.active = u.active /\ e.card = u.card
  BY <1>0, <1>a, <1>b DEF UiRecord
<1>1. e \in UiRecord /\ e.items = [u.items EXCEPT ![n] = "Queued"] /\ e.pending = Append(u.pending, n)
      /\ e.next_prompt_id = n + 1 /\ e.active = u.active /\ e.card = u.card
  BY <1>c DEF items, pending
<1>2. u.items[n] = "none"
  BY <1>0 DEF QueueOK, QueueShape
<1>3. DOMAIN e.pending = 1..(Len(u.pending) + 1) /\ DOMAIN u.pending = 1..Len(u.pending)
      /\ Len(u.pending) \in Nat /\ e.pending[Len(u.pending) + 1] = n
      /\ \A i \in 1..Len(u.pending) : e.pending[i] = u.pending[i]
  BY <1>0, <1>1
<1>4. \A i \in DOMAIN u.pending : u.pending[i] # n
  BY <1>0, <1>2 DEF QueueOK, QueueShape, Has
<1>5. \A i, j \in DOMAIN e.pending : e.pending[i] = e.pending[j] => i = j
  <2>1. \A i, j \in DOMAIN u.pending : u.pending[i] = u.pending[j] => i = j
    BY DEF QueueOK, QueueShape
  <2>2. \A i \in DOMAIN e.pending : i \in DOMAIN u.pending \/ i = Len(u.pending) + 1
    BY <1>3
  <2>3. \A i \in DOMAIN u.pending : e.pending[i] = u.pending[i] /\ i # Len(u.pending) + 1
    BY <1>3
  <2> QED
    BY <1>3, <1>4, <2>1, <2>2, <2>3, Zenon
<1>6. \A p \in PromptIds : e.items[p] = IF p = n THEN "Queued" ELSE u.items[p]
  BY <1>0, <1>1
<1>7. ASSUME NEW p \in PromptIds
      PROVE  /\ e.items[p] = "Queued" <=> Has(e.pending, p)
             /\ e.items[p] = "InProgress" <=> e.active = p
             /\ e.next_prompt_id <= p => e.items[p] = "none"
             /\ e.items[p] \in {"InProgress", "Done"} <=> u.items[p] \in {"InProgress", "Done"}
  <2>1. /\ u.items[p] = "Queued" <=> Has(u.pending, p)
        /\ u.items[p] = "InProgress" <=> u.active = p
        /\ u.next_prompt_id <= p => u.items[p] = "none"
    BY DEF QueueOK, QueueShape
  <2>2. CASE p = n
    BY <1>0, <1>1, <1>2, <1>3, <1>6, <2>1, <2>2 DEF Has
  <2>3. CASE p # n
    <3>1. Has(e.pending, p) <=> Has(u.pending, p)
      BY <1>3, <2>3 DEF Has
    <3>2. e.next_prompt_id <= p => u.next_prompt_id <= p
      BY <1>0, <1>1 DEF PromptIds
    <3> QED
      BY <1>1, <1>6, <2>1, <2>3, <3>1, <3>2
  <2> QED
    BY <2>2, <2>3
<1>8. QueueOK(e)
  BY <1>1, <1>5, <1>7 DEF QueueOK, QueueShape
<1>9. Left(e) = Left(u)
  BY <1>7 DEF Left
<1> DEFINE r == [e EXCEPT !.phase = "Busy",
                          !.active_cycle = e.active # NoPrompt \/ e.pending # <<>>]
<1>10. SamePrompts(r, e)
  BY <1>1 DEF SamePrompts, UiRecord
<1>11. enqueue_prompt_with_facts(u) = ensure_invariants(reset_abort(r))
  BY Zenon DEF enqueue_prompt_with_facts, accept_submit, e
<1> HIDE DEF r
<1>12. QueueOK(r)
  BY <1>8, <1>10, SameShape
<1>13. SamePrompts(ensure_invariants(reset_abort(r)), r)
  BY <1>12, EnsureResetSame
<1>14. SamePrompts(ensure_invariants(reset_abort(r)), e)
  BY <1>10, <1>13, Zenon DEF SamePrompts
<1>15. Keeps(ensure_invariants(reset_abort(r)), e)
  BY <1>8, <1>14, SameKeeps
<1>16. Keeps(e, u)
  BY <1>1, <1>8, <1>9 DEF Keeps
<1>17. Keeps(ensure_invariants(reset_abort(r)), u)
  BY <1>15, <1>16, KeepsTwice
<1> QED
  BY <1>1, <1>11, <1>14, <1>17, Zenon DEF SamePrompts

LEMMA ImmediateSame ==
  ASSUME NEW u, QueueOK(u)
  PROVE  LET v == enqueue_immediate_submission(u)
         IN  Keeps(v, u) /\ v.active = u.active /\ v.card = u.card
<1> DEFINE r == [u EXCEPT !.immediate = TRUE]
<1>1. r \in UiRecord /\ r.items = u.items /\ r.next_prompt_id = u.next_prompt_id
      /\ r.pending = u.pending /\ r.active = u.active /\ r.card = u.card
  BY DEF QueueOK, UiRecord
<1>2. enqueue_immediate_submission(u) = ensure_invariants(reset_abort(r))
  BY Zenon DEF enqueue_immediate_submission
<1> HIDE DEF r
<1>3. QueueOK(r) /\ Left(r) = Left(u)
  BY <1>1 DEF QueueOK, QueueShape, Left
<1>4. SamePrompts(ensure_invariants(reset_abort(r)), r)
  BY <1>3, EnsureResetSame
<1>5. Keeps(ensure_invariants(reset_abort(r)), r)
  BY <1>3, <1>4, SameKeeps
<1> QED
  BY <1>1, <1>2, <1>3, <1>4, <1>5 DEF Keeps, SamePrompts

\* A record that differs from u in its card only, or in nothing the queue has.
LEMMA CardKeeps ==
  ASSUME NEW u, QueueOK(u), NEW c \in PromptIds \cup {NoPrompt}
  PROVE  LET v == [u EXCEPT !.card = c]
         IN  QueueOK(v) /\ Left(v) = Left(u) /\ v.active = u.active /\ v.card = c
             /\ v.pending = u.pending
<1> DEFINE v == [u EXCEPT !.card = c]
<1>1. v \in UiRecord /\ v.items = u.items /\ v.next_prompt_id = u.next_prompt_id
      /\ v.pending = u.pending /\ v.active = u.active /\ v.card = c
  BY DEF QueueOK, UiRecord
<1> HIDE DEF v
<1>2. QueueOK(v) /\ Left(v) = Left(u)
  BY <1>1 DEF QueueOK, QueueShape, Left
<1> QED
  BY <1>1, <1>2 DEF v

LEMMA CancelKeeps ==
  ASSUME NEW u, QueueOK(u)
  PROVE  LET v == [u EXCEPT !.cancel = TRUE]
         IN  Keeps(v, u) /\ v.active = u.active /\ v.card = u.card
<1> DEFINE v == [u EXCEPT !.cancel = TRUE]
<1>1. v \in UiRecord /\ v.items = u.items /\ v.next_prompt_id = u.next_prompt_id
      /\ v.pending = u.pending /\ v.active = u.active /\ v.card = u.card
  BY DEF QueueOK, UiRecord
<1> HIDE DEF v
<1>2. QueueOK(v) /\ Left(v) = Left(u)
  BY <1>1 DEF QueueOK, QueueShape, Left
<1> QED
  BY <1>1, <1>2 DEF v, Keeps

LEMMA TurnEndedKeeps ==
  ASSUME NEW u, QueueOK(u)
  PROVE  LET v == TurnEnded(u)
         IN  Keeps(v, u) /\ v.active = NoPrompt /\ v.card = NoPrompt /\ v.pending = u.pending
<1> DEFINE r == complete_active_prompt(u)
           v == [r EXCEPT !.card = NoPrompt, !.input_locked = FALSE]
<1>1. Completes(r, u)
  BY ActiveCompletes
<1>2. TurnEnded(u) = v
  BY DEF TurnEnded
<1> HIDE DEF r
<1>3. v \in UiRecord /\ v.items = r.items /\ v.next_prompt_id = r.next_prompt_id
      /\ v.pending = r.pending /\ v.active = r.active /\ v.card = NoPrompt
  BY <1>1 DEF Completes, Keeps, QueueOK, UiRecord
<1> HIDE DEF v
<1>4. QueueOK(v) /\ Left(v) = Left(r)
  BY <1>1, <1>3 DEF QueueOK, QueueShape, Left, Completes, Keeps
<1> QED
  BY <1>1, <1>2, <1>3, <1>4 DEF Keeps, Completes

\* What an event does to the prompts and the card.
LEMMA ReduceEvent ==
  ASSUME NEW u, QueueOK(u), NEW e \in UiEvents
  PROVE  LET v == reduce_event(u, e)
         IN  /\ QueueOK(v) /\ Left(v) = Left(u) /\ v.pending = u.pending
             /\ v.active = IF e.type \in Ends THEN NoPrompt ELSE u.active
             /\ v.card = IF e.type = "PermissionRequested" THEN e.turn
                         ELSE IF \/ e.type \in Ends
                                 \/ e.type = "PermissionDecisionTimedOut" /\ u.card = e.turn
                              THEN NoPrompt ELSE u.card
<1> DEFINE v == reduce_event(u, e)
<1>0. u \in UiRecord /\ e.turn \in PromptIds
  BY DEF QueueOK, UiEvents
<1>1. CASE e.type = "InferenceStarted"
  <2> DEFINE r == [u EXCEPT !.phase = "Busy", !.input_locked = TRUE]
  <2>1. SamePrompts(r, u) /\ SamePrompts(u, u)
    BY <1>0 DEF SamePrompts, UiRecord
  <2>2. v = ensure_invariants(u) \/ v = ensure_invariants(r)
    BY <1>1, Zenon DEF reduce_event
  <2> HIDE DEF r
  <2>3. QueueOK(r)
    BY <2>1, SameShape
  <2>4. SamePrompts(ensure_invariants(u), u) /\ SamePrompts(ensure_invariants(r), r)
    BY <2>3, EnsureSame
  <2>5. SamePrompts(v, u)
    BY <2>1, <2>2, <2>4 DEF SamePrompts
  <2> HIDE DEF v
  <2>6. QueueOK(v) /\ Left(v) = Left(u) /\ v.pending = u.pending /\ v.active = u.active /\ v.card = u.card
    BY <2>5, SameShape DEF SamePrompts
  <2>7. e.type \notin Ends /\ e.type # "PermissionRequested" /\ e.type # "PermissionDecisionTimedOut"
    BY <1>1 DEF Ends
  <2> QED
    BY <2>6, <2>7 DEF v
<1>2. CASE e.type = "PermissionRequested"
  <2> DEFINE r == [u EXCEPT !.card = e.turn]
  <2>1. QueueOK(r) /\ Left(r) = Left(u) /\ r.active = u.active /\ r.card = e.turn /\ r.pending = u.pending
    BY <1>0, CardKeeps
  <2>2. v = ensure_invariants(r)
    BY <1>2, Zenon DEF reduce_event
  <2> HIDE DEF r
  <2>3. SamePrompts(v, r)
    BY <2>1, <2>2, EnsureSame
  <2> HIDE DEF v
  <2>4. QueueOK(v) /\ Left(v) = Left(u) /\ v.pending = u.pending /\ v.active = u.active /\ v.card = e.turn
    BY <2>1, <2>3, SameShape DEF SamePrompts
  <2>5. e.type \notin Ends
    BY <1>2 DEF Ends
  <2> QED
    BY <1>2, <2>4, <2>5 DEF v
<1>3. CASE e.type = "PermissionDecisionTimedOut"
  <2> DEFINE r == [u EXCEPT !.card = NoPrompt]
  <2>1. QueueOK(r) /\ Left(r) = Left(u) /\ r.active = u.active /\ r.card = NoPrompt /\ r.pending = u.pending
    BY CardKeeps
  <2>2. v = IF u.card = e.turn THEN r ELSE u
    BY <1>3, Zenon DEF reduce_event
  <2> HIDE DEF r, v
  <2>3. e.type \notin Ends /\ e.type # "PermissionRequested"
    BY <1>3 DEF Ends
  <2> QED
    BY <1>3, <2>1, <2>2, <2>3 DEF v
<1>4. CASE e.type \in Ends
  <2>1. v = TurnEnded(u)
    BY <1>4, Zenon DEF reduce_event, Ends
  <2>2. Keeps(v, u) /\ v.active = NoPrompt /\ v.card = NoPrompt /\ v.pending = u.pending
    BY <2>1, TurnEndedKeeps
  <2>3. e.type # "PermissionRequested"
    BY <1>4 DEF Ends
  <2> QED
    BY <1>4, <2>2, <2>3 DEF Keeps
<1> QED
  BY <1>1, <1>2, <1>3, <1>4 DEF UiEvents, Ends

-----------------------------------------------------------------------------
(* The prompts that leave.                                                 *)

LEMMA HasJoined ==
  ASSUME NEW S, NEW s \in Seq(S), NEW t \in Seq(S), NEW e
  PROVE  Has(s \o t, e) <=> Has(s, e) \/ Has(t, e)
<1>1. /\ DOMAIN (s \o t) = 1..(Len(s) + Len(t)) /\ DOMAIN s = 1..Len(s) /\ DOMAIN t = 1..Len(t)
      /\ Len(s) \in Nat /\ Len(t) \in Nat
      /\ \A i \in 1..(Len(s) + Len(t)) : (s \o t)[i] = IF i <= Len(s) THEN s[i] ELSE t[i - Len(s)]
  OBVIOUS
<1> DEFINE st == s \o t
<1>2. DOMAIN st = 1..(Len(s) + Len(t))
      /\ \A i \in 1..(Len(s) + Len(t)) : st[i] = IF i <= Len(s) THEN s[i] ELSE t[i - Len(s)]
  BY <1>1
<1> HIDE DEF st
<1>3. ASSUME NEW i \in DOMAIN st PROVE Has(s, st[i]) \/ Has(t, st[i])
  <2>1. CASE i <= Len(s)
    BY <1>1, <1>2, <2>1 DEF Has
  <2>2. CASE ~(i <= Len(s))
    <3>1. i - Len(s) \in DOMAIN t /\ st[i] = t[i - Len(s)]
      BY <1>1, <1>2, <2>2
    <3> QED
      BY <3>1 DEF Has
  <2> QED
    BY <2>1, <2>2
<1>4. ASSUME NEW i \in DOMAIN s PROVE Has(st, s[i])
  <2>1. i \in DOMAIN st /\ st[i] = s[i]
    BY <1>1, <1>2
  <2> QED
    BY <2>1 DEF Has
<1>5. ASSUME NEW i \in DOMAIN t PROVE Has(st, t[i])
  <2>1. Len(s) + i \in DOMAIN st /\ st[Len(s) + i] = t[i]
    BY <1>1, <1>2
  <2> QED
    BY <2>1 DEF Has
<1>6. Has(st, e) <=> Has(s, e) \/ Has(t, e)
  BY <1>3, <1>4, <1>5, Zenon DEF Has
<1> QED
  BY <1>6 DEF st

LEMMA HasAppended ==
  ASSUME NEW S, NEW s \in Seq(S), NEW x \in S, NEW e
  PROVE  Has(Append(s, x), e) <=> Has(s, e) \/ e = x
<1>1. /\ DOMAIN Append(s, x) = 1..(Len(s) + 1) /\ DOMAIN s = 1..Len(s) /\ Len(s) \in Nat
      /\ \A i \in 1..Len(s) : Append(s, x)[i] = s[i]
      /\ Append(s, x)[Len(s) + 1] = x
  OBVIOUS
<1> QED
  BY <1>1 DEF Has

LEMMA HasTail ==
  ASSUME NEW S, NEW s \in Seq(S), s # <<>>, NEW e
  PROVE  Has(s, e) <=> Has(Tail(s), e) \/ e = Head(s)
<1>1. /\ DOMAIN Tail(s) = 1..(Len(s) - 1) /\ DOMAIN s = 1..Len(s) /\ Len(s) \in Nat \ {0}
      /\ \A i \in 1..(Len(s) - 1) : Tail(s)[i] = s[i + 1]
      /\ Head(s) = s[1]
  OBVIOUS
<1>2. ASSUME NEW i \in DOMAIN s, i # 1 PROVE Has(Tail(s), s[i])
  <2>1. i - 1 \in DOMAIN Tail(s) /\ Tail(s)[i - 1] = s[i]
    BY <1>1, <1>2
  <2> QED
    BY <2>1 DEF Has
<1>3. ASSUME NEW i \in DOMAIN Tail(s) PROVE Has(s, Tail(s)[i])
  <2>1. i + 1 \in DOMAIN s /\ s[i + 1] = Tail(s)[i]
    BY <1>1
  <2> QED
    BY <2>1 DEF Has
<1>4. 1 \in DOMAIN s
  BY <1>1
<1> QED
  BY <1>1, <1>2, <1>3, <1>4, Zenon DEF Has

\* What a sequence without repetitions has, it has once.
LEMMA HasOnce ==
  ASSUME NEW s, \A i, j \in DOMAIN s : s[i] = s[j] => i = j, NEW e
  PROVE  Cardinality({i \in DOMAIN s : s[i] = e}) = IF Has(s, e) THEN 1 ELSE 0
<1>1. CASE Has(s, e)
  <2>1. PICK i \in DOMAIN s : s[i] = e
    BY <1>1 DEF Has
  <2>2. {j \in DOMAIN s : s[j] = e} = {i}
    BY <2>1
  <2> QED
    BY <1>1, <2>2, FS_Singleton
<1>2. CASE ~Has(s, e)
  <2>1. {j \in DOMAIN s : s[j] = e} = {}
    BY <1>2 DEF Has
  <2> QED
    BY <1>2, <2>1, FS_EmptySet
<1> QED
  BY <1>1, <1>2

\* The prompts that wait leave together, unless one is active.
Taken(v, u) ==
    IF u.pending = <<>> \/ u.active # NoPrompt
    THEN Left(v) = Left(u) /\ v.active = u.active /\ v.pending = u.pending /\ v.out = <<>>
    ELSE /\ Left(v) = Left(u) \cup {p \in PromptIds : Has(u.pending, p)}
         /\ v.active = Head(u.pending) /\ v.pending = <<>> /\ v.out = u.pending

LEMMA NextTaken ==
  ASSUME NEW u, QueueOK(u)
  PROVE  LET v == take_next_prompt_for_execution(u)
         IN  QueueOK(v) /\ v.card = u.card /\ Taken(v, u)
<1> DEFINE b == [u EXCEPT !.out = <<>>]
           c == coalesce_pending_prompts(b)
           v == take_next_prompt_for_execution(u)
<1>0. u \in UiRecord /\ <<>> \in Seq(PromptIds)
  BY DEF QueueOK
<1>1. b \in UiRecord /\ b.items = u.items /\ b.next_prompt_id = u.next_prompt_id
      /\ b.pending = u.pending /\ b.active = u.active /\ b.card = u.card /\ b.out = <<>>
  BY <1>0 DEF UiRecord
<1> HIDE DEF b
<1>2. QueueOK(b) /\ Left(b) = Left(u)
  BY <1>1 DEF QueueOK, QueueShape, Left
<1>3. v = ensure_invariants(IF c.out = <<>> THEN c
                            ELSE reset_abort([c EXCEPT !.phase = "Busy", !.active_cycle = TRUE]))
  BY Zenon DEF take_next_prompt_for_execution, b
<1>4. QueueOK(c) => SamePrompts(v, c)
  <2> SUFFICES ASSUME QueueOK(c) PROVE SamePrompts(v, c)
    OBVIOUS
  <2> DEFINE r == [c EXCEPT !.phase = "Busy", !.active_cycle = TRUE]
  <2> HIDE DEF c, v
  <2>1. SamePrompts(r, c)
    BY DEF SamePrompts, QueueOK, UiRecord
  <2> HIDE DEF r
  <2>2. QueueOK(r)
    BY <2>1, SameShape
  <2>3. SamePrompts(ensure_invariants(reset_abort(r)), r) /\ SamePrompts(ensure_invariants(c), c)
    BY <2>2, EnsureResetSame, EnsureSame
  <2>4. SamePrompts(ensure_invariants(reset_abort(r)), c)
    BY <2>1, <2>3, Zenon DEF SamePrompts
  <2> QED
    BY <1>3, <2>3, <2>4 DEF r
<1>5. QueueOK(c) => QueueOK(v) /\ Left(v) = Left(c)
  BY <1>4, SameShape
<1>6. CASE u.pending = <<>> \/ u.active # NoPrompt
  <2>1. c = b
    BY <1>1, <1>6 DEF coalesce_pending_prompts
  <2> HIDE DEF c, v
  <2> QED
    BY <1>1, <1>2, <1>4, <1>5, <1>6, <2>1 DEF SamePrompts, Taken, v
<1>7. CASE ~(u.pending = <<>> \/ u.active # NoPrompt)
  <2> DEFINE h == Head(b.pending)
             items == [p \in PromptIds |-> IF p = h THEN "InProgress"
                                           ELSE IF p \in ToSet(b.pending) THEN "Done" ELSE b.items[p]]
  <2>0. h \in PromptIds /\ Has(b.pending, h) /\ b.pending \in Seq(PromptIds)
    <3>1. b.pending \in Seq(PromptIds) /\ b.pending # <<>>
      BY <1>1, <1>7 DEF UiRecord
    <3>2. Head(b.pending) = b.pending[1] /\ 1 \in DOMAIN b.pending /\ b.pending[1] \in PromptIds
      BY <3>1
    <3> QED
      BY <3>1, <3>2 DEF Has
  <2>1. c = [b EXCEPT !.active = h, !.pending = <<>>, !.out = b.pending, !.items = items]
    BY <1>1, <1>7 DEF coalesce_pending_prompts, UiRecord
  <2>2. \A p \in PromptIds : p \in ToSet(b.pending) <=> Has(b.pending, p)
    BY DEF ToSet, Has
  <2>3. \A p \in PromptIds : items[p] = IF p = h THEN "InProgress"
                                        ELSE IF Has(b.pending, p) THEN "Done" ELSE b.items[p]
    BY <2>2
  <2>4. items \in [PromptIds -> Status]
    <3>1. b.items \in [PromptIds -> Status]
      BY <1>1 DEF UiRecord
    <3> QED
      BY <3>1 DEF Status
  <2> HIDE DEF c, h, items, v
  <2>5. c \in UiRecord /\ c.items = items /\ c.pending = <<>> /\ c.active = h /\ c.out = b.pending
        /\ c.next_prompt_id = b.next_prompt_id /\ c.card = b.card
    BY <1>0, <1>1, <2>0, <2>1, <2>4 DEF UiRecord
  <2>6. b.active = NoPrompt /\ NoPrompt \notin PromptIds /\ \A p : ~Has(<<>>, p)
    BY <1>1, <1>7 DEF NoPrompt, PromptIds, Has
  <2>7. ASSUME NEW p \in PromptIds
        PROVE  /\ c.items[p] = "Queued" <=> Has(c.pending, p)
               /\ c.items[p] = "InProgress" <=> c.active = p
               /\ c.next_prompt_id <= p => c.items[p] = "none"
               /\ c.items[p] \in {"InProgress", "Done"} <=>
                      b.items[p] \in {"InProgress", "Done"} \/ Has(b.pending, p)
    <3>1. /\ b.items[p] = "Queued" <=> Has(b.pending, p)
          /\ b.items[p] = "InProgress" <=> b.active = p
          /\ b.next_prompt_id <= p => b.items[p] = "none"
      BY <1>2 DEF QueueOK, QueueShape
    <3>2. c.items[p] = IF p = h THEN "InProgress"
                       ELSE IF Has(b.pending, p) THEN "Done" ELSE b.items[p]
      BY <2>3, <2>5
    <3>3. b.items[p] # "InProgress"
      BY <2>6, <3>1
    <3>4. CASE p = h
      BY <2>0, <2>5, <2>6, <3>1, <3>2, <3>4
    <3>5. CASE p # h
      BY <2>5, <2>6, <3>1, <3>2, <3>3, <3>5
    <3> QED
      BY <3>4, <3>5
  <2>8. QueueOK(c)
    <3>1. \A i, j \in DOMAIN c.pending : c.pending[i] = c.pending[j] => i = j
      BY <2>5
    <3> QED
      BY <2>5, <2>7, <3>1 DEF QueueOK, QueueShape
  <2>9. Left(c) = Left(b) \cup {p \in PromptIds : Has(b.pending, p)}
    BY <2>7 DEF Left
  <2>10. v.card = u.card /\ v.active = Head(u.pending) /\ v.pending = <<>> /\ v.out = u.pending
    BY <1>1, <1>4, <2>5, <2>8 DEF SamePrompts, h
  <2>11. QueueOK(v) /\ Left(v) = Left(u) \cup {p \in PromptIds : Has(u.pending, p)}
    BY <1>1, <1>2, <1>5, <2>8, <2>9
  <2> QED
    BY <1>7, <2>10, <2>11 DEF Taken, v
<1> QED
  BY <1>6, <1>7

LEMMA PendingTaken ==
  ASSUME NEW u, QueueOK(u), Left(u) = Left(ui), SentInv, to_loop \in Seq(LoopEvents),
         NEW decision \in Seq(LoopEvents), TakePending(u, decision)
  PROVE  /\ QueueOK(ui') /\ SentInv' /\ ui'.card = u.card /\ to_loop' \in Seq(LoopEvents)
         /\ ui'.pending # <<>> => ui'.active # NoPrompt
         /\ \/ ui'.active = u.active
            \/ Has(to_loop', [type |-> "PromptSubmitted", turn |-> ui'.active])
         /\ \A e : Has(to_loop, e) => Has(to_loop', e)
         /\ \A p : Has(to_loop', [type |-> "PermissionDecision", turn |-> p]) =>
                       \/ Has(to_loop, [type |-> "PermissionDecision", turn |-> p])
                       \/ Has(decision, [type |-> "PermissionDecision", turn |-> p])
<1> DEFINE v == take_next_prompt_for_execution(u)
           text == IF v.out = <<>> THEN <<>>
                   ELSE <<[type |-> "PromptSubmitted", turn |-> Head(v.out)]>>
           stop == IF v.cancel THEN <<[type |-> "CancelRequested", turn |-> NoPrompt]>> ELSE <<>>
           once(p) == Cardinality({i \in DOMAIN v.out : v.out[i] = p})
<1>1. QueueOK(v) /\ v.card = u.card /\ Taken(v, u)
  BY NextTaken
<1>2. /\ ui' = [v EXCEPT !.out = <<>>, !.immediate = FALSE, !.cancel = FALSE]
      /\ to_loop' = to_loop \o text \o decision \o stop
      /\ sent' = [p \in PromptIds |-> sent[p] + once(p)]
  BY Zenon DEF TakePending
<1> HIDE DEF v
<1>3. <<>> \in Seq(PromptIds) /\ v \in UiRecord
  BY <1>1 DEF QueueOK
<1>4. ui' \in UiRecord /\ ui'.items = v.items /\ ui'.next_prompt_id = v.next_prompt_id
      /\ ui'.pending = v.pending /\ ui'.active = v.active /\ ui'.card = v.card
  BY <1>2, <1>3 DEF UiRecord
<1>5. QueueOK(ui') /\ Left(ui') = Left(v)
  BY <1>1, <1>4 DEF QueueOK, QueueShape, Left
<1>6. text \in Seq(LoopEvents) /\ stop \in Seq(LoopEvents)
  <2>1. ASSUME v.out # <<>>
        PROVE  <<[type |-> "PromptSubmitted", turn |-> Head(v.out)]>> \in Seq(LoopEvents)
    <3>1. Head(v.out) \in PromptIds
      BY <1>3, <2>1 DEF UiRecord
    <3>2. [type |-> "PromptSubmitted", turn |-> Head(v.out)] \in LoopEvents
      BY <3>1 DEF LoopEvents
    <3> QED
      BY <3>2
  <2>2. [type |-> "CancelRequested", turn |-> NoPrompt] \in LoopEvents
    BY DEF LoopEvents
  <2>3. <<[type |-> "CancelRequested", turn |-> NoPrompt]>> \in Seq(LoopEvents)
        /\ <<>> \in Seq(LoopEvents)
    BY <2>2
  <2> QED
    BY <2>1, <2>3
<1>7. to_loop' \in Seq(LoopEvents)
  BY <1>2, <1>6
<1>t. text = IF v.out = <<>> THEN <<>>
             ELSE <<[type |-> "PromptSubmitted", turn |-> Head(v.out)]>>
  OBVIOUS
<1>c. stop = <<[type |-> "CancelRequested", turn |-> NoPrompt]>> \/ stop = <<>>
  OBVIOUS
<1> HIDE DEF text, stop
<1>8. \A e : Has(to_loop', e) <=> \/ Has(to_loop, e) \/ Has(text, e)
                                  \/ Has(decision, e) \/ Has(stop, e)
  <2> TAKE e
  <2>1. to_loop \o text \in Seq(LoopEvents) /\ (to_loop \o text) \o decision \in Seq(LoopEvents)
    BY <1>6
  <2>2. Has(to_loop \o text, e) <=> Has(to_loop, e) \/ Has(text, e)
    BY <1>6, HasJoined
  <2>3. Has((to_loop \o text) \o decision, e) <=> Has(to_loop \o text, e) \/ Has(decision, e)
    BY <2>1, HasJoined
  <2>4. Has(((to_loop \o text) \o decision) \o stop, e)
            <=> Has((to_loop \o text) \o decision, e) \/ Has(stop, e)
    <3>1. PICK td : td = (to_loop \o text) \o decision
      OBVIOUS
    <3>2. td \in Seq(LoopEvents) /\ stop \in Seq(LoopEvents)
      BY <1>6, <2>1, <3>1
    <3>3. Has(td \o stop, e) <=> Has(td, e) \/ Has(stop, e)
      BY ONLY <3>2, HasJoined
    <3> QED
      BY <3>1, <3>3
  <2> QED
    BY <1>2, <2>2, <2>3, <2>4
<1>9. \A p : LET e == [type |-> "PermissionDecision", turn |-> p]
             IN  ~Has(text, e) /\ ~Has(stop, e)
  <2> TAKE p
  <2>1. \A x : x # [type |-> "PermissionDecision", turn |-> p] =>
                   ~Has(<<x>>, [type |-> "PermissionDecision", turn |-> p])
    BY DEF Has
  <2>2. ~Has(<<>>, [type |-> "PermissionDecision", turn |-> p])
    BY DEF Has
  <2>3. \A t : [type |-> "PromptSubmitted", turn |-> t] # [type |-> "PermissionDecision", turn |-> p]
    OBVIOUS
  <2>4. [type |-> "CancelRequested", turn |-> NoPrompt] # [type |-> "PermissionDecision", turn |-> p]
    OBVIOUS
  <2> QED
    BY <1>t, <1>c, <2>1, <2>2, <2>3, <2>4
<1>10. \/ ui'.active = u.active
       \/ Has(to_loop', [type |-> "PromptSubmitted", turn |-> ui'.active])
  <2>1. CASE u.pending = <<>> \/ u.active # NoPrompt
    BY <1>1, <1>4, <2>1 DEF Taken
  <2>2. CASE ~(u.pending = <<>> \/ u.active # NoPrompt)
    <3>1. v.out # <<>> /\ ui'.active = Head(v.out)
      BY <1>1, <1>4, <2>2 DEF Taken
    <3>2. \A x : Has(<<x>>, x)
      BY DEF Has
    <3>3. Has(text, [type |-> "PromptSubmitted", turn |-> ui'.active])
      BY <1>t, <3>1, <3>2
    <3> QED
      BY <1>8, <3>3
  <2> QED
    BY <2>1, <2>2
<1>11. ui'.pending # <<>> => ui'.active # NoPrompt
  BY <1>1, <1>4 DEF Taken
<1>12. SentInv'
  <2>1. \A i, j \in DOMAIN v.out : v.out[i] = v.out[j] => i = j
    BY <1>1 DEF Taken, QueueOK, QueueShape
  <2>2. \A p : once(p) = IF Has(v.out, p) THEN 1 ELSE 0
    BY <2>1, HasOnce
  <2>3. \A p \in PromptIds : (p \in Left(v)) <=> (p \in Left(ui) \/ Has(v.out, p))
    <3>1. ~Has(<<>>, 0) /\ \A p : ~Has(<<>>, p)
      BY DEF Has
    <3> QED
      BY <1>1, <3>1 DEF Taken
  <2>4. \A p \in PromptIds : Has(v.out, p) => p \notin Left(ui)
    <3>1. \A p \in PromptIds : Has(u.pending, p) => u.items[p] = "Queued"
      BY DEF QueueOK, QueueShape
    <3>2. \A p \in PromptIds : Has(u.pending, p) => p \notin Left(u)
      BY <3>1 DEF Left
    <3>3. v.out = <<>> \/ v.out = u.pending
      BY <1>1 DEF Taken
    <3>4. \A p : ~Has(<<>>, p)
      BY DEF Has
    <3> QED
      BY <3>2, <3>3, <3>4
  <2>5. \A p \in PromptIds : sent[p] = IF p \in Left(ui) THEN 1 ELSE 0
    BY DEF SentInv
  <2> HIDE DEF once
  <2>6. \A p \in PromptIds : sent[p] + once(p) = IF p \in Left(v) THEN 1 ELSE 0
    BY <2>2, <2>3, <2>4, <2>5
  <2>7. sent' = [p \in PromptIds |-> IF p \in Left(ui') THEN 1 ELSE 0]
    BY <1>2, <1>5, <2>6
  <2>8. Left(ui') = Left(ui)'
    BY DEF Left
  <2> QED
    BY <2>7, <2>8 DEF SentInv
<1> QED
  BY <1>1, <1>4, <1>5, <1>7, <1>8, <1>9, <1>10, <1>11, <1>12

LEMMA RequestsStay ==
  ASSUME RequestInv, UNCHANGED <<request, results, ui_events>>,
         \A p \in PromptIds : Decided(p)' => Decided(p)
  PROVE  RequestInv'
<1>1. ASSUME NEW p \in PromptIds
      PROVE  /\ DOMAIN ui_events' = DOMAIN ui_events /\ request'[p] = request[p]
             /\ Decided(p)' => Decided(p)
             /\ \A i : Asks(p, i)' <=> Asks(p, i)
             /\ \A i : Open(p, i)' <=> Open(p, i)
  <2>1. ASSUME NEW i PROVE (Asks(p, i)' <=> Asks(p, i)) /\ (Open(p, i)' <=> Open(p, i))
    BY DEF Asks, Open
  <2> QED
    BY <2>1
<1> QED
  BY <1>1 DEF RequestInv

\* A step of the interface on its own leaves the channels behind it alone.
LEMMA InputKeeps ==
  ASSUME TuiInv, NEW u, Keeps(u, ui), u.card = ui.card \/ u.card = NoPrompt,
         Pressed(u), extras' \in Nat
  PROVE  TuiInv'
<1>0. QueueOK(u) /\ Left(u) = Left(ui) /\ SentInv /\ to_loop \in Seq(LoopEvents) /\ ChannelTypes
      /\ <<>> \in Seq(LoopEvents)
  BY DEF TuiInv, Keeps, ChannelTypes
<1>1. TakePending(u, <<>>) /\ UNCHANGED <<commands, running, results, request, ui_events>>
  BY DEF Pressed, loopVars
<1>2. /\ QueueOK(ui') /\ SentInv' /\ ui'.card = u.card /\ to_loop' \in Seq(LoopEvents)
      /\ ui'.pending # <<>> => ui'.active # NoPrompt
      /\ \/ ui'.active = u.active
         \/ Has(to_loop', [type |-> "PromptSubmitted", turn |-> ui'.active])
      /\ \A e : Has(to_loop, e) => Has(to_loop', e)
  BY <1>0, <1>1, PendingTaken
<1>3. \A p : Has(to_loop', [type |-> "PermissionDecision", turn |-> p]) =>
                 Has(to_loop, [type |-> "PermissionDecision", turn |-> p])
  <2>1. \A p : ~Has(<<>>, p)
    BY DEF Has
  <2>2. \A p : Has(to_loop', [type |-> "PermissionDecision", turn |-> p]) =>
                       \/ Has(to_loop, [type |-> "PermissionDecision", turn |-> p])
                       \/ Has(<<>>, [type |-> "PermissionDecision", turn |-> p])
    BY <1>0, <1>1, PendingTaken
  <2> QED
    BY <2>1, <2>2
<1>4. ChannelTypes'
  BY <1>0, <1>1, <1>2 DEF ChannelTypes
<1>5. ActiveInv'
  <2>1. ASSUME NEW a, a = ui'.active, a # NoPrompt PROVE Ahead(a, 0)'
    <3>1. CASE Has(to_loop', [type |-> "PromptSubmitted", turn |-> a])
      BY <3>1 DEF Ahead
    <3>2. CASE a = u.active
      <4>1. a = ui.active
        BY <2>1, <3>2 DEF Keeps
      <4>2. Ahead(a, 0)
        BY <2>1, <4>1 DEF TuiInv, ActiveInv, ActiveAhead
      <4> QED
        BY <4>2, <1>1, <1>2 DEF Ahead
    <3> QED
      BY <1>2, <2>1, <3>1, <3>2
  <2>2. ui'.active # NoPrompt => Ahead(ui.active, 0)'
    <3>1. PICK a : a = ui'.active
      OBVIOUS
    <3>2. a # NoPrompt => Ahead(a, 0)'
      BY <2>1, <3>1
    <3> QED
      BY <3>1, <3>2 DEF Ahead
  <2> QED
    BY <1>2, <2>2 DEF ActiveInv, ActiveAhead
<1>6. CardOK(ui.card, 0)'
  <2>1. ASSUME NEW a, a = ui'.card, a # NoPrompt PROVE CardOK(a, 0)'
    <3>1. a = ui.card
      BY <1>2, <2>1
    <3>2. CardOK(a, 0)
      BY <3>1 DEF TuiInv
    <3> QED
      BY <1>1, <1>3, <3>2 DEF CardOK, Decided, Open, Asks
  <2>2. PICK a : a = ui'.card
    OBVIOUS
  <2>3. a # NoPrompt => CardOK(a, 0)'
    BY <2>1, <2>2
  <2> QED
    BY <2>2, <2>3 DEF CardOK, Decided, Open, Asks
<1>7. RequestInv'
  BY <1>1, <1>3, RequestsStay DEF TuiInv, Decided
<1> QED
  BY <1>2, <1>4, <1>5, <1>6, <1>7 DEF TuiInv

-----------------------------------------------------------------------------
(* A batch of events.                                                      *)

LEMMA EventReduced ==
  ASSUME ChannelTypes, RequestInv, NEW k \in Nat, k + 1 <= Len(ui_events),
         NEW u, BatchInv(u, k)
  PROVE  BatchInv(reduce_event(u, ui_events[k + 1]), k + 1)
<1> DEFINE e == ui_events[k + 1]
           v == reduce_event(u, e)
<1>1. k + 1 \in DOMAIN ui_events /\ e \in UiEvents /\ e.turn \in PromptIds
      /\ \A i \in DOMAIN ui_events : i \in Nat /\ (i > k => i = k + 1 \/ i > k + 1)
                                     /\ (i > k + 1 => i > k)
  <2>1. /\ ui_events \in Seq(UiEvents) /\ DOMAIN ui_events = 1..Len(ui_events)
        /\ Len(ui_events) \in Nat /\ \A i \in 1..Len(ui_events) : ui_events[i] \in UiEvents
    BY DEF ChannelTypes
  <2>2. k + 1 \in DOMAIN ui_events /\ e \in UiEvents
    BY <2>1
  <2>3. e.turn \in PromptIds
    BY <2>2 DEF UiEvents
  <2>4. \A i \in DOMAIN ui_events : i \in Nat /\ (i > k => i = k + 1 \/ i > k + 1)
                                     /\ (i > k + 1 => i > k)
    BY <2>1
  <2> QED
    BY <2>2, <2>3, <2>4
<1>2. QueueOK(u) /\ Left(u) = Left(ui) /\ ActiveAhead(u, k) /\ CardOK(u.card, k)
  BY DEF BatchInv
<1>3. /\ QueueOK(v) /\ Left(v) = Left(u)
      /\ v.active = IF e.type \in Ends THEN NoPrompt ELSE u.active
      /\ v.card = IF e.type = "PermissionRequested" THEN e.turn
                  ELSE IF \/ e.type \in Ends
                          \/ e.type = "PermissionDecisionTimedOut" /\ u.card = e.turn
                       THEN NoPrompt ELSE u.card
  BY <1>1, <1>2, ReduceEvent
<1> HIDE DEF v
<1>4. ActiveAhead(v, k + 1)
  <2> SUFFICES ASSUME v.active # NoPrompt PROVE Ahead(v.active, k + 1)
    BY DEF ActiveAhead
  <2>1. e.type \notin Ends /\ v.active = u.active
    BY <1>3
  <2>2. PICK a : a = u.active
    OBVIOUS
  <2>3. Ahead(a, k)
    BY <1>2, <2>1, <2>2 DEF ActiveAhead
  <2>4. Ahead(a, k + 1)
    BY <1>1, <2>1, <2>3 DEF Ahead
  <2> QED
    BY <2>1, <2>2, <2>4
<1>5. CardOK(v.card, k + 1)
  <2>1. CASE e.type = "PermissionRequested"
    <3>1. PICK a \in PromptIds : a = e.turn
      BY <1>1
    <3>2. Asks(a, k + 1)
      BY <2>1, <3>1 DEF Asks
    <3>3. /\ request[a] # "none" /\ ~Decided(a) /\ Open(a, k + 1)
          /\ \A j \in DOMAIN ui_events : Asks(a, j) => j = k + 1
      BY <1>1, <3>2 DEF RequestInv
    <3>4. \A i \in DOMAIN ui_events : i > k + 1 => ~Asks(a, i)
      BY <1>1, <3>3
    <3> QED
      BY <1>3, <2>1, <3>1, <3>3, <3>4 DEF CardOK
  <2>2. CASE e.type # "PermissionRequested" /\ v.card # NoPrompt
    <3>1. v.card = u.card /\ e.type \notin Ends
          /\ ~(e.type = "PermissionDecisionTimedOut" /\ u.card = e.turn)
      BY <1>3, <2>2
    <3>2. PICK a : a = u.card
      OBVIOUS
    <3>3. /\ request[a] # "none" /\ ~Decided(a) /\ Open(a, k)
          /\ \A i \in DOMAIN ui_events : i > k => ~Asks(a, i)
      BY <1>2, <2>2, <3>1, <3>2 DEF CardOK
    <3>4. Open(a, k + 1)
      BY <1>1, <3>1, <3>2, <3>3 DEF Open
    <3>5. \A i \in DOMAIN ui_events : i > k + 1 => ~Asks(a, i)
      BY <1>1, <3>3
    <3> QED
      BY <3>1, <3>2, <3>3, <3>4, <3>5 DEF CardOK
  <2>3. CASE v.card = NoPrompt
    BY <2>3 DEF CardOK
  <2> QED
    BY <2>1, <2>2, <2>3
<1> QED
  BY <1>2, <1>3, <1>4, <1>5 DEF BatchInv, v

LEMMA BatchReduced ==
  ASSUME TuiInv, NEW n \in 1..Len(ui_events)
  PROVE  BatchInv(Batch(ui, SubSeq(ui_events, 1, n)), n)
<1> DEFINE msgs == SubSeq(ui_events, 1, n)
<1>0. n \in Nat /\ ui_events \in Seq(UiEvents) /\ Len(ui_events) \in Nat /\ n <= Len(ui_events)
  BY DEF TuiInv, ChannelTypes
<1>1. DOMAIN msgs = 1..n /\ \A k \in 1..n : msgs[k] = ui_events[k]
  BY <1>0
<1> HIDE DEF msgs
<1>a. n \in Nat /\ DOMAIN msgs = 1..n
  BY <1>0, <1>1
<1>2. PICK g : /\ g[0] = ui
               /\ \A k \in 1..n : g[k] = reduce_event(g[k - 1], msgs[k])
               /\ Batch(ui, msgs) = g[n]
  BY <1>a, BatchSteps
<1> DEFINE P == {k \in Nat : k <= n => BatchInv(g[k], k)}
<1>3. 0 \in P
  <2>1. BatchInv(ui, 0)
    BY DEF TuiInv, BatchInv, ActiveInv
  <2> QED
    BY <1>2, <2>1
<1>4. ASSUME NEW k \in P PROVE k + 1 \in P
  <2>1. CASE k + 1 <= n
    <3>1. k \in Nat /\ k <= n /\ k + 1 \in 1..n /\ (k + 1) - 1 = k /\ k + 1 <= Len(ui_events)
      BY <1>0, <2>1
    <3>2. BatchInv(g[k], k)
      BY <3>1
    <3>3. g[k + 1] = reduce_event(g[k], ui_events[k + 1])
      BY <1>1, <1>2, <3>1
    <3>4. BatchInv(g[k + 1], k + 1)
      BY <3>1, <3>2, <3>3, EventReduced DEF TuiInv
    <3> QED
      BY <3>1, <3>4
  <2> QED
    BY <2>1
<1> HIDE DEF P
<1>5. P \in SUBSET Nat
  BY DEF P
<1>6. n \in P
  BY <1>0, <1>3, <1>4, <1>5, EveryNumber
<1>7. BatchInv(g[n], n)
  BY <1>0, <1>6 DEF P
<1> QED
  BY <1>2, <1>7 DEF msgs

LEMMA BatchKeeps ==
  ASSUME TuiInv, reduce_event_batch
  PROVE  TuiInv'
<1>1. PICK n \in 1..Len(ui_events) :
          /\ ui_events' = SubSeq(ui_events, n + 1, Len(ui_events))
          /\ TakePending(Batch(ui, SubSeq(ui_events, 1, n)), <<>>)
          /\ UNCHANGED <<loopVars, extras>>
  BY Zenon DEF reduce_event_batch, Batch
<1>2. PICK u : u = Batch(ui, SubSeq(ui_events, 1, n))
  OBVIOUS
<1>3. BatchInv(u, n)
  BY <1>2, BatchReduced
<1>4. QueueOK(u) /\ Left(u) = Left(ui) /\ ActiveAhead(u, n) /\ CardOK(u.card, n)
      /\ SentInv /\ to_loop \in Seq(LoopEvents) /\ ChannelTypes /\ <<>> \in Seq(LoopEvents)
  BY <1>3 DEF TuiInv, BatchInv, ChannelTypes
<1>5. TakePending(u, <<>>) /\ UNCHANGED <<commands, running, results, request, extras>>
  BY <1>1, <1>2 DEF loopVars
<1>6. /\ QueueOK(ui') /\ SentInv' /\ ui'.card = u.card /\ to_loop' \in Seq(LoopEvents)
      /\ ui'.pending # <<>> => ui'.active # NoPrompt
      /\ \/ ui'.active = u.active
         \/ Has(to_loop', [type |-> "PromptSubmitted", turn |-> ui'.active])
      /\ \A e : Has(to_loop, e) => Has(to_loop', e)
  BY <1>4, <1>5, PendingTaken
<1>7. \A p : Decided(p)' => Decided(p)
  <2>1. \A p : ~Has(<<>>, p)
    BY DEF Has
  <2>2. \A p : Has(to_loop', [type |-> "PermissionDecision", turn |-> p]) =>
                       \/ Has(to_loop, [type |-> "PermissionDecision", turn |-> p])
                       \/ Has(<<>>, [type |-> "PermissionDecision", turn |-> p])
    BY <1>4, <1>5, PendingTaken
  <2> QED
    BY <2>1, <2>2 DEF Decided
<1>8. /\ ui_events \in Seq(UiEvents) /\ ui_events' \in Seq(UiEvents) /\ Len(ui_events) \in Nat /\ n \in Nat
      /\ n <= Len(ui_events)
      /\ DOMAIN ui_events = 1..Len(ui_events) /\ DOMAIN ui_events' = 1..(Len(ui_events) - n)
      /\ \A i \in 1..(Len(ui_events) - n) : ui_events'[i] = ui_events[i + n]
  BY <1>1, <1>4 DEF ChannelTypes
<1>9. ASSUME NEW i \in DOMAIN ui_events, i > n
      PROVE  i - n \in DOMAIN ui_events' /\ i - n > 0 /\ ui_events'[i - n] = ui_events[i]
  BY <1>8, <1>9
<1>10. ASSUME NEW i \in DOMAIN ui_events'
       PROVE  i + n \in DOMAIN ui_events /\ i + n > n /\ i > 0 /\ i \in Nat /\ ui_events'[i] = ui_events[i + n]
  BY <1>8
<1>11. ChannelTypes'
  BY <1>4, <1>5, <1>6, <1>8 DEF ChannelTypes
<1>12. \A p : Ahead(p, n) => Ahead(p, 0)'
  BY <1>5, <1>6, <1>9 DEF Ahead
<1>13. ASSUME NEW p, NEW i \in Nat
       PROVE Open(p, i + n) => Open(p, i)'
  <2>1. ASSUME NEW j \in DOMAIN ui_events, j > i + n
        PROVE  j - n \in DOMAIN ui_events' /\ j - n > i /\ ui_events'[j - n] = ui_events[j]
    BY <1>8, <2>1
  <2> QED
    BY <1>5, <2>1 DEF Open
<1>14. \A p : \A i \in DOMAIN ui_events' : Asks(p, i)' <=> Asks(p, i + n)
  BY <1>10 DEF Asks
<1>15. ActiveInv'
  <2>1. PICK a : a = ui'.active
    OBVIOUS
  <2>2. a # NoPrompt => Ahead(a, 0)'
    <3>1. CASE Has(to_loop', [type |-> "PromptSubmitted", turn |-> a])
      BY <3>1 DEF Ahead
    <3>2. CASE a = u.active
      BY <1>4, <1>12, <3>2 DEF ActiveAhead
    <3> QED
      BY <1>6, <2>1, <3>1, <3>2
  <2> QED
    BY <1>6, <2>1, <2>2 DEF ActiveInv, ActiveAhead, Ahead
<1>16. CardOK(ui.card, 0)'
  <2>1. PICK a : a = ui'.card
    OBVIOUS
  <2>2. a # NoPrompt => CardOK(a, 0)'
    <3> SUFFICES ASSUME a # NoPrompt PROVE CardOK(a, 0)'
      OBVIOUS
    <3>1. /\ request[a] # "none" /\ ~Decided(a) /\ Open(a, n)
          /\ \A i \in DOMAIN ui_events : i > n => ~Asks(a, i)
      BY <1>4, <1>6, <2>1 DEF CardOK
    <3>2. Open(a, 0)'
      BY <1>8, <1>13, <3>1
    <3>3. \A i \in DOMAIN ui_events' : ~Asks(a, i)'
      BY <1>10, <1>14, <3>1
    <3> QED
      BY <1>5, <1>7, <3>1, <3>2, <3>3 DEF CardOK
  <2> QED
    BY <2>1, <2>2 DEF CardOK, Decided, Open, Asks
<1>17. RequestInv'
  <2>1. ASSUME NEW p \in PromptIds
        PROVE  /\ Decided(p)' => request'[p] # "none"
               /\ \A i \in DOMAIN ui_events' : Asks(p, i)' =>
                      /\ request'[p] # "none" /\ ~Decided(p)' /\ Open(p, i)'
                      /\ \A j \in DOMAIN ui_events' : Asks(p, j)' => j = i
    <3>1. Decided(p)' => request'[p] # "none"
      BY <1>5, <1>7 DEF TuiInv, RequestInv
    <3>2. ASSUME NEW i \in DOMAIN ui_events', Asks(p, i)'
          PROVE  /\ request'[p] # "none" /\ ~Decided(p)' /\ Open(p, i)'
                 /\ \A j \in DOMAIN ui_events' : Asks(p, j)' => j = i
      <4>1. i + n \in DOMAIN ui_events /\ i \in Nat /\ Asks(p, i + n)
        BY <1>10, <1>14, <3>2
      <4>2. /\ request[p] # "none" /\ ~Decided(p) /\ Open(p, i + n)
            /\ \A j \in DOMAIN ui_events : Asks(p, j) => j = i + n
        BY <4>1 DEF TuiInv, RequestInv
      <4>3. ASSUME NEW j \in DOMAIN ui_events', Asks(p, j)' PROVE j = i
        <5>1. j + n \in DOMAIN ui_events /\ j \in Nat /\ Asks(p, j + n)
          BY <1>10, <1>14, <4>3
        <5>2. j + n = i + n
          BY <4>2, <5>1
        <5> QED
          BY <1>8, <4>1, <5>1, <5>2
      <4> QED
        BY <1>5, <1>7, <1>13, <4>1, <4>2, <4>3
    <3> QED
      BY <3>1, <3>2
  <2> QED
    BY <2>1 DEF RequestInv
<1> QED
  BY <1>6, <1>11, <1>15, <1>16, <1>17 DEF TuiInv

-----------------------------------------------------------------------------
(* The loop and the worker: none of them touches the interface.            *)

\* What is ahead stays ahead, and what an open request hangs on stays.
LEMMA BehindKeeps ==
  ASSUME TuiInv, UNCHANGED <<ui, sent>>, ChannelTypes',
         \A p \in PromptIds : Ahead(p, 0) => Ahead(p, 0)',
         \A p \in PromptIds : request[p] # "none" => request'[p] # "none",
         \A p \in PromptIds : Decided(p)' => Decided(p),
         \A p \in PromptIds : \A k \in Nat :
             /\ (k = 0 /\ ui.card = p) \/ (k \in DOMAIN ui_events /\ Asks(p, k))
             /\ Open(p, k)
             => Open(p, k)',
         \A i \in DOMAIN ui_events : i \in DOMAIN ui_events' /\ ui_events'[i] = ui_events[i],
         \A p \in PromptIds : \A i \in DOMAIN ui_events' :
             Asks(p, i)' => \/ i \in DOMAIN ui_events
                            \/ /\ request[p] = "none" /\ request'[p] # "none" /\ Open(p, i)'
                               /\ \A j \in DOMAIN ui_events' : j \notin DOMAIN ui_events => j = i
  PROVE  TuiInv'
<1>1. QueueOK(ui') /\ SentInv'
  BY DEF TuiInv, SentInv, QueueOK, QueueShape, Left
<1>2. ui.active \in PromptIds \cup {NoPrompt} /\ ui.card \in PromptIds \cup {NoPrompt}
      /\ ui' = ui /\ ui_events \in Seq(UiEvents)
  BY DEF TuiInv, QueueOK, UiRecord, ChannelTypes
<1>3. ActiveInv'
  <2>1. PICK a : a = ui.active /\ a = ui'.active
    BY <1>2
  <2>2. a # NoPrompt => Ahead(a, 0)'
    BY <1>2, <2>1 DEF TuiInv, ActiveInv, ActiveAhead
  <2> QED
    BY <1>2, <2>1, <2>2 DEF TuiInv, ActiveInv, ActiveAhead, Ahead
<1>4. \A p \in PromptIds : \A i \in DOMAIN ui_events : Asks(p, i)' <=> Asks(p, i)
  BY DEF Asks
<1>5. CardOK(ui.card, 0)'
  <2>1. PICK a : a = ui.card /\ a = ui'.card
    BY <1>2
  <2>2. a # NoPrompt => CardOK(a, 0)'
    <3> SUFFICES ASSUME a # NoPrompt PROVE CardOK(a, 0)'
      OBVIOUS
    <3>0. a \in PromptIds
      BY <1>2, <2>1
    <3>1. /\ request[a] # "none" /\ ~Decided(a) /\ Open(a, 0)
          /\ \A i \in DOMAIN ui_events : i > 0 => ~Asks(a, i)
      BY <2>1 DEF TuiInv, CardOK
    <3>2. Open(a, 0)'
      <4>1. 0 \in Nat /\ ui.card = a
        BY <2>1
      <4> QED
        BY <3>0, <3>1, <4>1
    <3>3. \A i \in DOMAIN ui_events : i > 0
      BY <1>2
    <3>4. \A i \in DOMAIN ui_events' : ~Asks(a, i)'
      BY <1>4, <3>0, <3>1, <3>3
    <3> QED
      BY <3>0, <3>1, <3>2, <3>4 DEF CardOK
  <2> QED
    BY <2>1, <2>2 DEF CardOK, Decided, Open, Asks
<1>6. RequestInv'
  <2>1. ASSUME NEW p \in PromptIds
        PROVE  /\ Decided(p)' => request'[p] # "none"
               /\ \A i \in DOMAIN ui_events' : Asks(p, i)' =>
                      /\ request'[p] # "none" /\ ~Decided(p)' /\ Open(p, i)'
                      /\ \A j \in DOMAIN ui_events' : Asks(p, j)' => j = i
    <3>1. /\ Decided(p) => request[p] # "none"
          /\ \A i \in DOMAIN ui_events : Asks(p, i) =>
                 /\ request[p] # "none" /\ ~Decided(p) /\ Open(p, i)
                 /\ \A j \in DOMAIN ui_events : Asks(p, j) => j = i
      BY DEF TuiInv, RequestInv
    <3>2. ASSUME NEW i \in DOMAIN ui_events', Asks(p, i)'
          PROVE  /\ request'[p] # "none" /\ ~Decided(p)' /\ Open(p, i)'
                 /\ \A j \in DOMAIN ui_events' : Asks(p, j)' => j = i
      <4>1. CASE i \in DOMAIN ui_events
        <5>1. Asks(p, i) /\ i \in Nat
          BY <1>2, <1>4, <3>2, <4>1
        <5>2. request[p] # "none" /\ ~Decided(p) /\ Open(p, i)
          BY <3>1, <4>1, <5>1
        <5>3. Open(p, i)'
          BY <4>1, <5>1, <5>2
        <5>4. \A j \in DOMAIN ui_events' : Asks(p, j)' => j \in DOMAIN ui_events
          BY <5>2
        <5>5. \A j \in DOMAIN ui_events' : Asks(p, j)' => j = i
          BY <1>4, <3>1, <4>1, <5>1, <5>4
        <5> QED
          BY <5>2, <5>3, <5>5
      <4>2. CASE i \notin DOMAIN ui_events
        <5>1. /\ request[p] = "none" /\ request'[p] # "none" /\ Open(p, i)'
              /\ \A j \in DOMAIN ui_events' : j \notin DOMAIN ui_events => j = i
          BY <3>2, <4>2
        <5>2. ~Decided(p)
          BY <3>1, <5>1
        <5>3. \A j \in DOMAIN ui_events : ~Asks(p, j)
          BY <3>1, <5>1
        <5>4. \A j \in DOMAIN ui_events' : Asks(p, j)' => j = i
          BY <1>4, <5>1, <5>3
        <5> QED
          BY <5>1, <5>2, <5>4
      <4> QED
        BY <4>1, <4>2
    <3> QED
      BY <3>1, <3>2
  <2> QED
    BY <2>1 DEF RequestInv
<1> QED
  BY <1>1, <1>3, <1>5, <1>6 DEF TuiInv

\* An event that is published comes after the others.
LEMMA Published ==
  ASSUME ChannelTypes, NEW type \in {"InferenceStarted", "PermissionRequested",
                                     "PermissionDecisionTimedOut", "TurnCompleted", "TurnError"},
         NEW t \in PromptIds, Publish(type, t)
  PROVE  /\ ui_events' \in Seq(UiEvents)
         /\ \A i \in DOMAIN ui_events : i \in DOMAIN ui_events' /\ ui_events'[i] = ui_events[i]
         /\ \E n \in DOMAIN ui_events' :
                /\ n > 0 /\ \A i \in DOMAIN ui_events : n > i
                /\ ui_events'[n].turn = t /\ ui_events'[n].type = type
                /\ \A i \in DOMAIN ui_events' : i \in DOMAIN ui_events \/ i = n
<1> DEFINE e == [type |-> type, turn |-> t]
<1>1. e \in UiEvents /\ e.turn = t /\ e.type = type
  BY DEF UiEvents
<1> HIDE DEF e
<1>2. ui_events \in Seq(UiEvents) /\ ui_events' = Append(ui_events, e)
  BY DEF ChannelTypes, Publish, e
<1>3. /\ ui_events' \in Seq(UiEvents) /\ Len(ui_events) \in Nat
      /\ DOMAIN ui_events = 1..Len(ui_events) /\ DOMAIN ui_events' = 1..(Len(ui_events) + 1)
      /\ \A i \in 1..Len(ui_events) : ui_events'[i] = ui_events[i]
      /\ ui_events'[Len(ui_events) + 1] = e
  BY <1>1, <1>2
<1>4. PICK n \in Nat : n = Len(ui_events) + 1
  BY <1>3
<1>5. /\ n \in DOMAIN ui_events' /\ n > 0 /\ \A i \in DOMAIN ui_events : n > i
      /\ ui_events'[n] = e
      /\ \A i \in DOMAIN ui_events' : i \in DOMAIN ui_events \/ i = n
  BY <1>3, <1>4
<1> QED
  BY <1>1, <1>3, <1>5

LEMMA RunningTypes ==
  ASSUME ChannelTypes
  PROVE  /\ running.turn \in PromptIds \cup {NoPrompt} /\ running.begun \in BOOLEAN
         /\ running.cancelled \in BOOLEAN
         /\ running # NoTurn => /\ running.turn \in PromptIds
                                /\ running \in [turn : PromptIds, begun : BOOLEAN, cancelled : BOOLEAN]
         /\ running.begun => running # NoTurn
<1> DEFINE R == [turn : PromptIds, begun : BOOLEAN, cancelled : BOOLEAN]
<1>1. running \in R \/ running = NoTurn
  BY Zenon DEF ChannelTypes
<1>2. NoTurn.turn = NoPrompt /\ NoTurn.begun = FALSE /\ NoTurn.cancelled = FALSE
  BY DEF NoTurn
<1>3. running \in R =>
          running.turn \in PromptIds /\ running.begun \in BOOLEAN /\ running.cancelled \in BOOLEAN
  OBVIOUS
<1> HIDE DEF R
<1>4. CASE running = NoTurn
  BY <1>2, <1>4
<1>5. CASE running # NoTurn
  BY <1>1, <1>3, <1>5 DEF R
<1> QED
  BY <1>4, <1>5

LEMMA TurnFailureKeeps ==
  ASSUME TuiInv, TurnFailureReported
  PROVE  TuiInv'
<1>1. /\ results # <<>> /\ results' = Tail(results) /\ Publish("TurnError", Head(results))
      /\ UNCHANGED <<ui, to_loop, commands, running, request, sent, extras>>
  BY Zenon DEF TurnFailureReported
<1>2. ChannelTypes /\ results \in Seq(PromptIds) /\ Head(results) \in PromptIds
  BY <1>1 DEF TuiInv, ChannelTypes
<1>3. /\ ui_events' \in Seq(UiEvents)
      /\ \A i \in DOMAIN ui_events : i \in DOMAIN ui_events' /\ ui_events'[i] = ui_events[i]
  BY <1>1, <1>2, Published
<1>4. PICK n \in DOMAIN ui_events' :
                /\ n > 0 /\ \A i \in DOMAIN ui_events : n > i
                /\ ui_events'[n].turn = Head(results) /\ ui_events'[n].type = "TurnError"
                /\ \A i \in DOMAIN ui_events' : i \in DOMAIN ui_events \/ i = n
  BY <1>1, <1>2, Published
<1>5. \A p : Has(results, p) <=> Has(results', p) \/ p = Head(results)
  BY <1>1, <1>2, HasTail
<1>6. ChannelTypes'
  BY <1>1, <1>2, <1>3 DEF ChannelTypes
<1>7. "TurnError" \in Ends
  BY DEF Ends
<1>8. \A p \in PromptIds : Ahead(p, 0) => Ahead(p, 0)'
  BY <1>1, <1>3, <1>4, <1>5, <1>7 DEF Ahead
<1>9. ASSUME NEW p \in PromptIds, NEW k \in Nat, k = 0 \/ k \in DOMAIN ui_events, Open(p, k)
      PROVE  Open(p, k)'
  <2>1. n > k
    BY <1>4, <1>9
  <2> QED
    BY <1>1, <1>3, <1>4, <1>5, <1>7, <1>9, <2>1 DEF Open
<1>10. \A p \in PromptIds : \A i \in DOMAIN ui_events' : Asks(p, i)' => i \in DOMAIN ui_events
  BY <1>4 DEF Asks
<1>11. \A p \in PromptIds : /\ request[p] # "none" => request'[p] # "none"
                            /\ Decided(p)' => Decided(p)
  BY <1>1 DEF Decided
<1> QED
  BY <1>1, <1>3, <1>6, <1>8, <1>9, <1>10, <1>11, BehindKeeps

LEMMA WorkerTakesKeeps ==
  ASSUME TuiInv, WorkerTakes
  PROVE  TuiInv'
<1>1. /\ running = NoTurn /\ commands # <<>>
      /\ running' = [NoTurn EXCEPT !.turn = Head(commands)] /\ commands' = Tail(commands)
      /\ UNCHANGED <<ui, to_loop, results, ui_events, request, sent, extras>>
  BY Zenon DEF WorkerTakes
<1>2. ChannelTypes /\ commands \in Seq(PromptIds) /\ Head(commands) \in PromptIds
  BY <1>1 DEF TuiInv, ChannelTypes
<1>3. /\ running' \in [turn : PromptIds, begun : BOOLEAN, cancelled : BOOLEAN]
      /\ running'.turn = Head(commands) /\ running.turn = NoPrompt /\ NoPrompt \notin PromptIds
  <2>1. \A r \in [turn : {NoPrompt}, begun : BOOLEAN, cancelled : BOOLEAN], h \in PromptIds :
            /\ [r EXCEPT !.turn = h] \in [turn : PromptIds, begun : BOOLEAN, cancelled : BOOLEAN]
            /\ [r EXCEPT !.turn = h].turn = h
    OBVIOUS
  <2>2. NoTurn.turn = NoPrompt /\ NoPrompt \notin PromptIds
    BY DEF NoTurn, NoPrompt, PromptIds
  <2>3. NoTurn \in [turn : {NoPrompt}, begun : BOOLEAN, cancelled : BOOLEAN]
    BY DEF NoTurn
  <2> QED
    BY <1>1, <1>2, <2>1, <2>2, <2>3
<1>a. commands' \in Seq(PromptIds)
  BY <1>1, <1>2
<1>4. \A p : Has(commands, p) <=> Has(commands', p) \/ p = Head(commands)
  BY <1>1, <1>2, HasTail
<1>5. ChannelTypes'
  BY <1>a, <1>1, <1>2, <1>3 DEF ChannelTypes
<1>6. \A p \in PromptIds : Ahead(p, 0) => Ahead(p, 0)'
  BY <1>1, <1>3, <1>4 DEF Ahead
<1>7. \A p : \A k : Open(p, k) => Open(p, k)'
  BY <1>1 DEF Open
<1>8. \A p \in PromptIds : /\ request[p] # "none" => request'[p] # "none"
                           /\ Decided(p)' => Decided(p)
  BY <1>1 DEF Decided
<1>9. DOMAIN ui_events' = DOMAIN ui_events /\ \A i : ui_events'[i] = ui_events[i]
  BY <1>1
<1> QED
  BY <1>1, <1>5, <1>6, <1>7, <1>8, <1>9, BehindKeeps

LEMMA InferenceKeeps ==
  ASSUME TuiInv, InferenceStarts
  PROVE  TuiInv'
<1>1. /\ running # NoTurn
      /\ running' = [running EXCEPT !.begun = TRUE] /\ Publish("InferenceStarted", running.turn)
      /\ UNCHANGED <<ui, to_loop, commands, results, request, sent, extras>>
  BY Zenon DEF InferenceStarts
<1>2. ChannelTypes /\ running.turn \in PromptIds
      /\ running \in [turn : PromptIds, begun : BOOLEAN, cancelled : BOOLEAN]
  BY <1>1, RunningTypes DEF TuiInv
<1>3. /\ ui_events' \in Seq(UiEvents)
      /\ \A i \in DOMAIN ui_events : i \in DOMAIN ui_events' /\ ui_events'[i] = ui_events[i]
  BY <1>1, <1>2, Published
<1>4. PICK n \in DOMAIN ui_events' :
                /\ n > 0 /\ \A i \in DOMAIN ui_events : n > i
                /\ ui_events'[n].turn = running.turn /\ ui_events'[n].type = "InferenceStarted"
                /\ \A i \in DOMAIN ui_events' : i \in DOMAIN ui_events \/ i = n
  BY <1>1, <1>2, Published
<1>5. running' \in [turn : PromptIds, begun : BOOLEAN, cancelled : BOOLEAN]
      /\ running'.turn = running.turn
  BY <1>1, <1>2
<1>6. ChannelTypes'
  BY <1>1, <1>2, <1>3, <1>5 DEF ChannelTypes
<1>7. \A p \in PromptIds : Ahead(p, 0) => Ahead(p, 0)'
  BY <1>1, <1>3, <1>5 DEF Ahead
<1>8. \A p \in PromptIds : \A k \in Nat : Open(p, k) => Open(p, k)'
  BY <1>1, <1>3 DEF Open
<1>9. \A p \in PromptIds : \A i \in DOMAIN ui_events' : Asks(p, i)' => i \in DOMAIN ui_events
  BY <1>4 DEF Asks
<1>10. \A p \in PromptIds : /\ request[p] # "none" => request'[p] # "none"
                            /\ Decided(p)' => Decided(p)
  BY <1>1 DEF Decided
<1> QED
  BY <1>1, <1>3, <1>6, <1>7, <1>8, <1>9, <1>10, BehindKeeps

LEMMA AskKeeps ==
  ASSUME TuiInv, TurnAsksUser
  PROVE  TuiInv'
<1>1. /\ running.begun /\ request[running.turn] = "none"
      /\ request' = [request EXCEPT ![running.turn] = "asked"]
      /\ Publish("PermissionRequested", running.turn)
      /\ UNCHANGED <<ui, to_loop, commands, running, results, sent, extras>>
  BY Zenon DEF TurnAsksUser
<1>2. ChannelTypes /\ running.turn \in PromptIds
      /\ request \in [PromptIds -> {"none", "asked", "ended"}]
  BY <1>1, RunningTypes DEF TuiInv, ChannelTypes
<1>3. /\ ui_events' \in Seq(UiEvents)
      /\ \A i \in DOMAIN ui_events : i \in DOMAIN ui_events' /\ ui_events'[i] = ui_events[i]
  BY <1>1, <1>2, Published
<1>4. PICK n \in DOMAIN ui_events' :
                /\ n > 0 /\ \A i \in DOMAIN ui_events : n > i
                /\ ui_events'[n].turn = running.turn /\ ui_events'[n].type = "PermissionRequested"
                /\ \A i \in DOMAIN ui_events' : i \in DOMAIN ui_events \/ i = n
  BY <1>1, <1>2, Published
<1>5. /\ request' \in [PromptIds -> {"none", "asked", "ended"}]
      /\ \A p \in PromptIds : request'[p] = IF p = running.turn THEN "asked" ELSE request[p]
  BY <1>1, <1>2
<1>6. ChannelTypes'
  BY <1>1, <1>2, <1>3, <1>5 DEF ChannelTypes
<1>7. \A p \in PromptIds : Ahead(p, 0) => Ahead(p, 0)'
  BY <1>1, <1>3 DEF Ahead
<1>8. \A p \in PromptIds : \A k \in Nat : Open(p, k) => Open(p, k)'
  BY <1>1, <1>3, <1>5 DEF Open
<1>9. ASSUME NEW p \in PromptIds, NEW i \in DOMAIN ui_events', Asks(p, i)', i \notin DOMAIN ui_events
      PROVE  /\ request[p] = "none" /\ request'[p] # "none" /\ Open(p, i)'
             /\ \A j \in DOMAIN ui_events' : j \notin DOMAIN ui_events => j = i
  <2>1. i = n /\ p = running.turn
    BY <1>4, <1>9 DEF Asks
  <2> QED
    BY <1>1, <1>4, <1>5, <2>1 DEF Open
<1>10. \A p \in PromptIds : /\ request[p] # "none" => request'[p] # "none"
                            /\ Decided(p)' => Decided(p)
  BY <1>1, <1>5 DEF Decided
<1> QED
  BY <1>1, <1>3, <1>6, <1>7, <1>8, <1>9, <1>10, BehindKeeps

LEMMA TimeoutKeeps ==
  ASSUME TuiInv, AskTimesOut
  PROVE  TuiInv'
<1>1. /\ running # NoTurn
      /\ request' = [request EXCEPT ![running.turn] = "ended"]
      /\ Publish("PermissionDecisionTimedOut", running.turn)
      /\ UNCHANGED <<ui, to_loop, commands, running, results, sent, extras>>
  BY Zenon DEF AskTimesOut
<1>2. ChannelTypes /\ running.turn \in PromptIds
      /\ request \in [PromptIds -> {"none", "asked", "ended"}]
  BY <1>1, RunningTypes DEF TuiInv, ChannelTypes
<1>3. /\ ui_events' \in Seq(UiEvents)
      /\ \A i \in DOMAIN ui_events : i \in DOMAIN ui_events' /\ ui_events'[i] = ui_events[i]
  BY <1>1, <1>2, Published
<1>4. PICK n \in DOMAIN ui_events' :
                /\ n > 0 /\ \A i \in DOMAIN ui_events : n > i
                /\ ui_events'[n].turn = running.turn
                /\ ui_events'[n].type = "PermissionDecisionTimedOut"
                /\ \A i \in DOMAIN ui_events' : i \in DOMAIN ui_events \/ i = n
  BY <1>1, <1>2, Published
<1>5. /\ request' \in [PromptIds -> {"none", "asked", "ended"}]
      /\ \A p \in PromptIds : request'[p] = IF p = running.turn THEN "ended" ELSE request[p]
  BY <1>1, <1>2
<1>6. ChannelTypes'
  BY <1>1, <1>2, <1>3, <1>5 DEF ChannelTypes
<1>7. \A p \in PromptIds : Ahead(p, 0) => Ahead(p, 0)'
  BY <1>1, <1>3 DEF Ahead
<1>8. ASSUME NEW p \in PromptIds, NEW k \in Nat, k = 0 \/ k \in DOMAIN ui_events, Open(p, k)
      PROVE  Open(p, k)'
  <2>1. CASE p = running.turn
    <3>1. n > k
      BY <1>4, <1>8
    <3> QED
      BY <1>4, <2>1, <3>1 DEF Open
  <2>2. CASE p # running.turn
    BY <1>1, <1>3, <1>5, <1>8, <2>2 DEF Open
  <2> QED
    BY <2>1, <2>2
<1>9. \A p \in PromptIds : \A i \in DOMAIN ui_events' : Asks(p, i)' => i \in DOMAIN ui_events
  BY <1>4 DEF Asks
<1>10. \A p \in PromptIds : /\ request[p] # "none" => request'[p] # "none"
                            /\ Decided(p)' => Decided(p)
  BY <1>1, <1>5 DEF Decided
<1> QED
  BY <1>1, <1>3, <1>6, <1>7, <1>8, <1>9, <1>10, BehindKeeps

LEMMA RemoteCancelKeeps ==
  ASSUME TuiInv, RemoteCancel
  PROVE  TuiInv'
<1>1. /\ running # NoTurn /\ extras' = extras + 1
      /\ running' = [running EXCEPT !.cancelled = TRUE]
      /\ UNCHANGED <<ui, to_loop, commands, results, ui_events, request, sent>>
  BY Zenon DEF RemoteCancel, Extra
<1>2. ChannelTypes /\ extras \in Nat
      /\ running \in [turn : PromptIds, begun : BOOLEAN, cancelled : BOOLEAN]
  BY <1>1, RunningTypes DEF TuiInv, ChannelTypes
<1>3. running' \in [turn : PromptIds, begun : BOOLEAN, cancelled : BOOLEAN]
      /\ running'.turn = running.turn /\ extras' \in Nat
  <2>1. \A r \in [turn : PromptIds, begun : BOOLEAN, cancelled : BOOLEAN] :
            /\ [r EXCEPT !.cancelled = TRUE] \in [turn : PromptIds, begun : BOOLEAN, cancelled : BOOLEAN]
            /\ [r EXCEPT !.cancelled = TRUE].turn = r.turn
    OBVIOUS
  <2>2. extras' \in Nat
    BY <1>1, <1>2
  <2> QED
    BY <1>1, <1>2, <2>1, <2>2
<1>4. ChannelTypes'
  BY <1>1, <1>2, <1>3 DEF ChannelTypes
<1>5. \A p \in PromptIds : Ahead(p, 0) => Ahead(p, 0)'
  BY <1>1, <1>3 DEF Ahead
<1>6. \A p : \A k : Open(p, k) => Open(p, k)'
  BY <1>1 DEF Open
<1>7. \A p \in PromptIds : /\ request[p] # "none" => request'[p] # "none"
                           /\ Decided(p)' => Decided(p)
  BY <1>1 DEF Decided
<1>8. DOMAIN ui_events' = DOMAIN ui_events /\ \A i : ui_events'[i] = ui_events[i]
  BY <1>1
<1> QED
  BY <1>1, <1>4, <1>5, <1>6, <1>7, <1>8, BehindKeeps

\* The end of a turn ends its request and is told by one of two ways.
LEMMA EndKeeps ==
  ASSUME TuiInv, TurnCompletes \/ TurnFails
  PROVE  TuiInv'
<1>1. /\ running # NoTurn /\ running' = NoTurn
      /\ request' = [request EXCEPT ![running.turn] = IF @ = "asked" THEN "ended" ELSE @]
      /\ UNCHANGED <<ui, to_loop, commands, sent, extras>>
  BY Zenon DEF TurnCompletes, TurnFails, EndTurn, CanEnd
<1>2. ChannelTypes /\ running.turn \in PromptIds /\ results \in Seq(PromptIds)
      /\ request \in [PromptIds -> {"none", "asked", "ended"}]
  BY <1>1, RunningTypes DEF TuiInv, ChannelTypes
<1>3. /\ request' \in [PromptIds -> {"none", "asked", "ended"}]
      /\ \A p \in PromptIds : p # running.turn => request'[p] = request[p]
      /\ \A p \in PromptIds : request[p] # "none" => request'[p] # "none"
  BY <1>1, <1>2
<1>4. \A p : Decided(p)' => Decided(p)
  BY <1>1 DEF Decided
<1>5. running' \in [turn : PromptIds, begun : BOOLEAN, cancelled : BOOLEAN] \cup {NoTurn}
      /\ running'.turn = NoPrompt /\ NoPrompt \notin PromptIds
  <2>1. NoTurn.turn = NoPrompt /\ NoPrompt \notin PromptIds
    BY DEF NoTurn, NoPrompt, PromptIds
  <2>2. running' = NoTurn
    BY <1>1
  <2> QED
    BY ONLY <2>1, <2>2
<1>6. CASE TurnCompletes
  <2>1. Publish("TurnCompleted", running.turn) /\ UNCHANGED results
    BY <1>6, Zenon DEF TurnCompletes
  <2>2. /\ ui_events' \in Seq(UiEvents)
        /\ \A i \in DOMAIN ui_events : i \in DOMAIN ui_events' /\ ui_events'[i] = ui_events[i]
    BY <1>2, <2>1, Published
  <2>3. PICK n \in DOMAIN ui_events' :
                /\ n > 0 /\ \A i \in DOMAIN ui_events : n > i
                /\ ui_events'[n].turn = running.turn /\ ui_events'[n].type = "TurnCompleted"
                /\ \A i \in DOMAIN ui_events' : i \in DOMAIN ui_events \/ i = n
    BY <1>2, <2>1, Published
  <2>4. ChannelTypes'
    BY <1>1, <1>2, <1>3, <1>5, <2>1, <2>2 DEF ChannelTypes
  <2>5. "TurnCompleted" \in Ends
    BY DEF Ends
  <2>6. \A p \in PromptIds : Ahead(p, 0) => Ahead(p, 0)'
    BY <1>1, <2>1, <2>2, <2>3, <2>5 DEF Ahead
  <2>7. ASSUME NEW p \in PromptIds, NEW k \in Nat, k = 0 \/ k \in DOMAIN ui_events, Open(p, k)
        PROVE  Open(p, k)'
    <3>1. CASE p = running.turn
      <4>1. n > k
        BY <2>3, <2>7
      <4> QED
        BY <2>3, <2>5, <3>1, <4>1 DEF Open
    <3>2. CASE p # running.turn
      BY <1>3, <2>1, <2>2, <2>7, <3>2 DEF Open
    <3> QED
      BY <3>1, <3>2
  <2>8. \A p \in PromptIds : \A i \in DOMAIN ui_events' : Asks(p, i)' => i \in DOMAIN ui_events
    BY <2>3 DEF Asks
  <2> QED
    BY <1>1, <1>3, <1>4, <2>2, <2>4, <2>6, <2>7, <2>8, BehindKeeps
<1>7. CASE TurnFails
  <2>1. results' = Append(results, running.turn) /\ UNCHANGED ui_events
    BY <1>7, Zenon DEF TurnFails
  <2>2. \A p : Has(results', p) <=> Has(results, p) \/ p = running.turn
    BY <1>2, <2>1, HasAppended
  <2>3. ChannelTypes'
    BY <1>1, <1>2, <1>3, <1>5, <2>1 DEF ChannelTypes
  <2>4. \A p \in PromptIds : Ahead(p, 0) => Ahead(p, 0)'
    BY <1>1, <2>1, <2>2 DEF Ahead
  <2>5. \A p \in PromptIds : \A k \in Nat : Open(p, k) => Open(p, k)'
    BY <1>3, <2>1, <2>2 DEF Open
  <2>6. DOMAIN ui_events' = DOMAIN ui_events /\ \A i : ui_events'[i] = ui_events[i]
    BY <2>1
  <2> QED
    BY <1>1, <1>3, <1>4, <2>3, <2>4, <2>5, <2>6, BehindKeeps
<1> QED
  BY <1>6, <1>7

LEMMA LoopEventKeeps ==
  ASSUME TuiInv, LoopEvent
  PROVE  TuiInv'
<1> DEFINE e == Head(to_loop)
<1>1. /\ to_loop # <<>> /\ to_loop' = Tail(to_loop)
      /\ UNCHANGED <<ui, results, ui_events, sent, extras>>
  BY Zenon DEF LoopEvent
<1>2. ChannelTypes /\ to_loop \in Seq(LoopEvents) /\ commands \in Seq(PromptIds)
      /\ request \in [PromptIds -> {"none", "asked", "ended"}]
  BY DEF TuiInv, ChannelTypes
<1>3. e \in LoopEvents /\ to_loop' \in Seq(LoopEvents)
  BY <1>1, <1>2
<1>4. \A x : Has(to_loop, x) <=> Has(to_loop', x) \/ x = e
  BY <1>1, <1>2, HasTail
<1>5. /\ e.type = "PromptSubmitted" => /\ commands' = Append(commands, e.turn)
                                       /\ UNCHANGED <<running, request>>
      /\ e.type = "PermissionDecision" =>
             /\ request' = [request EXCEPT ![e.turn] = IF @ = "asked" THEN "ended" ELSE @]
             /\ UNCHANGED <<commands, running>>
      /\ e.type = "CancelRequested" =>
             /\ running' = [running EXCEPT !.cancelled = running.turn # NoPrompt]
             /\ UNCHANGED <<commands, request>>
  <2>1. e.type = "PromptSubmitted" => /\ commands' = Append(commands, e.turn)
                                      /\ UNCHANGED <<running, request>>
    BY Zenon DEF LoopEvent
  <2>2. "PermissionDecision" # "PromptSubmitted" /\ "CancelRequested" # "PromptSubmitted"
        /\ "CancelRequested" # "PermissionDecision"
    OBVIOUS
  <2>3. e.type = "PermissionDecision" =>
             /\ request' = [request EXCEPT ![e.turn] = IF @ = "asked" THEN "ended" ELSE @]
             /\ UNCHANGED <<commands, running>>
    BY <2>2, Zenon DEF LoopEvent
  <2>4. e.type = "CancelRequested" =>
             /\ running' = [running EXCEPT !.cancelled = running.turn # NoPrompt]
             /\ UNCHANGED <<commands, request>>
    BY <2>2, Zenon DEF LoopEvent
  <2> QED
    BY <2>1, <2>3, <2>4
<1> HIDE DEF e
<1>6. /\ e.type \in {"PromptSubmitted", "PermissionDecision", "CancelRequested"}
      /\ e.type \in {"PromptSubmitted", "PermissionDecision"} =>
             e.turn \in PromptIds /\ e = [type |-> e.type, turn |-> e.turn]
  BY <1>3 DEF LoopEvents
<1>7. \A p : Decided(p)' => Decided(p)
  BY <1>4 DEF Decided
<1>8. DOMAIN ui_events' = DOMAIN ui_events /\ \A i : ui_events'[i] = ui_events[i]
  BY <1>1
<1>9. CASE e.type = "PromptSubmitted"
  <2>1. /\ commands' = Append(commands, e.turn) /\ UNCHANGED <<running, request>>
        /\ e.turn \in PromptIds /\ e = [type |-> "PromptSubmitted", turn |-> e.turn]
    BY <1>5, <1>6, <1>9
  <2>2. \A p : Has(commands', p) <=> Has(commands, p) \/ p = e.turn
    BY <1>2, <2>1, HasAppended
  <2>3. commands' \in Seq(PromptIds)
    BY <1>2, <2>1
  <2>4. ChannelTypes'
    BY <1>1, <1>2, <1>3, <2>1, <2>3 DEF ChannelTypes
  <2>5. ASSUME NEW p \in PromptIds, Ahead(p, 0) PROVE Ahead(p, 0)'
    <3>1. CASE Has(to_loop, [type |-> "PromptSubmitted", turn |-> p])
      <4>1. [type |-> "PromptSubmitted", turn |-> p] = e => p = e.turn
        BY <2>1
      <4> QED
        BY <1>4, <2>2, <3>1, <4>1 DEF Ahead
    <3>2. CASE ~Has(to_loop, [type |-> "PromptSubmitted", turn |-> p])
      BY <1>1, <2>1, <2>2, <2>5, <3>2 DEF Ahead
    <3> QED
      BY <3>1, <3>2
  <2>6. \A p : \A k : Open(p, k) => Open(p, k)'
    BY <1>1, <2>1 DEF Open
  <2> QED
    BY <1>1, <1>7, <1>8, <2>1, <2>4, <2>5, <2>6, BehindKeeps
<1>10. ASSUME e.type # "PromptSubmitted", UNCHANGED commands, running'.turn = running.turn
       PROVE  \A p \in PromptIds : Ahead(p, 0) => Ahead(p, 0)'
  <2>1. \A p : e # [type |-> "PromptSubmitted", turn |-> p]
    BY <1>10
  <2>2. \A p : Has(to_loop, [type |-> "PromptSubmitted", turn |-> p])
                   => Has(to_loop', [type |-> "PromptSubmitted", turn |-> p])
    BY <1>4, <2>1
  <2> QED
    BY <1>1, <1>10, <2>2 DEF Ahead
<1>11. CASE e.type = "PermissionDecision"
  <2>1. /\ request' = [request EXCEPT ![e.turn] = IF @ = "asked" THEN "ended" ELSE @]
        /\ UNCHANGED <<commands, running>>
        /\ e.turn \in PromptIds /\ e = [type |-> "PermissionDecision", turn |-> e.turn]
    BY <1>5, <1>6, <1>11
  <2>2. /\ request' \in [PromptIds -> {"none", "asked", "ended"}]
        /\ \A p \in PromptIds : p # e.turn => request'[p] = request[p]
        /\ \A p \in PromptIds : request[p] # "none" => request'[p] # "none"
    BY <1>2, <2>1
  <2>3. ChannelTypes'
    BY <1>1, <1>2, <1>3, <2>1, <2>2 DEF ChannelTypes
  <2>4. Decided(e.turn)
    BY <1>4, <2>1 DEF Decided
  <2>5. ASSUME NEW p \in PromptIds, NEW k \in Nat, Open(p, k),
               (k = 0 /\ ui.card = p) \/ (k \in DOMAIN ui_events /\ Asks(p, k))
        PROVE  Open(p, k)'
    <3>1. NoPrompt \notin PromptIds
      BY DEF NoPrompt, PromptIds
    <3>2. p # e.turn
      BY <2>4, <2>5, <3>1 DEF TuiInv, CardOK, RequestInv
    <3> QED
      BY <1>1, <2>2, <2>5, <3>2 DEF Open
  <2>6. \A p \in PromptIds : Ahead(p, 0) => Ahead(p, 0)'
    BY <1>10, <1>11, <2>1
  <2> QED
    BY <1>1, <1>7, <1>8, <2>2, <2>3, <2>5, <2>6, BehindKeeps
<1>12. CASE e.type = "CancelRequested"
  <2>1. /\ running' = [running EXCEPT !.cancelled = running.turn # NoPrompt]
        /\ UNCHANGED <<commands, request>>
    BY <1>5, <1>12
  <2>2. running' \in [turn : PromptIds, begun : BOOLEAN, cancelled : BOOLEAN] \cup {NoTurn}
        /\ running'.turn = running.turn
    <3>1. CASE running = NoTurn
      <4>1. NoTurn.turn = NoPrompt
        BY DEF NoTurn
      <4>2. \A r \in [turn : {NoPrompt}, begun : {FALSE}, cancelled : {FALSE}] :
                [r EXCEPT !.cancelled = FALSE] = r
        OBVIOUS
      <4>3. NoTurn \in [turn : {NoPrompt}, begun : {FALSE}, cancelled : {FALSE}]
        BY DEF NoTurn
      <4>4. (NoPrompt # NoPrompt) = FALSE
        OBVIOUS
      <4>5. running' = NoTurn
        BY <2>1, <3>1, <4>1, <4>2, <4>3, <4>4
      <4> QED
        BY <3>1, <4>5
    <3>2. CASE running # NoTurn
      <4>1. running \in [turn : PromptIds, begun : BOOLEAN, cancelled : BOOLEAN]
        BY <1>2, <3>2, RunningTypes
      <4>2. PICK b \in BOOLEAN : b = (running.turn # NoPrompt)
        OBVIOUS
      <4> QED
        BY <2>1, <4>1, <4>2
    <3> QED
      BY <3>1, <3>2
  <2>3. ChannelTypes'
    BY <1>1, <1>2, <1>3, <2>1, <2>2 DEF ChannelTypes
  <2>4. \A p \in PromptIds : Ahead(p, 0) => Ahead(p, 0)'
    BY <1>10, <1>12, <2>1, <2>2
  <2>5. \A p : \A k : Open(p, k) => Open(p, k)'
    BY <1>1, <2>1 DEF Open
  <2> QED
    BY <1>1, <1>7, <1>8, <2>1, <2>3, <2>4, <2>5, BehindKeeps
<1> QED
  BY <1>6, <1>9, <1>11, <1>12

-----------------------------------------------------------------------------
(* The interface's own steps, and the theorems.                            *)

LEMMA KeysKeep ==
  ASSUME TuiInv, handle_submit \/ SlashSubmitted \/ EmptyEnter \/ Escape
  PROVE  TuiInv'
<1>1. QueueOK(ui) /\ extras \in Nat
  BY DEF TuiInv, ChannelTypes
<1>2. CASE handle_submit
  <2>1. ui.next_prompt_id <= MaxPrompts /\ Pressed(enqueue_prompt_with_facts(ui)) /\ extras' = extras
    BY <1>2, Zenon DEF handle_submit
  <2>2. PICK u : u = enqueue_prompt_with_facts(ui)
    OBVIOUS
  <2>3. Keeps(u, ui) /\ u.card = ui.card /\ Pressed(u) /\ extras' \in Nat
    BY <1>1, <2>1, <2>2, EnqueueKeeps
  <2> QED
    BY <2>3, InputKeeps
<1>3. CASE SlashSubmitted
  <2>1. Pressed(enqueue_immediate_submission(ui)) /\ extras' = extras + 1
    BY <1>3, Zenon DEF SlashSubmitted, Extra
  <2>2. PICK u : u = enqueue_immediate_submission(ui)
    OBVIOUS
  <2>3. Keeps(u, ui) /\ u.card = ui.card /\ Pressed(u) /\ extras' \in Nat
    BY <1>1, <2>1, <2>2, ImmediateSame
  <2> QED
    BY <2>3, InputKeeps
<1>4. CASE EmptyEnter
  <2>1. Pressed([ui EXCEPT !.cancel = TRUE]) /\ extras' = extras + 1
    BY <1>4, Zenon DEF EmptyEnter, Extra
  <2>2. PICK u : u = [ui EXCEPT !.cancel = TRUE]
    OBVIOUS
  <2>3. Keeps(u, ui) /\ u.card = ui.card /\ Pressed(u) /\ extras' \in Nat
    BY <1>1, <2>1, <2>2, CancelKeeps
  <2> QED
    BY <2>3, InputKeeps
<1>5. CASE Escape
  <2>1. Pressed(handle_escape(ui)) /\ extras' = extras
    BY <1>5, Zenon DEF Escape
  <2>2. PICK u : u = handle_escape(ui)
    OBVIOUS
  <2>3. Keeps(u, ui) /\ (u.card = ui.card \/ u.card = NoPrompt) /\ Pressed(u) /\ extras' \in Nat
    BY <1>1, <2>1, <2>2, EscapeHandles DEF Handles
  <2> QED
    BY <2>3, InputKeeps
<1> QED
  BY <1>2, <1>3, <1>4, <1>5

LEMMA ArmKeeps ==
  ASSUME TuiInv, ArmExpires \/ ArmSwept
  PROVE  TuiInv'
<1>1. UNCHANGED <<to_loop, commands, running, results, request, ui_events, sent, extras>>
  BY Zenon DEF ArmExpires, ArmSwept, loopVars
<1>2. SamePrompts(ui', ui)
  <2>1. CASE ArmExpires
    <3>1. ui' = [ui EXCEPT !.arm = "expired"]
      BY <2>1, Zenon DEF ArmExpires
    <3> QED
      BY <3>1 DEF TuiInv, QueueOK, UiRecord, SamePrompts
  <2>2. CASE ArmSwept
    <3>1. ui' = sweep_expired_abort(ui)
      BY <2>2, Zenon DEF ArmSwept
    <3> QED
      BY <3>1, SweepSame DEF TuiInv
  <2> QED
    BY <2>1, <2>2
<1>3. QueueOK(ui') /\ Left(ui') = Left(ui)
  <2>1. PICK v : v = ui'
    OBVIOUS
  <2>2. QueueOK(v) /\ Left(v) = Left(ui)
    BY <1>2, <2>1, SameShape DEF TuiInv
  <2> QED
    BY <2>1, <2>2
<1>4. ui'.active = ui.active /\ ui'.card = ui.card /\ ui'.pending = ui.pending
  BY <1>2 DEF SamePrompts
<1>5. SentInv'
  <2>1. Left(ui)' = Left(ui')
    BY DEF Left
  <2> QED
    BY <1>1, <1>3, <2>1 DEF TuiInv, SentInv
<1>6. ChannelTypes'
  BY <1>1 DEF TuiInv, ChannelTypes
<1>7. ActiveInv'
  BY <1>1, <1>4 DEF TuiInv, ActiveInv, ActiveAhead, Ahead
<1>8. CardOK(ui.card, 0)'
  BY <1>1, <1>4 DEF TuiInv, CardOK, Decided, Open, Asks
<1>9. RequestInv'
  BY <1>1, RequestsStay DEF TuiInv, Decided
<1> QED
  BY <1>3, <1>5, <1>6, <1>7, <1>8, <1>9 DEF TuiInv

\* The user's answer leaves when its card is gone.
LEMMA DecisionKeeps ==
  ASSUME TuiInv, reduce_permission_decided
  PROVE  TuiInv'
<1> DEFINE c == [ui EXCEPT !.card = NoPrompt]
           d == [type |-> "PermissionDecision", turn |-> ui.card]
<1>1. /\ ui.card # NoPrompt /\ TakePending(ensure_invariants(c), <<d>>)
      /\ UNCHANGED <<commands, running, results, request, ui_events, extras>>
  BY Zenon DEF reduce_permission_decided, loopVars
<1>2. QueueOK(ui) /\ ChannelTypes /\ SentInv /\ to_loop \in Seq(LoopEvents) /\ ui.card \in PromptIds
  BY <1>1 DEF TuiInv, ChannelTypes, QueueOK, UiRecord
<1>3. QueueOK(c) /\ Left(c) = Left(ui) /\ c.active = ui.active /\ c.card = NoPrompt
  BY <1>2, CardKeeps
<1> HIDE DEF c
<1>4. PICK u : u = ensure_invariants(c)
  OBVIOUS
<1>5. SamePrompts(u, c)
  BY <1>3, <1>4, EnsureSame
<1>6. QueueOK(u) /\ Left(u) = Left(ui) /\ u.active = ui.active /\ u.card = NoPrompt
  BY <1>3, <1>5, SameShape DEF SamePrompts
<1>7. d \in LoopEvents /\ <<d>> \in Seq(LoopEvents)
  BY <1>2 DEF LoopEvents
<1>8. \A p : Has(<<d>>, [type |-> "PermissionDecision", turn |-> p]) => p = ui.card
  BY DEF Has
<1> HIDE DEF d
<1>9. /\ QueueOK(ui') /\ SentInv' /\ ui'.card = u.card /\ to_loop' \in Seq(LoopEvents)
      /\ ui'.pending # <<>> => ui'.active # NoPrompt
      /\ \/ ui'.active = u.active
         \/ Has(to_loop', [type |-> "PromptSubmitted", turn |-> ui'.active])
      /\ \A e : Has(to_loop, e) => Has(to_loop', e)
      /\ \A p : Has(to_loop', [type |-> "PermissionDecision", turn |-> p]) =>
                    \/ Has(to_loop, [type |-> "PermissionDecision", turn |-> p])
                    \/ Has(<<d>>, [type |-> "PermissionDecision", turn |-> p])
  BY <1>1, <1>2, <1>4, <1>6, <1>7, PendingTaken
<1>10. \A p : Decided(p)' => Decided(p) \/ p = ui.card
  BY <1>8, <1>9 DEF Decided
<1>11. ChannelTypes'
  BY <1>1, <1>2, <1>9 DEF ChannelTypes
<1>12. ActiveInv'
  <2>1. PICK a : a = ui'.active
    OBVIOUS
  <2>2. a # NoPrompt => Ahead(a, 0)'
    <3>1. CASE Has(to_loop', [type |-> "PromptSubmitted", turn |-> a])
      BY <3>1 DEF Ahead
    <3>2. CASE a = ui.active
      <4>1. a # NoPrompt => Ahead(a, 0)
        BY <3>2 DEF TuiInv, ActiveInv, ActiveAhead
      <4> QED
        BY <4>1, <1>1, <1>9 DEF Ahead
    <3> QED
      BY <1>6, <1>9, <2>1, <3>1, <3>2
  <2> QED
    BY <1>9, <2>1, <2>2 DEF ActiveInv, ActiveAhead, Ahead
<1>13. CardOK(ui.card, 0)'
  BY <1>6, <1>9 DEF CardOK
<1>14. RequestInv'
  <2>0. \A i \in DOMAIN ui_events : i > 0
    BY <1>2 DEF ChannelTypes
  <2>1. /\ request[ui.card] # "none" /\ \A i \in DOMAIN ui_events : ~Asks(ui.card, i)
    BY <1>1, <2>0 DEF TuiInv, CardOK
  <2>2. ASSUME NEW p \in PromptIds
        PROVE  /\ Decided(p)' => request'[p] # "none"
               /\ \A i \in DOMAIN ui_events' : Asks(p, i)' =>
                      /\ request'[p] # "none" /\ ~Decided(p)' /\ Open(p, i)'
                      /\ \A j \in DOMAIN ui_events' : Asks(p, j)' => j = i
    <3>1. /\ Decided(p) => request[p] # "none"
          /\ \A i \in DOMAIN ui_events : Asks(p, i) =>
                 /\ request[p] # "none" /\ ~Decided(p) /\ Open(p, i)
                 /\ \A j \in DOMAIN ui_events : Asks(p, j) => j = i
      BY DEF TuiInv, RequestInv
    <3>2. ASSUME NEW i PROVE (Asks(p, i)' <=> Asks(p, i)) /\ (Open(p, i)' <=> Open(p, i))
      BY <1>1 DEF Asks, Open
    <3>3. request' = request /\ ui_events' = ui_events
      BY <1>1
    <3>4. \A i \in DOMAIN ui_events : Asks(p, i) => p # ui.card
      BY <2>1
    <3> QED
      BY <1>10, <2>1, <3>1, <3>2, <3>3, <3>4
  <2> QED
    BY <2>2 DEF RequestInv
<1> QED
  BY <1>9, <1>11, <1>12, <1>13, <1>14 DEF TuiInv

LEMMA TuiStart ==
  ASSUME TuiInit
  PROVE  TuiInv
<1>1. ui \in UiRecord /\ ui.pending = <<>> /\ ui.active = NoPrompt /\ ui.card = NoPrompt
      /\ ui.items = [p \in PromptIds |-> "none"]
  BY DEF TuiInit, UiRecord, Status
<1>2. /\ to_loop = <<>> /\ commands = <<>> /\ running = NoTurn /\ results = <<>>
      /\ ui_events = <<>> /\ request = [p \in PromptIds |-> "none"]
      /\ sent = [p \in PromptIds |-> 0] /\ extras = 0
  BY DEF TuiInit
<1>3. NoPrompt \notin PromptIds /\ \A p : ~Has(<<>>, p)
  BY DEF NoPrompt, PromptIds, Has
<1>4. QueueOK(ui)
  BY <1>1, <1>3 DEF QueueOK, QueueShape
<1>5. ChannelTypes
  BY <1>2 DEF ChannelTypes
<1>6. SentInv
  BY <1>1, <1>2 DEF SentInv, Left
<1>7. ActiveInv /\ CardOK(ui.card, 0)
  BY <1>1 DEF ActiveInv, ActiveAhead, CardOK
<1>8. RequestInv
  BY <1>2, <1>3 DEF RequestInv, Decided
<1> QED
  BY <1>4, <1>5, <1>6, <1>7, <1>8 DEF TuiInv

LEMMA TuiStep ==
  ASSUME TuiInv, [TuiNext]_tuiVars
  PROVE  TuiInv'
<1>1. CASE handle_submit \/ SlashSubmitted \/ EmptyEnter \/ Escape
  BY <1>1, KeysKeep
<1>2. CASE ArmExpires \/ ArmSwept
  BY <1>2, ArmKeeps
<1>3. CASE reduce_permission_decided
  BY <1>3, DecisionKeeps
<1>4. CASE reduce_event_batch
  BY <1>4, BatchKeeps
<1>5. CASE LoopEvent
  BY <1>5, LoopEventKeeps
<1>6. CASE TurnFailureReported
  BY <1>6, TurnFailureKeeps
<1>7. CASE WorkerTakes
  BY <1>7, WorkerTakesKeeps
<1>8. CASE InferenceStarts
  BY <1>8, InferenceKeeps
<1>9. CASE TurnAsksUser
  BY <1>9, AskKeeps
<1>10. CASE AskTimesOut
  BY <1>10, TimeoutKeeps
<1>11. CASE TurnCompletes \/ TurnFails
  BY <1>11, EndKeeps
<1>12. CASE RemoteCancel
  BY <1>12, RemoteCancelKeeps
<1>13. CASE UNCHANGED tuiVars
  BY <1>13 DEF tuiVars, TuiInv, QueueOK, QueueShape, SentInv, Left, ChannelTypes, ActiveInv,
               ActiveAhead, Ahead, CardOK, RequestInv, Decided, Open, Asks
<1> QED
  BY <1>1, <1>2, <1>3, <1>4, <1>5, <1>6, <1>7, <1>8, <1>9, <1>10, <1>11, <1>12, <1>13, Zenon
  DEF TuiNext, WorkerStep

\* What the four theorems below rest on holds throughout.
THEOREM TuiInvariant == TuiSpec => []TuiInv
BY TuiStart, TuiStep, PTL DEF TuiSpec

\* Every variable of the terminal interface keeps its type.
THEOREM TuiTypeCorrect == TuiSpec => []TuiTypeOK
<1>1. TuiInv => TuiTypeOK
  <2> SUFFICES ASSUME TuiInv PROVE TuiTypeOK
    OBVIOUS
  <2>1. ui \in UiRecord /\ ChannelTypes
    BY DEF TuiInv, QueueOK
  <2>2. /\ ui.items \in [PromptIds -> Status] /\ ui.pending \in Seq(PromptIds)
        /\ ui.phase \in {"Idle", "Busy", "AbortPending"} /\ ui.arm \in {"none", "live", "expired"}
        /\ ui.active \in PromptIds \cup {NoPrompt} /\ ui.card \in PromptIds \cup {NoPrompt}
    BY <2>1 DEF UiRecord
  <2>3. running.turn \in PromptIds \cup {NoPrompt}
    BY <2>1, RunningTypes
  <2>4. \A s \in Seq(PromptIds) : ToSet(s) \subseteq PromptIds
    BY DEF ToSet
  <2> QED
    BY <2>1, <2>2, <2>3, <2>4 DEF TuiTypeOK, ChannelTypes
<1> QED
  BY <1>1, TuiInvariant, PTL

\* A prompt waits once, or left for the loop once, or is back in the input: no abort,
\* end of a turn or burst of events sends it twice, drops it, or returns and runs it.
THEOREM PromptsSentOrReturned == TuiSpec => []SentOrReturned
<1>1. TuiInv => SentOrReturned
  <2> SUFFICES ASSUME TuiInv, NEW p \in PromptIds
               PROVE  LET waits == Cardinality({i \in DOMAIN ui.pending : ui.pending[i] = p})
                      IN  /\ (waits = 1) = (ui.items[p] = "Queued") /\ waits <= 1
                          /\ sent[p] = IF ui.items[p] \in {"InProgress", "Done"} THEN 1 ELSE 0
    BY DEF SentOrReturned
  <2>1. \A i, j \in DOMAIN ui.pending : ui.pending[i] = ui.pending[j] => i = j
    BY DEF TuiInv, QueueOK, QueueShape
  <2>2. Cardinality({i \in DOMAIN ui.pending : ui.pending[i] = p})
            = IF Has(ui.pending, p) THEN 1 ELSE 0
    BY <2>1, HasOnce
  <2>3. ui.items[p] = "Queued" <=> Has(ui.pending, p)
    BY DEF TuiInv, QueueOK, QueueShape
  <2>4. sent[p] = IF ui.items[p] \in {"InProgress", "Done"} THEN 1 ELSE 0
    BY DEF TuiInv, SentInv, Left
  <2> QED
    BY <2>2, <2>3, <2>4
<1> QED
  BY <1>1, TuiInvariant, PTL

\* A card is up only while its request is open or news of its end is on the way.
THEOREM CardsAreBacked == TuiSpec => []CardBacked
<1>1. TuiInv => CardBacked
  <2> SUFFICES ASSUME TuiInv, ui.card # NoPrompt
               PROVE  \/ request[ui.card] = "asked"
                      \/ \E i \in DOMAIN ui_events : ui_events[i].turn = ui.card
                      \/ ui.card \in ToSet(results)
    BY DEF CardBacked
  <2>1. Open(ui.card, 0)
    BY DEF TuiInv, CardOK
  <2> QED
    BY <2>1 DEF Open, Has, ToSet
<1> QED
  BY <1>1, TuiInvariant, PTL

\* Prompts wait behind an active one, and the end of the active prompt's own turn is
\* still to come: the queue never waits for an event that was already taken.
THEOREM QueueAlwaysMoves == TuiSpec => []QueueMoves
<1>1. TuiInv => QueueMoves
  <2> SUFFICES ASSUME TuiInv PROVE QueueMoves
    OBVIOUS
  <2>1. ui.pending # <<>> => ui.active # NoPrompt
    BY DEF TuiInv, ActiveInv
  <2>2. PICK a : a = ui.active
    OBVIOUS
  <2>3. ASSUME a # NoPrompt
        PROVE  a \in {to_loop[i].turn : i \in DOMAIN to_loop} \cup ToSet(commands) \cup {running.turn}
                     \cup ToSet(results)
                     \cup {ui_events[i].turn : i \in {j \in DOMAIN ui_events :
                               ui_events[j].type \in {"TurnCompleted", "TurnError"}}}
    <3>1. Ahead(a, 0)
      BY <2>2, <2>3 DEF TuiInv, ActiveInv, ActiveAhead
    <3>2. CASE Has(to_loop, [type |-> "PromptSubmitted", turn |-> a])
      BY <3>2 DEF Has
    <3>3. CASE Has(commands, a) \/ running.turn = a \/ Has(results, a)
      BY <3>3 DEF Has, ToSet
    <3>4. CASE \E i \in DOMAIN ui_events :
                   i > 0 /\ ui_events[i].turn = a /\ ui_events[i].type \in Ends
      BY <3>4 DEF Ends
    <3> QED
      BY <3>1, <3>2, <3>3, <3>4 DEF Ahead
  <2> QED
    BY <2>1, <2>2, <2>3 DEF QueueMoves
<1> QED
  BY <1>1, TuiInvariant, PTL

-----------------------------------------------------------------------------
(* The types of the editor's side, for clients that await nothing: a       *)
(* prompt that waits is in the line of its instance, and the dispatch loop *)
(* in the line of the instance it waits for.                               *)
AcpShape ==
    /\ AcpTypes
    /\ \A p \in Prompts : /\ prompts[p].pc # "unsent" => prompts[p].session \in Sessions
                          /\ prompts[p].pc \in Started => prompts[p].inst \in Inst
                          /\ prompts[p].pc = "queued" => Has(waiters[prompts[p].inst], p)
    /\ stored \in SUBSET Sessions /\ dispatch \in Nat /\ dispatch <= opened
    /\ dispatch # 0 => Has(waiters[dispatch], Config)
    /\ holder \in [Inst -> Prompts \cup {Idle}]
    /\ waiters \in [Inst -> Seq(Prompts \cup {Config})]

\* Joining a line moves nobody out of one.
LEMMA LineJoined ==
  ASSUME AcpShape, NEW i \in Inst, NEW x \in Prompts \cup {Config},
         waiters' = [waiters EXCEPT ![i] = Append(@, x)]
  PROVE  /\ waiters' \in [Inst -> Seq(Prompts \cup {Config})]
         /\ Has(waiters'[i], x)
         /\ \A y : \A j \in Inst : Has(waiters[j], y) => Has(waiters'[j], y)
<1>1. waiters[i] \in Seq(Prompts \cup {Config}) /\ waiters'[i] = Append(waiters[i], x)
      /\ \A j \in Inst : j # i => waiters'[j] = waiters[j]
  BY DEF AcpShape
<1>2. \A y : Has(waiters'[i], y) <=> Has(waiters[i], y) \/ y = x
  BY <1>1, HasAppended
<1>3. waiters' \in [Inst -> Seq(Prompts \cup {Config})]
  BY <1>1 DEF AcpShape
<1> QED
  BY <1>1, <1>2, <1>3

\* Who is served leaves the line of its instance, and only that.
LEMMA LineServed ==
  ASSUME AcpShape, NEW i \in Inst, NEW x \in Prompts \cup {Config}, Has(waiters[i], x),
         Head(waiters[i]) = x, waiters' = [waiters EXCEPT ![i] = Tail(@)]
  PROVE  /\ waiters' \in [Inst -> Seq(Prompts \cup {Config})]
         /\ \A y : \A j \in Inst : Has(waiters[j], y) /\ y # x => Has(waiters'[j], y)
<1>1. waiters[i] \in Seq(Prompts \cup {Config}) /\ waiters'[i] = Tail(waiters[i])
      /\ \A j \in Inst : j # i => waiters'[j] = waiters[j]
  BY DEF AcpShape
<1>2. waiters[i] # <<>>
  BY DEF Has
<1>3. \A y : Has(waiters[i], y) <=> Has(Tail(waiters[i]), y) \/ y = x
  BY <1>1, <1>2, HasTail
<1>4. waiters' \in [Inst -> Seq(Prompts \cup {Config})]
  <2>1. Tail(waiters[i]) \in Seq(Prompts \cup {Config})
    BY <1>1, <1>2
  <2> QED
    BY <2>1 DEF AcpShape
<1> QED
  BY <1>1, <1>3, <1>4

LEMMA TaskShape ==
  ASSUME AcpShape, NEW p \in Prompts,
         \/ \E outcome \in {"allow", "reject", "reject-always"} : PermissionAnswered(p, outcome)
         \/ PromptLocks(p) \/ \E key \in Tools : TurnAsks(p, key)
         \/ TurnEnds(p) \/ CompactionEnds(p) \/ Unlock(p) \/ StopReason(p)
  PROVE  AcpShape'
<1> USE AcpAssumption, States
<1>1. PICK pc : TaskStep(p, pc) /\ pc # "queued"
  BY TaskSteps DEF AcpShape
<1>2. /\ \A q \in Prompts : /\ prompts'[q].session = prompts[q].session
                            /\ prompts'[q].inst = prompts[q].inst
                            /\ q # p => prompts'[q] = prompts[q]
      /\ prompts'[p].pc = pc /\ prompts[p].pc \in Started
      /\ prompts' \in [Prompts -> PromptRecords]
      /\ UNCHANGED <<opened, live, cancel_requested, owed>>
  BY <1>1 DEF TaskStep
<1>3. prompts[p].session \in Sessions /\ prompts[p].inst \in Inst
  BY <1>2 DEF AcpShape
<1>4. stored' \in SUBSET Sessions /\ UNCHANGED dispatch
  BY <1>3 DEF AcpShape, PermissionAnswered, PromptLocks, TurnAsks, TurnEnds, CompactionEnds,
     Unlock, StopReason
<1>5. holder' \in [Inst -> Prompts \cup {Idle}]
  BY <1>3 DEF AcpShape, PermissionAnswered, PromptLocks, TurnAsks, TurnEnds, CompactionEnds,
     Unlock, StopReason, lockVars
<1>6. /\ waiters' \in [Inst -> Seq(Prompts \cup {Config})]
      /\ \A y : \A j \in Inst : Has(waiters[j], y) /\ y # p => Has(waiters'[j], y)
  <2>1. CASE PromptLocks(p)
    <3>1. /\ Has(waiters[prompts[p].inst], p) /\ Head(waiters[prompts[p].inst]) = p
          /\ waiters' = [waiters EXCEPT ![prompts[p].inst] = Tail(@)]
      BY <2>1 DEF PromptLocks, AcpShape
    <3> QED
      BY <1>3, <3>1, LineServed
  <2>2. CASE UNCHANGED waiters
    BY <2>2 DEF AcpShape
  <2> QED
    BY <2>1, <2>2 DEF PermissionAnswered, TurnAsks, TurnEnds, CompactionEnds, Unlock, StopReason,
       lockVars
<1>7. AcpTypes'
  BY <1>2 DEF AcpShape, AcpTypes
<1>8. dispatch # 0 => Has(waiters'[dispatch], Config)
  <2>1. dispatch # 0 => dispatch \in Inst
    BY DEF AcpShape, AcpTypes, Inst
  <2> QED
    BY <1>6, <2>1 DEF AcpShape
<1>9. ASSUME NEW q \in Prompts
      PROVE  /\ prompts'[q].pc # "unsent" => prompts'[q].session \in Sessions
             /\ prompts'[q].pc \in Started => prompts'[q].inst \in Inst
             /\ prompts'[q].pc = "queued" => Has(waiters'[prompts'[q].inst], q)
  <2>1. CASE q = p
    BY <1>1, <1>2, <1>3, <2>1
  <2>2. CASE q # p
    BY <1>2, <1>6, <2>2 DEF AcpShape
  <2> QED
    BY <2>1, <2>2
<1> QED
  BY <1>2, <1>4, <1>5, <1>6, <1>7, <1>8, <1>9 DEF AcpShape

\* A prompt that starts joins the line of the instance its session names by then.
LEMMA StartShape ==
  ASSUME AcpShape, NEW p \in Prompts, PromptStart(p)
  PROVE  AcpShape'
<1> USE AcpAssumption, States
<1> DEFINE i == live[prompts[p].session]
<1>1. /\ prompts[p].pc = "spawned" /\ prompts[p].session \in Sessions /\ i \in Nat /\ i <= opened
      /\ UNCHANGED <<live, stored, opened, holder, dispatch, owed>>
  BY DEF PromptStart, AcpShape, AcpTypes
<1>2. CASE i = 0
  <2>1. prompts' = [prompts EXCEPT ![p].pc = "error"] /\ UNCHANGED <<cancel_requested, waiters>>
    BY <1>2 DEF PromptStart, Step
  <2>2. /\ \A q \in Prompts : /\ prompts'[q].session = prompts[q].session
                              /\ prompts'[q].inst = prompts[q].inst
                              /\ q # p => prompts'[q] = prompts[q]
        /\ prompts'[p].pc = "error"
    BY <2>1 DEF AcpShape, AcpTypes, PromptRecords
  <2>3. AcpTypes'
    BY <1>1, <2>1 DEF AcpShape, AcpTypes, PromptRecords, PromptState
  <2> QED
    BY <1>1, <2>1, <2>2, <2>3 DEF AcpShape
<1>3. CASE i # 0
  <2>1. /\ prompts' = [prompts EXCEPT ![p].pc = "queued", ![p].inst = i] /\ i \in Inst
        /\ cancel_requested' = [cancel_requested EXCEPT ![i] = FALSE]
        /\ waiters' = [waiters EXCEPT ![i] = Append(@, p)]
    <3>1. i \in Inst
      BY <1>1, <1>3 DEF AcpShape, AcpTypes, Inst
    <3> QED
      BY <1>3, <3>1 DEF PromptStart
  <2>2. /\ waiters' \in [Inst -> Seq(Prompts \cup {Config})] /\ Has(waiters'[i], p)
        /\ \A y : \A j \in Inst : Has(waiters[j], y) => Has(waiters'[j], y)
    BY <2>1, LineJoined
  <2>3. /\ \A q \in Prompts : /\ prompts'[q].session = prompts[q].session
                              /\ q # p => prompts'[q] = prompts[q]
        /\ prompts'[p].pc = "queued" /\ prompts'[p].inst = i
    BY <2>1 DEF AcpShape, AcpTypes, PromptRecords
  <2>4. AcpTypes'
    <3>1. \A x \in PromptRecords : [[x EXCEPT !.pc = "queued"] EXCEPT !.inst = i] \in PromptRecords
      BY ONLY <1>1, States DEF PromptRecords, PromptState
    <3>2. prompts' \in [Prompts -> PromptRecords] /\ cancel_requested' \in [Inst -> BOOLEAN]
      BY <2>1, <3>1 DEF AcpShape, AcpTypes
    <3> QED
      BY <1>1, <3>2 DEF AcpShape, AcpTypes
  <2>5. dispatch # 0 => Has(waiters'[dispatch], Config)
    <3>1. dispatch # 0 => dispatch \in Inst
      BY DEF AcpShape, AcpTypes, Inst
    <3> QED
      BY <2>2, <3>1 DEF AcpShape
  <2> HIDE DEF i
  <2>6. ASSUME NEW q \in Prompts
        PROVE  /\ prompts'[q].pc # "unsent" => prompts'[q].session \in Sessions
               /\ prompts'[q].pc \in Started => prompts'[q].inst \in Inst
               /\ prompts'[q].pc = "queued" => Has(waiters'[prompts'[q].inst], q)
    <3>1. CASE q = p
      BY <1>1, <2>1, <2>2, <2>3, <3>1
    <3>2. CASE q # p
      BY <2>2, <2>3, <3>2 DEF AcpShape
    <3> QED
      BY <3>1, <3>2
  <2> QED
    BY <1>1, <2>2, <2>4, <2>5, <2>6 DEF AcpShape
<1> QED
  BY <1>2, <1>3

\* The messages the dispatch loop handles itself.
LEMMA MessageShape ==
  ASSUME AcpShape, NEW s \in Sessions,
         \/ open_session(s) \/ set_config_option(s) \/ cancel(s)
         \/ close_session(s) \/ delete_session(s) \/ \E p \in Prompts : SendPrompt(p, s)
  PROVE  AcpShape'
<1> USE AcpAssumption, States
<1>1. CASE open_session(s)
  <2>1. /\ opened < MaxOpens /\ opened' = opened + 1
        /\ live' = [live EXCEPT ![s] = opened + 1]
        /\ UNCHANGED <<stored, cancel_requested, holder, waiters, dispatch, prompts, owed>>
    BY <1>1 DEF open_session, lockVars, acpTurnVars
  <2>2. opened' \in Nat /\ opened' <= MaxOpens /\ opened <= opened'
    BY <2>1 DEF AcpShape, AcpTypes
  <2>3. live' \in [Sessions -> Nat] /\ \A t \in Sessions : live'[t] <= opened'
    BY <2>1, <2>2 DEF AcpShape, AcpTypes
  <2>4. AcpTypes'
    BY <2>1, <2>2, <2>3 DEF AcpShape, AcpTypes
  <2>5. dispatch' <= opened'
    BY <2>1, <2>2 DEF AcpShape, AcpTypes
  <2> QED
    BY <2>1, <2>4, <2>5 DEF AcpShape
<1>2. CASE close_session(s) \/ delete_session(s)
  <2>1. /\ live' = [live EXCEPT ![s] = 0] /\ stored' \in {stored, stored \ {s}}
        /\ UNCHANGED <<opened, cancel_requested, holder, waiters, dispatch, prompts, owed>>
    BY <1>2 DEF close_session, delete_session, lockVars, acpTurnVars
  <2>2. live' \in [Sessions -> Nat] /\ \A t \in Sessions : live'[t] <= opened
    BY <2>1 DEF AcpShape, AcpTypes
  <2>3. AcpTypes'
    BY <2>1, <2>2 DEF AcpShape, AcpTypes
  <2> QED
    BY <2>1, <2>3 DEF AcpShape
<1>3. CASE set_config_option(s)
  <2>1. PICK i \in Inst : /\ i = live[s] /\ dispatch' = i /\ i <= opened
                          /\ waiters' = [waiters EXCEPT ![i] = Append(@, Config)]
                          /\ UNCHANGED <<live, stored, opened, cancel_requested, holder, prompts, owed>>
    <3>1. live[s] # 0 => live[s] \in Inst /\ live[s] <= opened
      BY DEF AcpShape, AcpTypes, Inst
    <3> QED
      BY <1>3, <3>1 DEF set_config_option, acpTurnVars
  <2>2. /\ waiters' \in [Inst -> Seq(Prompts \cup {Config})] /\ Has(waiters'[i], Config)
        /\ \A y : \A j \in Inst : Has(waiters[j], y) => Has(waiters'[j], y)
    BY <2>1, LineJoined
  <2>3. i \in Nat
    BY DEF Inst
  <2>4. AcpTypes'
    BY <2>1 DEF AcpShape, AcpTypes
  <2>5. \A q \in Prompts : prompts[q].pc = "queued" => prompts[q].inst \in Inst
    BY DEF AcpShape
  <2> QED
    BY <2>1, <2>2, <2>3, <2>4, <2>5 DEF AcpShape
<1>4. CASE cancel(s)
  <2>1. /\ cancel_requested' = [cancel_requested EXCEPT ![live[s]] = TRUE]
        /\ \A p \in Prompts : prompts'[p] \in {prompts[p], [prompts[p] EXCEPT !.cancelled = TRUE]}
        /\ DOMAIN prompts' = Prompts
        /\ prompts' = [p \in Prompts |-> prompts'[p]]
        /\ owed' \in SUBSET Prompts
        /\ UNCHANGED <<live, stored, opened, holder, waiters, dispatch>>
    BY <1>4 DEF cancel, lockVars, AcpShape, AcpTypes
  <2>2. \A x \in PromptRecords : LET y == [x EXCEPT !.cancelled = TRUE]
                                 IN  /\ y \in PromptRecords /\ y.pc = x.pc /\ y.inst = x.inst
                                     /\ y.session = x.session
    BY ONLY DEF PromptRecords
  <2>3. ASSUME NEW p \in Prompts
        PROVE  /\ prompts'[p] \in PromptRecords /\ prompts'[p].pc = prompts[p].pc
               /\ prompts'[p].inst = prompts[p].inst /\ prompts'[p].session = prompts[p].session
    <3>1. prompts[p] \in PromptRecords
      BY DEF AcpShape, AcpTypes
    <3> QED
      BY ONLY <2>1, <2>2, <3>1, p \in Prompts
  <2>4. prompts' \in [Prompts -> PromptRecords]
    BY ONLY <2>1, <2>3
  <2>5. AcpTypes'
    BY <2>1, <2>4 DEF AcpShape, AcpTypes
  <2> QED
    BY <2>1, <2>3, <2>5 DEF AcpShape
<1>5. ASSUME NEW p \in Prompts, SendPrompt(p, s) PROVE AcpShape'
  <2>1. /\ prompts' = [prompts EXCEPT ![p].pc = "spawned", ![p].session = s]
        /\ UNCHANGED <<live, stored, opened, cancel_requested, holder, waiters, dispatch, owed>>
    BY <1>5 DEF SendPrompt, lockVars
  <2>2. /\ \A q \in Prompts : q # p => prompts'[q] = prompts[q]
        /\ prompts'[p].pc = "spawned" /\ prompts'[p].session = s
    BY <2>1 DEF AcpShape, AcpTypes, PromptRecords
  <2>3. \A x \in PromptRecords : [[x EXCEPT !.pc = "spawned"] EXCEPT !.session = s] \in PromptRecords
    BY ONLY s \in Sessions DEF PromptRecords, PromptState
  <2>4. prompts' \in [Prompts -> PromptRecords]
    BY <2>1, <2>3 DEF AcpShape, AcpTypes
  <2>5. AcpTypes'
    BY <2>1, <2>4 DEF AcpShape, AcpTypes
  <2> QED
    BY <2>1, <2>2, <2>5 DEF AcpShape
<1> QED
  BY <1>1, <1>2, <1>3, <1>4, <1>5

LEMMA ShapeStep ==
  ASSUME AcpShape, [AcpNext]_acpVars
  PROVE  AcpShape'
<1>1. CASE ConfigAnswered
  <2> USE AcpAssumption, States
  <2>1. PICK i \in Inst : /\ i = dispatch /\ Has(waiters[i], Config) /\ Head(waiters[i]) = Config
                          /\ waiters' = [waiters EXCEPT ![i] = Tail(@)] /\ dispatch' = 0
                          /\ UNCHANGED <<live, stored, opened, cancel_requested, holder, prompts, owed>>
    <3>1. dispatch # 0 => dispatch \in Inst /\ Has(waiters[dispatch], Config)
      BY DEF AcpShape, AcpTypes, Inst
    <3> QED
      BY <1>1, <3>1 DEF ConfigAnswered, acpTurnVars
  <2>2. /\ waiters' \in [Inst -> Seq(Prompts \cup {Config})]
        /\ \A y : \A j \in Inst : Has(waiters[j], y) /\ y # Config => Has(waiters'[j], y)
    BY <2>1, LineServed
  <2>3. AcpTypes'
    BY <2>1 DEF AcpShape, AcpTypes
  <2>4. \A q \in Prompts : q # Config /\ (prompts[q].pc = "queued" => prompts[q].inst \in Inst)
    BY DEF AcpShape
  <2> QED
    BY <2>1, <2>2, <2>3, <2>4 DEF AcpShape, AcpTypes
<1>2. CASE UNCHANGED acpVars
  BY <1>2 DEF acpVars, AcpShape, AcpTypes
<1> QED
  BY <1>1, <1>2, TaskShape, StartShape, MessageShape DEF AcpNext

\* The variables of the editor's side keep their types, whatever the client sends and in
\* whatever order: a session id names an instance that was opened, the lock of an
\* instance is held by a prompt or nobody, and only prompts and the dispatch loop wait.
THEOREM AcpTypeCorrect == AcpSpec => []AcpTypeOK
<1>1. AcpInit => AcpShape
  <2> SUFFICES ASSUME AcpInit PROVE AcpShape
    OBVIOUS
  <2> USE AcpAssumption, States DEF AcpInit
  <2>1. AcpTypes
    BY DEF AcpTypes, PromptRecords, PromptState, Outcome, AnySession
  <2>2. \A p \in Prompts : prompts[p].pc = "unsent"
    OBVIOUS
  <2> QED
    BY <2>1, <2>2 DEF AcpShape
<1>2. AcpShape /\ [AcpNext]_acpVars => AcpShape'
  BY ShapeStep
<1>3. AcpShape => AcpTypeOK
  <2> SUFFICES ASSUME AcpShape PROVE AcpTypeOK
    OBVIOUS
  <2>1. \A i \in Inst : ToSet(waiters[i]) \subseteq Prompts \cup {Config}
    BY DEF AcpShape, ToSet
  <2>2. \A p \in Prompts : prompts[p].pc \in PromptState
    BY DEF AcpShape, AcpTypes, PromptRecords
  <2> QED
    BY <2>1, <2>2 DEF AcpShape, AcpTypes, AcpTypeOK, PromptState, Started, InTurn
<1> QED
  BY <1>1, <1>2, <1>3, PTL DEF AcpSpec
=============================================================================
