-------------------------------- MODULE TurnLog --------------------------------
(***************************************************************************)
(* How one session's turns reach its log.  rig saves a run's messages when *)
(* the run succeeds and nothing otherwise, so every other exit of a turn   *)
(* (a retry, a failure, a cancel) writes the delta of the attempt itself   *)
(* (persist_turn_delta): it loads the log, skips when the log has moved,   *)
(* cuts the reported history at the turn's prompt, closes the calls nobody *)
(* answered and saves.  A completed turn, and a recovered one with calls,  *)
(* then records its facts: a row with the keys of the entries it added.    *)
(*                                                                         *)
(* A message is what the code tells apart: the prompts a user message is   *)
(* made of and the calls it answers; the calls an assistant message makes  *)
(* and the text it holds, as chunk numbers of the attempt's stream.        *)
(* Another process may append to the same log, or compact it.              *)
(***************************************************************************)
EXTENDS Integers, Sequences, FiniteSets, SequencesExt

CONSTANTS
    TurnPrompts,   \* the prompt of each turn, in order
    Budget,        \* retries of each kind one turn may use
    MaxAttempts,   \* bound: attempts of all the turns
    MaxCalls,      \* bound: model calls of one run (max_tool_turns)
    Batch,         \* bound: calls of one batch
    MaxOther,      \* bound: writes of the other process
    MaxFaults      \* bound: failing reads and writes of the store

RetryKind == {"backoff", "feedback", "max_turns", "repetition"}
ASSUME TurnLogAssumption ==
    /\ Len(TurnPrompts) \in Nat /\ Budget \in [RetryKind -> Nat]
    /\ {MaxAttempts, MaxCalls, Batch, MaxOther, MaxFaults} \subseteq Nat

VARIABLES
    log,         \* entries: [key, by, msg]; by is the turn, 0 the other process
    turn,        \* turns begun
    phase,       \* where the turn is
    retries,     \* retries of each kind this turn has used
    steering,    \* the retry prompt carries a steering message
    pre_turn,    \* what execute_turn read: [known, keys, count]; since is the last
                 \* key given out before the attempt, for the properties only
    run,         \* rig's run: [base, committed, open, calls]
    snapshot,    \* last_known_history
    text,        \* chunks streamed in this attempt
    records,     \* TurnToolLog: [call, result] in dispatch order
    stopped,     \* how the attempt ended: [why, history, text]
    loaded,      \* what recovery loaded: [keys, delta]
    saved,       \* the keys read back after a save
    turns,       \* rows of the turn table, in order: [turn, since]
    entry_turns, \* the row each key is attributed to: <<key, turn_seq>>
    lost,        \* turns whose work was not saved: [turn, how]
    made,        \* keys, call ids and attempts given out
    other, faults

logVars == <<log, turn, phase, retries, steering, pre_turn, run, snapshot, text,
    records, stopped, loaded, saved, turns, entry_turns, lost, made, other, faults>>

-----------------------------------------------------------------------------
(* Messages. *)
User(pieces, results) == [role |-> "user", pieces |-> pieces, results |-> results,
                          calls |-> {}, chunks |-> <<>>]
Assistant(calls, chunks) == [role |-> "assistant", pieces |-> <<>>, results |-> {},
                             calls |-> calls, chunks |-> chunks]
\* The placeholder reply; no chunk of a stream is 0.
EmptyReply == Assistant({}, <<0>>)

prompt == TurnPrompts[turn]
\* A steered prompt is "{feedback}\n\n{prompt}".
turn_prompt == User(<<[prompt |-> prompt, steered |-> steering]>>, {})

Msgs(entries) == [i \in DOMAIN entries |-> entries[i].msg]
Keys(entries) == {entries[i].key : i \in DOMAIN entries}
answered_call_ids(msgs) == {r.call : r \in UNION {msgs[i].results : i \in DOMAIN msgs}}
call_ids(msgs) == UNION {msgs[i].calls : i \in DOMAIN msgs}

\* rig's repair of a cancelled run's history: adjacent user messages merge.
merged(acc, m) ==
    IF acc # <<>> /\ Last(acc).role = "user" /\ m.role = "user"
    THEN Append(Front(acc), User(Last(acc).pieces \o m.pieces, Last(acc).results \cup m.results))
    ELSE Append(acc, m)
canonical(msgs) == FoldLeft(merged, <<>>, msgs)

-----------------------------------------------------------------------------
(* The delta recovery saves, from the history the attempt reported. *)
is_prompt(m) ==
    /\ m.role = "user" /\ m.pieces # <<>>
    /\ Last(m.pieces).prompt = prompt
    /\ Len(m.pieces) = 1 \/ Last(m.pieces).steered
prompt_anchor(history) == SelectLastInSubSeq(history, 1, Len(history), is_prompt)

\* A slip in which the stored results stay in the anchored message.
drop_stored_results_Bug(delta, stored) == delta
drop_stored_results(delta, stored) ==
    IF delta = <<>> \/ Head(delta).role # "user" THEN delta
    ELSE LET kept == {r \in Head(delta).results : r.call \notin stored}
         IN  IF kept = Head(delta).results THEN delta
             ELSE IF kept = {} /\ Head(delta).pieces = <<>> THEN Tail(delta)
             ELSE <<User(Head(delta).pieces, kept)>> \o Tail(delta)

\* A slip in which only the calls that settled are looked for.
missing_tool_calls_Bug(delta) ==
    {records[i].call : i \in {j \in DOMAIN records : records[j].result = "settled"}}
        \ (call_ids(delta) \cup answered_call_ids(delta))
missing_tool_calls(delta) ==
    {records[i].call : i \in DOMAIN records} \ (call_ids(delta) \cup answered_call_ids(delta))

\* What the turn settled for a call; "[interrupted]" when it never did.
outcome_of(call) ==
    IF \E i \in DOMAIN records : records[i] = [call |-> call, result |-> "settled"]
    THEN "settled" ELSE "interrupted"

\* A slip in which a call that never settled is left without an answer.
close_unanswered_tool_calls_with_Bug(delta) ==
    FlattenSeq([i \in DOMAIN delta |->
        LET open == {c \in delta[i].calls \ answered_call_ids(delta) : outcome_of(c) = "settled"}
        IN  IF open = {} THEN <<delta[i]>>
            ELSE <<delta[i], User(<<>>, {[call |-> c, out |-> "settled"] : c \in open})>>])
close_unanswered_tool_calls_with(delta) ==
    FlattenSeq([i \in DOMAIN delta |->
        LET open == delta[i].calls \ answered_call_ids(delta)
        IN  IF open = {} THEN <<delta[i]>>
            ELSE <<delta[i], User(<<>>, {[call |-> c, out |-> outcome_of(c)] : c \in open})>>])

replace_placeholder_results_with(delta) ==
    [i \in DOMAIN delta |-> [delta[i] EXCEPT !.results =
        {IF r.out = "placeholder" /\ outcome_of(r.call) = "settled"
         THEN [r EXCEPT !.out = "settled"] ELSE r : r \in @}]]

\* The streamed text the delta does not hold yet, when it extends what it holds.
with_streamed_text(delta) ==
    LET committed == FlattenSeq([i \in DOMAIN delta |-> delta[i].chunks])
    IN  IF IsStrictPrefix(committed, stopped.text)
        THEN Append(delta, Assistant({}, SubSeq(stopped.text, Len(committed) + 1, Len(stopped.text))))
        ELSE delta

\* The delta of the attempt, given the results the store already holds.
turn_delta(stored) ==
    LET anchor == prompt_anchor(stopped.history)
        cut == IF anchor = 0 THEN <<>>
               ELSE SubSeq(stopped.history, anchor, Len(stopped.history))
        delta == drop_stored_results(cut, stored)
        missing == missing_tool_calls(delta)
        asked == User(<<[prompt |-> prompt, steered |-> FALSE]>>, {})
        whole == IF missing # {}
                 THEN (IF anchor = 0 THEN <<asked>> ELSE <<>>) \o delta \o <<Assistant(missing, <<>>)>>
                 ELSE IF anchor = 0 THEN <<asked, EmptyReply>> ELSE delta
    IN  with_streamed_text(replace_placeholder_results_with(
            close_unanswered_tool_calls_with(whole)))

-----------------------------------------------------------------------------
NoRun == [base |-> <<>>, keys |-> {}, committed |-> <<>>, open |-> {}, calls |-> 0,
          fresh |-> <<>>, chunks |-> 0]
NotStopped == [why |-> "none", history |-> <<>>, text |-> <<>>]
NotLoaded == [keys |-> {}, delta |-> <<>>]
NoPreTurn == [known |-> TRUE, keys |-> {}, count |-> 0, since |-> 0]

LogInit ==
    /\ log = <<>> /\ turn = 0 /\ phase = "idle"
    /\ retries = [kind \in RetryKind |-> 0] /\ steering = FALSE
    /\ pre_turn = NoPreTurn
    /\ run = NoRun /\ snapshot = <<>> /\ text = <<>> /\ records = <<>>
    /\ stopped = NotStopped /\ loaded = NotLoaded /\ saved = {}
    /\ turns = <<>> /\ entry_turns = {} /\ lost = {}
    /\ made = [key |-> 0, call |-> 0, attempt |-> 0] /\ other = 0 /\ faults = 0

\* Groups of variables for the frame conditions.
savedVars == <<log, turns, entry_turns, lost>>
attemptVars == <<pre_turn, run, snapshot, text, records>>
tailVars == <<stopped, loaded, saved>>
turnVars == <<turn, retries, steering>>
envVars == <<other, faults>>

Fault == faults < MaxFaults /\ faults' = faults + 1
Entries(writer, msgs) ==
    [i \in DOMAIN msgs |-> [key |-> made.key + i, by |-> writer, msg |-> msgs[i]]]
Write(writer, msgs) ==
    /\ log' = log \o Entries(writer, msgs)
    /\ made' = [made EXCEPT !.key = @ + Len(msgs)]

-----------------------------------------------------------------------------
(* An attempt: execute_turn and rig's run. *)
BeginTurn ==
    /\ phase = "idle" /\ turn < Len(TurnPrompts) /\ made.attempt < MaxAttempts
    /\ turn' = turn + 1 /\ phase' = "attempt"
    /\ retries' = [kind \in RetryKind |-> 0] /\ steering' = FALSE
    /\ UNCHANGED <<savedVars, attemptVars, tailVars, made, envVars>>

\* The pre-turn read; a read that fails leaves count 0 and no keys to subtract.
PreLoad ==
    /\ phase = "attempt" /\ phase' = "open"
    /\ \/ pre_turn' = [known |-> TRUE, keys |-> Keys(log), count |-> Len(log),
                       since |-> made.key] /\ UNCHANGED faults
       \/ pre_turn' = [known |-> FALSE, keys |-> {}, count |-> 0, since |-> made.key] /\ Fault
    /\ run' = NoRun /\ snapshot' = <<>> /\ text' = <<>> /\ records' = <<>>
    /\ made' = [made EXCEPT !.attempt = @ + 1]
    /\ UNCHANGED <<savedVars, tailVars, turnVars, other>>

\* rig loads the conversation itself, after the pre-turn read.
RunOpen ==
    /\ phase = "open" /\ phase' = "ready"
    /\ run' = [NoRun EXCEPT !.base = Msgs(log), !.keys = Keys(log), !.committed = <<turn_prompt>>]
    /\ UNCHANGED <<savedVars, pre_turn, snapshot, text, records, tailVars, turnVars, made, envVars>>

chat_history == run.base \o run.committed

on_completion_call ==
    /\ phase = "ready" /\ run.calls < MaxCalls /\ phase' = "calling"
    /\ snapshot' = chat_history
    /\ run' = [run EXCEPT !.calls = @ + 1, !.fresh = <<>>]
    /\ UNCHANGED <<savedVars, pre_turn, text, records, tailVars, turnVars, made, envVars>>

StreamText ==
    /\ phase = "calling" /\ run.fresh = <<>> /\ run.chunks < MaxCalls
    /\ run' = [run EXCEPT !.chunks = @ + 1, !.fresh = <<run.chunks + 1>>]
    /\ text' = Append(text, run.chunks + 1)
    /\ UNCHANGED <<savedVars, phase, pre_turn, snapshot, records, tailVars, turnVars, made, envVars>>

\* A provisional answer is discarded: all the text streamed so far goes.
ModelTurnRetried ==
    /\ phase = "calling" /\ run.fresh # <<>>
    /\ run' = [run EXCEPT !.fresh = <<>>] /\ text' = <<>>
    /\ UNCHANGED <<savedVars, phase, pre_turn, snapshot, records, tailVars, turnVars, made, envVars>>

\* The model answers with tool calls, which the history commits first.
CommitBatch ==
    /\ phase = "calling" /\ phase' = "tools"
    /\ \E n \in 1..Batch :
        LET batch == (made.call + 1)..(made.call + n)
        IN  /\ run' = [run EXCEPT !.committed = Append(@, Assistant(batch, run.fresh)),
                                  !.open = batch]
            /\ made' = [made EXCEPT !.call = @ + n]
    /\ UNCHANGED <<savedVars, pre_turn, snapshot, text, records, tailVars, turnVars, envVars>>

recorded == {records[i].call : i \in DOMAIN records}
settled_calls == {records[i].call : i \in {j \in DOMAIN records : records[j].result = "settled"}}

record_call ==
    /\ phase = "tools" /\ run.open \ recorded # {}
    /\ records' = Append(records, [call |-> Min(run.open \ recorded), result |-> "none"])
    /\ UNCHANGED <<savedVars, phase, pre_turn, run, snapshot, text, tailVars, turnVars, made, envVars>>

record_result ==
    /\ phase = "tools"
    /\ \E i \in {j \in DOMAIN records : records[j].result = "none"} :
        records' = [records EXCEPT ![i].result = "settled"]
    /\ UNCHANGED <<savedVars, phase, pre_turn, run, snapshot, text, tailVars, turnVars, made, envVars>>

\* Results of the open batch as rig writes them: those in answered are real.
BatchResults(answered) ==
    User(<<>>, {[call |-> c, out |-> IF c \in answered THEN "settled" ELSE "placeholder"] :
                   c \in run.open})

BatchAnswered ==
    /\ phase = "tools" /\ run.open \subseteq settled_calls /\ phase' = "ready"
    /\ run' = [run EXCEPT !.committed = Append(@, BatchResults(run.open)), !.open = {}]
    /\ UNCHANGED <<savedVars, pre_turn, snapshot, text, records, tailVars, turnVars, made, envVars>>

FinalResponse ==
    /\ phase = "calling" /\ phase' = "saving"
    /\ run' = [run EXCEPT !.committed = Append(@, Assistant({}, run.fresh))]
    /\ UNCHANGED <<savedVars, pre_turn, snapshot, text, records, tailVars, turnVars, made, envVars>>

-----------------------------------------------------------------------------
(* How an attempt ends without a saved run. *)
Stop(why, history, streamed) ==
    /\ phase' = "recover"
    /\ stopped' = [why |-> why, history |-> history, text |-> streamed]
    /\ UNCHANGED <<savedVars, attemptVars, loaded, saved, made, envVars>>

\* A retry of this kind while its own budget lasts, otherwise the turn's end.
RetryOr(kind, otherwise, history, streamed) ==
    IF retries[kind] < Budget[kind] /\ made.attempt < MaxAttempts
    THEN /\ retries' = [retries EXCEPT ![kind] = @ + 1]
         /\ steering' = (steering \/ kind # "backoff") /\ Stop("retry", history, <<>>)
    ELSE UNCHANGED <<retries, steering>> /\ Stop(otherwise, history, streamed)

\* The provider fails the call; the hook's snapshot is the only history.
CompletionFailed ==
    /\ phase = "calling" /\ UNCHANGED turn
    /\ \E kind \in {"backoff", "feedback"} : RetryOr(kind, "failed", snapshot, <<>>)

MaxTurnsExceeded ==
    /\ phase = "ready" /\ run.calls = MaxCalls /\ UNCHANGED turn
    /\ RetryOr("max_turns", "failed", chat_history, <<>>)

\* The repetition guard stops the stream; at its cap the stop is a cancel.
RepetitionStop ==
    /\ phase = "calling" /\ run.fresh # <<>> /\ UNCHANGED turn
    /\ RetryOr("repetition", "cancelled", canonical(chat_history), text)

UnknownTool ==
    /\ phase = "calling" /\ Stop("failed", chat_history, <<>>) /\ UNCHANGED turnVars

ToolExecutionFailed ==
    /\ phase = "tools" /\ Stop("failed", snapshot, <<>>) /\ UNCHANGED turnVars

\* rig answers the batch in flight, then yields its canonical history.
Cancelled ==
    /\ phase \in {"ready", "calling", "tools"} /\ UNCHANGED turnVars
    /\ \E answered \in SUBSET (run.open \cap settled_calls) :
        Stop("cancelled",
             canonical(chat_history \o (IF run.open = {} THEN <<>> ELSE <<BatchResults(answered)>>)),
             text)

\* The grace ends first: the stream is dropped and the snapshot is what is left.
GraceExpired ==
    /\ UNCHANGED turnVars
    /\ \/ phase \in {"ready", "calling", "tools"} /\ Stop("cancelled", snapshot, text)
       \/ phase \in {"saving", "saved"} /\ Stop("cancelled", chat_history, text)

-----------------------------------------------------------------------------
(* A run that succeeds: rig's save, the state records, the settle. *)
\* The attempt's own state goes with it; the turn goes on or is over.
EndAttempt(next) ==
    /\ phase' = next
    /\ pre_turn' = NoPreTurn /\ run' = NoRun /\ snapshot' = <<>> /\ text' = <<>>
    /\ records' = <<>> /\ stopped' = NotStopped /\ loaded' = NotLoaded /\ saved' = {}
AfterStop == IF stopped.why = "retry" THEN "attempt" ELSE "idle"

RunSave ==
    /\ phase = "saving"
    /\ \/ /\ Keys(log) = run.keys /\ phase' = "saved"
          /\ Write(turn, run.committed) /\ UNCHANGED <<stopped, envVars>>
       \/ /\ Keys(log) # run.keys \/ faults < MaxFaults
          /\ faults' = IF Keys(log) = run.keys THEN faults + 1 ELSE faults
          /\ phase' = "recover"
          /\ stopped' = [why |-> "failed", history |-> snapshot, text |-> <<>>]
          /\ UNCHANGED <<log, made, other>>
    /\ UNCHANGED <<turns, entry_turns, lost, attemptVars, loaded, saved, turnVars>>

\* The state records are written and the keys of the log read back.
write_state_records ==
    /\ phase = "saved"
    /\ \/ /\ phase' = "settle" /\ saved' = Keys(log)
          /\ UNCHANGED <<faults, attemptVars, stopped, loaded>>
       \/ Fault /\ EndAttempt("idle")
    /\ UNCHANGED <<savedVars, turnVars, made, other>>

\* One settled attempt: its row and the keys it added.  The ordinal is read in
\* a unit of its own; a second process that settles in between is left out.
Settle(keys) ==
    /\ turns' = Append(turns, [turn |-> turn, since |-> pre_turn.since])
    /\ entry_turns' = {e \in entry_turns : e[1] \notin keys} \cup (keys \X {Len(turns) + 1})

\* A slip in which a pre-turn log that was not read counts as an empty one.
settle_Bug ==
    /\ phase = "settle" /\ EndAttempt("idle") /\ Settle(saved \ pre_turn.keys)
    /\ UNCHANGED <<log, lost, turnVars, made, envVars>>
settle ==
    /\ phase = "settle" /\ EndAttempt("idle")
    /\ \/ pre_turn.known /\ Settle(saved \ pre_turn.keys) /\ UNCHANGED faults
       \/ ~pre_turn.known /\ UNCHANGED <<turns, entry_turns, faults>>
       \/ pre_turn.known /\ Fault /\ UNCHANGED <<turns, entry_turns>>
    /\ UNCHANGED <<log, lost, turnVars, made, other>>

-----------------------------------------------------------------------------
(* persist_turn_delta. *)
RecoverLoad ==
    /\ phase = "recover"
    /\ \/ /\ Len(log) = pre_turn.count /\ phase' = "extend"
          /\ loaded' = [keys |-> Keys(log), delta |-> turn_delta(answered_call_ids(Msgs(log)))]
          /\ UNCHANGED <<lost, faults, attemptVars, stopped, saved>>
       \/ /\ Len(log) # pre_turn.count /\ EndAttempt(AfterStop)
          /\ lost' = lost \cup {[turn |-> turn, how |-> "warned"]} /\ UNCHANGED faults
       \/ /\ Fault /\ EndAttempt(AfterStop)
          /\ lost' = lost \cup {[turn |-> turn, how |-> "logged"]}
    /\ UNCHANGED <<log, turns, entry_turns, turnVars, made, other>>

RecoverSave ==
    /\ phase = "extend" /\ phase' = "facts"
    /\ \/ /\ Keys(log) = loaded.keys
          /\ Write(turn, loaded.delta)
          /\ saved' = Keys(log') /\ UNCHANGED <<lost, faults>>
       \/ /\ Keys(log) # loaded.keys \/ faults < MaxFaults
          /\ faults' = IF Keys(log) = loaded.keys THEN faults + 1 ELSE faults
          /\ lost' = lost \cup {[turn |-> turn, how |-> "logged"]}
          /\ saved' = {} /\ UNCHANGED <<log, made>>
    /\ UNCHANGED <<turns, entry_turns, attemptVars, stopped, loaded, turnVars, other>>

\* An attempt with calls settles too, its row naming what recovery added.
persist_tool_facts ==
    /\ phase = "facts" /\ EndAttempt(AfterStop)
    /\ \/ records = <<>> /\ UNCHANGED <<turns, entry_turns, faults>>
       \/ records # <<>> /\ Settle(saved \ loaded.keys) /\ UNCHANGED faults
       \/ records # <<>> /\ Fault /\ UNCHANGED <<turns, entry_turns>>
    /\ UNCHANGED <<log, lost, turnVars, made, other>>

-----------------------------------------------------------------------------
(* Around the turn: the other process, and a crash of this one. *)
OtherAppend ==
    /\ other < MaxOther /\ other' = other + 1
    /\ Write(0, <<User(<<>>, {}), Assistant({}, <<>>)>>)
    /\ UNCHANGED <<turns, entry_turns, lost, phase, attemptVars, tailVars, turnVars, faults>>

\* The process dies and is started again: only what was saved is left.
Crash ==
    /\ phase # "idle" /\ Fault /\ EndAttempt("idle")
    /\ UNCHANGED <<savedVars, turnVars, made, other>>

LogStep ==
    \/ PreLoad \/ RunOpen \/ on_completion_call \/ StreamText \/ ModelTurnRetried
    \/ CommitBatch \/ record_call \/ record_result \/ BatchAnswered \/ FinalResponse
    \/ CompletionFailed \/ MaxTurnsExceeded \/ RepetitionStop \/ UnknownTool
    \/ ToolExecutionFailed \/ Cancelled \/ GraceExpired
    \/ RunSave \/ write_state_records \/ settle
    \/ RecoverLoad \/ RecoverSave \/ persist_tool_facts

LogNext == BeginTurn \/ LogStep \/ OtherAppend \/ Crash
LogSpec == LogInit /\ [][LogNext]_logVars

-----------------------------------------------------------------------------
LogTypeOK ==
    /\ turn \in 0..Len(TurnPrompts)
    /\ phase \in {"idle", "attempt", "open", "ready", "calling", "tools", "saving", "saved",
                  "settle", "recover", "extend", "facts"}
    /\ \A kind \in RetryKind : retries[kind] \in 0..Budget[kind]
    /\ steering \in BOOLEAN
    /\ \A i \in DOMAIN log : log[i].key \in 1..made.key /\ log[i].by \in 0..turn
    /\ \A e \in entry_turns : e[1] \in 1..made.key /\ e[2] \in 1..Len(turns)
    /\ \A i \in DOMAIN records : records[i].result \in {"none", "settled"}
    /\ stopped.why \in {"none", "retry", "cancelled", "failed"}
    /\ \A l \in lost : l.turn \in 1..turn /\ l.how \in {"warned", "logged"}

answers(msgs, i) == {r.call : r \in msgs[i].results}

\* No call of the log is without a later result, and no result without an earlier
\* call: whatever ended the attempts, the next turn replays a conversation in which
\* every call is answered.
CallsAnswered ==
    LET msgs == Msgs(log)
    IN  /\ \A i \in DOMAIN msgs : \A c \in msgs[i].calls :
               \E j \in (i + 1)..Len(msgs) : c \in answers(msgs, j)
        /\ \A i \in DOMAIN msgs : \A c \in answers(msgs, i) :
               \E j \in 1..(i - 1) : c \in msgs[j].calls

\* The log holds the result of a call once: a provider that rejects a repeated
\* result id would refuse the next turn.
ResultStoredOnce ==
    LET msgs == Msgs(log)
    IN  \A i, j \in DOMAIN msgs : i # j => answers(msgs, i) \cap answers(msgs, j) = {}

\* What a message puts in the log: the calls it makes, the results it has.
holds(m) == {<<"call", c>> : c \in m.calls} \cup {<<"result", r.call>> : r \in m.results}
poses(m, question) == m.pieces # <<>> /\ Last(m.pieces).prompt = question
\* Two prompts with no reply between them: rig reads them back as one message.
run_together(d, s) ==
    /\ d < s /\ log[d].msg.pieces # <<>> /\ log[s].msg.pieces # <<>>
    /\ \A n \in d..s : log[n].msg.role = "user"

\* A turn stores a call or a result a second time only when the log ended with a
\* prompt nobody replied to, which the turn's own is merged with, and an earlier
\* message asks the same: recovery takes that one for the turn's prompt and saves
\* again what came behind it.  In every other case, whatever was retried, cut off or
\* recovered, each call and each result is stored once.
RepeatsNeedMerge ==
  \A j \in DOMAIN log : \A f \in holds(log[j].msg) :
    (\E i \in 1..(j - 1) : f \in holds(log[i].msg)) =>
      \E k, i, d, s \in 1..j :
         /\ k < i /\ i < s /\ f \in holds(log[i].msg)
         /\ poses(log[k].msg, TurnPrompts[log[j].by])
         /\ run_together(d, s) /\ log[s].by = log[j].by

\* What recovery is about to save holds the turn's prompt and every call the
\* attempt dispatched, with the result it settled with.
DeltaKeepsWork ==
    phase = "extend" =>
        /\ \E i \in DOMAIN loaded.delta : \E k \in DOMAIN loaded.delta[i].pieces :
               loaded.delta[i].pieces[k].prompt = prompt
        /\ recorded \subseteq call_ids(loaded.delta)
        /\ \A c \in settled_calls : \E i \in DOMAIN loaded.delta :
               [call |-> c, out |-> "settled"] \in loaded.delta[i].results

\* A row of the fact tables never claims an entry that was in the log before its
\* attempt began, even when that log could not be read or has moved since.
RowsClaimNew == \A e \in entry_turns : e[1] > turns[e[2]].since
=============================================================================
