------------------------------- MODULE TurnGuards -------------------------------
(***************************************************************************)
(* The guards that stop a model that goes round in circles: the doom loop  *)
(* detector over the calls of an attempt, the cap on the calls of one      *)
(* model response, the detector of repeated answers, and the retry loop of *)
(* the executor that turns a repetition stop into one more attempt.        *)
(*                                                                         *)
(* A signature stands for a tool and its canonical arguments, a segment    *)
(* for the normalised text of an answer.  The length of a stream counts    *)
(* check intervals.                                                        *)
(***************************************************************************)
EXTENDS Integers, Sequences

CONSTANTS
    Signatures, Segments, NoSegment,
    DOOM_LOOP_THRESHOLD, DOOM_LOOP_BACKOFF_LIMIT, OUTPUT_REPETITION_THRESHOLD,
    MAX_REPETITION_STOP_RETRIES,
    SubTurnMax,                     \* calls of one response; 0 is no cap
    MaxGuardTurns, MaxDispatches,   \* bounds: turns, recorded calls of an attempt,
    MaxFailures, MaxStream          \* failed attempts of a turn, length of a stream

ASSUME GuardAssumption ==
    /\ NoSegment \notin Segments
    /\ DOOM_LOOP_THRESHOLD \in Nat \ {0}
    /\ OUTPUT_REPETITION_THRESHOLD \in Nat \ {0, 1}    \* one answer repeats nothing
    /\ DOOM_LOOP_BACKOFF_LIMIT \in Nat /\ MAX_REPETITION_STOP_RETRIES \in Nat
    /\ SubTurnMax \in Nat /\ MaxFailures \in Nat /\ MaxStream \in Nat

VARIABLES
    guard_pc,          \* "idle", "call", "stream" or "batch"
    guard_turns,
    recent_signatures, doom_escalation,    \* DoomLoopState
    subturn_count,
    repetition,        \* RepetitionState: [last, consecutive, escalation, check_len]
    stream_len,
    rep_stop_retries, failures,            \* of the turn
    streak             \* for the properties: [sig, ran, steered, repeated]

guardVars == <<guard_pc, guard_turns, recent_signatures, doom_escalation, subturn_count,
    repetition, stream_len, rep_stop_retries, failures, streak>>
doomVars == <<recent_signatures, doom_escalation>>
turnCounts == <<guard_turns, rep_stop_retries, failures>>

NoStreak == [sig |-> "none", ran |-> 0, steered |-> 0, repeated |-> 0]
NoRepetition == [last |-> NoSegment, consecutive |-> 0, escalation |-> 0, check_len |-> 0]

GuardInit ==
    /\ guard_pc = "idle" /\ guard_turns = 0 /\ recent_signatures = <<>> /\ doom_escalation = 0
    /\ subturn_count = 0 /\ repetition = NoRepetition /\ stream_len = 0
    /\ rep_stop_retries = 0 /\ failures = 0 /\ streak = NoStreak

reset_ladder(r) == [r EXCEPT !.escalation = 0, !.check_len = 0]

\* First and Backoff steer, what comes after them stops the run.
Level(escalation) ==
    IF escalation <= 1 + DOOM_LOOP_BACKOFF_LIMIT THEN "steer" ELSE "stop"

-----------------------------------------------------------------------------
(* Attempts. *)
\* Every attempt starts with an empty detector.
BeginAttempt ==
    /\ guard_pc' = "call" /\ recent_signatures' = <<>> /\ doom_escalation' = 0

GuardTurnStarts ==
    /\ guard_pc = "idle" /\ guard_turns < MaxGuardTurns /\ guard_turns' = guard_turns + 1
    /\ BeginAttempt /\ rep_stop_retries' = 0 /\ failures' = 0 /\ streak' = NoStreak
    /\ UNCHANGED <<subturn_count, repetition, stream_len>>

\* A completion that fails is retried; the session's repetition state stays.
CompletionFails ==
    /\ guard_pc \in {"call", "stream"}
    /\ IF failures < MaxFailures
       THEN /\ failures' = failures + 1 /\ BeginAttempt
            /\ streak' = [NoStreak EXCEPT !.repeated = streak.repeated]
       ELSE guard_pc' = "idle" /\ UNCHANGED <<failures, doomVars, streak>>
    /\ UNCHANGED <<guard_turns, subturn_count, repetition, stream_len, rep_stop_retries>>

TurnCancelled ==
    /\ guard_pc # "idle" /\ guard_pc' = "idle"
    /\ UNCHANGED <<turnCounts, doomVars, subturn_count, repetition, stream_len, streak>>

\* A slip in which the last retry is given twice.
RepetitionLadder_Bug(r) ==
    IF rep_stop_retries <= MAX_REPETITION_STOP_RETRIES
    THEN /\ rep_stop_retries' = rep_stop_retries + 1 /\ BeginAttempt
         /\ repetition' = reset_ladder(r)
    ELSE guard_pc' = "idle" /\ repetition' = r /\ UNCHANGED <<rep_stop_retries, doomVars>>
\* The run was stopped for repetition, with the state r: one more attempt with a
\* steering message, or the end of the turn.
RepetitionLadder(r) ==
    IF rep_stop_retries < MAX_REPETITION_STOP_RETRIES
    THEN /\ rep_stop_retries' = rep_stop_retries + 1 /\ BeginAttempt
         /\ repetition' = reset_ladder(r)
    ELSE guard_pc' = "idle" /\ repetition' = r /\ UNCHANGED <<rep_stop_retries, doomVars>>

-----------------------------------------------------------------------------
(* One model response. *)
guards_on_completion_call ==
    /\ guard_pc = "call" /\ guard_pc' = "stream" /\ subturn_count' = 0 /\ stream_len' = 0
    /\ UNCHANGED <<turnCounts, doomVars, repetition, streak>>

\* The stream grows; the suffix is looked at once it has grown an interval past
\* the mark of the last look, which an earlier stream may have left.
on_text_delta ==
    /\ guard_pc = "stream" /\ stream_len < MaxStream /\ stream_len' = stream_len + 1
    /\ IF stream_len + 1 < repetition.check_len + 1
       THEN UNCHANGED <<guard_pc, doomVars, repetition, rep_stop_retries, streak>>
       ELSE LET looked == [repetition EXCEPT !.check_len = stream_len + 1]
            IN  \/ repetition' = looked /\ UNCHANGED <<guard_pc, doomVars, rep_stop_retries, streak>>
                \/ RepetitionLadder(looked) /\ streak' = [NoStreak EXCEPT !.repeated = streak.repeated]
    /\ UNCHANGED <<guard_turns, subturn_count, failures>>

\* A slip in which a repeated answer starts the ladder afresh.
record_segment_Bug(r, segment) ==
    IF r.last = segment THEN [reset_ladder(r) EXCEPT !.consecutive = @ + 1]
    ELSE [reset_ladder(r) EXCEPT !.last = segment, !.consecutive = 1]
record_segment(r, segment) ==
    IF r.last = segment THEN [r EXCEPT !.consecutive = @ + 1]
    ELSE [reset_ladder(r) EXCEPT !.last = segment, !.consecutive = 1]

\* An answer without calls: accepted, or steered and asked for again, or stopped.
AnswerFinished(segment) ==
    /\ guard_pc = "stream"
    /\ LET r == IF segment = NoSegment THEN repetition ELSE record_segment(repetition, segment)
           r1 == [r EXCEPT !.escalation = @ + 1]
       IN  IF segment = NoSegment \/ r.consecutive < OUTPUT_REPETITION_THRESHOLD
           THEN /\ repetition' = r /\ guard_pc' = "idle" /\ recent_signatures' = <<>>
                /\ doom_escalation' = 0 /\ UNCHANGED <<rep_stop_retries, streak>>
           ELSE IF Level(r1.escalation) = "steer"
           THEN /\ streak' = [streak EXCEPT !.repeated = @ + 1]
                /\ guard_pc' = "call" /\ repetition' = r1 /\ UNCHANGED <<doomVars, rep_stop_retries>>
           ELSE /\ streak' = [NoStreak EXCEPT !.repeated = streak.repeated + 1]
                /\ RepetitionLadder(r1)
    /\ UNCHANGED <<guard_turns, failures, subturn_count, stream_len>>

\* A response with calls clears what is known of the answers.
CallsFinished ==
    /\ guard_pc = "stream" /\ guard_pc' = "batch"
    /\ repetition' = reset_ladder([repetition EXCEPT !.last = NoSegment, !.consecutive = 0])
    /\ streak' = [streak EXCEPT !.repeated = 0]
    /\ UNCHANGED <<turnCounts, doomVars, subturn_count, stream_len>>

BatchEnds ==
    /\ guard_pc = "batch" /\ guard_pc' = "call"
    /\ UNCHANGED <<turnCounts, doomVars, subturn_count, repetition, stream_len, streak>>

-----------------------------------------------------------------------------
(* One call of the batch, in the order of on_dispatch: the cap, the doom    *)
(* loop, then the circuit breaker and the permission, either of which may   *)
(* keep the call from running.                                              *)
Capped == SubTurnMax # 0 /\ subturn_count >= SubTurnMax

\* A slip in which the window is emptied by the skip.
check_and_record_Bug(sig) ==
    LET signatures == Append(recent_signatures, sig)
        n == Len(signatures)
        looped == /\ n >= DOOM_LOOP_THRESHOLD
                  /\ \A i \in n - DOOM_LOOP_THRESHOLD + 1 .. n : signatures[i] = sig
    IN  /\ recent_signatures' = IF looped THEN <<>> ELSE signatures
        /\ doom_escalation' = doom_escalation + (IF looped THEN 1 ELSE 0)
check_and_record(sig) ==
    LET signatures == Append(recent_signatures, sig)
        n == Len(signatures)
        looped == /\ n >= DOOM_LOOP_THRESHOLD
                  /\ \A i \in n - DOOM_LOOP_THRESHOLD + 1 .. n : signatures[i] = sig
    IN  /\ recent_signatures' = signatures
        /\ doom_escalation' = doom_escalation + (IF looped THEN 1 ELSE 0)

\* What the call adds to the streak of equal calls.
Ran(sig, did) ==
    LET same == IF streak.sig = sig THEN streak ELSE [streak EXCEPT !.sig = sig, !.ran = 0]
    IN  streak' = IF did THEN [same EXCEPT !.ran = @ + 1] ELSE same

on_dispatch(sig) ==
    /\ guard_pc = "batch"
    /\ IF Capped
       THEN UNCHANGED <<guard_pc, doomVars, subturn_count, streak>>
       ELSE /\ Len(recent_signatures) < MaxDispatches
            /\ subturn_count' = IF SubTurnMax = 0 THEN 0 ELSE subturn_count + 1
            /\ check_and_record(sig)
            /\ IF doom_escalation' = doom_escalation
               THEN \E did \in BOOLEAN : Ran(sig, did) /\ UNCHANGED guard_pc
               ELSE /\ streak' = [streak EXCEPT !.steered = @ + 1]
                    /\ guard_pc' = IF Level(doom_escalation') = "steer" THEN "batch" ELSE "idle"
    /\ UNCHANGED <<turnCounts, repetition, stream_len>>

GuardNext ==
    \/ GuardTurnStarts \/ CompletionFails \/ TurnCancelled
    \/ guards_on_completion_call \/ on_text_delta \/ CallsFinished \/ BatchEnds
    \/ \E segment \in Segments \cup {NoSegment} : AnswerFinished(segment)
    \/ \E sig \in Signatures : on_dispatch(sig)

GuardSpec == GuardInit /\ [][GuardNext]_guardVars

-----------------------------------------------------------------------------
GuardTypeOK ==
    /\ guard_pc \in {"idle", "call", "stream", "batch"}
    /\ recent_signatures \in Seq(Signatures) /\ doom_escalation \in Nat
    /\ subturn_count \in 0..SubTurnMax /\ stream_len \in 0..MaxStream
    /\ repetition.last \in Segments \cup {NoSegment}
    /\ rep_stop_retries \in 0..MAX_REPETITION_STOP_RETRIES /\ failures \in 0..MaxFailures

\* Within an attempt a call runs fewer than DOOM_LOOP_THRESHOLD times in a row with
\* the same arguments, and a model that ignores the steering has its run stopped when
\* the ladder is spent: refusals and the cap change neither.
LoopCut ==
    /\ streak.ran < DOOM_LOOP_THRESHOLD
    /\ streak.steered <= 2 + DOOM_LOOP_BACKOFF_LIMIT
    /\ guard_pc = "batch" => streak.steered <= 1 + DOOM_LOOP_BACKOFF_LIMIT

\* A turn in which the model does nothing but repeat itself ends: each attempt takes
\* the ladder's steps, and only the steering retries start it again.
RepetitionBounded ==
    streak.repeated <= (2 + DOOM_LOOP_BACKOFF_LIMIT) * (1 + MAX_REPETITION_STOP_RETRIES)
=============================================================================
