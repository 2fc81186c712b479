---------------------------- MODULE TurnGuardsProofs ----------------------------
(***************************************************************************)
(* Theorems about the guards of a turn, for every set of calls and answers *)
(* and every threshold and limit.                                          *)
(***************************************************************************)
EXTENDS TurnGuards, TLAPS

-----------------------------------------------------------------------------
(* The inductive invariants.                                               *)

B == 1 + DOOM_LOOP_BACKOFF_LIMIT    \* steps of a ladder that steer

StreakType ==
    /\ streak = [sig |-> streak.sig, ran |-> streak.ran, steered |-> streak.steered,
                 repeated |-> streak.repeated]
    /\ streak.ran \in Nat /\ streak.steered \in Nat /\ streak.repeated \in Nat
    /\ recent_signatures \in Seq(Signatures) /\ doom_escalation \in Nat

(* The calls of the streak that ran are at the end of what the detector    *)
(* remembers.                                                              *)
Remembered ==
    guard_pc # "idle" =>
        /\ streak.ran <= Len(recent_signatures)
        /\ \A i \in Nat : i > Len(recent_signatures) - streak.ran /\ i <= Len(recent_signatures)
              => recent_signatures[i] = streak.sig

(* The ladder's step is the number of calls it steered.                    *)
Steered ==
    /\ guard_pc # "idle" => streak.steered = doom_escalation /\ streak.steered <= B
    /\ streak.steered <= 1 + B

LoopInv == StreakType /\ Remembered /\ Steered /\ streak.ran < DOOM_LOOP_THRESHOLD

-----------------------------------------------------------------------------
LEMMA Constants ==
  /\ DOOM_LOOP_THRESHOLD \in Nat /\ DOOM_LOOP_THRESHOLD > 0 /\ B \in Nat
  /\ OUTPUT_REPETITION_THRESHOLD \in Nat /\ OUTPUT_REPETITION_THRESHOLD > 1
  /\ MAX_REPETITION_STOP_RETRIES \in Nat /\ NoSegment \notin Segments
  BY GuardAssumption DEF B

LEMMA LevelBound ==
  ASSUME NEW e \in Nat
  PROVE  Level(e) = "steer" <=> e <= B
  BY Constants DEF Level, B

LEMMA Emptied ==
  ASSUME NEW S, NEW q \in Seq(S), NEW r, r = q \/ r = <<>>
  PROVE  r \in Seq(S)
<1>1. CASE r = q
  BY <1>1
<1>2. CASE r = <<>>
  BY <1>2
<1> QED
  BY <1>1, <1>2

\* What recording a call does: it is found in a loop, or it and the calls before it
\* are not all the same.
LEMMA Recorded ==
  ASSUME StreakType, NEW sig \in Signatures, check_and_record(sig)
  PROVE  /\ recent_signatures' = Append(recent_signatures, sig)
         /\ \/ /\ doom_escalation' = doom_escalation + 1
               /\ DOOM_LOOP_THRESHOLD <= Len(recent_signatures')
               /\ \A i \in Nat : i > Len(recent_signatures') - DOOM_LOOP_THRESHOLD
                     /\ i <= Len(recent_signatures') => recent_signatures'[i] = sig
            \/ /\ doom_escalation' = doom_escalation
               /\ DOOM_LOOP_THRESHOLD <= Len(recent_signatures') =>
                     \E i \in Nat : /\ i > Len(recent_signatures') - DOOM_LOOP_THRESHOLD
                                    /\ i <= Len(recent_signatures') /\ recent_signatures'[i] # sig
<1> USE Constants
<1> DEFINE q == Append(recent_signatures, sig)
           T == DOOM_LOOP_THRESHOLD
<1>1. Len(q) \in Nat /\ T \in Nat /\ T > 0 /\ doom_escalation \in Nat
  BY DEF StreakType
<1>2. recent_signatures' = q
  BY DEF check_and_record
<1>3. CASE T <= Len(q) /\ \A i \in Len(q) - T + 1 .. Len(q) : q[i] = sig
  <2>1. doom_escalation' = doom_escalation + 1
    BY <1>1, <1>3 DEF check_and_record
  <2>2. \A i \in Nat : i > Len(q) - T /\ i <= Len(q) => i \in Len(q) - T + 1 .. Len(q)
    BY <1>1
  <2> QED
    BY <1>2, <1>3, <2>1, <2>2
<1>4. CASE T > Len(q)
  BY <1>1, <1>2, <1>4 DEF check_and_record
<1>5. CASE T <= Len(q) /\ \E i \in Len(q) - T + 1 .. Len(q) : q[i] # sig
  <2>1. doom_escalation' = doom_escalation
    BY <1>1, <1>5 DEF check_and_record
  <2>2. PICK i \in Len(q) - T + 1 .. Len(q) : q[i] # sig
    BY <1>5
  <2>3. i \in Nat /\ i > Len(q) - T /\ i <= Len(q)
    BY <1>1, <1>5
  <2> QED
    BY <1>2, <2>1, <2>2, <2>3
<1> QED
  BY <1>1, <1>3, <1>4, <1>5

\* A call in a loop leaves the streak: the calls that ran are still the last ones.
LEMMA LoopedCall ==
  ASSUME LoopInv, guard_pc = "batch", NEW sig \in Signatures,
         recent_signatures' = Append(recent_signatures, sig),
         DOOM_LOOP_THRESHOLD <= Len(recent_signatures'),
         \A i \in Nat : i > Len(recent_signatures') - DOOM_LOOP_THRESHOLD
             /\ i <= Len(recent_signatures') => recent_signatures'[i] = sig
  PROVE  /\ streak.ran <= Len(recent_signatures')
         /\ \A i \in Nat : i > Len(recent_signatures') - streak.ran /\ i <= Len(recent_signatures')
               => recent_signatures'[i] = streak.sig
<1> DEFINE n == Len(recent_signatures)
<1>1. /\ n \in Nat /\ Len(recent_signatures') = n + 1 /\ streak.ran \in Nat
      /\ streak.ran < DOOM_LOOP_THRESHOLD /\ streak.ran <= n /\ DOOM_LOOP_THRESHOLD \in Nat
      /\ \A i \in Nat : i > n - streak.ran /\ i <= n => recent_signatures[i] = streak.sig
      /\ \A i \in Nat : i > 0 /\ i <= n => recent_signatures'[i] = recent_signatures[i]
  BY Constants DEF LoopInv, StreakType, Remembered
<1> HIDE DEF n
<1>2. ASSUME streak.ran > 0 PROVE streak.sig = sig
  <2>1. n > 0 /\ n > n - streak.ran /\ n > n + 1 - DOOM_LOOP_THRESHOLD /\ n <= n + 1
    BY <1>1, <1>2
  <2>2. recent_signatures[n] = streak.sig /\ recent_signatures'[n] = sig
    BY <1>1, <2>1
  <2> QED
    BY <1>1, <2>1, <2>2
<1>3. ASSUME NEW i \in Nat, i > n + 1 - streak.ran, i <= n + 1
      PROVE  recent_signatures'[i] = streak.sig
  <2>1. streak.ran > 0 /\ i > n + 1 - DOOM_LOOP_THRESHOLD
    BY <1>1, <1>3
  <2> QED
    BY <1>1, <1>2, <1>3, <2>1
<1> QED
  BY <1>1, <1>3

\* A call that is not in a loop keeps the streak below the threshold.
LEMMA FreeCall ==
  ASSUME LoopInv, guard_pc = "batch", NEW sig \in Signatures, NEW did \in BOOLEAN, Ran(sig, did),
         recent_signatures' = Append(recent_signatures, sig),
         DOOM_LOOP_THRESHOLD <= Len(recent_signatures') =>
             \E i \in Nat : /\ i > Len(recent_signatures') - DOOM_LOOP_THRESHOLD
                            /\ i <= Len(recent_signatures') /\ recent_signatures'[i] # sig
  PROVE  /\ streak'.sig = sig /\ streak'.steered = streak.steered
         /\ streak'.repeated = streak.repeated /\ streak'.ran \in Nat
         /\ streak' = [sig |-> streak'.sig, ran |-> streak'.ran, steered |-> streak'.steered,
                       repeated |-> streak'.repeated]
         /\ streak'.ran < DOOM_LOOP_THRESHOLD /\ streak'.ran <= Len(recent_signatures')
         /\ \A i \in Nat : i > Len(recent_signatures') - streak'.ran /\ i <= Len(recent_signatures')
               => recent_signatures'[i] = sig
<1> DEFINE n == Len(recent_signatures)
           k == IF streak.sig = sig THEN streak.ran ELSE 0
           m == IF did THEN k + 1 ELSE k
<1>1. /\ n \in Nat /\ Len(recent_signatures') = n + 1 /\ streak.ran \in Nat
      /\ streak.ran < DOOM_LOOP_THRESHOLD /\ streak.ran <= n
      /\ DOOM_LOOP_THRESHOLD \in Nat /\ DOOM_LOOP_THRESHOLD > 0
      /\ \A i \in Nat : i > n - streak.ran /\ i <= n => recent_signatures[i] = streak.sig
      /\ \A i \in Nat : i > 0 /\ i <= n => recent_signatures'[i] = recent_signatures[i]
      /\ recent_signatures'[n + 1] = sig
  BY Constants DEF LoopInv, StreakType, Remembered
<1>2. /\ streak' = [sig |-> sig, ran |-> m, steered |-> streak.steered, repeated |-> streak.repeated]
      /\ m \in Nat /\ k \in Nat /\ m <= k + 1
  <2>1. k \in Nat /\ m \in Nat /\ m <= k + 1
    BY <1>1
  <2>2. streak = [sig |-> streak.sig, ran |-> streak.ran, steered |-> streak.steered,
                  repeated |-> streak.repeated]
    BY DEF LoopInv, StreakType
  <2> QED
    BY <2>1, <2>2 DEF Ran
<1>3. k < DOOM_LOOP_THRESHOLD /\ k <= n
      /\ \A i \in Nat : i > n - k /\ i <= n => recent_signatures[i] = sig
  BY <1>1
<1> HIDE DEF n, k, m
<1>4. ASSUME NEW i \in Nat, i > n - k, i <= n + 1 PROVE recent_signatures'[i] = sig
  <2>1. CASE i = n + 1
    BY <1>1, <2>1
  <2>2. CASE i # n + 1
    <3>1. i <= n /\ i > 0
      BY <1>1, <1>2, <1>3, <1>4, <2>2
    <3> QED
      BY <1>1, <1>3, <1>4, <3>1
  <2> QED
    BY <2>1, <2>2
<1>5. k + 1 < DOOM_LOOP_THRESHOLD
  <2> SUFFICES ASSUME k + 1 >= DOOM_LOOP_THRESHOLD PROVE FALSE
    BY <1>1, <1>2
  <2>1. k + 1 = DOOM_LOOP_THRESHOLD /\ DOOM_LOOP_THRESHOLD <= n + 1
    BY <1>1, <1>2, <1>3
  <2>2. PICK i \in Nat : i > n + 1 - DOOM_LOOP_THRESHOLD /\ i <= n + 1 /\ recent_signatures'[i] # sig
    BY <1>1, <2>1
  <2>3. i > n - k
    BY <1>1, <1>2, <2>1, <2>2
  <2> QED
    BY <1>4, <2>2, <2>3
<1>6. m < DOOM_LOOP_THRESHOLD /\ m <= n + 1
      /\ \A i \in Nat : i > n + 1 - m => i > n - k
  BY <1>1, <1>2, <1>3, <1>5
<1>7. \A i \in Nat : i > n + 1 - m /\ i <= n + 1 => recent_signatures'[i] = sig
  BY <1>4, <1>6
<1> QED
  BY <1>1, <1>2, <1>6, <1>7

-----------------------------------------------------------------------------
(* A new attempt or the end of the turn.                                   *)
Restarts ==
    /\ guard_pc' = "idle" \/ (recent_signatures' = <<>> /\ doom_escalation' = 0)
    /\ recent_signatures' = recent_signatures \/ recent_signatures' = <<>>
    /\ doom_escalation' = doom_escalation \/ doom_escalation' = 0
    /\ \E r \in Nat : streak' = [NoStreak EXCEPT !.repeated = r]

Keeps ==
    /\ UNCHANGED <<recent_signatures, doom_escalation>>
    /\ \E r \in Nat : streak' = [streak EXCEPT !.repeated = r]
    /\ guard_pc = "idle" => guard_pc' = "idle"

EndsIdle ==
    /\ guard_pc' = "idle" /\ UNCHANGED streak
    /\ recent_signatures' = recent_signatures \/ recent_signatures' = <<>>
    /\ doom_escalation' = doom_escalation \/ doom_escalation' = 0

\* As far as the detector sees them, the steps are a restart of the attempt, the end of
\* the turn, the record of a call, or leave the detector alone.
LEMMA LoopSplit ==
  ASSUME StreakType, [GuardNext]_guardVars
  PROVE  Restarts \/ Keeps \/ EndsIdle \/ \E sig \in Signatures : on_dispatch(sig)
<1> USE DEF StreakType, NoStreak, doomVars
<1>1. CASE GuardTurnStarts
  BY <1>1 DEF GuardTurnStarts, BeginAttempt, Restarts
<1>2. CASE CompletionFails
  <2>1. Restarts \/ EndsIdle
    BY <1>2 DEF CompletionFails, BeginAttempt, Restarts, EndsIdle
  <2> QED
    BY <2>1
<1>3. CASE TurnCancelled
  BY <1>3 DEF TurnCancelled, EndsIdle
<1>4. CASE guards_on_completion_call \/ BatchEnds \/ UNCHANGED guardVars
  <2>1. streak = [streak EXCEPT !.repeated = streak.repeated]
    OBVIOUS
  <2> QED
    BY <1>4, <2>1 DEF guards_on_completion_call, BatchEnds, guardVars, Keeps
<1>5. CASE on_text_delta
  <2>1. streak = [streak EXCEPT !.repeated = streak.repeated]
    OBVIOUS
  <2>2. CASE UNCHANGED <<guard_pc, doomVars, streak>>
    BY <1>5, <2>1, <2>2 DEF on_text_delta, Keeps
  <2>3. CASE streak' = [NoStreak EXCEPT !.repeated = streak.repeated]
             /\ \E r : RepetitionLadder(r)
    BY <1>5, <2>3 DEF RepetitionLadder, BeginAttempt, Restarts
  <2> QED
    BY <1>5, <2>2, <2>3 DEF on_text_delta
<1>6. CASE CallsFinished
  BY <1>6 DEF CallsFinished, Keeps
<1>7. ASSUME NEW segment \in Segments \cup {NoSegment}, AnswerFinished(segment)
      PROVE  Restarts \/ Keeps \/ EndsIdle
  <2> streak.repeated + 1 \in Nat
    OBVIOUS
  <2>1. CASE guard_pc' = "idle" /\ recent_signatures' = <<>> /\ doom_escalation' = 0 /\ UNCHANGED streak
    BY <2>1 DEF EndsIdle
  <2>2. CASE streak' = [streak EXCEPT !.repeated = streak.repeated + 1]
             /\ guard_pc = "stream" /\ UNCHANGED doomVars
    BY <2>2 DEF Keeps
  <2>3. CASE streak' = [NoStreak EXCEPT !.repeated = streak.repeated + 1]
             /\ \E r : RepetitionLadder(r)
    BY <2>3 DEF RepetitionLadder, BeginAttempt, Restarts
  <2> QED
    BY <1>7, <2>1, <2>2, <2>3 DEF AnswerFinished
<1> QED
  BY <1>1, <1>2, <1>3, <1>4, <1>5, <1>6, <1>7 DEF GuardNext

LEMMA LoopStep ==
  ASSUME LoopInv, [GuardNext]_guardVars
  PROVE  LoopInv'
<1> USE Constants DEF LoopInv, StreakType, Remembered, Steered
<1>1. CASE Restarts
  <2>1. PICK r \in Nat : streak' = [sig |-> "none", ran |-> 0, steered |-> 0, repeated |-> r]
    BY <1>1 DEF Restarts, NoStreak
  <2>2. recent_signatures' \in Seq(Signatures) /\ doom_escalation' \in Nat
    <3>1. (recent_signatures' = recent_signatures \/ recent_signatures' = <<>>)
          /\ (doom_escalation' = doom_escalation \/ doom_escalation' = 0)
      BY <1>1 DEF Restarts
    <3> QED
      BY ONLY <3>1, Emptied, recent_signatures \in Seq(Signatures), doom_escalation \in Nat
  <2>3. Len(recent_signatures') \in Nat
    BY <2>2
  <2>4. guard_pc' # "idle" => doom_escalation' = 0
    BY <1>1 DEF Restarts
  <2> QED
    BY <2>1, <2>2, <2>3, <2>4
<1>2. CASE Keeps
  <2>1. PICK r \in Nat : streak' = [sig |-> streak.sig, ran |-> streak.ran,
                                    steered |-> streak.steered, repeated |-> r]
    BY <1>2 DEF Keeps
  <2> QED
    BY <1>2, <2>1 DEF Keeps
<1>3. CASE EndsIdle
  <2>1. (recent_signatures' = recent_signatures \/ recent_signatures' = <<>>)
        /\ (doom_escalation' = doom_escalation \/ doom_escalation' = 0)
    BY <1>3 DEF EndsIdle
  <2>2. recent_signatures' \in Seq(Signatures) /\ doom_escalation' \in Nat
    BY ONLY <2>1, Emptied, recent_signatures \in Seq(Signatures), doom_escalation \in Nat
  <2> QED
    BY <1>3, <2>2 DEF EndsIdle
<1>4. ASSUME NEW sig \in Signatures, on_dispatch(sig) PROVE LoopInv'
  <2>1. guard_pc = "batch"
    BY <1>4 DEF on_dispatch
  <2>2. CASE UNCHANGED <<guard_pc, doomVars, streak>>
    BY <2>2 DEF doomVars
  <2>3. CASE check_and_record(sig) /\ doom_escalation' = doom_escalation
             /\ (\E did \in BOOLEAN : Ran(sig, did)) /\ UNCHANGED guard_pc
    <3>1. /\ recent_signatures' = Append(recent_signatures, sig)
          /\ DOOM_LOOP_THRESHOLD <= Len(recent_signatures') =>
                     \E i \in Nat : /\ i > Len(recent_signatures') - DOOM_LOOP_THRESHOLD
                                    /\ i <= Len(recent_signatures') /\ recent_signatures'[i] # sig
      <4>1. check_and_record(sig) /\ doom_escalation' = doom_escalation /\ doom_escalation \in Nat
        BY <2>3
      <4>2. doom_escalation' # doom_escalation + 1
        BY ONLY <4>1
      <4> QED
        BY ONLY LoopInv, sig \in Signatures, <4>1, <4>2, Recorded DEF LoopInv
    <3>2. recent_signatures' \in Seq(Signatures)
      <4>1. recent_signatures' = Append(recent_signatures, sig)
        BY ONLY <3>1
      <4> QED
        BY ONLY <4>1, recent_signatures \in Seq(Signatures), sig \in Signatures
    <3>3. PICK did \in BOOLEAN : Ran(sig, did)
      BY <2>3
    <3>4. /\ streak'.sig = sig /\ streak'.steered = streak.steered
          /\ streak'.repeated = streak.repeated /\ streak'.ran \in Nat
          /\ streak' = [sig |-> streak'.sig, ran |-> streak'.ran, steered |-> streak'.steered,
                        repeated |-> streak'.repeated]
          /\ streak'.ran < DOOM_LOOP_THRESHOLD /\ streak'.ran <= Len(recent_signatures')
          /\ \A i \in Nat : i > Len(recent_signatures') - streak'.ran /\ i <= Len(recent_signatures')
                => recent_signatures'[i] = sig
      BY ONLY LoopInv, <2>1, <3>1, <3>3, FreeCall, sig \in Signatures, did \in BOOLEAN
    <3> QED
      BY <2>1, <2>3, <3>2, <3>4
  <2>4. CASE /\ check_and_record(sig) /\ doom_escalation' # doom_escalation
             /\ streak' = [streak EXCEPT !.steered = @ + 1]
             /\ guard_pc' = IF Level(doom_escalation') = "steer" THEN "batch" ELSE "idle"
    <3>1. /\ recent_signatures' = Append(recent_signatures, sig)
          /\ doom_escalation' = doom_escalation + 1
          /\ DOOM_LOOP_THRESHOLD <= Len(recent_signatures')
          /\ \A i \in Nat : i > Len(recent_signatures') - DOOM_LOOP_THRESHOLD
                     /\ i <= Len(recent_signatures') => recent_signatures'[i] = sig
      BY <2>4, Recorded
    <3>2. /\ streak.ran <= Len(recent_signatures')
          /\ \A i \in Nat : i > Len(recent_signatures') - streak.ran /\ i <= Len(recent_signatures')
               => recent_signatures'[i] = streak.sig
      BY <2>1, <3>1, LoopedCall
    <3>3. recent_signatures' \in Seq(Signatures)
      BY <3>1
    <3>4. /\ streak' = [sig |-> streak.sig, ran |-> streak.ran, steered |-> streak.steered + 1,
                        repeated |-> streak.repeated]
          /\ streak.steered = doom_escalation /\ streak.steered <= B
      BY <2>1, <2>4
    <3>5. guard_pc' # "idle" => doom_escalation' <= B
      <4>1. doom_escalation' \in Nat
        BY <3>1
      <4> QED
        BY <2>4, <4>1, LevelBound
    <3> QED
      BY <3>1, <3>2, <3>3, <3>4, <3>5
  <2> QED
    BY <1>4, <2>2, <2>3, <2>4 DEF on_dispatch
<1> QED
  BY <1>1, <1>2, <1>3, <1>4, LoopSplit

LEMMA LoopInit == GuardInit => LoopInv
  BY Constants DEF GuardInit, LoopInv, StreakType, Remembered, Steered, NoStreak

\* Within an attempt no call runs DOOM_LOOP_THRESHOLD times in a row, and the ladder
\* ends the run of a model that ignores it, whatever is refused, capped or retried.
THEOREM LoopsEnd == GuardSpec => []LoopCut
<1>1. GuardInit => LoopInv
  BY LoopInit
<1>2. LoopInv /\ [GuardNext]_guardVars => LoopInv'
  BY LoopStep
<1>3. LoopInv => LoopCut
  BY GuardAssumption DEF LoopInv, StreakType, Steered, LoopCut, B
<1> QED
  BY <1>1, <1>2, <1>3, PTL DEF GuardSpec

-----------------------------------------------------------------------------
(* Repeated answers: each attempt of a turn uses up its ladder at most once. *)

K == 1 + B      \* repeated answers an attempt may give before it is stopped

RepType ==
    /\ repetition = [last |-> repetition.last, consecutive |-> repetition.consecutive,
                     escalation |-> repetition.escalation, check_len |-> repetition.check_len]
    /\ repetition.consecutive \in Nat /\ repetition.escalation \in Nat
    /\ rep_stop_retries \in Nat /\ rep_stop_retries <= MAX_REPETITION_STOP_RETRIES
    /\ streak = [sig |-> streak.sig, ran |-> streak.ran, steered |-> streak.steered,
                 repeated |-> streak.repeated]
    /\ streak.repeated \in Nat

(* The answers of the attempts that were stopped, and those of this one,   *)
(* which the ladder counts.                                                *)
LadderCounts ==
    guard_pc # "idle" =>
        /\ streak.repeated <= rep_stop_retries * K + repetition.escalation
        /\ streak.repeated <= rep_stop_retries * K + B

RepInv ==
    RepType /\ LadderCounts /\ streak.repeated <= K * (1 + MAX_REPETITION_STOP_RETRIES)

LEMMA Product ==
  ASSUME NEW r \in Nat, r <= MAX_REPETITION_STOP_RETRIES
  PROVE  /\ r * K \in Nat /\ K \in Nat /\ K = B + 1 /\ B \in Nat /\ 0 * K = 0
         /\ (r + 1) * K = r * K + K
         /\ r * K + K <= K * (1 + MAX_REPETITION_STOP_RETRIES)
<1> USE Constants DEF K
<1>1. K \in Nat /\ MAX_REPETITION_STOP_RETRIES \in Nat
  OBVIOUS
<1> DEFINE M == MAX_REPETITION_STOP_RETRIES
<1>2. \A a, b \in Nat : a * b \in Nat /\ (a + 1) * b = a * b + b /\ b * (1 + a) = a * b + b
  OBVIOUS
<1>3. \A a, b, c \in Nat : a <= b => a * c <= b * c
  <2>1. \A a, b, c \in Nat : a <= b => b * c = a * c + (b - a) * c
    OBVIOUS
  <2>2. \A a, b \in Nat : a <= b => b - a \in Nat
    OBVIOUS
  <2> QED
    BY <1>2, <2>1, <2>2
<1>4. r * K <= M * K
  BY <1>1, <1>3
<1> QED
  BY <1>1, <1>2, <1>4

\* An attempt that repeated itself too often leads to one more or ends the turn.
LEMMA LadderStep ==
  ASSUME RepType, NEW r, NEW repeated \in Nat, RepetitionLadder(r),
         r = [last |-> r.last, consecutive |-> r.consecutive,
              escalation |-> r.escalation, check_len |-> r.check_len],
         r.consecutive \in Nat, r.escalation \in Nat,
         repeated <= rep_stop_retries * K + K,
         streak' = [NoStreak EXCEPT !.repeated = repeated]
  PROVE  RepInv'
<1> USE Constants DEF RepType
<1>1. streak' = [sig |-> "none", ran |-> 0, steered |-> 0, repeated |-> repeated]
  BY DEF NoStreak
<1>2. repeated <= K * (1 + MAX_REPETITION_STOP_RETRIES)
  BY Product
<1>3. CASE /\ rep_stop_retries < MAX_REPETITION_STOP_RETRIES
           /\ rep_stop_retries' = rep_stop_retries + 1 /\ repetition' = reset_ladder(r)
  <2>1. repetition' = [last |-> r.last, consecutive |-> r.consecutive, escalation |-> 0,
                       check_len |-> 0]
    BY <1>3 DEF reset_ladder
  <2>2. rep_stop_retries' \in Nat /\ rep_stop_retries' <= MAX_REPETITION_STOP_RETRIES
    BY <1>3
  <2>3. repeated <= rep_stop_retries' * K
    BY <1>3, Product
  <2>4. rep_stop_retries' * K \in Nat /\ B \in Nat
    BY <2>2, Product
  <2>5. RepType'
    BY <1>1, <2>1, <2>2
  <2>6. /\ streak'.repeated <= rep_stop_retries' * K + 0
        /\ streak'.repeated <= rep_stop_retries' * K + B /\ repetition'.escalation = 0
    BY <1>1, <2>1, <2>3, <2>4
  <2> QED
    BY <1>1, <1>2, <2>5, <2>6 DEF RepInv, LadderCounts
<1>4. CASE guard_pc' = "idle" /\ repetition' = r /\ UNCHANGED rep_stop_retries
  BY <1>1, <1>2, <1>4 DEF RepInv, LadderCounts
<1> QED
  BY <1>3, <1>4 DEF RepetitionLadder

(* The steps that count nothing.                                           *)
RepQuiet ==
    /\ guard_pc = "idle" => guard_pc' = "idle"
    /\ UNCHANGED rep_stop_retries /\ repetition'.escalation = repetition.escalation
    /\ repetition' = [last |-> repetition'.last, consecutive |-> repetition'.consecutive,
                     escalation |-> repetition'.escalation, check_len |-> repetition'.check_len]
    /\ repetition'.consecutive \in Nat
    /\ streak' = [sig |-> streak'.sig, ran |-> streak'.ran, steered |-> streak'.steered,
                 repeated |-> streak'.repeated]
    /\ streak'.repeated = streak.repeated

(* The steps that forget the answers.                                      *)
RepForgets ==
    /\ rep_stop_retries' \in {rep_stop_retries, 0}
    /\ \E last, check_len : \E consecutive, escalation \in Nat :
          repetition' = [last |-> last, consecutive |-> consecutive,
                         escalation |-> escalation, check_len |-> check_len]
    /\ streak' = [sig |-> streak'.sig, ran |-> streak'.ran, steered |-> streak'.steered,
                 repeated |-> streak'.repeated]
    /\ streak'.repeated = 0

LEMMA AnswerStep ==
  ASSUME RepInv, NEW segment \in Segments \cup {NoSegment}, AnswerFinished(segment)
  PROVE  RepInv'
<1> USE Constants DEF RepInv, RepType, LadderCounts
<1> DEFINE r == IF segment = NoSegment THEN repetition ELSE record_segment(repetition, segment)
           r1 == [r EXCEPT !.escalation = @ + 1]
<1>1. /\ r = [last |-> r.last, consecutive |-> r.consecutive,
              escalation |-> r.escalation, check_len |-> r.check_len]
      /\ r.consecutive \in Nat /\ r.escalation \in Nat
      /\ r.consecutive <= 1 \/ r.escalation = repetition.escalation
      /\ segment # NoSegment /\ r.consecutive > 1 => r.escalation = repetition.escalation
  <2>1. CASE segment = NoSegment
    BY <2>1
  <2>2. CASE segment # NoSegment /\ repetition.last = segment
    <3>1. r = [last |-> repetition.last, consecutive |-> repetition.consecutive + 1,
               escalation |-> repetition.escalation, check_len |-> repetition.check_len]
      BY <2>2 DEF record_segment
    <3> HIDE DEF r
    <3> QED
      BY <3>1
  <2>3. CASE segment # NoSegment /\ repetition.last # segment
    <3>1. r = [last |-> segment, consecutive |-> 1, escalation |-> 0, check_len |-> 0]
      BY <2>3 DEF record_segment, reset_ladder
    <3> HIDE DEF r
    <3> QED
      BY <3>1
  <2> QED
    BY <2>1, <2>2, <2>3
<1>2. r1 = [last |-> r.last, consecutive |-> r.consecutive, escalation |-> r.escalation + 1,
            check_len |-> r.check_len]
  BY <1>1
<1>3. /\ guard_pc = "stream" /\ streak.repeated <= rep_stop_retries * K + repetition.escalation
      /\ streak.repeated <= rep_stop_retries * K + B /\ rep_stop_retries * K \in Nat
      /\ K = B + 1 /\ B \in Nat
  BY Product DEF AnswerFinished
<1>4. CASE guard_pc' = "idle" /\ repetition' = r /\ UNCHANGED <<rep_stop_retries, streak>>
  BY <1>1, <1>4
<1>5. CASE /\ segment # NoSegment /\ r.consecutive >= OUTPUT_REPETITION_THRESHOLD
           /\ Level(r1.escalation) = "steer"
           /\ streak' = [streak EXCEPT !.repeated = @ + 1] /\ repetition' = r1
           /\ UNCHANGED rep_stop_retries
  <2>1. r.escalation = repetition.escalation
    BY <1>1, <1>5
  <2>2. r1.escalation = repetition.escalation + 1 /\ repetition.escalation + 1 \in Nat
    BY <1>2, <2>1
  <2>3. repetition.escalation + 1 <= B
    BY <1>5, <2>2, LevelBound
  <2>4. streak' = [sig |-> streak.sig, ran |-> streak.ran, steered |-> streak.steered,
                   repeated |-> streak.repeated + 1]
    BY <1>5
  <2>5. streak.repeated + 1 <= rep_stop_retries * K + B
    BY <1>3, <2>3
  <2>6. streak.repeated + 1 <= K * (1 + MAX_REPETITION_STOP_RETRIES)
    BY <1>3, <2>5, Product
  <2>7. repetition' = [last |-> r.last, consecutive |-> r.consecutive,
                       escalation |-> repetition.escalation + 1, check_len |-> r.check_len]
    BY <1>2, <1>5, <2>1
  <2> HIDE DEF r, r1
  <2> QED
    BY <1>1, <1>3, <1>5, <2>2, <2>4, <2>5, <2>6, <2>7
<1>6. CASE /\ streak' = [NoStreak EXCEPT !.repeated = streak.repeated + 1]
           /\ RepetitionLadder(r1)
  <2>1. streak.repeated + 1 \in Nat /\ streak.repeated + 1 <= rep_stop_retries * K + K
    BY <1>3
  <2>2. /\ r1 = [last |-> r1.last, consecutive |-> r1.consecutive,
                 escalation |-> r1.escalation, check_len |-> r1.check_len]
        /\ r1.consecutive \in Nat /\ r1.escalation \in Nat
    BY <1>1, <1>2
  <2> HIDE DEF r1
  <2> QED
    BY <1>6, <2>1, <2>2, LadderStep
<1> HIDE DEF r1
<1>7. \/ guard_pc' = "idle" /\ repetition' = r /\ UNCHANGED <<rep_stop_retries, streak>>
      \/ /\ segment # NoSegment /\ r.consecutive >= OUTPUT_REPETITION_THRESHOLD
         /\ Level(r1.escalation) = "steer"
         /\ streak' = [streak EXCEPT !.repeated = @ + 1] /\ repetition' = r1
         /\ UNCHANGED rep_stop_retries
      \/ /\ streak' = [NoStreak EXCEPT !.repeated = streak.repeated + 1]
         /\ RepetitionLadder(r1)
  BY <1>1 DEF AnswerFinished, r1
<1> QED
  BY <1>4, <1>5, <1>6, <1>7

LEMMA RepStep ==
  ASSUME RepInv, [GuardNext]_guardVars
  PROVE  RepInv'
<1> USE Constants DEF RepInv, RepType, LadderCounts
<1>1. CASE RepQuiet
  BY <1>1 DEF RepQuiet
<1>2. CASE RepForgets
  <2>1. rep_stop_retries' \in Nat /\ rep_stop_retries' <= MAX_REPETITION_STOP_RETRIES
    BY <1>2 DEF RepForgets
  <2>2. /\ rep_stop_retries' * K \in Nat /\ B \in Nat
        /\ 0 <= K * (1 + MAX_REPETITION_STOP_RETRIES)
    BY <2>1, Product
  <2>3. PICK last, check_len : \E consecutive, escalation \in Nat :
          repetition' = [last |-> last, consecutive |-> consecutive,
                         escalation |-> escalation, check_len |-> check_len]
    BY <1>2 DEF RepForgets
  <2>4. PICK consecutive \in Nat, escalation \in Nat :
          repetition' = [last |-> last, consecutive |-> consecutive,
                         escalation |-> escalation, check_len |-> check_len]
    BY <2>3
  <2> QED
    BY <1>2, <2>1, <2>2, <2>4 DEF RepForgets
<1>3. CASE GuardTurnStarts
  <2>1. RepForgets
    BY <1>3 DEF GuardTurnStarts, NoStreak, RepForgets
  <2> QED
    BY <1>2, <2>1
<1>4. CASE CompletionFails
  <2>1. RepQuiet
    BY <1>4 DEF CompletionFails, NoStreak, RepQuiet
  <2> QED
    BY <1>1, <2>1
<1>5. CASE TurnCancelled \/ guards_on_completion_call \/ BatchEnds \/ UNCHANGED guardVars
  <2>1. RepQuiet
    BY <1>5 DEF TurnCancelled, guards_on_completion_call, BatchEnds, guardVars, turnCounts, RepQuiet
  <2> QED
    BY <1>1, <2>1
<1>6. CASE on_text_delta
  <2> DEFINE looked == [repetition EXCEPT !.check_len = stream_len + 1]
  <2>1. looked = [last |-> repetition.last, consecutive |-> repetition.consecutive,
                  escalation |-> repetition.escalation, check_len |-> stream_len + 1]
    OBVIOUS
  <2>2. CASE (repetition' = repetition \/ repetition' = looked)
             /\ UNCHANGED <<guard_pc, rep_stop_retries, streak>>
    <3>1. RepQuiet
      BY <2>1, <2>2 DEF RepQuiet
    <3> QED
      BY <1>1, <3>1
  <2>3. CASE RepetitionLadder(looked) /\ streak' = [NoStreak EXCEPT !.repeated = streak.repeated]
    <3>1. streak.repeated <= rep_stop_retries * K + K
      BY <1>6, Product DEF on_text_delta
    <3>2. /\ looked = [last |-> looked.last, consecutive |-> looked.consecutive,
                       escalation |-> looked.escalation, check_len |-> looked.check_len]
          /\ looked.consecutive \in Nat /\ looked.escalation \in Nat
      BY <2>1
    <3> HIDE DEF looked
    <3> QED
      BY <2>3, <3>1, <3>2, LadderStep
  <2> QED
    BY <1>6, <2>2, <2>3 DEF on_text_delta
<1>7. CASE CallsFinished
  <2>1. repetition' = [last |-> NoSegment, consecutive |-> 0, escalation |-> 0, check_len |-> 0]
    BY <1>7 DEF CallsFinished, reset_ladder
  <2>2. RepForgets
    BY <1>7, <2>1 DEF CallsFinished, RepForgets, turnCounts
  <2> QED
    BY <1>2, <2>2
<1>8. ASSUME NEW segment \in Segments \cup {NoSegment}, AnswerFinished(segment) PROVE RepInv'
  BY <1>8, AnswerStep
<1>9. ASSUME NEW sig \in Signatures, on_dispatch(sig) PROVE RepInv'
  <2>1. RepQuiet
    BY <1>9 DEF on_dispatch, Ran, turnCounts, RepQuiet
  <2> QED
    BY <1>1, <2>1
<1> QED
  BY <1>3, <1>4, <1>5, <1>6, <1>7, <1>8, <1>9 DEF GuardNext

LEMMA RepInit == GuardInit => RepInv
<1>1. 0 <= K * (1 + MAX_REPETITION_STOP_RETRIES)
  BY Constants, Product
<1> QED
  BY <1>1, Constants DEF GuardInit, RepInv, RepType, LadderCounts, NoStreak, NoRepetition

\* A turn whose model only repeats itself ends: what the retries start again is a
\* ladder of steps, once for each retry.
THEOREM RepetitionsEnd == GuardSpec => []RepetitionBounded
<1>1. GuardInit => RepInv
  BY RepInit
<1>2. RepInv /\ [GuardNext]_guardVars => RepInv'
  BY RepStep
<1>3. RepInv => RepetitionBounded
  <2>1. K = 2 + DOOM_LOOP_BACKOFF_LIMIT
    BY GuardAssumption DEF K, B
  <2> QED
    BY <2>1 DEF RepInv, RepetitionBounded
<1> QED
  BY <1>1, <1>2, <1>3, PTL DEF GuardSpec

-----------------------------------------------------------------------------
(* Types, from the two invariants and the guards of the counters.          *)

GuardTyped == LoopInv /\ RepInv /\ GuardTypeOK

LEMMA LadderTypes ==
  ASSUME NEW r, r.last \in Segments \cup {NoSegment}, guard_pc \in {"call", "stream"},
         r = [last |-> r.last, consecutive |-> r.consecutive,
              escalation |-> r.escalation, check_len |-> r.check_len],
         RepetitionLadder(r)
  PROVE  guard_pc' \in {"idle", "call"} /\ repetition'.last = r.last
<1>1. CASE guard_pc' = "call" /\ repetition' = reset_ladder(r)
  <2>1. repetition' = [last |-> r.last, consecutive |-> r.consecutive, escalation |-> 0,
                       check_len |-> 0]
    BY <1>1 DEF reset_ladder
  <2> QED
    BY <1>1, <2>1
<1>2. CASE guard_pc' = "idle" /\ repetition' = r
  BY <1>2
<1> QED
  BY <1>1, <1>2 DEF RepetitionLadder, BeginAttempt

LEMMA GuardTypeStep ==
  ASSUME GuardTyped, [GuardNext]_guardVars
  PROVE  GuardTyped'
<1>1. LoopInv' /\ RepInv'
  BY LoopStep, RepStep DEF GuardTyped
<1>2. /\ recent_signatures' \in Seq(Signatures) /\ doom_escalation' \in Nat
      /\ rep_stop_retries' \in 0..MAX_REPETITION_STOP_RETRIES
  BY <1>1, Constants DEF LoopInv, StreakType, RepInv, RepType
<1>3. /\ guard_pc' \in {"idle", "call", "stream", "batch"}
      /\ subturn_count' \in 0..SubTurnMax /\ stream_len' \in 0..MaxStream
      /\ repetition'.last \in Segments \cup {NoSegment} /\ failures' \in 0..MaxFailures
  <2> USE GuardAssumption DEF GuardTyped, GuardTypeOK, turnCounts
  <2>0. repetition = [last |-> repetition.last, consecutive |-> repetition.consecutive,
                      escalation |-> repetition.escalation, check_len |-> repetition.check_len]
    BY DEF RepInv, RepType
  <2>1. CASE GuardTurnStarts \/ CompletionFails \/ TurnCancelled
    BY <2>1 DEF GuardTurnStarts, CompletionFails, TurnCancelled, BeginAttempt
  <2>2. CASE guards_on_completion_call \/ BatchEnds
    BY <2>2 DEF guards_on_completion_call, BatchEnds
  <2>3. CASE UNCHANGED guardVars
    BY <2>3 DEF guardVars
  <2>4. CASE on_text_delta
    <3> DEFINE looked == [repetition EXCEPT !.check_len = stream_len + 1]
    <3>1. looked = [last |-> repetition.last, consecutive |-> repetition.consecutive,
                    escalation |-> repetition.escalation, check_len |-> stream_len + 1]
      BY <2>0
    <3>2. /\ guard_pc = "stream" /\ stream_len' \in 0..MaxStream
          /\ UNCHANGED <<subturn_count, failures>>
          /\ \/ UNCHANGED <<guard_pc, repetition>>
             \/ repetition' = looked /\ UNCHANGED guard_pc
             \/ RepetitionLadder(looked)
      BY <2>4 DEF on_text_delta
    <3>3. looked.last = repetition.last /\ looked = [last |-> looked.last,
             consecutive |-> looked.consecutive, escalation |-> looked.escalation,
             check_len |-> looked.check_len]
      BY <3>1
    <3> HIDE DEF looked
    <3>4. CASE RepetitionLadder(looked)
      BY <3>2, <3>3, <3>4, LadderTypes
    <3> QED
      BY <3>2, <3>3, <3>4
  <2>5. CASE CallsFinished
    BY <2>0, <2>5 DEF CallsFinished, reset_ladder
  <2>6. ASSUME NEW segment \in Segments \cup {NoSegment}, AnswerFinished(segment)
        PROVE  /\ guard_pc' \in {"idle", "call", "stream", "batch"}
               /\ repetition'.last \in Segments \cup {NoSegment}
               /\ UNCHANGED <<subturn_count, stream_len, failures>>
    <3> DEFINE r == IF segment = NoSegment THEN repetition ELSE record_segment(repetition, segment)
               r1 == [r EXCEPT !.escalation = @ + 1]
    <3>1. /\ r = [last |-> r.last, consecutive |-> r.consecutive,
                  escalation |-> r.escalation, check_len |-> r.check_len]
          /\ r.last \in Segments \cup {NoSegment}
      BY <2>0 DEF record_segment, reset_ladder
    <3>2. r1 = [last |-> r.last, consecutive |-> r.consecutive,
                escalation |-> r.escalation + 1, check_len |-> r.check_len]
      BY <3>1
    <3>3. /\ guard_pc = "stream" /\ UNCHANGED <<subturn_count, stream_len, failures>>
          /\ \/ repetition' = r /\ guard_pc' = "idle"
             \/ repetition' = r1 /\ guard_pc' = "call"
             \/ RepetitionLadder(r1)
      BY <2>6 DEF AnswerFinished
    <3>4. r1.last = r.last /\ r1 = [last |-> r1.last, consecutive |-> r1.consecutive,
             escalation |-> r1.escalation, check_len |-> r1.check_len]
      BY <3>2
    <3> HIDE DEF r, r1
    <3>5. CASE RepetitionLadder(r1)
      BY <3>1, <3>3, <3>4, <3>5, LadderTypes
    <3> QED
      BY <3>1, <3>3, <3>4, <3>5
  <2>7. ASSUME NEW sig \in Signatures, on_dispatch(sig)
        PROVE  /\ guard_pc' \in {"idle", "call", "stream", "batch"}
               /\ subturn_count' \in 0..SubTurnMax /\ UNCHANGED <<repetition, stream_len, failures>>
    BY <2>7 DEF on_dispatch, Capped
  <2> QED
    BY <2>1, <2>2, <2>3, <2>4, <2>5, <2>6, <2>7 DEF GuardNext
<1> QED
  BY <1>1, <1>2, <1>3 DEF GuardTyped, GuardTypeOK

\* The variables of the guards keep their types: no count passes its cap, and the
\* steering retries of a turn never exceed their budget.
THEOREM GuardTypeCorrect == GuardSpec => []GuardTypeOK
<1>1. GuardInit => GuardTyped
  BY LoopInit, RepInit, GuardAssumption, Constants DEF GuardTyped, GuardInit, GuardTypeOK, NoRepetition
<1>2. GuardTyped /\ [GuardNext]_guardVars => GuardTyped'
  BY GuardTypeStep
<1>3. GuardTyped => GuardTypeOK
  BY DEF GuardTyped
<1> QED
  BY <1>1, <1>2, <1>3, PTL DEF GuardSpec
=============================================================================
