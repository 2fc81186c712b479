----------------------------- MODULE RuntimeSwitch -----------------------------
(***************************************************************************)
(* What one runtime keeps in step when its model, persona or session       *)
(* changes: the provider's configuration, the completion model built from  *)
(* it, the compaction threshold, the model the hooks report, the tokens    *)
(* the session consumed, its usage and the latch of a dead store.          *)
(*                                                                         *)
(* The worker calls the operations one after another, between turns.  A    *)
(* switch commits the configuration first, and each of its later steps may *)
(* refuse or fail.  A persona may name a model of its own.                 *)
(***************************************************************************)
EXTENDS Integers

CONSTANTS
    Models,        \* model specs the configuration resolves
    WindowOf,      \* the context window of a model, or 0 where it is unknown
    DefaultWindow, \* what the threshold is computed from then
    Pct,           \* the threshold's share of the window, in percent
    AgentModel,    \* persona |-> its model, or NoModel
    NoModel,
    RuntimeSessions, \* ids a session may be opened under
    Unknown,         \* no token count, no latch
    MaxWindow, MaxOps  \* bounds: tokens, operations

ASSUME RuntimeAssumption ==
    /\ NoModel \notin Models /\ Unknown \notin RuntimeSessions
    /\ Pct \in 0..100 /\ DefaultWindow \in Nat
    /\ \A m \in Models : WindowOf[m] \in 0..MaxWindow
    /\ \A a \in DOMAIN AgentModel : AgentModel[a] \in Models \cup {NoModel}

VARIABLES
    config_model,      \* the model of the provider's configuration
    client_cached,     \* the client of that configuration is cached
    dyn_model,         \* the model the next turn runs
    threshold_tokens,  \* of the compaction
    hook_model,        \* what hook envelopes report
    last_total_tokens, \* what the session consumed, or Unknown
    final_session_id,
    usage_of,          \* the session the usage totals cover
    latch_of,          \* the session the store-dead latch is set for, or Unknown
    tokens_of,         \* for the properties: the session last_total_tokens counts
    half_done,         \* ... the last accepted configuration has no model built from it
    operations

runtimeStateVars == <<config_model, client_cached, dyn_model, threshold_tokens, hook_model,
    last_total_tokens, final_session_id, usage_of, latch_of, tokens_of, half_done, operations>>
modelVars == <<config_model, client_cached, dyn_model, threshold_tokens, hook_model,
    half_done>>
sessionVars == <<last_total_tokens, final_session_id, usage_of, latch_of, tokens_of>>

Operation == operations < MaxOps /\ operations' = operations + 1

Threshold_of(m) == ((IF WindowOf[m] = 0 THEN DefaultWindow ELSE WindowOf[m]) * Pct) \div 100

RuntimeInit ==
    /\ config_model \in Models /\ dyn_model = config_model /\ client_cached = TRUE
    /\ threshold_tokens = Threshold_of(config_model) /\ hook_model = config_model
    /\ last_total_tokens = Unknown
    /\ final_session_id \in RuntimeSessions /\ usage_of = final_session_id
    /\ latch_of = Unknown /\ tokens_of = final_session_id
    /\ half_done = FALSE /\ operations = 0

-----------------------------------------------------------------------------
(* Models and personas. *)
\* A count that fills the window cannot be switched to; unknown ones can.
Blocked(m) ==
    last_total_tokens # Unknown /\ WindowOf[m] # 0 /\ last_total_tokens >= WindowOf[m]

\* The client or the model of the new configuration may fail to build, with the
\* configuration left as committed.
BuildFails(m) ==
    /\ config_model' = m /\ client_cached' \in BOOLEAN /\ half_done' = TRUE
    /\ UNCHANGED <<dyn_model, threshold_tokens>>

\* A slip in which the threshold of the first model stays.
BuildSucceeds_Bug(m) ==
    /\ config_model' = m /\ client_cached' = TRUE /\ half_done' = FALSE
    /\ dyn_model' = m /\ UNCHANGED threshold_tokens
BuildSucceeds(m) ==
    /\ config_model' = m /\ client_cached' = TRUE /\ half_done' = FALSE
    /\ dyn_model' = m /\ threshold_tokens' = Threshold_of(m)

\* A refusal puts the configuration back; the client is cached anew when needed.
RollBack == client_cached' = FALSE /\ UNCHANGED <<config_model, dyn_model, threshold_tokens, half_done>>

switch_model(m) ==
    /\ Operation
    /\ \/ Blocked(m) /\ RollBack /\ UNCHANGED hook_model
       \/ ~Blocked(m) /\ BuildFails(m) /\ UNCHANGED hook_model
       \/ ~Blocked(m) /\ BuildSucceeds(m) /\ hook_model' = m
    /\ UNCHANGED sessionVars

\* The persona's model is an attempt: refused or failing to build, the switch goes
\* on, and the hooks report what the configuration says.
switch_persona(a) ==
    LET m == AgentModel[a]
    IN  /\ Operation
        /\ \/ m = NoModel /\ client_cached' = FALSE
              /\ UNCHANGED <<config_model, dyn_model, threshold_tokens, half_done>>
           \/ m # NoModel /\ Blocked(m) /\ RollBack
           \/ /\ m # NoModel /\ ~Blocked(m) /\ config_model' = m /\ client_cached' = FALSE
              /\ \/ half_done' = TRUE /\ UNCHANGED <<dyn_model, threshold_tokens>>
                 \/ half_done' = FALSE /\ dyn_model' = m /\ threshold_tokens' = Threshold_of(m)
        /\ hook_model' = config_model'
        /\ UNCHANGED sessionVars

-----------------------------------------------------------------------------
(* Turns and compactions. *)
\* A turn needs the client of the configuration, runs the model that was built, and
\* learns what the session consumed; a store that does not open sets the latch.
TurnOfSession ==
    /\ Operation
    /\ \/ ~client_cached /\ UNCHANGED <<client_cached, last_total_tokens, tokens_of, latch_of>>
       \/ /\ client_cached' = TRUE
          /\ \/ \E n \in 0..MaxWindow :
                    /\ WindowOf[dyn_model] # 0 => n <= WindowOf[dyn_model]
                    /\ last_total_tokens' = n /\ tokens_of' = final_session_id
             \/ UNCHANGED <<last_total_tokens, tokens_of>>
          /\ latch_of' \in {latch_of, IF latch_of = Unknown THEN final_session_id ELSE latch_of}
    /\ UNCHANGED <<config_model, dyn_model, threshold_tokens, hook_model, half_done,
                   final_session_id, usage_of>>

\* A compaction: a store that does not open sets the latch, one that opens clears
\* it, and the count is unknown once the history is shorter.
run_compaction ==
    /\ Operation
    /\ \/ /\ latch_of' = IF latch_of = Unknown THEN final_session_id ELSE latch_of
          /\ UNCHANGED <<last_total_tokens, tokens_of>>
       \/ /\ latch_of' = Unknown
          /\ \/ last_total_tokens' = Unknown /\ tokens_of' = final_session_id
             \/ UNCHANGED <<last_total_tokens, tokens_of>>
    /\ UNCHANGED <<modelVars, final_session_id, usage_of>>

-----------------------------------------------------------------------------
(* Sessions. *)
\* A slip in which the count of the session that is left stays.
reset_session_scoped_inputs_Bug ==
    latch_of' = Unknown /\ UNCHANGED <<last_total_tokens, tokens_of>>
reset_session_scoped_inputs ==
    latch_of' = Unknown /\ last_total_tokens' = Unknown /\ tokens_of' = tokens_of

clear_session ==
    /\ Operation /\ reset_session_scoped_inputs
    /\ UNCHANGED <<modelVars, final_session_id, usage_of>>

\* new_session, load_session and attach_session: what is read is read first, so a
\* failure leaves the session as it was.
attach_session(id) ==
    /\ Operation /\ reset_session_scoped_inputs
    /\ final_session_id' = id /\ usage_of' = id
    /\ UNCHANGED modelVars

RuntimeNext ==
    \/ \E m \in Models : switch_model(m)
    \/ \E a \in DOMAIN AgentModel : switch_persona(a)
    \/ TurnOfSession \/ run_compaction \/ clear_session
    \/ \E id \in RuntimeSessions : attach_session(id)

RuntimeSpec == RuntimeInit /\ [][RuntimeNext]_runtimeStateVars

-----------------------------------------------------------------------------
RuntimeTypeOK ==
    /\ {config_model, dyn_model, hook_model} \subseteq Models
    /\ {final_session_id, usage_of, tokens_of} \subseteq RuntimeSessions
    /\ latch_of \in RuntimeSessions \cup {Unknown}
    /\ last_total_tokens \in 0..MaxWindow \cup {Unknown}

\* Unless the last accepted configuration failed to build its model, the model that
\* runs, the model the hooks report and the compaction threshold are those of the
\* configuration, and the session still fits the model's window: refusals, roll-backs
\* and a persona's own model included.
ModelInStep ==
    ~half_done =>
        /\ dyn_model = config_model /\ hook_model = config_model
        /\ threshold_tokens = Threshold_of(config_model)
        /\ last_total_tokens # Unknown /\ WindowOf[config_model] # 0
             => last_total_tokens <= WindowOf[config_model]

\* What decides on compactions and switches describes the session in use: the token
\* count, the usage and the latch of the session that was left are never consulted.
SessionOwn ==
    /\ last_total_tokens # Unknown => tokens_of = final_session_id
    /\ usage_of = final_session_id /\ latch_of \in {Unknown, final_session_id}
=============================================================================
