----------------------------- MODULE RuntimeProofs -----------------------------
(***************************************************************************)
(* Theorems about one runtime: its switches, for every set of models,      *)
(* windows, personas and sessions, and the MCP servers of its session, for *)
(* every set of servers and tools and every threshold of the breaker.      *)
(***************************************************************************)
EXTENDS RuntimeSwitch, McpServers, TLAPS

-----------------------------------------------------------------------------
(* The switches of the runtime.                                            *)
LEMMA RuntimeTypeStep ==
  ASSUME RuntimeTypeOK, [RuntimeNext]_runtimeStateVars
  PROVE  RuntimeTypeOK'
<1> USE DEF RuntimeTypeOK
<1>1. ASSUME NEW m \in Models, switch_model(m) PROVE RuntimeTypeOK'
  BY <1>1 DEF switch_model, RollBack, BuildFails, BuildSucceeds, sessionVars
<1>2. ASSUME NEW a \in DOMAIN AgentModel, switch_persona(a) PROVE RuntimeTypeOK'
  BY <1>2, RuntimeAssumption DEF switch_persona, RollBack, sessionVars
<1>3. CASE TurnOfSession
  BY <1>3 DEF TurnOfSession
<1>4. CASE run_compaction
  BY <1>4 DEF run_compaction, modelVars
<1>5. CASE clear_session
  BY <1>5 DEF clear_session, reset_session_scoped_inputs, modelVars
<1>6. ASSUME NEW id \in RuntimeSessions, attach_session(id) PROVE RuntimeTypeOK'
  BY <1>6 DEF attach_session, reset_session_scoped_inputs, modelVars
<1>7. CASE UNCHANGED runtimeStateVars
  BY <1>7 DEF runtimeStateVars
<1> QED
  BY <1>1, <1>2, <1>3, <1>4, <1>5, <1>6, <1>7 DEF RuntimeNext

\* A count that a switch to m lets through fits the window of m.
LEMMA NotBlockedFits ==
  ASSUME RuntimeTypeOK, NEW m \in Models, ~Blocked(m)
  PROVE  last_total_tokens # Unknown /\ WindowOf[m] # 0 => last_total_tokens <= WindowOf[m]
<1>1. WindowOf[m] \in Int
  BY RuntimeAssumption
<1>2. last_total_tokens # Unknown => last_total_tokens \in Int
  BY DEF RuntimeTypeOK
<1> QED
  BY <1>1, <1>2 DEF Blocked

LEMMA ModelStep ==
  ASSUME RuntimeTypeOK, ModelInStep, [RuntimeNext]_runtimeStateVars
  PROVE  ModelInStep'
<1> USE DEF RuntimeTypeOK, ModelInStep
<1>1. ASSUME NEW m \in Models, switch_model(m) PROVE ModelInStep'
  <2>1. CASE Blocked(m) /\ RollBack /\ UNCHANGED hook_model
    BY <1>1, <2>1 DEF switch_model, RollBack, sessionVars, Threshold_of
  <2>2. CASE ~Blocked(m) /\ BuildFails(m)
    BY <2>2 DEF BuildFails
  <2>3. CASE ~Blocked(m) /\ BuildSucceeds(m) /\ hook_model' = m
    BY <1>1, <2>3, NotBlockedFits DEF switch_model, BuildSucceeds, sessionVars, Threshold_of
  <2> QED
    BY <1>1, <2>1, <2>2, <2>3 DEF switch_model
<1>2. ASSUME NEW a \in DOMAIN AgentModel, switch_persona(a) PROVE ModelInStep'
  <2> DEFINE m == AgentModel[a]
  <2>1. m \in Models \cup {NoModel}
    BY RuntimeAssumption
  <2>2. CASE m = NoModel \/ (m # NoModel /\ Blocked(m) /\ RollBack)
    BY <1>2, <2>2 DEF switch_persona, RollBack, sessionVars, Threshold_of
  <2>3. CASE m # NoModel /\ ~Blocked(m)
    BY <1>2, <2>1, <2>3, NotBlockedFits DEF switch_persona, sessionVars, Threshold_of
  <2> QED
    BY <1>2, <2>2, <2>3 DEF switch_persona
<1>3. CASE TurnOfSession
  BY <1>3 DEF TurnOfSession, Threshold_of
<1>4. CASE run_compaction
  BY <1>4 DEF run_compaction, modelVars, Threshold_of
<1>5. CASE clear_session \/ \E id \in RuntimeSessions : attach_session(id)
  BY <1>5 DEF clear_session, attach_session, reset_session_scoped_inputs, modelVars, Threshold_of
<1>6. CASE UNCHANGED runtimeStateVars
  BY <1>6 DEF runtimeStateVars, Threshold_of
<1> QED
  BY <1>1, <1>2, <1>3, <1>4, <1>5, <1>6 DEF RuntimeNext

LEMMA OwnStep ==
  ASSUME SessionOwn, [RuntimeNext]_runtimeStateVars
  PROVE  SessionOwn'
<1> USE DEF SessionOwn
<1>1. CASE UNCHANGED sessionVars
  BY <1>1 DEF sessionVars
<1>2. (\E m \in Models : switch_model(m)) \/ (\E a \in DOMAIN AgentModel : switch_persona(a))
        \/ UNCHANGED runtimeStateVars => UNCHANGED sessionVars
  BY DEF switch_model, switch_persona, runtimeStateVars, sessionVars
<1>3. CASE TurnOfSession
  BY <1>3 DEF TurnOfSession
<1>4. CASE run_compaction
  BY <1>4 DEF run_compaction
<1>5. CASE clear_session \/ \E id \in RuntimeSessions : attach_session(id)
  BY <1>5 DEF clear_session, attach_session, reset_session_scoped_inputs
<1> QED
  BY <1>1, <1>2, <1>3, <1>4, <1>5 DEF RuntimeNext

LEMMA RuntimeInitHolds == RuntimeInit => RuntimeTypeOK /\ ModelInStep /\ SessionOwn
  BY DEF RuntimeInit, RuntimeTypeOK, ModelInStep, SessionOwn, Threshold_of

-----------------------------------------------------------------------------
\* Unless the last accepted configuration failed to build, the model that runs, the
\* one the hooks report and the compaction threshold follow the configuration, and the
\* session fits the window, for every sequence of switches, turns and compactions.
THEOREM SwitchesKeepStep == RuntimeSpec => []ModelInStep
<1> DEFINE Inv == RuntimeTypeOK /\ ModelInStep
<1>1. RuntimeInit => Inv
  BY RuntimeInitHolds
<1>2. Inv /\ [RuntimeNext]_runtimeStateVars => Inv'
  BY RuntimeTypeStep, ModelStep
<1>3. Inv => ModelInStep
  OBVIOUS
<1> QED
  BY <1>1, <1>2, <1>3, PTL DEF RuntimeSpec

\* The variables of the runtime keep their types: the running model is a configured one,
\* and the session one of the runtime's.
THEOREM RuntimeTypeCorrect == RuntimeSpec => []RuntimeTypeOK
<1>1. RuntimeInit => RuntimeTypeOK
  BY RuntimeInitHolds
<1>2. RuntimeTypeOK /\ [RuntimeNext]_runtimeStateVars => RuntimeTypeOK'
  BY RuntimeTypeStep
<1> QED
  BY <1>1, <1>2, PTL DEF RuntimeSpec

\* Whatever session the runtime changes to, the token count, the usage and the latch
\* of a dead store are those of the session in use.
THEOREM SessionsStayApart == RuntimeSpec => []SessionOwn
<1>1. RuntimeInit => SessionOwn
  BY RuntimeInitHolds
<1>2. SessionOwn /\ [RuntimeNext]_runtimeStateVars => SessionOwn'
  BY OwnStep
<1> QED
  BY <1>1, <1>2, PTL DEF RuntimeSpec

-----------------------------------------------------------------------------
(* The servers: the inductive invariant.                                   *)

States == {"Enabled", "Disabled", "Failed"}

(* The types the steps need.                                               *)
McpTypes ==
    /\ enabled_servers \in SUBSET Servers /\ connected_servers \in SUBSET Servers
    /\ sessions \in [Servers -> Nat]
    /\ failure_counts \in [Servers -> Nat] /\ failed \in [Servers -> Nat]
    /\ tripped \in SUBSET Servers
    /\ panel \in [Servers -> States]
    /\ toggles \in Seq([server : Servers, enable : BOOLEAN])
    /\ toggle_responses \in Seq([server : Servers, state : States])

(* A server whose tools show is connected, and one that is connected has a *)
(* session.                                                                *)
EnabledConnected ==
    /\ enabled_servers \subseteq connected_servers
    /\ \A s \in connected_servers : sessions[s] > 0

(* The failures since the last toggle are below the threshold while the    *)
(* server is on; the breaker's own count is never behind them.             *)
CountsInStep ==
    \A s \in Servers :
       /\ failed[s] <= Threshold /\ failed[s] <= failure_counts[s]
       /\ s \in enabled_servers => failed[s] < Threshold

LastAnswer(s, i) ==
    /\ i \in 1..Len(toggle_responses) /\ toggle_responses[i].server = s
    /\ \A j \in Nat : j > i /\ j <= Len(toggle_responses) => toggle_responses[j].server # s

(* The last answer on its way to a row, or the row when no answer and no   *)
(* toggle are, says what the registry says.                                *)
RowFollows ==
    \A s \in Servers \ tripped :
       /\ lifecycle[s].enabled <=> s \in enabled_servers
       /\ \A i \in Nat : LastAnswer(s, i) => ((toggle_responses[i].state = "Enabled") <=> (s \in enabled_servers))
       /\ (\A i \in Nat : i \in 1..Len(toggle_responses) => toggle_responses[i].server # s)
          /\ (\A i \in Nat : i \in 1..Len(toggles) => toggles[i].server # s)
             => ((panel[s] = "Enabled") <=> (s \in enabled_servers))

McpInv == McpTypes /\ EnabledConnected /\ CountsInStep /\ RowFollows

-----------------------------------------------------------------------------
LEMMA HeadTail ==
  ASSUME NEW S, NEW s \in Seq(S), s # <<>>
  PROVE  /\ Head(s) \in S /\ Head(s) = s[1] /\ 1 \in 1..Len(s)
         /\ Tail(s) \in Seq(S) /\ Len(Tail(s)) = Len(s) - 1 /\ Len(s) \in Nat
         /\ \A i \in Nat : i \in 1..Len(Tail(s)) =>
               Tail(s)[i] = s[i + 1] /\ i + 1 \in 1..Len(s) /\ i + 1 \in Nat
  OBVIOUS

\* What serving a toggle may lead to: the server's tools show only if it is connected.
LEMMA Outcomes ==
  ASSUME McpTypes, EnabledConnected, NEW s \in Servers, NEW enable \in BOOLEAN,
         NEW o \in set_mcp_enabled(s, enable)
  PROVE  /\ o.on \in SUBSET Servers /\ o.conn \in SUBSET Servers
         /\ o.sess \in [Servers -> Nat] /\ o.state \in States
         /\ o.on \subseteq o.conn /\ \A c \in o.conn : o.sess[c] > 0
         /\ (o.state = "Enabled") <=> (s \in o.on)
         /\ \A c \in Servers : c # s => (c \in o.on <=> c \in enabled_servers)
<1> USE DEF McpTypes, EnabledConnected, Outcome, States
<1>1. CASE ~enable
  BY <1>1 DEF set_mcp_enabled, disable
<1>2. CASE enable /\ s \in connected_servers
  BY <1>2 DEF set_mcp_enabled, enable_case_a
<1>3. CASE enable /\ s \notin connected_servers
  <2>1. CASE o = NotEnabled(s)
    BY <2>1 DEF NotEnabled
  <2>2. CASE o # NotEnabled(s)
    <3>1. PICK discovered \in SUBSET ToolsOf(s) :
             o = Outcome(names \cup discovered, enabled_servers \cup {s}, connected_servers \cup {s},
                         tool_definitions \cup discovered, [sessions EXCEPT ![s] = @ + 1], "Enabled")
      BY <1>3, <2>2 DEF set_mcp_enabled, enable_case_b
    <3>2. /\ o.on = enabled_servers \cup {s} /\ o.conn = connected_servers \cup {s}
          /\ o.sess = [sessions EXCEPT ![s] = @ + 1] /\ o.state = "Enabled"
      BY <3>1
    <3>3. o.sess \in [Servers -> Nat] /\ \A c \in o.conn : o.sess[c] > 0
      BY <3>2
    <3> QED
      BY <3>2, <3>3
  <2> QED
    BY <2>1, <2>2
<1> QED
  BY <1>1, <1>2, <1>3

\* Serving a toggle, as far as the invariant sees it.
LEMMA Served ==
  ASSUME McpTypes, EnabledConnected, ToggleMcp
  PROVE  \E s \in Servers, state \in States :
            /\ toggles # <<>> /\ Head(toggles).server = s /\ toggles' = Tail(toggles)
            /\ toggle_responses' = Append(toggle_responses, [server |-> s, state |-> state])
            /\ enabled_servers' \in SUBSET Servers /\ connected_servers' \in SUBSET Servers
            /\ sessions' \in [Servers -> Nat]
            /\ enabled_servers' \subseteq connected_servers'
            /\ \A c \in connected_servers' : sessions'[c] > 0
            /\ (state = "Enabled") <=> (s \in enabled_servers')
            /\ \A c \in Servers : c # s => (c \in enabled_servers' <=> c \in enabled_servers)
            /\ \A c \in Servers : lifecycle'[c].enabled <=> c \in enabled_servers'
            /\ tripped' = tripped \ {s} /\ failed' = [failed EXCEPT ![s] = 0]
            /\ UNCHANGED <<failure_counts, panel>>
<1> DEFINE s == Head(toggles).server
<1>1. Head(toggles) \in [server : Servers, enable : BOOLEAN] /\ toggles # <<>>
  BY HeadTail DEF ToggleMcp, McpTypes
<1>2. PICK o \in set_mcp_enabled(s, Head(toggles).enable) :
        /\ names' = o.names /\ enabled_servers' = o.on /\ connected_servers' = o.conn
        /\ tool_definitions' = o.defs /\ sessions' = o.sess
        /\ lifecycle' = rebuild_lifecycle(o.names, o.on, o.conn, o.defs)
        /\ toggle_responses' = Append(toggle_responses, [server |-> s, state |-> o.state])
        /\ tripped' = tripped \ {s} /\ failed' = [failed EXCEPT ![s] = 0]
  BY DEF ToggleMcp
<1>3. s \in Servers /\ Head(toggles).enable \in BOOLEAN
  BY <1>1
<1>4. \A c \in Servers : lifecycle'[c].enabled <=> c \in enabled_servers'
  BY <1>2 DEF rebuild_lifecycle
<1>5. /\ o.on \in SUBSET Servers /\ o.conn \in SUBSET Servers
      /\ o.sess \in [Servers -> Nat] /\ o.state \in States
      /\ o.on \subseteq o.conn /\ \A c \in o.conn : o.sess[c] > 0
      /\ (o.state = "Enabled") <=> (s \in o.on)
      /\ \A c \in Servers : c # s => (c \in o.on <=> c \in enabled_servers)
  BY <1>2, <1>3, Outcomes
<1>6. toggles' = Tail(toggles) /\ UNCHANGED <<failure_counts, panel>>
  BY DEF ToggleMcp
<1>7. s = Head(toggles).server
  OBVIOUS
<1> USE <1>3, <1>5
<1> HIDE DEF s
<1> WITNESS s \in Servers, o.state \in States
<1> QED
  BY <1>1, <1>2, <1>4, <1>5, <1>6, <1>7

(* The steps that touch neither the registry nor a row.                    *)
Quiet == /\ UNCHANGED <<enabled_servers, connected_servers, sessions, lifecycle, failure_counts,
                        panel, toggles, toggle_responses, tripped, failed>>

LEMMA NextSplit ==
  ASSUME [McpNext]_mcpVars
  PROVE  \/ \E s \in Servers : queue_selected_mcp_toggle_request(s)
         \/ McpToggleAnswered \/ ToggleMcp \/ Quiet
         \/ \E t \in McpTools, result \in {"success", "transport", "auth", "other"} :
               CallTool(t, result)
<1>1. McpTurnStarts \/ McpTurnEnds \/ SwitchAgentResetsTools \/ UNCHANGED mcpVars => Quiet
  BY DEF McpTurnStarts, McpTurnEnds, SwitchAgentResetsTools, mcpVars, Quiet, runtimeVars, panelVars
<1> QED
  BY <1>1 DEF McpNext

(* What a recorded result may change: a success clears the counts, another *)
(* error changes none, and a transport failure counts and may hide s.      *)
Records(s) ==
    /\ UNCHANGED <<connected_servers, sessions, lifecycle, panel, toggles, toggle_responses>>
    /\ \/ /\ failed' = [failed EXCEPT ![s] = failed[s] + 1]
          /\ failure_counts' = [failure_counts EXCEPT ![s] = failure_counts[s] + 1]
          /\ \/ failure_counts[s] + 1 >= Threshold
                /\ enabled_servers' = enabled_servers \ {s} /\ tripped' = tripped \cup {s}
             \/ failure_counts[s] + 1 < Threshold /\ UNCHANGED <<enabled_servers, tripped>>
       \/ /\ failed' = [failed EXCEPT ![s] = 0]
          /\ failure_counts' = [failure_counts EXCEPT ![s] = 0]
          /\ UNCHANGED <<enabled_servers, tripped>>
       \/ failed' = [failed EXCEPT ![s] = failed[s]]
          /\ UNCHANGED <<failure_counts, enabled_servers, tripped>>

\* A recorded result, as far as the invariant sees it.
LEMMA Recorded ==
  ASSUME McpTypes, EnabledConnected, NEW t \in McpTools,
         NEW result \in {"success", "transport", "auth", "other"}, CallTool(t, result)
  PROVE  \E s \in enabled_servers : Records(s)
<1> DEFINE s == ServerOfTool[t]
<1>1. s \in enabled_servers
  BY DEF CallTool, check_server_enabled
<1>2. s \in Servers /\ failure_counts[s] + 1 \in Nat /\ Threshold \in Nat
  BY <1>1, McpAssumption DEF McpTypes
<1>3. UNCHANGED <<connected_servers, sessions, lifecycle, panel, toggles, toggle_responses>>
  BY DEF CallTool, runtimeVars, panelVars
<1>4. breaker_record_result(s, result)
  BY DEF CallTool
<1> HIDE DEF s
<1> WITNESS s \in enabled_servers
<1>5. CASE result = "transport"
  BY <1>2, <1>3, <1>4, <1>5 DEF breaker_record_result, Records
<1>6. CASE result = "success"
  BY <1>2, <1>3, <1>4, <1>6 DEF breaker_record_result, Records
<1>7. CASE result \in {"auth", "other"}
  BY <1>2, <1>3, <1>4, <1>7 DEF breaker_record_result, Records
<1> QED
  BY <1>5, <1>6, <1>7

LEMMA TypeStep ==
  ASSUME McpTypes, EnabledConnected, [McpNext]_mcpVars
  PROVE  McpTypes' /\ EnabledConnected'
<1> USE DEF McpTypes, EnabledConnected
<1>1. ASSUME NEW s \in Servers, queue_selected_mcp_toggle_request(s)
      PROVE  McpTypes' /\ EnabledConnected'
  <2>1. toggles' \in Seq([server : Servers, enable : BOOLEAN])
    BY <1>1 DEF queue_selected_mcp_toggle_request
  <2> QED
    BY <1>1, <2>1 DEF queue_selected_mcp_toggle_request, runtimeVars, States
<1>2. CASE McpToggleAnswered
  <2>1. /\ Head(toggle_responses) \in [server : Servers, state : States]
        /\ Tail(toggle_responses) \in Seq([server : Servers, state : States])
    BY <1>2, HeadTail DEF McpToggleAnswered
  <2> QED
    BY <1>2, <2>1 DEF McpToggleAnswered, runtimeVars
<1>3. CASE ToggleMcp
  <2>1. PICK s \in Servers, state \in States :
            /\ toggles # <<>> /\ toggles' = Tail(toggles)
            /\ toggle_responses' = Append(toggle_responses, [server |-> s, state |-> state])
            /\ enabled_servers' \in SUBSET Servers /\ connected_servers' \in SUBSET Servers
            /\ sessions' \in [Servers -> Nat]
            /\ enabled_servers' \subseteq connected_servers'
            /\ \A c \in connected_servers' : sessions'[c] > 0
            /\ tripped' = tripped \ {s} /\ failed' = [failed EXCEPT ![s] = 0]
            /\ UNCHANGED <<failure_counts, panel>>
    BY <1>3, Served
  <2>2. /\ toggles' \in Seq([server : Servers, enable : BOOLEAN])
        /\ toggle_responses' \in Seq([server : Servers, state : States])
    BY <2>1, HeadTail
  <2> QED
    BY <2>1, <2>2
<1>4. ASSUME NEW t \in McpTools, NEW result \in {"success", "transport", "auth", "other"},
             CallTool(t, result)
      PROVE  McpTypes' /\ EnabledConnected'
  <2>1. PICK s \in enabled_servers : Records(s)
    BY <1>4, Recorded
  <2>2. failed[s] + 1 \in Nat /\ failure_counts[s] + 1 \in Nat /\ s \in Servers
    OBVIOUS
  <2>3. /\ failed' \in [Servers -> Nat] /\ failure_counts' \in [Servers -> Nat]
        /\ enabled_servers' \subseteq enabled_servers /\ tripped' \in SUBSET Servers
    <3>1. failed' \in [Servers -> Nat]
      <4>1. \E m \in Nat : failed' = [failed EXCEPT ![s] = m]
        BY <2>1, <2>2 DEF Records
      <4> QED
        BY <4>1
    <3>3. failure_counts' \in [Servers -> Nat]
      BY <2>1, <2>2 DEF Records
    <3>2. enabled_servers' \subseteq enabled_servers /\ tripped' \in SUBSET Servers
      BY <2>1, <2>2 DEF Records
    <3> QED
      BY <3>1, <3>2, <3>3
  <2> QED
    BY <2>1, <2>3 DEF Records
<1>5. CASE Quiet
  BY <1>5 DEF Quiet
<1> QED
  BY <1>1, <1>2, <1>3, <1>4, <1>5, NextSplit

LEMMA CountStep ==
  ASSUME McpTypes, EnabledConnected, CountsInStep, [McpNext]_mcpVars
  PROVE  CountsInStep'
<1> USE DEF McpTypes, CountsInStep
<1>1. ASSUME NEW s \in Servers, queue_selected_mcp_toggle_request(s) PROVE CountsInStep'
  BY <1>1 DEF queue_selected_mcp_toggle_request
<1>2. CASE McpToggleAnswered
  BY <1>2 DEF McpToggleAnswered
<1>3. CASE ToggleMcp
  <2>1. PICK s \in Servers :
            /\ \A c \in Servers : c # s => (c \in enabled_servers' <=> c \in enabled_servers)
            /\ failed' = [failed EXCEPT ![s] = 0] /\ UNCHANGED failure_counts
    BY <1>3, Served
  <2> QED
    BY <2>1, McpAssumption
<1>4. ASSUME NEW t \in McpTools, NEW result \in {"success", "transport", "auth", "other"},
             CallTool(t, result)
      PROVE  CountsInStep'
  <2>1. PICK s \in enabled_servers : Records(s)
    BY <1>4, Recorded
  <2>2. /\ s \in Servers /\ Threshold \in Nat /\ Threshold > 0
        /\ failed[s] \in Nat /\ failure_counts[s] \in Nat
        /\ failed[s] < Threshold /\ failed[s] <= failure_counts[s]
    BY McpAssumption
  <2>3. \A c \in Servers : c # s =>
           /\ failed'[c] = failed[c] /\ failure_counts'[c] = failure_counts[c]
           /\ c \in enabled_servers' => c \in enabled_servers
    BY <2>1 DEF Records
  <2>4. /\ failed'[s] <= Threshold /\ failed'[s] <= failure_counts'[s]
        /\ s \in enabled_servers' => failed'[s] < Threshold
    BY <2>1, <2>2 DEF Records
  <2> QED
    BY <2>3, <2>4
<1>5. CASE Quiet
  BY <1>5 DEF Quiet
<1> QED
  BY <1>1, <1>2, <1>3, <1>4, <1>5, NextSplit

\* What is to be shown of the rows after a step.
LEMMA RowsMade ==
  ASSUME \A s \in Servers \ tripped' : lifecycle'[s].enabled <=> s \in enabled_servers',
         \A s \in Servers \ tripped', i \in Nat :
            LastAnswer(s, i)' => ((toggle_responses'[i].state = "Enabled") <=> (s \in enabled_servers')),
         \A s \in Servers \ tripped' :
            /\ \A i \in Nat : i \in 1..Len(toggle_responses') => toggle_responses'[i].server # s
            /\ \A i \in Nat : i \in 1..Len(toggles') => toggles'[i].server # s
            => ((panel'[s] = "Enabled") <=> (s \in enabled_servers'))
  PROVE  RowFollows'
  BY DEF RowFollows

\* However toggles and answers overlap, the last answer on its way to a row is true.
LEMMA RowStep ==
  ASSUME McpTypes, EnabledConnected, RowFollows, [McpNext]_mcpVars
  PROVE  RowFollows'
<1>0. /\ \A s \in Servers \ tripped : lifecycle[s].enabled <=> s \in enabled_servers
      /\ \A s \in Servers \ tripped, i \in Nat :
            LastAnswer(s, i) => ((toggle_responses[i].state = "Enabled") <=> (s \in enabled_servers))
      /\ \A s \in Servers \ tripped :
            /\ \A i \in Nat : i \in 1..Len(toggle_responses) => toggle_responses[i].server # s
            /\ \A i \in Nat : i \in 1..Len(toggles) => toggles[i].server # s
            => ((panel[s] = "Enabled") <=> (s \in enabled_servers))
  BY DEF RowFollows
<1> USE DEF McpTypes
<1>1. ASSUME NEW s \in Servers, queue_selected_mcp_toggle_request(s) PROVE RowFollows'
  <2>1. /\ UNCHANGED <<enabled_servers, lifecycle, toggle_responses, tripped>>
        /\ \A c \in Servers : c # s => panel'[c] = panel[c]
        /\ \A i \in Nat : i \in 1..Len(toggles) => i \in 1..Len(toggles') /\ toggles'[i] = toggles[i]
        /\ Len(toggles) + 1 \in 1..Len(toggles') /\ toggles'[Len(toggles) + 1].server = s
        /\ Len(toggles) + 1 \in Nat
    BY <1>1 DEF queue_selected_mcp_toggle_request, runtimeVars
  <2>2. ASSUME NEW c \in Servers \ tripped,
               \A i \in Nat : i \in 1..Len(toggle_responses) => toggle_responses[i].server # c,
               \A i \in Nat : i \in 1..Len(toggles') => toggles'[i].server # c
        PROVE  ((panel'[c] = "Enabled") <=> (c \in enabled_servers))
    <3>1. c # s
      BY <2>1, <2>2
    <3>2. \A i \in Nat : i \in 1..Len(toggles) => toggles[i].server # c
      BY <2>1, <2>2
    <3> QED
      BY <1>0, <2>1, <2>2, <3>1, <3>2
  <2>3. /\ \A c \in Servers \ tripped', i \in Nat :
              LastAnswer(c, i)' => ((toggle_responses'[i].state = "Enabled") <=> (c \in enabled_servers'))
        /\ tripped' = tripped
        /\ \A c \in Servers \ tripped' : lifecycle'[c].enabled <=> c \in enabled_servers'
    BY <1>0, <2>1 DEF LastAnswer
  <2>4. ASSUME NEW c \in Servers \ tripped',
               \A i \in Nat : i \in 1..Len(toggle_responses') => toggle_responses'[i].server # c,
               \A i \in Nat : i \in 1..Len(toggles') => toggles'[i].server # c
        PROVE  ((panel'[c] = "Enabled") <=> (c \in enabled_servers'))
    <3>1. ((panel'[c] = "Enabled") <=> (c \in enabled_servers))
      BY <2>1, <2>2, <2>3, <2>4
    <3> QED
      BY <2>1, <3>1
  <2> QED
    BY <2>3, <2>4, RowsMade
<1>2. CASE McpToggleAnswered
  <2> DEFINE r == Head(toggle_responses)
  <2>1. /\ r \in [server : Servers, state : States] /\ r = toggle_responses[1]
        /\ 1 \in 1..Len(toggle_responses) /\ toggle_responses' = Tail(toggle_responses)
        /\ Len(toggle_responses') = Len(toggle_responses) - 1 /\ Len(toggle_responses) \in Nat
        /\ \A i \in Nat : i \in 1..Len(toggle_responses') =>
              /\ toggle_responses'[i] = toggle_responses[i + 1]
              /\ i + 1 \in 1..Len(toggle_responses) /\ i + 1 \in Nat
    BY <1>2, HeadTail DEF McpToggleAnswered
  <2>2. /\ UNCHANGED <<enabled_servers, lifecycle, toggles, tripped>>
        /\ panel' = [panel EXCEPT ![r.server] = r.state]
    BY <1>2 DEF McpToggleAnswered, runtimeVars
  <2> HIDE DEF r
  <2>3. ASSUME NEW c \in Servers \ tripped, NEW i \in Nat, LastAnswer(c, i)'
        PROVE  LastAnswer(c, i + 1) /\ toggle_responses'[i] = toggle_responses[i + 1]
    <3>0. /\ i \in 1..Len(toggle_responses') /\ toggle_responses'[i].server = c
          /\ \A j \in Nat : j > i /\ j <= Len(toggle_responses') => toggle_responses'[j].server # c
      BY <2>3 DEF LastAnswer
    <3>1. /\ i + 1 \in 1..Len(toggle_responses) /\ toggle_responses[i + 1].server = c
          /\ toggle_responses'[i] = toggle_responses[i + 1]
      BY <2>1, <3>0
    <3>2. ASSUME NEW j \in Nat, j > i + 1, j <= Len(toggle_responses)
          PROVE  toggle_responses[j].server # c
      <4>1. j - 1 \in Nat /\ j - 1 > i /\ j - 1 <= Len(toggle_responses')
            /\ j - 1 \in 1..Len(toggle_responses') /\ (j - 1) + 1 = j
        BY ONLY <2>1, <3>0, <3>2, i \in Nat
      <4>2. toggle_responses'[j - 1].server # c
        BY ONLY <3>0, <4>1
      <4> QED
        BY ONLY <2>1, <4>1, <4>2
    <3> QED
      BY <3>1, <3>2 DEF LastAnswer
  <2>4. \A c \in Servers \ tripped, i \in Nat :
           LastAnswer(c, i)' => ((toggle_responses'[i].state = "Enabled") <=> (c \in enabled_servers))
    <3>1. ASSUME NEW c \in Servers \ tripped, NEW i \in Nat, LastAnswer(c, i)'
          PROVE  ((toggle_responses'[i].state = "Enabled") <=> (c \in enabled_servers))
      <4>1. i + 1 \in Nat /\ LastAnswer(c, i + 1) /\ toggle_responses'[i] = toggle_responses[i + 1]
        BY <2>3, <3>1
      <4>2. ((toggle_responses[i + 1].state = "Enabled") <=> (c \in enabled_servers))
        BY <1>0, <4>1
      <4> QED
        BY <4>1, <4>2
    <3> QED
      BY <3>1
  <2>5. ASSUME NEW c \in Servers \ tripped,
               \A i \in Nat : i \in 1..Len(toggle_responses') => toggle_responses'[i].server # c,
               \A i \in Nat : i \in 1..Len(toggles) => toggles[i].server # c
        PROVE  ((panel'[c] = "Enabled") <=> (c \in enabled_servers))
    <3>1. \A j \in Nat : j > 1 /\ j <= Len(toggle_responses) => toggle_responses[j].server # c
      <4>1. ASSUME NEW j \in Nat, j > 1, j <= Len(toggle_responses)
            PROVE  toggle_responses[j].server # c
        <5>1. j - 1 \in Nat /\ j - 1 \in 1..Len(toggle_responses') /\ (j - 1) + 1 = j
          BY ONLY <2>1, <4>1
        <5>2. toggle_responses'[j - 1].server # c
          BY ONLY <2>5, <5>1
        <5> QED
          BY ONLY <2>1, <5>1, <5>2
      <4> QED
        BY <4>1
    <3>2. CASE r.server = c
      <4>1. 1 \in Nat /\ LastAnswer(c, 1)
        BY <2>1, <3>1, <3>2 DEF LastAnswer
      <4>2. ((toggle_responses[1].state = "Enabled") <=> (c \in enabled_servers))
        BY <1>0, <4>1
      <4>3. panel'[c] = toggle_responses[1].state
        BY <2>1, <2>2, <3>2
      <4> QED
        BY <4>2, <4>3
    <3>3. CASE r.server # c
      <4>1. ASSUME NEW i \in Nat, i \in 1..Len(toggle_responses)
            PROVE  toggle_responses[i].server # c
        <5>1. i = 1 \/ (i > 1 /\ i <= Len(toggle_responses))
          BY ONLY <2>1, <4>1
        <5> QED
          BY ONLY <2>1, <3>1, <3>3, <5>1, i \in Nat
      <4>2. panel'[c] = panel[c]
        BY <2>1, <2>2, <3>3
      <4> QED
        BY <1>0, <2>5, <4>1, <4>2
    <3> QED
      BY <3>2, <3>3
  <2>6. /\ tripped' = tripped /\ toggles' = toggles
        /\ \A c \in Servers \ tripped' : lifecycle'[c].enabled <=> c \in enabled_servers'
    BY <1>0, <2>2
  <2>7. \A c \in Servers \ tripped', i \in Nat :
           LastAnswer(c, i)' => ((toggle_responses'[i].state = "Enabled") <=> (c \in enabled_servers'))
    BY <2>2, <2>4, <2>6
  <2>8. \A c \in Servers \ tripped' :
           /\ \A i \in Nat : i \in 1..Len(toggle_responses') => toggle_responses'[i].server # c
           /\ \A i \in Nat : i \in 1..Len(toggles') => toggles'[i].server # c
           => ((panel'[c] = "Enabled") <=> (c \in enabled_servers'))
    BY <2>2, <2>5, <2>6
  <2> QED
    BY <2>6, <2>7, <2>8, RowsMade
<1>3. CASE ToggleMcp
  <2>1. PICK s \in Servers, state \in States :
            /\ toggles # <<>> /\ Head(toggles).server = s /\ toggles' = Tail(toggles)
            /\ toggle_responses' = Append(toggle_responses, [server |-> s, state |-> state])
            /\ (state = "Enabled") <=> (s \in enabled_servers')
            /\ \A c \in Servers : c # s => (c \in enabled_servers' <=> c \in enabled_servers)
            /\ \A c \in Servers : lifecycle'[c].enabled <=> c \in enabled_servers'
            /\ tripped' = tripped \ {s} /\ UNCHANGED panel
    BY <1>3, Served
  <2> DEFINE n == Len(toggle_responses) + 1
  <2>2. /\ n \in Nat /\ Len(toggle_responses') = n /\ toggle_responses'[n] = [server |-> s, state |-> state]
        /\ toggle_responses'[n].server = s /\ toggle_responses'[n].state = state
        /\ \A i \in Nat : i \in 1..Len(toggle_responses) => toggle_responses'[i] = toggle_responses[i]
        /\ Len(toggle_responses) \in Nat /\ n = Len(toggle_responses) + 1
    BY <2>1
  <2> HIDE DEF n
  <2>3. /\ toggles[1].server = s /\ \A i \in Nat : i \in 1..Len(toggles') =>
              toggles'[i] = toggles[i + 1] /\ i + 1 \in 1..Len(toggles) /\ i + 1 \in Nat
        /\ Len(toggles') = Len(toggles) - 1 /\ Len(toggles) \in Nat
    BY <2>1, HeadTail
  <2>4. ASSUME NEW c \in Servers \ tripped', NEW i \in Nat, LastAnswer(c, i)'
        PROVE  (toggle_responses'[i].state = "Enabled") <=> (c \in enabled_servers')
    <3>0. /\ i \in 1..Len(toggle_responses') /\ toggle_responses'[i].server = c
          /\ \A j \in Nat : j > i /\ j <= Len(toggle_responses') => toggle_responses'[j].server # c
      BY <2>4 DEF LastAnswer
    <3>1. CASE i = n
      BY ONLY <2>1, <2>2, <3>0, <3>1
    <3>2. CASE i # n
      <4>0. /\ i \in 1..Len(toggle_responses') /\ toggle_responses'[i].server = c
            /\ \A j \in Nat : j > i /\ j <= Len(toggle_responses') => toggle_responses'[j].server # c
        BY <3>0
      <4>1. i \in 1..Len(toggle_responses) /\ n > i /\ n <= Len(toggle_responses')
        BY ONLY <2>2, <3>0, <3>2, i \in Nat
      <4>2. c # s
        BY ONLY <2>2, <4>0, <4>1
      <4>3. LastAnswer(c, i) /\ toggle_responses'[i] = toggle_responses[i]
        <5>1. ASSUME NEW j \in Nat, j > i, j <= Len(toggle_responses)
              PROVE  toggle_responses[j].server # c
          <6>1. j \in 1..Len(toggle_responses) /\ j <= Len(toggle_responses')
            BY <2>2, <5>1
          <6>2. toggle_responses'[j].server # c
            BY <4>0, <5>1, <6>1
          <6> QED
            BY <2>2, <6>1, <6>2
        <5> QED
          BY ONLY <2>2, <4>0, <4>1, <5>1, i \in Nat DEF LastAnswer
      <4>4. c \notin tripped
        BY <2>1, <4>2
      <4>5. ((toggle_responses[i].state = "Enabled") <=> (c \in enabled_servers))
        BY <1>0, <4>3, <4>4
      <4> QED
        BY <2>1, <4>2, <4>3, <4>5
    <3> QED
      BY <3>1, <3>2
  <2>5. ASSUME NEW c \in Servers \ tripped',
               \A i \in Nat : i \in 1..Len(toggle_responses') => toggle_responses'[i].server # c,
               \A i \in Nat : i \in 1..Len(toggles') => toggles'[i].server # c
        PROVE  (panel'[c] = "Enabled") <=> (c \in enabled_servers')
    <3>1. c # s /\ \A i \in Nat : i \in 1..Len(toggle_responses) => toggle_responses[i].server # c
      <4>1. n \in 1..Len(toggle_responses')
            /\ \A i \in Nat : i \in 1..Len(toggle_responses) => i \in 1..Len(toggle_responses')
        BY ONLY <2>2
      <4>2. \A i \in Nat : i \in 1..Len(toggle_responses') => toggle_responses'[i].server # c
        BY <2>5
      <4>3. c # s
        BY ONLY <2>2, <4>1, <4>2
      <4>4. ASSUME NEW i \in Nat, i \in 1..Len(toggle_responses) PROVE toggle_responses[i].server # c
        BY ONLY <2>2, <4>1, <4>2, <4>4
      <4> QED
        BY <4>3, <4>4
    <3>2. \A i \in Nat : i \in 1..Len(toggles) => toggles[i].server # c
      <4>1. ASSUME NEW i \in Nat, i \in 1..Len(toggles), i # 1 PROVE toggles[i].server # c
        <5>1. i - 1 \in Nat /\ i - 1 \in 1..Len(toggles') /\ (i - 1) + 1 = i
          BY ONLY <2>3, <4>1
        <5>2. toggles'[i - 1].server # c
          BY ONLY <2>5, <5>1
        <5> QED
          BY ONLY <2>3, <5>1, <5>2
      <4> QED
        BY <2>3, <3>1, <4>1
    <3>3. c \notin tripped
      BY <2>1, <3>1
    <3>4. ((panel[c] = "Enabled") <=> (c \in enabled_servers))
      BY <1>0, <3>1, <3>2, <3>3
    <3> QED
      BY <2>1, <3>1, <3>4
  <2>6. /\ \A c \in Servers \ tripped', i \in Nat :
              LastAnswer(c, i)' => ((toggle_responses'[i].state = "Enabled") <=> (c \in enabled_servers'))
        /\ \A c \in Servers \ tripped' : lifecycle'[c].enabled <=> c \in enabled_servers'
    BY <2>1, <2>4
  <2>7. \A c \in Servers \ tripped' :
           /\ \A i \in Nat : i \in 1..Len(toggle_responses') => toggle_responses'[i].server # c
           /\ \A i \in Nat : i \in 1..Len(toggles') => toggles'[i].server # c
           => ((panel'[c] = "Enabled") <=> (c \in enabled_servers'))
    BY <2>5
  <2> QED
    BY <2>6, <2>7, RowsMade
<1>4. ASSUME NEW t \in McpTools, NEW result \in {"success", "transport", "auth", "other"},
             CallTool(t, result)
      PROVE  RowFollows'
  <2>1. PICK s \in enabled_servers : Records(s)
    BY <1>4, Recorded
  <2>2. UNCHANGED <<lifecycle, panel, toggles, toggle_responses>>
    BY <2>1 DEF Records
  <2>3. \A c \in Servers \ tripped' : c \notin tripped /\ (c \in enabled_servers' <=> c \in enabled_servers)
    BY <2>1 DEF Records
  <2>4. /\ \A c \in Servers \ tripped', i \in Nat :
              LastAnswer(c, i)' => ((toggle_responses'[i].state = "Enabled") <=> (c \in enabled_servers'))
        /\ \A c \in Servers \ tripped' : lifecycle'[c].enabled <=> c \in enabled_servers'
    BY <1>0, <2>2, <2>3 DEF LastAnswer
  <2>5. \A c \in Servers \ tripped' :
           /\ \A i \in Nat : i \in 1..Len(toggle_responses') => toggle_responses'[i].server # c
           /\ \A i \in Nat : i \in 1..Len(toggles') => toggles'[i].server # c
           => ((panel'[c] = "Enabled") <=> (c \in enabled_servers'))
    BY <1>0, <2>2, <2>3
  <2> QED
    BY <2>4, <2>5, RowsMade
<1>5. CASE Quiet
  <2>1. UNCHANGED <<enabled_servers, lifecycle, panel, toggles, toggle_responses, tripped>>
    BY <1>5 DEF Quiet
  <2>2. \A s, i : LastAnswer(s, i)' <=> LastAnswer(s, i)
    BY ONLY <2>1 DEF LastAnswer
  <2> QED
    BY ONLY <1>0, <2>1, <2>2, RowsMade
<1> QED
  BY <1>1, <1>2, <1>3, <1>4, <1>5, NextSplit

LEMMA InitInv == McpInit => McpInv
<1> SUFFICES ASSUME McpInit PROVE McpInv
  OBVIOUS
<1> USE McpAssumption DEF McpInit
<1>1. McpTypes
  <2>1. /\ enabled_servers \in SUBSET Servers /\ connected_servers \in SUBSET Servers
        /\ tripped = {} /\ toggles = <<>> /\ toggle_responses = <<>>
    OBVIOUS
  <2>2. /\ sessions \in [Servers -> Nat] /\ failure_counts \in [Servers -> Nat]
        /\ failed \in [Servers -> Nat] /\ panel \in [Servers -> States]
    BY DEF States, rebuild_lifecycle
  <2> QED
    BY <2>1, <2>2 DEF McpTypes
<1>2. EnabledConnected
  BY DEF EnabledConnected
<1>3. CountsInStep
  BY DEF CountsInStep
<1>4. RowFollows
  <2>1. Len(toggles) = 0 /\ Len(toggle_responses) = 0
    OBVIOUS
  <2>2. \A s \in Servers : lifecycle[s].enabled <=> s \in enabled_servers
    BY DEF rebuild_lifecycle
  <2>3. \A s \in Servers : (panel[s] = "Enabled") <=> (s \in enabled_servers)
    OBVIOUS
  <2> QED
    BY <2>1, <2>2, <2>3 DEF RowFollows, LastAnswer
<1> QED
  BY <1>1, <1>2, <1>3, <1>4 DEF McpInv

LEMMA InvStep ==
  ASSUME McpInv, [McpNext]_mcpVars
  PROVE  McpInv'
  BY TypeStep, CountStep, RowStep DEF McpInv

LEMMA Invariant == McpSpec => []McpInv
<1>1. McpInit => McpInv
  BY InitInv
<1>2. McpInv /\ [McpNext]_mcpVars => McpInv'
  BY InvStep
<1> QED
  BY <1>1, <1>2, PTL DEF McpSpec

-----------------------------------------------------------------------------
\* A tool the model may be shown has a connected server and a session behind it.
THEOREM VisibleToolsBacked == McpSpec => []VisibleBacked
<1>1. McpInv => VisibleBacked
  BY DEF McpInv, McpTypes, EnabledConnected, VisibleBacked, Visible, Enabled
<1> QED
  BY <1>1, Invariant, PTL

\* Between two toggles the breaker lets through no more than its threshold's failures.
THEOREM BreakerBounds == McpSpec => []BreakerHolds
<1>1. McpInv => BreakerHolds
  BY DEF McpInv, CountsInStep, BreakerHolds
<1> QED
  BY <1>1, Invariant, PTL

\* Once every toggle is answered, the rows of the panel say what the registry says,
\* whatever the order of toggles, failures, turns and answers was.
THEOREM PanelFollows == McpSpec => []PanelAgrees
<1>1. McpInv => PanelAgrees
  <2> SUFFICES ASSUME McpInv, toggles = <<>>, toggle_responses = <<>>, NEW s \in Servers \ tripped
               PROVE  /\ (panel[s] = "Enabled") <=> (s \in enabled_servers)
                      /\ lifecycle[s].enabled <=> (s \in enabled_servers)
    BY DEF PanelAgrees
  <2>1. Len(toggles) = 0 /\ Len(toggle_responses) = 0
    OBVIOUS
  <2> QED
    BY <2>1 DEF McpInv, RowFollows
<1> QED
  BY <1>1, Invariant, PTL

-----------------------------------------------------------------------------
(* The tools and the projection of the panel, beside the types above.      *)
ToolTypes ==
    /\ names \in SUBSET McpTools /\ tool_definitions \in SUBSET McpTools
    /\ baseline_tool_definitions \in SUBSET McpTools /\ offered \in SUBSET McpTools
    /\ DOMAIN lifecycle = Servers

LEMMA ToolStep ==
  ASSUME ToolTypes, [McpNext]_mcpVars
  PROVE  ToolTypes'
<1> USE DEF ToolTypes
<1>1. ASSUME NEW s \in Servers, queue_selected_mcp_toggle_request(s) PROVE ToolTypes'
  BY <1>1 DEF queue_selected_mcp_toggle_request, runtimeVars, mcpTurnVars
<1>2. CASE McpToggleAnswered
  BY <1>2 DEF McpToggleAnswered, runtimeVars, mcpTurnVars
<1>3. CASE ToggleMcp
  <2>1. PICK s, o : /\ o \in set_mcp_enabled(s, Head(toggles).enable)
                    /\ names' = o.names /\ tool_definitions' = o.defs
                    /\ lifecycle' = rebuild_lifecycle(o.names, o.on, o.conn, o.defs)
                    /\ UNCHANGED <<baseline_tool_definitions, offered>>
    BY <1>3 DEF ToggleMcp, mcpTurnVars
  <2>2. o.names \in SUBSET McpTools /\ o.defs \in SUBSET McpTools
    BY <2>1 DEF set_mcp_enabled, disable, enable_case_a, enable_case_b, NotEnabled, Outcome, ToolsOf
  <2>3. DOMAIN lifecycle' = Servers
    BY <2>1 DEF rebuild_lifecycle
  <2> QED
    BY <2>1, <2>2, <2>3
<1>4. CASE McpTurnStarts
  BY <1>4 DEF McpTurnStarts, runtimeVars, Visible
<1>5. CASE McpTurnEnds
  BY <1>5 DEF McpTurnEnds, runtimeVars
<1>6. CASE SwitchAgentResetsTools
  BY <1>6 DEF SwitchAgentResetsTools, mcpTurnVars
<1>7. ASSUME NEW t \in McpTools, NEW result \in {"success", "transport", "auth", "other"},
             CallTool(t, result)
      PROVE  ToolTypes'
  BY <1>7 DEF CallTool, runtimeVars
<1>8. CASE UNCHANGED mcpVars
  BY <1>8 DEF mcpVars
<1> QED
  BY <1>1, <1>2, <1>3, <1>4, <1>5, <1>6, <1>7, <1>8 DEF McpNext

\* The variables of the servers keep their types: what is registered, defined, shown to
\* the model and put back by a switch of persona are tools that are known.
THEOREM McpTypeCorrect == McpSpec => []McpTypeOK
<1>1. McpInit => ToolTypes
  BY DEF McpInit, ToolTypes, rebuild_lifecycle
<1>2. ToolTypes /\ [McpNext]_mcpVars => ToolTypes'
  BY ToolStep
<1>3. McpInv /\ ToolTypes => McpTypeOK
  BY DEF McpInv, McpTypes, ToolTypes, McpTypeOK, States
<1> QED
  BY <1>1, <1>2, <1>3, Invariant, PTL DEF McpSpec
=============================================================================
