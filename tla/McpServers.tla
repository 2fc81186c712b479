------------------------------- MODULE McpServers -------------------------------
(***************************************************************************)
(* The MCP servers of a session: the registry that hides and shows their   *)
(* tools, the runtime that knows which are connected, the list of tool     *)
(* definitions, the circuit breaker a turn's results drive, the panel in   *)
(* which the user toggles a server, and the switch of persona, which puts  *)
(* the definitions back to the baseline.                                   *)
(*                                                                         *)
(* A toggle goes through a queue of the panel, the worker, which serves it *)
(* between turns, and a response that sets the row of the panel.  Names    *)
(* exposed by two servers never collide: they carry the server's name.     *)
(***************************************************************************)
EXTENDS Integers, Sequences, FiniteSets

CONSTANTS
    Servers,                 \* the configured servers, which the panel has a row for
    AtStart,                 \* the servers connected at the start
    McpTools, ServerOfTool,  \* exposed names and their owner
    Threshold,               \* transport failures that trip the breaker
    MaxToggles, MaxCallsMade, MaxSwitches      \* bounds

ASSUME McpAssumption ==
    /\ AtStart \subseteq Servers /\ Threshold \in Nat \ {0}

VARIABLES
    names,              \* registered exposed names
    enabled_servers,
    connected_servers,  \* of the runtime
    sessions,           \* sessions the runtime holds for a server
    tool_definitions, baseline_tool_definitions,
    lifecycle,          \* the projection: [enabled, connected, visible]
    failure_counts,     \* of the breaker
    offered,            \* what the running turn shows the model; {} between turns
    in_turn,
    panel,              \* the row of a server: Enabled, Disabled or Failed
    toggles,            \* requests of the panel on their way to the worker
    toggle_responses,
    tripped,            \* for the properties: servers tripped since their last toggle
    failed,             \* ... and transport failures in a row since then
    toggled, called, switched

mcpVars == <<names, enabled_servers, connected_servers, sessions, tool_definitions,
    baseline_tool_definitions, lifecycle, failure_counts, offered, in_turn, panel, toggles,
    toggle_responses, tripped, failed, toggled, called, switched>>
runtimeVars == <<names, connected_servers, sessions, tool_definitions, lifecycle>>
panelVars == <<panel, toggles, toggle_responses, toggled>>
mcpTurnVars == <<offered, in_turn, called>>

ToolsOf(s) == {t \in McpTools : ServerOfTool[t] = s}
Enabled(reg, on) == {t \in reg : ServerOfTool[t] \in on}

\* llm_visible_tool_definitions
Visible == tool_definitions \cap Enabled(names, enabled_servers)

\* What the panel's data is rebuilt from, after every toggle.
rebuild_lifecycle(reg, on, conn, defs) ==
    [s \in Servers |->
        [enabled |-> s \in on, connected |-> s \in conn,
         visible |-> Cardinality(defs \cap Enabled(reg, on) \cap ToolsOf(s))]]

McpInit ==
    /\ names = {t \in McpTools : ServerOfTool[t] \in AtStart} /\ enabled_servers = AtStart
    /\ connected_servers = AtStart
    /\ sessions = [s \in Servers |-> IF s \in AtStart THEN 1 ELSE 0]
    /\ tool_definitions = names /\ baseline_tool_definitions = names
    /\ lifecycle = rebuild_lifecycle(names, AtStart, AtStart, names)
    /\ failure_counts = [s \in Servers |-> 0] /\ offered = {} /\ in_turn = FALSE
    /\ panel = [s \in Servers |-> IF s \in AtStart THEN "Enabled" ELSE "Disabled"]
    /\ toggles = <<>> /\ toggle_responses = <<>> /\ tripped = {}
    /\ failed = [s \in Servers |-> 0]
    /\ toggled = 0 /\ called = 0 /\ switched = 0

-----------------------------------------------------------------------------
(* The panel. *)
\* A row that is on or failed goes off at once, a row that is off waits for the
\* answer.
queue_selected_mcp_toggle_request(s) ==
    /\ toggled < MaxToggles /\ toggled' = toggled + 1
    /\ toggles' = Append(toggles, [server |-> s, enable |-> panel[s] = "Disabled"])
    /\ panel' = [panel EXCEPT ![s] = "Disabled"]
    /\ UNCHANGED <<runtimeVars, enabled_servers, baseline_tool_definitions, failure_counts,
                   mcpTurnVars, toggle_responses, tripped, failed, switched>>

\* A slip in which a late answer does not touch a row that shows something else.
McpToggleAnswered_Bug ==
    /\ toggle_responses # <<>> /\ toggle_responses' = Tail(toggle_responses)
    /\ panel' = [panel EXCEPT ![Head(toggle_responses).server] =
                    IF @ = "Disabled" THEN @ ELSE Head(toggle_responses).state]
    /\ UNCHANGED <<runtimeVars, enabled_servers, baseline_tool_definitions, failure_counts,
                   mcpTurnVars, toggles, tripped, failed, toggled, switched>>
McpToggleAnswered ==
    /\ toggle_responses # <<>> /\ toggle_responses' = Tail(toggle_responses)
    /\ panel' = [panel EXCEPT ![Head(toggle_responses).server] = Head(toggle_responses).state]
    /\ UNCHANGED <<runtimeVars, enabled_servers, baseline_tool_definitions, failure_counts,
                   mcpTurnVars, toggles, tripped, failed, toggled, switched>>

-----------------------------------------------------------------------------
(* The worker serves a toggle between turns.  An outcome is the registry's   *)
(* names, the enabled and connected servers, the definitions, the sessions   *)
(* and the state the response carries.                                       *)
Outcome(reg, on, conn, defs, sess, state) ==
    [names |-> reg, on |-> on, conn |-> conn, defs |-> defs, sess |-> sess, state |-> state]

\* A slip in which the runtime forgets the server and the registry keeps it.
disable_Bug(s) ==
    {Outcome(names, enabled_servers, connected_servers \ {s}, tool_definitions, sessions, "Disabled")}
\* The session stays; the tools are hidden and the server marked disconnected.
disable(s) ==
    {Outcome(names, enabled_servers \ {s}, connected_servers \ {s}, tool_definitions, sessions,
             "Disabled")}

NotEnabled(s) ==
    Outcome(names, enabled_servers \ {s}, connected_servers, tool_definitions, sessions, "Failed")

\* A live session only needs its tools shown again.
enable_case_a(s) ==
    {Outcome(names, enabled_servers \cup {s}, connected_servers, tool_definitions, sessions,
             "Enabled")}

\* Connect the one server: what it offers is registered, new definitions are
\* added, the session joins the runtime.  A failure hides the server.
enable_case_b(s) ==
    {NotEnabled(s)} \cup
    {Outcome(names \cup discovered, enabled_servers \cup {s}, connected_servers \cup {s},
             tool_definitions \cup discovered, [sessions EXCEPT ![s] = @ + 1], "Enabled")
        : discovered \in SUBSET ToolsOf(s)}

set_mcp_enabled(s, enable) ==
    IF ~enable THEN disable(s)
    ELSE IF s \in connected_servers THEN enable_case_a(s) ELSE enable_case_b(s)

ToggleMcp ==
    /\ toggles # <<>> /\ ~in_turn /\ toggles' = Tail(toggles)
    /\ LET s == Head(toggles).server
       IN  \E o \in set_mcp_enabled(s, Head(toggles).enable) :
            /\ names' = o.names /\ enabled_servers' = o.on /\ connected_servers' = o.conn
            /\ tool_definitions' = o.defs /\ sessions' = o.sess
            /\ lifecycle' = rebuild_lifecycle(o.names, o.on, o.conn, o.defs)
            /\ toggle_responses' = Append(toggle_responses, [server |-> s, state |-> o.state])
            /\ tripped' = tripped \ {s} /\ failed' = [failed EXCEPT ![s] = 0]
    /\ UNCHANGED <<baseline_tool_definitions, failure_counts, mcpTurnVars, panel, toggled, switched>>

-----------------------------------------------------------------------------
(* Turns. *)
McpTurnStarts ==
    /\ ~in_turn /\ in_turn' = TRUE /\ offered' = Visible
    /\ UNCHANGED <<runtimeVars, enabled_servers, baseline_tool_definitions, failure_counts, called,
                   panelVars, tripped, failed, switched>>
McpTurnEnds ==
    /\ in_turn /\ in_turn' = FALSE /\ offered' = {}
    /\ UNCHANGED <<runtimeVars, enabled_servers, baseline_tool_definitions, failure_counts, called,
                   panelVars, tripped, failed, switched>>

\* record_result: a success clears the count, a transport failure at the threshold
\* hides the server (for the turns to come as well), an authorisation failure and any
\* other error count for nothing.
breaker_record_result(s, result) ==
    LET count == failure_counts[s] + 1
    IN  /\ failed' = [failed EXCEPT ![s] = CASE result = "transport" -> @ + 1
                                               [] result = "success" -> 0 [] OTHER -> @]
        /\ CASE result = "transport" ->
                  /\ failure_counts' = [failure_counts EXCEPT ![s] = count]
                  /\ IF count >= Threshold
                     THEN enabled_servers' = enabled_servers \ {s} /\ tripped' = tripped \cup {s}
                     ELSE UNCHANGED <<enabled_servers, tripped>>
             [] result = "success" ->
                  /\ failure_counts' = [failure_counts EXCEPT ![s] = 0]
                  /\ UNCHANGED <<enabled_servers, tripped>>
             [] OTHER -> UNCHANGED <<failure_counts, enabled_servers, tripped>>

\* A slip in which the check looks at what the turn was started with.
check_server_enabled_Bug(t) == t \in offered
\* on_dispatch skips a call whose server is hidden by now.
check_server_enabled(t) == t \in offered /\ ServerOfTool[t] \in enabled_servers

CallTool(t, result) ==
    /\ in_turn /\ check_server_enabled(t) /\ called < MaxCallsMade /\ called' = called + 1
    /\ breaker_record_result(ServerOfTool[t], result)
    /\ UNCHANGED <<runtimeVars, baseline_tool_definitions, offered, in_turn, panelVars, switched>>

\* A switch of persona puts the definitions back; registry and runtime stay.
SwitchAgentResetsTools ==
    /\ ~in_turn /\ switched < MaxSwitches /\ switched' = switched + 1
    /\ tool_definitions' = baseline_tool_definitions
    /\ UNCHANGED <<names, enabled_servers, connected_servers, sessions, lifecycle,
                   baseline_tool_definitions, failure_counts, mcpTurnVars, panelVars, tripped, failed>>

McpNext ==
    \/ \E s \in Servers : queue_selected_mcp_toggle_request(s)
    \/ McpToggleAnswered \/ ToggleMcp \/ McpTurnStarts \/ McpTurnEnds \/ SwitchAgentResetsTools
    \/ \E t \in McpTools, result \in {"success", "transport", "auth", "other"} : CallTool(t, result)

McpSpec == McpInit /\ [][McpNext]_mcpVars

-----------------------------------------------------------------------------
McpTypeOK ==
    /\ names \cup tool_definitions \cup baseline_tool_definitions \cup offered \subseteq McpTools
    /\ enabled_servers \cup connected_servers \cup tripped \subseteq Servers
    /\ DOMAIN lifecycle = Servers
    /\ \A s \in Servers : failure_counts[s] \in Nat /\ panel[s] \in {"Enabled", "Disabled", "Failed"}

\* Once every toggle is answered the row of the panel and the lifecycle data say what
\* the registry says, however the toggles of a row overlapped; a server the breaker
\* hid since is the exception, and its row is still on.
PanelAgrees ==
    (toggles = <<>> /\ toggle_responses = <<>>) =>
        \A s \in Servers \ tripped :
            /\ (panel[s] = "Enabled") <=> (s \in enabled_servers)
            /\ lifecycle[s].enabled <=> (s \in enabled_servers)

\* Behind every tool the model may be shown there is a session of a server that the
\* runtime counts as connected: hiding, a failed reconnect and the reset of a persona
\* switch never leave a tool of a forgotten server visible.
VisibleBacked ==
    \A t \in Visible : ServerOfTool[t] \in connected_servers /\ sessions[ServerOfTool[t]] > 0

\* Between two toggles of a server no more than the threshold's transport failures
\* follow one another: the turn that trips the breaker makes no further call to it,
\* though its tools were offered to the model when the turn began.
BreakerHolds == \A s \in Servers : failed[s] <= Threshold
=============================================================================
