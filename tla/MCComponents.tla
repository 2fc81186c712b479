---------------------------- MODULE MCComponents ----------------------------
(***************************************************************************)
(* The components that share no variable, on small instances, one run for *)
(* all of them: focus is chosen once and names the component that moves,  *)
(* so the states are the sum of those of the components, not their        *)
(* product, and each component behaves as it does alone.                  *)
(***************************************************************************)
EXTENDS TurnLog, TurnGuards, PermissionGate, McpServers, RuntimeSwitch,
        AcpSession, TuiPrompts, StorageEngine, TLC

CONSTANTS c1, c2, c3, ed, mc, s1,       \* calls of a turn, their tools, a server
          m1, m2, t1, t2,               \* MCP servers and their tools
          sa, q1, q2, a1,               \* an ACP session, its prompts, a tool
          e1, e2, k1, k2                \* storage engines and requests

VARIABLE focus

\* Turn log: two prompts, one retry of each of two kinds.
MCTurnPrompts == <<"p1", "p2">>
MCBudget == [kind \in RetryKind |-> IF kind \in {"backoff", "repetition"} THEN 1 ELSE 0]

\* Permission gate: a tool called twice with the same arguments, which have
\* a display and which a rule names, and a call of an MCP server.
MCToolOf == c1 :> ed @@ c2 :> ed @@ c3 :> mc
MCKeyOf == c1 :> "first" @@ c2 :> "first" @@ c3 :> "third"
MCServerOf == c1 :> NoServer @@ c2 :> NoServer @@ c3 :> s1
WideRule == [scope |-> "tool", matches |-> {c1, c2}, rank |-> 1]
ArgumentRule == [scope |-> "path", matches |-> {c1, c2}, rank |-> 1]
ServerRule == [scope |-> "tool", matches |-> {c3}, rank |-> 2]
MCBase == [global |-> "ask", rules |-> WideRule :> "ask" @@ ServerRule :> "allow"]
NoRules == [global |-> "none", rules |-> <<>>]
MCOverlay == [a \in {"plain", "careful"} |->
                 IF a = "plain" THEN NoRules
                 ELSE [global |-> "none", rules |-> ArgumentRule :> "deny"]]

\* MCP servers: the second is off at the start.
MCServerOfTool == t1 :> m1 @@ t2 :> m2

\* Runtime switch: a window of zero is one the catalogue does not know.
MCWindowOf == [m \in {"small", "big", "odd"} |->
                  CASE m = "small" -> 2 [] m = "big" -> 4 [] OTHER -> 0]
MCAgentModel == [a \in {"keeps", "pins"} |-> IF a = "keeps" THEN NoModel ELSE "small"]

-----------------------------------------------------------------------------
Parts == {"log", "guards", "gate", "mcp", "runtime", "acp", "tui", "engine"}

\* A component that does not move has one initial state.
Still == /\ focus # "gate" => /\ interactive /\ renders_tool_previews /\ decision_timeout
                            /\ persona = "plain"
         /\ focus # "runtime" => config_model = "big" /\ final_session_id = "s1"
         /\ focus # "acp" => stored = {}

Init == /\ focus \in Parts
        /\ LogInit /\ GuardInit /\ PermInit /\ McpInit
        /\ RuntimeInit /\ AcpInit /\ TuiInit /\ EngineInit
        /\ Still

LogMoves == focus = "log" /\ LogNext
            /\ UNCHANGED <<focus, guardVars, permVars, mcpVars, runtimeStateVars,
                           acpVars, tuiVars, engineVars>>
GuardsMove == focus = "guards" /\ GuardNext
              /\ UNCHANGED <<focus, logVars, permVars, mcpVars, runtimeStateVars,
                             acpVars, tuiVars, engineVars>>
GateMoves == focus = "gate" /\ PermNext
             /\ UNCHANGED <<focus, logVars, guardVars, mcpVars, runtimeStateVars,
                            acpVars, tuiVars, engineVars>>
McpMoves == focus = "mcp" /\ McpNext
            /\ UNCHANGED <<focus, logVars, guardVars, permVars, runtimeStateVars,
                           acpVars, tuiVars, engineVars>>
RuntimeMoves == focus = "runtime" /\ RuntimeNext
                /\ UNCHANGED <<focus, logVars, guardVars, permVars, mcpVars,
                               acpVars, tuiVars, engineVars>>
AcpMoves == focus = "acp" /\ AcpNext
            /\ UNCHANGED <<focus, logVars, guardVars, permVars, mcpVars,
                           runtimeStateVars, tuiVars, engineVars>>
TuiMoves == focus = "tui" /\ TuiNext
            /\ UNCHANGED <<focus, logVars, guardVars, permVars, mcpVars,
                           runtimeStateVars, acpVars, engineVars>>
EngineMoves == focus = "engine" /\ EngineNext
               /\ UNCHANGED <<focus, logVars, guardVars, permVars, mcpVars,
                              runtimeStateVars, acpVars, tuiVars>>

Next == \/ LogMoves \/ GuardsMove \/ GateMoves \/ McpMoves
        \/ RuntimeMoves \/ AcpMoves \/ TuiMoves \/ EngineMoves

vars == <<focus, logVars, guardVars, permVars, mcpVars, runtimeStateVars,
          acpVars, tuiVars, engineVars>>

\* The fairness of the permission gate is that of PermFairness.
GateFairness ==
    WF_permVars(focus = "gate" /\ \E c \in Calls : ResolverStep(c)
                /\ UNCHANGED <<focus, logVars, guardVars, mcpVars, runtimeStateVars,
                               acpVars, tuiVars, engineVars>>)

FairSpec == Init /\ [][Next]_vars /\ GateFairness

\* The variables of every component hold values of their types.
TypeOK == /\ focus \in Parts
          /\ LogTypeOK /\ GuardTypeOK /\ PermTypeOK /\ McpTypeOK
          /\ RuntimeTypeOK /\ AcpTypeOK /\ TuiTypeOK /\ EngineTypeOK
=============================================================================
