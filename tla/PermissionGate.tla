----------------------------- MODULE PermissionGate -----------------------------
(***************************************************************************)
(* Whether a tool call may run.  A policy of rules (a base, the persona's  *)
(* overlay, the command line's overlay) decides allow, ask or deny; a      *)
(* session grant turns a decision of its rule and tool into an allow; an   *)
(* ask publishes a request and waits for the user, whose answer reaches a  *)
(* map of pending requests through the orchestrator's permission stage.    *)
(* A cancel, a timeout and the grace of a cancelled turn end the wait from *)
(* the other side.  An ACP client is asked by the bridge, and the task     *)
(* that polls the turn waits for its answer meanwhile.  Without a user     *)
(* interface an ask is denied and the events go to the stderr renderer.    *)
(*                                                                         *)
(* A rule is a record: its scope ("tool" or the name of an argument), the  *)
(* calls its pattern matches and its rank, which orders the matching rules *)
(* as the code does (more literal characters first, then the later one).   *)
(***************************************************************************)
EXTENDS Integers, Sequences, FiniteSets, TLC

CONSTANTS
    Calls,        \* the tool calls of the session, each dispatched once
    ToolOf,       \* the tool of a call
    KeyOf,        \* ToolCallId::of: the tool and the arguments
    ServerOf,     \* the MCP server of a call's tool, or NoServer
    NoServer,
    HasDisplay,   \* calls with a pre-authorize preview, the same at each time it is built
    Base,         \* the configured policy: [global, rules]
    Personas,
    Overlay,      \* the overlay of each persona; global "none" leaves it
    CliOverlay,
    MaxTurns      \* bound: turns of the session

Action == {"allow", "ask", "deny"}
Choice == {"AllowOnce", "AllowAlways", "Deny"}

ASSUME PermissionGateAssumption ==
    /\ MaxTurns \in Nat
    /\ HasDisplay \subseteq Calls /\ NoServer \notin Calls
    /\ Base.global \in Action
    /\ \A p \in Personas : Overlay[p].global \in Action \cup {"none"}

VARIABLES
    interactive,     \* a user interface answers asks; without one they are denied
    renders_tool_previews, \* it shows previews too: the TUI does, an ACP client does not
    decision_timeout, \* a request has a deadline; decision_timeout_secs = 0 takes it away
    persona,         \* the persona in use
    permissions,     \* the effective policy
    session_grants,  \* allow-always grants: [rule, tool]
    enabled,         \* MCP servers in use
    perm_turn,       \* [n, open, cancelled]: the turn
    gate,            \* where each call is
    asked,           \* the rule that asked, for a call that asks
    pending,         \* calls whose sender is in the pending map
    rx,              \* the decision sent to a waiting call
    cancel_rx,       \* calls whose subscription holds a cancel
    unseen,          \* requests on the bus the ACP bridge has not taken
    cards,           \* requests the user has seen and not answered
    submissions,     \* answers on their way to the stage: [call, choice]
    deny_set,        \* keys the ACP client rejected for good
    previewed,       \* keys of the calls whose preview the user saw
    shown,           \* where the user saw the display of a call, in order
    answered         \* for the properties: every answer taken under the persona

permVars == <<interactive, renders_tool_previews, decision_timeout, persona, permissions,
    session_grants, enabled, perm_turn, gate, asked, pending, rx, cancel_rx, unseen, cards,
    submissions, deny_set, previewed, shown, answered>>

-----------------------------------------------------------------------------
(* The policy. *)
with_overlay(config, overlay) ==
    [global |-> IF overlay.global = "none" THEN config.global ELSE overlay.global,
     rules |-> overlay.rules @@ config.rules]

effective(p) == with_overlay(with_overlay(Base, Overlay[p]), CliOverlay)

\* What a call no rule matches is decided by; no configured rule has its name.
GlobalRule == [scope |-> "global:*", matches |-> {}, rank |-> 0]
ASSUME GlobalApart == \A p \in Personas : GlobalRule \notin DOMAIN effective(p).rules

match_pattern(config, scope, c) ==
    {r \in DOMAIN config.rules : r.scope = scope /\ c \in r.matches
        /\ \A q \in DOMAIN config.rules :
               q.scope = scope /\ c \in q.matches => q.rank <= r.rank}

\* Every decision evaluate may return: when rules of two arguments match, the
\* one the map yields last wins, so the order is the map's choice.
evaluate(config, c) ==
    LET scopes == {r.scope : r \in DOMAIN config.rules} \ {"tool"}
        nested == UNION {match_pattern(config, s, c) : s \in scopes}
        matched == IF nested # {} THEN nested ELSE match_pattern(config, "tool", c)
    IN  IF matched = {} THEN {[rule |-> GlobalRule, action |-> config.global]}
        ELSE {[rule |-> r, action |-> config.rules[r]] : r \in matched}

apply_session_grant_override(decision, c) ==
    IF [rule |-> decision.rule, tool |-> ToolOf[c]] \in session_grants
    THEN [decision EXCEPT !.action = "allow"] ELSE decision

\* A slip in which the persona's grants outlive it.
clear_session_grants_Bug == session_grants' = session_grants
clear_session_grants == session_grants' = {}

-----------------------------------------------------------------------------
NoRule == [rule |-> GlobalRule, action |-> "none"]

PermInit ==
    /\ interactive \in BOOLEAN /\ renders_tool_previews \in {FALSE, interactive}
    /\ decision_timeout \in {TRUE, ~interactive}
    /\ persona \in Personas /\ permissions = effective(persona)
    /\ session_grants = {} /\ enabled = {ServerOf[c] : c \in Calls} \ {NoServer}
    /\ perm_turn = [n |-> 0, open |-> FALSE, cancelled |-> FALSE]
    /\ gate = [c \in Calls |-> "idle"] /\ asked = [c \in Calls |-> NoRule]
    /\ pending = {} /\ rx = [c \in Calls |-> "none"] /\ cancel_rx = {}
    /\ unseen = {} /\ cards = {} /\ submissions = {} /\ deny_set = {}
    /\ previewed = {} /\ shown = [c \in Calls |-> <<>>] /\ answered = {}

modeVars == <<interactive, renders_tool_previews, decision_timeout>>
policyVars == <<modeVars, persona, permissions, session_grants, enabled>>
waitVars == <<asked, pending, rx, cancel_rx>>
userVars == <<unseen, cards, submissions, deny_set>>
displayVars == <<previewed, shown>>

acp == interactive /\ ~renders_tool_previews

\* The bridge awaits the client in the task that polls the turn.
ClientAsked == acp /\ cards # {}
Polled == ~ClientAsked

-----------------------------------------------------------------------------
(* The turn, and what changes the policy between turns. *)
TurnStarts ==
    /\ ~perm_turn.open /\ perm_turn.n < MaxTurns
    /\ perm_turn' = [n |-> perm_turn.n + 1, open |-> TRUE, cancelled |-> FALSE]
    /\ UNCHANGED <<policyVars, gate, waitVars, userVars, displayVars, answered>>

Busy == {c \in Calls : gate[c] \in {"published", "waiting", "allowed"}}

\* The resolver and its record of previews last a turn; so does the bridge, which
\* drops what it has not taken and denies what is pending.
TurnCloses ==
    /\ perm_turn.open /\ Busy = {} /\ Polled
    /\ perm_turn' = [perm_turn EXCEPT !.open = FALSE]
    /\ previewed' = {} /\ unseen' = {} /\ deny_set' = {}
    /\ pending' = IF acp THEN {} ELSE pending
    /\ UNCHANGED <<policyVars, gate, asked, rx, cancel_rx, cards, submissions, shown, answered>>

\* Control-C on a confirmed cancel: every subscriber's receiver gets the event.
CancelTurn ==
    /\ perm_turn.open /\ ~perm_turn.cancelled
    /\ perm_turn' = [perm_turn EXCEPT !.cancelled = TRUE]
    /\ cancel_rx' = {c \in Calls : gate[c] \in {"published", "waiting"}}
    /\ UNCHANGED <<policyVars, gate, asked, pending, rx, userVars, displayVars, answered>>

\* The grace of a cancelled turn is over: its futures are dropped as they stand,
\* the pending map keeps what they registered.
GraceDrops ==
    /\ perm_turn.open /\ perm_turn.cancelled /\ Busy # {} /\ Polled
    /\ gate' = [c \in Calls |-> IF c \in Busy THEN "dropped" ELSE gate[c]]
    /\ rx' = [c \in Calls |-> "none"] /\ cancel_rx' = {}
    /\ UNCHANGED <<policyVars, perm_turn, asked, pending, userVars, displayVars, answered>>

switch_agent(p) ==
    /\ ~perm_turn.open /\ p # persona
    /\ persona' = p /\ permissions' = effective(p) /\ clear_session_grants
    /\ answered' = {}
    /\ UNCHANGED <<modeVars, enabled, perm_turn, gate, waitVars, userVars, displayVars>>

OfServer(server) == {ToolOf[c] : c \in {d \in Calls : ServerOf[d] = server}}
set_mcp_server_enabled(server, on) ==
    /\ ~perm_turn.open /\ on # (server \in enabled)
    /\ IF on THEN enabled' = enabled \cup {server} /\ UNCHANGED <<session_grants, answered>>
       ELSE /\ enabled' = enabled \ {server}
            /\ session_grants' = {g \in session_grants : g.tool \notin OfServer(server)}
            /\ answered' = {a \in answered : ToolOf[a.call] \notin OfServer(server)}
    /\ UNCHANGED <<modeVars, persona, permissions, perm_turn, gate, waitVars, userVars, displayVars>>

-----------------------------------------------------------------------------
(* The resolver of one call, as the hook chain's dispatch awaits it. *)
Shows(c, place) ==
    IF c \in HasDisplay THEN shown' = [shown EXCEPT ![c] = Append(@, place)] ELSE UNCHANGED shown

take_previewed(c) == previewed' = previewed \ {KeyOf[c]}

\* The not-run pair publishes a preview, and its completion carries no display: only
\* a front end that renders previews shows anything.
not_run_preview(c) == IF renders_tool_previews THEN Shows(c, "preview") ELSE UNCHANGED shown

\* A denied call never runs; its pair has a preview unless the user has seen one.
Refuse(c) ==
    /\ gate' = [gate EXCEPT ![c] = "denied"]
    /\ IF KeyOf[c] \in previewed THEN UNCHANGED shown ELSE not_run_preview(c)
    /\ take_previewed(c)

\* A slip in which the display is shown and its key not recorded.
Preview_Bug(c, place) ==
    UNCHANGED previewed /\ IF renders_tool_previews THEN Shows(c, place) ELSE UNCHANGED shown
Preview(c, place) ==
    IF renders_tool_previews
    THEN /\ previewed' = IF c \in HasDisplay THEN previewed \cup {KeyOf[c]} ELSE previewed
         /\ Shows(c, place)
    ELSE UNCHANGED displayVars

\* The agent runs the calls of a turn one after the other: Busy is empty.
Dispatched(c) == perm_turn.open /\ gate[c] = "idle" /\ Busy = {} /\ Polled

\* An allowed call is previewed; an ask is on the TUI's card, or on the bus for the
\* bridge to take.
resolve(c) ==
    /\ Dispatched(c) /\ ~perm_turn.cancelled
    /\ ServerOf[c] \in enabled \cup {NoServer}
    /\ \E d0 \in evaluate(permissions, c) :
        LET d == apply_session_grant_override(d0, c)
        IN  \/ /\ d.action = "allow"
               /\ gate' = [gate EXCEPT ![c] = "allowed"]
               /\ Preview(c, "preview")
               /\ UNCHANGED <<asked, cards, unseen>>
            \/ /\ d.action = "deny" \/ (d.action = "ask" /\ ~interactive)
               /\ Refuse(c) /\ UNCHANGED <<asked, cards, unseen>>
            \/ /\ d.action = "ask" /\ interactive
               /\ gate' = [gate EXCEPT ![c] = "published"]
               /\ asked' = [asked EXCEPT ![c] = d0]
               /\ Preview(c, "card")
               /\ IF acp THEN unseen' = unseen \cup {c} /\ UNCHANGED cards
                  ELSE cards' = cards \cup {c} /\ UNCHANGED unseen
    /\ UNCHANGED <<policyVars, perm_turn, pending, rx, cancel_rx, submissions, deny_set, answered>>

\* A call of a cancelled turn is not resolved: the hook or, for the siblings the stop
\* left undispatched, the executor emits its pair.
emit_not_run_dispatch(c) ==
    /\ Dispatched(c) /\ perm_turn.cancelled
    /\ gate' = [gate EXCEPT ![c] = "denied"] /\ not_run_preview(c)
    /\ UNCHANGED <<policyVars, perm_turn, waitVars, userVars, previewed, answered>>

\* The sender is registered after the request is on the bus.
Register(c) ==
    /\ gate[c] = "published" /\ Polled
    /\ gate' = [gate EXCEPT ![c] = "waiting"] /\ pending' = pending \cup {c}
    /\ UNCHANGED <<policyVars, perm_turn, asked, rx, cancel_rx, userVars, displayVars, answered>>

apply_ask_choice(c, choice) ==
    IF choice = "AllowAlways"
    THEN session_grants' = session_grants \cup {[rule |-> asked[c].rule, tool |-> ToolOf[c]]}
    ELSE UNCHANGED session_grants

\* The resolver that ends drops its receivers.
Unsubscribe(c) == rx' = [rx EXCEPT ![c] = "none"] /\ cancel_rx' = cancel_rx \ {c}

Decided(c) ==
    /\ gate[c] = "waiting" /\ rx[c] # "none" /\ Polled /\ Unsubscribe(c)
    /\ apply_ask_choice(c, rx[c])
    /\ answered' = answered \cup {[call |-> c, choice |-> rx[c], rule |-> asked[c].rule]}
    /\ IF rx[c] = "Deny" THEN Refuse(c)
       ELSE gate' = [gate EXCEPT ![c] = "allowed"] /\ UNCHANGED displayVars
    /\ UNCHANGED <<modeVars, persona, permissions, enabled, perm_turn, asked, pending, userVars>>

\* A cancel the subscription holds, or the deadline.  The select is free to
\* take this branch when a decision has arrived as well.
GiveUp(c) ==
    /\ gate[c] = "waiting" /\ Polled /\ Unsubscribe(c)
    /\ pending' = pending \ {c} /\ Refuse(c)
    /\ UNCHANGED <<policyVars, perm_turn, asked, userVars, answered>>
CancelSeen(c) == c \in cancel_rx /\ GiveUp(c)
\* A slip in which the deadline only ends a wait nobody registered for.
DecisionTimesOut_Bug(c) == decision_timeout /\ c \notin pending /\ rx[c] = "none" /\ GiveUp(c)
DecisionTimesOut(c) == decision_timeout /\ GiveUp(c)

\* The tool ran.  Its result may carry the display, which is left out when the user
\* has seen it; the stderr renderer leaves it out while its spinner turns.
on_outcome(c) ==
    /\ gate[c] = "allowed" /\ Polled
    /\ \E carries \in {FALSE} \cup {(c \in HasDisplay)} :
        /\ gate' = [gate EXCEPT ![c] = IF carries THEN "done" ELSE "bare"]
        /\ \/ carries /\ KeyOf[c] \notin previewed /\ Shows(c, "result")
           \/ (~carries \/ KeyOf[c] \in previewed \/ ~interactive) /\ UNCHANGED shown
    /\ take_previewed(c)
    /\ UNCHANGED <<policyVars, perm_turn, waitVars, userVars, answered>>

-----------------------------------------------------------------------------
(* The user.  An answer to a request that is not pending is reported and dropped;  *)
(* what is sent to a resolver that is gone is lost.                                *)
Deliver(c, choice) ==
    /\ pending' = pending \ {c}
    /\ IF c \in pending /\ gate[c] = "waiting" THEN rx' = [rx EXCEPT ![c] = choice]
       ELSE UNCHANGED rx

UserAnswers(c, choice) ==
    /\ ~acp /\ c \in cards /\ cards' = cards \ {c}
    /\ submissions' = submissions \cup {[call |-> c, choice |-> choice]}
    /\ UNCHANGED <<policyVars, perm_turn, gate, waitVars, unseen, deny_set, displayVars, answered>>

PermissionStage ==
    \E s \in submissions :
        /\ submissions' = submissions \ {s} /\ Deliver(s.call, s.choice)
        /\ UNCHANGED <<policyVars, perm_turn, gate, asked, cancel_rx, unseen, cards, deny_set,
                       displayVars, answered>>

\* The bridge takes a request once the turn has nothing to do but wait.  A key that
\* was rejected for good is denied; otherwise the client gets a card with the display,
\* also when the request is over by then.
handle_permission_request(c) ==
    /\ acp /\ Polled /\ c \in unseen /\ gate[c] # "published" /\ unseen' = unseen \ {c}
    /\ \/ KeyOf[c] \in deny_set /\ Deliver(c, "Deny") /\ UNCHANGED <<cards, shown>>
       \/ /\ KeyOf[c] \notin deny_set /\ cards' = {c} /\ Shows(c, "card")
          /\ UNCHANGED <<pending, rx>>
    /\ UNCHANGED <<policyVars, perm_turn, gate, asked, cancel_rx, submissions, deny_set, previewed,
                   answered>>

ClientAnswers(c, choice) ==
    /\ acp /\ c \in cards /\ cards' = {} /\ Deliver(c, choice)
    /\ deny_set' \in {deny_set, IF choice = "Deny" THEN deny_set \cup {KeyOf[c]} ELSE deny_set}
    /\ UNCHANGED <<policyVars, perm_turn, gate, asked, cancel_rx, unseen, submissions, displayVars,
                   answered>>

ResolverStep(c) == Register(c) \/ Decided(c) \/ CancelSeen(c) \/ DecisionTimesOut(c)
FrontEndStep(c) ==
    \/ handle_permission_request(c)
    \/ \E choice \in Choice : UserAnswers(c, choice) \/ ClientAnswers(c, choice)

PermNext ==
    \/ TurnStarts \/ TurnCloses \/ CancelTurn \/ GraceDrops
    \/ \E p \in Personas : switch_agent(p)
    \/ \E server \in {ServerOf[c] : c \in Calls} \ {NoServer}, on \in BOOLEAN :
           set_mcp_server_enabled(server, on)
    \/ \E c \in Calls : resolve(c) \/ emit_not_run_dispatch(c) \/ ResolverStep(c) \/ on_outcome(c)
    \/ \E c \in Calls : FrontEndStep(c)
    \/ PermissionStage

PermSpec == PermInit /\ [][PermNext]_permVars
\* The resolvers are polled while their turn runs, and deadlines pass.
PermFairness == WF_permVars(\E c \in Calls : ResolverStep(c))

-----------------------------------------------------------------------------
PermTypeOK ==
    /\ persona \in Personas
    /\ gate \in [Calls -> {"idle", "published", "waiting", "allowed", "denied", "done", "bare",
                          "dropped"}]
    /\ rx \in [Calls -> Choice \cup {"none"}]
    /\ pending \cup cancel_rx \cup cards \cup unseen \subseteq Calls
    /\ shown \in [Calls -> Seq({"card", "preview", "result"})]
    /\ perm_turn.n \in 0..MaxTurns
    /\ \A g \in session_grants : g.tool \in {ToolOf[c] : c \in Calls}

\* A call that may run was allowed by the policy in force, by the user's answer to
\* its own request, or by an "allow always" the same rule and tool were given under
\* this persona and while the tool's server stayed enabled: an answer that comes
\* late, a switch of persona or a disabled server never leaves an allow behind.
AllowBacked ==
    \A c \in Calls : gate[c] = "allowed" =>
        \E d \in evaluate(permissions, c) :
            \/ d.action = "allow"
            \/ /\ d.action = "ask"
               /\ \E a \in answered :
                    \/ a.call = c /\ a.choice # "Deny"
                    \/ a.choice = "AllowAlways" /\ a.rule = d.rule /\ ToolOf[a.call] = ToolOf[c]

\* In the TUI the display of a call is shown once and only once, whatever becomes of
\* the call: on its card, by the preview of an allowed call or by that of its not-run
\* pair, and never again with the result.  An ACP client, which gets no previews, is
\* shown the display by the result of every call that ran and has one, once, after
\* the card if the call was asked; what is refused without a card it never sees.  The
\* renderer of stderr promises nothing.
DisplayOnce ==
    \A c \in HasDisplay :
        /\ renders_tool_previews => Len(shown[c]) = IF gate[c] = "idle" THEN 0 ELSE 1
        /\ acp /\ gate[c] = "done" =>
               shown[c] = IF asked[c].action = "none" THEN <<"result">> ELSE <<"card", "result">>

Waiting == {c \in Calls : gate[c] \in {"published", "waiting"}}

\* With a deadline every request ends: an answer that came before its sender was
\* registered, or that nobody gives, keeps neither the call nor its turn waiting.
\* Without one (decision_timeout_secs = 0) the answer that reached the resolver and
\* the cancel it holds still end the request, and nothing else does.  In both cases
\* an ACP client that is being asked, about this or an earlier request, holds the
\* turn for as long as it likes, deadline and cancel included.  One call waits at a
\* time, and the next is dispatched when it no longer does.
RequestEnds ==
    (\E c \in Waiting : decision_timeout \/ rx[c] # "none" \/ c \in cancel_rx)
        ~> (ClientAsked \/ Waiting = {})
=============================================================================
