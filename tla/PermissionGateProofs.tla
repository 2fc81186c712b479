-------------------------- MODULE PermissionGateProofs --------------------------
(***************************************************************************)
(* Theorems about the permission gate, for every set of calls, every       *)
(* policy and every persona.                                               *)
(***************************************************************************)
EXTENDS PermissionGate, SequenceTheorems, TLAPS

-----------------------------------------------------------------------------
(* The inductive invariant.                                                *)

GateState == {"idle", "published", "waiting", "allowed", "denied", "done", "bare", "dropped"}

TurnRecord(t) == [n |-> t.n, open |-> t.open, cancelled |-> t.cancelled]

GateTypes ==
    /\ gate \in [Calls -> GateState] /\ rx \in [Calls -> Choice \cup {"none"}]
    /\ DOMAIN asked = Calls /\ asked = [c \in Calls |-> asked[c]]
    /\ persona \in Personas /\ permissions = effective(persona)
    /\ submissions \subseteq [call : Calls, choice : Choice]
    /\ perm_turn = TurnRecord(perm_turn)

(* Between turns no call runs or waits.                                    *)
ClosedIdle == perm_turn.open \/ Busy = {}

(* A request carries a decision of the policy in force.                    *)
AskedInForce ==
    \A c \in Calls : gate[c] \in {"published", "waiting"} =>
        asked[c] \in evaluate(permissions, c) /\ asked[c].action = "ask"

\* The action a policy gives by one of its rules.
ByRule(config, rule) == IF rule = GlobalRule THEN config.global ELSE config.rules[rule]

(* A grant is of a rule that asks, and the user gave it for its tool.      *)
GrantGiven ==
    \A g \in session_grants :
       /\ ByRule(permissions, g.rule) = "ask"
       /\ \E a \in answered :
             a.choice = "AllowAlways" /\ a.rule = g.rule /\ ToolOf[a.call] = g.tool

Backed(c) ==
    \E d \in evaluate(permissions, c) :
       \/ d.action = "allow"
       \/ /\ d.action = "ask"
          /\ \E a \in answered :
               \/ a.call = c /\ a.choice # "Deny"
               \/ a.choice = "AllowAlways" /\ a.rule = d.rule /\ ToolOf[a.call] = ToolOf[c]

RunsBacked == \A c \in Calls : gate[c] = "allowed" => Backed(c)

GateInv == GateTypes /\ ClosedIdle /\ AskedInForce /\ GrantGiven /\ RunsBacked

-----------------------------------------------------------------------------
\* A decision is the action its rule has in the policy.
LEMMA DecisionByRule ==
  ASSUME GateTypes, NEW c \in Calls, NEW d \in evaluate(permissions, c)
  PROVE  d.action = ByRule(permissions, d.rule)
<1>1. GlobalRule \notin DOMAIN permissions.rules
  BY GlobalApart DEF GateTypes
<1>2. \/ d = [rule |-> GlobalRule, action |-> permissions.global]
      \/ \E r \in DOMAIN permissions.rules : d = [rule |-> r, action |-> permissions.rules[r]]
  <2>1. \A s : match_pattern(permissions, s, c) \subseteq DOMAIN permissions.rules
    BY DEF match_pattern
  <2> DEFINE scopes == {r.scope : r \in DOMAIN permissions.rules} \ {"tool"}
             nested == UNION {match_pattern(permissions, s, c) : s \in scopes}
             matched == IF nested # {} THEN nested ELSE match_pattern(permissions, "tool", c)
  <2>2. nested \subseteq DOMAIN permissions.rules
    BY <2>1
  <2>3. matched \subseteq DOMAIN permissions.rules
    BY <2>1, <2>2
  <2>4. d \in IF matched = {} THEN {[rule |-> GlobalRule, action |-> permissions.global]}
              ELSE {[rule |-> r, action |-> permissions.rules[r]] : r \in matched}
    BY DEF evaluate
  <2> HIDE DEF matched
  <2>5. CASE matched = {}
    BY <2>4, <2>5
  <2>6. CASE matched # {}
    BY <2>3, <2>4, <2>6
  <2> QED
    BY <2>5, <2>6
<1> QED
  BY <1>1, <1>2 DEF ByRule

\* What every step keeps in which the policy, the requests and the turn stay, calls
\* only end, and answers are only added.
LEMMA Ends ==
  ASSUME GateInv, UNCHANGED <<persona, permissions, session_grants, asked>>,
         submissions' \subseteq [call : Calls, choice : Choice], perm_turn' = TurnRecord(perm_turn'),
         perm_turn'.open = perm_turn.open \/ perm_turn'.open \/ Busy' = {},
         gate' \in [Calls -> GateState], rx' \in [Calls -> Choice \cup {"none"}],
         \A c \in Calls : \/ gate'[c] = gate[c] \/ gate'[c] \in {"denied", "done", "bare", "dropped"}
                          \/ gate[c] = "published" /\ gate'[c] = "waiting",
         answered \subseteq answered'
  PROVE  GateInv'
<1> USE DEF GateInv
<1>1. GateTypes'
  BY DEF GateTypes
<1>2. ClosedIdle'
  <2>1. Busy' \subseteq Busy
    BY DEF Busy
  <2> QED
    BY <2>1 DEF ClosedIdle
<1>3. AskedInForce'
  BY DEF AskedInForce
<1>4. GrantGiven'
  BY DEF GrantGiven
<1>5. RunsBacked'
  <2>1. \A c \in Calls : gate'[c] = "allowed" => gate[c] = "allowed"
    OBVIOUS
  <2>2. \A c \in Calls : Backed(c) => Backed(c)'
    BY DEF Backed
  <2> QED
    BY <2>1, <2>2 DEF RunsBacked
<1> QED
  BY <1>1, <1>2, <1>3, <1>4, <1>5

\* A change of the policy between turns: the grants that stay were all given.
LEMMA PolicyStep ==
  ASSUME GateInv, ~perm_turn.open,
         \/ \E p \in Personas : switch_agent(p)
         \/ \E server, on : set_mcp_server_enabled(server, on)
  PROVE  GateInv'
<1> USE DEF GateInv
<1>1. Busy = {} /\ UNCHANGED <<perm_turn, gate, asked, rx, submissions>>
  BY DEF ClosedIdle, switch_agent, set_mcp_server_enabled, waitVars, userVars
<1>2. \A c \in Calls : gate[c] \notin {"published", "waiting", "allowed"}
  BY <1>1 DEF Busy
<1>3. ClosedIdle' /\ AskedInForce' /\ RunsBacked'
  BY <1>1, <1>2 DEF ClosedIdle, Busy, AskedInForce, RunsBacked
<1>4. ASSUME NEW p \in Personas, switch_agent(p) PROVE GateTypes' /\ GrantGiven'
  BY <1>1, <1>4 DEF GateTypes, GrantGiven, switch_agent, clear_session_grants
<1>5. ASSUME NEW server, NEW on, set_mcp_server_enabled(server, on) PROVE GateTypes' /\ GrantGiven'
  <2>1. UNCHANGED <<persona, permissions>>
    BY <1>5 DEF set_mcp_server_enabled
  <2>2. CASE UNCHANGED <<session_grants, answered>>
    BY <1>1, <2>1, <2>2 DEF GateTypes, GrantGiven
  <2>3. CASE /\ session_grants' = {g \in session_grants : g.tool \notin OfServer(server)}
             /\ answered' = {a \in answered : ToolOf[a.call] \notin OfServer(server)}
    BY <1>1, <2>1, <2>3 DEF GateTypes, GrantGiven
  <2> QED
    BY <1>5, <2>2, <2>3 DEF set_mcp_server_enabled
<1> QED
  BY <1>3, <1>4, <1>5

\* A call whose decision is allow is backed by the policy or by a grant.
LEMMA ResolveStep ==
  ASSUME GateInv, NEW c \in Calls, resolve(c)
  PROVE  GateInv'
<1> USE DEF GateInv
<1>1. /\ perm_turn.open /\ gate[c] = "idle"
      /\ UNCHANGED <<persona, permissions, session_grants, perm_turn, rx, answered, submissions>>
  BY DEF resolve, Dispatched, policyVars
<1>2. PICK d0 \in evaluate(permissions, c) :
        LET d == apply_session_grant_override(d0, c)
        IN  \/ d.action = "allow" /\ gate' = [gate EXCEPT ![c] = "allowed"] /\ UNCHANGED asked
            \/ gate' = [gate EXCEPT ![c] = "denied"] /\ UNCHANGED asked
            \/ /\ d.action = "ask" /\ gate' = [gate EXCEPT ![c] = "published"]
               /\ asked' = [asked EXCEPT ![c] = d0]
  BY DEF resolve, Refuse
<1> DEFINE d == apply_session_grant_override(d0, c)
<1>3. CASE gate' = [gate EXCEPT ![c] = "denied"] /\ UNCHANGED asked
  BY <1>1, <1>3, Ends DEF GateTypes, GateState
<1>4. CASE d.action = "allow" /\ gate' = [gate EXCEPT ![c] = "allowed"] /\ UNCHANGED asked
  <2>1. Backed(c)
    <3>1. CASE d0.action = "allow"
      BY <3>1 DEF Backed
    <3>2. CASE d0.action # "allow"
      <4>1. [rule |-> d0.rule, tool |-> ToolOf[c]] \in session_grants
        BY <1>4, <3>2 DEF apply_session_grant_override
      <4>2. /\ ByRule(permissions, d0.rule) = "ask"
            /\ \E a \in answered : a.choice = "AllowAlways" /\ a.rule = d0.rule
                                   /\ ToolOf[a.call] = ToolOf[c]
        BY <4>1 DEF GrantGiven
      <4>3. d0.action = "ask"
        BY <4>2, DecisionByRule
      <4> QED
        BY <4>2, <4>3 DEF Backed
    <3> QED
      BY <3>1, <3>2
  <2>2. \A b \in Calls : Backed(b)' <=> Backed(b)
    BY <1>1 DEF Backed
  <2>3. \A b \in Calls : b # c => gate'[b] = gate[b]
    BY <1>4 DEF GateTypes
  <2>4. gate' \in [Calls -> GateState] /\ gate'[c] = "allowed"
    BY <1>4 DEF GateTypes, GateState
  <2>5. GateTypes' /\ ClosedIdle' /\ GrantGiven'
    BY <1>1, <1>4, <2>4 DEF GateTypes, ClosedIdle, GrantGiven
  <2>6. AskedInForce'
    BY <1>1, <1>4, <2>3, <2>4 DEF AskedInForce
  <2>7. RunsBacked'
    BY <2>1, <2>2, <2>3 DEF RunsBacked
  <2> QED
    BY <2>5, <2>6, <2>7
<1>5. CASE d.action = "ask" /\ gate' = [gate EXCEPT ![c] = "published"]
           /\ asked' = [asked EXCEPT ![c] = d0]
  <2>1. d0.action = "ask"
    BY <1>5 DEF apply_session_grant_override
  <2>2. \A b \in Calls : Backed(b)' <=> Backed(b)
    BY <1>1 DEF Backed
  <2>3. \A b \in Calls : b # c => gate'[b] = gate[b] /\ asked'[b] = asked[b]
    BY <1>5 DEF GateTypes
  <2>4. gate' \in [Calls -> GateState] /\ gate'[c] = "published" /\ asked'[c] = d0
    BY <1>5 DEF GateTypes, GateState
  <2>5. GateTypes' /\ ClosedIdle' /\ GrantGiven'
    BY <1>1, <1>5, <2>4 DEF GateTypes, ClosedIdle, GrantGiven
  <2>6. AskedInForce'
    BY <1>1, <2>1, <2>3, <2>4 DEF AskedInForce
  <2>7. RunsBacked'
    BY <2>2, <2>3, <2>4 DEF RunsBacked
  <2> QED
    BY <2>5, <2>6, <2>7
<1> QED
  BY <1>2, <1>3, <1>4, <1>5

\* A decision of the user backs the call it is about; "allow always" grants the rule.
LEMMA DecidedStep ==
  ASSUME GateInv, NEW c \in Calls, Decided(c)
  PROVE  GateInv'
<1> USE DEF GateInv
<1> DEFINE a == [call |-> c, choice |-> rx[c], rule |-> asked[c].rule]
<1>1. /\ gate[c] = "waiting" /\ rx[c] # "none"
      /\ UNCHANGED <<persona, permissions, perm_turn, asked, submissions>>
      /\ rx' \in [Calls -> Choice \cup {"none"}]
      /\ answered' = answered \cup {a}
  BY DEF Decided, Unsubscribe, userVars, GateTypes
<1>2. asked[c] \in evaluate(permissions, c) /\ asked[c].action = "ask"
  BY <1>1 DEF AskedInForce
<1>3. ByRule(permissions, asked[c].rule) = "ask"
  BY <1>2, DecisionByRule
<1>4. GrantGiven'
  <2>1. \A g \in session_grants' : \/ g \in session_grants
                                   \/ /\ rx[c] = "AllowAlways"
                                      /\ g = [rule |-> asked[c].rule, tool |-> ToolOf[c]]
    BY DEF Decided, apply_ask_choice
  <2>2. ASSUME NEW g \in session_grants'
        PROVE  /\ ByRule(permissions, g.rule) = "ask"
               /\ \E b \in answered' :
                     b.choice = "AllowAlways" /\ b.rule = g.rule /\ ToolOf[b.call] = g.tool
    <3>1. CASE g \in session_grants
      BY <1>1, <3>1 DEF GrantGiven
    <3>2. CASE rx[c] = "AllowAlways" /\ g = [rule |-> asked[c].rule, tool |-> ToolOf[c]]
      <4>1. a \in answered' /\ a.choice = "AllowAlways" /\ a.rule = g.rule /\ ToolOf[a.call] = g.tool
        BY <1>1, <3>2
      <4> QED
        BY <1>3, <3>2, <4>1
    <3> QED
      BY <2>1, <3>1, <3>2
  <2> QED
    BY <1>1, <2>2 DEF GrantGiven, ByRule
<1>5. \A b \in Calls : Backed(b) => Backed(b)'
  BY <1>1 DEF Backed
<1>6. PICK state \in {"denied", "allowed"} :
        /\ gate' = [gate EXCEPT ![c] = state]
        /\ state = "allowed" => rx[c] # "Deny"
  BY DEF Decided, Refuse
<1>7. /\ \A b \in Calls : b # c => gate'[b] = gate[b]
      /\ gate'[c] = state /\ gate' \in [Calls -> GateState]
  BY <1>6 DEF GateTypes, GateState
<1>8. GateTypes' /\ AskedInForce'
  BY <1>1, <1>7 DEF GateTypes, AskedInForce
<1>9. ClosedIdle'
  <2>1. c \in Busy
    BY <1>1 DEF Busy
  <2> QED
    BY <1>1, <2>1 DEF ClosedIdle
<1>10. RunsBacked'
  <2>1. ASSUME rx[c] # "Deny" PROVE Backed(c)'
    <3>1. a \in answered' /\ a.call = c /\ a.choice # "Deny"
      BY <1>1, <2>1
    <3> QED
      BY <1>1, <1>2, <3>1 DEF Backed
  <2> QED
    BY <1>5, <1>6, <1>7, <2>1 DEF RunsBacked
<1> QED
  BY <1>4, <1>8, <1>9, <1>10

LEMMA GateStep ==
  ASSUME GateInv, [PermNext]_permVars
  PROVE  GateInv'
<1> USE DEF GateInv, GateTypes, TurnRecord, userVars
<1>1. CASE TurnStarts
  BY <1>1, Ends DEF TurnStarts, policyVars, waitVars
<1>2. CASE TurnCloses
  <2>1. Busy' = {}
    BY <1>2 DEF TurnCloses, Busy
  <2> QED
    BY <1>2, <2>1, Ends DEF TurnCloses, policyVars
<1>3. CASE CancelTurn
  BY <1>3, Ends DEF CancelTurn, policyVars
<1>4. CASE GraceDrops
  <2>1. /\ gate' = [c \in Calls |-> IF c \in Busy THEN "dropped" ELSE gate[c]]
        /\ rx' = [c \in Calls |-> "none"]
        /\ UNCHANGED <<persona, permissions, session_grants, asked, answered, submissions, perm_turn>>
    BY <1>4 DEF GraceDrops, policyVars
  <2>2. gate' \in [Calls -> GateState]
    BY <2>1 DEF GateState
  <2> QED
    BY <2>1, <2>2, Ends
<1>5. CASE (\E p \in Personas : switch_agent(p)) \/ \E server, on : set_mcp_server_enabled(server, on)
  BY <1>5, PolicyStep DEF switch_agent, set_mcp_server_enabled
<1>6. ASSUME NEW c \in Calls,
             Register(c) \/ GiveUp(c) \/ on_outcome(c) \/ emit_not_run_dispatch(c)
      PROVE  GateInv'
  <2>1. PICK state \in {"waiting", "denied", "done", "bare"} :
          /\ gate' = [gate EXCEPT ![c] = state]
          /\ state = "waiting" => gate[c] = "published"
    <3>1. CASE on_outcome(c)
      BY <3>1 DEF on_outcome
    <3> QED
      BY <1>6, <3>1 DEF Register, GiveUp, Refuse, emit_not_run_dispatch
  <2>2. /\ UNCHANGED <<persona, permissions, session_grants, asked, answered, perm_turn, submissions>>
        /\ rx' \in [Calls -> Choice \cup {"none"}]
    BY <1>6 DEF Register, GiveUp, Unsubscribe, on_outcome, emit_not_run_dispatch, policyVars, waitVars
  <2>3. gate' \in [Calls -> GateState]
    BY <2>1 DEF GateState
  <2> QED
    BY <2>1, <2>2, <2>3, Ends
<1>7. CASE (\E c \in Calls, choice \in Choice : UserAnswers(c, choice)) \/ UNCHANGED permVars
  BY <1>7, Ends DEF UserAnswers, permVars, policyVars, waitVars
<1>8. CASE PermissionStage
  <2>1. /\ submissions' \subseteq submissions /\ rx' \in [Calls -> Choice \cup {"none"}]
        /\ UNCHANGED <<persona, permissions, session_grants, asked, gate, answered, perm_turn>>
    <3>1. PICK s \in submissions : submissions' = submissions \ {s} /\ Deliver(s.call, s.choice)
      BY <1>8 DEF PermissionStage
    <3>2. s.call \in Calls /\ s.choice \in Choice
      OBVIOUS
    <3>3. rx' \in [Calls -> Choice \cup {"none"}]
      BY <3>1, <3>2 DEF Deliver
    <3> QED
      BY <1>8, <3>1, <3>3 DEF PermissionStage, policyVars
  <2> QED
    BY <2>1, Ends
<1>9. ASSUME NEW c \in Calls, handle_permission_request(c) \/ \E choice \in Choice : ClientAnswers(c, choice)
      PROVE  GateInv'
  <2>1. /\ rx' \in [Calls -> Choice \cup {"none"}]
        /\ UNCHANGED <<persona, permissions, session_grants, asked, gate, answered, perm_turn, submissions>>
    BY <1>9 DEF handle_permission_request, ClientAnswers, Deliver, Choice, policyVars
  <2> QED
    BY <2>1, Ends
<1>10. ASSUME NEW c \in Calls, resolve(c) PROVE GateInv'
  BY <1>10, ResolveStep
<1>11. ASSUME NEW c \in Calls, Decided(c) PROVE GateInv'
  BY <1>11, DecidedStep
<1> QED
  BY <1>1, <1>2, <1>3, <1>4, <1>5, <1>6, <1>7, <1>8, <1>9, <1>10, <1>11
     DEF PermNext, ResolverStep, FrontEndStep, CancelSeen, DecisionTimesOut

LEMMA GateInvAlways == PermSpec => []GateInv
<1>1. PermInit => GateInv
  BY DEF PermInit, GateInv, GateTypes, TurnRecord, GateState, ClosedIdle, Busy, AskedInForce, GrantGiven, RunsBacked
<1>2. GateInv /\ [PermNext]_permVars => GateInv'
  BY GateStep
<1> QED
  BY <1>1, <1>2, PTL DEF PermSpec

\* No call runs that the policy in force, the user's answer to it or an "allow always"
\* of this persona for its rule and tool does not allow, in whatever order answers,
\* cancels, deadlines, switches of persona and toggles of a server come.
THEOREM AllowsAreBacked == PermSpec => []AllowBacked
<1>1. GateInv => AllowBacked
  BY DEF GateInv, RunsBacked, Backed, AllowBacked
<1> QED
  BY <1>1, GateInvAlways, PTL

-----------------------------------------------------------------------------
(* The display of a call.                                                  *)

Place == {"card", "preview", "result"}

(* One call is in hand at a time; while the turn is not cancelled a preview *)
(* on record is its own, and only a front end that renders previews has one. *)
OneInHand ==
    /\ \A b, c \in Busy : b = c
    /\ \/ perm_turn.open /\ perm_turn.cancelled
       \/ \A k \in previewed : \E c \in Busy \cap HasDisplay : KeyOf[c] = k
    /\ ~renders_tool_previews => previewed = {}

(* In the TUI a call in hand has been shown, and the record says so.       *)
TuiShown(c) ==
    /\ c \in Busy => KeyOf[c] \in previewed
    /\ IF gate[c] = "idle" THEN shown[c] = <<>> ELSE Len(shown[c]) = 1

(* What an ACP client was shown follows from how far the call and its      *)
(* request are.                                                            *)
AcpShown(c) ==
    /\ gate[c] = "idle" \/ c \in unseen => shown[c] = <<>>
    /\ c \in cards \/ rx[c] \in {"AllowOnce", "AllowAlways"} => shown[c] = <<"card">>
    /\ gate[c] = "allowed" =>
           shown[c] = IF asked[c].action = "none" THEN <<>> ELSE <<"card">>
    /\ gate[c] = "done" =>
           shown[c] = IF asked[c].action = "none" THEN <<"result">> ELSE <<"card", "result">>

(* A request is on the bus, on the card or answered, and only the answer   *)
(* of a resolver that still waits is kept.                                 *)
OnePlace(c) ==
    /\ ~(c \in unseen /\ c \in cards)
    /\ c \in unseen \cup cards =>
           rx[c] = "none" /\ gate[c] \in {"published", "waiting", "denied", "dropped"}
    /\ rx[c] # "none" => gate[c] = "waiting"
    /\ gate[c] = "idle" => asked[c].action = "none"

DisplayInv ==
    /\ OneInHand /\ shown \in [Calls -> Seq(Place)]
    /\ renders_tool_previews => \A c \in HasDisplay : TuiShown(c)
    /\ acp => /\ submissions = {} /\ \A c \in Calls : OnePlace(c)
              /\ \A c \in HasDisplay : AcpShown(c)

-----------------------------------------------------------------------------
\* A sequence of one element and what is appended to it.
LEMMA AppendToOne ==
  ASSUME NEW x, NEW y
  PROVE  Append(<<x>>, y) = <<x, y>>
<1> DEFINE S == {x, y}
           both == Append(<<x>>, y)
           pair == <<x, y>>
<1>1. <<x>> \in Seq(S) /\ y \in S
  OBVIOUS
<1>2. /\ both \in Seq(S) /\ Len(both) = Len(<<x>>) + 1
      /\ \A i \in 1..Len(<<x>>) : both[i] = <<x>>[i]
      /\ both[Len(<<x>>) + 1] = y
  <2> HIDE DEF S
  <2> QED
    BY <1>1, AppendProperties
<1>3. Len(<<x>>) = 1 /\ <<x>>[1] = x
  OBVIOUS
<1>4. Len(both) = 2 /\ both[1] = x /\ both[2] = y
  BY <1>2, <1>3
<1>5. pair \in Seq(S) /\ Len(pair) = 2 /\ pair[1] = x /\ pair[2] = y
  OBVIOUS
<1> HIDE DEF S, both, pair
<1>6. Len(both) = Len(pair) /\ \A i \in 1..Len(both) : both[i] = pair[i]
  BY <1>4, <1>5
<1>7. both = pair
  BY <1>2, <1>5, <1>6, SeqEqual
<1> QED
  BY <1>7 DEF both, pair

\* What a display adds to what the user was shown.
LEMMA ShowsAppends ==
  ASSUME shown \in [Calls -> Seq(Place)], NEW c \in Calls, NEW place \in Place, Shows(c, place)
  PROVE  /\ shown' \in [Calls -> Seq(Place)]
         /\ \A b \in Calls : b # c => shown'[b] = shown[b]
         /\ c \in HasDisplay /\ shown[c] = <<>> =>
                shown'[c] = <<place>> /\ Len(shown'[c]) = 1
         /\ c \in HasDisplay /\ shown[c] = <<"card">> => shown'[c] = <<"card", place>>
<1>1. Append(shown[c], place) \in Seq(Place)
  <2>1. shown[c] \in Seq(Place)
    OBVIOUS
  <2> HIDE DEF Place
  <2> QED
    BY <2>1, AppendProperties
<1> HIDE DEF Place
<1> DEFINE longer == Append(shown[c], place)
<1> HIDE DEF longer
<1>2. shown' = [shown EXCEPT ![c] = longer] \/ (c \notin HasDisplay /\ shown' = shown)
  BY DEF Shows, longer
<1>3. longer \in Seq(Place)
  BY <1>1 DEF longer
<1>4. c \in HasDisplay => shown'[c] = longer
  BY <1>2
<1>5. Append(<<>>, place) = <<place>> /\ Append(<<"card">>, place) = <<"card", place>>
  <2>1. Append(<<>>, place) = <<place>>
    OBVIOUS
  <2>2. Append(<<"card">>, place) = <<"card", place>>
    BY AppendToOne
  <2> QED
    BY <2>1, <2>2
<1>6. Len(<<place>>) = 1
  OBVIOUS
<1>7. shown[c] = <<>> => longer = <<place>>
  BY <1>5 DEF longer
<1>8. shown[c] = <<"card">> => longer = <<"card", place>>
  BY <1>5 DEF longer
<1> QED
  BY <1>2, <1>3, <1>4, <1>6, <1>7, <1>8

\* A step that shows nothing, starts nothing and lets requests only move on.
LEMMA DisplayStays ==
  ASSUME GateTypes, DisplayInv, UNCHANGED <<modeVars, shown, asked>>,
         previewed' = previewed \/ (Busy' = {} /\ previewed' = {}),
         Busy' = Busy \/ (Busy' = {} /\ perm_turn'.open /\ perm_turn'.cancelled),
         previewed' = {} \/ (perm_turn.open /\ perm_turn.cancelled
                                => perm_turn'.open /\ perm_turn'.cancelled),
         gate' \in [Calls -> GateState], rx' \in [Calls -> Choice \cup {"none"}],
         \A c \in Calls : \/ gate'[c] = gate[c]
                          \/ c \in Busy /\ gate'[c] = "dropped" /\ rx'[c] = "none"
                          \/ gate[c] = "published" /\ gate'[c] = "waiting",
         acp => /\ unseen' \subseteq unseen /\ cards' \subseteq cards /\ submissions' = submissions
                /\ \A c \in Calls : \/ rx'[c] = rx[c]
                                    \/ rx'[c] = "none"
                                    \/ /\ gate'[c] = "waiting" /\ c \notin unseen' \cup cards'
                                       /\ rx'[c] = "Deny" \/ (c \in cards /\ gate[c] = "waiting")
  PROVE  DisplayInv'
<1> USE PermissionGateAssumption DEF DisplayInv
<1>1. (renders_tool_previews' <=> renders_tool_previews) /\ (acp' <=> acp)
  BY DEF acp, modeVars
<1>2. OneInHand'
  <2>1. \A b, c \in Busy' : b = c
    BY DEF OneInHand
  <2>2. ~renders_tool_previews' => previewed' = {}
    BY <1>1 DEF OneInHand
  <2>3. \/ perm_turn'.open /\ perm_turn'.cancelled
        \/ \A k \in previewed' : \E c \in Busy' \cap HasDisplay : KeyOf[c] = k
    BY DEF OneInHand
  <2> QED
    BY <2>1, <2>2, <2>3 DEF OneInHand
<1>3. ASSUME renders_tool_previews, NEW c \in HasDisplay PROVE TuiShown(c)'
  <2>1. c \in Calls /\ TuiShown(c)
    BY <1>3
  <2>2. c \in Busy' => KeyOf[c] \in previewed'
    BY <2>1 DEF TuiShown
  <2>3. gate'[c] = "idle" <=> gate[c] = "idle"
    BY <2>1 DEF Busy
  <2> QED
    BY <2>1, <2>2, <2>3 DEF TuiShown
<1>4. ASSUME acp, NEW c \in Calls PROVE OnePlace(c)'
  <2>1. OnePlace(c)
    BY <1>4
  <2>2. gate'[c] \in {"waiting", "dropped"} \/ gate'[c] = gate[c]
    OBVIOUS
  <2>3. c \in unseen' \cup cards' => c \in unseen \cup cards /\ (rx'[c] = rx[c] \/ rx'[c] = "none")
    BY <1>4
  <2>4. rx'[c] # "none" => gate'[c] = "waiting"
    BY <1>4, <2>1 DEF OnePlace
  <2>5. gate'[c] = "idle" => asked'[c].action = "none"
    BY <2>1, <2>2 DEF OnePlace
  <2>6. ~(c \in unseen' /\ c \in cards')
    BY <1>4, <2>1 DEF OnePlace
  <2>7. c \in unseen' \cup cards' => /\ rx'[c] = "none"
                                     /\ gate'[c] \in {"published", "waiting", "denied", "dropped"}
    BY <2>1, <2>2, <2>3 DEF OnePlace
  <2> QED
    BY <2>4, <2>5, <2>6, <2>7 DEF OnePlace
<1>5. ASSUME acp, NEW c \in HasDisplay PROVE AcpShown(c)'
  <2>1. c \in Calls /\ AcpShown(c)
    BY <1>5
  <2>2. c \in unseen' \/ gate'[c] = "idle" => shown'[c] = <<>>
    BY <1>5, <2>1 DEF AcpShown
  <2>3. c \in cards' \/ rx'[c] \in {"AllowOnce", "AllowAlways"} => shown'[c] = <<"card">>
    BY <1>5, <2>1 DEF AcpShown
  <2>4. gate'[c] \in {"allowed", "done"} => gate'[c] = gate[c]
    BY <2>1
  <2> QED
    BY <2>1, <2>2, <2>3, <2>4 DEF AcpShown
<1>6. acp => submissions' = {}
  OBVIOUS
<1> QED
  BY <1>1, <1>2, <1>3, <1>4, <1>5, <1>6

\* A step of the one call in hand: what it owes is owed for that call alone.
LEMMA DisplayOfCall ==
  ASSUME GateTypes, DisplayInv, NEW c \in Calls, UNCHANGED modeVars, c \in Busy \/ Busy = {},
         NEW state \in GateState, state # "idle", gate' = [gate EXCEPT ![c] = state],
         OneInHand', shown' \in [Calls -> Seq(Place)],
         \A b \in Calls : b # c =>
             shown'[b] = shown[b] /\ asked'[b] = asked[b] /\ rx'[b] = rx[b],
         unseen' \ {c} = unseen \ {c}, cards' \ {c} = cards \ {c},
         renders_tool_previews /\ c \in HasDisplay =>
             Len(shown'[c]) = 1 /\ (c \in Busy' => KeyOf[c] \in previewed'),
         acp => submissions' = submissions /\ OnePlace(c)',
         acp /\ c \in HasDisplay => AcpShown(c)'
  PROVE  DisplayInv'
<1> USE PermissionGateAssumption DEF DisplayInv
<1>1. (renders_tool_previews' <=> renders_tool_previews) /\ (acp' <=> acp)
  BY DEF acp, modeVars
<1>2. gate'[c] = state /\ \A b \in Calls : b # c => gate'[b] = gate[b]
  BY DEF GateTypes
<1>3. Busy' \subseteq {c}
  BY <1>2 DEF Busy, OneInHand
<1>4. ASSUME renders_tool_previews, NEW b \in HasDisplay PROVE TuiShown(b)'
  <2>1. CASE b = c
    BY <1>2, <1>4, <2>1 DEF TuiShown
  <2>2. CASE b # c
    <3>1. b \in Calls /\ TuiShown(b)
      BY <1>4
    <3> QED
      BY <1>2, <1>3, <2>2, <3>1 DEF TuiShown
  <2> QED
    BY <2>1, <2>2
<1>5. ASSUME acp, NEW b \in Calls PROVE OnePlace(b)'
  <2>1. CASE b # c
    <3>1. (b \in unseen' <=> b \in unseen) /\ (b \in cards' <=> b \in cards)
      BY <2>1
    <3> QED
      BY <1>2, <1>5, <2>1, <3>1 DEF OnePlace
  <2> QED
    BY <1>5, <2>1
<1>6. ASSUME acp, NEW b \in HasDisplay PROVE AcpShown(b)'
  <2>1. CASE b # c
    <3>1. b \in Calls /\ (b \in unseen' <=> b \in unseen) /\ (b \in cards' <=> b \in cards)
      BY <2>1
    <3> QED
      BY <1>2, <1>6, <2>1, <3>1 DEF AcpShown
  <2> QED
    BY <1>6, <2>1
<1> QED
  BY <1>1, <1>4, <1>5, <1>6

\* The pair of a call that never was in hand: its preview is the only display.
LEMMA DisplayNotRun ==
  ASSUME GateTypes, DisplayInv, NEW c \in Calls, gate[c] = "idle", Busy = {},
         UNCHANGED <<modeVars, perm_turn, asked, rx, unseen, cards, submissions>>,
         gate' = [gate EXCEPT ![c] = "denied"], not_run_preview(c),
         previewed' = previewed
  PROVE  DisplayInv'
<1>1. gate'[c] = "denied" /\ \A b \in Calls : b # c => gate'[b] = gate[b]
  BY DEF GateTypes
<1>2. Busy' = {}
  BY <1>1 DEF Busy
<1>3. OneInHand'
  BY <1>2 DEF DisplayInv, OneInHand, modeVars
<1>4. c \in HasDisplay /\ (renders_tool_previews \/ acp) => shown[c] = <<>>
  BY DEF DisplayInv, TuiShown, AcpShown
<1>5. /\ shown' \in [Calls -> Seq(Place)]
      /\ \A b \in Calls : b # c => shown'[b] = shown[b]
      /\ ~renders_tool_previews => shown' = shown
      /\ renders_tool_previews /\ c \in HasDisplay => Len(shown'[c]) = 1
  <2>1. CASE renders_tool_previews
    <3>1. Shows(c, "preview") /\ "preview" \in Place /\ shown \in [Calls -> Seq(Place)]
      BY <2>1 DEF not_run_preview, DisplayInv, Place
    <3> QED
      BY <1>4, <2>1, <3>1, ShowsAppends
  <2>2. CASE ~renders_tool_previews
    BY <2>2 DEF not_run_preview, DisplayInv
  <2> QED
    BY <2>1, <2>2
<1>6. acp => OnePlace(c)'
  BY <1>1 DEF DisplayInv, OnePlace
<1>7. acp /\ c \in HasDisplay => AcpShown(c)'
  <2>1. ASSUME acp, c \in HasDisplay PROVE AcpShown(c)'
    <3>1. OnePlace(c) /\ AcpShown(c) /\ shown'[c] = shown[c]
      BY <1>5, <2>1 DEF DisplayInv, acp
    <3> QED
      BY <1>1, <3>1 DEF OnePlace, AcpShown
  <2> QED
    BY <2>1
<1> QED
  BY <1>1, <1>2, <1>3, <1>5, <1>6, <1>7, DisplayOfCall DEF GateState

\* The resolver finds no preview on record: the one it shows is that of the call.
LEMMA DisplayResolve ==
  ASSUME GateInv, DisplayInv, NEW c \in Calls, resolve(c)
  PROVE  DisplayInv'
<1> USE DEF GateInv, policyVars
<1>1. /\ gate[c] = "idle" /\ Busy = {} /\ ~perm_turn.cancelled
      /\ UNCHANGED <<modeVars, perm_turn, rx, submissions>>
  BY DEF resolve, Dispatched, modeVars
<1>2. previewed = {}
  BY <1>1 DEF DisplayInv, OneInHand
<1>3. PICK d0 \in evaluate(permissions, c) :
        \/ gate' = [gate EXCEPT ![c] = "allowed"] /\ Preview(c, "preview")
           /\ UNCHANGED <<asked, cards, unseen>>
        \/ Refuse(c) /\ UNCHANGED <<asked, cards, unseen>>
        \/ /\ d0.action = "ask" /\ interactive
           /\ gate' = [gate EXCEPT ![c] = "published"]
           /\ asked' = [asked EXCEPT ![c] = d0] /\ Preview(c, "card")
           /\ IF acp THEN unseen' = unseen \cup {c} /\ UNCHANGED cards
              ELSE cards' = cards \cup {c} /\ UNCHANGED unseen
  BY DEF resolve, apply_session_grant_override
<1>4. c \in HasDisplay => /\ renders_tool_previews => shown[c] = <<>>
                          /\ acp => shown[c] = <<>> /\ asked[c].action = "none"
  BY <1>1 DEF DisplayInv, TuiShown, AcpShown, OnePlace
<1>5. acp => ~renders_tool_previews
  BY DEF acp
<1>6. ASSUME NEW place \in Place, Preview(c, place)
      PROVE  /\ shown' \in [Calls -> Seq(Place)]
             /\ \A b \in Calls : b # c => shown'[b] = shown[b]
             /\ previewed' = IF renders_tool_previews /\ c \in HasDisplay THEN {KeyOf[c]} ELSE {}
             /\ ~renders_tool_previews => shown' = shown
             /\ renders_tool_previews /\ c \in HasDisplay => Len(shown'[c]) = 1
  <2>1. CASE renders_tool_previews
    <3>1. /\ Shows(c, place) /\ previewed' = IF c \in HasDisplay THEN {KeyOf[c]} ELSE {}
          /\ shown \in [Calls -> Seq(Place)]
      BY <1>2, <1>6, <2>1 DEF Preview, DisplayInv
    <3> QED
      BY <1>4, <2>1, <3>1, ShowsAppends
  <2>2. CASE ~renders_tool_previews
    BY <1>2, <1>6, <2>2 DEF Preview, displayVars, DisplayInv
  <2> QED
    BY <2>1, <2>2
<1>7. CASE gate' = [gate EXCEPT ![c] = "allowed"] /\ Preview(c, "preview")
           /\ UNCHANGED <<asked, cards, unseen>>
  <2>1. gate'[c] = "allowed" /\ \A b \in Calls : b # c => gate'[b] = gate[b]
    BY <1>7 DEF GateTypes
  <2>2. Busy' = {c}
    BY <1>1, <2>1 DEF Busy
  <2>3. OneInHand'
    BY <1>1, <1>6, <1>7, <2>2 DEF OneInHand, Place, modeVars
  <2>4. acp => OnePlace(c)'
    BY <1>1, <1>7, <2>1 DEF DisplayInv, OnePlace
  <2>5. acp /\ c \in HasDisplay => AcpShown(c)'
    BY <1>1, <1>4, <1>5, <1>6, <1>7, <2>1 DEF DisplayInv, OnePlace, AcpShown, Place
  <2> QED
    BY <1>1, <1>6, <1>7, <2>2, <2>3, <2>4, <2>5, DisplayOfCall DEF GateState, Place
<1>8. CASE Refuse(c) /\ UNCHANGED <<asked, cards, unseen>>
  <2>1. gate' = [gate EXCEPT ![c] = "denied"] /\ previewed' = previewed /\ not_run_preview(c)
    BY <1>2, <1>8 DEF Refuse, take_previewed
  <2> QED
    BY <1>1, <1>8, <2>1, DisplayNotRun
<1>9. CASE /\ d0.action = "ask" /\ interactive
           /\ gate' = [gate EXCEPT ![c] = "published"]
           /\ asked' = [asked EXCEPT ![c] = d0] /\ Preview(c, "card")
           /\ IF acp THEN unseen' = unseen \cup {c} /\ UNCHANGED cards
              ELSE cards' = cards \cup {c} /\ UNCHANGED unseen
  <2>1. gate'[c] = "published" /\ \A b \in Calls : b # c => gate'[b] = gate[b]
    BY <1>9 DEF GateTypes
  <2>2. Busy' = {c}
    BY <1>1, <2>1 DEF Busy
  <2>3. OneInHand'
    BY <1>1, <1>6, <1>9, <2>2 DEF OneInHand, Place, modeVars
  <2>4. acp => OnePlace(c)'
    BY <1>1, <1>9, <2>1 DEF DisplayInv, OnePlace
  <2>5. acp /\ c \in HasDisplay => AcpShown(c)'
    BY <1>1, <1>4, <1>5, <1>6, <1>9, <2>1 DEF DisplayInv, OnePlace, AcpShown, Place
  <2>6. \A b \in Calls : b # c => asked'[b] = asked[b]
    BY <1>9 DEF GateTypes
  <2>7. unseen' \ {c} = unseen \ {c} /\ cards' \ {c} = cards \ {c}
    BY <1>9
  <2> QED
    BY <1>1, <1>6, <1>9, <2>2, <2>3, <2>4, <2>5, <2>6, <2>7, DisplayOfCall DEF GateState, Place
<1> QED
  BY <1>3, <1>7, <1>8, <1>9

\* A call in hand that ends takes its preview off the record.
LEMMA HandEmptied ==
  ASSUME OneInHand, NEW c \in Busy, Busy' = {}, take_previewed(c), UNCHANGED <<modeVars, perm_turn>>
  PROVE  OneInHand'
<1>1. Busy = {c}
  BY DEF OneInHand
<1> QED
  BY <1>1 DEF OneInHand, take_previewed, modeVars

\* A request that is refused was shown already in the TUI; the client sees nothing more.
LEMMA DisplayRefused ==
  ASSUME GateTypes, DisplayInv, NEW c \in Calls, gate[c] = "waiting", Refuse(c), Unsubscribe(c),
         UNCHANGED <<modeVars, perm_turn, asked, unseen, cards, submissions>>
  PROVE  DisplayInv'
<1>1. /\ gate' = [gate EXCEPT ![c] = "denied"] /\ gate'[c] = "denied"
      /\ \A b \in Calls : b # c => gate'[b] = gate[b]
      /\ rx'[c] = "none" /\ \A b \in Calls : b # c => rx'[b] = rx[b]
  BY DEF GateTypes, Refuse, Unsubscribe
<1>2. c \in Busy
  BY DEF Busy
<1>3. Busy' = {}
  BY <1>1, <1>2 DEF Busy, DisplayInv, OneInHand
<1>4. OneInHand'
  BY <1>2, <1>3, HandEmptied DEF DisplayInv, Refuse
<1>5. c \in HasDisplay \/ ~renders_tool_previews => shown' = shown
  BY <1>2 DEF DisplayInv, TuiShown, Refuse, not_run_preview
<1>6. shown' = shown
  BY <1>5 DEF Refuse, not_run_preview, Shows
<1>7. renders_tool_previews /\ c \in HasDisplay => Len(shown'[c]) = 1
  BY <1>6 DEF DisplayInv, TuiShown
<1>8. acp => OnePlace(c)'
  BY <1>1 DEF DisplayInv, OnePlace
<1>9. acp /\ c \in HasDisplay => AcpShown(c)'
  <2>1. ASSUME acp, c \in HasDisplay PROVE AcpShown(c)'
    <3>1. AcpShown(c)
      BY <2>1 DEF DisplayInv
    <3> QED
      BY <1>1, <1>6, <3>1 DEF AcpShown
  <2> QED
    BY <2>1
<1> QED
  BY <1>1, <1>2, <1>3, <1>4, <1>6, <1>7, <1>8, <1>9, DisplayOfCall DEF GateState, DisplayInv

\* An answer that allows reached the client's card first.
LEMMA DisplayAllowed ==
  ASSUME GateInv, DisplayInv, NEW c \in Calls, Decided(c), rx[c] # "Deny"
  PROVE  DisplayInv'
<1> USE DEF GateInv
<1>1. /\ gate' = [gate EXCEPT ![c] = "allowed"] /\ gate[c] = "waiting" /\ rx[c] # "none"
      /\ Unsubscribe(c)
      /\ UNCHANGED <<modeVars, perm_turn, asked, previewed, shown, unseen, cards, submissions>>
  BY DEF Decided, displayVars, userVars
<1>2. /\ gate'[c] = "allowed" /\ \A b \in Calls : b # c => gate'[b] = gate[b]
      /\ rx'[c] = "none" /\ \A b \in Calls : b # c => rx'[b] = rx[b]
  BY <1>1 DEF GateTypes, Unsubscribe
<1>3. c \in Busy /\ Busy' = Busy
  BY <1>1, <1>2 DEF Busy
<1>4. OneInHand'
  BY <1>1, <1>3 DEF DisplayInv, OneInHand, modeVars
<1>5. renders_tool_previews /\ c \in HasDisplay =>
          Len(shown'[c]) = 1 /\ KeyOf[c] \in previewed'
  BY <1>1, <1>3 DEF DisplayInv, TuiShown
<1>6. acp => OnePlace(c)'
  BY <1>1, <1>2 DEF DisplayInv, OnePlace
<1>7. acp /\ c \in HasDisplay => AcpShown(c)'
  <2>1. ASSUME acp, c \in HasDisplay PROVE AcpShown(c)'
    <3>1. AcpShown(c) /\ OnePlace(c)
      BY <2>1 DEF DisplayInv
    <3>2. rx[c] \in {"AllowOnce", "AllowAlways"}
      BY <1>1 DEF GateTypes, Choice
    <3>3. asked[c].action = "ask"
      BY <1>1 DEF AskedInForce
    <3>4. c \notin unseen \cup cards
      BY <1>1, <3>1 DEF OnePlace
    <3> QED
      BY <1>1, <1>2, <3>1, <3>2, <3>3, <3>4 DEF AcpShown
  <2> QED
    BY <2>1
<1> QED
  BY <1>1, <1>2, <1>3, <1>4, <1>5, <1>6, <1>7, DisplayOfCall DEF GateState, DisplayInv

\* The result brings the display to who has not seen it, and to an ACP client always.
LEMMA DisplayResult ==
  ASSUME GateInv, DisplayInv, NEW c \in Calls, on_outcome(c)
  PROVE  DisplayInv'
<1> USE DEF GateInv
<1>1. /\ gate[c] = "allowed" /\ take_previewed(c)
      /\ UNCHANGED <<modeVars, perm_turn, asked, rx, unseen, cards, submissions>>
  BY DEF on_outcome, policyVars, waitVars, userVars
<1>2. PICK carries \in {FALSE} \cup {(c \in HasDisplay)} :
        /\ gate' = [gate EXCEPT ![c] = IF carries THEN "done" ELSE "bare"]
        /\ \/ carries /\ KeyOf[c] \notin previewed /\ Shows(c, "result")
           \/ (~carries \/ KeyOf[c] \in previewed \/ ~interactive) /\ UNCHANGED shown
  BY DEF on_outcome
<1> DEFINE state == IF carries THEN "done" ELSE "bare"
<1>3. gate'[c] = state /\ \A b \in Calls : b # c => gate'[b] = gate[b]
  BY <1>2 DEF GateTypes
<1>4. state \in {"done", "bare"}
  OBVIOUS
<1> HIDE DEF state
<1>5. c \in Busy
  BY <1>1 DEF Busy
<1>6. Busy' = {}
  BY <1>3, <1>4, <1>5 DEF Busy, DisplayInv, OneInHand
<1>7. OneInHand'
  BY <1>1, <1>5, <1>6, HandEmptied DEF DisplayInv
<1>8. "result" \in Place /\ shown \in [Calls -> Seq(Place)]
  BY DEF DisplayInv, Place
<1>9. /\ shown' \in [Calls -> Seq(Place)]
      /\ \A b \in Calls : b # c => shown'[b] = shown[b]
  BY <1>2, <1>8, ShowsAppends
<1>10. renders_tool_previews /\ c \in HasDisplay => Len(shown'[c]) = 1
  BY <1>1, <1>2, <1>5 DEF DisplayInv, TuiShown
<1>11. acp => OnePlace(c)'
  BY <1>1, <1>3, <1>4 DEF DisplayInv, OnePlace
<1>12. acp /\ c \in HasDisplay => AcpShown(c)'
  <2>1. ASSUME acp, c \in HasDisplay PROVE AcpShown(c)'
    <3>1. AcpShown(c) /\ OnePlace(c)
      BY <2>1 DEF DisplayInv
    <3>2. shown[c] = IF asked[c].action = "none" THEN <<>> ELSE <<"card">>
      BY <1>1, <3>1 DEF AcpShown
    <3>3. c \notin unseen \cup cards /\ rx[c] = "none"
      BY <1>1, <3>1 DEF OnePlace
    <3>4. KeyOf[c] \notin previewed /\ interactive
      BY <2>1 DEF DisplayInv, OneInHand, acp
    <3>5. state = "done" => Shows(c, "result")
      BY <1>2, <3>4 DEF state
    <3>6. state = "done" =>
            shown'[c] = IF asked[c].action = "none" THEN <<"result">> ELSE <<"card", "result">>
      BY <1>8, <2>1, <3>2, <3>5, ShowsAppends
    <3> QED
      BY <1>1, <1>3, <1>4, <3>3, <3>6 DEF AcpShown
  <2> QED
    BY <2>1
<1>13. state \in GateState /\ state # "idle" /\ gate' = [gate EXCEPT ![c] = state]
  BY <1>2, <1>4 DEF GateState, state
<1> QED
  BY <1>1, <1>5, <1>6, <1>7, <1>9, <1>10, <1>11, <1>12, <1>13, DisplayOfCall

\* The client's card carries the display of a request the bridge has just taken.
LEMMA DisplayAsked ==
  ASSUME GateTypes, DisplayInv, NEW c \in Calls, handle_permission_request(c),
         KeyOf[c] \notin deny_set, cards' = {c}, Shows(c, "card"), UNCHANGED <<pending, rx>>
  PROVE  DisplayInv'
<1> USE PermissionGateAssumption DEF DisplayInv
<1>1. /\ acp /\ ~renders_tool_previews /\ cards = {} /\ c \in unseen /\ unseen' = unseen \ {c}
      /\ gate[c] # "published"
      /\ UNCHANGED <<modeVars, perm_turn, gate, asked, submissions, previewed>>
  BY DEF handle_permission_request, Polled, ClientAsked, acp, policyVars
<1>2. (renders_tool_previews' <=> renders_tool_previews) /\ (acp' <=> acp)
  BY <1>1 DEF acp, modeVars
<1>3. "card" \in Place
  BY DEF Place
<1>4. /\ shown' \in [Calls -> Seq(Place)]
      /\ \A b \in Calls : b # c => shown'[b] = shown[b]
      /\ c \in HasDisplay /\ shown[c] = <<>> => shown'[c] = <<"card">>
  BY <1>3, ShowsAppends
<1>5. OneInHand'
  BY <1>1, <1>2 DEF OneInHand, Busy
<1>6. ASSUME NEW b \in Calls PROVE OnePlace(b)'
  <2>1. OnePlace(b) /\ OnePlace(c)
    BY <1>1
  <2> QED
    BY <1>1, <2>1 DEF OnePlace
<1>7. ASSUME NEW b \in HasDisplay PROVE AcpShown(b)'
  <2>1. b \in Calls /\ AcpShown(b) /\ OnePlace(b)
    BY <1>1
  <2>2. CASE b = c
    <3>1. shown'[c] = <<"card">> /\ gate[c] \in {"waiting", "denied", "dropped"} /\ rx[c] = "none"
      BY <1>1, <1>4, <2>1, <2>2 DEF AcpShown, OnePlace
    <3> QED
      BY <1>1, <2>2, <3>1 DEF AcpShown
  <2>3. CASE b # c
    BY <1>1, <1>4, <2>1, <2>3 DEF AcpShown
  <2> QED
    BY <2>2, <2>3
<1> QED
  BY <1>1, <1>2, <1>4, <1>5, <1>6, <1>7

LEMMA DisplayStep ==
  ASSUME GateInv, GateInv', DisplayInv, [PermNext]_permVars
  PROVE  DisplayInv'
<1> USE DEF GateInv, policyVars, waitVars, userVars, displayVars
<1>1. /\ GateTypes /\ gate' \in [Calls -> GateState] /\ rx' \in [Calls -> Choice \cup {"none"}]
      /\ OneInHand
  BY DEF GateTypes, DisplayInv
<1>2. CASE TurnStarts
  <2>1. /\ Busy = {} /\ previewed = {}
        /\ UNCHANGED <<gate, previewed, shown, asked, rx, unseen, cards, submissions, modeVars>>
    BY <1>1, <1>2 DEF TurnStarts, ClosedIdle, OneInHand
  <2>2. Busy' = Busy
    BY <2>1 DEF Busy
  <2> QED
    BY <1>1, <2>1, <2>2, DisplayStays
<1>3. CASE TurnCloses
  <2>1. /\ Busy = {} /\ previewed' = {} /\ unseen' = {}
        /\ UNCHANGED <<gate, shown, asked, rx, cards, submissions, modeVars>>
    BY <1>3 DEF TurnCloses
  <2>2. Busy' = Busy
    BY <2>1 DEF Busy
  <2> QED
    BY <1>1, <2>1, <2>2, DisplayStays
<1>4. CASE GraceDrops
  <2>1. /\ UNCHANGED <<previewed, shown, asked, unseen, cards, submissions, modeVars, perm_turn>>
        /\ perm_turn.open /\ perm_turn.cancelled
        /\ \A c \in Calls : gate'[c] = (IF c \in Busy THEN "dropped" ELSE gate[c]) /\ rx'[c] = "none"
    BY <1>4 DEF GraceDrops
  <2>2. Busy' = {}
    BY <2>1 DEF Busy
  <2> QED
    BY <1>1, <2>1, <2>2, DisplayStays
<1>5. CASE \/ CancelTurn \/ UNCHANGED permVars
           \/ \E p \in Personas : switch_agent(p)
           \/ \E server, on : set_mcp_server_enabled(server, on)
  <2>1. /\ UNCHANGED <<gate, previewed, shown, asked, rx, unseen, cards, submissions, modeVars>>
        /\ UNCHANGED perm_turn \/ (perm_turn'.open = perm_turn.open /\ perm_turn'.cancelled)
    BY <1>5 DEF CancelTurn, permVars, modeVars, switch_agent, set_mcp_server_enabled, GateTypes, TurnRecord
  <2>2. Busy' = Busy
    BY <2>1 DEF Busy
  <2> QED
    BY <1>1, <2>1, <2>2, DisplayStays
<1>6. ASSUME NEW c \in Calls, Register(c) PROVE DisplayInv'
  <2>1. /\ UNCHANGED <<previewed, shown, asked, rx, unseen, cards, submissions, modeVars, perm_turn>>
        /\ gate[c] = "published" /\ gate'[c] = "waiting"
        /\ \A b \in Calls : b # c => gate'[b] = gate[b]
    BY <1>6 DEF Register, GateTypes
  <2>2. Busy' = Busy
    BY <2>1 DEF Busy
  <2> QED
    BY <1>1, <2>1, <2>2, DisplayStays
<1>7. ASSUME ~acp, PermissionStage \/ \E c \in Calls, choice \in Choice : UserAnswers(c, choice)
      PROVE  DisplayInv'
  <2>1. UNCHANGED <<gate, previewed, shown, asked, perm_turn, modeVars>>
    BY <1>7 DEF PermissionStage, UserAnswers
  <2>2. Busy' = Busy
    BY <2>1 DEF Busy
  <2> QED
    BY <1>1, <1>7, <2>1, <2>2, DisplayStays
<1>8. ASSUME acp, PermissionStage \/ \E c \in Calls, choice \in Choice : UserAnswers(c, choice)
      PROVE  FALSE
  BY <1>8 DEF PermissionStage, UserAnswers, DisplayInv
<1>9. ASSUME NEW c \in Calls, NEW choice \in Choice, ClientAnswers(c, choice) PROVE DisplayInv'
  <2>1. /\ acp /\ c \in cards /\ cards' = {} /\ Deliver(c, choice)
        /\ UNCHANGED <<gate, previewed, shown, asked, unseen, perm_turn, submissions, modeVars>>
    BY <1>9 DEF ClientAnswers
  <2>2. Busy' = Busy
    BY <2>1 DEF Busy
  <2>3. OnePlace(c)
    BY <2>1 DEF DisplayInv
  <2>4. \A b \in Calls : \/ rx'[b] = rx[b]
                         \/ b = c /\ gate'[b] = "waiting" /\ gate[b] = "waiting"
    BY <1>1, <2>1 DEF Deliver, GateTypes
  <2>5. c \notin unseen' \cup cards'
    BY <2>1, <2>3 DEF OnePlace
  <2> QED
    BY <1>1, <2>1, <2>2, <2>4, <2>5, DisplayStays
<1>10. ASSUME NEW c \in Calls, handle_permission_request(c) PROVE DisplayInv'
  <2>1. /\ acp /\ cards = {} /\ c \in unseen /\ unseen' = unseen \ {c}
        /\ UNCHANGED <<gate, previewed, asked, perm_turn, submissions, modeVars>>
    BY <1>10 DEF handle_permission_request, Polled, ClientAsked
  <2>2. CASE Deliver(c, "Deny") /\ UNCHANGED <<cards, shown>>
    <3>1. Busy' = Busy
      BY <2>1 DEF Busy
    <3>2. \A b \in Calls : \/ rx'[b] = rx[b]
                           \/ b = c /\ gate'[b] = "waiting" /\ rx'[b] = "Deny"
      BY <1>1, <2>1, <2>2 DEF Deliver, GateTypes
    <3>3. c \notin unseen' \cup cards'
      BY <2>1, <2>2
    <3> QED
      BY <1>1, <2>1, <2>2, <3>1, <3>2, <3>3, DisplayStays
  <2>3. CASE KeyOf[c] \notin deny_set /\ cards' = {c} /\ Shows(c, "card") /\ UNCHANGED <<pending, rx>>
    BY <1>1, <1>10, <2>3, DisplayAsked
  <2> QED
    BY <1>10, <2>2, <2>3 DEF handle_permission_request
<1>11. ASSUME NEW c \in Calls, emit_not_run_dispatch(c) PROVE DisplayInv'
  BY <1>1, <1>11, DisplayNotRun DEF emit_not_run_dispatch, Dispatched
<1>12. ASSUME NEW c \in Calls, Decided(c) PROVE DisplayInv'
  <2>1. CASE rx[c] = "Deny"
    BY <1>1, <1>12, <2>1, DisplayRefused DEF Decided
  <2>2. CASE rx[c] # "Deny"
    BY <1>12, <2>2, DisplayAllowed
  <2> QED
    BY <2>1, <2>2
<1>13. ASSUME NEW c \in Calls, GiveUp(c) PROVE DisplayInv'
  BY <1>1, <1>13, DisplayRefused DEF GiveUp
<1>14. ASSUME NEW c \in Calls, resolve(c) \/ on_outcome(c) PROVE DisplayInv'
  BY <1>14, DisplayResolve, DisplayResult
<1> QED
  BY <1>2, <1>3, <1>4, <1>5, <1>6, <1>7, <1>8, <1>9, <1>10, <1>11, <1>12, <1>13, <1>14
     DEF PermNext, ResolverStep, FrontEndStep, CancelSeen, DecisionTimesOut

LEMMA DisplayInvAlways == PermSpec => []DisplayInv
<1>1. PermInit => DisplayInv
  <2>1. ASSUME PermInit PROVE DisplayInv
    <3>1. Busy = {}
      BY <2>1 DEF PermInit, Busy
    <3>2. OneInHand
      BY <2>1, <3>1 DEF PermInit, OneInHand
    <3>3. /\ shown \in [Calls -> Seq(Place)]
          /\ \A c \in HasDisplay : TuiShown(c)
      BY <2>1, <3>1, PermissionGateAssumption DEF PermInit, TuiShown
    <3>4. submissions = {} /\ \A c \in Calls : OnePlace(c)
      BY <2>1 DEF PermInit, OnePlace, NoRule
    <3>5. \A c \in HasDisplay : AcpShown(c)
      BY <2>1, PermissionGateAssumption DEF PermInit, AcpShown
    <3> QED
      BY <3>2, <3>3, <3>4, <3>5 DEF DisplayInv
  <2> QED
    BY <2>1
<1>2. GateInv /\ GateInv' /\ DisplayInv /\ [PermNext]_permVars => DisplayInv'
  BY DisplayStep
<1> QED
  BY <1>1, <1>2, GateInvAlways, PTL DEF PermSpec

\* The TUI shows the display of every call that is not idle exactly once, by the card,
\* the preview of an allowed call or that of the not-run pair; an ACP client gets it with
\* every result that carries one, once, after the card if it was asked: also when the same
\* tool was called with the same arguments before, when answers and cards come after the
\* request is over, and when turns are cancelled with a call in hand.
THEOREM DisplaysShownOnce == PermSpec => []DisplayOnce
<1>1. DisplayInv => DisplayOnce
  <2>1. ASSUME DisplayInv, NEW c \in HasDisplay, renders_tool_previews
        PROVE  Len(shown[c]) = IF gate[c] = "idle" THEN 0 ELSE 1
    <3>1. Len(<<>>) = 0
      OBVIOUS
    <3> QED
      BY <2>1, <3>1 DEF DisplayInv, TuiShown
  <2> QED
    BY <2>1 DEF DisplayInv, AcpShown, DisplayOnce
<1> QED
  BY <1>1, DisplayInvAlways, PTL

LEMMA TypesStep ==
  ASSUME GateInv, GateInv', DisplayInv', PermTypeOK, [PermNext]_permVars
  PROVE  PermTypeOK'
<1> USE DEF GateInv, policyVars, waitVars, userVars
<1>1. /\ persona' \in Personas
      /\ gate' \in [Calls -> {"idle", "published", "waiting", "allowed", "denied", "done", "bare",
                              "dropped"}]
      /\ rx' \in [Calls -> Choice \cup {"none"}]
      /\ shown' \in [Calls -> Seq({"card", "preview", "result"})]
  BY DEF GateTypes, GateState, DisplayInv, Place
<1>2. pending' \cup cancel_rx' \cup cards' \cup unseen' \subseteq Calls
  <2>1. CASE /\ pending' \subseteq pending /\ cancel_rx' \subseteq cancel_rx
             /\ cards' \subseteq cards /\ unseen' \subseteq unseen
    BY <2>1 DEF PermTypeOK
  <2>2. CASE CancelTurn
    BY <2>2 DEF CancelTurn, PermTypeOK
  <2>3. ASSUME NEW c \in Calls, resolve(c) \/ Register(c) \/ handle_permission_request(c)
        PROVE  pending' \cup cancel_rx' \cup cards' \cup unseen' \subseteq Calls
    BY <2>3 DEF resolve, Register, handle_permission_request, Deliver, PermTypeOK
  <2>4. \/ /\ pending' \subseteq pending /\ cancel_rx' \subseteq cancel_rx
           /\ cards' \subseteq cards /\ unseen' \subseteq unseen
        \/ CancelTurn
        \/ \E c \in Calls : resolve(c) \/ Register(c) \/ handle_permission_request(c)
    BY DEF PermNext, permVars, ResolverStep, FrontEndStep, CancelSeen, DecisionTimesOut, GiveUp,
           Unsubscribe, TurnStarts, TurnCloses, GraceDrops, switch_agent, set_mcp_server_enabled,
           emit_not_run_dispatch, Decided, on_outcome, PermissionStage, UserAnswers, ClientAnswers,
           Deliver
  <2> QED
    BY <2>1, <2>2, <2>3, <2>4
<1>3. perm_turn'.n \in 0..MaxTurns
  <2>1. \/ UNCHANGED perm_turn
        \/ perm_turn' = [perm_turn EXCEPT !.cancelled = TRUE]
        \/ perm_turn' = [perm_turn EXCEPT !.open = FALSE]
        \/ TurnStarts
    BY DEF PermNext, permVars, ResolverStep, FrontEndStep, CancelSeen, DecisionTimesOut, GiveUp,
           TurnCloses, CancelTurn, GraceDrops, switch_agent, set_mcp_server_enabled, Register,
           Decided, on_outcome, resolve, emit_not_run_dispatch, UserAnswers, ClientAnswers,
           handle_permission_request, PermissionStage
  <2>2. CASE TurnStarts
    BY <2>2, PermissionGateAssumption DEF TurnStarts, PermTypeOK
  <2> QED
    BY <2>1, <2>2 DEF PermTypeOK, GateTypes, TurnRecord
<1>4. \A g \in session_grants' : g.tool \in {ToolOf[c] : c \in Calls}
  <2>1. \/ session_grants' \subseteq session_grants
        \/ \E c \in Calls : Decided(c)
    BY DEF PermNext, permVars, ResolverStep, FrontEndStep, CancelSeen, DecisionTimesOut, GiveUp,
           TurnStarts, TurnCloses, CancelTurn, GraceDrops, switch_agent, clear_session_grants,
           set_mcp_server_enabled, Register, on_outcome, resolve, emit_not_run_dispatch,
           UserAnswers, ClientAnswers, handle_permission_request, PermissionStage
  <2>2. ASSUME NEW c \in Calls, Decided(c)
        PROVE  \A g \in session_grants' : g.tool \in {ToolOf[b] : b \in Calls}
    <3>1. session_grants' \subseteq session_grants \cup {[rule |-> asked[c].rule, tool |-> ToolOf[c]]}
      BY <2>2 DEF Decided, apply_ask_choice
    <3> QED
      BY <3>1 DEF PermTypeOK
  <2> QED
    BY <2>1, <2>2 DEF PermTypeOK
<1> QED
  BY <1>1, <1>2, <1>3, <1>4 DEF PermTypeOK

\* The gate's variables hold values of their types.
THEOREM GateTypeCorrect == PermSpec => []PermTypeOK
<1>1. PermInit => PermTypeOK
  BY PermissionGateAssumption DEF PermInit, PermTypeOK
<1>2. GateInv /\ GateInv' /\ DisplayInv' /\ PermTypeOK /\ [PermNext]_permVars => PermTypeOK'
  BY TypesStep
<1> QED
  BY <1>1, <1>2, GateInvAlways, DisplayInvAlways, PTL DEF PermSpec
=============================================================================
