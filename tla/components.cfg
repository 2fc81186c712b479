SPECIFICATION FairSpec
CONSTANTS
    c1 = c1
    c2 = c2
    c3 = c3
    ed = ed
    mc = mc
    s1 = s1
    m1 = m1
    m2 = m2
    t1 = t1
    t2 = t2
    sa = sa
    q1 = q1
    q2 = q2
    a1 = a1
    e1 = e1
    e2 = e2
    k1 = k1
    k2 = k2
    TurnPrompts <- MCTurnPrompts
    Budget <- MCBudget
    MaxAttempts = 2
    MaxCalls = 1
    Batch = 1
    MaxOther = 1
    MaxFaults = 1
    Signatures = {"a", "b"}
    Segments = {"x", "y"}
    NoSegment = NoSegment
    DOOM_LOOP_THRESHOLD = 3
    DOOM_LOOP_BACKOFF_LIMIT = 1
    OUTPUT_REPETITION_THRESHOLD = 2
    MAX_REPETITION_STOP_RETRIES = 1
    SubTurnMax = 2
    MaxGuardTurns = 2
    MaxDispatches = 5
    MaxFailures = 1
    MaxStream = 2
    Calls = {c1, c2, c3}
    ToolOf <- MCToolOf
    KeyOf <- MCKeyOf
    ServerOf <- MCServerOf
    NoServer = NoServer
    HasDisplay = {c1, c2}
    Base <- MCBase
    Personas = {"plain", "careful"}
    Overlay <- MCOverlay
    CliOverlay <- NoRules
    MaxTurns = 2
    Servers = {m1, m2}
    AtStart = {m1}
    McpTools = {t1, t2}
    ServerOfTool <- MCServerOfTool
    Threshold = 2
    MaxToggles = 3
    MaxCallsMade = 3
    MaxSwitches = 1
    Models = {"small", "big", "odd"}
    WindowOf <- MCWindowOf
    DefaultWindow = 3
    Pct = 50
    AgentModel <- MCAgentModel
    NoModel = NoModel
    RuntimeSessions = {"s1", "s2"}
    Unknown = Unknown
    MaxWindow = 4
    MaxOps = 5
    Sessions = {sa}
    Prompts = {q1, q2}
    Tools = {a1}
    Config = Config
    Idle = Idle
    OnePrompt = TRUE
    MaxOpens = 2
    MaxClientAsks = 1
    MaxRequests = 2
    MaxPrompts = 3
    MaxAsks = 1
    MaxExtras = 1
    Engines = {e1, e2}
    Requests = {k1, k2}
    MaxBytes = 2
    MaxCrashes = 1
    NoEngine = NoEngine
    NoRequest = NoRequest
INVARIANTS TypeOK CallsAnswered RepeatsNeedMerge DeltaKeepsWork RowsClaimNew LoopCut RepetitionBounded AllowBacked DisplayOnce PanelAgrees VisibleBacked BreakerHolds ModelInStep SessionOwn CancelReported SentOrReturned CardBacked QueueMoves
PROPERTIES RequestEnds KeepsPromise
CHECK_DEADLOCK FALSE
