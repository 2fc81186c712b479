SPECIFICATION AcpSpec
CONSTANTS
    sa = sa
    q1 = q1
    a1 = a1
    Sessions = {sa}
    Prompts = {q1}
    Tools = {a1}
    Config = Config
    Idle = Idle
    OnePrompt = TRUE
    MaxOpens = 1
    MaxClientAsks = 1
    MaxRequests = 1
INVARIANTS DispatchStaysFree
CHECK_DEADLOCK FALSE
