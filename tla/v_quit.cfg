SPECIFICATION FairSpec
CONSTANTS
    t1 = t1
    t2 = t2
    s1 = s1
    NoTask = NoTask
    Tasks = {}
    Servers = {s1}
    UiInputs = {"compact", "quit"}
    MaxUiEvents = 3
    MaxNotices = 0
    MaxTurnCompactions = 0
    WORKER_CMD_CAPACITY = 2
    EVENT_CAPACITY = 2
    RESPONSE_CAPACITY = 1
    BUS_CAPACITY = 4
    StoreRefuses = TRUE
PROPERTIES QuitExits
CHECK_DEADLOCK FALSE
