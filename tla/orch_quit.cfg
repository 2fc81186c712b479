SPECIFICATION FairSpec
CONSTANTS
    t1 = t1
    t2 = t2
    s1 = s1
    NoTask = NoTask
    Tasks = {}
    Servers = {s1}
    UiInputs = {"prompt", "compact", "model", "session_picker", "quit"}
    MaxUiEvents = 4
    MaxNotices = 0
    MaxTurnCompactions = 1
    WORKER_CMD_CAPACITY = 1
    EVENT_CAPACITY = 2
    RESPONSE_CAPACITY = 1
    BUS_CAPACITY = 3
    StoreRefuses = TRUE
INVARIANTS TypeOK CompactionQueueBacked CompactionFlagBacked QuitBacked
PROPERTIES QuitExitsUnlessRefused
CHECK_DEADLOCK FALSE
