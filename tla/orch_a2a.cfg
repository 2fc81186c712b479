SPECIFICATION Spec
CONSTANTS
    t1 = t1
    t2 = t2
    s1 = s1
    NoTask = NoTask
    Tasks = {t1, t2}
    Servers = {s1}
    UiInputs = {"prompt", "model", "cancel", "note"}
    MaxUiEvents = 4
    MaxNotices = 0
    MaxTurnCompactions = 0
    WORKER_CMD_CAPACITY = 1
    EVENT_CAPACITY = 2
    RESPONSE_CAPACITY = 1
    BUS_CAPACITY = 2
    StoreRefuses = FALSE
INVARIANTS OneOwner CancelNotStranded
PROPERTIES AnsweredOnce TasksFollowIntake
SYMMETRY TaskSymmetry
CHECK_DEADLOCK FALSE
