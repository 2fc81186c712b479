SPECIFICATION LogSpec
CONSTANTS
    TurnPrompts <- MCTurnPrompts
    Budget <- MCBudget
    MaxAttempts = 3
    MaxCalls = 2
    Batch = 1
    MaxOther = 0
    MaxFaults = 0
INVARIANTS ResultStoredOnce
CHECK_DEADLOCK FALSE
