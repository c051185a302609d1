SPECIFICATION Spec
CONSTANTS
    Runs = {v, w}
    LastDate = 2
    ArchiveStart = 1
    Refetchable = TRUE
    SoftMisses = FALSE
    SettleLag = 1
    PublishLag = 1
    ErrorBudget = 2
    LastDay = 4
    MaxInterrupts = 1
SYMMETRY RunsAlike
INVARIANTS
    SettledIsTrue
PROPERTIES
    CleanRunLeavesNothing
CHECK_DEADLOCK FALSE
