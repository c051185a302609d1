SPECIFICATION FairSpec
CONSTANTS
    Runs = {v}
    LastDate = 2
    ArchiveStart = 1
    Refetchable = TRUE
    SoftMisses = FALSE
    SettleLag = 1
    PublishLag = 1
    ErrorBudget = 2
    LastDay = 4
    MaxInterrupts = 1
PROPERTIES
    EveryDateSettles
CHECK_DEADLOCK FALSE
