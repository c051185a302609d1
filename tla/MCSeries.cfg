SPECIFICATION Spec
CONSTANTS
    LastDay = 7
    Holidays <- Closed
    GuardSessions = 2
    GuardScanDays = 5
    EndpointStaleDays = 3
    MinReturns = 1
    LookbackDays = 3
    MaxHoles = 1
    Markets <- SomeMarkets
INVARIANTS
    PricedIsEarned
    SeriesOnOneBasis
    ActionsAreTheSplit
    CompaniesAreKeptApart
CHECK_DEADLOCK FALSE
