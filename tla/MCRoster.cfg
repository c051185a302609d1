SPECIFICATION RosterSpec
CONSTANTS
    Symbols = {1, 2, 3}
    Dates <- Week
    Null = 0
    Rosters <- NoRosters
    Writers = {w}
    MaxStamp = 3
    LastDay = 6
    Closed = {3}
    Holidays = {3}
    Worlds <- SomeWorlds
    MaxDaysBetween = 4
    Bands <- Factors
    MaxErrors = 1
    MaxByHand = 2
INVARIANTS
    GeneratedLineIsASuccession
    OneSuccessor
PROPERTY
    HumanDecisionsStand
CHECK_DEADLOCK FALSE
