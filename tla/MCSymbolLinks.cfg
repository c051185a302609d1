SPECIFICATION Spec
CONSTANTS
    Symbols = {a, b, c, d}
    Dates = {1, 2}
    Null = Null
    Rosters <- SmallRosters
    Writers = {v, w}
    MaxStamp = 4
SYMMETRY Alike
INVARIANTS
    FlatNow
    FlatAtPinsInOrder
    PairsTogether
PROPERTIES
    ImplementsEntityMap
    NoRepeatedRow
    SettledPinsAreStable
CHECK_DEADLOCK FALSE
