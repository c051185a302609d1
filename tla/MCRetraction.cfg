SPECIFICATION Spec
CONSTANTS
    Symbols = {a, b, c}
    Dates = {1, 2}
    Null = Null
    Rosters <- SmallRosters
    Writers = {v, w}
    MaxStamp = 3
SYMMETRY Alike
PROPERTIES
    RetractionTakesEffect
CHECK_DEADLOCK FALSE
