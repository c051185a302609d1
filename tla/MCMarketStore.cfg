SPECIFICATION Spec
CONSTANTS
    Isins = {i, j}
    Main = i
    NoIsin = NoIsin
    Tickers = {X, Y}
    Dates = {1, 2}
    Contents = {c, d}
    Ratios = {2}
    Batches <- SmallBatches
    Writers = {v, w}
    MaxStamp = 6
SYMMETRY Alike
CONSTRAINT Followed
INVARIANTS
    TypeOK
    OneIdPerIsin
    RecordedIdIsWhatIsRead
PROPERTIES
    RenamesWhatItObserved
    LatestIsWhatWasBrought
    SettledViewsAreStable
CHECK_DEADLOCK FALSE
