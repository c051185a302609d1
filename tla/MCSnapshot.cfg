SPECIFICATION Spec
CONSTANTS
    Isins = {i}
    Main = i
    NoIsin = NoIsin
    Tickers = {X}
    Dates = {1}
    Contents = {c}
    Ratios = {2}
    Batches <- SmallBatches
    Writers = {w}
    MaxStamp = 4
INVARIANT SameSnapshotSameView
CHECK_DEADLOCK FALSE
