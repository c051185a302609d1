SPECIFICATION MCSpec
CONSTANTS
    Entities = {1, 2, 3}
    MaxPositions = 2
    MaxStockPct = 40
    MaxBookNotional = 7
    DailyLossCap = 5
    Floor = 1
    MaxBatch = 3
INVARIANTS
    CapsHoldForTheBatch
    RefusedLeavesNoTrace
    NeverTrapped
