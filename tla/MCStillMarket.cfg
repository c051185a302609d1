SPECIFICATION StillSpec
CONSTANTS
    Entities = {1}
    BuyBps = 100
    SellBps = 100
    DPCharge = 50
    SlippageBps = 0
    MaxPositions = 2
    MaxStockPct = 100
    MaxBookNotional = 0
    DailyLossCap = 0
    Floor = 1000
    NumSessions = 5
    InitialCash = 77760
    Bars = {}
    Ratios <- SomeRatios
    MaxActions = 1
    BuySizes = {1, 3}
    BasePrice = 7776
INVARIANTS
    WorthLessCosts
    NothingSuspicious
    ExitLeavesTheBook
