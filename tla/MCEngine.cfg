SPECIFICATION Spec
CONSTANTS
    Entities = {1, 2}
    BuyBps = 100
    SellBps = 100
    DPCharge = 25000
    SlippageBps = 100
    MaxPositions = 1
    MaxStockPct = 100
    MaxBookNotional = 0
    DailyLossCap = 0
    Floor = 20000
    NumSessions = 3
    InitialCash = 81000
    Bars <- MixedBars
    Ratios <- BonusAndConsolidation
    MaxActions = 1
    BuySizes = {1, 2}
INVARIANTS
    TypeOK
    NextOpenOnly
    OrdersSettleOnce
    RefusedBuysUnaffordable
    AbortOnlyWhenVanished
    CapUpToMissedExits
PROPERTIES
    NoLeverage
