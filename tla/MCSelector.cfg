SPECIFICATION SelectorSpec
CONSTANTS
    Entities = {1, 2}
    BuyBps = 100
    SellBps = 100
    DPCharge = 5
    SlippageBps = 100
    MaxPositions = 2
    MaxStockPct = 60
    MaxBookNotional = 0
    DailyLossCap = 0
    Floor = 150
    NumSessions = 4
    InitialCash = 2000
    Bars <- SomeBars
    Ratios <- Bonus
    MaxActions = 1
    BuySizes <- Shares
    Month <- Months
    RebalanceMonths = 1
    RebalanceOffset = 1
    TopNames = 2
    CashBufferPct = 10
    MinTradeNotional = 500
    FilterDays = 2
    FilterReach = 3
    IndexCloses = {1, 2, 3}
INVARIANTS
    RiskOffGoesToCash
    BuysAreFunded
PROPERTY
    KeepsTheContract
