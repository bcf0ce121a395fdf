SPECIFICATION Spec
CONSTANTS
    m1 = m1
    m2 = m2
    o1 = o1
    o2 = o2
    o3 = o3
    NoMarket = NoMarket
    Markets = {m1, m2}
    Orders = {o1, o2, o3}
    Asks = {o3}
    MarketOf <- MCMarketOf
    Price <- MCPrice
    Tick = 10
    Decimals = 1
    Limit = 2
    MaxVolume = 2
    MaxMoves = 1
    MaxSelects = 2
    MaxDrops = 0
    MaxInFlight = 1
INVARIANTS
    RoundedAgainstTaker
CHECK_DEADLOCK FALSE
