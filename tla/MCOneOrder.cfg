SPECIFICATION FairSpec
CONSTANTS
    n1 = n1
    o1 = o1
    r1 = r1
    r2 = r2
    t1 = t1
    t2 = t2
    None = None
    Nodes = {n1}
    Orders = {o1}
    Asks = {o1}
    Requests = {r1, r2}
    Tasks = {t1, t2}
    MakerAmount <- MCAmount
    TakerAmount <- MCAmount
    MinBase = 0
    MinQuote = 0
    OrderOf <- MCOrderOf
    EntryNode <- MCEntryNode
    Level <- MCLevel
    Subscriptions <- MCSubscriptions
    Runners <- MCRunners
    PromptWrites = TRUE
    MaxCrashes = 1
    MaxDrops = 0
    MaxFaults = 1
    MaxMoves = 1
    MaxPending = 1
PROPERTIES
    EventuallyAccurate
    SuccessIsKept
CHECK_DEADLOCK FALSE
