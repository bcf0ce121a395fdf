SPECIFICATION FairSpec
CONSTANTS
    n1 = n1
    n2 = n2
    o1 = o1
    r1 = r1
    r2 = r2
    t1 = t1
    t2 = t2
    None = None
    Nodes = {n1, n2}
    Orders = {o1}
    Asks = {}
    Requests = {r1}
    Tasks = {t1, t2}
    MakerAmount <- MCAmount
    TakerAmount <- MCAmount
    MinBase = 0
    MinQuote = 0
    OrderOf <- MCOrderOf
    EntryNode <- MCEntryNode
    Level <- MCLevel
    Subscriptions <- MCSubscriptions
    Runners <- MCWorkerRunners
    PromptWrites = TRUE
    MaxCrashes = 0
    MaxDrops = 0
    MaxFaults = 0
    MaxMoves = 2
    MaxPending = 1
INVARIANTS
    AgreeAtRest
PROPERTIES
    EventuallyAccurate
CHECK_DEADLOCK FALSE
