SPECIFICATION Spec
CONSTANTS
    n1 = n1
    o1 = o1
    o2 = o2
    r1 = r1
    r2 = r2
    r3 = r3
    t1 = t1
    t2 = t2
    None = None
    Nodes = {n1}
    Orders = {o1, o2}
    Asks = {o1}
    Requests = {r1, r2, r3}
    Tasks = {t1}
    MakerAmount <- MCMakerAmount
    TakerAmount <- MCTakerAmount
    MinBase = 0
    MinQuote = 0
    OrderOf <- MCOrderOf
    EntryNode <- MCEntryNode
    Level <- MCLevel
    Subscriptions <- MCSubscriptions
    Runners <- MCRunners
    PromptWrites = TRUE
    MaxCrashes = 0
    MaxDrops = 0
    MaxFaults = 0
    MaxMoves = 1
    MaxPending = 1
INVARIANTS
    ListedOnce
CHECK_DEADLOCK FALSE
