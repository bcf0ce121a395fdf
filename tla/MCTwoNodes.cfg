SPECIFICATION Spec
CONSTANTS
    n1 = n1
    n2 = n2
    o1 = o1
    r1 = r1
    r2 = r2
    t1 = t1
    t2 = t2
    None = None
    Nodes = {n1, n2}
    Orders = {o1}
    Asks = {}
    Requests = {r1, r2}
    Tasks = {t1}
    MakerAmount <- MCAmount
    TakerAmount <- MCAmount
    MinBase = 1
    MinQuote = 0
    OrderOf <- MCOrderOf
    EntryNode <- MCEntryNode
    Level <- MCLevel
    Subscriptions <- MCSubscriptions
    Runners <- MCRunners
    PromptWrites = TRUE
    MaxCrashes = 1
    MaxDrops = 1
    MaxFaults = 1
    MaxMoves = 1
    MaxPending = 1
INVARIANTS
    TypeOK
    AnnouncedIsStored
    BookBackedByStore
    AgreeAtRest
PROPERTIES
    ImplementsLifecycle
CHECK_DEADLOCK FALSE
