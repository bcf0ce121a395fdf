SPECIFICATION FairSpec
CONSTANTS
    a1 = a1
    a2 = a2
    m = m
    c = c
    s1 = s1
    s2 = s2
    s3 = s3
    b1 = b1
    x1 = x1
    x2 = x2
    q1 = q1
    q2 = q2
    None = None
    NoCommand = NoCommand
    Accounts = {a1, a2, m, c}
    Orders = {s1, s2, s3, b1}
    Asks = {s1, s2, s3}
    Maker <- MCMaker
    BaseAmount <- MCBase
    QuoteAmount <- MCQuote
    FirstBalance <- MCFirstBalance
    FirstAllowed <- MCFirstAllowed
    PluginAccounts = {a1, a2}
    Networks = {"main", "test"}
    AppNetwork = "main"
    Reads = {q1, q2}
    Cli = c
    Imports = {m}
    Commands <- MCCommands
    FirstListed = {s1, s2}
    MinBase = 0
    MinQuote = 1
    Ops = {x1, x2}
    LevelOrders = {s1, s2}
    LevelPrice = 2
    OwnOrders = {b1}
    WrapAmount = 1
    MaxEvents = 3
INVARIANTS
    TypeOK
PROPERTIES
    AskedIsTraded
    RequestCovered
    EventuallyFollowsPlugin
    EventuallyShowsBalances
    EventuallyKnowsClosed
CHECK_DEADLOCK FALSE
