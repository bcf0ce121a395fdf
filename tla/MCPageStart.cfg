SPECIFICATION FairSpec
CONSTANTS
    t1 = t1
    t2 = t2
    sa = sa
    sb = sb
    sc = sc
    e1 = e1
    e2 = e2
    l1 = l1
    l2 = l2
    None = None
    Tokens = {t1, t2}
    Symbols = {sa, sb, sc}
    Edits = {e1, e2}
    EditOf <- MCEditOf
    FirstSymbol <- MCFirstSymbol
    MarketSeq <- MCMarketSeq
    Loads = {l1, l2}
    MaxFaults = 1
    Urls <- MCUrls
    EarlierVisit <- MCEarlierVisit
    MaxVisits = 1
    MaxLosses = 1
INVARIANTS
    TypeOK
    RevertedWasOvertaken
    SelectedByUrl
    ConfigOnItsWay
PROPERTIES
    ServedWhileRefreshing
    EventuallyFresh
    EventuallyStarted
CHECK_DEADLOCK FALSE
