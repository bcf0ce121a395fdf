SPECIFICATION FairSpec
CONSTANTS
    m1 = m1
    m2 = m2
    NoMarket = NoMarket
    Markets = {m1, m2}
    Fills <- MCFills
    BackTrack = 3
    Batch = 1
    FirstHead = 5
    MaxHead = 7
    MaxSelects = 3
    MaxReloads = 1
    MaxFaults = 1
INVARIANTS
    TypeOK
    RecentFillsShown
    SyncGoesOn
PROPERTIES
    EventuallySynced
CHECK_DEADLOCK FALSE
