SPECIFICATION MCSpec
CONSTANTS
    Stocks = {s1, s2}
    MaxSubscriptions = 2
    MaxChanges = 3
    Symbols = {x1, x2}
    scanner = scanner
    securities = securities
    Names <- TwoNames
    Tabs <- TwoTabs
    FirstTab = scanner
    WatchlistTabs <- Following
    MaxDialogs = 2
    Keys = {1, 2}
    Values = {1, 2}
    Missing = 0
    Filters <- Typed
    Ids = {1, 2}
SYMMETRY StockSymmetry
INVARIANTS
    
    ScreensSound
PROPERTIES
    
    
    ListsKept
CHECK_DEADLOCK FALSE
