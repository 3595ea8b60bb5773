SPECIFICATION MCSpec
CONSTANTS
    short = short
    long = long
    risk = risk
    scanner = scanner
    Callers = {c1, c2, c3}
    Windows = {short, long}
    Limit <- Limits
    Seconds <- Lengths
    Pause = 3
    MaxTime = 7
    Readers = {risk, scanner}
    Window <- CacheWindow
    Trading = {1, 2, 3, 6, 7, 8}
    LastDay = 9
    MaxLag = 1
    LookbackDays = 4
SYMMETRY Symmetry
INVARIANTS
    TypeOK
    RateKept
    PausesHold
    NoIdleSleep
    CandlesSound
    
    NumbersSound
PROPERTIES
    KeepsBudget
CHECK_DEADLOCK FALSE
