SPECIFICATION MCSpec
CONSTANTS
    Keys = {k1}
    LastSession = 2
    Attempts = 2
    MaxSwitches = 2
    index = index
    worker = w1
    Index = index
    Ticking = {index}
    Workers = {w1}
    ScanDays = 3
    ScanSwitches = 1
    Symbols = {1, 2}
    Lists <- TwoResults
    Scores = {1}
    Sorts = {"none", "down"}
    ViewSessions = 2
INVARIANTS
    RvolSound
    NoFakeSpike
    ContextsSound
    
CHECK_DEADLOCK FALSE
