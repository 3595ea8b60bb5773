SPECIFICATION Spec
CONSTANTS
    Keys = {k1}
    Index = index
    Workers = {w1}
    Ticking = {index}
    LastDay = 3
    MaxSwitches = 0
INVARIANT
    NothingCountedTwice
CHECK_DEADLOCK FALSE
