SPECIFICATION Spec
CONSTANTS
    Stocks = {s1, s2}
    MaxSubscriptions = 2
    MaxChanges = 3
INVARIANTS
    StreamsOpenPositions
CHECK_DEADLOCK FALSE
