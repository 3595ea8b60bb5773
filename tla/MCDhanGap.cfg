SPECIFICATION Spec
CONSTANTS
    HistoryDays = 2
    LastDay = 7
INVARIANTS
    EveryDayRead
CHECK_DEADLOCK FALSE
