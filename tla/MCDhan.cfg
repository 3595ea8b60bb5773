SPECIFICATION MCSpec
CONSTANTS
    HistoryDays = 2
    LastDay = 6
    RowIds = {1, 2, 3, 4}
    RowStarts = {1, 2}
    MaxFills = 2
    MaxManual = 0
    EditsMeanwhile = TRUE
    MaxTokens = 3
    TokenDays = 2
    Processes = {"run"}
    Releases = {6, 7, 8}
    Ids = {1}
    Stops = {1, 2}
    Copies = 1
    CalendarDays = 3
    Weekend = {2}
    Lookback = 2
INVARIANTS
    TypeOK
    CoverageHonest
    HistoryRead
    OnlyPastCovered
    RowsSound
    StopsFollow
    TokenSound
    StorageSound
    CalendarSound
CHECK_DEADLOCK FALSE
