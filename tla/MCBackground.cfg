SPECIFICATION MCSpec
CONSTANTS
    Names <- TypedNames
    Results = {1}
    MaxItems = 2
    MaxWidgets = 2
    Isins = {i1, i2}
    Datasets <- DatasetNames
    GiveUpAfter = 1
    RebuildEvery = 2
    MaxRefreshes = 3
    Positions = {k1}
    Sized = k3
    RefreshAfter = 4
    RequestTakes = 2
    Streamed = {k1, k2}
    FirstStreamed = k1
INVARIANTS
    ItemsSound
    SecuritiesSound
    PricesSound
PROPERTIES
    NothingUndone
    AllServed
CHECK_DEADLOCK FALSE
