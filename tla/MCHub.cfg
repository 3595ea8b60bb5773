SPECIFICATION FairSpec
CONSTANTS
    Consumers = {c1, c2}
    Keys = {k1, k2}
    MaxInstruments = 1
    MaxDrops = 1
    SdkResends = TRUE
INVARIANTS
    TypeOK
    RefcountsExact
    WithinCapacity
    WantedStreamed
    StateHonest
PROPERTIES
    KeptWhileWanted
    NoTickGap
    RoutedBeforeStreamed
    WantedEventuallyStreamed
CHECK_DEADLOCK FALSE
