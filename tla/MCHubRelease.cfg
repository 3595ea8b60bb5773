SPECIFICATION Spec
CONSTANTS
    Consumers = {c1, c2}
    Keys = {k1, k2}
    MaxInstruments = 2
    MaxDrops = 0
    SdkResends = FALSE
INVARIANTS
    ReleasedNotStreamed
CHECK_DEADLOCK FALSE
