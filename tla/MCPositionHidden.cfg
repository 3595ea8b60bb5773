SPECIFICATION Spec
CONSTANTS
    IdCount = 5
    Ids <- MCIds
    Starts = {1, 2}
    MaxFills = 3
    MaxManual = 0
    EditsMeanwhile = FALSE
PROPERTIES
    HiddenStaysHidden
CHECK_DEADLOCK FALSE
