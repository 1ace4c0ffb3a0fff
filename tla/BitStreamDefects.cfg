CONSTANTS
    StreamSizes = {2}
    ReadSizes = {}
    MaxCalls = 1
    StreamDefects = TRUE
SPECIFICATION StreamSpec
INVARIANT RoundShiftKeepsBits
CHECK_DEADLOCK FALSE
