CONSTANTS
    StreamSizes = {1, 2, 3}
    ReadSizes = {5}
    MaxCalls = 1
    StreamDefects = FALSE
SPECIFICATION StreamSpec
INVARIANTS WordHoldsItsBytes
PROPERTY ImplementsBitVector
CHECK_DEADLOCK FALSE
