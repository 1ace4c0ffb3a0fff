\* Two objects, three allocatable blocks and one of the caller, sizes with zero.
CONSTANTS
    Objects = {o1, o2}
    Blocks = {b1, b2, b3, lent}
    Caller = {lent}
    NoBlock = none
    Sizes = {0, 1, 2}
    Contents = {x, y}
    WithDefects = FALSE
SPECIFICATION Spec
INVARIANTS OneOwner BorrowedSurvives TrueHasBytes
PROPERTY OthersKeepTheirValue
