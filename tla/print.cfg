\* vsnprintf returns and that is all: the end of the call is no deadlock.
SPECIFICATION Spec
CHECK_DEADLOCK FALSE
CONSTANTS
    IntMax = 7
    LongMax = 31
    Words = {0, 5, 8, 15, 23, 32, 63}
    NextWord = 14
    Stars = {0, 3, 14}
    MaxText = 2
    Sizes = {0, 1, 5, 30}
    DashNumbers = FALSE
INVARIANTS
    TypeOK
    PrintsEveryDirective
    BufferIsTruncation
