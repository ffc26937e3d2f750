\* A function returns and that is all: the end of a call is no deadlock.
SPECIFICATION Spec
CHECK_DEADLOCK FALSE
CONSTANTS
    Size = 4
    Bytes = {0, 98, 200}
    Digits = {32, 43, 45, 48, 57, 66, 98, 120}
    Bases = {0, 10, 16}
    LongMax = 31
INVARIANTS
    TypeOK
    MovesAsThroughACopy
    WritesTheExtentAsked
    ScansStopAtTheFirst
    FirstDifferenceDecides
    ReadsNothingBeyond
    StrtolConverts
