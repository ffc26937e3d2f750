\* Without 10 among the Digits the counterexample is a 0X.
SPECIFICATION Spec
CHECK_DEADLOCK FALSE
CONSTANTS
    Size = 4
    Bytes = {0}
    Digits = {10, 48, 57, 88}
    Bases = {0, 10, 16}
    LongMax = 31
INVARIANTS
    StrtolConverts
