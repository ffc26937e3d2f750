\* With DashNumbers = FALSE the counterexample is a padded string.
SPECIFICATION Spec
CHECK_DEADLOCK FALSE
CONSTANTS
    IntMax = 7
    LongMax = 31
    Words = {5}
    NextWord = 14
    Stars = {3}
    MaxText = 2
    Sizes = {30}
    DashNumbers = TRUE
INVARIANTS
    PaddingAsCommented
