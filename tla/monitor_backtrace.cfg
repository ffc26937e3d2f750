\* Past argv or the stack nothing can be said of the monitor: it stops there.
SPECIFICATION FairSpec
CHECK_DEADLOCK FALSE
CONSTANTS
    BUFSIZE = 4
    MAXARGS = 3
    Printable = {"b", "x"}
    NoKeyIsZero = TRUE
    StackDepth = 2
PROPERTY BacktraceReturns
