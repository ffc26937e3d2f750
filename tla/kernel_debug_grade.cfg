\* Past argv or the stack nothing can be said of the machine: it stops there.
SPECIFICATION MSpec
CHECK_DEADLOCK FALSE
CONSTANTS
    TickNum = 2
    MaxNum = 2
    Timebase = 2
    DebugGrade = TRUE
    Garbage = {0, 3}
    MaxLate = 3
    BUFSIZE = 4
    MAXARGS = 1
    Printable = {"b"}
    NoKeyIsZero = TRUE
    StackDepth = 2
INVARIANTS
    Transcript
PROPERTIES
    MonitorOwnsTheHart
    AsksAgain
