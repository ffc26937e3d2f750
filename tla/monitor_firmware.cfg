\* Past argv or the stack nothing can be said of the monitor: it stops there.
SPECIFICATION Spec
CHECK_DEADLOCK FALSE
CONSTANTS
    BUFSIZE = 5
    MAXARGS = 3
    Printable = {"b", "x"}
    NoKeyIsZero = FALSE
    StackDepth = 2
INVARIANTS
    ArgvFaithful
    EchoShowsBuffer
