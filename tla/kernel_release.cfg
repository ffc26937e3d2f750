SPECIFICATION FairSpec
CONSTANTS
    TickNum = 2
    MaxNum = 2
    Timebase = 2
    DebugGrade = FALSE
    Garbage = {0, 3}
    MaxLate = 3
INVARIANTS
    TypeOK
    NeverWild
    InterruptsOnlyWhenIdle
    IdleIsWakeable
    TicksNotAhead
    DriftBounded
    Transcript
PROPERTIES
    TickCounterSpec
    PowersOff
