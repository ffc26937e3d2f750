SPECIFICATION TDSpec
CONSTANTS
    Words = 80
    MaxDepth = 2
    IntBit = 8192
    UIntRange = 4096
    Causes = {2, 3, 5, 12, 8194, 8195, 8197, 8201, 8204}
    Recursive = {3, 12}
    Stale = {8197}
    StaleAt = {1000}
    Advances = {0, 2, 4}
INVARIANTS
    TypeOK
    FrameFaithful
    OuterFramesIntact
    ScratchClear
    SbiCallsFaithful
PROPERTIES
    Transparent
    ImplementsTrapEntry
    ResumesByCause
    ShowsInterruptedState
