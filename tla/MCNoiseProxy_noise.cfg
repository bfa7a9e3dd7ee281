SPECIFICATION Spec
CONSTANTS
    TIME_MOD = 8
    Trusted = 1
    Other = 2
    Static = 3
    OtherStatic = 4
    Cases <- AllCases
    MaxFrames = 2
INVARIANTS HandshakeSound FailureHasReason FramesConserved AccountsTrue
PROPERTIES SessionEnds FramesArrive
CHECK_DEADLOCK FALSE
