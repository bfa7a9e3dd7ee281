SPECIFICATION Spec
CONSTANTS
    TIME_MOD = 4
    CaFiles <- Ca
    NoiseFiles <- Noise
    Durations = {1, 3}
    MaxKeys = 3
    MaxIssued = 2
    MaxRemoved = 1
    MaxTime = 3
INVARIANTS AcceptedOnlyWhileIssued AcceptedThroughout
CHECK_DEADLOCK FALSE
