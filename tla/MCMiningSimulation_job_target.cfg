CONSTANTS
    Miners = {m1, m2}
    DefaultRef = DefaultRef
    DiffOne = 256
    MinerDiffOnes = {256, 257}
    DefaultTarget = 16
    Factors <- AllFactors
    MaxBlocks = 2
    MaxShares = 1
    MaxVardiff = 1
SPECIFICATION Spec
CHECK_DEADLOCK FALSE
INVARIANT JobKeepsTarget
