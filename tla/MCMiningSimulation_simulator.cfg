CONSTANTS
    Miners = {m1, m2}
    DefaultRef = DefaultRef
    DiffOne = 256
    MinerDiffOnes = {256, 257}
    DefaultTarget = 16
    Factors <- SomeFactors
    MaxBlocks = 2
    MaxShares = 2
    MaxVardiff = 1
CONSTRAINT FewEvents
SYMMETRY Symmetry
SPECIFICATION Spec
CHECK_DEADLOCK FALSE
INVARIANTS NoBug StaleMeansOldBlock BooksAgree QuietMinersUpToDate
