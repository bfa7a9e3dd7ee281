SPECIFICATION FairSpec
CONSTANTS
    t1 = t1
    t2 = t2
    t3 = t3
    Tasks = {t1, t2, t3}
    Stubborn = {t3}
INVARIANTS
    OkMeansAllFinished
    TimeoutAfterHalt
PROPERTIES
    JoinReturns
CHECK_DEADLOCK FALSE
