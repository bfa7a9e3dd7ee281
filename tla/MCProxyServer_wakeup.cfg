CONSTANTS
    c1 = c1
    c2 = c2
    c3 = c3
    Conns = {c1, c2}
    MaxFailures = 2
SPECIFICATION FairSpec
CHECK_DEADLOCK FALSE
PROPERTY CounterFutureCompletes
