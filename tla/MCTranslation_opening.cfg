CONSTANTS
    Cap = 3
    SeqIdSpace = 16
    Sizes = {4, 8}
    TryXnsub = TRUE
    PropagateReconnect = TRUE
    OrderlyClient = TRUE
    OrderlyServer = TRUE
    Limit <- OpeningLimit
SPECIFICATION FairSpec
CHECK_DEADLOCK FALSE
INVARIANTS WorkAfterOpen OpenAnsweredOnce NoPanic
PROPERTY PendingIsResolved
