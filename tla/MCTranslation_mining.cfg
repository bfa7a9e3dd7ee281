CONSTANTS
    Cap = 3
    SeqIdSpace = 3
    Sizes = {4}
    TryXnsub = FALSE
    PropagateReconnect = FALSE
    OrderlyClient = TRUE
    OrderlyServer = TRUE
    Limit <- MiningLimit
SPECIFICATION FairSpec
CHECK_DEADLOCK FALSE
INVARIANTS QueueFrontAwaited JobsActivated TargetInSync LatestJobAnnounced JobsFresh JobIdsExhausted
PROPERTY QueuedShareIsAnswered
