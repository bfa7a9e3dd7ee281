CONSTANTS
    Cap = 3
    SeqIdSpace = 16
    Sizes = {4}
    TryXnsub = FALSE
    PropagateReconnect = FALSE
    OrderlyClient = FALSE
    OrderlyServer = FALSE
    Limit <- AnyLimit
SPECIFICATION Spec
CHECK_DEADLOCK FALSE
INVARIANTS AnswersInOrder NoShareForgotten VerdictsFaithful OperationalIsReady DetailsWhilePending
PROPERTY ImplementsFifo
