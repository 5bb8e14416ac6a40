\* Close against a parked ReceiveAsync.
CONSTANTS
    QueueDepth = 1
    SendBudget = 1
    ReceiveBudget = 1
    PeerMessages = 0
    CloseBudget = 1
    MayAbort = FALSE
    PostMayFail = FALSE
SPECIFICATION LiveSpec
PROPERTY CloseCompletesParkedReceive
CHECK_DEADLOCK FALSE
