\* The wire session, with an executor that may refuse a task.
CONSTANTS
    QueueDepth = 1
    SendBudget = 2
    ReceiveBudget = 1
    PeerMessages = 2
    CloseBudget = 1
    MayAbort = TRUE
    PostMayFail = TRUE
SPECIFICATION LiveSpec
INVARIANTS
    WireDiscipline
    DeliveredInOrder
    EachOperationCompletesOnce
    HonestOutcomes
    PumpNeverLost
PROPERTIES
    CloseUnblocksCalls
CHECK_DEADLOCK FALSE
