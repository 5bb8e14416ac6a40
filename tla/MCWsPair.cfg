\* The in-memory pair, safety and liveness.
CONSTANTS
    Depth = 1
    SendBudget <- MCSendBudget
    ReceiveBudget <- MCReceiveBudget
    SenderThreads = 1
    ReceiverThreads = 1
SPECIFICATION LiveSpec
INVARIANTS
    Conservation
    ParkedSlots
    EachOperationCompletesOnce
    HonestOutcomes
PROPERTIES
    FirstCloseStands
    ImplementsDuplex
    CloseCompletesEveryCall
CHECK_DEADLOCK FALSE
