\* The session registry while one io thread stays outside its calls.
CONSTANTS
    Ids = {"a"}
    Capacity = 2
    Async = TRUE
    Retain = TRUE
    Dials = 2
    Calls = 2
    CallerThreads = 1
    Classes = {"droppable", "coalesce"}
    MayDestroy = TRUE
    IoThreads = 2
    IoCallers = 1
SPECIFICATION LiveSpec
INVARIANTS
    AcceptedNotLost
    DeliveredInOrder
    OneDeliverer
    NoOrphanWriter
    ExpiryOrResume
PROPERTIES
    QueueDrains
    GraceEnds
CHECK_DEADLOCK FALSE
