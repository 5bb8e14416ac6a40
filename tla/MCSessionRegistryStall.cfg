\* Resume while every io thread is inside a registry call.
CONSTANTS
    Ids = {"a"}
    Capacity = 1
    Async = TRUE
    Retain = TRUE
    Dials = 2
    Calls = 2
    CallerThreads = 1
    Classes = {"reliable"}
    MayDestroy = FALSE
    IoThreads = 1
    IoCallers = 1
SPECIFICATION LiveSpec
PROPERTIES
    ResumeReturns
CHECK_DEADLOCK FALSE
