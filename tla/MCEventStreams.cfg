\* One session, two handles.
SPECIFICATION Spec
CONSTANTS
    Handles = {h1, h2}
    HandleOps = 2
    LoopOps = 2
INVARIANTS NoUseAfterEnd ResumedOnce ClosesOverNoFrame
PROPERTY EndReturns
CHECK_DEADLOCK FALSE
