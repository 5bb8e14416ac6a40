\* A violation met while the application's send is outstanding.
SPECIFICATION Spec
CONSTANTS
    Handles = {h1}
    HandleOps = 1
    LoopOps = 1
PROPERTY TerminalBeforeClose
CHECK_DEADLOCK FALSE
