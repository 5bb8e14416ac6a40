SPECIFICATION Spec
CONSTANTS
    Conns = {c1, c2, c3}
    Options <- MCOptions
    MaxAcceptErrors = 1
INVARIANTS AcceptLoop ActiveIsUnanswered
PROPERTY StopCompletes
CHECK_DEADLOCK FALSE
