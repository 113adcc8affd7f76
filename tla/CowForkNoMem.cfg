SPECIFICATION Spec
CONSTANTS
    NENV = 2
    NFrame = 9
    Forking = {1, 2}
    Ending = {1, 2}
    Failures = {"map"}
    NULL = NULL
VIEW View
CHECK_DEADLOCK FALSE
INVARIANT ChildComplete
