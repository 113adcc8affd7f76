SPECIFICATION McSpec
CONSTANTS
    NENV = 2
    NFrame = 9
    Forking = {1, 2}
    Ending = {1, 2}
    Failures = {"alloc"}
    NULL = NULL
    CONSBUFSIZE = 3
    CRT_COLS = 2
    CRT_ROWS = 3
    BUFLEN = 4
    Printable = {" ", "a"}
    DevQueue = 2
    Key <- Keys
    KbdQueue = 3
VIEW McView
CHECK_DEADLOCK FALSE
INVARIANTS TypeOK Isolated HandlerReady ThisenvOwn
INVARIANTS InputSafe DisplaySafe KeysDecoded
PROPERTY ImplementsPrivateMemory
