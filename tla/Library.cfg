SPECIFICATION Spec
CONSTANTS
    StabLen = 4
    StabValue = {0, 2, 4}
    StabAddr = {0, 1, 2, 3, 4, 5}
    StabStep = 2
    UmPage = 2
    UmPages = 4
    UmLimit = 2
    StrMem = 9
    StrWord = 2
    FmtWord = 64
    FmtChars = {"a", "%", "-", "0", "2", "*", "#", ".", "l", "c", "e", "s", "d", "u", "x"}
    FmtLen = 3
    LineChars = {" ", "h"}
    LineLen = 9
    MAXARGS = 5
    LdSect = 2
    LdHdr = 4
    LdMB = 8
    LdPage = 2
    LdTable = 3
    LdFree = 7
    Vector = {0, 3, 9, 13, 14, 32, 48, 255}
    TrapWord = {1, 2}
    StackWords = 4
    ExcWords = 25
    Locals = 2
    StackMayFault = FALSE
    IpcEnv = {e1, e2, e3}
    IpcValue = {1, 2}
    Receiver = {e1, e2}
    PageUser = {e1}
    NONE = NONE
CHECK_DEADLOCK FALSE
INVARIANTS FaultsTransparent MessagesWhole DebuggerExact UserMemChecked
INVARIANTS TextExact ProgramsLoaded FramesExact
PROPERTIES Returns ReceiverServed
