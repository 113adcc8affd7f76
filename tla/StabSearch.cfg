SPECIFICATION Spec
CONSTANTS
    StabLen = 4
    StabValue = {0, 1, 2, 3}
    StabAddr = {0, 1, 2, 3, 4}
    StabStep = 1
    UmPage = 2
    UmPages = 1
    UmLimit = 1
    StrMem = 9
    StrWord = 2
    FmtWord = 64
    FmtChars = {"a", "%", "-", "0", "2", "*", "#", ".", "l", "c", "e", "s", "d", "u", "x"}
    FmtLen = 0
    LineChars = {" ", "h"}
    LineLen = 0
    MAXARGS = 5
    LdSect = 2
    LdHdr = 4
    LdMB = 8
    LdPage = 2
    LdTable = 3
    LdFree = 0
    Vector = {0, 3, 9, 13, 14, 32, 48, 255}
    TrapWord = {1}
    StackWords = 4
    ExcWords = 0
    Locals = 2
    StackMayFault = FALSE
    IpcEnv = {e1, e2}
    IpcValue = {1, 2}
    Receiver = {e1, e2}
    PageUser = {e1}
    NONE = NONE
CHECK_DEADLOCK FALSE
INVARIANT StabBrackets
