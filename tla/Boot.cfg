SPECIFICATION FairSpec
CONSTANTS
    Machine <- Ram
    MpTables <- Tables
    End = 640
    BootStack = 480
    KStacks = 512
    NCPU = 3
CHECK_DEADLOCK FALSE
INVARIANTS BootMemory KernelMapped StartedApart
PROPERTY AllRun
