SPECIFICATION Spec
CONSTANTS
    Machine <- BigRam
    MpTables <- Tables
    End = 640
    BootStack = 480
    KStacks = 512
    NCPU = 3
CHECK_DEADLOCK FALSE
INVARIANT BootArraysDisjoint
