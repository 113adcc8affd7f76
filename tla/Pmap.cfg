SPECIFICATION Spec
CONSTANTS
    Page = {p0, p1, p2, p3, p4, p5}
    Reserved = {p0}
    Env = {e1, e2}
    FirstEnv = e1
    Cpu = {c1, c2}
    NULL = NULL
    NVa = 3
    NSlots = 2
    RefMod = 8
    Remote = FALSE
SYMMETRY Symmetry
CHECK_DEADLOCK FALSE
INVARIANTS TypeOK RefExact PagesSafe TlbSafe
PROPERTIES ErrorsChangeNothing NoWriteToReadOnly ImplementsAddrSpace
