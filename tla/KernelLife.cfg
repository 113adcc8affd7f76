SPECIFICATION FairSpec
CONSTANTS
  Cpu = {c1, c2}
  Bsp = c1
  NoCpu = NoCpu
  NENV = 2
  MaxGen = 2
  InitEnvs = 1
  Values = {1}
  Perms = {7}
  Traps = {"timer", "spurious", "unhandled", "irq_in_halt", "pgflt", "noeffect",
           "brkpt", "yield", "exofork", "set_status", "set_upcall", "destroy"}
  Disciplined = {"set_status", "destroy"}
INVARIANTS TypeOK LockInv RunsOwnContext FreeListExact
PROPERTIES ZombieFreed KilledBySelfOrParent
