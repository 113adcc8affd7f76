SPECIFICATION FairSpec
CONSTANTS
  Cpu = {c1, c2}
  Bsp = c1
  NoCpu = NoCpu
  NENV = 4
  MaxGen = 1
  InitEnvs = 4
  Values = {1}
  Perms = {7}
  Traps = {"timer", "noeffect", "destroy"}
  Disciplined = {"set_status", "destroy"}
PROPERTY RunnableRuns
