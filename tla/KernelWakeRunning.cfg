SPECIFICATION Spec
CONSTANTS
  Cpu = {c1, c2}
  Bsp = c1
  NoCpu = NoCpu
  NENV = 2
  MaxGen = 1
  InitEnvs = 1
  Values = {1}
  Perms = {7}
  Traps = {"timer", "noeffect", "set_status"}
  Disciplined = {"destroy"}
INVARIANT NoEnvOnTwoCpus
