SPECIFICATION Spec
CONSTANTS
  Cpu = {c1, c2}
  Bsp = c1
  NoCpu = NoCpu
  NENV = 2
  MaxGen = 1
  InitEnvs = 2
  Values = {1}
  Perms = {7}
  Traps = {"timer", "exofork", "set_status", "destroy", "ipc_recv", "ipc_try_send"}
  Disciplined = {"set_status", "destroy"}
INVARIANTS NoEnvOnTwoCpus RunningHasCpu ReceiverBlocked IInv
PROPERTY WokenBySend
