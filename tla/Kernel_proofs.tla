---------------------------- MODULE Kernel_proofs ----------------------------
(***************************************************************************)
(* Proofs about Kernel, for any number of CPUs, slots and generations.     *)
(***************************************************************************)
EXTENDS Kernel, SequenceTheorems, TLAPS

(* The list env_free makes from a list of slots.                           *)
LEMMA PushType ==
    ASSUME NEW S, NEW s \in Seq(S), NEW e \in S
    PROVE  /\ <<e>> \o s \in Seq(S)
           /\ Len(<<e>> \o s) = Len(s) + 1
           /\ (<<e>> \o s)[1] = e
           /\ \A k \in 1..Len(s) : (<<e>> \o s)[k + 1] = s[k]
  OBVIOUS

(* What env_alloc leaves of a list of slots that is not empty.             *)
LEMMA PopType ==
    ASSUME NEW S, NEW s \in Seq(S), s # << >>
    PROVE  /\ Head(s) \in S /\ Head(s) = s[1]
           /\ Tail(s) \in Seq(S)
           /\ Len(s) \in Nat \ {0}
           /\ Len(Tail(s)) = Len(s) - 1
           /\ \A k \in 1..Len(s) - 1 : Tail(s)[k] = s[k + 1]
  OBVIOUS

(* envid2env returns a slot of envs[] or the null pointer.                 *)
LEMMA envid2envType ==
    ASSUME TypeOK, NEW c \in Cpu, NEW envid \in EnvId, NEW checkperm \in BOOLEAN
    PROVE  envid2env(c, envid, checkperm) \in Env \cup {None}
  BY DEF TypeOK, envid2env, EnvId

(* The state after env_init and boot_aps has the right types.              *)
LEMMA InitType == Init => TypeOK
<1>1. ASSUME Init PROVE env_free_list \in Seq(Env)
  <2>1. \A k \in 1..NENV : k - 1 \in Env
    BY KernelAssumption DEF Env
  <2>2. NENV \in Nat
    BY KernelAssumption
  <2> QED BY <1>1, <2>1, <2>2, IsASeq DEF Init
<1>2. 0 \in Env /\ ZeroId \in EnvId
  BY KernelAssumption DEF Env, EnvId, ZeroId
<1>3. ASSUME Init
      PROVE  /\ lock \in Cpu \cup {NoCpu}
             /\ pc \in [Cpu -> Pcs]
             /\ tf_cs \in [Cpu -> {"user", "kernel"}]
             /\ cpu_status \in [Cpu -> {"STARTED", "HALTED"}]
             /\ curenv \in [Cpu -> Env \cup {None}]
  BY <1>3, KernelAssumption DEF Init, Pcs, SpinPcs, KernelPcs
<1>4. ASSUME Init
      PROVE  /\ ctx \in [Cpu -> EnvId]
             /\ env_parent_id \in [Env -> EnvId]
             /\ env_tf \in [Env -> EnvId]
             /\ env_ipc_from \in [Env -> EnvId]
  BY <1>4, <1>2 DEF Init
<1>5. ASSUME Init
      PROVE  /\ env_status \in [Env -> Status]
             /\ env_gen \in [Env -> 0..MaxGen]
             /\ env_ipc_value \in [Env -> Values \cup {0}]
             /\ env_ipc_perm \in [Env -> Perms \cup {0}]
  BY <1>5, KernelAssumption DEF Init, Status
<1>6. ASSUME Init
      PROVE  /\ panicstr \in BOOLEAN
             /\ env_pgfault_upcall \in [Env -> BOOLEAN]
             /\ env_ipc_recving \in [Env -> BOOLEAN]
             /\ env_ipc_dstva \in [Env -> BOOLEAN]
  BY <1>6, Zenon DEF Init
<1> QED
  BY <1>1, <1>3, <1>4, <1>5, <1>6 DEF TypeOK

(* envid 0 is an env_id.                                                   *)
LEMMA ZeroIdType == ZeroId \in EnvId
  BY KernelAssumption DEF ZeroId, EnvId, Env

(***************************************************************************)
(* What the helpers that several actions call do to the CPU that calls     *)
(* them, and that they keep the types.                                     *)
(***************************************************************************)

(* env_run releases the lock and makes e current.                          *)
Ran(c, e) ==
    /\ lock = c /\ lock' = NoCpu
    /\ pc' = [pc EXCEPT ![c] = "pop"]
    /\ curenv' = [curenv EXCEPT ![c] = e]
    /\ env_status' \in [Env -> Status]
    /\ panicstr' = panicstr

(* From inside the kernel, so with the lock held, env_run does what Ran    *)
(* says.                                                                   *)
LEMMA RunEffect ==
    ASSUME LockIInv, NEW c \in Cpu, pc[c] \in KernelPcs, NEW e \in Env, env_run(c, e)
    PROVE  Ran(c, e)
<1>1. lock = c
  BY DEF LockIInv, LockInv
<1>2. lock' = NoCpu /\ pc' = [pc EXCEPT ![c] = "pop"] /\ panicstr' = panicstr
  BY <1>1 DEF env_run, spin_unlock, Goto
<1>3. curenv' = [curenv EXCEPT ![c] = e]
  BY DEF env_run, LockIInv, TypeOK
<1>4. env_status' \in [Env -> Status]
  BY DEF env_run, LockIInv, TypeOK, Status
<1> QED BY <1>1, <1>2, <1>3, <1>4 DEF Ran

(* env_destroy returns, or goes on to sched_yield without an environment.  *)
Destroyed(c) ==
    /\ \/ pc' = [pc EXCEPT ![c] = "ret"] /\ curenv' = curenv
       \/ pc' = [pc EXCEPT ![c] = "sched"] /\ curenv' = [curenv EXCEPT ![c] = None]
    /\ env_status' \in [Env -> Status]
    /\ env_free_list' \in Seq(Env)

(* env_destroy does what Destroyed says.                                   *)
LEMMA DestroyEffect ==
    ASSUME TypeOK, NEW c \in Cpu, NEW e \in Env, env_destroy(c, e)
    PROVE  Destroyed(c)
<1>1. <<e>> \o env_free_list \in Seq(Env)
  BY PushType DEF TypeOK
<1>2. env_status' \in [Env -> Status] /\ env_free_list' \in Seq(Env)
  BY <1>1 DEF env_destroy, env_free, TypeOK, Status
<1> QED BY <1>2 DEF env_destroy, Goto, Destroyed

(* sched_halt stops in the monitor, or releases the lock and halts.        *)
LEMMA HaltEffect ==
    ASSUME LockIInv, NEW c \in Cpu, pc[c] \in KernelPcs, sched_halt(c)
    PROVE  /\ lock = c
           /\ \/ /\ pc' = [pc EXCEPT ![c] = "monitor"]
                 /\ UNCHANGED <<lock, curenv, cpu_status>>
              \/ /\ pc' = [pc EXCEPT ![c] = "halt"] /\ lock' = NoCpu
                 /\ curenv' = [curenv EXCEPT ![c] = None]
                 /\ cpu_status' = [cpu_status EXCEPT ![c] = "HALTED"]
           /\ panicstr' = panicstr /\ env_status' = env_status
<1>1. lock = c
  BY DEF LockIInv, LockInv
<1> QED BY <1>1 DEF sched_halt, spin_unlock, Goto

(* The ways through sched_yield, on the caller's side: run a runnable      *)
(* environment or go on with the present one, or halt.                     *)
RunsNext(c, e) ==
    /\ env_status[e] = "RUNNABLE" \/ (e = curenv[c] /\ env_status[e] = "RUNNING")
    /\ env_run(c, e)
    /\ cpu_status' = cpu_status

Halts(c) == sched_halt(c) /\ (curenv[c] = None \/ env_status[curenv[c]] # "RUNNING")

(* sched_yield takes one of these two ways.                                *)
LEMMA YieldEffect ==
    ASSUME LockIInv, NEW c \in Cpu, sched_yield(c)
    PROVE  Halts(c) \/ \E e \in Env : RunsNext(c, e)
<1>1. ASSUME curenv[c] # None PROVE curenv[c] \in Env
  BY <1>1 DEF LockIInv, TypeOK
<1>2. CASE \E e \in Runnable : /\ \A f \in Runnable : Dist(ScanStart(c), e) <= Dist(ScanStart(c), f)
                              /\ env_run(c, e)
                              /\ UNCHANGED cpu_status
  <2>1. PICK e \in Runnable : env_run(c, e) /\ UNCHANGED cpu_status
    BY <1>2
  <2>2. e \in Env /\ env_status[e] = "RUNNABLE"
    BY DEF Runnable
  <2>3. RunsNext(c, e)
    BY <2>1, <2>2 DEF RunsNext
  <2> QED BY <2>2, <2>3
<1>3. CASE /\ curenv[c] # None /\ env_status[curenv[c]] = "RUNNING"
           /\ env_run(c, curenv[c])
           /\ UNCHANGED cpu_status
  <2>1. RunsNext(c, curenv[c])
    BY <1>3 DEF RunsNext
  <2> QED BY <1>1, <1>3, <2>1
<1>4. CASE /\ ~(curenv[c] # None /\ env_status[curenv[c]] = "RUNNING")
           /\ sched_halt(c)
  BY <1>4 DEF Halts
<1> QED BY <1>2, <1>3, <1>4 DEF sched_yield

(* Every step of a CPU keeps the types; in particular curenv is not the    *)
(* null pointer wherever a handler follows it (HasCurenv).                 *)
LEMMA TypeStep ==
    ASSUME LockIInv, NEW c \in Cpu, Step(c)
    PROVE  TypeOK'
<1>0. TypeOK /\ LockInv /\ ModeInv /\ HasCurenv
  BY DEF LockIInv
<1> USE <1>0 DEF TypeOK, HasCurenv, Pcs, SpinPcs, KernelPcs, Goto, Panic, cpuVars, ipcData, allocVars, envVars, Dispatch, UserDispatch
<1>1. CASE env_create(c)
  <2> DEFINE e == Head(env_free_list)
  <2>1. e \in Env /\ Tail(env_free_list) \in Seq(Env)
    BY <1>1, PopType DEF env_create, env_alloc
  <2>2. NextGen(env_gen[e]) \in 0..MaxGen /\ <<e, NextGen(env_gen[e])>> \in EnvId
    BY <2>1, KernelAssumption DEF NextGen, EnvId
  <2>3. ZeroId \in EnvId
    BY ZeroIdType
  <2> HIDE DEF e
  <2> QED BY <1>1, <2>1, <2>2, <2>3 DEF e, env_create, env_alloc, Status
<1>2. CASE trap(c)
  BY <1>2, ZenonT(60) DEF trap
<1>3. CASE spin_lock(c)
  BY <1>3, ZenonT(60) DEF spin_lock
<1>4. CASE TrapSave(c)
  <2>1. curenv[c] \in Env
    BY <1>4 DEF TrapSave
  <2>2. <<curenv[c]>> \o env_free_list \in Seq(Env)
    BY <2>1, PushType
  <2>3. curenv[c] # None
    BY <1>4 DEF TrapSave
  <2>4. CASE env_status[curenv[c]] = "DYING"
    BY <1>4, <2>2, <2>3, <2>4, ZenonT(60) DEF TrapSave, env_free, Status
  <2>5. CASE env_status[curenv[c]] # "DYING"
    <3>0. /\ env_tf' = [env_tf EXCEPT ![curenv[c]] = ctx[c]]
          /\ pc' = [pc EXCEPT ![c] = "dispatch"]
      BY <1>4, <2>3, <2>5 DEF TrapSave
    <3>1. env_tf' \in [Env -> EnvId] /\ pc' \in [Cpu -> Pcs]
      BY <3>0, <1>0
    <3>2. UNCHANGED <<lock, cpuVars, curenv, panicstr, env_status, env_gen, env_parent_id,
                      env_pgfault_upcall, env_ipc_recving, ipcData, env_free_list>>
      BY <1>4, <2>3, <2>5 DEF TrapSave
    <3> QED BY <3>1, <3>2
  <2> QED BY <2>4, <2>5
<1>5. CASE TrapReturn(c)
  <2>1. pc[c] = "ret" /\ pc[c] \in KernelPcs
    BY <1>5 DEF TrapReturn, KernelPcs
  <2>2. CASE curenv[c] # None /\ env_status[curenv[c]] = "RUNNING"
    <3>1. curenv[c] \in Env /\ env_run(c, curenv[c])
      BY <1>5, <2>2 DEF TrapReturn
    <3>2. Ran(c, curenv[c])
      BY <2>1, <3>1, RunEffect
    <3> QED BY <1>5, <2>1, <3>1, <3>2 DEF TrapReturn, Ran
  <2>3. CASE ~(curenv[c] # None /\ env_status[curenv[c]] = "RUNNING")
    BY <1>5, <2>1, <2>3 DEF TrapReturn
  <2> QED BY <2>2, <2>3
<1>6. CASE env_pop_tf(c)
  BY <1>6 DEF env_pop_tf
<1>7. CASE Monitor(c)
  BY <1>7 DEF Monitor, vars
<1>8. CASE sched_yield(c)
  <2>1. pc[c] = "sched" /\ pc[c] \in KernelPcs
    BY <1>8 DEF sched_yield, KernelPcs
  <2>2. ASSUME NEW e \in Env, RunsNext(c, e) PROVE TypeOK'
    <3>1. Ran(c, e)
      BY <2>1, <2>2, RunEffect DEF RunsNext
    <3> QED BY <1>8, <2>1, <2>2, <3>1 DEF sched_yield, RunsNext, Ran
  <2>3. ASSUME Halts(c) PROVE TypeOK'
    BY <1>8, <2>1, <2>3, HaltEffect, ZenonT(60) DEF sched_yield, Halts
  <2> QED BY <1>8, <2>2, <2>3, YieldEffect
<1>9. CASE TimerOrYield(c)
  BY <1>9 DEF TimerOrYield
<1>10. CASE NoEffect(c)
  BY <1>10 DEF NoEffect
<1>11. CASE UnhandledInUser(c)
  <2>1. pc[c] = "dispatch" /\ curenv[c] \in Env /\ env_destroy(c, curenv[c])
    BY <1>11 DEF UnhandledInUser
  <2>2. Destroyed(c)
    BY <2>1, DestroyEffect
  <2> QED BY <1>11, <2>1, <2>2 DEF UnhandledInUser, Destroyed
<1>12. CASE UnhandledInHalt(c)
  BY <1>12 DEF UnhandledInHalt
<1>13. CASE Breakpoint(c)
  BY <1>13 DEF Breakpoint
<1>14. CASE page_fault_handler(c)
  <2>1. pc[c] = "dispatch" /\ pc[c] \in KernelPcs /\ curenv[c] \in Env
    BY <1>14 DEF page_fault_handler, KernelPcs
  <2>2. CASE env_run(c, curenv[c]) /\ UNCHANGED env_free_list
    <3>1. Ran(c, curenv[c])
      BY <2>1, <2>2, RunEffect
    <3> QED BY <1>14, <2>1, <2>2, <3>1 DEF page_fault_handler, Ran
  <2>3. CASE env_destroy(c, curenv[c]) /\ UNCHANGED <<lock, panicstr>>
    <3>1. Destroyed(c)
      BY <2>1, <2>3, DestroyEffect
    <3> QED BY <1>14, <2>1, <2>3, <3>1 DEF page_fault_handler, Destroyed
  <2> QED BY <1>14, <2>2, <2>3 DEF page_fault_handler
<1>15. CASE sys_exofork(c)
  <2> DEFINE e == Head(env_free_list)
  <2>1. e \in Env /\ Tail(env_free_list) \in Seq(Env)
    BY <1>15, PopType DEF sys_exofork, env_alloc
  <2>2. NextGen(env_gen[e]) \in 0..MaxGen /\ <<e, NextGen(env_gen[e])>> \in EnvId
    BY <2>1, KernelAssumption DEF NextGen, EnvId
  <2>3. Id(curenv[c]) \in EnvId
    BY <1>15, KernelAssumption DEF sys_exofork, EnvId, Env, ZeroId, Id
  <2> HIDE DEF e
  <2> QED BY <1>15, <2>1, <2>2, <2>3 DEF e, sys_exofork, env_alloc, Status
<1>16. CASE sys_env_set_status(c)
  BY <1>16, ZenonT(60) DEF sys_env_set_status, Status
<1>17. CASE sys_env_set_pgfault_upcall(c)
  BY <1>17 DEF sys_env_set_pgfault_upcall
<1>18. CASE sys_env_destroy(c)
  <2>1. PICK e \in Env : env_destroy(c, e)
    BY <1>18, envid2envType DEF sys_env_destroy
  <2>2. pc[c] = "dispatch"
    BY <1>18 DEF sys_env_destroy
  <2>3. Destroyed(c)
    BY <2>1, DestroyEffect
  <2> QED BY <1>18, <2>2, <2>3 DEF sys_env_destroy, Destroyed
<1>19. CASE sys_ipc_recv(c)
  BY <1>19 DEF sys_ipc_recv, Status
<1>20. CASE sys_ipc_try_send(c)
  <2>1. Id(curenv[c]) \in EnvId
    BY <1>20 DEF sys_ipc_try_send, Id, EnvId
  <2>2. /\ env_ipc_recving' \in [Env -> BOOLEAN]
        /\ env_ipc_from' \in [Env -> EnvId]
        /\ env_ipc_value' \in [Env -> Values \cup {0}]
        /\ env_status' \in [Env -> Status]
    <3>1. CASE UNCHANGED <<env_ipc_recving, env_ipc_from, env_ipc_value, env_status>>
      BY <3>1
    <3>2. ASSUME NEW e, NEW value \in Values, Deliver(c, e, value)
          PROVE  /\ env_ipc_recving' \in [Env -> BOOLEAN]
                 /\ env_ipc_from' \in [Env -> EnvId]
                 /\ env_ipc_value' \in [Env -> Values \cup {0}]
                 /\ env_status' \in [Env -> Status]
      BY <3>2, <2>1 DEF Deliver, Status
    <3> QED BY <1>20, <3>1, <3>2 DEF sys_ipc_try_send
  <2>3. env_ipc_perm' \in [Env -> Perms \cup {0}]
    BY <1>20, ZenonT(60) DEF sys_ipc_try_send
  <2> QED BY <1>20, <2>2, <2>3 DEF sys_ipc_try_send
<1> QED
  BY <1>1, <1>2, <1>3, <1>4, <1>5, <1>6, <1>7, <1>8, <1>9, <1>10, <1>11, <1>12,
     <1>13, <1>14, <1>15, <1>16, <1>17, <1>18, <1>19, <1>20 DEF Step

(* Every step of a CPU keeps "inside the kernel" equal to "holds the       *)
(* lock".                                                                  *)
LEMMA LockInvStep ==
    ASSUME LockIInv, NEW c \in Cpu, Step(c)
    PROVE  LockInv'
<1>0. TypeOK /\ LockInv /\ ModeInv /\ HasCurenv
  BY DEF LockIInv
<1> USE <1>0 DEF TypeOK, LockInv, KernelPcs, SpinPcs, ModeInv, HasCurenv, Goto, Panic, cpuVars, ipcData, allocVars, envVars, Dispatch, UserDispatch
<1>1. CASE env_create(c)
  BY <1>1, KernelAssumption DEF env_create, env_alloc
<1>2. CASE trap(c)
  <2>1. CASE panicstr
    BY <1>2, <2>1, KernelAssumption, ZenonT(60) DEF trap
  <2>2. CASE ~panicstr /\ pc[c] = "user"
    BY <1>2, <2>2, KernelAssumption, ZenonT(60) DEF trap
  <2>3. CASE ~panicstr /\ pc[c] = "halt"
    BY <1>2, <2>3, KernelAssumption, ZenonT(60) DEF trap
  <2> QED BY <1>2, <2>1, <2>2, <2>3 DEF trap
<1>3. CASE spin_lock(c)
  BY <1>3, KernelAssumption DEF spin_lock
<1>4. CASE TrapSave(c)
  BY <1>4, KernelAssumption DEF TrapSave, env_free
<1>5. CASE TrapReturn(c)
  <2>1. pc[c] = "ret" /\ pc[c] \in KernelPcs
    BY <1>5 DEF TrapReturn, KernelPcs
  <2>2. CASE curenv[c] # None /\ env_status[curenv[c]] = "RUNNING"
    <3>1. curenv[c] \in Env /\ env_run(c, curenv[c])
      BY <1>5, <2>2 DEF TrapReturn
    <3>2. Ran(c, curenv[c])
      BY <2>1, <3>1, RunEffect
    <3> QED BY <1>5, <2>1, <3>1, <3>2, KernelAssumption DEF TrapReturn, Ran
  <2>3. CASE ~(curenv[c] # None /\ env_status[curenv[c]] = "RUNNING")
    BY <1>5, <2>1, <2>3, KernelAssumption DEF TrapReturn
  <2> QED BY <2>2, <2>3
<1>6. CASE env_pop_tf(c)
  BY <1>6, KernelAssumption DEF env_pop_tf
<1>7. CASE Monitor(c)
  BY <1>7, KernelAssumption DEF Monitor, vars
<1>8. CASE sched_yield(c)
  <2>1. pc[c] = "sched" /\ pc[c] \in KernelPcs
    BY <1>8 DEF sched_yield, KernelPcs
  <2>2. ASSUME NEW e \in Env, RunsNext(c, e) PROVE LockInv'
    <3>1. Ran(c, e)
      BY <2>1, <2>2, RunEffect DEF RunsNext
    <3> QED BY <1>8, <2>1, <2>2, <3>1, KernelAssumption DEF sched_yield, RunsNext, Ran
  <2>3. ASSUME Halts(c) PROVE LockInv'
    BY <1>8, <2>1, <2>3, HaltEffect, KernelAssumption DEF sched_yield, Halts
  <2> QED BY <1>8, <2>2, <2>3, YieldEffect
<1>9. CASE TimerOrYield(c)
  BY <1>9, KernelAssumption DEF TimerOrYield
<1>10. CASE NoEffect(c)
  BY <1>10, KernelAssumption DEF NoEffect
<1>11. CASE UnhandledInUser(c)
  <2>1. pc[c] = "dispatch" /\ curenv[c] \in Env /\ env_destroy(c, curenv[c])
    BY <1>11 DEF UnhandledInUser
  <2>2. Destroyed(c)
    BY <2>1, DestroyEffect
  <2> QED BY <1>11, <2>1, <2>2, KernelAssumption DEF UnhandledInUser, Destroyed
<1>12. CASE UnhandledInHalt(c)
  BY <1>12, KernelAssumption DEF UnhandledInHalt
<1>13. CASE Breakpoint(c)
  BY <1>13, KernelAssumption DEF Breakpoint
<1>14. CASE page_fault_handler(c)
  <2>1. pc[c] = "dispatch" /\ pc[c] \in KernelPcs /\ curenv[c] \in Env
    BY <1>14 DEF page_fault_handler, KernelPcs
  <2>2. CASE env_run(c, curenv[c]) /\ UNCHANGED env_free_list
    <3>1. Ran(c, curenv[c])
      BY <2>1, <2>2, RunEffect
    <3> QED BY <1>14, <2>1, <2>2, <3>1, KernelAssumption DEF page_fault_handler, Ran
  <2>3. CASE env_destroy(c, curenv[c]) /\ UNCHANGED <<lock, panicstr>>
    <3>1. Destroyed(c)
      BY <2>1, <2>3, DestroyEffect
    <3> QED BY <1>14, <2>1, <2>3, <3>1, KernelAssumption DEF page_fault_handler, Destroyed
  <2> QED BY <1>14, <2>2, <2>3 DEF page_fault_handler
<1>15. CASE sys_exofork(c)
  BY <1>15, KernelAssumption DEF sys_exofork, env_alloc
<1>16. CASE sys_env_set_status(c)
  BY <1>16, KernelAssumption DEF sys_env_set_status
<1>17. CASE sys_env_set_pgfault_upcall(c)
  BY <1>17, KernelAssumption DEF sys_env_set_pgfault_upcall
<1>18. CASE sys_env_destroy(c)
  <2>1. PICK e \in Env : env_destroy(c, e)
    BY <1>18, envid2envType DEF sys_env_destroy
  <2>2. pc[c] = "dispatch"
    BY <1>18 DEF sys_env_destroy
  <2>3. Destroyed(c)
    BY <2>1, DestroyEffect
  <2> QED BY <1>18, <2>2, <2>3, KernelAssumption DEF sys_env_destroy, Destroyed
<1>19. CASE sys_ipc_recv(c)
  BY <1>19, KernelAssumption DEF sys_ipc_recv
<1>20. CASE sys_ipc_try_send(c)
  BY <1>20, KernelAssumption DEF sys_ipc_try_send, Deliver
<1> QED
  BY <1>1, <1>2, <1>3, <1>4, <1>5, <1>6, <1>7, <1>8, <1>9, <1>10, <1>11, <1>12,
     <1>13, <1>14, <1>15, <1>16, <1>17, <1>18, <1>19, <1>20 DEF Step

(* Every step keeps cpu_status and the trapped privilege level in          *)
(* agreement with where the CPU is: a CPU is HALTED only while it halts,   *)
(* so trap() takes the lock once and not twice.                            *)
LEMMA ModeStep ==
    ASSUME LockIInv, NEW c \in Cpu, Step(c)
    PROVE  ModeInv'
<1>0. TypeOK /\ LockInv /\ ModeInv /\ HasCurenv
  BY DEF LockIInv
<1> USE <1>0 DEF TypeOK, ModeInv, SpinPcs, HasCurenv, Goto, Panic, cpuVars, ipcData, allocVars, envVars, Dispatch, UserDispatch
<1>1. CASE env_create(c)
  BY <1>1 DEF env_create, env_alloc
<1>2. CASE trap(c)
  <2>1. CASE panicstr
    BY <1>2, <2>1 DEF trap
  <2>2. CASE ~panicstr /\ pc[c] = "user"
    BY <1>2, <2>2 DEF trap
  <2>3. CASE ~panicstr /\ pc[c] = "halt"
    BY <1>2, <2>3 DEF trap
  <2> QED BY <1>2, <2>1, <2>2, <2>3 DEF trap
<1>3. CASE spin_lock(c)
  BY <1>3 DEF spin_lock
<1>4. CASE TrapSave(c)
  BY <1>4 DEF TrapSave, env_free
<1>5. CASE TrapReturn(c)
  <2>1. pc[c] = "ret" /\ pc[c] \in KernelPcs
    BY <1>5 DEF TrapReturn, KernelPcs
  <2>2. CASE curenv[c] # None /\ env_status[curenv[c]] = "RUNNING"
    <3>1. curenv[c] \in Env /\ env_run(c, curenv[c])
      BY <1>5, <2>2 DEF TrapReturn
    <3>2. Ran(c, curenv[c])
      BY <2>1, <3>1, RunEffect
    <3> QED BY <1>5, <2>1, <3>1, <3>2 DEF TrapReturn, Ran
  <2>3. CASE ~(curenv[c] # None /\ env_status[curenv[c]] = "RUNNING")
    BY <1>5, <2>1, <2>3 DEF TrapReturn
  <2> QED BY <2>2, <2>3
<1>6. CASE env_pop_tf(c)
  BY <1>6 DEF env_pop_tf
<1>7. CASE Monitor(c)
  BY <1>7 DEF Monitor, vars
<1>8. CASE sched_yield(c)
  <2>1. pc[c] = "sched" /\ pc[c] \in KernelPcs
    BY <1>8 DEF sched_yield, KernelPcs
  <2>2. ASSUME NEW e \in Env, RunsNext(c, e) PROVE ModeInv'
    <3>1. Ran(c, e)
      BY <2>1, <2>2, RunEffect DEF RunsNext
    <3> QED BY <1>8, <2>1, <2>2, <3>1 DEF sched_yield, RunsNext, Ran
  <2>3. ASSUME Halts(c) PROVE ModeInv'
    BY <1>8, <2>1, <2>3, HaltEffect, ZenonT(60) DEF sched_yield, Halts
  <2> QED BY <1>8, <2>2, <2>3, YieldEffect
<1>9. CASE TimerOrYield(c)
  BY <1>9 DEF TimerOrYield
<1>10. CASE NoEffect(c)
  BY <1>10 DEF NoEffect
<1>11. CASE UnhandledInUser(c)
  <2>1. pc[c] = "dispatch" /\ curenv[c] \in Env /\ env_destroy(c, curenv[c])
    BY <1>11 DEF UnhandledInUser
  <2>2. Destroyed(c)
    BY <2>1, DestroyEffect
  <2> QED BY <1>11, <2>1, <2>2 DEF UnhandledInUser, Destroyed
<1>12. CASE UnhandledInHalt(c)
  BY <1>12 DEF UnhandledInHalt
<1>13. CASE Breakpoint(c)
  BY <1>13 DEF Breakpoint
<1>14. CASE page_fault_handler(c)
  <2>1. pc[c] = "dispatch" /\ pc[c] \in KernelPcs /\ curenv[c] \in Env
    BY <1>14 DEF page_fault_handler, KernelPcs
  <2>2. CASE env_run(c, curenv[c]) /\ UNCHANGED env_free_list
    <3>1. Ran(c, curenv[c])
      BY <2>1, <2>2, RunEffect
    <3> QED BY <1>14, <2>1, <2>2, <3>1 DEF page_fault_handler, Ran
  <2>3. CASE env_destroy(c, curenv[c]) /\ UNCHANGED <<lock, panicstr>>
    <3>1. Destroyed(c)
      BY <2>1, <2>3, DestroyEffect
    <3> QED BY <1>14, <2>1, <2>3, <3>1 DEF page_fault_handler, Destroyed
  <2> QED BY <1>14, <2>2, <2>3 DEF page_fault_handler
<1>15. CASE sys_exofork(c)
  BY <1>15 DEF sys_exofork, env_alloc
<1>16. CASE sys_env_set_status(c)
  BY <1>16 DEF sys_env_set_status
<1>17. CASE sys_env_set_pgfault_upcall(c)
  BY <1>17 DEF sys_env_set_pgfault_upcall
<1>18. CASE sys_env_destroy(c)
  <2>1. PICK e \in Env : env_destroy(c, e)
    BY <1>18, envid2envType DEF sys_env_destroy
  <2>2. pc[c] = "dispatch"
    BY <1>18 DEF sys_env_destroy
  <2>3. Destroyed(c)
    BY <2>1, DestroyEffect
  <2> QED BY <1>18, <2>2, <2>3 DEF sys_env_destroy, Destroyed
<1>19. CASE sys_ipc_recv(c)
  BY <1>19 DEF sys_ipc_recv
<1>20. CASE sys_ipc_try_send(c)
  BY <1>20 DEF sys_ipc_try_send, Deliver
<1> QED
  BY <1>1, <1>2, <1>3, <1>4, <1>5, <1>6, <1>7, <1>8, <1>9, <1>10, <1>11, <1>12,
     <1>13, <1>14, <1>15, <1>16, <1>17, <1>18, <1>19, <1>20 DEF Step

(* Every step keeps curenv set on a CPU that is in user mode, on its way   *)
(* there, or in a handler of a trap from user mode.                        *)
LEMMA HasCurenvStep ==
    ASSUME LockIInv, NEW c \in Cpu, Step(c)
    PROVE  HasCurenv'
<1>0. TypeOK /\ LockInv /\ ModeInv /\ HasCurenv
  BY DEF LockIInv
<1> USE <1>0 DEF TypeOK, HasCurenv, ModeInv, SpinPcs, Goto, Panic, cpuVars, ipcData, allocVars, envVars, Dispatch, UserDispatch
<1>1. CASE env_create(c)
  BY <1>1 DEF env_create, env_alloc
<1>2. CASE trap(c)
  BY <1>2 DEF trap
<1>3. CASE spin_lock(c)
  BY <1>3 DEF spin_lock
<1>4. CASE TrapSave(c)
  BY <1>4 DEF TrapSave, env_free
<1>5. CASE TrapReturn(c)
  <2>1. pc[c] = "ret" /\ pc[c] \in KernelPcs
    BY <1>5 DEF TrapReturn, KernelPcs
  <2>2. CASE curenv[c] # None /\ env_status[curenv[c]] = "RUNNING"
    <3>1. curenv[c] \in Env /\ env_run(c, curenv[c])
      BY <1>5, <2>2 DEF TrapReturn
    <3>2. Ran(c, curenv[c])
      BY <2>1, <3>1, RunEffect
    <3> QED BY <1>5, <2>1, <3>1, <3>2 DEF TrapReturn, Ran, None, Env
  <2>3. CASE ~(curenv[c] # None /\ env_status[curenv[c]] = "RUNNING")
    BY <1>5, <2>1, <2>3 DEF TrapReturn, None, Env
  <2> QED BY <2>2, <2>3
<1>6. CASE env_pop_tf(c)
  BY <1>6 DEF env_pop_tf
<1>7. CASE Monitor(c)
  BY <1>7 DEF Monitor, vars
<1>8. CASE sched_yield(c)
  <2>1. pc[c] = "sched" /\ pc[c] \in KernelPcs
    BY <1>8 DEF sched_yield, KernelPcs
  <2>2. ASSUME NEW e \in Env, RunsNext(c, e) PROVE HasCurenv'
    <3>1. Ran(c, e)
      BY <2>1, <2>2, RunEffect DEF RunsNext
    <3> QED BY <1>8, <2>1, <2>2, <3>1 DEF sched_yield, RunsNext, Ran, None, Env
  <2>3. ASSUME Halts(c) PROVE HasCurenv'
    BY <1>8, <2>1, <2>3, HaltEffect DEF sched_yield, Halts, None, Env
  <2> QED BY <1>8, <2>2, <2>3, YieldEffect
<1>9. CASE TimerOrYield(c)
  BY <1>9 DEF TimerOrYield
<1>10. CASE NoEffect(c)
  BY <1>10 DEF NoEffect
<1>11. CASE UnhandledInUser(c)
  <2>1. pc[c] = "dispatch" /\ curenv[c] \in Env /\ env_destroy(c, curenv[c])
    BY <1>11 DEF UnhandledInUser
  <2>2. Destroyed(c)
    BY <2>1, DestroyEffect
  <2> QED BY <1>11, <2>1, <2>2 DEF UnhandledInUser, Destroyed, None, Env
<1>12. CASE UnhandledInHalt(c)
  BY <1>12 DEF UnhandledInHalt
<1>13. CASE Breakpoint(c)
  BY <1>13 DEF Breakpoint
<1>14. CASE page_fault_handler(c)
  <2>1. pc[c] = "dispatch" /\ pc[c] \in KernelPcs /\ curenv[c] \in Env
    BY <1>14 DEF page_fault_handler, KernelPcs
  <2>2. CASE env_run(c, curenv[c]) /\ UNCHANGED env_free_list
    <3>1. Ran(c, curenv[c])
      BY <2>1, <2>2, RunEffect
    <3> QED BY <1>14, <2>1, <2>2, <3>1 DEF page_fault_handler, Ran, None, Env
  <2>3. CASE env_destroy(c, curenv[c]) /\ UNCHANGED <<lock, panicstr>>
    <3>1. Destroyed(c)
      BY <2>1, <2>3, DestroyEffect
    <3> QED BY <1>14, <2>1, <2>3, <3>1 DEF page_fault_handler, Destroyed, None, Env
  <2> QED BY <1>14, <2>2, <2>3 DEF page_fault_handler
<1>15. CASE sys_exofork(c)
  BY <1>15 DEF sys_exofork, env_alloc
<1>16. CASE sys_env_set_status(c)
  BY <1>16 DEF sys_env_set_status
<1>17. CASE sys_env_set_pgfault_upcall(c)
  BY <1>17 DEF sys_env_set_pgfault_upcall
<1>18. CASE sys_env_destroy(c)
  <2>1. PICK e \in Env : env_destroy(c, e)
    BY <1>18, envid2envType DEF sys_env_destroy
  <2>2. pc[c] = "dispatch"
    BY <1>18 DEF sys_env_destroy
  <2>3. Destroyed(c)
    BY <2>1, DestroyEffect
  <2> QED BY <1>18, <2>2, <2>3 DEF sys_env_destroy, Destroyed, None, Env
<1>19. CASE sys_ipc_recv(c)
  BY <1>19 DEF sys_ipc_recv
<1>20. CASE sys_ipc_try_send(c)
  BY <1>20 DEF sys_ipc_try_send, Deliver
<1> QED
  BY <1>1, <1>2, <1>3, <1>4, <1>5, <1>6, <1>7, <1>8, <1>9, <1>10, <1>11, <1>12,
     <1>13, <1>14, <1>15, <1>16, <1>17, <1>18, <1>19, <1>20 DEF Step

(* The unconditional invariant holds at boot.                              *)
LEMMA LockIInvInit == Init => LockIInv
<1> SUFFICES ASSUME Init PROVE LockIInv
  OBVIOUS
<1>1. TypeOK
  BY InitType
<1>2. LockInv
  BY KernelAssumption DEF Init, LockInv, KernelPcs
<1>3. ModeInv
  BY DEF Init, ModeInv
<1>4. HasCurenv
  BY DEF Init, HasCurenv
<1> QED BY <1>1, <1>2, <1>3, <1>4 DEF LockIInv

(* The unconditional invariant is inductive.                               *)
LEMMA LockIInvStep == LockIInv /\ [Next]_vars => LockIInv'
<1> SUFFICES ASSUME LockIInv, [Next]_vars PROVE LockIInv'
  OBVIOUS
<1>1. ASSUME NEW c \in Cpu, Step(c) PROVE LockIInv'
  BY <1>1, TypeStep, LockInvStep, ModeStep, HasCurenvStep DEF LockIInv
<1>2. CASE UNCHANGED vars
  <2>1. TypeOK' /\ LockInv' /\ ModeInv' /\ HasCurenv'
    BY <1>2 DEF LockIInv, vars, cpuVars, envVars, allocVars, ipcData, TypeOK, LockInv, ModeInv, HasCurenv
  <2> QED BY <2>1 DEF LockIInv
<1> QED BY <1>1, <1>2 DEF Next

(* Whatever the programs do, every variable keeps its type.                *)
THEOREM TypeCorrect == Spec => []TypeOK
<1>1. LockIInv => TypeOK
  BY DEF LockIInv
<1> QED BY <1>1, LockIInvInit, LockIInvStep, PTL DEF Spec

(* Whatever the programs do, the CPUs inside the kernel are those that     *)
(* hold the lock: at most one CPU at a time reads or writes envs[], no     *)
(* path panics in spin_lock or spin_unlock, none leaves with the lock.     *)
THEOREM LockSafety == Spec => []LockInv
<1>1. LockIInv => LockInv
  BY DEF LockIInv
<1> QED BY <1>1, LockIInvInit, LockIInvStep, PTL DEF Spec

(***************************************************************************)
(* Who may kill an environment, whatever the programs do                   *)
(***************************************************************************)

(* The step takes slot i to FREE or DYING.                                 *)
Kills(i) == env_status[i] # env_status'[i] /\ env_status'[i] \in {"FREE", "DYING"}

(* Some CPU inside the kernel runs slot i or the parent of it.             *)
HasKiller(i) ==
    \E c \in Cpu :
        /\ lock = c /\ curenv[c] # None
        /\ curenv[c] = i \/ env_parent_id[i] = Id(curenv[c])

(* env_destroy only kills the environment it is called for.                *)
LEMMA DestroyKills ==
    ASSUME TypeOK, NEW c \in Cpu, NEW e \in Env, env_destroy(c, e), NEW i \in Env, Kills(i)
    PROVE  i = e
  BY DEF TypeOK, env_destroy, env_free, Kills

(* Only TrapSave (of a zombie) and the actions that call env_destroy kill, *)
(* and each of them kills the caller's own environment or a child of it.   *)
LEMMA KillStep ==
    ASSUME LockIInv, NEW c \in Cpu, Step(c), NEW i \in Env, Kills(i)
    PROVE  HasKiller(i)
<1>00. LockIInv
  OBVIOUS
<1>0. TypeOK /\ LockInv /\ HasCurenv
  BY DEF LockIInv
<1> USE DEF Kills
<1>1. CASE env_create(c)
  BY <1>0, <1>1 DEF env_create, env_alloc, TypeOK
<1>2. CASE trap(c)
  BY <1>2 DEF trap, envVars
<1>3. CASE spin_lock(c)
  BY <1>3 DEF spin_lock, envVars
<1>4. CASE TrapSave(c)
  <2>1. lock = c /\ curenv[c] # None /\ curenv[c] = i
    BY <1>0, <1>4 DEF TrapSave, env_free, envVars, TypeOK, LockInv, KernelPcs, HasCurenv
  <2> QED BY <2>1 DEF HasKiller
<1>5. CASE TrapReturn(c)
  BY <1>5 DEF TrapReturn, env_run
<1>6. CASE env_pop_tf(c)
  BY <1>6 DEF env_pop_tf, envVars
<1>7. CASE Monitor(c)
  BY <1>7 DEF Monitor, vars, envVars
<1>8. CASE sched_yield(c)
  <2>1. ASSUME NEW e \in Env, env_run(c, e) PROVE FALSE
    <3>1. env_status'[i] \in {env_status[i], "RUNNING", "RUNNABLE"}
      BY <1>0, <2>1 DEF env_run, TypeOK
    <3> QED BY <3>1
  <2>2. ASSUME sched_halt(c) PROVE FALSE
    BY <2>2 DEF sched_halt
  <2> QED BY <1>8, <1>00, <2>1, <2>2, YieldEffect DEF RunsNext, Halts
<1>9. CASE TimerOrYield(c)
  BY <1>9 DEF TimerOrYield, envVars
<1>10. CASE NoEffect(c)
  BY <1>10 DEF NoEffect, envVars
<1>11. CASE UnhandledInUser(c)
  <2>1. pc[c] = "dispatch" /\ lock = c /\ curenv[c] \in Env /\ curenv[c] # None
    BY <1>0, <1>11 DEF UnhandledInUser, UserDispatch, Dispatch, LockInv, KernelPcs, HasCurenv, TypeOK
  <2> QED BY <1>0, <1>11, <2>1, DestroyKills DEF UnhandledInUser, HasKiller
<1>12. CASE UnhandledInHalt(c)
  BY <1>12 DEF UnhandledInHalt, envVars
<1>13. CASE Breakpoint(c)
  BY <1>13 DEF Breakpoint, envVars
<1>14. CASE page_fault_handler(c)
  <2>1. pc[c] = "dispatch" /\ lock = c /\ curenv[c] \in Env /\ curenv[c] # None
    BY <1>0, <1>14 DEF page_fault_handler, UserDispatch, Dispatch, LockInv, KernelPcs, HasCurenv, TypeOK
  <2>2. env_destroy(c, curenv[c])
    BY <1>14 DEF page_fault_handler, env_run
  <2> QED BY <1>0, <2>1, <2>2, DestroyKills DEF HasKiller
<1>15. CASE sys_exofork(c)
  BY <1>0, <1>15 DEF sys_exofork, env_alloc, TypeOK
<1>16. CASE sys_env_set_status(c)
  BY <1>0, <1>16 DEF sys_env_set_status, TypeOK
<1>17. CASE sys_env_set_pgfault_upcall(c)
  BY <1>17 DEF sys_env_set_pgfault_upcall
<1>18. CASE sys_env_destroy(c)
  <2>1. pc[c] = "dispatch" /\ lock = c /\ curenv[c] \in Env /\ curenv[c] # None
    BY <1>0, <1>18 DEF sys_env_destroy, UserDispatch, Dispatch, LockInv, KernelPcs, HasCurenv, TypeOK
  <2>2. PICK envid \in EnvId : /\ envid2env(c, envid, TRUE) # None
                              /\ env_destroy(c, envid2env(c, envid, TRUE))
    BY <1>18 DEF sys_env_destroy
  <2>3. envid2env(c, envid, TRUE) \in Env
    BY <1>0, <2>2, envid2envType
  <2>4. i = envid2env(c, envid, TRUE)
    BY <1>0, <2>2, <2>3, DestroyKills
  <2>5. curenv[c] = i \/ env_parent_id[i] = Id(curenv[c])
    BY <2>2, <2>4 DEF envid2env
  <2> QED BY <2>1, <2>5 DEF HasKiller
<1>19. CASE sys_ipc_recv(c)
  BY <1>0, <1>19 DEF sys_ipc_recv, TypeOK
<1>20. CASE sys_ipc_try_send(c)
  <2>1. env_status' = env_status \/ \E e \in Env \cup {None} : env_status' = [env_status EXCEPT ![e] = "RUNNABLE"]
    BY <1>0, <1>20, envid2envType DEF sys_ipc_try_send, Deliver
  <2> QED BY <1>0, <2>1 DEF TypeOK
<1> QED
  BY <1>1, <1>2, <1>3, <1>4, <1>5, <1>6, <1>7, <1>8, <1>9, <1>10, <1>11, <1>12,
     <1>13, <1>14, <1>15, <1>16, <1>17, <1>18, <1>19, <1>20 DEF Step

(* Whatever the programs do, an environment is killed only by itself or by *)
(* its parent, running on the CPU that holds the kernel lock: envid2env's  *)
(* checks are enough, and no stale curenv gets past trap().                *)
THEOREM KillAuthority == Spec => KilledBySelfOrParent
<1>1. LockIInv /\ [Next]_vars =>
        [\A i \in Env :
          env_status[i] # env_status'[i] /\ env_status'[i] \in {"FREE", "DYING"} =>
             \E c \in Cpu :
                /\ lock = c /\ curenv[c] # None
                /\ curenv[c] = i \/ env_parent_id[i] = Id(curenv[c])]_vars
  BY KillStep DEF Next, Kills, HasKiller
<1> QED BY <1>1, LockIInvInit, LockIInvStep, PTL DEF Spec, KilledBySelfOrParent

(***************************************************************************)
(* Programs that make both calls as SafeStatusCall and SafeDestroyCall say *)
(***************************************************************************)

(* What the theorems below assume of the programs.                         *)
Discipline == Disciplined = {"set_status", "destroy"}

(* No slot is None.                                                        *)
LEMMA NoneNotEnv == None \notin Env
  BY KernelAssumption DEF None, Env

(* In a handler for a user-mode trap the caller's environment is RUNNING.  *)
LEMMA DispatchFacts ==
    ASSUME IInv, NEW c \in Cpu, pc[c] = "dispatch", tf_cs[c] = "user"
    PROVE  /\ lock = c /\ curenv[c] \in Env
           /\ env_status[curenv[c]] = "RUNNING" /\ ~env_ipc_recving[curenv[c]]
<1>1. curenv[c] \in Env /\ lock = c
  BY DEF IInv, LockIInv, TypeOK, HasCurenv, LockInv, KernelPcs
<1>2. env_status[curenv[c]] = "RUNNING"
  BY DEF IInv, CurenvStatus, CurenvOk
<1> QED BY <1>1, <1>2 DEF IInv, ReceiverBlocked

(* envid2env only finds environments that exist, and with checkperm only   *)
(* the caller's own or a child of it.                                      *)
LEMMA ResolveFacts ==
    ASSUME IInv, NEW c \in Cpu, pc[c] = "dispatch", tf_cs[c] = "user",
           NEW envid \in EnvId, NEW checkperm \in BOOLEAN,
           envid2env(c, envid, checkperm) # None
    PROVE  LET e == envid2env(c, envid, checkperm) IN
           /\ e \in Env /\ env_status[e] # "FREE"
           /\ checkperm => e = curenv[c] \/ env_parent_id[e] = Id(curenv[c])
<1>1. envid2env(c, envid, checkperm) \in Env
  BY envid2envType DEF IInv, LockIInv
<1> QED BY <1>1, DispatchFacts DEF envid2env

(* The first free slot; no CPU has it.                                     *)
LEMMA AllocFacts ==
    ASSUME IInv, env_free_list # << >>
    PROVE  /\ Head(env_free_list) \in Env
           /\ env_status[Head(env_free_list)] = "FREE"
           /\ \A d \in Cpu : curenv[d] # Head(env_free_list)
<1>1. /\ Head(env_free_list) \in Env /\ Head(env_free_list) = env_free_list[1]
      /\ Len(env_free_list) \in Nat \ {0}
  BY PopType DEF IInv, LockIInv, TypeOK
<1>2. env_status[Head(env_free_list)] = "FREE"
  BY <1>1 DEF IInv, FreeListExact
<1> QED BY <1>1, <1>2, NoneNotEnv DEF IInv, CurenvStatus, CurenvOk

(* An environment that is runnable or blocked is not current on any CPU,    *)
(* except a blocked one on a CPU that is about to leave it.                *)
LEMMA NotOnCpu ==
    ASSUME IInv, NEW e \in Env
    PROVE  /\ env_status[e] \in {"FREE", "RUNNABLE"} => \A d \in Cpu : curenv[d] # e
           /\ env_status[e] = "NOT_RUNNABLE" => \A d \in Cpu : curenv[d] = e => lock = d /\ pc[d] # "dispatch"
<1>1. ASSUME NEW d \in Cpu, curenv[d] = e
      PROVE  \/ env_status[e] \in {"RUNNING", "DYING"}
             \/ env_status[e] = "NOT_RUNNABLE" /\ pc[d] \in {"ret", "sched", "monitor"}
  BY <1>1, NoneNotEnv DEF IInv, CurenvStatus, CurenvOk
<1>2. ASSUME NEW d \in Cpu, pc[d] \in {"ret", "sched", "monitor"} PROVE lock = d /\ pc[d] # "dispatch"
  BY <1>2 DEF IInv, LockIInv, LockInv, KernelPcs
<1> QED BY <1>1, <1>2

(* The part of IInv about who runs where.                                  *)
OnCpuInv == CurenvStatus /\ NoEnvOnTwoCpus /\ RunningHasCpu

(* A CPU that takes no part in a step keeps its place if its environment   *)
(* keeps its status, or becomes a zombie while it runs.                    *)
LEMMA OthersKeep ==
    ASSUME IInv, NEW c \in Cpu, lock = c, NEW l, pc' = [pc EXCEPT ![c] = l], tf_cs' = tf_cs,
           NEW d \in Cpu, d # c, curenv'[d] = curenv[d],
           curenv[d] # None => \/ env_status'[curenv[d]] = env_status[curenv[d]]
                               \/ env_status[curenv[d]] = "RUNNING" /\ env_status'[curenv[d]] = "DYING"
    PROVE  CurenvOk(d)'
<1>1. pc'[d] = pc[d]
  BY DEF IInv, LockIInv, TypeOK
<1>2. pc[d] \notin KernelPcs /\ pc[d] \in Pcs
  BY DEF IInv, LockIInv, LockInv, TypeOK
<1>3. CurenvOk(d)
  BY DEF IInv, CurenvStatus
<1> QED BY <1>1, <1>2, <1>3 DEF CurenvOk, Pcs, SpinPcs, KernelPcs

(* env_run keeps who runs where consistent: of a runnable environment, and *)
(* of the one that is already running here.                                *)
LEMMA RunKeeps ==
    ASSUME IInv, NEW c \in Cpu, pc[c] \in KernelPcs, pc[c] # "save", NEW e \in Env, env_run(c, e), tf_cs' = tf_cs,
           env_status[e] = "RUNNABLE" \/ (e = curenv[c] /\ env_status[e] = "RUNNING")
    PROVE  OnCpuInv'
<1>0. TypeOK /\ LockInv /\ HasCurenv /\ CurenvStatus /\ NoEnvOnTwoCpus /\ RunningHasCpu
  BY DEF IInv, LockIInv
<1>1. Ran(c, e)
  BY RunEffect DEF IInv
<1>2. CASE e = curenv[c]
  <2>1. env_status' = env_status /\ curenv' = curenv
    BY <1>2 DEF env_run
  <2>2. env_status[e] = "RUNNING"
    BY <1>0, <1>2, NoneNotEnv DEF CurenvStatus, CurenvOk
  <2>3. ASSUME NEW d \in Cpu PROVE CurenvOk(d)'
    <3>1. CASE d # c
      BY <1>1, <2>1, <2>3, <3>1, OthersKeep DEF Ran
    <3>2. CASE d = c
      BY <1>0, <1>1, <1>2, <2>1, <2>2, <3>2 DEF Ran, CurenvOk, TypeOK
    <3> QED BY <3>1, <3>2
  <2> QED BY <1>0, <2>1, <2>3 DEF OnCpuInv, CurenvStatus, NoEnvOnTwoCpus, RunningHasCpu
<1>3. CASE e # curenv[c]
  <2>1. /\ env_status' = [i \in Env |->
              IF i = e THEN "RUNNING"
              ELSE IF i = curenv[c] /\ env_status[i] = "RUNNING" THEN "RUNNABLE"
              ELSE env_status[i]]
        /\ curenv' = [curenv EXCEPT ![c] = e]
        /\ pc' = [pc EXCEPT ![c] = "pop"]
    BY <1>1, <1>3 DEF env_run, Ran
  <2>2. \A d \in Cpu : curenv[d] # e
    BY <1>3, NotOnCpu
  <2>3. NoEnvOnTwoCpus'
    BY <1>0, <2>1, <2>2 DEF NoEnvOnTwoCpus, TypeOK
  <2>4. ASSUME NEW d \in Cpu, d # c PROVE CurenvOk(d)'
    <3>1. curenv'[d] = curenv[d]
      BY <1>0, <2>1, <2>4 DEF TypeOK
    <3>2. ASSUME curenv[d] # None PROVE env_status'[curenv[d]] = env_status[curenv[d]]
      <4>1. curenv[d] # curenv[c] /\ curenv[d] # e /\ curenv[d] \in Env
        BY <1>0, <2>2, <2>4, <3>2 DEF NoEnvOnTwoCpus, TypeOK
      <4> QED BY <2>1, <4>1
    <3> QED BY <1>1, <2>1, <2>4, <3>1, <3>2, OthersKeep DEF Ran
  <2>5. CurenvOk(c)'
    BY <1>0, <2>1 DEF TypeOK, CurenvOk
  <2>6. RunningHasCpu'
    <3>1. ASSUME NEW i \in Env, i # e, env_status'[i] \in {"RUNNING", "DYING"}
          PROVE  \E d \in Cpu : curenv'[d] = i
      <4>1. env_status[i] \in {"RUNNING", "DYING"} /\ (i = curenv[c] => env_status[i] # "RUNNING")
        BY <2>1, <3>1
      <4>2. ASSUME curenv[c] = i PROVE FALSE
        <5>1. CurenvOk(c) /\ i # None /\ pc[c] \in KernelPcs /\ pc[c] # "save"
          BY <1>0, NoneNotEnv DEF CurenvStatus
        <5>2. env_status[curenv[c]] = "DYING"
          BY <4>1, <4>2
        <5> QED BY <4>2, <5>1, <5>2 DEF CurenvOk, KernelPcs
      <4>3. PICK d \in Cpu : curenv[d] = i
        BY <1>0, <4>1 DEF RunningHasCpu
      <4> QED BY <1>0, <2>1, <4>2, <4>3 DEF TypeOK
    <3>2. curenv'[c] = e
      BY <1>0, <2>1 DEF TypeOK
    <3> QED BY <3>1, <3>2 DEF RunningHasCpu
  <2> QED BY <2>3, <2>4, <2>5, <2>6 DEF OnCpuInv, CurenvStatus
<1> QED BY <1>2, <1>3

(* sched_halt gives up an environment only if it is not RUNNING.           *)
LEMMA HaltKeeps ==
    ASSUME IInv, NEW c \in Cpu, pc[c] = "sched", sched_halt(c), tf_cs' = tf_cs,
           curenv[c] = None \/ env_status[curenv[c]] # "RUNNING"
    PROVE  OnCpuInv'
<1>0. TypeOK /\ CurenvStatus /\ NoEnvOnTwoCpus /\ RunningHasCpu /\ LockIInv
  BY DEF IInv, LockIInv
<1>1. pc[c] \in KernelPcs
  BY DEF KernelPcs
<1>2. lock = c /\ env_status' = env_status
  BY <1>0, <1>1, HaltEffect
<1>3. CASE pc' = [pc EXCEPT ![c] = "monitor"] /\ curenv' = curenv
  <2>1. ASSUME NEW d \in Cpu PROVE CurenvOk(d)'
    <3>1. CASE d # c
      BY <1>2, <1>3, <2>1, <3>1, OthersKeep
    <3>2. CASE d = c
      BY <1>0, <1>2, <1>3, <3>2 DEF CurenvStatus, CurenvOk, TypeOK
    <3> QED BY <3>1, <3>2
  <2> QED BY <1>0, <1>2, <1>3, <2>1 DEF OnCpuInv, CurenvStatus, NoEnvOnTwoCpus, RunningHasCpu
<1>4. CASE pc' = [pc EXCEPT ![c] = "halt"] /\ curenv' = [curenv EXCEPT ![c] = None]
  <2>1. ASSUME NEW d \in Cpu PROVE CurenvOk(d)'
    <3>1. CASE d # c
      <4>1. curenv'[d] = curenv[d]
        BY <1>0, <1>4, <2>1, <3>1 DEF TypeOK
      <4> QED BY <1>2, <1>4, <2>1, <3>1, <4>1, OthersKeep
    <3>2. CASE d = c
      BY <1>0, <1>4, <3>2 DEF CurenvOk, TypeOK
    <3> QED BY <3>1, <3>2
  <2>2. NoEnvOnTwoCpus'
    BY <1>0, <1>4 DEF NoEnvOnTwoCpus, TypeOK
  <2>3. ASSUME NEW i \in Env, env_status[i] \in {"RUNNING", "DYING"} PROVE curenv[c] # i
    BY <1>0, <2>3, NoneNotEnv DEF CurenvStatus, CurenvOk
  <2>4. RunningHasCpu'
    BY <1>0, <1>2, <1>4, <2>3 DEF RunningHasCpu, TypeOK
  <2> QED BY <2>1, <2>2, <2>4 DEF OnCpuInv, CurenvStatus
<1> QED BY <1>0, <1>1, <1>3, <1>4, HaltEffect

(* env_free of the environment current on the calling CPU, which leaves it *)
(* without one.                                                            *)
LEMMA FreeSelfKeeps ==
    ASSUME IInv, NEW c \in Cpu, lock = c, curenv[c] \in Env, tf_cs' = tf_cs,
           pc' = [pc EXCEPT ![c] = "sched"],
           curenv' = [curenv EXCEPT ![c] = None],
           env_status' = [env_status EXCEPT ![curenv[c]] = "FREE"]
    PROVE  OnCpuInv'
<1>0. TypeOK /\ NoEnvOnTwoCpus /\ RunningHasCpu
  BY DEF IInv, LockIInv
<1>1. ASSUME NEW d \in Cpu, d # c PROVE CurenvOk(d)'
  <2>1. curenv'[d] = curenv[d]
    BY <1>0, <1>1 DEF TypeOK
  <2>2. ASSUME curenv[d] # None PROVE env_status'[curenv[d]] = env_status[curenv[d]]
    BY <1>0, <1>1, <2>2 DEF TypeOK, NoEnvOnTwoCpus
  <2> QED BY <1>1, <2>1, <2>2, OthersKeep
<1>2. CurenvOk(c)'
  BY <1>0 DEF CurenvOk, TypeOK
<1>3. NoEnvOnTwoCpus'
  BY <1>0 DEF NoEnvOnTwoCpus, TypeOK
<1>4. RunningHasCpu'
  BY <1>0 DEF RunningHasCpu, TypeOK
<1> QED BY <1>1, <1>2, <1>3, <1>4 DEF OnCpuInv, CurenvStatus

(* A handler that changes the status of one environment: its own, to       *)
(* blocked; one that no CPU has; or a running one, to zombie.              *)
LEMMA StatusKeeps ==
    ASSUME IInv, NEW c \in Cpu, pc[c] = "dispatch", tf_cs[c] = "user",
           NEW e \in Env, NEW st \in Status, NEW l \in {"ret", "sched"},
           pc' = [pc EXCEPT ![c] = l], tf_cs' = tf_cs, curenv' = curenv,
           env_status' = [env_status EXCEPT ![e] = st],
           \/ e = curenv[c] /\ st = "NOT_RUNNABLE"
           \/ env_status[e] \in {"RUNNABLE", "NOT_RUNNABLE", "FREE"} /\ st \in {"RUNNABLE", "NOT_RUNNABLE", "FREE"}
           \/ e # curenv[c] /\ env_status[e] = "RUNNING" /\ st = "DYING"
    PROVE  OnCpuInv'
<1>0. TypeOK /\ NoEnvOnTwoCpus /\ RunningHasCpu
  BY DEF IInv, LockIInv
<1>1. lock = c /\ curenv[c] \in Env /\ env_status[curenv[c]] = "RUNNING"
  BY DispatchFacts
<1>2. ASSUME env_status[e] \in {"RUNNABLE", "NOT_RUNNABLE", "FREE"} PROVE \A d \in Cpu : curenv[d] # e
  BY <1>1, <1>2, NotOnCpu
<1>3. ASSUME NEW d \in Cpu, d # c PROVE CurenvOk(d)'
  <2>1. curenv[d] # None =>
           \/ env_status'[curenv[d]] = env_status[curenv[d]]
           \/ env_status[curenv[d]] = "RUNNING" /\ env_status'[curenv[d]] = "DYING"
    BY <1>0, <1>2, <1>3, <1>1, NoneNotEnv DEF TypeOK, NoEnvOnTwoCpus
  <2> QED BY <1>1, <1>3, <2>1, OthersKeep
<1>4. CurenvOk(c)'
  <2>1. env_status'[curenv[c]] \in {"RUNNING", "NOT_RUNNABLE"}
    BY <1>0, <1>1, <1>2 DEF TypeOK
  <2> QED BY <1>0, <2>1 DEF CurenvOk, TypeOK
<1>5. RunningHasCpu'
  BY <1>0 DEF RunningHasCpu, TypeOK
<1> QED BY <1>0, <1>3, <1>4, <1>5 DEF OnCpuInv, CurenvStatus, NoEnvOnTwoCpus

(* Every step keeps who runs where consistent: status, curenv and the      *)
(* place of each CPU agree, and no environment is on two CPUs.             *)
LEMMA OnCpuStep ==
    ASSUME Discipline, IInv, NEW c \in Cpu, Step(c)
    PROVE  OnCpuInv'
<1>00. LockIInv
  BY DEF IInv
<1>0. LockIInv /\ TypeOK /\ LockInv /\ ModeInv /\ HasCurenv /\ CurenvStatus /\ NoEnvOnTwoCpus /\ RunningHasCpu /\ ReceiverBlocked
  BY DEF IInv, LockIInv
<1> USE <1>0, NoneNotEnv DEF TypeOK, OnCpuInv, Goto, Panic, cpuVars, ipcData, allocVars, envVars, Dispatch, UserDispatch
<1>1. CASE env_create(c)
  <2>1. /\ env_free_list # << >> /\ lock = c /\ tf_cs' = tf_cs /\ curenv' = curenv
        /\ pc[c] = "create" /\ curenv[c] = None
    BY <1>1 DEF env_create, env_alloc, LockInv, KernelPcs, CurenvStatus, CurenvOk
  <2>2. PICK e \in Env, l \in {"sched", "create"} :
           /\ \A d \in Cpu : curenv[d] # e
           /\ env_status' = [env_status EXCEPT ![e] = "RUNNABLE"]
           /\ pc' = [pc EXCEPT ![c] = l]
    BY <1>1, <2>1, AllocFacts DEF env_create, env_alloc
  <2>3. ASSUME NEW d \in Cpu, d # c PROVE CurenvOk(d)'
    <3>1. env_status'[curenv[d]] = env_status[curenv[d]] /\ curenv'[d] = curenv[d]
      BY <2>1, <2>2, <2>3
    <3> QED BY <2>1, <2>2, <2>3, <3>1, OthersKeep
  <2>4. CurenvOk(c)'
    BY <2>1, <2>2 DEF CurenvOk
  <2>5. RunningHasCpu'
    BY <2>1, <2>2 DEF RunningHasCpu
  <2> QED BY <2>1, <2>3, <2>4, <2>5 DEF CurenvStatus, NoEnvOnTwoCpus
<1>2. CASE trap(c)
  <2>1. UNCHANGED <<curenv, env_status>> /\ \A d \in Cpu : d # c => pc'[d] = pc[d] /\ tf_cs'[d] = tf_cs[d]
    BY <1>2 DEF trap
  <2>2. pc[c] = "user" => pc'[c] \in {"dead", "user_lock"}
    BY <1>2 DEF trap, ModeInv
  <2>3. pc[c] = "halt" => pc'[c] \in {"dead", "halt_lock"}
    BY <1>2 DEF trap, ModeInv
  <2>4. ASSUME NEW d \in Cpu PROVE CurenvOk(d)'
    <3>1. CASE d = c
      BY <1>2, <2>1, <2>2, <2>3, <3>1 DEF trap, CurenvStatus, CurenvOk
    <3>2. CASE d # c
      BY <2>1, <2>4, <3>2 DEF CurenvStatus, CurenvOk
    <3> QED BY <3>1, <3>2
  <2> QED BY <2>1, <2>4 DEF CurenvStatus, NoEnvOnTwoCpus, RunningHasCpu
<1>3. CASE spin_lock(c)
  <2>1. lock # c
    BY <1>3 DEF spin_lock, LockInv, SpinPcs, KernelPcs
  <2>2. /\ UNCHANGED <<tf_cs, curenv, env_status>>
        /\ \E l \in {"sched", "save", "dispatch"} :
              /\ pc' = [pc EXCEPT ![c] = l]
              /\ l = "sched" => pc[c] = "mp_lock"
              /\ l = "save" => pc[c] = "user_lock"
              /\ l = "dispatch" => pc[c] = "halt_lock" /\ tf_cs[c] = "kernel"
    BY <1>3, <2>1 DEF spin_lock, SpinPcs, ModeInv
  <2>3. ASSUME NEW d \in Cpu PROVE CurenvOk(d)'
    <3>1. CASE d = c
      BY <2>2, <2>3, <3>1 DEF CurenvStatus, CurenvOk
    <3>2. CASE d # c
      BY <2>2, <2>3, <3>2 DEF CurenvStatus, CurenvOk
    <3> QED BY <3>1, <3>2
  <2> QED BY <2>2, <2>3 DEF CurenvStatus, NoEnvOnTwoCpus, RunningHasCpu
<1>4. CASE TrapSave(c)
  <2>1. pc[c] = "save" /\ lock = c /\ curenv[c] \in Env /\ curenv[c] # None /\ tf_cs' = tf_cs
    BY <1>4 DEF TrapSave, LockInv, KernelPcs, HasCurenv
  <2>2. CASE env_status[curenv[c]] = "DYING"
    BY <1>4, <2>1, <2>2, FreeSelfKeeps DEF TrapSave, env_free, OnCpuInv
  <2>3. CASE env_status[curenv[c]] # "DYING"
    <3>1. pc' = [pc EXCEPT ![c] = "dispatch"] /\ UNCHANGED <<curenv, env_status>>
      BY <1>4, <2>1, <2>3 DEF TrapSave
    <3>2. ASSUME NEW d \in Cpu PROVE CurenvOk(d)'
      BY <2>1, <2>3, <3>1, <3>2, OthersKeep DEF CurenvStatus, CurenvOk, ModeInv
    <3> QED BY <3>1, <3>2 DEF CurenvStatus, NoEnvOnTwoCpus, RunningHasCpu
  <2> QED BY <2>2, <2>3
<1>5. CASE TrapReturn(c)
  <2>1. pc[c] = "ret" /\ pc[c] \in KernelPcs /\ lock = c /\ tf_cs' = tf_cs
    BY <1>5 DEF TrapReturn, LockInv, KernelPcs
  <2>2. CASE curenv[c] # None /\ env_status[curenv[c]] = "RUNNING"
    <3>1. curenv[c] \in Env /\ env_run(c, curenv[c])
      BY <1>5, <2>2 DEF TrapReturn
    <3> QED BY <2>1, <2>2, <3>1, RunKeeps DEF OnCpuInv
  <2>3. CASE ~(curenv[c] # None /\ env_status[curenv[c]] = "RUNNING")
    <3>1. pc' = [pc EXCEPT ![c] = "sched"] /\ UNCHANGED <<curenv, env_status>>
      BY <1>5, <2>3 DEF TrapReturn
    <3>2. ASSUME NEW d \in Cpu PROVE CurenvOk(d)'
      BY <2>1, <3>1, <3>2, OthersKeep DEF CurenvStatus, CurenvOk
    <3> QED BY <3>1, <3>2 DEF CurenvStatus, NoEnvOnTwoCpus, RunningHasCpu
  <2> QED BY <2>2, <2>3
<1>6. CASE env_pop_tf(c)
  BY <1>6 DEF env_pop_tf, CurenvStatus, CurenvOk, NoEnvOnTwoCpus, RunningHasCpu, HasCurenv
<1>7. CASE Monitor(c)
  BY <1>7 DEF Monitor, vars, CurenvStatus, CurenvOk, NoEnvOnTwoCpus, RunningHasCpu, HasCurenv
<1>8. CASE sched_yield(c)
  <2>1. pc[c] = "sched" /\ pc[c] \in KernelPcs
    BY <1>8 DEF sched_yield, KernelPcs
  <2>2. ASSUME NEW e \in Env, RunsNext(c, e) PROVE OnCpuInv'
    BY <1>8, <2>1, <2>2, RunKeeps DEF sched_yield, RunsNext
  <2>3. ASSUME Halts(c) PROVE OnCpuInv'
    BY <1>8, <2>1, <2>3, HaltKeeps DEF sched_yield, Halts
  <2> QED BY <1>8, <1>00, <2>2, <2>3, YieldEffect
<1>9. CASE TimerOrYield(c)
  BY <1>9 DEF TimerOrYield, CurenvStatus, CurenvOk, NoEnvOnTwoCpus, RunningHasCpu, HasCurenv
<1>10. CASE NoEffect(c)
  BY <1>10 DEF NoEffect, CurenvStatus, CurenvOk, NoEnvOnTwoCpus, RunningHasCpu, HasCurenv
<1>11. CASE UnhandledInUser(c)
  BY <1>11, DispatchFacts, FreeSelfKeeps DEF UnhandledInUser, env_destroy, env_free
<1>12. CASE UnhandledInHalt(c)
  BY <1>12 DEF UnhandledInHalt, CurenvStatus, CurenvOk, NoEnvOnTwoCpus, RunningHasCpu, HasCurenv
<1>13. CASE Breakpoint(c)
  BY <1>13 DEF Breakpoint, CurenvStatus, CurenvOk, NoEnvOnTwoCpus, RunningHasCpu, HasCurenv
<1>14. CASE page_fault_handler(c)
  <2>1. /\ pc[c] = "dispatch" /\ pc[c] \in KernelPcs /\ tf_cs[c] = "user" /\ tf_cs' = tf_cs
        /\ lock = c /\ curenv[c] \in Env /\ env_status[curenv[c]] = "RUNNING"
    BY <1>14, DispatchFacts DEF page_fault_handler, KernelPcs
  <2>2. CASE env_run(c, curenv[c])
    BY <2>1, <2>2, RunKeeps
  <2>3. CASE env_destroy(c, curenv[c])
    BY <2>1, <2>3, FreeSelfKeeps DEF env_destroy, env_free
  <2> QED BY <1>14, <2>2, <2>3 DEF page_fault_handler
<1>15. CASE sys_exofork(c)
  <2>1. env_free_list # << >> /\ pc[c] = "dispatch" /\ tf_cs[c] = "user"
    BY <1>15 DEF sys_exofork, env_alloc
  <2> QED BY <1>15, <2>1, AllocFacts, StatusKeeps DEF sys_exofork, env_alloc, Status
<1>16. CASE sys_env_set_status(c)
  <2>1. pc[c] = "dispatch" /\ tf_cs[c] = "user"
    BY <1>16 DEF sys_env_set_status
  <2>2. PICK e \in Env, st \in {"RUNNABLE", "NOT_RUNNABLE"} :
           /\ env_status[e] # "FREE" /\ SafeStatusCall(c, e, st)
           /\ env_status' = [env_status EXCEPT ![e] = st]
    BY <1>16, <2>1, ResolveFacts DEF sys_env_set_status, Discipline
  <2> QED BY <1>16, <2>1, <2>2, StatusKeeps DEF sys_env_set_status, SafeStatusCall, Status
<1>17. CASE sys_env_set_pgfault_upcall(c)
  BY <1>17 DEF sys_env_set_pgfault_upcall, CurenvStatus, CurenvOk, NoEnvOnTwoCpus, RunningHasCpu, HasCurenv
<1>18. CASE sys_env_destroy(c)
  <2>1. /\ pc[c] = "dispatch" /\ tf_cs[c] = "user" /\ tf_cs' = tf_cs
        /\ lock = c /\ curenv[c] \in Env /\ env_status[curenv[c]] = "RUNNING"
    BY <1>18, DispatchFacts DEF sys_env_destroy
  <2>2. PICK e \in Env : env_status[e] # "FREE" /\ env_destroy(c, e) /\ env_status[e] # "DYING"
    BY <1>18, <2>1, ResolveFacts DEF sys_env_destroy, Discipline, SafeDestroyCall
  <2>3. CASE e = curenv[c]
    BY <2>1, <2>2, <2>3, FreeSelfKeeps DEF env_destroy, env_free
  <2>4. CASE e # curenv[c] /\ env_status[e] = "RUNNING"
    BY <2>1, <2>2, <2>4, StatusKeeps DEF env_destroy, Status
  <2>5. CASE e # curenv[c] /\ env_status[e] # "RUNNING"
    <3>1. env_status[e] \in {"RUNNABLE", "NOT_RUNNABLE"}
      BY <2>2, <2>5 DEF TypeOK, Status
    <3> QED BY <2>1, <2>2, <2>5, <3>1, StatusKeeps DEF env_destroy, env_free, Status
  <2> QED BY <2>3, <2>4, <2>5
<1>19. CASE sys_ipc_recv(c)
  BY <1>19, DispatchFacts, StatusKeeps DEF sys_ipc_recv, Status
<1>20. CASE sys_ipc_try_send(c)
  <2>1. /\ pc[c] = "dispatch" /\ tf_cs[c] = "user" /\ lock = c
        /\ pc' = [pc EXCEPT ![c] = "ret"] /\ tf_cs' = tf_cs /\ curenv' = curenv
    BY <1>20, DispatchFacts DEF sys_ipc_try_send
  <2>2. CASE env_status' = env_status
    <3>1. ASSUME NEW d \in Cpu PROVE CurenvOk(d)'
      BY <2>1, <2>2, <3>1, OthersKeep DEF CurenvStatus, CurenvOk, HasCurenv
    <3> QED BY <2>1, <2>2, <3>1 DEF CurenvStatus, NoEnvOnTwoCpus, RunningHasCpu
  <2>3. ASSUME NEW e \in Env, NEW value, env_status[e] # "FREE", env_ipc_recving[e], Deliver(c, e, value)
        PROVE  OnCpuInv'
    <3>1. env_status[e] = "NOT_RUNNABLE"
      BY <2>3 DEF ReceiverBlocked
    <3> QED BY <2>1, <2>3, <3>1, StatusKeeps DEF Deliver, Status
  <2> QED BY <1>20, <2>1, <2>2, <2>3, ResolveFacts DEF sys_ipc_try_send
<1> QED
  BY <1>1, <1>2, <1>3, <1>4, <1>5, <1>6, <1>7, <1>8, <1>9, <1>10, <1>11, <1>12,
     <1>13, <1>14, <1>15, <1>16, <1>17, <1>18, <1>19, <1>20 DEF Step

(* Every step keeps receivers blocked: only sys_ipc_recv sets              *)
(* env_ipc_recving, and it blocks the caller in the same step.             *)
LEMMA ReceiverStep ==
    ASSUME Discipline, IInv, NEW c \in Cpu, Step(c)
    PROVE  ReceiverBlocked'
<1>00. LockIInv
  BY DEF IInv
<1>0. LockIInv /\ TypeOK /\ HasCurenv /\ ReceiverBlocked /\ CurenvStatus
  BY DEF IInv, LockIInv
<1> USE <1>0, NoneNotEnv DEF TypeOK, ReceiverBlocked, CurenvStatus, CurenvOk, spin_unlock, Goto, Panic, cpuVars, ipcData, allocVars, envVars, Dispatch, UserDispatch
<1>1. CASE env_create(c)
  <2>1. env_free_list # << >>
    BY <1>1 DEF env_create, env_alloc
  <2> QED BY <1>1, <2>1, AllocFacts DEF env_create, env_alloc
<1>2. CASE trap(c)
  BY <1>2 DEF trap
<1>3. CASE spin_lock(c)
  BY <1>3 DEF spin_lock
<1>4. CASE TrapSave(c)
  BY <1>4 DEF TrapSave, env_free
<1>5. CASE TrapReturn(c)
  BY <1>5 DEF TrapReturn, env_run
<1>6. CASE env_pop_tf(c)
  BY <1>6 DEF env_pop_tf
<1>7. CASE Monitor(c)
  BY <1>7 DEF Monitor, vars
<1>8. CASE sched_yield(c)
  <2>1. pc[c] = "sched" /\ pc[c] \in KernelPcs
    BY <1>8 DEF sched_yield, KernelPcs
  <2>2. ASSUME NEW e \in Env, RunsNext(c, e) PROVE ReceiverBlocked'
    <3>1. \A i \in Env : env_status'[i] = env_status[i] \/ env_status[i] \in {"RUNNABLE", "RUNNING"}
      BY <2>2 DEF RunsNext, env_run
    <3>2. env_ipc_recving' = env_ipc_recving
      BY <1>8 DEF sched_yield
    <3> QED BY <3>1, <3>2
  <2>3. ASSUME Halts(c) PROVE ReceiverBlocked'
    BY <1>8, <2>1, <2>3, HaltEffect DEF sched_yield, Halts
  <2> QED BY <1>8, <1>00, <2>2, <2>3, YieldEffect
<1>9. CASE TimerOrYield(c)
  BY <1>9 DEF TimerOrYield
<1>10. CASE NoEffect(c)
  BY <1>10 DEF NoEffect
<1>11. CASE UnhandledInUser(c)
  BY <1>11 DEF UnhandledInUser, env_destroy, env_free
<1>12. CASE UnhandledInHalt(c)
  BY <1>12 DEF UnhandledInHalt
<1>13. CASE Breakpoint(c)
  BY <1>13 DEF Breakpoint
<1>14. CASE page_fault_handler(c)
  BY <1>14 DEF page_fault_handler, env_run, env_destroy, env_free
<1>15. CASE sys_exofork(c)
  <2>1. env_free_list # << >>
    BY <1>15 DEF sys_exofork, env_alloc
  <2> QED BY <1>15, <2>1, AllocFacts DEF sys_exofork, env_alloc
<1>16. CASE sys_env_set_status(c)
  <2>1. pc[c] = "dispatch" /\ tf_cs[c] = "user"
    BY <1>16 DEF sys_env_set_status
  <2>2. PICK e \in Env, st \in {"RUNNABLE", "NOT_RUNNABLE"} :
           /\ env_status[e] # "FREE" /\ SafeStatusCall(c, e, st)
           /\ env_status' = [env_status EXCEPT ![e] = st]
    BY <1>16, <2>1, ResolveFacts, ZenonT(60) DEF sys_env_set_status, Discipline
  <2> QED BY <1>16, <2>1, <2>2, DispatchFacts, ZenonT(60) DEF sys_env_set_status, SafeStatusCall
<1>17. CASE sys_env_set_pgfault_upcall(c)
  BY <1>17 DEF sys_env_set_pgfault_upcall
<1>18. CASE sys_env_destroy(c)
  <2>1. pc[c] = "dispatch" /\ tf_cs[c] = "user"
    BY <1>18 DEF sys_env_destroy
  <2>2. PICK e \in Env : env_status[e] # "FREE" /\ env_destroy(c, e) /\ SafeDestroyCall(e)
    BY <1>18, <2>1, ResolveFacts DEF sys_env_destroy, Discipline
  <2>3. env_ipc_recving' = env_ipc_recving
    BY <1>18 DEF sys_env_destroy
  <2>4. \/ env_status[e] = "RUNNING" /\ env_status' = [env_status EXCEPT ![e] = "DYING"]
        \/ env_status' = [env_status EXCEPT ![e] = "FREE"]
    BY <2>2 DEF env_destroy, env_free
  <2> HIDE DEF CurenvStatus, CurenvOk
  <2> QED BY <2>3, <2>4
<1>19. CASE sys_ipc_recv(c)
  BY <1>19, DispatchFacts DEF sys_ipc_recv
<1>20. CASE sys_ipc_try_send(c)
  <2>1. pc[c] = "dispatch" /\ tf_cs[c] = "user"
    BY <1>20 DEF sys_ipc_try_send
  <2>2. CASE UNCHANGED <<env_ipc_recving, env_ipc_from, env_ipc_value, env_status>>
    BY <1>20, <2>1, <2>2 DEF sys_ipc_try_send
  <2>3. ASSUME NEW e \in Env, NEW value, env_status[e] # "FREE", env_ipc_recving[e], Deliver(c, e, value)
        PROVE  ReceiverBlocked'
    BY <1>20, <2>1, <2>3, DispatchFacts DEF sys_ipc_try_send, Deliver
  <2> QED BY <1>20, <2>1, <2>2, <2>3, ResolveFacts DEF sys_ipc_try_send
<1> QED
  BY <1>1, <1>2, <1>3, <1>4, <1>5, <1>6, <1>7, <1>8, <1>9, <1>10, <1>11, <1>12,
     <1>13, <1>14, <1>15, <1>16, <1>17, <1>18, <1>19, <1>20 DEF Step

(* Every step keeps the registers of a CPU in user mode those of the       *)
(* present incarnation of its environment.                                 *)
LEMMA LoadedStep ==
    ASSUME Discipline, IInv, NEW c \in Cpu, Step(c)
    PROVE  LoadedContext'
<1>00. LockIInv
  BY DEF IInv
<1>0. LockIInv /\ TypeOK /\ LockInv /\ ModeInv /\ HasCurenv /\ LoadedContext /\ SavedContext /\ CurenvStatus
  BY DEF IInv, LockIInv
<1> USE <1>0, NoneNotEnv DEF TypeOK, LoadedContext, HasCurenv, Id, SavedContext, CurenvStatus, CurenvOk, SpinPcs, spin_unlock, Goto, Panic, cpuVars, ipcData, allocVars, envVars, Dispatch, UserDispatch
<1>1. CASE env_create(c)
  <2>1. env_free_list # << >>
    BY <1>1 DEF env_create, env_alloc
  <2> QED BY <1>1, <2>1, AllocFacts DEF env_create, env_alloc
<1>2. CASE trap(c)
  BY <1>2 DEF trap
<1>3. CASE spin_lock(c)
  <2>1. UNCHANGED <<ctx, curenv, env_gen>> /\ \A d \in Cpu : d # c => pc'[d] = pc[d]
    BY <1>3 DEF spin_lock
  <2>2. pc'[c] = "save" => pc[c] = "user_lock"
    BY <1>3 DEF spin_lock
  <2>3. pc'[c] \notin {"user", "user_lock"}
    BY <1>3 DEF spin_lock, LockInv, ModeInv, KernelPcs
  <2> QED BY <2>1, <2>2, <2>3
<1>4. CASE TrapSave(c)
  BY <1>4 DEF TrapSave, env_free
<1>5. CASE TrapReturn(c)
  BY <1>5 DEF TrapReturn, env_run
<1>6. CASE env_pop_tf(c)
  BY <1>6, ZenonT(60) DEF env_pop_tf
<1>7. CASE Monitor(c)
  BY <1>7 DEF Monitor, vars
<1>8. CASE sched_yield(c)
  <2>1. pc[c] = "sched" /\ pc[c] \in KernelPcs
    BY <1>8 DEF sched_yield, KernelPcs
  <2>2. ASSUME NEW e \in Env, RunsNext(c, e) PROVE LoadedContext'
    <3>1. Ran(c, e)
      BY <2>1, <2>2, RunEffect DEF RunsNext
    <3> QED BY <1>8, <2>1, <3>1 DEF sched_yield, Ran
  <2>3. ASSUME Halts(c) PROVE LoadedContext'
    <3>1. \E l \in {"halt", "monitor"} : pc' = [pc EXCEPT ![c] = l]
      BY <2>1, <2>3, <1>00, HaltEffect DEF Halts
    <3>2. \A d \in Cpu : d # c => curenv'[d] = curenv[d]
      BY <2>1, <2>3, <1>00, HaltEffect, ZenonT(60) DEF Halts
    <3>3. UNCHANGED <<ctx, env_gen>>
      BY <1>8 DEF sched_yield
    <3>4. ASSUME NEW d \in Cpu, pc'[d] \in {"user", "user_lock", "save"} PROVE d # c /\ pc'[d] = pc[d]
      BY <3>1, <3>4
    <3> QED BY <3>2, <3>3, <3>4
  <2> QED BY <1>8, <1>00, <2>2, <2>3, YieldEffect
<1>9. CASE TimerOrYield(c)
  BY <1>9 DEF TimerOrYield
<1>10. CASE NoEffect(c)
  BY <1>10 DEF NoEffect
<1>11. CASE UnhandledInUser(c)
  BY <1>11 DEF UnhandledInUser, env_destroy, env_free
<1>12. CASE UnhandledInHalt(c)
  BY <1>12 DEF UnhandledInHalt
<1>13. CASE Breakpoint(c)
  BY <1>13 DEF Breakpoint
<1>14. CASE page_fault_handler(c)
  BY <1>14 DEF page_fault_handler, env_run, env_destroy, env_free
<1>15. CASE sys_exofork(c)
  <2>1. env_free_list # << >>
    BY <1>15 DEF sys_exofork, env_alloc
  <2> QED BY <1>15, <2>1, AllocFacts DEF sys_exofork, env_alloc
<1>16. CASE sys_env_set_status(c)
  <2>1. pc[c] = "dispatch" /\ tf_cs[c] = "user"
    BY <1>16 DEF sys_env_set_status
  <2>2. PICK e \in Env, st \in {"RUNNABLE", "NOT_RUNNABLE"} :
           /\ env_status[e] # "FREE" /\ SafeStatusCall(c, e, st)
           /\ env_status' = [env_status EXCEPT ![e] = st]
    BY <1>16, <2>1, ResolveFacts, ZenonT(60) DEF sys_env_set_status, Discipline
  <2> QED BY <1>16, <2>1, <2>2, DispatchFacts DEF sys_env_set_status, SafeStatusCall
<1>17. CASE sys_env_set_pgfault_upcall(c)
  BY <1>17 DEF sys_env_set_pgfault_upcall
<1>18. CASE sys_env_destroy(c)
  <2>1. pc[c] = "dispatch" /\ tf_cs[c] = "user"
    BY <1>18 DEF sys_env_destroy
  <2>2. PICK e \in Env : env_status[e] # "FREE" /\ env_destroy(c, e) /\ SafeDestroyCall(e)
    BY <1>18, <2>1, ResolveFacts DEF sys_env_destroy, Discipline
  <2>3. Destroyed(c)
    BY <2>2, DestroyEffect
  <2> QED BY <1>18, <2>1, <2>2, <2>3, DispatchFacts DEF sys_env_destroy, Destroyed, env_destroy, env_free, SafeDestroyCall
<1>19. CASE sys_ipc_recv(c)
  BY <1>19, DispatchFacts DEF sys_ipc_recv
<1>20. CASE sys_ipc_try_send(c)
  <2>1. pc[c] = "dispatch" /\ tf_cs[c] = "user"
    BY <1>20 DEF sys_ipc_try_send
  <2>2. CASE UNCHANGED <<env_ipc_recving, env_ipc_from, env_ipc_value, env_status>>
    BY <1>20, <2>1, <2>2 DEF sys_ipc_try_send
  <2>3. ASSUME NEW e \in Env, NEW value, env_status[e] # "FREE", env_ipc_recving[e], Deliver(c, e, value)
        PROVE  LoadedContext'
    BY <1>20, <2>1, <2>3, DispatchFacts DEF sys_ipc_try_send, Deliver
  <2> QED BY <1>20, <2>1, <2>2, <2>3, ResolveFacts DEF sys_ipc_try_send
<1> QED
  BY <1>1, <1>2, <1>3, <1>4, <1>5, <1>6, <1>7, <1>8, <1>9, <1>10, <1>11, <1>12,
     <1>13, <1>14, <1>15, <1>16, <1>17, <1>18, <1>19, <1>20 DEF Step

(* Every step keeps each existing environment's saved registers its own.   *)
LEMMA SavedStep ==
    ASSUME Discipline, IInv, NEW c \in Cpu, Step(c)
    PROVE  SavedContext'
<1>00. LockIInv
  BY DEF IInv
<1>0. LockIInv /\ TypeOK /\ HasCurenv /\ LoadedContext /\ SavedContext
  BY DEF IInv, LockIInv
<1> USE <1>0, NoneNotEnv DEF TypeOK, LoadedContext, SavedContext, Id, spin_unlock, Goto, Panic, cpuVars, ipcData, allocVars, envVars, Dispatch, UserDispatch
<1>1. CASE env_create(c)
  <2>1. env_free_list # << >>
    BY <1>1 DEF env_create, env_alloc
  <2> QED BY <1>1, <2>1, AllocFacts DEF env_create, env_alloc
<1>2. CASE trap(c)
  BY <1>2 DEF trap
<1>3. CASE spin_lock(c)
  BY <1>3 DEF spin_lock
<1>4. CASE TrapSave(c)
  BY <1>4 DEF TrapSave, env_free
<1>5. CASE TrapReturn(c)
  BY <1>5 DEF TrapReturn, env_run
<1>6. CASE env_pop_tf(c)
  BY <1>6 DEF env_pop_tf
<1>7. CASE Monitor(c)
  BY <1>7 DEF Monitor, vars
<1>8. CASE sched_yield(c)
  <2>1. pc[c] = "sched" /\ pc[c] \in KernelPcs
    BY <1>8 DEF sched_yield, KernelPcs
  <2>2. ASSUME NEW e \in Env, RunsNext(c, e) PROVE SavedContext'
    <3>1. \A i \in Env : env_status'[i] = env_status[i] \/ env_status[i] \in {"RUNNABLE", "RUNNING"}
      BY <2>2 DEF RunsNext, env_run
    <3>2. UNCHANGED <<env_tf, env_gen>>
      BY <1>8 DEF sched_yield
    <3> QED BY <3>1, <3>2
  <2>3. ASSUME Halts(c) PROVE SavedContext'
    BY <1>8, <2>1, <2>3, HaltEffect DEF sched_yield, Halts
  <2> QED BY <1>8, <1>00, <2>2, <2>3, YieldEffect
<1>9. CASE TimerOrYield(c)
  BY <1>9 DEF TimerOrYield
<1>10. CASE NoEffect(c)
  BY <1>10 DEF NoEffect
<1>11. CASE UnhandledInUser(c)
  BY <1>11 DEF UnhandledInUser, env_destroy, env_free
<1>12. CASE UnhandledInHalt(c)
  BY <1>12 DEF UnhandledInHalt
<1>13. CASE Breakpoint(c)
  BY <1>13 DEF Breakpoint
<1>14. CASE page_fault_handler(c)
  BY <1>14 DEF page_fault_handler, env_run, env_destroy, env_free
<1>15. CASE sys_exofork(c)
  <2>1. env_free_list # << >>
    BY <1>15 DEF sys_exofork, env_alloc
  <2> QED BY <1>15, <2>1, AllocFacts DEF sys_exofork, env_alloc
<1>16. CASE sys_env_set_status(c)
  <2>1. pc[c] = "dispatch" /\ tf_cs[c] = "user"
    BY <1>16 DEF sys_env_set_status
  <2>2. PICK e \in Env, st \in {"RUNNABLE", "NOT_RUNNABLE"} :
           /\ env_status[e] # "FREE" /\ SafeStatusCall(c, e, st)
           /\ env_status' = [env_status EXCEPT ![e] = st]
    BY <1>16, <2>1, ResolveFacts DEF sys_env_set_status, Discipline
  <2> QED BY <1>16, <2>1, <2>2, DispatchFacts DEF sys_env_set_status, SafeStatusCall
<1>17. CASE sys_env_set_pgfault_upcall(c)
  BY <1>17 DEF sys_env_set_pgfault_upcall
<1>18. CASE sys_env_destroy(c)
  <2>1. pc[c] = "dispatch" /\ tf_cs[c] = "user"
    BY <1>18 DEF sys_env_destroy
  <2>2. PICK e \in Env : env_status[e] # "FREE" /\ env_destroy(c, e) /\ SafeDestroyCall(e)
    BY <1>18, <2>1, ResolveFacts DEF sys_env_destroy, Discipline
  <2>3. Destroyed(c)
    BY <2>2, DestroyEffect
  <2> QED BY <1>18, <2>1, <2>2, <2>3, DispatchFacts DEF sys_env_destroy, Destroyed, env_destroy, env_free, SafeDestroyCall
<1>19. CASE sys_ipc_recv(c)
  BY <1>19, DispatchFacts DEF sys_ipc_recv
<1>20. CASE sys_ipc_try_send(c)
  <2>1. pc[c] = "dispatch" /\ tf_cs[c] = "user"
    BY <1>20 DEF sys_ipc_try_send
  <2>2. CASE UNCHANGED <<env_ipc_recving, env_ipc_from, env_ipc_value, env_status>>
    BY <1>20, <2>1, <2>2 DEF sys_ipc_try_send
  <2>3. ASSUME NEW e \in Env, NEW value, env_status[e] # "FREE", env_ipc_recving[e], Deliver(c, e, value)
        PROVE  SavedContext'
    BY <1>20, <2>1, <2>3, DispatchFacts DEF sys_ipc_try_send, Deliver
  <2> QED BY <1>20, <2>1, <2>2, <2>3, ResolveFacts DEF sys_ipc_try_send
<1> QED
  BY <1>1, <1>2, <1>3, <1>4, <1>5, <1>6, <1>7, <1>8, <1>9, <1>10, <1>11, <1>12,
     <1>13, <1>14, <1>15, <1>16, <1>17, <1>18, <1>19, <1>20 DEF Step

(* Taking the first slot off the list, and putting one back.               *)
LEMMA PopKeepsList ==
    ASSUME TypeOK, FreeListExact, env_free_list # << >>, NEW st \in Status \ {"FREE"},
           env_status' = [env_status EXCEPT ![Head(env_free_list)] = st],
           env_free_list' = Tail(env_free_list)
    PROVE  FreeListExact'
<1> DEFINE e == Head(env_free_list)
           n == Len(env_free_list)
<1>1. /\ e \in Env /\ e = env_free_list[1] /\ n \in Nat \ {0}
      /\ Len(env_free_list') = n - 1
      /\ \A k \in 1..n - 1 : env_free_list'[k] = env_free_list[k + 1]
  BY PopType DEF TypeOK
<1>2. \A j, k \in 1..n : env_free_list[j] = env_free_list[k] => j = k
  BY DEF FreeListExact
<1> HIDE DEF e
<1>3. \A j, k \in 1..n - 1 : env_free_list'[j] = env_free_list'[k] => j = k
  BY <1>1, <1>2
<1>4. ASSUME NEW i \in Env
      PROVE  env_status'[i] = "FREE" <=> \E k \in 1..n - 1 : env_free_list'[k] = i
  <2>1. env_status[i] = "FREE" <=> \E k \in 1..n : env_free_list[k] = i
    BY <1>4 DEF FreeListExact
  <2>2. env_status'[i] = IF i = e THEN st ELSE env_status[i]
    BY <1>4 DEF TypeOK, e
  <2>3. CASE i = e
    <3>1. \A k \in 1..n - 1 : env_free_list'[k] # i
      BY <1>1, <1>2, <2>3
    <3> QED BY <2>2, <2>3, <3>1
  <2>4. CASE i # e
    <3>1. ASSUME NEW k \in 1..n, env_free_list[k] = i PROVE k - 1 \in 1..n - 1 /\ env_free_list'[k - 1] = i
      BY <1>1, <2>4, <3>1
    <3>2. ASSUME NEW k \in 1..n - 1, env_free_list'[k] = i PROVE k + 1 \in 1..n /\ env_free_list[k + 1] = i
      BY <1>1, <3>2
    <3>3. (\E k \in 1..n : env_free_list[k] = i) <=> (\E k \in 1..n - 1 : env_free_list'[k] = i)
      BY <3>1, <3>2
    <3> QED BY <2>1, <2>2, <2>4, <3>3
  <2> QED BY <2>3, <2>4
<1> QED BY <1>1, <1>3, <1>4 DEF FreeListExact

(* env_free of an environment that is not free keeps the list exact.       *)
LEMMA PushKeepsList ==
    ASSUME TypeOK, FreeListExact, NEW e \in Env, env_status[e] # "FREE", env_free(e)
    PROVE  FreeListExact'
<1> DEFINE n == Len(env_free_list)
<1>1. /\ n \in Nat /\ Len(env_free_list') = n + 1
      /\ env_free_list'[1] = e
      /\ \A k \in 1..n : env_free_list'[k + 1] = env_free_list[k]
  BY PushType DEF TypeOK, env_free
<1>2. /\ \A j, k \in 1..n : env_free_list[j] = env_free_list[k] => j = k
      /\ \A k \in 1..n : env_free_list[k] # e
  BY DEF FreeListExact
<1>3. ASSUME NEW k \in 1..n + 1, k # 1
      PROVE  k - 1 \in 1..n /\ env_free_list'[k] = env_free_list[k - 1]
  BY <1>1, <1>3
<1>4. ASSUME NEW j \in 1..n + 1, NEW k \in 1..n + 1, env_free_list'[j] = env_free_list'[k]
      PROVE  j = k
  <2>1. CASE j = 1 \/ k = 1
    BY <1>1, <1>2, <1>3, <1>4, <2>1
  <2>2. CASE j # 1 /\ k # 1
    <3>1. j - 1 \in 1..n /\ k - 1 \in 1..n /\ env_free_list[j - 1] = env_free_list[k - 1]
      BY <1>3, <1>4, <2>2
    <3>2. j - 1 = k - 1
      BY <1>2, <3>1
    <3> QED BY <1>1, <3>2
  <2> QED BY <2>1, <2>2
<1>5. ASSUME NEW i \in Env
      PROVE  env_status'[i] = "FREE" <=> \E k \in 1..n + 1 : env_free_list'[k] = i
  <2>1. env_status[i] = "FREE" <=> \E k \in 1..n : env_free_list[k] = i
    BY <1>5 DEF FreeListExact
  <2>2. env_status'[i] = IF i = e THEN "FREE" ELSE env_status[i]
    BY <1>5 DEF TypeOK, env_free
  <2>3. CASE i = e
    BY <1>1, <2>2, <2>3
  <2>4. CASE i # e
    <3>1. ASSUME NEW k \in 1..n, env_free_list[k] = i PROVE k + 1 \in 1..n + 1 /\ env_free_list'[k + 1] = i
      BY <1>1, <3>1
    <3>2. ASSUME NEW k \in 1..n + 1, env_free_list'[k] = i PROVE k - 1 \in 1..n /\ env_free_list[k - 1] = i
      BY <1>1, <1>3, <2>4, <3>2
    <3>3. (\E k \in 1..n : env_free_list[k] = i) <=> (\E k \in 1..n + 1 : env_free_list'[k] = i)
      BY <3>1, <3>2
    <3> QED BY <2>1, <2>2, <2>4, <3>3
  <2> QED BY <2>3, <2>4
<1> QED BY <1>1, <1>4, <1>5 DEF FreeListExact

(* A step that frees and allocates nothing keeps the list exact.           *)
LEMMA SameKeepsList ==
    ASSUME FreeListExact, env_free_list' = env_free_list,
           \A i \in Env : env_status'[i] = "FREE" <=> env_status[i] = "FREE"
    PROVE  FreeListExact'
  BY DEF FreeListExact

(* Every step keeps the free list exact.                                   *)
LEMMA FreeListStep ==
    ASSUME Discipline, IInv, NEW c \in Cpu, Step(c)
    PROVE  FreeListExact'
<1>00. LockIInv
  BY DEF IInv
<1>0. LockIInv /\ TypeOK /\ HasCurenv /\ FreeListExact
  BY DEF IInv, LockIInv
<1> USE <1>0, NoneNotEnv DEF TypeOK, Goto, Panic, cpuVars, ipcData, allocVars, envVars, Dispatch, UserDispatch
<1>1. CASE env_create(c)
  BY <1>1, PopKeepsList DEF env_create, env_alloc, Status
<1>2. CASE trap(c)
  BY <1>2, SameKeepsList DEF trap
<1>3. CASE spin_lock(c)
  BY <1>3, SameKeepsList DEF spin_lock
<1>4. CASE TrapSave(c)
  <2>1. curenv[c] \in Env /\ curenv[c] # None
    BY <1>4 DEF TrapSave, HasCurenv
  <2>2. CASE env_status[curenv[c]] = "DYING"
    BY <1>4, <2>1, <2>2, PushKeepsList DEF TrapSave
  <2>3. CASE env_status[curenv[c]] # "DYING"
    BY <1>4, <2>1, <2>3, SameKeepsList DEF TrapSave
  <2> QED BY <2>2, <2>3
<1>5. CASE TrapReturn(c)
  <2>1. \A i \in Env : env_status'[i] = env_status[i] \/ (env_status[i] # "FREE" /\ env_status'[i] # "FREE")
    BY <1>5 DEF TrapReturn, env_run
  <2> QED BY <1>5, <2>1, SameKeepsList DEF TrapReturn
<1>6. CASE env_pop_tf(c)
  BY <1>6, SameKeepsList DEF env_pop_tf
<1>7. CASE Monitor(c)
  BY <1>7, SameKeepsList DEF Monitor, vars
<1>8. CASE sched_yield(c)
  <2>1. pc[c] = "sched" /\ pc[c] \in KernelPcs
    BY <1>8 DEF sched_yield, KernelPcs
  <2>2. ASSUME NEW e \in Env, RunsNext(c, e) PROVE FreeListExact'
    <3>1. env_status[e] # "FREE" /\ env_run(c, e)
      BY <2>2 DEF RunsNext
    <3>2. ASSUME NEW i \in Env PROVE env_status'[i] = "FREE" <=> env_status[i] = "FREE"
      <4>1. CASE e = curenv[c]
        BY <3>1, <4>1 DEF env_run
      <4>2. CASE e # curenv[c]
        <5>1. env_status'[i] = IF i = e THEN "RUNNING"
                               ELSE IF i = curenv[c] /\ env_status[i] = "RUNNING" THEN "RUNNABLE"
                               ELSE env_status[i]
          BY <3>1, <3>2, <4>2 DEF env_run
        <5> QED BY <3>1, <5>1
      <4> QED BY <4>1, <4>2
    <3> QED BY <1>8, <3>2, SameKeepsList DEF sched_yield
  <2>3. ASSUME Halts(c) PROVE FreeListExact'
    <3>1. env_status' = env_status
      BY <2>3 DEF Halts, sched_halt
    <3> QED BY <1>8, <3>1, SameKeepsList DEF sched_yield
  <2> QED BY <1>8, <1>00, <2>2, <2>3, YieldEffect
<1>9. CASE TimerOrYield(c)
  BY <1>9, SameKeepsList DEF TimerOrYield
<1>10. CASE NoEffect(c)
  BY <1>10, SameKeepsList DEF NoEffect
<1>11. CASE UnhandledInUser(c)
  BY <1>11, DispatchFacts, PushKeepsList DEF UnhandledInUser, env_destroy
<1>12. CASE UnhandledInHalt(c)
  BY <1>12, SameKeepsList DEF UnhandledInHalt
<1>13. CASE Breakpoint(c)
  BY <1>13, SameKeepsList DEF Breakpoint
<1>14. CASE page_fault_handler(c)
  <2>1. pc[c] = "dispatch" /\ tf_cs[c] = "user"
    BY <1>14 DEF page_fault_handler
  <2>2. CASE env_run(c, curenv[c]) /\ UNCHANGED env_free_list
    BY <2>2, SameKeepsList DEF env_run
  <2>3. CASE env_destroy(c, curenv[c])
    BY <2>1, <2>3, DispatchFacts, PushKeepsList DEF env_destroy
  <2> QED BY <1>14, <2>2, <2>3 DEF page_fault_handler
<1>15. CASE sys_exofork(c)
  BY <1>15, PopKeepsList DEF sys_exofork, env_alloc, Status
<1>16. CASE sys_env_set_status(c)
  <2>1. PICK e \in Env, st \in {"RUNNABLE", "NOT_RUNNABLE"} :
           /\ env_status[e] # "FREE"
           /\ env_status' = [env_status EXCEPT ![e] = st]
    BY <1>16, ResolveFacts DEF sys_env_set_status
  <2> QED BY <1>16, <2>1, SameKeepsList DEF sys_env_set_status
<1>17. CASE sys_env_set_pgfault_upcall(c)
  BY <1>17, SameKeepsList DEF sys_env_set_pgfault_upcall
<1>18. CASE sys_env_destroy(c)
  <2>1. PICK e \in Env : env_status[e] # "FREE" /\ env_destroy(c, e)
    BY <1>18, ResolveFacts DEF sys_env_destroy
  <2>2. CASE env_status' = [env_status EXCEPT ![e] = "DYING"] /\ UNCHANGED env_free_list
    BY <2>1, <2>2, SameKeepsList
  <2>3. CASE env_free(e)
    BY <2>1, <2>3, PushKeepsList
  <2> QED BY <2>1, <2>2, <2>3 DEF env_destroy
<1>19. CASE sys_ipc_recv(c)
  BY <1>19, DispatchFacts, SameKeepsList DEF sys_ipc_recv
<1>20. CASE sys_ipc_try_send(c)
  <2>1. env_free_list' = env_free_list
    BY <1>20 DEF sys_ipc_try_send
  <2>2. CASE env_status' = env_status
    BY <2>1, <2>2, SameKeepsList
  <2>3. ASSUME NEW e \in Env, NEW value, env_status[e] # "FREE", Deliver(c, e, value)
        PROVE  FreeListExact'
    BY <2>1, <2>3, SameKeepsList DEF Deliver
  <2> QED BY <1>20, <2>2, <2>3, ResolveFacts DEF sys_ipc_try_send
<1> QED
  BY <1>1, <1>2, <1>3, <1>4, <1>5, <1>6, <1>7, <1>8, <1>9, <1>10, <1>11, <1>12,
     <1>13, <1>14, <1>15, <1>16, <1>17, <1>18, <1>19, <1>20 DEF Step

(* The invariant of disciplined programs holds at boot.                    *)
LEMMA IInvInit == Init => IInv
<1> SUFFICES ASSUME Init PROVE IInv
  OBVIOUS
<1>1. LockIInv
  BY LockIInvInit
<1>2. CurenvStatus /\ NoEnvOnTwoCpus /\ LoadedContext
  BY NoneNotEnv, KernelAssumption DEF Init, CurenvStatus, CurenvOk, NoEnvOnTwoCpus, LoadedContext
<1>3. RunningHasCpu /\ SavedContext /\ ReceiverBlocked
  BY DEF Init, RunningHasCpu, SavedContext, ReceiverBlocked
<1>4. FreeListExact
  <2>1. Len(env_free_list) = NENV /\ \A k \in 1..NENV : env_free_list[k] = k - 1
    BY KernelAssumption DEF Init
  <2>2. ASSUME NEW i \in Env PROVE i + 1 \in 1..NENV /\ env_free_list[i + 1] = i
    BY <2>1, <2>2, KernelAssumption DEF Env
  <2>3. \A i \in Env : env_status[i] = "FREE"
    BY DEF Init
  <2> QED BY <2>1, <2>2, <2>3, KernelAssumption DEF FreeListExact
<1> QED BY <1>1, <1>2, <1>3, <1>4 DEF IInv

(* The invariant of disciplined programs is inductive.                     *)
LEMMA IInvStep ==
    ASSUME Discipline PROVE IInv /\ [Next]_vars => IInv'
<1> SUFFICES ASSUME IInv, [Next]_vars PROVE IInv'
  OBVIOUS
<1>1. LockIInv'
  BY LockIInvStep DEF IInv
<1>2. ASSUME NEW c \in Cpu, Step(c) PROVE IInv'
  BY <1>1, <1>2, OnCpuStep, ReceiverStep, LoadedStep, SavedStep, FreeListStep DEF IInv, OnCpuInv
<1>3. CASE UNCHANGED vars
  <2>1. UNCHANGED <<pc, tf_cs, ctx, curenv, env_status, env_gen, env_tf, env_ipc_recving, env_free_list>>
    BY <1>3 DEF vars, cpuVars, envVars, allocVars
  <2>2. CurenvStatus' /\ NoEnvOnTwoCpus' /\ RunningHasCpu'
    BY <2>1 DEF IInv, CurenvStatus, CurenvOk, NoEnvOnTwoCpus, RunningHasCpu
  <2>3. SavedContext' /\ LoadedContext' /\ ReceiverBlocked' /\ FreeListExact'
    BY <2>1 DEF IInv, SavedContext, LoadedContext, Id, ReceiverBlocked, FreeListExact
  <2> QED BY <1>1, <2>2, <2>3 DEF IInv
<1> QED BY <1>2, <1>3 DEF Next

(* With disciplined programs, IInv holds in every reachable state.         *)
THEOREM IInvCorrect ==
    ASSUME Discipline PROVE Spec => []IInv
<1>1. IInv /\ [Next]_vars => IInv'
  BY IInvStep
<1> QED BY <1>1, IInvInit, PTL DEF Spec

(* With disciplined programs, no environment is ever current on two CPUs.  *)
THEOREM EnvExclusion ==
    ASSUME Discipline PROVE Spec => []NoEnvOnTwoCpus
<1>1. IInv => NoEnvOnTwoCpus
  BY DEF IInv
<1> QED BY <1>1, IInvCorrect, PTL

(* With disciplined programs, a CPU in user mode executes the registers of *)
(* its current environment, which was not freed or reused meanwhile.       *)
THEOREM ContextSafety ==
    ASSUME Discipline PROVE Spec => []RunsOwnContext
<1>1. IInv => RunsOwnContext
  BY DEF IInv, LockIInv, HasCurenv, CurenvStatus, CurenvOk, LoadedContext, RunsOwnContext
<1> QED BY <1>1, IInvCorrect, PTL

(* With disciplined programs, a RUNNING environment or a zombie is current *)
(* on some CPU: none is left behind that no CPU would schedule or free.    *)
THEOREM NoLostEnv ==
    ASSUME Discipline PROVE Spec => []RunningHasCpu
<1>1. IInv => RunningHasCpu
  BY DEF IInv
<1> QED BY <1>1, IInvCorrect, PTL

(* With disciplined programs, an environment with env_ipc_recving set does *)
(* not run.                                                                *)
THEOREM ReceiverSafety ==
    ASSUME Discipline PROVE Spec => []ReceiverBlocked
<1>1. IInv => ReceiverBlocked
  BY DEF IInv
<1> QED BY <1>1, IInvCorrect, PTL

(* With disciplined programs, the free list holds each free slot once.     *)
THEOREM FreeListSafety ==
    ASSUME Discipline PROVE Spec => []FreeListExact
<1>1. IInv => FreeListExact
  BY DEF IInv
<1> QED BY <1>1, IInvCorrect, PTL

(***************************************************************************)
(* Who may wake a receiver                                                 *)
(***************************************************************************)

(* The step makes a blocked receiver runnable.                             *)
Wakes(i) ==
    env_ipc_recving[i] /\ env_status[i] = "NOT_RUNNABLE" /\ env_status'[i] = "RUNNABLE"

(* Another environment sends to i, from inside the kernel.                 *)
HasSender(i) ==
    /\ ~env_ipc_recving'[i]
    /\ \E c \in Cpu : lock = c /\ curenv[c] # i /\ env_ipc_from'[i] = Id(curenv[c])

(* env_run makes only a RUNNING environment RUNNABLE, and env_destroy none.*)
LEMMA RunWakesNone ==
    ASSUME TypeOK, NEW c \in Cpu, NEW e \in Env, NEW i \in Env, Wakes(i)
    PROVE  ~env_run(c, e) /\ ~env_destroy(c, e)
<1>1. ~env_run(c, e)
  BY DEF TypeOK, env_run, Wakes
<1>2. ~env_destroy(c, e)
  BY DEF TypeOK, env_destroy, env_free, Wakes
<1> QED BY <1>1, <1>2

(* env_alloc takes a slot that is free.                                    *)
LEMMA AllocWakesNone ==
    ASSUME IInv, NEW i \in Env, Wakes(i), NEW parent, NEW st
    PROVE  ~env_alloc(parent, st)
<1> SUFFICES ASSUME env_alloc(parent, st) PROVE FALSE
  OBVIOUS
<1>1. /\ Head(env_free_list) \in Env /\ env_status[Head(env_free_list)] = "FREE"
      /\ env_status' = [env_status EXCEPT ![Head(env_free_list)] = st]
  BY AllocFacts DEF env_alloc
<1> QED BY <1>1 DEF Wakes, IInv, LockIInv, TypeOK

(* Of all steps only the end of sys_ipc_try_send wakes a receiver: no      *)
(* disciplined sys_env_set_status names one.                               *)
LEMMA WakeStep ==
    ASSUME Discipline, IInv, NEW c \in Cpu, Step(c), NEW i \in Env, Wakes(i)
    PROVE  HasSender(i)
<1>0. TypeOK /\ LockIInv /\ IInv
  BY DEF IInv, LockIInv
<1>a. env_status'[i] # env_status[i]
  BY DEF Wakes
<1>1. CASE env_create(c)
  BY <1>0, <1>1, AllocWakesNone DEF env_create
<1>2. CASE trap(c)
  BY <1>a, <1>2 DEF trap, envVars
<1>3. CASE spin_lock(c)
  BY <1>a, <1>3 DEF spin_lock, envVars
<1>4. CASE TrapSave(c)
  BY <1>0, <1>4 DEF TrapSave, env_free, envVars, TypeOK, Wakes
<1>5. CASE TrapReturn(c)
  BY <1>a, <1>5 DEF TrapReturn, env_run
<1>6. CASE env_pop_tf(c)
  BY <1>a, <1>6 DEF env_pop_tf, envVars
<1>7. CASE Monitor(c)
  BY <1>a, <1>7 DEF Monitor, vars, envVars
<1>8. CASE sched_yield(c)
  <2>1. ~sched_halt(c)
    BY <1>a DEF sched_halt
  <2> QED BY <1>0, <1>8, <2>1, YieldEffect, RunWakesNone DEF RunsNext, Halts
<1>9. CASE TimerOrYield(c)
  BY <1>a, <1>9 DEF TimerOrYield, envVars
<1>10. CASE NoEffect(c)
  BY <1>a, <1>10 DEF NoEffect, envVars
<1>11. CASE UnhandledInUser(c)
  BY <1>0, <1>11, DispatchFacts, RunWakesNone DEF UnhandledInUser, UserDispatch, Dispatch
<1>12. CASE UnhandledInHalt(c)
  BY <1>a, <1>12 DEF UnhandledInHalt, envVars
<1>13. CASE Breakpoint(c)
  BY <1>a, <1>13 DEF Breakpoint, envVars
<1>14. CASE page_fault_handler(c)
  BY <1>0, <1>14, DispatchFacts, RunWakesNone DEF page_fault_handler, UserDispatch, Dispatch
<1>15. CASE sys_exofork(c)
  BY <1>0, <1>15, AllocWakesNone DEF sys_exofork
<1>16. CASE sys_env_set_status(c)
  <2>1. PICK envid \in EnvId, st \in {"RUNNABLE", "NOT_RUNNABLE"} :
           /\ envid2env(c, envid, TRUE) # None
           /\ SafeStatusCall(c, envid2env(c, envid, TRUE), st)
           /\ env_status' = [env_status EXCEPT ![envid2env(c, envid, TRUE)] = st]
    BY <1>16 DEF sys_env_set_status, Discipline
  <2>2. i = envid2env(c, envid, TRUE) /\ st = "RUNNABLE"
    BY <1>0, <2>1 DEF TypeOK, Wakes
  <2> QED BY <2>1, <2>2 DEF SafeStatusCall, Wakes
<1>17. CASE sys_env_set_pgfault_upcall(c)
  BY <1>a, <1>17 DEF sys_env_set_pgfault_upcall
<1>18. CASE sys_env_destroy(c)
  <2>1. PICK e \in Env : env_destroy(c, e)
    BY <1>0, <1>18, ResolveFacts DEF sys_env_destroy, UserDispatch, Dispatch
  <2> QED BY <1>0, <2>1, RunWakesNone
<1>19. CASE sys_ipc_recv(c)
  BY <1>0, <1>19 DEF sys_ipc_recv, TypeOK, Wakes
<1>20. CASE sys_ipc_try_send(c)
  <2>1. lock = c /\ curenv[c] \in Env /\ env_status[curenv[c]] = "RUNNING"
    BY <1>0, <1>20, DispatchFacts DEF sys_ipc_try_send, UserDispatch, Dispatch
  <2>2. PICK e \in Env, value \in Values : Deliver(c, e, value)
    BY <1>0, <1>a, <1>20, ResolveFacts DEF sys_ipc_try_send, UserDispatch, Dispatch
  <2>3. i = e
    BY <1>0, <1>a, <2>2 DEF Deliver, TypeOK
  <2>4. ~env_ipc_recving'[i] /\ env_ipc_from'[i] = Id(curenv[c])
    BY <1>0, <2>2, <2>3 DEF Deliver, TypeOK
  <2>5. curenv[c] # i
    BY <2>1 DEF Wakes
  <2> QED BY <2>1, <2>4, <2>5 DEF HasSender
<1> QED
  BY <1>1, <1>2, <1>3, <1>4, <1>5, <1>6, <1>7, <1>8, <1>9, <1>10, <1>11, <1>12,
     <1>13, <1>14, <1>15, <1>16, <1>17, <1>18, <1>19, <1>20 DEF Step

(* With disciplined programs, a receiver that is blocked in sys_ipc_recv   *)
(* is made runnable by a send of another environment and by nothing else,  *)
(* and the send clears env_ipc_recving and names its sender.               *)
THEOREM ReceiverWoken ==
    ASSUME Discipline PROVE Spec => WokenBySend
<1>1. IInv /\ [Next]_vars =>
        [\A i \in Env :
          env_ipc_recving[i] /\ env_status[i] = "NOT_RUNNABLE" /\ env_status'[i] = "RUNNABLE" =>
             /\ ~env_ipc_recving'[i]
             /\ \E c \in Cpu : lock = c /\ curenv[c] # i /\ env_ipc_from'[i] = Id(curenv[c])]_vars
  BY WakeStep DEF Next, Wakes, HasSender
<1>2. IInv /\ [Next]_vars => IInv'
  BY IInvStep
<1> QED BY <1>1, <1>2, IInvInit, PTL DEF Spec, WokenBySend

=============================================================================
