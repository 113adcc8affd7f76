------------------------------- MODULE Kernel -------------------------------
(***************************************************************************)
(* The multiprocessor core of the JOS kernel: the big kernel lock          *)
(* (kern/spinlock.c), trap entry and exit (kern/trap.c), the environment   *)
(* table (kern/env.c), the scheduler (kern/sched.c) and the system calls   *)
(* that change environments (kern/syscall.c).                              *)
(*                                                                         *)
(* Each CPU has a program counter.  A step of a CPU is a stretch of code   *)
(* between two points at which another CPU can observe it: taking the      *)
(* lock, one handler, one call of sched_yield, and the return to user mode *)
(* after the lock was released.  Memory management is abstracted to its    *)
(* outcome (a call that needs a page may fail); module Pmap models it.     *)
(*                                                                         *)
(* A definition named <operator>_<what is wrong> is a faulty variant of    *)
(* the operator after it; no specification uses it.  Each shows that some  *)
(* property would notice the fault.                                        *)
(***************************************************************************)
EXTENDS Integers, Sequences, FiniteSets

CONSTANTS
    Cpu,          \* the CPUs mp_init found (kern/mpconfig.c)
    Bsp,          \* the boot CPU, which runs i386_init
    NoCpu,        \* value of "lock" when the lock is free
    NENV,         \* slots of envs[]
    MaxGen,       \* generations that fit into an env_id
    InitEnvs,     \* ENV_CREATE calls of i386_init
    Values,       \* values sent by IPC
    Perms,        \* page permissions sent by IPC, all different from 0
    Traps,        \* the traps that occur
    Disciplined   \* the calls, of "set_status" and "destroy", that programs
                  \* make only as SafeStatusCall and SafeDestroyCall say

AllTraps == {"timer", "spurious", "unhandled", "irq_in_halt", "pgflt", "noeffect",
             "brkpt", "yield", "exofork", "set_status", "set_upcall", "destroy",
             "ipc_try_send", "ipc_recv"}

ASSUME KernelAssumption ==
    /\ Bsp \in Cpu
    /\ NoCpu \notin Cpu
    /\ NENV \in Nat \ {0}
    /\ MaxGen \in Nat \ {0}
    /\ InitEnvs \in 1..NENV
    /\ Perms \subseteq Nat \ {0}
    /\ Disciplined \subseteq {"set_status", "destroy"}

Env == 0..NENV-1
None == -1                       \* the null pointer of type struct Env *
EnvId == Env \X (0..MaxGen)      \* an envid_t: index and uniqueifier
ZeroId == <<0, 0>>               \* envid 0: "the current environment"

Status == {"FREE", "DYING", "RUNNABLE", "RUNNING", "NOT_RUNNABLE"}

VARIABLES
    lock,               \* kernel_lock: the CPU that holds it, or NoCpu
    pc,                 \* where each CPU is
    tf_cs,              \* privilege level each CPU's last trap came from
    ctx,                \* whose registers each CPU last had in user mode
    cpu_status,         \* struct CpuInfo
    curenv,             \* cpu_env of struct CpuInfo
    panicstr,
    env_status,         \* struct Env, field by field
    env_gen,
    env_parent_id,
    env_tf,             \* whose registers the saved trap frame holds
    env_pgfault_upcall,
    env_ipc_recving,
    env_ipc_dstva,      \* TRUE: below UTOP, a page is asked for
    env_ipc_from,
    env_ipc_value,
    env_ipc_perm,
    env_free_list

cpuVars == <<tf_cs, ctx, cpu_status>>
ipcData == <<env_ipc_dstva, env_ipc_from, env_ipc_value, env_ipc_perm>>
allocVars == <<env_gen, env_parent_id, env_tf, env_pgfault_upcall>>
envVars == <<env_status, allocVars, env_ipc_recving, ipcData, env_free_list>>
vars == <<lock, pc, cpuVars, curenv, panicstr, envVars>>

(* Waiting in lock_kernel(): from mp_main, or twice from trap.             *)
SpinPcs == {"mp_lock", "halt_lock", "user_lock"}
(* Inside the kernel.  "monitor" is the loop in the kernel monitor that    *)
(* _panic, sched_halt and a breakpoint enter and never leave.              *)
KernelPcs == {"create", "save", "dispatch", "ret", "sched", "monitor"}
(* "pop" is env_pop_tf, after env_run has released the lock; "dead" is the *)
(* hlt of a CPU that trapped after another one panicked.                   *)
Pcs == SpinPcs \cup KernelPcs \cup {"user", "halt", "pop", "dead"}

-----------------------------------------------------------------------------
(* Helpers *)

Id(i) == <<i, env_gen[i]>>

Goto(c, l) == pc' = [pc EXCEPT ![c] = l]

Panic(c) == panicstr' = TRUE /\ Goto(c, "monitor")

spin_unlock_forgotten(c, l) == Goto(c, l) /\ UNCHANGED <<lock, panicstr>>

spin_unlock(c, l) ==
    IF lock = c
    THEN lock' = NoCpu /\ Goto(c, l) /\ UNCHANGED panicstr
    ELSE Panic(c) /\ UNCHANGED lock

envid2env_no_checkperm(c, envid, checkperm) ==
    IF envid = ZeroId THEN curenv[c]
    ELSE IF env_status[envid[1]] = "FREE" \/ Id(envid[1]) # envid THEN None
    ELSE envid[1]

(* The slot envid names for the environment running on c, or None.         *)
envid2env(c, envid, checkperm) ==
    IF envid = ZeroId THEN curenv[c]
    ELSE LET e == envid[1] IN
         IF \/ env_status[e] = "FREE"
            \/ Id(e) # envid
            \/ checkperm /\ e # curenv[c] /\ env_parent_id[e] # Id(curenv[c])
         THEN None
         ELSE e

NextGen_no_wrap(g) == g + 1

(* The generation env_alloc derives from the slot's last env_id.           *)
NextGen(g) == IF g + 1 > MaxGen THEN 1 ELSE g + 1

(* env_alloc for a parent, leaving the new environment in status st.       *)
env_alloc(parent, st) ==
    LET e == Head(env_free_list) IN
    /\ env_free_list # << >>
    /\ env_gen' = [env_gen EXCEPT ![e] = NextGen(@)]
    /\ env_parent_id' = [env_parent_id EXCEPT ![e] = parent]
    /\ env_status' = [env_status EXCEPT ![e] = st]
    /\ env_tf' = [env_tf EXCEPT ![e] = <<e, NextGen(env_gen[e])>>]
    /\ env_pgfault_upcall' = [env_pgfault_upcall EXCEPT ![e] = FALSE]
    /\ env_ipc_recving' = [env_ipc_recving EXCEPT ![e] = FALSE]
    /\ env_free_list' = Tail(env_free_list)

env_free_not_linked(e) ==
    env_status' = [env_status EXCEPT ![e] = "FREE"] /\ UNCHANGED env_free_list

env_free(e) ==
    /\ env_status' = [env_status EXCEPT ![e] = "FREE"]
    /\ env_free_list' = <<e>> \o env_free_list

env_destroy_no_zombie(c, e) ==
    /\ env_free(e)
    /\ IF curenv[c] = e
       THEN curenv' = [curenv EXCEPT ![c] = None] /\ Goto(c, "sched")
       ELSE Goto(c, "ret") /\ UNCHANGED curenv

env_destroy(c, e) ==
    \/ /\ env_status[e] = "RUNNING" /\ curenv[c] # e
       /\ env_status' = [env_status EXCEPT ![e] = "DYING"]
       /\ Goto(c, "ret")
       /\ UNCHANGED <<curenv, env_free_list>>
    \/ /\ ~(env_status[e] = "RUNNING" /\ curenv[c] # e)
       /\ env_free(e)
       /\ IF curenv[c] = e
          THEN curenv' = [curenv EXCEPT ![c] = None] /\ Goto(c, "sched")
          ELSE Goto(c, "ret") /\ UNCHANGED curenv

env_run_keeps_old_running(c, e) ==
    /\ env_status' = IF curenv[c] = e THEN env_status ELSE [env_status EXCEPT ![e] = "RUNNING"]
    /\ curenv' = [curenv EXCEPT ![c] = e]
    /\ spin_unlock(c, "pop")

env_run(c, e) ==
    /\ IF curenv[c] = e
       THEN UNCHANGED <<env_status, curenv>>
       ELSE /\ env_status' = [i \in Env |->
                  IF i = e THEN "RUNNING"
                  ELSE IF i = curenv[c] /\ env_status[i] = "RUNNING" THEN "RUNNABLE"
                  ELSE env_status[i]]
            /\ curenv' = [curenv EXCEPT ![c] = e]
    /\ spin_unlock(c, "pop")

-----------------------------------------------------------------------------
(* Boot, the lock, trap entry and return to user mode *)

(* env_init and boot_aps are done: every slot is free, in order; the boot  *)
(* CPU holds the lock and every other CPU is in mp_main, about to take it. *)
Init ==
    /\ lock = Bsp
    /\ pc = [c \in Cpu |-> IF c = Bsp THEN "create" ELSE "mp_lock"]
    /\ tf_cs = [c \in Cpu |-> "kernel"]
    /\ ctx = [c \in Cpu |-> ZeroId]
    /\ cpu_status = [c \in Cpu |-> "STARTED"]
    /\ curenv = [c \in Cpu |-> None]
    /\ panicstr = FALSE
    /\ env_status = [i \in Env |-> "FREE"]
    /\ env_gen = [i \in Env |-> 0]
    /\ env_parent_id = [i \in Env |-> ZeroId]
    /\ env_tf = [i \in Env |-> ZeroId]
    /\ env_pgfault_upcall = [i \in Env |-> FALSE]
    /\ env_ipc_recving = [i \in Env |-> FALSE]
    /\ env_ipc_dstva = [i \in Env |-> FALSE]
    /\ env_ipc_from = [i \in Env |-> ZeroId]
    /\ env_ipc_value = [i \in Env |-> 0]
    /\ env_ipc_perm = [i \in Env |-> 0]
    /\ env_free_list = [k \in 1..NENV |-> k - 1]

(* ENV_CREATE in i386_init; after the last one, the first sched_yield.     *)
env_create(c) ==
    /\ pc[c] = "create"
    /\ env_alloc(ZeroId, "RUNNABLE")
    /\ Goto(c, IF Len(env_free_list) - 1 = NENV - InitEnvs THEN "sched" ELSE "create")
    /\ UNCHANGED <<lock, cpuVars, curenv, panicstr, ipcData>>

(* A trap or interrupt in user mode or in the hlt of sched_halt, up to the *)
(* first lock_kernel call.  A CPU that finds panicstr set stops for good.  *)
trap(c) ==
    /\ pc[c] \in {"user", "halt"}
    /\ tf_cs' = [tf_cs EXCEPT ![c] = IF pc[c] = "user" THEN "user" ELSE "kernel"]
    /\ IF panicstr
       THEN Goto(c, "dead") /\ UNCHANGED cpu_status
       ELSE /\ cpu_status' = [cpu_status EXCEPT ![c] = "STARTED"]
            /\ Goto(c, IF cpu_status[c] = "HALTED" THEN "halt_lock"
                       ELSE IF pc[c] = "user" THEN "user_lock" ELSE "dispatch")
    /\ UNCHANGED <<lock, ctx, curenv, panicstr, envVars>>

(* lock_kernel: panics if this CPU holds the lock, else spins on xchg.     *)
spin_lock(c) ==
    /\ pc[c] \in SpinPcs
    /\ IF lock = c
       THEN Panic(c) /\ UNCHANGED lock
       ELSE /\ lock = NoCpu
            /\ lock' = c
            /\ Goto(c, CASE pc[c] = "mp_lock" -> "sched"
                         [] pc[c] = "user_lock" -> "save"
                         [] pc[c] = "halt_lock" ->
                              IF tf_cs[c] = "user" THEN "user_lock" ELSE "dispatch")
            /\ UNCHANGED panicstr
    /\ UNCHANGED <<cpuVars, curenv, envVars>>

TrapSave_no_zombie_check(c) ==
    /\ pc[c] = "save"
    /\ env_tf' = [env_tf EXCEPT ![curenv[c]] = ctx[c]]
    /\ Goto(c, "dispatch")
    /\ UNCHANGED <<lock, cpuVars, curenv, panicstr, env_status, env_gen, env_parent_id,
                   env_pgfault_upcall, env_ipc_recving, ipcData, env_free_list>>

(* trap() of a user-mode trap, lock held: free the environment if it is a  *)
(* zombie, otherwise save its registers in env_tf.                         *)
TrapSave(c) ==
    /\ pc[c] = "save"
    /\ IF curenv[c] = None
       THEN Panic(c) /\ UNCHANGED <<curenv, envVars>>
       ELSE /\ IF env_status[curenv[c]] = "DYING"
               THEN /\ env_free(curenv[c])
                    /\ curenv' = [curenv EXCEPT ![c] = None]
                    /\ Goto(c, "sched")
                    /\ UNCHANGED env_tf
               ELSE /\ env_tf' = [env_tf EXCEPT ![curenv[c]] = ctx[c]]
                    /\ Goto(c, "dispatch")
                    /\ UNCHANGED <<env_status, env_free_list, curenv>>
            /\ UNCHANGED <<env_gen, env_parent_id, env_pgfault_upcall,
                           env_ipc_recving, ipcData, panicstr>>
    /\ UNCHANGED <<lock, cpuVars>>

(* The end of trap(): back to curenv if it is still RUNNING.               *)
TrapReturn(c) ==
    /\ pc[c] = "ret"
    /\ IF curenv[c] # None /\ env_status[curenv[c]] = "RUNNING"
       THEN env_run(c, curenv[c])
       ELSE Goto(c, "sched") /\ UNCHANGED <<lock, panicstr, env_status, curenv>>
    /\ UNCHANGED <<cpuVars, allocVars, env_ipc_recving, ipcData, env_free_list>>

(* env_pop_tf runs without the lock: it loads whatever env_tf holds now.   *)
env_pop_tf(c) ==
    /\ pc[c] = "pop"
    /\ ctx' = [ctx EXCEPT ![c] = env_tf[curenv[c]]]
    /\ Goto(c, "user")
    /\ UNCHANGED <<lock, tf_cs, cpu_status, curenv, panicstr, envVars>>

(* while (1) monitor(NULL) *)
Monitor(c) == pc[c] = "monitor" /\ UNCHANGED vars

-----------------------------------------------------------------------------
(* The scheduler *)

(* Slots the scan visits before reaching e when it starts at s.            *)
Dist(s, e) == IF e >= s THEN e - s ELSE e - s + NENV

ScanStart_always_0(c) == 0

ScanStart(c) == IF curenv[c] = None THEN 0 ELSE curenv[c]

Runnable_or_running == {i \in Env : env_status[i] \in {"RUNNABLE", "RUNNING"}}

Runnable == {i \in Env : env_status[i] = "RUNNABLE"}

(* sched_halt: nothing to do, so halt, or enter the monitor if no          *)
(* environment is left that could ever run.                                *)
sched_halt(c) ==
    /\ IF \A i \in Env : env_status[i] \in {"FREE", "NOT_RUNNABLE"}
       THEN Goto(c, "monitor") /\ UNCHANGED <<lock, curenv, panicstr, cpu_status>>
       ELSE /\ curenv' = [curenv EXCEPT ![c] = None]
            /\ cpu_status' = [cpu_status EXCEPT ![c] = "HALTED"]
            /\ spin_unlock(c, "halt")
    /\ UNCHANGED env_status

sched_yield(c) ==
    /\ pc[c] = "sched"
    /\ \/ \E e \in Runnable :
             /\ \A f \in Runnable : Dist(ScanStart(c), e) <= Dist(ScanStart(c), f)
             /\ env_run(c, e)
             /\ UNCHANGED cpu_status
       \/ /\ Runnable = {}
          /\ curenv[c] # None /\ env_status[curenv[c]] = "RUNNING"
          /\ env_run(c, curenv[c])
          /\ UNCHANGED cpu_status
       \/ /\ Runnable = {}
          /\ ~(curenv[c] # None /\ env_status[curenv[c]] = "RUNNING")
          /\ sched_halt(c)
    /\ UNCHANGED <<tf_cs, ctx, allocVars, env_ipc_recving, ipcData, env_free_list>>

-----------------------------------------------------------------------------
(* trap_dispatch: one action for each trap *)

Dispatch(c, t) == pc[c] = "dispatch" /\ t \in Traps
UserDispatch(c, t) == Dispatch(c, t) /\ tf_cs[c] = "user"

(* IRQ_TIMER, and SYS_yield, which does the same from user mode only.      *)
TimerOrYield(c) ==
    /\ Dispatch(c, "timer") \/ UserDispatch(c, "yield")
    /\ Goto(c, "sched")
    /\ UNCHANGED <<lock, cpuVars, curenv, panicstr, envVars>>

(* A spurious interrupt, and every system call that leaves this module's   *)
(* state alone: sys_cputs, sys_cgetc, sys_getenvid, the sys_page_* calls,  *)
(* and each error return (bad envid, no free environment, no memory...).   *)
NoEffect(c) ==
    /\ Dispatch(c, "spurious") \/ UserDispatch(c, "noeffect")
    /\ Goto(c, "ret")
    /\ UNCHANGED <<lock, cpuVars, curenv, panicstr, envVars>>

(* Any other trap: the environment is destroyed; a CPU that was halted     *)
(* panics.                                                                 *)
UnhandledInUser(c) ==
    /\ UserDispatch(c, "unhandled")
    /\ env_destroy(c, curenv[c])
    /\ UNCHANGED <<lock, cpuVars, panicstr, allocVars, env_ipc_recving, ipcData>>

UnhandledInHalt(c) ==
    /\ Dispatch(c, "irq_in_halt") /\ tf_cs[c] = "kernel"
    /\ Panic(c)
    /\ UNCHANGED <<lock, cpuVars, curenv, envVars>>

Breakpoint(c) ==
    /\ UserDispatch(c, "brkpt")
    /\ Goto(c, "monitor")
    /\ UNCHANGED <<lock, cpuVars, curenv, panicstr, envVars>>

(* page_fault_handler: to the upcall, on the exception stack, or destroy   *)
(* the environment if there is no upcall or no room on that stack.         *)
page_fault_handler(c) ==
    /\ UserDispatch(c, "pgflt")
    /\ \/ env_pgfault_upcall[curenv[c]] /\ env_run(c, curenv[c]) /\ UNCHANGED env_free_list
       \/ env_destroy(c, curenv[c]) /\ UNCHANGED <<lock, panicstr>>
    /\ UNCHANGED <<cpuVars, allocVars, env_ipc_recving, ipcData>>

sys_exofork(c) ==
    /\ UserDispatch(c, "exofork")
    /\ env_alloc(Id(curenv[c]), "NOT_RUNNABLE")
    /\ Goto(c, "ret")
    /\ UNCHANGED <<lock, cpuVars, curenv, panicstr, ipcData>>

(* What the repository's programs do: only sleep oneself, or change a      *)
(* child that neither runs nor is blocked in sys_ipc_recv.                 *)
SafeStatusCall(c, e, st) ==
    \/ e = curenv[c] /\ st = "NOT_RUNNABLE"
    \/ env_status[e] \in {"RUNNABLE", "NOT_RUNNABLE"} /\ ~env_ipc_recving[e]

sys_env_set_status(c) ==
    /\ UserDispatch(c, "set_status")
    /\ \E envid \in EnvId, st \in {"RUNNABLE", "NOT_RUNNABLE"} :
         LET e == envid2env(c, envid, TRUE) IN
         /\ e # None
         /\ "set_status" \in Disciplined => SafeStatusCall(c, e, st)
         /\ env_status' = [env_status EXCEPT ![e] = st]
    /\ Goto(c, "ret")
    /\ UNCHANGED <<lock, cpuVars, curenv, panicstr, allocVars, env_ipc_recving,
                   ipcData, env_free_list>>

sys_env_set_pgfault_upcall(c) ==
    /\ UserDispatch(c, "set_upcall")
    /\ \E envid \in EnvId, func \in BOOLEAN :
         LET e == envid2env(c, envid, TRUE) IN
         /\ e # None
         /\ env_pgfault_upcall' = [env_pgfault_upcall EXCEPT ![e] = func]
    /\ Goto(c, "ret")
    /\ UNCHANGED <<lock, cpuVars, curenv, panicstr, env_status, env_gen, env_parent_id,
                   env_tf, env_ipc_recving, ipcData, env_free_list>>

(* A zombie is not destroyed a second time.                                *)
SafeDestroyCall(e) == env_status[e] # "DYING"

sys_env_destroy(c) ==
    /\ UserDispatch(c, "destroy")
    /\ \E envid \in EnvId :
         LET e == envid2env(c, envid, TRUE) IN
         /\ e # None
         /\ "destroy" \in Disciplined => SafeDestroyCall(e)
         /\ env_destroy(c, e)
    /\ UNCHANGED <<lock, cpuVars, panicstr, allocVars, env_ipc_recving, ipcData>>

-----------------------------------------------------------------------------
(* IPC *)

sys_ipc_recv(c) ==
    LET e == curenv[c] IN
    /\ UserDispatch(c, "ipc_recv")
    /\ env_ipc_recving' = [env_ipc_recving EXCEPT ![e] = TRUE]
    /\ \E page \in BOOLEAN : env_ipc_dstva' = [env_ipc_dstva EXCEPT ![e] = page]
    /\ env_status' = [env_status EXCEPT ![e] = "NOT_RUNNABLE"]
    /\ Goto(c, "sched")
    /\ UNCHANGED <<lock, cpuVars, curenv, panicstr, allocVars, env_ipc_from,
                   env_ipc_value, env_ipc_perm, env_free_list>>

Deliver_keeps_recving(c, e, value) ==
    /\ env_ipc_from' = [env_ipc_from EXCEPT ![e] = Id(curenv[c])]
    /\ env_ipc_value' = [env_ipc_value EXCEPT ![e] = value]
    /\ env_status' = [env_status EXCEPT ![e] = "RUNNABLE"]
    /\ UNCHANGED env_ipc_recving

(* The end of sys_ipc_try_send: e gets the value and can run again.        *)
Deliver(c, e, value) ==
    /\ env_ipc_recving' = [env_ipc_recving EXCEPT ![e] = FALSE]
    /\ env_ipc_from' = [env_ipc_from EXCEPT ![e] = Id(curenv[c])]
    /\ env_ipc_value' = [env_ipc_value EXCEPT ![e] = value]
    /\ env_status' = [env_status EXCEPT ![e] = "RUNNABLE"]

(* sendPage: srcva is below UTOP, and passed every check on it.  Then the  *)
(* page is mapped if the receiver asked for one, unless memory runs out.   *)
sys_ipc_try_send(c) ==
    /\ UserDispatch(c, "ipc_try_send")
    /\ \E envid \in EnvId, value \in Values, sendPage \in BOOLEAN, perm \in Perms :
         LET e == envid2env(c, envid, FALSE)
             insert == sendPage /\ env_ipc_dstva[e] IN
         /\ e # None /\ env_ipc_recving[e]
         /\ env_ipc_perm' = [env_ipc_perm EXCEPT ![e] =
                                IF ~sendPage THEN 0 ELSE IF insert THEN perm ELSE @]
         /\ \/ Deliver(c, e, value)
            \/ insert /\ UNCHANGED <<env_ipc_recving, env_ipc_from, env_ipc_value, env_status>>
    /\ Goto(c, "ret")
    /\ UNCHANGED <<lock, cpuVars, curenv, panicstr, allocVars, env_ipc_dstva, env_free_list>>

-----------------------------------------------------------------------------

Step(c) ==
    \/ env_create(c)          \/ trap(c)               \/ spin_lock(c)
    \/ TrapSave(c)            \/ TrapReturn(c)         \/ env_pop_tf(c)
    \/ Monitor(c)             \/ sched_yield(c)        \/ TimerOrYield(c)
    \/ NoEffect(c)            \/ UnhandledInUser(c)    \/ UnhandledInHalt(c)
    \/ Breakpoint(c)          \/ page_fault_handler(c) \/ sys_exofork(c)
    \/ sys_env_set_status(c)  \/ sys_env_set_pgfault_upcall(c)
    \/ sys_env_destroy(c)     \/ sys_ipc_recv(c)       \/ sys_ipc_try_send(c)

Next == \E c \in Cpu : Step(c)

Spec == Init /\ [][Next]_vars

(* CPUs keep running and interrupts keep arriving in user mode and in hlt; *)
(* the periodic timer of the local APIC is among them; and no CPU loses    *)
(* the race for the lock for ever.                                         *)
Fairness ==
    \A c \in Cpu :
        /\ WF_vars(Step(c))
        /\ SF_vars(spin_lock(c))
        /\ SF_vars(TimerOrYield(c))

FairSpec == Spec /\ Fairness

-----------------------------------------------------------------------------
(* Safety *)

(* Every variable stays in the range its C declaration and its uses give.  *)
TypeOK ==
    /\ lock \in Cpu \cup {NoCpu}
    /\ pc \in [Cpu -> Pcs]
    /\ tf_cs \in [Cpu -> {"user", "kernel"}]
    /\ ctx \in [Cpu -> EnvId]
    /\ cpu_status \in [Cpu -> {"STARTED", "HALTED"}]
    /\ curenv \in [Cpu -> Env \cup {None}]
    /\ panicstr \in BOOLEAN
    /\ env_status \in [Env -> Status]
    /\ env_gen \in [Env -> 0..MaxGen]
    /\ env_parent_id \in [Env -> EnvId]
    /\ env_tf \in [Env -> EnvId]
    /\ env_pgfault_upcall \in [Env -> BOOLEAN]
    /\ env_ipc_recving \in [Env -> BOOLEAN]
    /\ env_ipc_dstva \in [Env -> BOOLEAN]
    /\ env_ipc_from \in [Env -> EnvId]
    /\ env_ipc_value \in [Env -> Values \cup {0}]
    /\ env_ipc_perm \in [Env -> Perms \cup {0}]
    /\ env_free_list \in Seq(Env)

(* The big kernel lock: a CPU is inside the kernel exactly when it holds   *)
(* the lock.  No path through trap, sched_halt and env_run enters without  *)
(* it, takes it twice, or leaves with it.                                  *)
LockInv == \A c \in Cpu : lock = c <=> pc[c] \in KernelPcs

(* No environment is current on two CPUs, so none runs on two at once      *)
(* (sched.c: "Never choose an environment that's currently running on      *)
(* another CPU"; user/stresssched.c tests for it).                         *)
NoEnvOnTwoCpus ==
    \A c, d \in Cpu : curenv[c] = curenv[d] /\ curenv[c] # None => c = d

(* ENV_RUNNING and ENV_DYING mean that some CPU has the environment.  A    *)
(* lost owner would leave an environment no sched_yield ever picks, or a   *)
(* zombie that is never freed.                                             *)
RunningHasCpu ==
    \A i \in Env : env_status[i] \in {"RUNNING", "DYING"} => \E c \in Cpu : curenv[c] = i

(* A CPU in user mode executes the registers of its current environment,   *)
(* of that very incarnation, and that environment is RUNNING or a zombie:  *)
(* it was not freed, handed out again or blocked while it ran.             *)
RunsOwnContext ==
    \A c \in Cpu : pc[c] \in {"user", "user_lock", "save"} =>
        /\ curenv[c] # None
        /\ env_status[curenv[c]] \in {"RUNNING", "DYING"}
        /\ ctx[c] = Id(curenv[c])

(* An environment with env_ipc_recving set is blocked.  If it ran, a send  *)
(* could overwrite the IPC fields it is reading and make it RUNNABLE       *)
(* while a CPU runs it.                                                    *)
ReceiverBlocked ==
    \A i \in Env : env_ipc_recving[i] => env_status[i] \in {"NOT_RUNNABLE", "FREE"}

(* env_free_list holds exactly the free slots, each once: no slot leaks,   *)
(* none is handed out twice.                                               *)
FreeListExact ==
    /\ \A i \in Env : env_status[i] = "FREE" <=>
                         \E k \in 1..Len(env_free_list) : env_free_list[k] = i
    /\ \A j, k \in 1..Len(env_free_list) : env_free_list[j] = env_free_list[k] => j = k

(* An environment is only killed by itself (its own trap) or by its        *)
(* parent, named by an env_id that is not stale: envid2env's checks.       *)
KilledBySelfOrParent ==
    [][\A i \in Env :
          env_status[i] # env_status'[i] /\ env_status'[i] \in {"FREE", "DYING"} =>
             \E c \in Cpu :
                /\ lock = c /\ curenv[c] # None
                /\ curenv[c] = i \/ env_parent_id[i] = Id(curenv[c])]_vars

(* A blocked receiver is only made runnable by a send that clears          *)
(* env_ipc_recving and names the sender, an environment that is running.   *)
WokenBySend ==
    [][\A i \in Env :
          env_ipc_recving[i] /\ env_status[i] = "NOT_RUNNABLE" /\ env_status'[i] = "RUNNABLE" =>
             /\ ~env_ipc_recving'[i]
             /\ \E c \in Cpu : lock = c /\ curenv[c] # i /\ env_ipc_from'[i] = Id(curenv[c])]_vars

-----------------------------------------------------------------------------
(* The inductive invariants.  LockIInv says how a CPU's position, its mode *)
(* and its current environment go together whatever the programs do.       *)

ModeInv ==
    \A c \in Cpu :
        /\ pc[c] = "halt" => cpu_status[c] = "HALTED"
        /\ cpu_status[c] = "HALTED" => pc[c] \in {"halt", "dead"}
        /\ pc[c] = "halt_lock" => tf_cs[c] = "kernel"
        /\ pc[c] \in {"user_lock", "save"} => tf_cs[c] = "user"

HasCurenv ==
    \A c \in Cpu :
        /\ pc[c] \in {"user", "pop", "user_lock", "save"} => curenv[c] # None
        /\ pc[c] = "dispatch" /\ tf_cs[c] = "user" => curenv[c] # None

LockIInv == TypeOK /\ LockInv /\ ModeInv /\ HasCurenv

(* IInv adds what holds of programs that make both calls as SafeStatusCall *)
(* and SafeDestroyCall say.                                                *)

CurenvOk(c) ==
    /\ pc[c] \in {"mp_lock", "create", "halt", "halt_lock"} => curenv[c] = None
    /\ pc[c] = "dispatch" =>
          IF tf_cs[c] = "user" THEN env_status[curenv[c]] = "RUNNING" ELSE curenv[c] = None
    /\ curenv[c] # None =>
          \/ env_status[curenv[c]] = "RUNNING"
          \/ /\ env_status[curenv[c]] = "DYING"
             /\ pc[c] \in {"user", "pop", "user_lock", "save", "dead"}
          \/ /\ env_status[curenv[c]] = "NOT_RUNNABLE"
             /\ pc[c] \in {"ret", "sched", "monitor"}

CurenvStatus == \A c \in Cpu : CurenvOk(c)

SavedContext == \A i \in Env : env_status[i] # "FREE" => env_tf[i] = Id(i)

LoadedContext ==
    \A c \in Cpu : pc[c] \in {"user", "user_lock", "save"} => ctx[c] = Id(curenv[c])

(* Every part of the argument that no environment is on two CPUs: holds in *)
(* every reachable state, and every step keeps it.                         *)
IInv ==
    /\ LockIInv /\ CurenvStatus /\ NoEnvOnTwoCpus /\ RunningHasCpu
    /\ SavedContext /\ LoadedContext /\ ReceiverBlocked /\ FreeListExact

-----------------------------------------------------------------------------
(* Liveness *)

(* A zombie is freed: the CPU that runs it traps again, unless another has *)
(* gone to the monitor and keeps the lock.                                 *)
ZombieFreed ==
    \A i \in Env : env_status[i] = "DYING" ~>
        env_status[i] = "FREE" \/ \E c \in Cpu : pc[c] = "monitor"

(* Round robin: a runnable environment gets a CPU, or the system enters    *)
(* the monitor.                                                            *)
RunnableRuns ==
    \A i \in Env : env_status[i] = "RUNNABLE" ~>
        env_status[i] # "RUNNABLE" \/ \E c \in Cpu : pc[c] = "monitor"

=============================================================================
