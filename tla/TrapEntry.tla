------------------------------ MODULE TrapEntry -----------------------------
(***************************************************************************)
(* From an interrupt to trap() of kern/trap.c and back: the gates that     *)
(* trap_init sets, what the processor pushes, what the entry points and    *)
(* _alltraps of kern/trapentry.S push, the struct Trapframe that trap()    *)
(* reads at these places, what trap_dispatch writes there, and env_pop_tf. *)
(* A stack is a sequence, its top first; the general registers are one     *)
(* field, %eax and the other seven.                                        *)
(***************************************************************************)
EXTENDS Routine, Sequences

CONSTANTS
    Vector,     \* interrupt numbers that programs may give to "int"
    TrapWord    \* what a register or an error code may be

ASSUME TrapEntryAssumption == Vector \subseteq 0 .. 255

T_BRKPT == 3
T_GPFLT == 13
T_PGFLT == 14
T_SYSCALL == 48
IRQ_OFFSET == 32
Irq == {IRQ_OFFSET + i : i \in {0, 1, 4, 7, 14, 19}}
Exception == (0 .. 8) \cup (10 .. 14) \cup (16 .. 19)

(* What the processor pushes an error code for                             *)
HasErrorCode == {8, 10, 11, 12, 13, 14, 17}

(* trap_init: the gates; a program may use two of them with int.           *)
Gates == Exception \cup {T_SYSCALL} \cup Irq
Dpl(v) == IF v \in {T_BRKPT, T_SYSCALL} THEN 3 ELSE 0

(* trapentry.S: the entry points made by TRAPHANDLER; the others push a 0  *)
(* in the place of the error code.                                         *)
TRAPHANDLER_no_align == {8, 10, 11, 12, 13, 14}
TRAPHANDLER == {8, 10, 11, 12, 13, 14, 17}

(* The interrupted program or kernel: its registers may hold anything, but *)
(* the low bits of %cs are the privilege level.                            *)
Context(user) ==
    [regs : [eax : TrapWord, others : TrapWord], es : TrapWord, ds : TrapWord,
     eip : TrapWord, cs : {IF user THEN 27 ELSE 8}, eflags : TrapWord, esp : TrapWord, ss : TrapWord]

(* int n of a program that may not use the gate is a protection fault; one *)
(* that may has no error code, whatever the vector.                        *)
Refused(v) == v \notin Gates \/ Dpl(v) < 3
Software == st.kind = "int" /\ ~Refused(st.asked)
VectorRaised == IF st.kind = "int" /\ Refused(st.asked) THEN T_GPFLT ELSE st.asked
ErrorCode == IF VectorRaised \in HasErrorCode /\ ~Software THEN <<st.err>> ELSE <<>>

(* The processor changes to the stack of the TSS when it comes from user   *)
(* mode.                                                                   *)
Pushed == <<st.cpu.eip, st.cpu.cs, st.cpu.eflags>>
          \o IF st.user THEN <<st.cpu.esp, st.cpu.ss>> ELSE <<>>
interrupt ==
    /\ At("trap", "run")
    /\ st' = [st EXCEPT !.pc = "entry", !.vector = VectorRaised, !.stack = ErrorCode \o Pushed]

(* The entry point of the vector pushes its number, and _alltraps the rest *)
TrapNumber == IF st.vector \in TRAPHANDLER THEN <<st.vector>> ELSE <<st.vector, 0>>
alltraps ==
    /\ At("trap", "entry")
    /\ st' = [st EXCEPT !.pc = "trap",
                        !.stack = <<st.cpu.regs, st.cpu.es, st.cpu.ds>> \o (TrapNumber \o st.stack)]

(* struct Trapframe: regs, es, ds, trapno, err, eip, cs, eflags, esp, ss   *)
tf(i) == st.stack[i]
FromUser == tf(7) % 4 = 3
trap ==
    /\ At("trap", "trap") /\ FromUser
    /\ st' = [st EXCEPT !.pc = "dispatch", !.tf = st.stack]

(* After a trap in the kernel the frame is not used to return.             *)
trap_in_kernel ==
    /\ At("trap", "trap") /\ ~FromUser
    /\ st' = [st EXCEPT !.pc = "done"]

(* trap_dispatch, by tf_trapno.  want, recorded for the properties: what   *)
(* the program is to continue with.                                        *)
Dispatched(t, c) == st' = [st EXCEPT !.pc = "return", !.tf = t, !.want = c]

(* A breakpoint, the spurious interrupt and the timer leave the frame as   *)
(* it is.                                                                  *)
FrameKept == {T_BRKPT, IRQ_OFFSET, IRQ_OFFSET + 7}
trap_dispatch ==
    /\ At("trap", "dispatch") /\ st.tf[4] \in FrameKept
    /\ Dispatched(st.tf, st.cpu)
(* A system call stores its result.                                        *)
syscall_result ==
    /\ At("trap", "dispatch") /\ st.tf[4] = T_SYSCALL
    /\ \E r \in TrapWord : Dispatched([st.tf EXCEPT ![1].eax = r], [st.cpu EXCEPT !.regs.eax = r])
(* page_fault_handler continues in the upcall, on the exception stack.     *)
page_fault_upcall ==
    /\ At("trap", "dispatch") /\ st.tf[4] = T_PGFLT
    /\ \E eip, esp \in TrapWord :
          Dispatched([st.tf EXCEPT ![6] = eip, ![9] = esp], [st.cpu EXCEPT !.eip = eip, !.esp = esp])
(* The environment is destroyed: an exception, a fault without upcall, or  *)
(* by its own system call.                                                 *)
trap_destroys ==
    /\ At("trap", "dispatch") /\ st.tf[4] \notin FrameKept
    /\ st' = [st EXCEPT !.pc = "done", !.gone = TRUE]

(* env_pop_tf: popal; popl %es; popl %ds; skip two words; iret             *)
Skipped_one == 1
Skipped == 2
Popped(t, i) ==
    [regs |-> t[1], es |-> t[2], ds |-> t[3], eip |-> t[i + 1], cs |-> t[i + 2],
     eflags |-> t[i + 3], esp |-> t[i + 4], ss |-> t[i + 5]]
env_pop_tf ==
    /\ At("trap", "return")
    /\ st' = [st EXCEPT !.pc = "done", !.back = Popped(st.tf, 3 + Skipped)]

TrapEntryNext == interrupt \/ alltraps \/ trap \/ trap_in_kernel \/ trap_dispatch
                 \/ syscall_result \/ page_fault_upcall \/ trap_destroys \/ env_pop_tf

Start(v, kind, user) ==
    \E c \in Context(user), err \in TrapWord :
       st = [fn |-> "trap", pc |-> "run", asked |-> v, kind |-> kind, user |-> user,
             cpu |-> c, err |-> err, vector |-> 0, stack |-> <<>>, tf |-> <<>>,
             want |-> <<>>, back |-> <<>>, gone |-> FALSE]
TrapEntryInit ==
    \/ \E v \in Exception, user \in BOOLEAN : Start(v, "exception", user)
    \/ \E v \in Irq, user \in BOOLEAN : Start(v, "irq", user)
    \/ \E v \in Vector : Start(v, "int", TRUE)

TrapEntrySpec == TrapEntryInit /\ [][TrapEntryNext]_st

-----------------------------------------------------------------------------
(* Properties *)

(* trapentry.S: trap() finds every register of the interrupted code, the   *)
(* number of the trap and the error code in its field of the Trapframe,    *)
(* for every vector, with or without an error code, from user or kernel,   *)
(* also when a program uses int.                                           *)
FrameUniform ==
    At("trap", "trap") =>
        /\ Len(st.stack) = IF st.user THEN 10 ELSE 8
        /\ tf(4) = st.vector /\ tf(5) = IF st.vector \in HasErrorCode THEN st.err ELSE 0
        /\ <<tf(1), tf(2), tf(3), tf(6), tf(7), tf(8)>> =
              <<st.cpu.regs, st.cpu.es, st.cpu.ds, st.cpu.eip, st.cpu.cs, st.cpu.eflags>>
        /\ st.user => tf(9) = st.cpu.esp /\ tf(10) = st.cpu.ss

(* env.c: env_pop_tf continues the program as it was interrupted, but for  *)
(* what the trap is to change: %eax after a system call, %eip and %esp     *)
(* when the program's page fault upcall is to run.                         *)
Resumed == At("trap", "done") /\ st.user /\ ~st.gone => st.back = st.want

(* Together: a trap reads, and its return restores, the interrupted code.  *)
FramesExact == FrameUniform /\ Resumed
=============================================================================
