----------------------------- MODULE UserFault ------------------------------
(***************************************************************************)
(* User-level page faults: page_fault_handler of kern/trap.c builds a      *)
(* UTrapframe on the exception stack, lib/pfentry.S calls the handler and  *)
(* returns to the instruction that faulted, which may itself be in a       *)
(* handler.  Memory is a function on words; the eight general registers    *)
(* are one word.  Level 0 is the program, level k the k-th nested handler; *)
(* what the code of a level puts in its registers and on its stack is      *)
(* marked with the level, so that a value that is lost or mixed up shows.  *)
(***************************************************************************)
EXTENDS Integers, Sequences

CONSTANTS
    StackWords,     \* words of the program's own stack
    ExcWords,       \* words of the exception stack's page
    Locals,         \* words a level may push
    StackMayFault   \* may the upcall fault when it pushes on the program's stack?

ASSUME UserFaultAssumption ==
    /\ StackWords \in Nat /\ ExcWords \in Nat /\ Locals \in Nat
    /\ StackMayFault \in BOOLEAN /\ StackWords > Locals

USTACKTOP == StackWords
UXSTACKBOT == StackWords + 1            \* one word stands for the guard page
UXSTACKTOP == UXSTACKBOT + ExcWords
Addr == 0 .. UXSTACKTOP - 1

(* struct UTrapframe: fault_va, err, regs, eip, eflags, esp                *)
EIP == 3
ESP == 5
SizeofUtf == 6

(* What a word may hold besides a level or an address *)
Untouched == -1
FaultVa == -2
Err == -3

VARIABLES
    mem,
    regs, eip, eflags, esp,     \* of the processor
    eax, ebx, ebp,              \* registers the upcall computes with
    upc,                        \* "run" the code of a level, a step of the
                                \* upcall, or "destroyed"
    level,
    bound                       \* for each level, the stack pointer it began
                                \* with and has now: [top, esp]
ufVars == <<mem, regs, eip, eflags, esp, eax, ebx, ebp, upc, level, bound>>

(* The program runs on its stack, or on the exception stack itself.        *)
UfInit ==
    /\ mem = [a \in Addr |-> Untouched]
    /\ regs = 0 /\ eip = 0 /\ eflags = 0
    /\ esp \in {USTACKTOP, UXSTACKTOP}
    /\ eax = 0 /\ ebx = 0 /\ ebp = 0
    /\ upc = "run" /\ level = 0
    /\ bound = <<[top |-> esp, esp |-> esp]>>

(* The code of the current level pushes or pops a word of its own.         *)
push ==
    /\ upc = "run" /\ bound[level + 1].top - esp < Locals
    /\ esp > (IF esp <= USTACKTOP THEN 0 ELSE UXSTACKBOT)
    /\ esp' = esp - 1
    /\ mem' = [mem EXCEPT ![esp'] = level]
    /\ bound' = [bound EXCEPT ![level + 1].esp = esp']
    /\ UNCHANGED <<regs, eip, eflags, eax, ebx, ebp, upc, level>>
pop ==
    /\ upc = "run" /\ esp < bound[level + 1].top
    /\ esp' = esp + 1
    /\ bound' = [bound EXCEPT ![level + 1].esp = esp']
    /\ UNCHANGED <<mem, regs, eip, eflags, eax, ebx, ebp, upc, level>>

(* Where the kernel puts the frame: under the stack in use if that is the  *)
(* exception stack, with a free word in between, else at its top.          *)
OnExcStack_strictly == esp >= UXSTACKBOT /\ esp < UXSTACKTOP
OnExcStack_never == FALSE
OnExcStack == esp >= UXSTACKBOT /\ esp <= UXSTACKTOP
Scratch == 1
FrameAt == (IF OnExcStack THEN esp - Scratch ELSE UXSTACKTOP) - SizeofUtf
Utf == <<FaultVa, Err, regs, eip, eflags, esp>>
FrameFits_start == FrameAt < UXSTACKTOP
FrameFits == FrameAt >= UXSTACKBOT      \* user_mem_assert

page_fault_handler ==
    IF FrameFits
    THEN /\ mem' = [a \in Addr |-> IF a \in FrameAt .. FrameAt + SizeofUtf - 1
                                   THEN Utf[a - FrameAt + 1] ELSE mem[a]]
         /\ esp' = FrameAt
         /\ upc' = "upcall"
         /\ UNCHANGED <<regs, eip, eflags, eax, ebx, ebp>>
    ELSE upc' = "destroyed" /\ UNCHANGED <<mem, regs, eip, eflags, esp, eax, ebx, ebp>>

Fault ==
    /\ upc = "run"
    /\ page_fault_handler
    /\ UNCHANGED <<level, bound>>

(* _pgfault_upcall pushes its argument and calls the handler: code of the  *)
(* next level, with registers of its own.                                  *)
call_handler ==
    /\ upc = "upcall"
    /\ IF esp - 2 >= UXSTACKBOT
       THEN /\ mem' = [mem EXCEPT ![esp - 1] = level + 1, ![esp - 2] = level + 1]
            /\ esp' = esp - 2
            /\ level' = level + 1
            /\ regs' = level' /\ eip' = level' /\ eflags' = level'
            /\ bound' = Append(bound, [top |-> esp', esp |-> esp'])
            /\ upc' = "run"
       ELSE upc' = "destroyed" /\ UNCHANGED <<mem, esp, level, regs, eip, eflags, bound>>
    /\ UNCHANGED <<eax, ebx, ebp>>

(* The handler returns and the argument is popped: movl 40(%esp), %eax;    *)
(* movl 48(%esp), %ebx; movl %esp, %ebp; movl %ebx, %esp                   *)
handler_returns ==
    /\ upc = "run" /\ level > 0 /\ esp = bound[level + 1].top
    /\ LET frame == esp + 2
       IN eax' = mem[frame + EIP] /\ ebx' = mem[frame + ESP] /\ ebp' = frame /\ esp' = ebx'
    /\ upc' = "push_eip"
    /\ UNCHANGED <<mem, regs, eip, eflags, level, bound>>

(* pushl %eax on the trap-time stack, which may fault once more; then      *)
(* movl %esp, 48(%ebp); movl %ebp, %esp; addl $8, %esp                     *)
push_eip ==
    /\ upc = "push_eip"
    /\ \/ /\ mem' = [mem EXCEPT ![esp - 1] = eax, ![ebp + ESP] = esp - 1]
          /\ esp' = ebp + 2
          /\ upc' = "popa"
          /\ UNCHANGED <<regs, eip, eflags, eax, ebx, ebp>>
       \/ StackMayFault /\ esp <= USTACKTOP /\ page_fault_handler
    /\ UNCHANGED <<level, bound>>

(* popa; add $4, %esp; popf; popl %esp; ret                                *)
return_from_upcall ==
    /\ upc = "popa"
    /\ regs' = mem[esp] /\ eflags' = mem[esp + 2]
    /\ LET sp == mem[esp + 3] IN eip' = mem[sp] /\ esp' = sp + 1
    /\ level' = level - 1
    /\ bound' = SubSeq(bound, 1, level)
    /\ upc' = "run"
    /\ UNCHANGED <<mem, eax, ebx, ebp>>

UfNext ==
    \/ push \/ pop \/ Fault \/ call_handler \/ handler_returns \/ push_eip
    \/ return_from_upcall
UfSpec == UfInit /\ [][UfNext]_ufVars

-----------------------------------------------------------------------------
(* Properties *)

UfTypeOK ==
    /\ level \in Nat /\ Len(bound) = level + 1
    /\ esp \in 0 .. UXSTACKTOP /\ DOMAIN mem = Addr
    /\ upc \in {"run", "upcall", "push_eip", "popa", "destroyed"}

(* pfentry.S: whenever the code of a level runs, first or again after a    *)
(* fault, it has its own registers, flags, place and stack pointer.        *)
StateRestored ==
    upc = "run" => /\ regs = level /\ eflags = level /\ eip = level
                   /\ esp = bound[level + 1].esp

(* trap.c, pfentry.S: no frame, return address or scratch word is written  *)
(* over what a level has on its stack.                                     *)
StacksIntact ==
    upc # "destroyed" =>
        \A k \in DOMAIN bound : \A a \in bound[k].esp .. bound[k].top - 1 : mem[a] = k - 1

(* trap.c: faults in handlers stop when the page is full: the kernel       *)
(* writes no frame into the guard page or the program's stack.             *)
GuardUntouched ==
    /\ mem[USTACKTOP] = Untouched
    /\ \A a \in 0 .. USTACKTOP - 1 : mem[a] \notin {FaultVa, Err}

(* Together: faults, nested to any depth the stack has room for, are       *)
(* invisible to the code they interrupt.                                   *)
FaultsTransparent == UfTypeOK /\ StateRestored /\ StacksIntact /\ GuardUntouched
=============================================================================
