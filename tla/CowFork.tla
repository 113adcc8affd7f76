------------------------------ MODULE CowFork -------------------------------
(***************************************************************************)
(* Copy-on-write fork in user space: fork, duppage and pgfault of          *)
(* lib/fork.c, set_pgfault_handler of lib/pgfault.c, and what they use of  *)
(* the kernel, that is, page_fault_handler (kern/trap.c) and the page and  *)
(* environment calls (kern/syscall.c).                                     *)
(*                                                                         *)
(* A step is one system call or one access to memory; environments run on  *)
(* several CPUs, so their steps interleave.  A program's memory is its     *)
(* text (read-only), its data, its stack, the exception stack, and PFTEMP, *)
(* where pgfault puts a page together.  Two variables in the data page     *)
(* matter to fork: _pgfault_handler and thisenv.  The stack is written by  *)
(* nearly every instruction of fork itself; the model lets it be written   *)
(* between any two steps.                                                  *)
(*                                                                         *)
(* A definition named <operator>_<what is wrong> is a faulty variant of    *)
(* the operator after it; no specification uses it.                        *)
(***************************************************************************)
EXTENDS Integers, Sequences, FiniteSets

CONSTANTS
    NENV,       \* environments are 1..NENV
    NFrame,     \* physical pages are 1..NFrame
    Forking,    \* the environments whose programs fork
    Ending,     \* the environments whose programs may end
    Failures,   \* the calls that may run out of memory: "alloc", "map"
    NULL

ASSUME CowForkAssumption ==
    /\ NENV \in Nat \ {0} /\ NFrame \in Nat /\ NFrame >= 3
    /\ Forking \subseteq 1..NENV /\ Ending \subseteq 1..NENV
    /\ Failures \subseteq {"alloc", "map"}

Env == 1..NENV
FirstEnv == 1
Frame == 1..NFrame
UserVa == {"text", "data", "stack"}
Va == UserVa \cup {"pftemp", "uxstack"}

(* The pages below USTACKTOP in the order in which fork visits them.       *)
Loop == <<"pftemp", "text", "data", "stack">>

(* PTE_W, PTE_COW, or neither; PTE_U and PTE_P are always set.             *)
Perm == {"r", "w", "cow"}
Pte == [frame : Frame, perm : Perm]

(* What a page holds, as far as it matters: of a stack, who wrote it last; *)
(* of the data, "_pgfault_handler is set" and thisenv (0: null).           *)
Content == [writer : 0..NENV, handler : BOOLEAN, thisenv : 0..NENV]
Zero == [writer |-> 0, handler |-> FALSE, thisenv |-> 0]

VARIABLES
    status,     \* env_status: "FREE", "NOT_RUNNABLE" or "RUNNABLE"
    upcall,     \* env_pgfault_upcall is set
    pt,         \* the page tables: pt[e][va] is a Pte or NULL
    content,    \* content of each frame
    pc,         \* where each program is
    pn,         \* fork's loop: the page at hand, an index of Loop
    cow,        \* duppage's t: the page was writable or copy-on-write
    child,      \* fork's child
    fault,      \* the running pgfault: [at, va], or NULL
    panic       \* a program panicked: its CPU keeps the kernel lock for ever

vars == <<status, upcall, pt, content, pc, pn, cow, child, fault, panic>>
forkVars == <<pn, cow, child>>

ForkPcs == {"set_handler", "set_upcall", "save_handler", "exofork", "dup_read",
            "dup_child", "dup_self", "alloc_ux", "child_upcall", "wake"}
Pcs == ForkPcs \cup {"user", "child"}
FaultPcs == {"alloc", "copy", "map", "unmap"}

ASSUME CowForkNull ==
    NULL \notin Env \cup Pte \cup [at : FaultPcs, va : UserVa] \cup [UserVa -> Content]

-----------------------------------------------------------------------------
(* The kernel's page calls *)

InUse(m) == {f \in Frame : \E e \in Env, va \in Va : m[e][va] # NULL /\ m[e][va].frame = f}

(* The contents of a page are gone once nobody maps it: sys_page_alloc     *)
(* clears what it hands out.                                               *)
SetPt(m, c) ==
    LET used == InUse(m) IN
    /\ pt' = m
    /\ content' = [f \in Frame |-> IF f \in used THEN c[f] ELSE Zero]

(* Pages are alike, so the allocator may as well take the first free one.  *)
NewFrame ==
    LET unused == Frame \ InUse(pt) IN CHOOSE f \in unused : \A g \in unused : f <= g

sys_page_alloc(e, va) ==
    /\ InUse(pt) # Frame
    /\ SetPt([pt EXCEPT ![e][va] = [frame |-> NewFrame, perm |-> "w"]], content)

sys_page_map(src, srcva, dst, dstva, perm) ==
    SetPt([pt EXCEPT ![dst][dstva] = [frame |-> pt[src][srcva].frame, perm |-> perm]], content)

AllocFails == "alloc" \in Failures \/ InUse(pt) = Frame

(* May sys_page_map into another environment succeed, and may it fail?  It *)
(* may need a page table.                                                  *)
MapResults == IF "map" \in Failures THEN BOOLEAN ELSE {TRUE}

Gone(e) == [va \in Va |-> NULL]

-----------------------------------------------------------------------------
(* Memory *)

Read(e, va) == content[pt[e][va].frame]

(* e runs its program, not its page fault handler.                         *)
At(e, l) == status[e] = "RUNNABLE" /\ pc[e] = l /\ fault[e] = NULL /\ ~panic

Goto(e, l) == pc' = [pc EXCEPT ![e] = l]

_panic(e) == panic' = TRUE /\ UNCHANGED <<status, upcall, pt, content, pc, forkVars, fault>>

Writable(e, va) == pt[e][va] # NULL /\ pt[e][va].perm = "w"

Store(e, va, c) ==
    /\ Writable(e, va)
    /\ content' = [content EXCEPT ![pt[e][va].frame] = c]

(* e's program writes va, which it may not: page_fault_handler enters      *)
(* pgfault on the exception stack, or destroys e if there is none.         *)
(* pgfault then panics unless the page is copy-on-write.                   *)
page_fault_handler(e, va) ==
    /\ ~Writable(e, va)
    /\ IF upcall[e] /\ Writable(e, "uxstack")
       THEN IF pt[e][va] # NULL /\ pt[e][va].perm = "cow"
            THEN /\ fault' = [fault EXCEPT ![e] = [at |-> "alloc", va |-> va]]
                 /\ UNCHANGED <<status, upcall, pt, content, pc, forkVars, panic>>
            ELSE _panic(e)
       ELSE /\ status' = [status EXCEPT ![e] = "FREE"]
            /\ SetPt([pt EXCEPT ![e] = Gone(e)], content)
            /\ Goto(e, "user")
            /\ UNCHANGED <<upcall, forkVars, fault, panic>>

(* The stack is written, at any time, or the attempt faults.               *)
StackWrite(e) ==
    /\ \E l \in Pcs : At(e, l)
    /\ \/ /\ Store(e, "stack", [Read(e, "stack") EXCEPT !.writer = e])
          /\ UNCHANGED <<status, upcall, pt, pc, forkVars, fault, panic>>
       \/ page_fault_handler(e, "stack")

-----------------------------------------------------------------------------
(* pgfault: copy the page at PFTEMP, then put the copy in its place *)

Handling(e, l) == status[e] = "RUNNABLE" /\ fault[e] # NULL /\ fault[e].at = l /\ ~panic

HandlerAt(e, l) == fault' = [fault EXCEPT ![e].at = l]

pgfault_alloc(e) ==
    /\ Handling(e, "alloc")
    /\ \/ /\ sys_page_alloc(e, "pftemp")
          /\ HandlerAt(e, "copy")
          /\ UNCHANGED <<status, upcall, pc, forkVars, panic>>
       \/ AllocFails /\ _panic(e)

pgfault_copy_forgotten(e) ==
    /\ Handling(e, "copy")
    /\ HandlerAt(e, "map")
    /\ UNCHANGED <<content, status, upcall, pt, pc, forkVars, panic>>

pgfault_copy(e) ==
    /\ Handling(e, "copy")
    /\ Store(e, "pftemp", Read(e, fault[e].va))
    /\ HandlerAt(e, "map")
    /\ UNCHANGED <<status, upcall, pt, pc, forkVars, panic>>

(* The page table of the address exists, so sys_page_map needs no memory.  *)
pgfault_map(e) ==
    /\ Handling(e, "map")
    /\ sys_page_map(e, "pftemp", e, fault[e].va, "w")
    /\ HandlerAt(e, "unmap")
    /\ UNCHANGED <<status, upcall, pc, forkVars, panic>>

(* The last call; the upcall then returns to the instruction that faulted. *)
pgfault_unmap(e) ==
    /\ Handling(e, "unmap")
    /\ SetPt([pt EXCEPT ![e]["pftemp"] = NULL], content)
    /\ fault' = [fault EXCEPT ![e] = NULL]
    /\ UNCHANGED <<status, upcall, pc, forkVars, panic>>

-----------------------------------------------------------------------------
(* fork: set_pgfault_handler(pgfault) *)

Fork(e) ==
    /\ At(e, "user") /\ e \in Forking
    /\ Goto(e, IF Read(e, "data").handler THEN "save_handler" ELSE "set_handler")
    /\ UNCHANGED <<status, upcall, pt, content, forkVars, fault, panic>>

(* The first time: an exception stack, then the upcall.                    *)
handler_stack(e) ==
    /\ At(e, "set_handler")
    /\ \/ /\ sys_page_alloc(e, "uxstack")
          /\ Goto(e, "set_upcall")
          /\ UNCHANGED <<status, upcall, forkVars, fault, panic>>
       \/ AllocFails /\ _panic(e)

handler_upcall(e) ==
    /\ At(e, "set_upcall")
    /\ upcall' = [upcall EXCEPT ![e] = TRUE]
    /\ Goto(e, "save_handler")
    /\ UNCHANGED <<status, pt, content, forkVars, fault, panic>>

(* _pgfault_handler = handler, every time.                                 *)
handler_save(e) ==
    /\ At(e, "save_handler")
    /\ \/ /\ Store(e, "data", [Read(e, "data") EXCEPT !.handler = TRUE])
          /\ Goto(e, "exofork")
          /\ UNCHANGED <<status, upcall, pt, forkVars, fault, panic>>
       \/ page_fault_handler(e, "data")

-----------------------------------------------------------------------------
(* fork: the child *)

(* The new environment will return from sys_exofork, with result 0.        *)
sys_exofork(e) ==
    /\ At(e, "exofork")
    /\ \/ \E f \in Env :
            /\ status[f] = "FREE"
            /\ status' = [status EXCEPT ![f] = "NOT_RUNNABLE"]
            /\ upcall' = [upcall EXCEPT ![f] = FALSE]
            /\ child' = [child EXCEPT ![e] = f]
            /\ pn' = [pn EXCEPT ![e] = 1]
            /\ pc' = [pc EXCEPT ![e] = "dup_read", ![f] = "child"]
            /\ UNCHANGED <<pt, content, cow, fault, panic>>
       \/ /\ \A f \in Env : status[f] # "FREE"
          /\ _panic(e)

NextPage_overruns(e) ==
    /\ pn' = [pn EXCEPT ![e] = @ + 1]
    /\ Goto(e, IF pn[e] > Len(Loop) THEN "alloc_ux" ELSE "dup_read")

(* The end of an iteration of fork's loop.                                 *)
NextPage(e) ==
    IF pn[e] = Len(Loop)
    THEN Goto(e, "alloc_ux") /\ UNCHANGED pn
    ELSE Goto(e, "dup_read") /\ pn' = [pn EXCEPT ![e] = @ + 1]

(* uvpt: skip a page that is not there; duppage looks at its permissions.  *)
dup_read(e) ==
    LET pte == pt[e][Loop[pn[e]]] IN
    /\ At(e, "dup_read")
    /\ IF pte = NULL
       THEN NextPage(e) /\ UNCHANGED cow
       ELSE /\ cow' = [cow EXCEPT ![e] = pte.perm \in {"w", "cow"}]
            /\ Goto(e, "dup_child") /\ UNCHANGED pn
    /\ UNCHANGED <<status, upcall, pt, content, child, fault, panic>>

(* duppage maps the page into the child first.  If that fails it returns   *)
(* an error, which fork does not look at.                                  *)
dup_child(e) ==
    LET va == Loop[pn[e]] IN
    /\ At(e, "dup_child")
    /\ \E ok \in MapResults :
         IF ok
         THEN /\ sys_page_map(e, va, child[e], va, IF cow[e] THEN "cow" ELSE "r")
              /\ IF cow[e] THEN Goto(e, "dup_self") /\ UNCHANGED pn ELSE NextPage(e)
         ELSE NextPage(e) /\ UNCHANGED <<pt, content>>
    /\ UNCHANGED <<status, upcall, cow, child, fault, panic>>

dup_self_forgotten(e) ==
    /\ At(e, "dup_self")
    /\ NextPage(e)
    /\ UNCHANGED <<status, upcall, pt, content, cow, child, fault, panic>>

(* Then into itself, even if its own mapping was copy-on-write already:    *)
(* a fault since dup_read may have made it writable again.                 *)
dup_self(e) ==
    LET va == Loop[pn[e]] IN
    /\ At(e, "dup_self")
    /\ sys_page_map(e, va, e, va, "cow")
    /\ NextPage(e)
    /\ UNCHANGED <<status, upcall, cow, child, fault, panic>>

alloc_ux(e) ==
    /\ At(e, "alloc_ux")
    /\ \/ /\ sys_page_alloc(child[e], "uxstack")
          /\ Goto(e, "child_upcall")
          /\ UNCHANGED <<status, upcall, forkVars, fault, panic>>
       \/ AllocFails /\ _panic(e)

child_upcall_forgotten(e) ==
    /\ At(e, "child_upcall")
    /\ Goto(e, "wake")
    /\ UNCHANGED <<upcall, status, pt, content, forkVars, fault, panic>>

(* The child gets thisenv->env_pgfault_upcall.                             *)
child_upcall(e) ==
    /\ At(e, "child_upcall")
    /\ upcall' = [upcall EXCEPT ![child[e]] = upcall[Read(e, "data").thisenv]]
    /\ Goto(e, "wake")
    /\ UNCHANGED <<status, pt, content, forkVars, fault, panic>>

(* The last call; fork's local variables are gone when it returns.         *)
wake(e) ==
    /\ At(e, "wake")
    /\ status' = [status EXCEPT ![child[e]] = "RUNNABLE"]
    /\ Goto(e, "user")
    /\ child' = [child EXCEPT ![e] = NULL]
    /\ pn' = [pn EXCEPT ![e] = 1]
    /\ cow' = [cow EXCEPT ![e] = FALSE]
    /\ UNCHANGED <<upcall, pt, content, fault, panic>>

child_start_keeps_thisenv(e) ==
    /\ At(e, "child")
    /\ Goto(e, "user")
    /\ UNCHANGED <<content, status, upcall, pt, forkVars, fault, panic>>

(* fork in the child: thisenv = &envs[ENVX(sys_getenvid())].               *)
child_start(e) ==
    /\ At(e, "child")
    /\ \/ /\ Store(e, "data", [Read(e, "data") EXCEPT !.thisenv = e])
          /\ Goto(e, "user")
          /\ UNCHANGED <<status, upcall, pt, forkVars, fault, panic>>
       \/ page_fault_handler(e, "data")

exit(e) ==
    /\ At(e, "user") /\ e \in Ending
    /\ status' = [status EXCEPT ![e] = "FREE"]
    /\ SetPt([pt EXCEPT ![e] = Gone(e)], content)
    /\ UNCHANGED <<upcall, pc, forkVars, fault, panic>>

-----------------------------------------------------------------------------

(* One program has been loaded and libmain has set thisenv.                *)
Init ==
    /\ status = [e \in Env |-> IF e = FirstEnv THEN "RUNNABLE" ELSE "FREE"]
    /\ upcall = [e \in Env |-> FALSE]
    /\ pt = [e \in Env |->
               IF e # FirstEnv THEN Gone(e)
               ELSE [va \in Va |-> CASE va = "text" -> [frame |-> 1, perm |-> "r"]
                                     [] va = "data" -> [frame |-> 2, perm |-> "w"]
                                     [] va = "stack" -> [frame |-> 3, perm |-> "w"]
                                     [] OTHER -> NULL]]
    /\ content = [f \in Frame |-> IF f = 2 THEN [Zero EXCEPT !.thisenv = FirstEnv] ELSE Zero]
    /\ pc = [e \in Env |-> "user"]
    /\ pn = [e \in Env |-> 1]
    /\ cow = [e \in Env |-> FALSE]
    /\ child = [e \in Env |-> NULL]
    /\ fault = [e \in Env |-> NULL]
    /\ panic = FALSE

Step(e) ==
    \/ StackWrite(e) \/ Fork(e) \/ exit(e)
    \/ pgfault_alloc(e) \/ pgfault_copy(e) \/ pgfault_map(e) \/ pgfault_unmap(e)
    \/ handler_stack(e) \/ handler_upcall(e) \/ handler_save(e)
    \/ sys_exofork(e) \/ dup_read(e) \/ dup_child(e) \/ dup_self(e)
    \/ alloc_ux(e) \/ child_upcall(e) \/ wake(e) \/ child_start(e)

Next == \E e \in Env : Step(e)

Spec == Init /\ [][Next]_vars

-----------------------------------------------------------------------------
(* Properties *)

(* Every variable has its form; fork's loop ends below USTACKTOP.          *)
TypeOK ==
    /\ status \in [Env -> {"FREE", "NOT_RUNNABLE", "RUNNABLE"}]
    /\ upcall \in [Env -> BOOLEAN]
    /\ pt \in [Env -> [Va -> Pte \cup {NULL}]]
    /\ content \in [Frame -> Content]
    /\ pc \in [Env -> Pcs]
    /\ pn \in [Env -> 1..Len(Loop)]
    /\ cow \in [Env -> BOOLEAN]
    /\ child \in [Env -> Env \cup {NULL}]
    /\ fault \in [Env -> [at : FaultPcs, va : UserVa] \cup {NULL}]
    /\ panic \in BOOLEAN

(* A page that one environment may write is mapped nowhere else, except    *)
(* where the code means it: between duppage's two calls, in the child that *)
(* does not run yet, and at PFTEMP while pgfault moves its copy.           *)
Isolated ==
    \A e, f \in Env, va, u \in Va :
        /\ Writable(e, va) /\ pt[f][u] # NULL
        /\ pt[f][u].frame = pt[e][va].frame /\ <<f, u>> # <<e, va>>
        => \/ pc[e] = "dup_self" /\ f = child[e] /\ u = va /\ va = Loop[pn[e]]
           \/ f = e /\ fault[e] # NULL /\ fault[e].at = "unmap" /\ {u, va} = {"pftemp", fault[e].va}

(* Whoever runs with copy-on-write pages can take the fault: its upcall is *)
(* set and its exception stack is there, writable and not copy-on-write.   *)
HandlerReady ==
    \A e \in Env :
        /\ status[e] = "RUNNABLE" /\ (\E va \in Va : pt[e][va] # NULL /\ pt[e][va].perm = "cow")
        => upcall[e] /\ Writable(e, "uxstack")

(* A program finds itself in thisenv, whatever it, its parent and its      *)
(* children have written since they were forked.                           *)
ThisenvOwn ==
    \A e \in Env : status[e] = "RUNNABLE" /\ pc[e] # "child" => Read(e, "data").thisenv = e

(* fork's memory is as good as private memory that is copied at the fork.  *)
PM == INSTANCE PrivateMemory WITH
        memory <- [e \in Env |-> IF status[e] = "RUNNABLE"
                                 THEN [va \in UserVa |-> Read(e, va)] ELSE NULL]

ImplementsPrivateMemory == PM!Spec

(* fork.c: "Copy our address space and page fault handler setup to the     *)
(* child.  Then mark the child as runnable": a child that runs has its     *)
(* parent's pages.                                                         *)
ChildComplete ==
    \A e \in Env : status[e] = "RUNNABLE" => \A va \in UserVa : pt[e][va] # NULL

=============================================================================
