-------------------------------- MODULE Pmap --------------------------------
(***************************************************************************)
(* Physical pages and address spaces: the page allocator and page tables   *)
(* of kern/pmap.c, the sys_page_* calls and the page transfer of           *)
(* sys_ipc_try_send (kern/syscall.c), env_setup_vm and env_free            *)
(* (kern/env.c), and each CPU's TLB.                                       *)
(*                                                                         *)
(* The state of physical memory is one record, "mem", and each C function  *)
(* is an operator from such a record to the next, so that a system call is *)
(* the composition of the functions it calls.  A handler runs with the     *)
(* kernel lock and is one step; env_free is a loop, whose iterations are   *)
(* steps because programs on other CPUs use their TLBs meanwhile.          *)
(*                                                                         *)
(* A definition named <operator>_<what is wrong> is a faulty variant of    *)
(* the operator after it; no specification uses it.                        *)
(***************************************************************************)
EXTENDS Integers, Sequences, FiniteSets

CONSTANTS
    Page,       \* physical pages
    Reserved,   \* the pages page_init keeps: page 0, MPENTRY, I/O hole, kernel
    Env, Cpu, NULL,
    FirstEnv,   \* the environment i386_init creates
    NVa,        \* virtual pages below UTOP
    NSlots,     \* entries of one page table
    RefMod,     \* values of the uint16_t pp_ref
    Remote      \* may a program edit an address space in use by another CPU?

Va == 0..NVa-1
PDX(va) == va \div NSlots
Table == {PDX(va) : va \in Va}
Pte == [page : Page, w : BOOLEAN]
Mem == [free  : Seq(Page),
        ref   : [Page -> 0..RefMod-1],
        pgdir : [Env -> Page \cup {NULL}],
        pde   : [Env -> [Table -> Page \cup {NULL}]],
        pte   : [Env -> [Va -> Pte \cup {NULL}]],
        panic : BOOLEAN]

ASSUME PmapAssumption ==
    /\ IsFiniteSet(Page) /\ IsFiniteSet(Env) /\ NVa \in Nat \ {0} /\ NSlots \in Nat \ {0}
    /\ RefMod \in Nat /\ RefMod > 1
    /\ Reserved \subseteq Page /\ Cardinality(Page \ Reserved) >= 3
    /\ FirstEnv \in Env
    /\ NULL \notin Env \cup Page \cup Pte
    /\ Remote \in BOOLEAN

VARIABLES
    mem,        \* a Mem: page_free_list, pp_ref, env_pgdir of each environment,
                \* contents of its page directory and page tables, and whether
                \* page_free panicked
    parent,     \* the environment env_parent_id names, or NULL if it is gone
    cr3,        \* whose page directory each CPU uses; NULL: kern_pgdir
    tlb,        \* user translations each CPU has cached
    freeing,    \* the CPU and environment of a running env_free, or NULL
    ret         \* result of the system call this step was, or "none"

vars == <<mem, parent, cr3, tlb, freeing, ret>>

NoPtes == [va \in Va |-> NULL]

-----------------------------------------------------------------------------
(* kern/pmap.c *)

page_alloc(m) == [m EXCEPT !.free = Tail(@)]      \* returns Head(m.free)

(* pp_link is not null for every page of the list but the last.            *)
page_free(m, p) ==
    IF m.ref[p] # 0 \/ \E k \in 1..Len(m.free)-1 : m.free[k] = p
    THEN [m EXCEPT !.panic = TRUE]
    ELSE [m EXCEPT !.free = <<p>> \o @]

page_decref(m, p) ==
    LET n == [m EXCEPT !.ref[p] = (@ + RefMod - 1) % RefMod] IN
    IF n.ref[p] = 0 THEN page_free(n, p) ELSE n

incref(m, p) == [m EXCEPT !.ref[p] = (@ + 1) % RefMod]      \* pp->pp_ref++

(* pgdir_walk with create set succeeds if the page table is there or a     *)
(* page is left for it, which it clears.                                   *)
CanWalk(m, e, va) == m.pde[e][PDX(va)] # NULL \/ m.free # << >>

pgdir_walk_no_ref(m, e, va) ==
    IF m.pde[e][PDX(va)] # NULL THEN m
    ELSE [page_alloc(m) EXCEPT
             !.pde[e][PDX(va)] = Head(m.free),
             !.pte[e] = [v \in Va |-> IF PDX(v) = PDX(va) THEN NULL ELSE @[v]]]

pgdir_walk_not_cleared(m, e, va) ==
    IF m.pde[e][PDX(va)] # NULL THEN m
    ELSE [incref(page_alloc(m), Head(m.free)) EXCEPT
             !.pde[e][PDX(va)] = Head(m.free),
             !.pte[e] = [v \in Va |-> IF PDX(v) # PDX(va) THEN @[v]
                                      ELSE IF v = va THEN NULL ELSE [page |-> NULL, w |-> TRUE]]]

pgdir_walk(m, e, va) ==
    IF m.pde[e][PDX(va)] # NULL THEN m
    ELSE [incref(page_alloc(m), Head(m.free)) EXCEPT
             !.pde[e][PDX(va)] = Head(m.free),
             !.pte[e] = [v \in Va |-> IF PDX(v) = PDX(va) THEN NULL ELSE @[v]]]

page_lookup(m, e, va) == m.pte[e][va]

page_remove(m, e, va) ==
    IF page_lookup(m, e, va) = NULL THEN m
    ELSE [page_decref(m, m.pte[e][va].page) EXCEPT !.pte[e][va] = NULL]

page_insert_ref_after_remove(m, e, p, va, w) ==
    LET m1 == page_remove(pgdir_walk(m, e, va), e, va) IN
    [incref(m1, p) EXCEPT !.pte[e][va] = [page |-> p, w |-> w]]

(* For CanWalk(m, e, va).                                                  *)
page_insert(m, e, p, va, w) ==
    LET m1 == incref(pgdir_walk(m, e, va), p)
        m2 == IF m1.pte[e][va] # NULL THEN page_remove(m1, e, va) ELSE m1 IN
    [m2 EXCEPT !.pte[e][va] = [page |-> p, w |-> w]]

tlb_invalidate_never(c, e, va) == tlb' = tlb

(* Flushes the entry of the CPU that edits e, if it uses e's directory.    *)
tlb_invalidate(c, e, va) ==
    tlb' = IF cr3[c] \in {e, NULL} THEN [tlb EXCEPT ![c][va] = NULL] ELSE tlb

(* page_insert and page_remove flush exactly if a page was mapped.         *)
FlushIfMapped(c, e, va) ==
    IF page_lookup(mem, e, va) # NULL THEN tlb_invalidate(c, e, va) ELSE UNCHANGED tlb

-----------------------------------------------------------------------------
(* Boot and context switches *)

(* Reserved pages count as used, all others are on the list, in an order   *)
(* that gives the pages their names.                                       *)
FreeLists ==
    LET n == Cardinality(Page \ Reserved) IN
    {l \in [1..n -> Page \ Reserved] : \A j, k \in 1..n : l[j] = l[k] => j = k}

page_init(list) ==
    [free  |-> list,
     ref   |-> [p \in Page |-> IF p \in Reserved THEN 1 ELSE 0],
     pgdir |-> [e \in Env |-> NULL],
     pde   |-> [e \in Env |-> [t \in Table |-> NULL]],
     pte   |-> [e \in Env |-> NoPtes],
     panic |-> FALSE]

(* For m.free # << >>.                                                     *)
env_setup_vm(m, e) ==
    [incref(page_alloc(m), Head(m.free)) EXCEPT
        !.pgdir[e] = Head(m.free),
        !.pde[e] = [t \in Table |-> NULL]]

(* One iteration of region_alloc, with pages left.                         *)
region_alloc(m, e, va) == page_insert(page_alloc(m), e, Head(m.free), va, TRUE)

(* page_init is done and i386_init has created FirstEnv, with one page.    *)
Init ==
    /\ \E list \in FreeLists :
          mem = region_alloc(env_setup_vm(page_init(list), FirstEnv), FirstEnv, 0)
    /\ parent = [e \in Env |-> NULL]
    /\ cr3 = [c \in Cpu |-> NULL]
    /\ tlb = [c \in Cpu |-> NoPtes]
    /\ freeing = NULL
    /\ ret = "none"

(* The lock is free, so that a CPU can enter the kernel.                   *)
Unlocked == freeing = NULL /\ ~mem.panic

Exists(e) == mem.pgdir[e] # NULL

(* envid2env with checkperm: c's own environment or a child of it.         *)
MayChange(c, e) == cr3[c] # NULL /\ Exists(e) /\ (e = cr3[c] \/ parent[e] = cr3[c])

(* env_run of another environment, which no CPU runs.                      *)
env_run(c) ==
    /\ Unlocked
    /\ \E e \in Env :
         /\ Exists(e) /\ \A d \in Cpu : cr3[d] # e
         /\ cr3' = [cr3 EXCEPT ![c] = e]
    /\ tlb' = [tlb EXCEPT ![c] = NoPtes]
    /\ ret' = "none"
    /\ UNCHANGED <<mem, parent, freeing>>

sched_halt(c) ==
    /\ Unlocked
    /\ cr3[c] # NULL
    /\ cr3' = [cr3 EXCEPT ![c] = NULL]
    /\ tlb' = [tlb EXCEPT ![c] = NoPtes]
    /\ ret' = "none"
    /\ UNCHANGED <<mem, parent, freeing>>

(* A program on c touches va, without the lock: the CPU walks the tables   *)
(* unless it has the translation cached.                                   *)
Access(c) ==
    /\ cr3[c] # NULL
    /\ \E va \in Va :
         /\ tlb[c][va] = NULL /\ mem.pte[cr3[c]][va] # NULL
         /\ tlb' = [tlb EXCEPT ![c][va] = mem.pte[cr3[c]][va]]
    /\ ret' = "none"
    /\ UNCHANGED <<mem, parent, cr3, freeing>>

-----------------------------------------------------------------------------
(* Environments: kern/env.c *)

(* env_alloc in sys_exofork: memory for the page directory, or failure.    *)
sys_exofork(c) ==
    /\ Unlocked
    /\ cr3[c] # NULL
    /\ \E e \in Env :
         /\ ~Exists(e)
         /\ IF mem.free = << >>
            THEN ret' = "E_NO_MEM" /\ UNCHANGED <<mem, parent>>
            ELSE /\ ret' = "ok"
                 /\ mem' = env_setup_vm(mem, e)
                 /\ parent' = [parent EXCEPT ![e] = cr3[c]]
    /\ UNCHANGED <<cr3, tlb, freeing>>

env_free_no_lcr3(c) ==
    /\ Unlocked
    /\ \E e \in Env :
         /\ MayChange(c, e) /\ \A d \in Cpu \ {c} : cr3[d] # e
         /\ freeing' = [cpu |-> c, env |-> e]
    /\ ret' = "none"
    /\ UNCHANGED <<mem, parent, cr3, tlb>>

(* env_free is entered for the current environment or for one that no CPU  *)
(* runs (env_destroy makes a running one a zombie instead).                *)
env_free(c) ==
    /\ Unlocked
    /\ \E e \in Env :
         /\ MayChange(c, e) /\ \A d \in Cpu \ {c} : cr3[d] # e
         /\ freeing' = [cpu |-> c, env |-> e]
         /\ IF cr3[c] = e
            THEN cr3' = [cr3 EXCEPT ![c] = NULL] /\ tlb' = [tlb EXCEPT ![c] = NoPtes]
            ELSE UNCHANGED <<cr3, tlb>>
    /\ ret' = "none"
    /\ UNCHANGED <<mem, parent>>

(* The loop of env_free is at table t of e: every earlier one is gone.     *)
AtTable(e, t) == mem.pde[e][t] # NULL /\ \A u \in 0..t-1 : mem.pde[e][u] = NULL

MappedIn(e, t) == {va \in Va : PDX(va) = t /\ mem.pte[e][va] # NULL}

env_free_page(c) ==
    /\ freeing # NULL /\ freeing.cpu = c /\ ~mem.panic
    /\ \E t \in Table, va \in Va :
         LET e == freeing.env IN
         /\ AtTable(e, t)
         /\ va \in MappedIn(e, t) /\ \A v \in MappedIn(e, t) : va <= v
         /\ mem' = page_remove(mem, e, va)
         /\ tlb_invalidate(c, e, va)
    /\ ret' = "none"
    /\ UNCHANGED <<parent, cr3, freeing>>

env_free_table(c) ==
    /\ freeing # NULL /\ freeing.cpu = c /\ ~mem.panic
    /\ \E t \in Table :
         LET e == freeing.env IN
         /\ AtTable(e, t) /\ MappedIn(e, t) = {}
         /\ mem' = page_decref([mem EXCEPT !.pde[e][t] = NULL], mem.pde[e][t])
    /\ ret' = "none"
    /\ UNCHANGED <<parent, cr3, tlb, freeing>>

env_free_pgdir(c) ==
    /\ freeing # NULL /\ freeing.cpu = c /\ ~mem.panic
    /\ \A t \in Table : mem.pde[freeing.env][t] = NULL
    /\ mem' = page_decref([mem EXCEPT !.pgdir[freeing.env] = NULL], mem.pgdir[freeing.env])
    /\ parent' = [e \in Env |-> IF parent[e] = freeing.env THEN NULL ELSE parent[e]]
    /\ freeing' = NULL
    /\ ret' = "none"
    /\ UNCHANGED <<cr3, tlb>>

-----------------------------------------------------------------------------
(* System calls: kern/syscall.c, past the checks of their arguments *)

(* c makes a system call that edits e.  Unless Remote, no other CPU runs e. *)
CallOn(c, e) ==
    /\ Unlocked
    /\ MayChange(c, e)
    /\ Remote \/ \A d \in Cpu \ {c} : cr3[d] # e

sys_page_alloc_leaks(c, e, va, w) ==
    /\ CallOn(c, e)
    /\ IF mem.free = << >>
       THEN ret' = "E_NO_MEM" /\ UNCHANGED <<mem, tlb>>
       ELSE LET p == Head(mem.free)
                m1 == page_alloc(mem) IN
            IF CanWalk(m1, e, va)
            THEN /\ mem' = page_insert(m1, e, p, va, w)
                 /\ ret' = "ok"
                 /\ FlushIfMapped(c, e, va)
            ELSE mem' = m1 /\ ret' = "E_NO_MEM" /\ UNCHANGED tlb
    /\ UNCHANGED <<parent, cr3, freeing>>

sys_page_alloc(c, e, va, w) ==
    /\ CallOn(c, e)
    /\ IF mem.free = << >>
       THEN ret' = "E_NO_MEM" /\ UNCHANGED <<mem, tlb>>
       ELSE LET p == Head(mem.free)
                m1 == page_alloc(mem) IN
            IF CanWalk(m1, e, va)
            THEN /\ mem' = page_insert(m1, e, p, va, w)
                 /\ ret' = "ok"
                 /\ FlushIfMapped(c, e, va)
            ELSE mem' = page_free(m1, p) /\ ret' = "E_NO_MEM" /\ UNCHANGED tlb
    /\ UNCHANGED <<parent, cr3, freeing>>

(* The end of sys_page_map and sys_ipc_try_send: map at dstva of dst what  *)
(* pte says, if the permission asked for is not more than it has.          *)
MapFrom_no_perm_check(c, pte, dst, dstva, w) ==
    IF CanWalk(mem, dst, dstva)
    THEN /\ mem' = page_insert(mem, dst, pte.page, dstva, w)
         /\ ret' = "ok"
         /\ FlushIfMapped(c, dst, dstva)
    ELSE ret' = "E_NO_MEM" /\ UNCHANGED <<mem, tlb>>

MapFrom(c, pte, dst, dstva, w) ==
    IF w /\ ~pte.w THEN ret' = "E_INVAL" /\ UNCHANGED <<mem, tlb>>
    ELSE IF CanWalk(mem, dst, dstva)
    THEN /\ mem' = page_insert(mem, dst, pte.page, dstva, w)
         /\ ret' = "ok"
         /\ FlushIfMapped(c, dst, dstva)
    ELSE ret' = "E_NO_MEM" /\ UNCHANGED <<mem, tlb>>

sys_page_map(c, src, srcva, dst, dstva, w) ==
    /\ CallOn(c, dst) /\ MayChange(c, src)
    /\ IF page_lookup(mem, src, srcva) = NULL
       THEN ret' = "E_NO_MEM" /\ UNCHANGED <<mem, tlb>>
       ELSE MapFrom(c, page_lookup(mem, src, srcva), dst, dstva, w)
    /\ UNCHANGED <<parent, cr3, freeing>>

(* The receiver is blocked in sys_ipc_recv, so no CPU runs it.             *)
sys_ipc_try_send(c, srcva, dst, dstva, w) ==
    /\ Unlocked /\ cr3[c] # NULL
    /\ Exists(dst) /\ \A d \in Cpu : cr3[d] # dst
    /\ IF page_lookup(mem, cr3[c], srcva) = NULL
       THEN ret' = "E_INVAL" /\ UNCHANGED <<mem, tlb>>
       ELSE MapFrom(c, page_lookup(mem, cr3[c], srcva), dst, dstva, w)
    /\ UNCHANGED <<parent, cr3, freeing>>

sys_page_unmap(c, e, va) ==
    /\ CallOn(c, e)
    /\ mem' = page_remove(mem, e, va)
    /\ FlushIfMapped(c, e, va)
    /\ ret' = "ok"
    /\ UNCHANGED <<parent, cr3, freeing>>

-----------------------------------------------------------------------------

Step(c) ==
    \/ env_run(c) \/ sched_halt(c) \/ Access(c) \/ sys_exofork(c)
    \/ env_free(c) \/ env_free_page(c) \/ env_free_table(c) \/ env_free_pgdir(c)
    \/ \E e \in Env, va \in Va : sys_page_unmap(c, e, va)
    \/ \E e \in Env, va \in Va, w \in BOOLEAN : sys_page_alloc(c, e, va, w)
    \/ \E src, dst \in Env, srcva, dstva \in Va, w \in BOOLEAN :
          sys_page_map(c, src, srcva, dst, dstva, w)
    \/ \E dst \in Env, srcva, dstva \in Va, w \in BOOLEAN :
          sys_ipc_try_send(c, srcva, dst, dstva, w)

Next == \E c \in Cpu : Step(c)

Spec == Init /\ [][Next]_vars

-----------------------------------------------------------------------------
(* Properties *)

(* Page table entries, counts and CPU registers keep the form their C      *)
(* types give them; above all, an entry of a page table that pgdir_walk    *)
(* has just made is empty, not what its page held before.                  *)
TypeOK ==
    /\ mem \in Mem
    /\ parent \in [Env -> Env \cup {NULL}]
    /\ cr3 \in [Cpu -> Env \cup {NULL}]
    /\ tlb \in [Cpu -> [Va -> Pte \cup {NULL}]]
    /\ freeing \in [cpu : Cpu, env : Env] \cup {NULL}
    /\ ret \in {"none", "ok", "E_NO_MEM", "E_INVAL"}

(* The places of memory m that point to a page.                            *)
Dirs(m, p) == {e \in Env : m.pgdir[e] = p}
Tables(m, p) == {x \in Env \X Table : m.pde[x[1]][x[2]] = p}
Mappings(m, p) ==
    {x \in Env \X Va : m.pte[x[1]][x[2]] # NULL /\ m.pte[x[1]][x[2]].page = p}
Boot(p) == IF p \in Reserved THEN 1 ELSE 0
Refs(m, p) ==
    Cardinality(Dirs(m, p)) + Cardinality(Tables(m, p)) + Cardinality(Mappings(m, p)) + Boot(p)

OnFreeList(m, p) == \E k \in 1..Len(m.free) : m.free[k] = p

(* No count is about to wrap: what the 16 bits of pp_ref must suffice for. *)
CountsFit == \A p \in Page : Refs(mem, p) + 1 < RefMod

(* "pp_ref is the count of pointers (usually in page table entries) to     *)
(* this page" (inc/memlayout.h), through every sequence of calls and at    *)
(* every point of env_free's loop.                                         *)
RefExact == \A p \in Page : mem.ref[p] = Refs(mem, p)

(* Every page is either free, once on the list, or pointed to: nothing     *)
(* leaks on an error path, nothing that is in use can be handed out, and   *)
(* page_free never panics.                                                 *)
NoLeakNoDangling ==
    /\ \A p \in Page : OnFreeList(mem, p) <=> Refs(mem, p) = 0
    /\ \A j, k \in 1..Len(mem.free) : mem.free[j] = mem.free[k] => j = k
    /\ ~mem.panic

(* A page directory or page table is never mapped into a program's memory  *)
(* and never serves two address spaces, and neither does a page kept at    *)
(* boot.                                                                   *)
TablesIsolated ==
    \A p \in Page :
        Dirs(mem, p) # {} \/ Tables(mem, p) # {} \/ p \in Reserved => Refs(mem, p) = 1

(* What a CPU has cached is what the page tables of its environment say.   *)
TlbCoherent ==
    \A c \in Cpu, va \in Va : tlb[c][va] # NULL =>
        cr3[c] # NULL /\ tlb[c][va] = mem.pte[cr3[c]][va]

(* A CPU never uses the page directory of an environment that has none.    *)
Cr3Exists == \A c \in Cpu : cr3[c] # NULL => Exists(cr3[c])

(* A system call that fails leaves memory as it was: sys_page_alloc gives  *)
(* back its page when the page table cannot be allocated.                  *)
ErrorsChangeNothing == [][ret' \in {"E_NO_MEM", "E_INVAL"} => mem' = mem]_vars

Writable(m, p) ==
    \E e \in Env, va \in Va : m.pte[e][va] # NULL /\ m.pte[e][va].page = p /\ m.pte[e][va].w

(* No call makes a page writable that is mapped read-only everywhere: what *)
(* copy-on-write rests on.                                                 *)
NoWriteToReadOnly ==
    [][\A p \in Page : Mappings(mem, p) # {} /\ ~Writable(mem, p) => ~Writable(mem', p)]_vars

-----------------------------------------------------------------------------
(* What the properties rest on, whatever the counts do *)

(* A page is mapped only through a page table, and a page table is there   *)
(* only in an address space.                                               *)
Nested(m) ==
    /\ \A e \in Env, va \in Va : m.pte[e][va] # NULL => m.pde[e][PDX(va)] # NULL
    /\ \A e \in Env, t \in Table : m.pde[e][t] # NULL => m.pgdir[e] # NULL

(* env_free works on an address space that is there and in use by no CPU,  *)
(* and no address space is in use by two.                                  *)
FreeingExists == freeing # NULL => Exists(freeing.env)
OneCpuEach ==
    /\ \A c, d \in Cpu : cr3[c] = cr3[d] /\ cr3[c] # NULL => c = d
    /\ freeing # NULL => \A c \in Cpu : cr3[c] # freeing.env

Shape == TypeOK /\ Nested(mem) /\ FreeingExists

-----------------------------------------------------------------------------
(* Pmap implements AddrSpace: seen through the page tables, a page that is *)
(* handed out is one that nobody maps.                                     *)
AS == INSTANCE AddrSpace WITH live <- {e \in Env : Exists(e)}, as <- mem.pte

ImplementsAddrSpace == AS!Spec

(* Together: a page is free or used, and used as a page table or by        *)
(* programs, never both.                                                   *)
PagesSafe == NoLeakNoDangling /\ TablesIsolated

(* Together: what a CPU translates with exists and is up to date.          *)
TlbSafe == TlbCoherent /\ Cr3Exists
=============================================================================
