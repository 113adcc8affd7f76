# A TLA+ verification of the JOS kernel

The repository (`src/jos/`) is a JOS kernel at the end of lab 4: a small x86
multiprocessor exokernel. User environments (processes) are created, scheduled
and destroyed by a kernel under one big lock; they edit address spaces, their
own and their children's, through system calls, and talk through a small IPC.
The `user/` programs, such as `forktree`, `primes` and `stresssched`, are its
tests. This directory models the kernel's own logic, checks it with TLC and
proves the main results with TLAPS.

    cd tla
    tlc -workers 2 -config KernelLife.cfg MCKernel     # any run of PROJECT.json
    tlapm Kernel_proofs.tla                            # any of the eight *_proofs modules

## 1. Inventory

| Component | State | Operations | Interacts with | Hard part |
|---|---|---|---|---|
| big kernel lock, `kern/spinlock.c` | `kernel_lock` (locked, cpu) | `spin_lock`, `spin_unlock` | taken by trap entry and `mp_main`; given up by `env_run` and `sched_halt` | handed over on paths that never return |
| traps, `kern/trap.c`, `trapentry.S` | `cpu_status`, `panicstr`, the saved frame | `trap`, `trap_dispatch`, `page_fault_handler` | lock, environments, scheduler, system calls | a CPU may come from user mode, from `hlt`, or as a zombie's CPU |
| environments, `kern/env.c` | `envs[]`, `env_free_list`, `curenv` of each CPU | `env_alloc`, `env_free`, `env_destroy`, `env_run`, `env_pop_tf`, `envid2env` | page tables, scheduler | slots are reused; an environment can be killed while it runs elsewhere; `env_pop_tf` runs after the unlock |
| scheduler, `kern/sched.c` | none of its own | `sched_yield`, `sched_halt` | environments, lock | no environment on two CPUs; round robin |
| system calls, `kern/syscall.c` | none of its own | exofork, set_status, set_pgfault_upcall, destroy, yield, page_alloc, page_map, page_unmap | environments, page tables | legal calls in any order, by any CPU |
| kernel IPC, `kern/syscall.c` | the `env_ipc_*` fields | `sys_ipc_recv`, `sys_ipc_try_send` | scheduler, page tables | blocking and waking across CPUs; failure half way |
| pages and page tables, `kern/pmap.c` | `pages[]` (`pp_ref`, `pp_link`), page directories and tables | `page_init`, `page_alloc`, `page_free`, `page_decref`, `pgdir_walk`, `page_lookup`, `page_insert`, `page_remove` | system calls, `env_alloc`, `env_free` | exact counts on every error path; memory that runs out in the middle of a call |
| TLBs | each CPU's cached translations | `tlb_invalidate`, `lcr3` | page tables | other CPUs' copies |
| boot memory layout, `kern/pmap.c`, `entry.S`, `entrypgdir.c` | `nextfree`, `kern_pgdir`, `pages`, `envs`, the free list | `i386_detect_memory`, `boot_alloc`, `mem_init`, `page_init`, `boot_map_region`, `mem_init_mp` | page allocator | reservations that overlap; 4 MB reachable until `kern_pgdir` is loaded |
| multiprocessor start, `kern/init.c`, `mpconfig.c`, `mpentry.S`, `lapic.c` | `cpus[]`, `ncpu`, `mpentry_kstack`, `cpu_status`, `lapic` | `mp_init`, `lapic_init`, `boot_aps`, `mp_main` | lock, scheduler, `mmio_map_region` | one stack variable and one window for all processors; what runs before the lock exists |
| copy-on-write fork, `lib/fork.c` | page tables seen through `uvpt`; `_pgfault_handler` | `fork`, `duppage`, `pgfault` | page calls, page-fault upcall | the parent faults on its own stack while it copies |
| user-level page faults, `kern/trap.c`, `lib/pgfault.c`, `lib/pfentry.S` | frames on the exception stack | `page_fault_handler`, `_pgfault_upcall` | fork | faults inside the handler; the return that uses two stacks |
| IPC library, `lib/ipc.c` | none | `ipc_send`, `ipc_recv` | kernel IPC | endless retry; results read without the lock |
| user address checks, `kern/pmap.c` | `user_mem_check_addr` | `user_mem_check`, `user_mem_assert` | system calls | addresses that wrap |
| console, `kern/console.c`, `lib/readline.c` | input ring, display memory and cursor, modifiers held | `cons_intr`, `cons_getc`, `cga_putc`, `kbd_proc_data`, `readline` | traps, monitor | a full ring; prefixes split over two polls; scrolling under an edited line |
| debug information, `kern/kdebug.c` | symbol tables | `stab_binsearch`, `debuginfo_eip` | monitor, panics | a two-sided binary search |
| loaders, `boot/`, `load_icode` | memory, the disk | `readseg`, `bootmain`, `load_icode`, `region_alloc` | page tables | whole sectors; memory that runs out |
| trap frames, `kern/trapentry.S`, `env_pop_tf` | the kernel stack | `TRAPHANDLER`, `_alltraps` | traps | an error code for some vectors only |
| strings and formats, `lib/string.c`, `lib/printfmt.c` | buffers | `memmove`, `strlcpy`, `vprintfmt`, `strtol` | everything that prints or parses | overlap, buffer ends, malformed formats |
| monitor, `kern/monitor.c` | `argv`, an entry of `kern_pgdir` | `runcmd`, `setperms` | console | full argument lists |
| user programs, `fs/test.c` | – | – | – | examples and tests |

What makes each modelled part correct:

* lock: a CPU is in the kernel exactly when it holds the lock, and gives it up;
* environments and scheduler: an environment is on at most one CPU; a running or
  dying one is on exactly one; a CPU in user mode runs the registers of the
  present incarnation of its environment; the free list is exactly the free
  slots; only itself or its parent kills an environment; every runnable
  environment runs and every zombie is freed;
* IPC: a receiver stays blocked until a send, and only a send, wakes it;
* pages: `pp_ref` is exact, no page leaks or dangles, tables are never reachable
  by programs, a call that fails changes nothing, rights to write are never
  gained;
* TLBs: no CPU uses a translation that the page tables no longer have;
* boot: what the kernel uses is never free memory; every processor starts on its
  own stack, none schedules too early, and all of them come up;
* user-level faults: interrupted code continues with its own registers and an
  intact stack, however deep handlers fault;
* IPC library: a receiver gets one message, whole, and none is lost;
* console: characters keep their order, the screen shows the line that is
  edited, no modifier sticks;
* routines: each computes its reference definition, stays inside its buffers and
  returns.

`PROJECT.json` lists every component with its status and every hazard with the
line where it bites.

## 2. Modules

| Module | Models | Lines of code |
|---|---|---|
| `Kernel` | lock, traps, environment table, scheduler, system calls on environments, IPC | `spinlock.c`, `trap.c`, `env.c`, `sched.c`, `syscall.c`, the end of `i386_init` |
| `MCKernel` | instance for TLC | – |
| `AddrSpace` | abstract specification: what the page calls promise programs | – |
| `Pmap` | page allocator, page tables, page calls, freeing of address spaces, TLBs; shown to implement `AddrSpace` | `pmap.c`, `env.c`, `syscall.c` |
| `MCPmap` | instance for TLC, with symmetry | – |
| `PrivateMemory` | abstract specification: what fork promises programs | – |
| `CowFork` | copy-on-write fork in user space and its page faults; shown to implement `PrivateMemory` | `lib/fork.c`, `lib/pgfault.c`, `lib/pfentry.S`, `page_fault_handler` |
| `MCCowFork` | instance for TLC, with a view, for `CowForkNoMem` and as a part of `MCConsole` | – |
| `Boot`, `Smp` | boot memory layout, then the start of the processors | `pmap.c`, `entry.S`, `entrypgdir.c`, `init.c`, `mpconfig.c`, `mpentry.S`, `lapic.c` |
| `UserFault` | frames of user-level page faults | `trap.c`, `lib/pfentry.S` |
| `IpcLib` | the IPC library over the two system calls | `lib/ipc.c`, `syscall.c` |
| `Console`, `Keyboard` | input ring, display, readline; scan codes | `console.c`, `lib/readline.c` |
| `Routine`, `Stab`, `UserMem`, `Strings`, `Printfmt`, `Monitor`, `Loader`, `TrapEntry` | sequential routines | `kdebug.c`, `pmap.c`, `lib/string.c`, `lib/printfmt.c`, `monitor.c`, `boot/`, `env.c`, `trapentry.S` |
| `MCBoot`, `MCLibrary` | instances for TLC | – |
| `MCConsole` | instance for TLC: `CowFork`, `Console` and `Keyboard`, one of them at a time | – |
| `Kernel_proofs`, `Pmap_proofs`, `CowFork_proofs`, `Boot_proofs`, `Smp_proofs`, `UserFault_proofs` | theorems and proofs about the module of that name (section 5) | – |
| `Console_proofs`, `Library_proofs` | theorems and proofs about `Console` and `Keyboard`, and about `IpcLib`, `UserMem`, `Stab`, `TrapEntry`, `Loader`, `Strings`, `Printfmt` and `Monitor` | – |

### Kernel

State and code correspond by name: `lock` is `kernel_lock.cpu`, `curenv`,
`cpu_status` and the `env_*` variables are the fields of `struct CpuInfo` and
`struct Env`, one function for each field. `pc` says where each CPU is, `tf_cs`
the privilege level its last trap came from. `env_tf[i]` and `ctx[c]` abstract
register contents to the thing that matters: the incarnation `<<slot,
generation>>` whose registers they are. `env_gen` is the generation part of
`env_id`; `NextGen` wraps as `env_alloc` does, at `MaxGen` instead of 2^19.

A CPU's path is

    user or halt --trap--> (spin_lock) --> save --> dispatch --> ret or sched
         ^                                                          |
         +--- env_pop_tf <--- pop <--- env_run (releases the lock) -+
                              halt <--- sched_halt (releases the lock)

The stretch of code between two points where other CPUs can see the difference
is one action: `trap` (up to the first `lock_kernel`), `spin_lock`, `TrapSave`
(the zombie check and the copy of the frame), one action for each trap or
system call, `TrapReturn`, `sched_yield` with `env_run` and `sched_halt`, and
`env_pop_tf`, which the code runs after the unlock. A system call's bad-argument
returns are the action `NoEffect`. Memory shortage appears as the choice to
fail. `"monitor"` is a CPU in the kernel monitor (panic, breakpoint, nothing
left to run): it never comes back and keeps the lock. `"dead"` is the `hlt` of
a CPU that traps after a panic. A page fault inside the kernel (`trap.c:400-402`) is not an event of `Kernel`;
the places where this code can have one are in `Stab`, `Monitor` and `Loader`.

**Two disciplines.** The kernel lets a program do two things that break its own
invariants: `sys_env_set_status` on a child that runs, is a zombie or waits for a
message, or on itself with ENV_RUNNABLE, and `sys_env_destroy` of a zombie (section 4). The programs of the
repository do neither: `fork` (`lib/fork.c:184`) and `dumbfork`
(`user/dumbfork.c:75`) set the status of a child that has never run, and
`sys_env_destroy` is called by `exit`, `faultdie` and, once, by `user/spin.c:29`.
The constant `Disciplined` says which of the two calls programs make only as
`SafeStatusCall` and `SafeDestroyCall` allow. The passing runs and the second
group of theorems assume both; `KernelWakeRunning` lifts the first; the first group of
theorems assumes neither.

### Pmap and AddrSpace

`mem` is a record with the free list, `pp_ref`, the page directory, directory
entries and page table entries of each environment, and whether `page_free`
panicked. Each function of `kern/pmap.c` is an operator from such a record to
the next one, in the order the code makes its changes, so a system call is the
same composition of functions as in C: `page_insert` increments before it
removes, `sys_page_alloc` gives the page back if no page table can be had, and
so on. A page table entry is a frame and the right to write; other bits do not
affect control. `env_free` runs page by page, since other CPUs use their TLBs
meanwhile. A handler runs under the lock (`LockInv` of `Kernel`) and is
one step. `cr3` names the environment whose page directory a CPU uses.
`Access`, the TLB fill, is hardware and marked external.

`Remote` says whether programs may edit an address space that another CPU is
using. `fork` and `dumbfork` edit only children that have not run.

`AddrSpace` has a map from virtual pages to frames for each environment and five
actions: create, allocate a frame nobody maps, share without gaining the right
to write, unmap, destroy. `ImplementsAddrSpace` reads `mem.pte` as that map. It is the
statement that a frame which is handed out is not in anybody's address space.

### CowFork and PrivateMemory

`fork` is library code: it runs in user mode, reads its own page tables through
`uvpt`, and edits two address spaces by one system call after the other while
other environments run. A step of `CowFork` is therefore one system call or one
access to memory. `pc`, `pn`, `cow` and `child` are fork's program counter and its
local variables; `fault` is the program counter of a running `pgfault`, which
interrupts fork wherever fork writes to a page. A program has five pages: text,
data, stack, exception stack and PFTEMP. A page's content is reduced to what the
code reads back: `_pgfault_handler` and `thisenv` in the data, and the
last writer of the stack. Since compiled code may write its stack between any two
instructions, `StackWrite` may happen at any point of fork, also between the two
`sys_page_map` of one `duppage`.

The kernel side is the part that matters here: who maps which frame with which
right (what `Pmap` calls `pte`), and the choice of `page_fault_handler` between the
upcall and `env_destroy`. `Forking` and `Ending` say which programs fork and end,
`Failures` which calls may run out of memory: `"alloc"` is `sys_page_alloc`, whose
failure all callers turn into a panic, and `"map"` is `sys_page_map` into the child,
whose failure fork ignores (section 4).

`PrivateMemory` gives each environment a memory of its own, changed by its own
writes only and copied at a fork. The refinement mapping reads each running
environment's memory through its page tables. One liberty is in the abstract
specification: the child's stack is that of some moment during the fork.

### Boot and Smp

`Boot` is `mem_init` from `i386_detect_memory` to the load of `kern_pgdir`, at the
real addresses, counted in pages: the constants of `memlayout.h`, the sizes of
`struct PageInfo` and `struct Env`, and the place of the kernel image (`End`,
`BootStack`, `KStacks`). The free list is a sequence of runs of pages `[lo, hi]`, of which
`page_alloc` takes from the front; a run that is used up stays in the sequence with
`lo > hi`. `kmap` is what
`boot_map_region` was asked to map, in order, and `pde` the page tables that it took.
Of the self tests, `check_page_free_list` (which reorders the list) and the end of
`check_page` (which leaves two mappings in the MMIO window) are modelled, since they
change state; `FreeListSane` is the conjunction of its assertions, and a failed one
is a panic. A `Machine` is what the NVRAM reports: at most 640 KB of base memory, and two
sizes that `nvram_read` puts together from two bytes each (`NvramAssumption`).

`Smp` goes on from there, and `Boot` is part of its state: `mp_init` over the entries of
an MP table (or one of the ways to have none), `lapic_init`, the lock, `boot_aps`, and
for each other processor `mpentry`, `mp_main` and `sched_yield`, one step per action of
the others that it can see. `mmio_map_region` is one step of its own after the read of
`base`, since nothing protects it. `cpunum` is 0 for everyone until `lapic` is mapped.
`SmpAssumption` says that the boot processor comes first among the processors of a table,
as the MP specification has it; the code finds `cpus[]` by the number of the APIC.

### UserFault

The user stack, one word for the guard page and the exception stack as words;
`struct UTrapframe` has six of them, its eight general registers being one. Code of
level 0 is the program, of level n the handler of the n-th nested fault; each
level pushes its own number, so `StacksIntact` sees every word that is overwritten.
`page_fault_handler` places the frame as the kernel does, `handler_returns`,
`push_eip` and `return_from_upcall` follow the instructions of `pfentry.S`, with `%eax`,
`%ebx` and `%ebp` as variables. `StackMayFault` says whether the push of the return
address may fault itself (section 4).

### IpcLib

A system call is one step; `ipc_recv`'s three reads of its `struct Env` are three.
`sent` records, for the properties, the message that woke a receiver. A receiver may
ask for a page or not, in each call; a sender may offer one or not; `page_insert` may fail
after `env_ipc_perm` was written. Both calls may refuse their arguments: `recv_fails` is an
address that is not page-aligned, `bad_page` any of the `-E_INVAL` of a page that is sent.
Environments exit between calls. That the
two system calls work as one step each is `LockInv` of `Kernel`.

### Console and Keyboard

`Console`: the queues of two devices, the ring with its two indices, the display
memory with the cursor, and `readline`. Control characters are model strings, so is
each printable one. `cons_getc` polls the serial port and then the keyboard, one character in
each step (`poll` says where it is), and characters go on arriving meanwhile.
`unread` and `overrun` record, for the properties, what arrived.
`Keyboard`: the six keys that the decoder's bits are about (both Shifts, both Ctrls,
Alt and Delete), of which three are extended; a key that goes down or up sends one
byte or two, and `kbd_proc_data` reads one at a time. The maps of characters are cut
to the keys used. Each byte carries, for the properties, the set of keys that were down. The controller
loses no byte, and bytes of the mouse (`KBS_TERR`, `console.c:331`) do not occur.
`KeysDecoded` has one direction: no key is taken to be down that is up. The code does forget a Shift that is
still down when the other Shift goes up.

### The sequential routines

One variable `st` (module `Routine`) holds the call in progress: the function, its
program counter and its locals. A loop's body is an action, so that termination
(`Returns`) and the states inside loops are checked, not results alone.

| Module | Routines | Reference it is checked against |
|---|---|---|
| `Stab` | `stab_binsearch`, `debuginfo_eip` | the last stab at or before the address; file, function, line and number of parameters by definition |
| `UserMem` | `user_mem_assert`, `user_mem_check` | every byte of the range is accessible; the first that is not |
| `Strings` | `memmove`, `strcpy`, `strncpy`, `strlcpy`; as operators `strlen`, `strnlen`, `strchr`, `strfind`, `strcmp`, `memset` | the copy made through a second buffer |
| `Printfmt` | `vsnprintf`, `vprintfmt`, `strtol` | `strtol` reads back what was printed; bounds of the format and of the buffer |
| `Monitor` | `runcmd`, `setperms` with its loop over the rights | the words of the line; the rights that the list names |
| `Loader` | `boot.S`, `bootmain`, `load_icode`, `region_alloc` | every segment holds the bytes of the file and then zeros |
| `TrapEntry` | the gates, `trapentry.S`, `trap`, what `trap_dispatch` writes to the frame, `env_pop_tf` | every register in its field; the program continues with its registers, but for the result of a system call or the entry to its upcall |

What the routines are called with is, as far as it can be, any value: the registers of `TrapEntry` hold
any `TrapWord`, `Stab` searches any region of any table with symbols at `StabValue` for any of
`StabAddr`, the copying routines get every string, size and place that do not overlap. `Printfmt` has two sets of calls:
short formats, for the bounds, and a list of formats with the base in which `strtol` reads their output
back. `TextSpec` is the specification of the string routines and of `vprintfmt` alone, for the proofs.
`Monitor` gets all lines of blanks and letters up to nine characters, and the lines of `setperms`: every list of up to three
rights, with a blank behind it or without, `clear`, wrong and missing arguments, on an address with a page table and without,
with three different remains of earlier lines behind the NUL. `Stab` distinguishes the checks of a user program's tables:
the pointers at `USTABDATA`, one stab, and the string table; `readable` is the number of stabs that
the kernel can in fact read. `UserMem` has entries with and without each of P, U and W.
`LoaderAssumption` is what the images and the code give: headers and the kernel's load address at
whole sectors, headers below it, room for two segments and the stack's page.

### Faulty variants

A definition such as `page_insert_ref_after_remove` is a plausible mistake in
the operator that follows it. No specification uses one. Each property of each
passing run is violated when one of them takes the operator's place
(`PROJECT.json`, "mutants").

## 3. Runs that pass

| Run | Instance | Checks |
|---|---|---|
| `KernelLife` | 2 CPUs, 2 slots, 2 generations, every trap and call but IPC; 237,632 states | `TypeOK`, `LockInv`, `RunsOwnContext`, `FreeListExact`, `KilledBySelfOrParent`, and `ZombieFreed` under `FairSpec` |
| `KernelIpc` | 2 CPUs, 2 slots, timer, fork, status, destroy, IPC; 555,087 states | `NoEnvOnTwoCpus`, `RunningHasCpu`, `ReceiverBlocked`, `WokenBySend`, and `IInv`, the invariant of the proofs |
| `KernelFair` | 2 CPUs, 4 environments that compute and exit; 10,405 states | `RunnableRuns` under `FairSpec` |
| `Pmap` | 2 CPUs with TLBs, 2 environments, 1 reserved page and 5 free ones, two page tables with 2 entries and 1; 29,999 states up to symmetry | `TypeOK`, `RefExact`, `PagesSafe`, `TlbSafe`, `ErrorsChangeNothing`, `NoWriteToReadOnly`, `ImplementsAddrSpace` |
| `ForkConsole` | one at a time: 2 environments that fork and end, 9 pages, allocation may fail (22,365 states up to names of pages); ring of 3, screen of 3 rows of 2, line buffer of 4, two devices with 2 characters waiting; 6 keys. 1,063,689 states | `TypeOK`, `Isolated`, `HandlerReady`, `ThisenvOwn`, `ImplementsPrivateMemory`; `InputSafe`, `DisplaySafe`, `KeysDecoded` |
| `Boot` | machines of 2, 3, 16, 32 and 60 MB, room for 3 processors, 12 MP tables; 3,411 states | `BootMemory`, `KernelMapped`, `StartedApart`, and `AllRun` under `FairSpec` |
| `Library` | user-level faults on a 25-word exception stack, IPC among 3 environments, and all small inputs of the routines; 564,409 states | `FaultsTransparent`, `MessagesWhole`, `DebuggerExact`, `UserMemChecked`, `TextExact`, `ProgramsLoaded`, `FramesExact`, and `Returns` and `ReceiverServed` under the fairness of `Spec` |

Some of these are conjunctions of parts that have names, and comments, of their own:

| Property | Parts |
|---|---|
| `PagesSafe`, `TlbSafe` (`Pmap`) | `NoLeakNoDangling`, `TablesIsolated`; `TlbCoherent`, `Cr3Exists` |
| `BootMemory`, `KernelMapped` (`Boot`) | `BootArraysDisjoint`, `BootMemoryKept`, `BootReach`; `check_kern_pgdir`, `UserReadsArrays` |
| `StartedApart` (`Smp`) | `TypeOK`, `OwnStack`, `MmioExclusive`, `NoEarlySched`, `PicToBsp` |
| `InputSafe`, `DisplaySafe` (`Console`), `KeysDecoded` (`Keyboard`) | `ConsTypeOK`, `InputInOrder`; `CursorOnScreen`, `EchoIsLine`; `ModifiersHeld`, `EscapeInStep`, `RebootAsked` |
| `FaultsTransparent` (`UserFault`), `MessagesWhole` (`IpcLib`) | `UfTypeOK`, `StateRestored`, `StacksIntact`, `GuardUntouched`; `IpcTypeOK`, `ReceivedAsSent` |
| `DebuggerExact` (`Stab`, `Monitor`, `Printfmt`), `TextExact` (`Strings`, `Printfmt`) | `StabBrackets`, `LineFound`, `ArgvExact`, `RightsAsListed`, `ReadBack`; `MovedAsAWhole`, `CopiedInside`, `InsideFormat`, `BufferBounded` |
| `ProgramsLoaded` (`Loader`), `FramesExact` (`TrapEntry`) | `KernelLoaded`, `IcodeLoaded`; `FrameUniform`, `Resumed` |

Why the bounds are enough for the cases that matter:

* Two CPUs and two slots make a CPU kill, free and reuse a slot while another
  runs the old occupant or is between unlock and `env_pop_tf`. `KernelLife` uses
  two generations, so that a slot's old id and its new one differ and an id
  comes round again; with one generation every reused id is an old one, which is
  more than a real system does. The proofs remove all of these bounds.
* Three pages go to page directory, page table and memory of the first
  environment; five make memory run out at each possible point of a second
  environment's life: at its directory, its table and its page.
  `RefMod = 8` is above any count that can occur with four mappings.
* Page names are interchangeable, as are CPU names in `Pmap`; the free list
  starts in any order. So symmetry is sound, and the runs that use it check
  safety only.
* In the fork part of `ForkConsole` a parent and a child fork, end, and are forked again into the slot the
  other has left, so that pages are shared by parent and child in both directions,
  a page is copied that is no longer shared, and a child forks with pages that are
  already copy-on-write. Both may be in `pgfault` at once. A page shared by three
  environments is outside this run. Nine frames are all that two environments can use
  (the text is always shared). Frames are told apart only by their content, their
  rights and their sharers (`View`).
* The machines of `Boot` include one too small for its arrays (`boot_alloc` panics); the
  largest has 60 MB, and up to 62 MB the distance between `pages[]` and `envs[]` suffices.
  `BootOverlap` shows what happens beyond. The MP tables fail every test of `mpconfig` in turn and list up to four
  processors for three places. Three processors are the least with two that
  could take each other's stack.
* In the console part of `ForkConsole` the ring of three wraps and overruns, the screen scrolls in the
  middle of a line and of a tab, and a line fills its buffer. Characters arrive at any time where the ring is
  looked at, and no faster than they are read where the screen is; the serial port may be missing in the former.
* The exception stack of 25 words holds two nested frames with their handlers' words and
  then overflows into the guard, at several depths.
* Three environments, two of which receive: two senders compete for one receiver,
  and two environments send to each other.
* The routines get every string, address, length, format or table of a small size:
  enough for each branch, for the empty and the full case, and for every alignment
  (words are 2 bytes, pages 2 bytes, sectors 2). Words of formatted numbers are 6
  bits wide. `UserMem` has two pages below ULIM and two above it, the last of which is the
  kernel's. Of the registers of an interrupted program at most one differs from the others (`Marked` in `MCLibrary`), which
  is enough to see where each goes; the theorem has no such bound. `StabStep` keeps symbols two bytes apart; `StabSearch` shows what happens with one.
* `CHECK_DEADLOCK FALSE` is set where the system may stop: once every environment is
  gone there is nothing left to call the kernel (`Pmap`), a panic in a program stops
  in the kernel monitor (`ForkConsole`), the start is over (`Boot`), a call has returned or every
  environment has exited (`Library`). The three `Kernel` runs check deadlock.

**Fairness** (`FairSpec`). Each CPU executes (weak fairness of `Step(c)`), which
includes that a CPU in user mode or in `hlt` traps again: the local APIC's timer
is periodic (`kern/lapic.c:72-74`), and `hlt` is reached with interrupts enabled.
Strong fairness of `TimerOrYield(c)` says that among the traps of a CPU the
timer recurs, and no program can mask it. Strong fairness of `spin_lock(c)` is an
assumption about hardware: `spin_lock` is a bare `xchg` loop without tickets, so
the code alone does not guarantee it, and nothing holds without it.
`RunnableRuns` excuses states with a CPU in the monitor, which holds the lock for ever.
The environments of `KernelFair` compute and exit, so that a CPU whose
environment is gone scans from slot 0; nobody forks or blocks, and section 4 says what
happens when they fork for ever.

In `Boot` every processor executes (weak fairness; the lock is contended only while the
others start, each of which takes it once). In
`Library` the scheduler runs every environment (what `RunnableRuns` says of the kernel) and
a call runs on until it returns. `ReceiverServed` does not promise a sender its turn.

## 4. Runs that find a disagreement

| Run | What the source says | What the code does |
|---|---|---|
| `KernelWakeRunning` | `sched.c:26`: never choose an environment that runs on another CPU | an environment that sets its own status to `ENV_RUNNABLE` while it runs goes on running with that status, since `env_run` (`env.c:560`) does nothing for the current environment, and a second CPU's `sched_yield` takes it too |
| `CowForkNoMem` | `fork.c:112-114`: copy our address space to the child, then mark it runnable | a `duppage` that fails is ignored, and the child is made runnable with a hole in its memory |
| `BootOverlap` | `pmap.c:83`: `boot_alloc` allocates enough pages to hold n bytes | it returns the end of what it reserves, and `pages[]` is sized by a pointer: with 128 MB `envs[]` begins inside `pages[]` |
| `StabSearch` | `kdebug.c:40`: `*region_left` points to the stab that contains `addr` | after an exact match a symbol one byte further is taken instead |
| `LoaderNoStack` | `env.c:331-333`: `load_icode` maps a page for the stack, and panics if it encounters problems | when no page is left for the stack's page table, the failure of `page_insert` (`env.c:402`) is ignored, and the program is started without a stack |

`BootMemoryKept`, a part of `BootMemory`, shows why the overlap never reached the free list: `page_init` starts
1 MB (`EXTPHYSMEM`) above `nextfree`.

Other disagreements, most of which are reproduced by a change of a constant or of a condition:

* `KernelLife` with `Disciplined = {"set_status"}` violates `RunsOwnContext`: a second
  `sys_env_destroy` frees a zombie while the other CPU executes it (`env.c:491` says a zombie
  is freed the next time it traps).
* `KernelFair` with one CPU, three slots, two of them used, and the traps `timer`,
  `exofork`, `set_status` and `destroy` violates `RunnableRuns`: when the current environment has
  exited the scan starts at slot 0, and environments that fork and exit in low slots shut
  out a high one for ever (`sched.c:16` says round robin).
* `Pmap` with `Remote = TRUE` violates `TlbSafe`: only the calling CPU's TLB is invalidated
  (`pmap.c:606`).
* `Library` with `StackMayFault = TRUE` violates `FaultsTransparent`: the upcall has
  left the exception stack when it pushes the return address on a trap-time stack that
  is copy-on-write, and the kernel then overwrites its frame (`pfentry.S:101`).
* `ReceivedAsSent` excepts a page offered to a receiver that asks for none: `env_ipc_perm` then keeps
  an earlier value (`syscall.c:325` says it is 0). `UserMemChecked` excepts ranges that wrap
  around the address space, which `user_mem_check` does not look at. Without the exceptions TLC finds both violated.
* The input ring has no test for full: with as many unread characters as it has places (`CONSBUFSIZE`, 512) its
  indices are equal and it looks empty (`console.c:411`). The run reaches such states;
  `InputSafe` promises nothing after one (`overrun`).
* `setperms` looks at every other character of its list, `monitor.c:148-152`. A list as the panic's text shows it, `[W|U|P]`,
  has an odd length; an argument of even length makes the loop step over the NUL and go on in what the buffer holds behind it. The lines
  of `OtherLines` do this; `RightsAsListed` speaks of lists in brackets.
* `debuginfo_eip` checks that one stab can be read (`kdebug.c:157`), not the table. A user program's table that is cut off
  makes the kernel fault, and panic, in the search (`table_fault`); `LineFound` speaks of tables that can be read.
* The 16-bit `pp_ref` wraps if a page is mapped 65,536 times (`Pmap` with a small `RefMod`).

## 5. What is proved

TLC checks the instances of section 3. The theorems hold for every value of the
constants that the named assumptions of the modules allow (`KernelAssumption`,
`PmapAssumption`, ...), which are what the code's declarations give; TLC
evaluates them on every run. `PROJECT.json` lists the theorems with the properties
they state. Each has the same plan: an inductive invariant, one lemma for each action,
and the property as a consequence of the invariant.

### Kernel

For every set of CPUs, every number of slots and generations, and every set of traps.

*Whatever programs do:* `TypeCorrect`; `LockSafety`, a CPU is in the kernel exactly
when it holds the lock; `KillAuthority`, only itself or its parent kills an environment.

`LockInv` is not inductive. That `spin_lock` never finds the lock already its own,
and that `trap` from `hlt` comes through the HALTED branch, needs `ModeInv`:
where a CPU is, its `cpu_status` and the mode of its last trap go together. That
every dispatch has a current environment needs `HasCurenv`. `LockIInv` is the
conjunction.

*Under both disciplines* (`Disciplined = {"set_status", "destroy"}`):

* `IInvCorrect`: the inductive invariant `IInv`, and from it
* `EnvExclusion`: no environment on two CPUs;
* `NoLostEnv`: a running environment and a zombie are on a CPU;
* `ContextSafety`: a CPU in user mode runs the registers of its environment's
  present incarnation;
* `ReceiverSafety`, `ReceiverWoken`: a receiver is blocked until another environment's
  send wakes it, and nothing else does;
* `FreeListSafety`: the free list is exactly the free slots.

The argument: exclusion rests on the status of what a CPU has as `curenv`
(`CurenvStatus`): RUNNING; or a zombie, but then that CPU is on its way through
user mode to the zombie check; or NOT_RUNNABLE, but then the CPU is on its way to
`sched_yield` with the lock. Hence a RUNNABLE environment is on no CPU, and
`sched_yield` may take it; and a slot that is freed is on no CPU but the one that
frees it, so it can be reused. `SavedContext` and `LoadedContext` carry this to the
registers across the gap between unlock and `env_pop_tf`. `ReceiverBlocked` keeps a
send from making a running environment RUNNABLE. The lemmas
`RunKeeps`, `HaltKeeps`, `FreeSelfKeeps` and `StatusKeeps` state the effect of
each way the assignment of environments to CPUs can change.

### Pmap

For any pages, environments, CPUs and layout of page tables.

* `TypeCorrect`, from `Shape`: types, and that page tables and mappings are nested in page
  directories that exist. It holds even if a count wraps.
* `TlbCorrect` (if `Remote = FALSE`): `TlbSafe`. Inductive with `OneCpuEach`, that an
  address space is in use on one CPU, which is what makes the flush of the calling
  CPU alone enough.
* `RefsExact`, `PagesKept`, `ImplementsAS`, `ReadOnlyKept`, `ErrorsUndone`: `RefExact`, `PagesSafe`,
  the refinement of `AddrSpace`, `NoWriteToReadOnly` and `ErrorsChangeNothing`, in every run
  in which no count outgrows 16 bits (`[]CountsFit`). The hypothesis is needed: with a
  count that wraps a page in use is freed.

The invariant is `Counted(mem, {})`: counts are exact, the free list is exactly the pages
with no pointer to them, the kernel's pages are not mapped. It has a parameter, the set of pages in
hand: between `page_alloc` and the entry that will point to the page, the page is neither free nor
counted, and each function of `pmap.c` has a lemma that takes `Counted(m, H)` to
`Counted(n, H')`. A system call then is the composition of those lemmas in the order
in which the code makes the calls, also on its error paths. `Refs` is a sum of three
cardinalities; the lemmas `PteSet`, `PdeSet`, `DirSet` and their inverses say that an edit of one entry
changes it by one for one page.

### CowFork

For any number of environments, whichever fork, fault, write their stacks and end at
the same time.

* `ForkTypeCorrect`, `ForkIsolates`, `ForkHandlerReady`, `ForkThisenv`: whichever calls run out of memory.
* `ForkCopies`, the refinement of `PrivateMemory`, and `ForkComplete`, that a child that runs has all
  its pages, if `sys_page_map` does not run out of memory in `duppage` (`"map" \notin Failures`).
  `CowForkNoMem` shows the hypothesis is needed; so the missing check of `duppage`'s result
  is the only cause of an incomplete child.

`Inv` adds to the properties what they depend on: who is whose child and at which point of
fork (`Lives`), what a `pgfault` that has been interrupted has still to do (`Copying`), that what
`duppage` has seen of its page's permissions still holds (`Duplicating`), and the handler and data a
program has (`Handlers`, `DataThere`). The refinement needs two more: a program that runs has all its
pages (`Complete`), and the pages that fork's loop has passed are in the child and hold what the
parent's hold (`Passed`).

### Boot and Smp

For any machine, image, number of processors and MP table the assumptions allow.

* `StartsApart`: every processor starts on its own stack with its own APIC mapping, and
  none schedules early.
* `KernelIsMapped`: up to 256 MB, all that fits above `KERNBASE`, `kern_pgdir` is what `memlayout.h` draws.
* `BootMemorySafe`: up to 62 MB, and if base memory lasts for the page tables (`BaseLasts`: 71 pages and one for
  each processor), what the kernel takes at boot is disjoint, stays taken and is reachable through `entry_pgdir`.
* `OverlapBeyond62MB`: with more, `pages[]` and `envs[]` always overlap, so the bound above is exact, and the
  run `BootOverlap` (128 MB) is not a special case.
* `FreeListSafe`: up to 574 MB the pages of both arrays are never handed out all the same.

`StartInv` has three parts. `BootInv` says at each step of `mem_init` where `nextfree` and
the arrays are, which runs of pages the free list has and which page tables are in
`kern_pgdir`; `FromMachine` ties `npages` to a machine's report; `SmpInv` says which processor may be
where while the boot processor is at entry i of its loop: those below i are up, those above have not started, and i itself
is the only one that uses `mpentry_kstack` and `base`.

### UserFault, IpcLib, Console and Keyboard

* `FaultsInvisible` (if `StackMayFault = FALSE`; section 4): faults nested to any depth, on an exception
  stack of any size, leave what they interrupt as it was. `UfInv` says for every level where its part of a stack begins and ends
  (`Nested`: the parts and the frames between them do not overlap, and a frame is where the kernel's rule puts
  it), and what the words of it hold (`Contents`), with the registers at each instruction of the return.
* `MessagesCorrect`: `MessagesWhole`, for any environments and values. `IpcInv` says what a receiver has still to read is what
  its waker stored, since nobody can send to it until it waits again.
* `KeysCorrect`: `KeysDecoded`, for any keys and any queue. Each byte in the queue was sent with the keys of the byte before
  it down (`Chain`), and a second byte is what follows a prefix (`Prefixes`). A key whose
  release code would be 0xE0 is excluded by `KeyboardAssumption`; there is none.
* `DisplayCorrect`: `DisplaySafe`, for a screen of any number of rows and columns, any line buffer that is at least a row
  smaller than the screen, and whatever the devices deliver. `DisplayInv` is little more than the property; the work is in the lemmas
  about `cga_putc`: `ScrollEffect` (a scroll moves every cell up a row), `ShowEffect` (a character that is echoed
  extends what stands before the cursor, also if the screen scrolls) and `EraseEffect`. Without the bound on the line
  buffer the property is false: a scroll would drop the line's beginning.
* `InputCorrect`: `InputSafe`, for a ring and device queues of any size. `RingInv` says that, until the ring has
  overrun, the cells from its read to its write position are the unread characters (`Holds`); each of
  `cons_intr`'s and `cons_getc`'s steps moves one index around the ring (`RingIndex`), also when it wraps.

### The sequential routines

* `UserMemCorrect`: `UserMemChecked`, for any page size, address space and page table, so also for pages of 4096 bytes and
  32-bit addresses. `UserMemInv` says that the loop stands at the beginning of a page, at most a page's length before the range,
  and that all bytes of the range before it may be accessed; since ULIM is the beginning of a page, the
  bytes of a page may be accessed together or not at all (`PageAllowed`). A range that ends in the last page is
  excluded by the property itself: the end wraps to 0 there.
* `FramesCorrect`: `FramesExact`, for every vector, raised by the processor, a device or `int`, in user or kernel mode, and any
  contents of the registers. `TrapInv` says what is on the stack at entry (`AtEntry`: with or without an error
  code, as the vector has it), and that what `env_pop_tf` pops is the program's own frame with what `trap_dispatch` is
  to change in it (`AtReturn`).
* `SearchCorrect`: `StabBrackets`, for tables of any length, any region and any address, if no two symbols are one
  address apart. The hypothesis is needed: the run `StabSearch` violates the property without it. `SearchInv` says which stabs
  the search has ruled out on either side, before and after an exact match, when it looks for `addr + 1` (`Searched`).
* `LoadersCorrect`: `ProgramsLoaded`, for any sizes of sectors and pages within `LoaderAssumption`, for images of two
  segments of every size up to about two sectors or pages each, and for any amount of free memory. `BootInv` says that `readseg`, which reads whole sectors and so may begin before a segment and end behind it, has
  what it should have up to `pa`, and that earlier segments have not been overwritten; `IcodeInv` which pages
  `region_alloc` has mapped (`AllocAt`), and that a failure means that no page is free.
* `TextCorrect`: `TextExact`, for every memory, string, size, place, format, argument and buffer. `MoveInv` gives the part of
  the area that `memmove` has copied, from the front or from the back, in bytes or words; `CopyInv` the memory after the characters
  and NULs written so far; `FormatInv` says that inside an escape its percent sign is behind `f`, so that the walk back of
  an unknown escape ends in the format; `OutInv` that the buffer holds the beginning of the output.
* `RuncmdCorrect`: `ArgvExact`, for lines of any length, any characters and any `MAXARGS`. `RuncmdInv` counts the words that
  begin before `buf`, at each of the points where `runcmd` looks at a character.

Two definitions in `Printfmt` are recursive functions: the digits of `printnum` and the number in a format.
That they exist at all is a theorem here, not an assumption: a value from which no partial solution leads further
would have a least one (`SolutionsAgree`, `SolutionFrom`, `RecursionSolved`), so the induction is over
the set of such values and needs no induction rule. The same argument gives what is used of them,
that `printnum` yields text (`DigitsText`) and that a number is an integer (`NumberInt`).

### Only model-checked

* Liveness: `RunnableRuns`, `ZombieFreed`, `AllRun`, `ReceiverServed`, `Returns`. TLAPS has no support for fairness and ENABLED.
* `DebuggerExact` as a whole. Its parts `StabBrackets` and `ArgvExact` are proved (above). The others are not:
  `LineFound` compares three searches and two walks with functions of the whole table, and
  `RightsAsListed` speaks of given lines, all of which TLC goes through;
  `ReadBack` says that `strtol` is the inverse of `printnum` modulo the word, which needs an induction over the digits
  together with arithmetic modulo a variable word size; no proof of it has been written.

## 6. Not modelled, and the plan

Left out for good: the registers of devices (APIC, 8259A, serial and parallel port,
disk, clock), the mouse's bytes, text that is only printed (`print_trapframe`, the monitor's
other commands, `cprintf`'s output), `strcat`, `strncmp` and `ipc_find_env`, the parts of the self tests
that leave nothing behind, the user programs (environments may make any call at any
time) and `fs/test.c`.

What proofs could add: `ReadBack`, by the same least-element argument as `DigitsText`, and `LineFound`, whose three
searches could each cite what `SearchCorrect` rests on.
