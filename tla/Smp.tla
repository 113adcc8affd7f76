-------------------------------- MODULE Smp ---------------------------------
(***************************************************************************)
(* i386_init after mem_init: the boot processor reads the multiprocessor   *)
(* table (kern/mpconfig.c), maps its local APIC (kern/lapic.c) and starts  *)
(* the other processors one by one (boot_aps in kern/init.c), which come   *)
(* up through kern/mpentry.S and mp_main and then wait for the big kernel  *)
(* lock.  A processor is named by its APIC id, the boot processor is 0.    *)
(* Shared are the page directory of Boot, the static variable of           *)
(* mmio_map_region, lapic, mpentry_kstack, cpus[] and the lock.            *)
(***************************************************************************)
EXTENDS Boot

CONSTANTS
    MpTables    \* multiprocessor tables the BIOS may leave in memory

Cpu == 0 .. NCPU - 1
NULL == -1

(* The processors of a table are numbered by their local APICs in the      *)
(* order of the table, from the boot processor on: code that finds its     *)
(* own struct in cpus[] by its APIC id relies on it.                       *)
ASSUME SmpAssumption ==
    \A t \in MpTables :
        /\ t.entries \in Seq(STRING)
        /\ \A k \in DOMAIN t.entries : t.entries[k] = "bootproc" =>
              \A j \in 1 .. k - 1 : t.entries[j] \notin {"proc", "bootproc"}

VARIABLES
    table,          \* the table of this machine
    i,              \* loop variables of mp_init and boot_aps
    ismp, ncpu, bootcpu, lapicaddr,
    lapic,          \* virtual page of the local APIC, 0 before
    cpu_status,     \* cpus[].cpu_status
    ts_esp0,        \* the stack of cpus[].cpu_ts, by its processor
    mpentry_kstack, \* the stack for the processor that starts next
    lock,           \* kernel_lock
    created,        \* ENV_CREATE was called
    pc, esp,        \* of each processor; esp is the owner of the stack it uses
    base,           \* mmio_map_region's copy of its static variable, in use
    lint0           \* LINT0 of the local APIC takes the 8259A's interrupts
mpVars == <<table, i, ismp, ncpu, bootcpu, lapicaddr>>
apVars == <<cpu_status, ts_esp0, esp, lint0>>
smpVars == <<mpVars, apVars, lapic, mpentry_kstack, lock, created, pc, base>>
vars == <<bootVars, smpVars>>

SmpInit ==
    /\ table \in MpTables /\ i = 0
    /\ ismp = FALSE /\ ncpu = 0 /\ bootcpu = 0 /\ lapicaddr = FALSE
    /\ lapic = 0
    /\ cpu_status = [c \in Cpu |-> "UNUSED"] /\ ts_esp0 = [c \in Cpu |-> NULL]
    /\ mpentry_kstack = NULL /\ lock = NULL /\ created = FALSE
    /\ pc = [c \in Cpu |-> IF c = 0 THEN "mem_init" ELSE "off"]
    /\ esp = [c \in Cpu |-> IF c = 0 THEN 0 ELSE NULL]
    /\ base = [c \in Cpu |-> 0]
    /\ lint0 = [c \in Cpu |-> c = 0]

Goto(c, l) == pc' = [pc EXCEPT ![c] = l]

(* cpunum reads the id of the processor that executes it, once there is a  *)
(* local APIC.                                                             *)
cpunum_of_bsp(c) == 0
cpunum(c) == IF lapic # 0 THEN c ELSE 0

(* trap_init_percpu sets up the task state of thiscpu.                     *)
trap_init_percpu(c) == ts_esp0' = [ts_esp0 EXCEPT ![cpunum(c)] = cpunum(c)]

trap_init ==
    /\ pc[0] = "mem_init" /\ bpc = "done"
    /\ trap_init_percpu(0)
    /\ Goto(0, "mp_init")
    /\ UNCHANGED <<bootVars, mpVars, cpu_status, esp, lint0, lapic, mpentry_kstack,
                   lock, created, base>>

(* mpsearch looks in the EBDA, or without one at the end of base memory,   *)
(* and then in the ROM; mpconfig takes a table that passes its checks.     *)
mpsearch == table.at \in {"rom", IF table.ebda THEN "ebda" ELSE "base"}
mpconfig ==
    /\ mpsearch
    /\ table.physaddr # 0 /\ table.type = 0
    /\ table.signature = "PCMP" /\ table.sum = 0
    /\ table.version \in {1, 4} /\ table.xsum = 0

mp_init ==
    /\ pc[0] = "mp_init"
    /\ bootcpu' = 0 /\ i' = 0
    /\ ismp' = mpconfig /\ lapicaddr' = mpconfig
    /\ Goto(0, IF mpconfig THEN "mp_entry" ELSE "lapic_init")
    /\ UNCHANGED <<bootVars, table, ncpu, apVars, lapic, mpentry_kstack, lock,
                   created, base>>

BootIndex_late == ncpu + 1
BootIndex == ncpu       \* bootcpu = &cpus[ncpu], before the increment
HasRoom_off_by_one == ncpu <= NCPU
HasRoom == ncpu < NCPU

(* One entry of the table: a processor, something to skip, or a type that  *)
(* mp_init does not know and that ends the search.                         *)
mp_entry ==
    /\ pc[0] = "mp_entry" /\ i < Len(table.entries)
    /\ LET e == table.entries[i + 1]
       IN /\ bootcpu' = IF e = "bootproc" THEN BootIndex ELSE bootcpu
          /\ ncpu' = IF e \in {"proc", "bootproc"} /\ HasRoom THEN ncpu + 1 ELSE ncpu
          /\ ismp' = (ismp /\ e # "unknown")
          /\ i' = IF e = "unknown" THEN Len(table.entries) ELSE i + 1
    /\ UNCHANGED <<bootVars, table, lapicaddr, apVars, lapic, mpentry_kstack, lock,
                   created, pc, base>>

mp_init_end ==
    /\ pc[0] = "mp_entry" /\ i = Len(table.entries)
    /\ cpu_status' = [cpu_status EXCEPT ![bootcpu] = "STARTED"]
    /\ ncpu' = IF ismp THEN ncpu ELSE 1
    /\ lapicaddr' = ismp
    /\ Goto(0, "lapic_init")
    /\ UNCHANGED <<bootVars, table, i, ismp, bootcpu, ts_esp0, esp, lint0, lapic,
                   mpentry_kstack, lock, created, base>>

AfterLapic(c) == IF c = 0 THEN "lock" ELSE "percpu"

(* lapic_init, up to where mmio_map_region reads its static variable       *)
lapic_init(c) ==
    /\ pc[c] = "lapic_init"
    /\ base' = [base EXCEPT ![c] = mmio]
    /\ IF ~lapicaddr THEN Goto(c, AfterLapic(c)) /\ UNCHANGED bpc
       ELSE IF mmio + 1 > MMIOLIM THEN Panic /\ UNCHANGED pc
       ELSE Goto(c, "mmio_map") /\ UNCHANGED bpc
    /\ UNCHANGED <<npages, npages_basemem, nextfree, kern_pgdir, pages, envs, free, pde,
                   kmap, cr3, mmio, mpVars, apVars, lapic, mpentry_kstack, lock, created>>

LapicPage == 1044480            \* 0xFEE00000, where the BIOS puts the APICs

(* ... and the rest: the mapping, lapic, and the registers of this APIC;   *)
(* only the boot processor keeps LINT0.                                    *)
mmio_map_region(c) ==
    /\ pc[c] = "mmio_map"
    /\ boot_map_region(Region(base[c], 1, LapicPage, FALSE, TRUE))
    /\ mmio' = base[c] + 1
    /\ lapic' = base[c]
    /\ lint0' = [lint0 EXCEPT ![c] = @ /\ c = bootcpu]
    /\ Goto(c, AfterLapic(c))
    /\ UNCHANGED <<bpc, npages, npages_basemem, nextfree, kern_pgdir, pages, envs, cr3,
                   mpVars, cpu_status, ts_esp0, esp, mpentry_kstack, lock, created, base>>

(* i386_init takes the lock before it starts the others, mp_main when it   *)
(* is done.                                                                *)
Locked_not_by_bsp(c) == lock = NULL /\ lock' = (IF c = 0 THEN NULL ELSE c)
Locked(c) == lock = NULL /\ lock' = c
lock_kernel(c) ==
    /\ pc[c] = "lock" /\ Locked(c)
    /\ Goto(c, IF c = 0 THEN "boot_aps" ELSE "sched")
    /\ i' = IF c = 0 THEN 0 ELSE i
    /\ UNCHANGED <<bootVars, table, ismp, ncpu, bootcpu, lapicaddr, apVars, lapic,
                   mpentry_kstack, created, base>>

(* boot_aps: skip ourselves, or set the stack for cpus[i] and start it.    *)
boot_aps ==
    /\ pc[0] = "boot_aps"
    /\ IF i >= ncpu THEN Goto(0, "create") /\ UNCHANGED <<i, mpentry_kstack>>
       ELSE IF i = cpunum(0) THEN i' = i + 1 /\ UNCHANGED <<pc, mpentry_kstack>>
       ELSE mpentry_kstack' = i /\ Goto(0, "startap") /\ UNCHANGED i
    /\ UNCHANGED <<bootVars, table, ismp, ncpu, bootcpu, lapicaddr, apVars, lapic, lock,
                   created, base>>

(* The INIT and STARTUP interrupts set the processor going at mpentry.     *)
lapic_startap ==
    /\ pc[0] = "startap"
    /\ pc' = [pc EXCEPT ![0] = "wait", ![i] = "mpentry"]
    /\ UNCHANGED <<bootVars, mpVars, apVars, lapic, mpentry_kstack, lock, created, base>>

Waited_not == TRUE
Waited == cpu_status[i] = "STARTED"
wait_started ==
    /\ pc[0] = "wait" /\ Waited
    /\ i' = i + 1
    /\ Goto(0, "boot_aps")
    /\ UNCHANGED <<bootVars, table, ismp, ncpu, bootcpu, lapicaddr, apVars, lapic,
                   mpentry_kstack, lock, created, base>>

ENV_CREATE ==
    /\ pc[0] = "create"
    /\ created' = TRUE
    /\ Goto(0, "sched")
    /\ UNCHANGED <<bootVars, mpVars, apVars, lapic, mpentry_kstack, lock, base>>

(* mpentry.S: real mode to entry_pgdir, the stack, and into mp_main, which *)
(* loads kern_pgdir.                                                       *)
mpentry(c) ==
    /\ pc[c] = "mpentry"
    /\ esp' = [esp EXCEPT ![c] = mpentry_kstack]
    /\ Goto(c, "lapic_init")
    /\ UNCHANGED <<bootVars, mpVars, cpu_status, ts_esp0, lint0, lapic, mpentry_kstack,
                   lock, created, base>>

(* mp_main: env_init_percpu and trap_init_percpu, then tell boot_aps       *)
mp_main_percpu(c) ==
    /\ pc[c] = "percpu"
    /\ trap_init_percpu(c)
    /\ Goto(c, "started")
    /\ UNCHANGED <<bootVars, mpVars, cpu_status, esp, lint0, lapic, mpentry_kstack, lock,
                   created, base>>
mp_main_started(c) ==
    /\ pc[c] = "started"
    /\ cpu_status' = [cpu_status EXCEPT ![cpunum(c)] = "STARTED"]
    /\ Goto(c, "lock")
    /\ UNCHANGED <<bootVars, mpVars, ts_esp0, esp, lint0, lapic, mpentry_kstack, lock,
                   created, base>>

(* sched_yield, which ends with the lock released; module Kernel takes     *)
(* over from here.                                                         *)
sched_yield(c) ==
    /\ pc[c] = "sched"
    /\ lock' = NULL
    /\ Goto(c, "run")
    /\ UNCHANGED <<bootVars, mpVars, apVars, lapic, mpentry_kstack, created, base>>

CpuStep(c) ==
    \/ lapic_init(c) \/ mmio_map_region(c) \/ lock_kernel(c) \/ mpentry(c)
    \/ mp_main_percpu(c) \/ mp_main_started(c) \/ sched_yield(c)
BspStep ==
    \/ trap_init \/ mp_init \/ mp_entry \/ mp_init_end
    \/ boot_aps \/ lapic_startap \/ wait_started \/ ENV_CREATE

Init == BootInit /\ SmpInit
Next ==
    \/ BootNext /\ UNCHANGED smpVars
    \/ bpc = "done" /\ (BspStep \/ \E c \in Cpu : CpuStep(c))
Spec == Init /\ [][Next]_vars

(* Every processor executes, and the interrupts of boot_aps arrive.        *)
FairSpec ==
    /\ Spec
    /\ WF_vars(BootNext /\ UNCHANGED smpVars)
    /\ WF_vars(bpc = "done" /\ BspStep)
    /\ \A c \in Cpu : WF_vars(bpc = "done" /\ CpuStep(c))

-----------------------------------------------------------------------------
(* Properties *)

TypeOK ==
    /\ npages \in Nat /\ nextfree \in Nat /\ mmio \in MMIOBASE .. MMIOLIM
    /\ \A k \in DOMAIN free : free[k].lo \in Nat /\ (Left(k) => free[k].hi < npages)
    /\ bpc # "panic" => \A e \in pde : e[1] \in 0 .. PT - 1 /\ e[2] \in 0 .. npages
    /\ ncpu \in 0 .. NCPU /\ bootcpu \in Cpu /\ i \in Nat
    /\ lock \in Cpu \cup {NULL} /\ mpentry_kstack \in Cpu \cup {NULL}
    /\ ts_esp0 \in [Cpu -> Cpu \cup {NULL}] /\ esp \in [Cpu -> Cpu \cup {NULL}]
    /\ cpu_status \in [Cpu -> {"UNUSED", "STARTED"}]

(* init.c, mpentry.S: although boot_aps hands every processor its stack in *)
(* one shared variable, each one starts, and later traps, on its own.      *)
OwnStack ==
    \A c \in Cpu : /\ esp[c] \in {NULL, c}
                   /\ pc[c] \in {"lock", "sched", "run"} => esp[c] = c /\ ts_esp0[c] = c

(* lapic.c, pmap.c: every processor maps a page of its own for its APIC,   *)
(* above what check_page used, although mmio_map_region reads and writes   *)
(* its static variable and kern_pgdir without a lock.                      *)
MmioExclusive ==
    LET io == {k \in DOMAIN kmap : kmap[k].va \in MMIOBASE .. MMIOLIM - 1}
    IN /\ \A j, k \in io : j # k => kmap[j].va # kmap[k].va
       /\ \A k \in io : kmap[k].va < mmio
       /\ lapic # 0 => \E k \in io : kmap[k].va = lapic

(* init.c: i386_init holds the lock until it has created the environments. *)
(* A processor that entered the scheduler earlier would find nothing to    *)
(* run and stay in the monitor.                                            *)
NoEarlySched == \A c \in Cpu : pc[c] \in {"sched", "run"} => created

(* lapic.c: the interrupts of the 8259A go to the boot processor and to no *)
(* other that runs.                                                        *)
PicToBsp == \A c \in Cpu : pc[c] = "run" => (lint0[c] <=> c = 0)

(* The system comes up: every processor that was found reaches the         *)
(* scheduler, unless memory is too small and mem_init panics.              *)
AllRun == <>(bpc = "panic" \/ (pc[0] = "run" /\ \A c \in Cpu : c < ncpu => pc[c] = "run"))

(* Together: processors start one after the other and do not disturb each  *)
(* other, although they share variables before they take the lock.         *)
StartedApart == TypeOK /\ OwnStack /\ MmioExclusive /\ NoEarlySched /\ PicToBsp
=============================================================================
