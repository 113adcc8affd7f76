----------------------------- MODULE Smp_proofs -----------------------------
(***************************************************************************)
(* Proofs about module Smp, and with it about the whole start of the       *)
(* system: what mem_init leaves behind (from Boot_proofs) stays, and the   *)
(* processors start one after the other, for every table, every number of  *)
(* processors and every interleaving of their steps.                       *)
(***************************************************************************)
EXTENDS Smp, Boot_proofs

(* Where the boot processor is, in order; where another one is.            *)
Finding == {"mem_init", "mp_init", "mp_entry"}
Early == Finding \cup {"lapic_init", "mmio_map", "lock"}
Holding == {"boot_aps", "startap", "wait", "create", "sched"}
Coming == {"mpentry", "lapic_init", "mmio_map", "percpu", "started"}
Up == {"lock", "sched", "run"}
Other == Cpu \ {0}

SmpShape ==
    /\ table \in MpTables /\ i \in Nat /\ ncpu \in 0 .. NCPU /\ bootcpu = 0
    /\ ismp \in BOOLEAN /\ lapicaddr \in BOOLEAN /\ created \in BOOLEAN
    /\ lock \in Cpu \cup {NULL} /\ mpentry_kstack \in Cpu \cup {NULL}
    /\ cpu_status \in [Cpu -> {"UNUSED", "STARTED"}]
    /\ ts_esp0 \in [Cpu -> Cpu \cup {NULL}] /\ esp \in [Cpu -> Cpu \cup {NULL}]
    /\ base \in [Cpu -> Nat] /\ lint0 \in [Cpu -> BOOLEAN]
    /\ pc \in [Cpu -> {"off"} \cup Early \cup Holding \cup Coming \cup Up]
    /\ pc[0] \in Early \cup Holding \cup {"run"}

(* What mp_init found: no processor before the boot processor's entry, and *)
(* other processors only together with a local APIC.                       *)
Found ==
    /\ pc[0] \in {"mem_init", "mp_init"} => ncpu = 0 /\ ~lapicaddr
    /\ pc[0] = "mp_entry" =>
          /\ i <= Len(table.entries)
          /\ ncpu = 0 \/ \E j \in 1 .. i : table.entries[j] \in {"proc", "bootproc"}
    /\ pc[0] \notin Finding => (ncpu > 1 => lapicaddr)
    /\ pc[0] \notin Finding \cup {"lapic_init", "mmio_map"} => (lapicaddr => lapic # 0)

(* The order of boot_aps, with the lock held: those before i are up and    *)
(* wait for the lock, those behind it are off.                             *)
InOrder ==
    /\ pc[0] \in Early => lock = NULL /\ \A c \in Other : pc[c] = "off"
    /\ pc[0] \in Holding =>
          /\ lock = 0
          /\ \A c \in Other : (c < i => pc[c] = "lock") /\ (c > i => pc[c] = "off")
          /\ i \in Other => IF pc[0] = "wait" THEN pc[i] \in Coming \cup {"lock"}
                            ELSE pc[i] = "off"
    /\ pc[0] \in {"startap", "wait"} => i > 0 /\ i < ncpu /\ mpentry_kstack = i
    /\ pc[0] = "run" => \A c \in Other : pc[c] \in {"off"} \cup Up
    /\ pc[0] \in {"sched", "run"} => created

(* A processor's own state.                                                *)
Own(c) ==
    /\ pc[c] # "off" => lapic # 0 /\ lapicaddr
    /\ pc[c] \notin {"off", "mpentry"} => esp[c] = c
    /\ esp[c] \in {NULL, c}
    /\ pc[c] \in {"started"} \cup Up => ts_esp0[c] = c
    /\ cpu_status[c] = "STARTED" => pc[c] \in Up
    /\ ~lint0[c]
OwnBsp ==
    /\ esp[0] = 0 /\ lint0[0]
    /\ pc[0] # "mem_init" => ts_esp0[0] = 0

(* mmio_map_region is entered by one processor at a time: its copy of the  *)
(* static variable is current.                                             *)
MapsNext(c) == pc[c] = "mmio_map" => base[c] = mmio /\ mmio + 1 <= MMIOLIM /\ lapicaddr
LapicMapped ==
    /\ lapic # 0 => \E k \in DOMAIN kmap :
                       kmap[k].va = lapic /\ lapic \in MMIOBASE .. MMIOLIM - 1
    /\ pc[0] \in Finding => lapic = 0
    /\ pc[0] # "mem_init" => bpc \in {"done", "panic"}

SmpInv ==
    /\ SmpShape /\ Found /\ InOrder /\ OwnBsp /\ LapicMapped
    /\ \A c \in Other : Own(c)
    /\ \A c \in Cpu : MapsNext(c)

-----------------------------------------------------------------------------
(* The numbers of the processors.                                          *)
LEMMA Cpus ==
    /\ 0 \in Cpu /\ NULL \notin Cpu /\ Other \subseteq Cpu /\ 0 \notin Other
    /\ \A c \in Cpu : c \in Nat /\ c < NCPU /\ (c # 0 => c \in Other)
    /\ \A n \in Nat : n < NCPU => n \in Cpu
  BY ImageBounds, SMT DEF Cpu, Other, NULL

(* One lemma for each step of the start.  trap_init: the boot processor's  *)
(* stack.                                                                  *)
LEMMA trap_init_keeps ==
    ASSUME BootInv, SmpInv, bpc = "done", trap_init PROVE SmpInv'
<1> USE Cpus DEF trap_init, trap_init_percpu, cpunum, Goto, mpVars, apVars, bootVars, SmpInv, Finding, Early, Holding, Coming, Up
<1>1. SmpShape'
  BY DEF SmpShape
<1>2. Found'
  BY DEF SmpShape, Found, InOrder, Own
<1>3. InOrder'
  BY DEF SmpShape, Found, InOrder, Own
<1>4. OwnBsp'
  BY DEF SmpShape, OwnBsp, InOrder
<1>5. LapicMapped'
  BY DEF SmpShape, LapicMapped, InOrder
<1>6. ASSUME NEW d \in Other PROVE Own(d)'
  BY DEF SmpShape, InOrder, Own
<1>7. ASSUME NEW d \in Cpu PROVE MapsNext(d)'
  BY DEF SmpShape, InOrder, MapsNext
<1> QED BY <1>1, <1>2, <1>3, <1>4, <1>5, <1>6, <1>7

(* mp_init: a table, or one processor only.                                *)
LEMMA mp_init_keeps ==
    ASSUME BootInv, SmpInv, bpc = "done", mp_init PROVE SmpInv'
<1> USE Cpus DEF mp_init, Goto, mpVars, apVars, bootVars, SmpInv, Finding, Early, Holding, Coming, Up
<1>1. SmpShape'
  <2>1. mpconfig \in BOOLEAN BY DEF mpconfig
  <2> QED BY <2>1 DEF SmpShape
<1>2. Found'
  BY DEF SmpShape, Found, InOrder, Own
<1>3. InOrder'
  BY DEF SmpShape, Found, InOrder, Own
<1>4. OwnBsp'
  BY DEF SmpShape, OwnBsp, InOrder
<1>5. LapicMapped'
  BY DEF SmpShape, LapicMapped, InOrder
<1>6. ASSUME NEW d \in Other PROVE Own(d)'
  BY DEF SmpShape, InOrder, Own
<1>7. ASSUME NEW d \in Cpu PROVE MapsNext(d)'
  BY DEF SmpShape, InOrder, MapsNext
<1> QED BY <1>1, <1>2, <1>3, <1>4, <1>5, <1>6, <1>7

(* mp_init's loop: an entry of the table, a processor if there is room for *)
(* it.                                                                     *)
LEMMA mp_entry_keeps ==
    ASSUME BootInv, SmpInv, bpc = "done", mp_entry PROVE SmpInv'
<1> USE Cpus DEF mp_entry, BootIndex, HasRoom, mpVars, apVars, bootVars, SmpInv, Finding, Early, Holding, Coming, Up
<1>1. SmpShape'
  <2> DEFINE e == table.entries[i + 1]
  <2>1. /\ i \in Nat /\ i < Len(table.entries) /\ table.entries \in Seq(STRING)
        /\ ncpu \in Nat /\ ncpu <= NCPU /\ NCPU \in Nat
    BY SmpAssumption, ImageBounds DEF SmpShape
  <2>2. e = "bootproc" => ncpu = 0
    <3> SUFFICES ASSUME e = "bootproc", ncpu # 0 PROVE FALSE
      OBVIOUS
    <3>1. PICK j \in 1 .. i : table.entries[j] \in {"proc", "bootproc"}
      BY DEF Found
    <3>2. i + 1 \in DOMAIN table.entries BY <2>1
    <3>3. j \in 1 .. (i + 1) - 1 BY <2>1
    <3> QED BY <3>1, <3>2, <3>3, SmpAssumption DEF SmpShape
  <2>3. bootcpu' = 0 BY <2>2 DEF SmpShape
  <2>4. ncpu' \in 0 .. NCPU /\ i' \in Nat
    BY <2>1
  <2> QED BY <2>3, <2>4 DEF SmpShape
<1>2. Found'
  BY DEF SmpShape, Found, InOrder, Own
<1>3. InOrder'
  BY DEF SmpShape, Found, InOrder, Own
<1>4. OwnBsp'
  BY DEF SmpShape, OwnBsp, InOrder
<1>5. LapicMapped'
  BY DEF SmpShape, LapicMapped, InOrder
<1>6. ASSUME NEW d \in Other PROVE Own(d)'
  BY DEF SmpShape, InOrder, Own
<1>7. ASSUME NEW d \in Cpu PROVE MapsNext(d)'
  BY DEF SmpShape, InOrder, MapsNext
<1> QED BY <1>1, <1>2, <1>3, <1>4, <1>5, <1>6, <1>7

(* The end of mp_init.                                                     *)
LEMMA mp_init_end_keeps ==
    ASSUME BootInv, SmpInv, bpc = "done", mp_init_end PROVE SmpInv'
<1> USE Cpus DEF mp_init_end, Goto, mpVars, apVars, bootVars, SmpInv, Finding, Early, Holding, Coming, Up
<1>1. SmpShape'
  BY ImageBounds DEF SmpShape
<1>2. Found'
  BY DEF SmpShape, Found, InOrder, Own
<1>3. InOrder'
  BY DEF SmpShape, Found, InOrder, Own
<1>4. OwnBsp'
  BY DEF SmpShape, OwnBsp, InOrder
<1>5. LapicMapped'
  BY DEF SmpShape, LapicMapped, InOrder
<1>6. ASSUME NEW d \in Other PROVE Own(d)'
  BY DEF SmpShape, InOrder, Own
<1>7. ASSUME NEW d \in Cpu PROVE MapsNext(d)'
  BY DEF SmpShape, InOrder, MapsNext
<1> QED BY <1>1, <1>2, <1>3, <1>4, <1>5, <1>6, <1>7

(* boot_aps: the loop, and the stack it leaves in mpentry_kstack.          *)
LEMMA boot_aps_keeps ==
    ASSUME BootInv, SmpInv, bpc = "done", boot_aps PROVE SmpInv'
<1> USE Cpus DEF boot_aps, Goto, cpunum, mpVars, apVars, bootVars, SmpInv, Finding, Early, Holding, Coming, Up
<1>1. SmpShape'
  <2>1. i < ncpu => i \in Cpu BY ImageBounds DEF SmpShape
  <2> QED BY <2>1 DEF SmpShape
<1>2. Found'
  BY DEF SmpShape, Found, InOrder, Own
<1>3. InOrder'
  BY DEF SmpShape, Found, InOrder, Own
<1>4. OwnBsp'
  BY DEF SmpShape, OwnBsp, InOrder
<1>5. LapicMapped'
  BY DEF SmpShape, LapicMapped, InOrder
<1>6. ASSUME NEW d \in Other PROVE Own(d)'
  BY DEF SmpShape, InOrder, Own
<1>7. ASSUME NEW d \in Cpu PROVE MapsNext(d)'
  BY DEF SmpShape, InOrder, MapsNext
<1> QED BY <1>1, <1>2, <1>3, <1>4, <1>5, <1>6, <1>7

(* lapic_startap: the processor begins at mpentry.                         *)
LEMMA lapic_startap_keeps ==
    ASSUME BootInv, SmpInv, bpc = "done", lapic_startap PROVE SmpInv'
<1> USE Cpus DEF lapic_startap, mpVars, apVars, bootVars, SmpInv, Finding, Early, Holding, Coming, Up
<1>0. i \in Other /\ ncpu > 1 /\ lapicaddr /\ lapic # 0
  <2>1. i \in Nat /\ i > 0 /\ i < ncpu /\ ncpu \in Nat /\ ncpu <= NCPU
    BY ImageBounds DEF SmpShape, InOrder
  <2>2. i \in Cpu /\ ncpu > 1 BY <2>1, ImageBounds
  <2> QED BY <2>1, <2>2 DEF Found
<1>1. SmpShape'
  <2>1. /\ pc' \in [Cpu -> {"off"} \cup Early \cup Holding \cup Coming \cup Up]
        /\ pc'[0] = "wait"
    BY <1>0 DEF SmpShape
  <2> QED BY <2>1 DEF SmpShape
<1>2. Found'
  BY DEF SmpShape, Found, InOrder, Own
<1>3. InOrder'
  BY DEF SmpShape, Found, InOrder, Own
<1>4. OwnBsp'
  BY DEF SmpShape, OwnBsp, InOrder
<1>5. LapicMapped'
  BY DEF SmpShape, LapicMapped, InOrder
<1>6. ASSUME NEW d \in Other PROVE Own(d)'
  BY <1>0 DEF SmpShape, InOrder, Own
<1>7. ASSUME NEW d \in Cpu PROVE MapsNext(d)'
  BY DEF SmpShape, InOrder, MapsNext
<1> QED BY <1>1, <1>2, <1>3, <1>4, <1>5, <1>6, <1>7

(* boot_aps waits, so that mpentry_kstack is no longer needed.             *)
LEMMA wait_started_keeps ==
    ASSUME BootInv, SmpInv, bpc = "done", wait_started PROVE SmpInv'
<1> USE Cpus DEF wait_started, Waited, Goto, mpVars, apVars, bootVars, SmpInv, Finding, Early, Holding, Coming, Up
<1>1. SmpShape'
  BY DEF SmpShape
<1>2. Found'
  BY DEF SmpShape, Found, InOrder, Own
<1>3. InOrder'
  BY DEF SmpShape, Found, InOrder, Own
<1>4. OwnBsp'
  BY DEF SmpShape, OwnBsp, InOrder
<1>5. LapicMapped'
  BY DEF SmpShape, LapicMapped, InOrder
<1>6. ASSUME NEW d \in Other PROVE Own(d)'
  BY DEF SmpShape, InOrder, Own
<1>7. ASSUME NEW d \in Cpu PROVE MapsNext(d)'
  BY DEF SmpShape, InOrder, MapsNext
<1> QED BY <1>1, <1>2, <1>3, <1>4, <1>5, <1>6, <1>7

(* ENV_CREATE, before the boot processor schedules.                        *)
LEMMA ENV_CREATE_keeps ==
    ASSUME BootInv, SmpInv, bpc = "done", ENV_CREATE PROVE SmpInv'
<1> USE Cpus DEF ENV_CREATE, Goto, mpVars, apVars, bootVars, SmpInv, Finding, Early, Holding, Coming, Up
<1>1. SmpShape'
  BY DEF SmpShape
<1>2. Found'
  BY DEF SmpShape, Found, InOrder, Own
<1>3. InOrder'
  BY DEF SmpShape, Found, InOrder, Own
<1>4. OwnBsp'
  BY DEF SmpShape, OwnBsp, InOrder
<1>5. LapicMapped'
  BY DEF SmpShape, LapicMapped, InOrder
<1>6. ASSUME NEW d \in Other PROVE Own(d)'
  BY DEF SmpShape, InOrder, Own
<1>7. ASSUME NEW d \in Cpu PROVE MapsNext(d)'
  BY DEF SmpShape, InOrder, MapsNext
<1> QED BY <1>1, <1>2, <1>3, <1>4, <1>5, <1>6, <1>7

(* lapic_init: mmio_map_region reads base.                                 *)
LEMMA lapic_init_keeps ==
    ASSUME BootInv, SmpInv, bpc = "done", NEW c \in Cpu, lapic_init(c) PROVE SmpInv'
<1> USE Cpus DEF lapic_init, Goto, AfterLapic, mpVars, apVars, bootVars, SmpInv, Finding, Early, Holding, Coming, Up
<1>0. mmio \in Nat /\ MMIOLIM \in Nat
  BY Numbers, SMT DEF BootInv, BootShape
<1>1. SmpShape'
  BY <1>0 DEF SmpShape
<1>2. Found'
  BY DEF SmpShape, Found, InOrder, Own
<1>3. InOrder'
  BY DEF SmpShape, Found, InOrder, Own
<1>4. OwnBsp'
  BY DEF SmpShape, OwnBsp, InOrder
<1>5. LapicMapped'
  BY DEF SmpShape, LapicMapped, InOrder, Panic
<1>6. ASSUME NEW d \in Other PROVE Own(d)'
  BY DEF SmpShape, InOrder, Own
<1>7. ASSUME NEW d \in Cpu PROVE MapsNext(d)'
  <2>1. pc'[d] = "mmio_map" => IF d = c THEN lapicaddr /\ ~(mmio + 1 > MMIOLIM)
                               ELSE pc[d] = "mmio_map"
    BY DEF SmpShape
  <2>2. base'[c] = mmio /\ (d # c => base'[d] = base[d]) BY DEF SmpShape
  <2>3. MapsNext(d) OBVIOUS
  <2>4. UNCHANGED <<mmio, lapicaddr, MMIOLIM>> OBVIOUS
  <2>5. ~(mmio + 1 > MMIOLIM) => mmio + 1 <= MMIOLIM BY <1>0
  <2>6. CASE d = c
    BY <2>1, <2>2, <2>4, <2>5, <2>6 DEF MapsNext
  <2>7. CASE d # c
    BY <2>1, <2>2, <2>3, <2>4, <2>7 DEF MapsNext
  <2> QED BY <2>6, <2>7
<1> QED BY <1>1, <1>2, <1>3, <1>4, <1>5, <1>6, <1>7

(* mmio_map_region: no other processor is between reading base and using   *)
(* it.                                                                     *)
LEMMA mmio_map_region_keeps ==
    ASSUME BootInv, SmpInv, bpc = "done", NEW c \in Cpu, mmio_map_region(c) PROVE SmpInv'
<1> USE Cpus DEF mmio_map_region, Goto, AfterLapic, mpVars, apVars, bootVars, SmpInv, Finding, Early, Holding, Coming, Up
<1>0. /\ base[c] = mmio /\ mmio + 1 <= MMIOLIM /\ mmio \in MMIOBASE .. MMIOLIM - 1 /\ mmio # 0
      /\ lapic' = mmio /\ mmio' = mmio + 1
  <2>1. base[c] = mmio /\ mmio + 1 <= MMIOLIM BY DEF MapsNext
  <2>2. mmio \in MMIOBASE .. MMIOLIM BY DEF BootInv, BootShape
  <2>3. mmio \in MMIOBASE .. MMIOLIM - 1 /\ mmio # 0 BY ONLY <2>1, <2>2, Numbers, SMT
  <2> QED BY <2>1, <2>3
<1>a. pc[0] = "mmio_map" \/ (pc[0] = "wait" /\ c \in Other /\ c = i /\ lapicaddr)
  <2>1. c # 0 => c \in Other /\ c \in Nat /\ i \in Nat BY DEF SmpShape
  <2> QED BY <2>1 DEF SmpShape, InOrder, Own
<1>1. SmpShape'
  BY DEF SmpShape
<1>2. Found'
  BY <1>0, <1>a DEF SmpShape, Found
<1>3. InOrder'
  BY DEF SmpShape, Found, InOrder, Own
<1>4. OwnBsp'
  BY DEF SmpShape, OwnBsp, InOrder
<1>5. LapicMapped'
  <2>1. LapicPage \in Nat BY SMT DEF LapicPage
  <2>2. /\ Len(kmap') = Len(kmap) + 1 /\ kmap'[Len(kmap) + 1].va = mmio
        /\ kmap' \in Seq(RegionSet) /\ Len(kmap) \in Nat
    <3>1. kmap \in Seq(RegionSet) BY DEF BootInv, BootShape
    <3>2. boot_map_region(Region(mmio, 1, LapicPage, FALSE, TRUE)) BY <1>0
    <3>3. UNCHANGED <<bpc, npages, npages_basemem, nextfree, kern_pgdir, pages, envs, cr3>>
      OBVIOUS
    <3>4. /\ Len(kmap') = Len(kmap) + 1 /\ kmap'[Len(kmap) + 1].va = mmio
          /\ kmap' \in Seq(RegionSet)
      BY ONLY <1>0, <2>1, <3>2, <3>3, BootInv, bpc = "done", IoStep
    <3> QED BY <3>1, <3>4
  <2>3. Len(kmap) + 1 \in DOMAIN kmap' BY <2>2
  <2>4. \E k \in DOMAIN kmap' : kmap'[k].va = lapic' /\ lapic' \in MMIOBASE .. MMIOLIM - 1
    BY <1>0, <2>2, <2>3, Zenon
  <2>5. pc'[0] \notin Finding /\ bpc' = "done" BY <1>a DEF SmpShape
  <2> QED BY <2>4, <2>5 DEF LapicMapped
<1>6. ASSUME NEW d \in Other PROVE Own(d)'
  BY <1>0, <1>a DEF SmpShape, InOrder, Own
<1>7. ASSUME NEW d \in Cpu PROVE MapsNext(d)'
  BY DEF SmpShape, InOrder, MapsNext
<1> QED BY <1>1, <1>2, <1>3, <1>4, <1>5, <1>6, <1>7

(* lock_kernel: by the boot processor before it starts others, by these    *)
(* before they schedule.                                                   *)
LEMMA lock_kernel_keeps ==
    ASSUME BootInv, SmpInv, bpc = "done", NEW c \in Cpu, lock_kernel(c) PROVE SmpInv'
<1> USE Cpus DEF lock_kernel, Locked, Goto, mpVars, apVars, bootVars, SmpInv, Finding, Early, Holding, Coming, Up
<1>1. SmpShape'
  BY DEF SmpShape
<1>2. Found'
  BY DEF SmpShape, Found, InOrder, Own
<1>3. InOrder'
  BY DEF SmpShape, Found, InOrder, Own
<1>4. OwnBsp'
  BY DEF SmpShape, OwnBsp, InOrder
<1>5. LapicMapped'
  BY DEF SmpShape, LapicMapped, InOrder
<1>6. ASSUME NEW d \in Other PROVE Own(d)'
  BY DEF SmpShape, InOrder, Own
<1>7. ASSUME NEW d \in Cpu PROVE MapsNext(d)'
  BY DEF SmpShape, InOrder, MapsNext
<1> QED BY <1>1, <1>2, <1>3, <1>4, <1>5, <1>6, <1>7

(* mpentry: the stack is the one that boot_aps chose for this processor.   *)
LEMMA mpentry_keeps ==
    ASSUME BootInv, SmpInv, bpc = "done", NEW c \in Cpu, mpentry(c) PROVE SmpInv'
<1> USE Cpus DEF mpentry, Goto, mpVars, apVars, bootVars, SmpInv, Finding, Early, Holding, Coming, Up
<1>1. SmpShape'
  BY DEF SmpShape
<1>2. Found'
  BY DEF SmpShape, Found, InOrder, Own
<1>3. InOrder'
  BY DEF SmpShape, Found, InOrder, Own
<1>4. OwnBsp'
  BY DEF SmpShape, OwnBsp, InOrder
<1>5. LapicMapped'
  BY DEF SmpShape, LapicMapped, InOrder
<1>6. ASSUME NEW d \in Other PROVE Own(d)'
  BY DEF SmpShape, InOrder, Own
<1>7. ASSUME NEW d \in Cpu PROVE MapsNext(d)'
  BY DEF SmpShape, InOrder, MapsNext
<1> QED BY <1>1, <1>2, <1>3, <1>4, <1>5, <1>6, <1>7

(* mp_main: env_init_percpu and trap_init_percpu.                          *)
LEMMA mp_main_percpu_keeps ==
    ASSUME BootInv, SmpInv, bpc = "done", NEW c \in Cpu, mp_main_percpu(c) PROVE SmpInv'
<1> USE Cpus DEF mp_main_percpu, trap_init_percpu, cpunum, Goto, mpVars, apVars, bootVars, SmpInv, Finding, Early, Holding, Coming, Up
<1>1. SmpShape'
  BY DEF SmpShape
<1>2. Found'
  BY DEF SmpShape, Found, InOrder, Own
<1>3. InOrder'
  BY DEF SmpShape, Found, InOrder, Own
<1>4. OwnBsp'
  BY DEF SmpShape, OwnBsp, InOrder
<1>5. LapicMapped'
  BY DEF SmpShape, LapicMapped, InOrder
<1>6. ASSUME NEW d \in Other PROVE Own(d)'
  BY DEF SmpShape, InOrder, Own
<1>7. ASSUME NEW d \in Cpu PROVE MapsNext(d)'
  BY DEF SmpShape, InOrder, MapsNext
<1> QED BY <1>1, <1>2, <1>3, <1>4, <1>5, <1>6, <1>7

(* mp_main: xchg of cpu_status.                                            *)
LEMMA mp_main_started_keeps ==
    ASSUME BootInv, SmpInv, bpc = "done", NEW c \in Cpu, mp_main_started(c) PROVE SmpInv'
<1> USE Cpus DEF mp_main_started, cpunum, Goto, mpVars, apVars, bootVars, SmpInv, Finding, Early, Holding, Coming, Up
<1>1. SmpShape'
  BY DEF SmpShape
<1>2. Found'
  BY DEF SmpShape, Found, InOrder, Own
<1>3. InOrder'
  BY DEF SmpShape, Found, InOrder, Own
<1>4. OwnBsp'
  BY DEF SmpShape, OwnBsp, InOrder
<1>5. LapicMapped'
  BY DEF SmpShape, LapicMapped, InOrder
<1>6. ASSUME NEW d \in Other PROVE Own(d)'
  BY DEF SmpShape, InOrder, Own
<1>7. ASSUME NEW d \in Cpu PROVE MapsNext(d)'
  BY DEF SmpShape, InOrder, MapsNext
<1> QED BY <1>1, <1>2, <1>3, <1>4, <1>5, <1>6, <1>7

(* sched_yield: this processor is up.                                      *)
LEMMA sched_yield_keeps ==
    ASSUME BootInv, SmpInv, bpc = "done", NEW c \in Cpu, sched_yield(c) PROVE SmpInv'
<1> USE Cpus DEF sched_yield, Goto, mpVars, apVars, bootVars, SmpInv, Finding, Early, Holding, Coming, Up
<1>1. SmpShape'
  BY DEF SmpShape
<1>2. Found'
  BY DEF SmpShape, Found, InOrder, Own
<1>3. InOrder'
  <2>0. i \in Nat /\ \A d \in Other : d \in Nat /\ d \in Cpu /\ d # 0
    BY DEF SmpShape
  <2>1. CASE c = 0
    <3>1. pc'[0] = "run" /\ \A d \in Other : pc'[d] = pc[d] BY <2>0, <2>1 DEF SmpShape
    <3>2. ASSUME NEW d \in Other PROVE pc[d] \in {"off", "lock"}
      <4>1. d < i \/ d > i \/ d = i BY <2>0
      <4> QED BY <2>1, <4>1 DEF InOrder
    <3> QED BY <2>1, <3>1, <3>2 DEF InOrder
  <2>2. CASE c # 0
    <3>1. c \in Other /\ (c < i \/ c > i \/ c = i) BY <2>0, <2>2
    <3>2. pc[0] = "run" BY <3>1 DEF InOrder, SmpShape
    <3> QED BY <2>0, <2>2, <3>2 DEF SmpShape, InOrder
  <2> QED BY <2>1, <2>2
<1>4. OwnBsp'
  BY DEF SmpShape, OwnBsp, InOrder
<1>5. LapicMapped'
  BY DEF SmpShape, LapicMapped, InOrder
<1>6. ASSUME NEW d \in Other PROVE Own(d)'
  BY DEF SmpShape, InOrder, Own
<1>7. ASSUME NEW d \in Cpu PROVE MapsNext(d)'
  BY DEF SmpShape, InOrder, MapsNext
<1> QED BY <1>1, <1>2, <1>3, <1>4, <1>5, <1>6, <1>7

-----------------------------------------------------------------------------
(* What is found and mapped is there for all that follows: mem_init runs   *)
(* alone, before anything of Smp, and afterwards only mmio_map_region      *)
(* changes what it left.                                                   *)
LEMMA BootAlone == ASSUME BootNext PROVE bpc \notin {"done", "panic"}
  BY DEF BootNext, i386_detect_memory, alloc_kern_pgdir, alloc_pages, alloc_envs, Allocate,
         page_init, check_page_free_list, check_page, map_kernel, install_kern_pgdir

(* While mem_init runs, the start of the others has not begun.             *)
LEMMA SmpBootStep ==
    ASSUME SmpInv, BootNext, UNCHANGED smpVars PROVE SmpInv'
<1> USE Cpus DEF SmpInv, smpVars, mpVars, apVars
<1>1. pc[0] = "mem_init" BY BootAlone DEF LapicMapped
<1>2. SmpShape' BY DEF SmpShape, Early, Finding, Holding, Coming, Up
<1>3. Found' /\ InOrder' /\ OwnBsp' BY DEF Found, InOrder, OwnBsp
<1>4. LapicMapped' BY <1>1 DEF LapicMapped, Finding
<1>5. ASSUME NEW d \in Other PROVE Own(d)' BY DEF Own
<1>6. ASSUME NEW d \in Cpu PROVE MapsNext(d)'
  BY <1>1 DEF MapsNext, InOrder, Early, Finding
<1> QED BY <1>2, <1>3, <1>4, <1>5, <1>6

(* Nothing changes.                                                        *)
LEMMA SmpIdle == ASSUME SmpInv, UNCHANGED vars PROVE SmpInv'
<1> USE DEF SmpInv, vars, smpVars, mpVars, apVars, bootVars
<1>1. SmpShape' BY DEF SmpShape, Early, Finding, Holding, Coming, Up
<1>2. Found' /\ InOrder' /\ OwnBsp' BY DEF Found, InOrder, OwnBsp
<1>3. LapicMapped' BY DEF LapicMapped
<1>4. ASSUME NEW d \in Other PROVE Own(d)' BY DEF Own
<1>5. ASSUME NEW d \in Cpu PROVE MapsNext(d)' BY DEF MapsNext
<1> QED BY <1>1, <1>2, <1>3, <1>4, <1>5

(* Every step of the start keeps the invariant.                            *)
LEMMA SmpSteps ==
    ASSUME BootInv, SmpInv, bpc = "done", BspStep \/ \E c \in Cpu : CpuStep(c)
    PROVE  SmpInv'
<1>1. CASE BspStep
  BY <1>1, trap_init_keeps, mp_init_keeps, mp_entry_keeps, mp_init_end_keeps, boot_aps_keeps,
     lapic_startap_keeps, wait_started_keeps, ENV_CREATE_keeps DEF BspStep
<1>2. ASSUME NEW c \in Cpu, CpuStep(c) PROVE SmpInv'
  BY <1>2, lapic_init_keeps, mmio_map_region_keeps, lock_kernel_keeps, mpentry_keeps,
     mp_main_percpu_keeps, mp_main_started_keeps, sched_yield_keeps DEF CpuStep
<1> QED BY <1>1, <1>2

(* ... and how these steps leave what mem_init found.                      *)
LEMMA BootKept ==
    ASSUME BootInv, SmpInv, bpc = "done", BspStep \/ \E c \in Cpu : CpuStep(c)
    PROVE  /\ BootInv' /\ bpc' \in {"done", "panic"}
           /\ UNCHANGED <<npages, npages_basemem, cr3>>
<1>1. CASE UNCHANGED bootVars
  BY <1>1, BootIdle DEF bootVars
<1>2. ASSUME NEW c \in Cpu, lapic_init(c), ~UNCHANGED bootVars
      PROVE  /\ BootInv' /\ bpc' \in {"done", "panic"}
             /\ UNCHANGED <<npages, npages_basemem, cr3>>
  <2>1. Panic /\ UNCHANGED <<npages, npages_basemem, nextfree, kern_pgdir, pages, envs, free,
                             pde, kmap, cr3, mmio>>
    BY <1>2 DEF lapic_init, bootVars
  <2> QED BY <2>1, PanicStep DEF Panic
<1>3. ASSUME NEW c \in Cpu, mmio_map_region(c)
      PROVE  /\ BootInv' /\ bpc' \in {"done", "panic"}
             /\ UNCHANGED <<npages, npages_basemem, cr3>>
  <2>1. base[c] = mmio /\ mmio + 1 <= MMIOLIM
    BY <1>3 DEF SmpInv, MapsNext, mmio_map_region
  <2>2. boot_map_region(Region(mmio, 1, LapicPage, FALSE, TRUE)) /\ mmio' = mmio + 1
    BY <1>3, <2>1 DEF mmio_map_region
  <2>3. UNCHANGED <<bpc, npages, npages_basemem, nextfree, kern_pgdir, pages, envs, cr3>>
    BY <1>3 DEF mmio_map_region
  <2>4. LapicPage \in Nat BY SMT DEF LapicPage
  <2>5. BootInv'
    BY ONLY <2>1, <2>2, <2>3, <2>4, BootInv, bpc = "done", IoStep
  <2> QED BY <2>3, <2>5
<1>4. UNCHANGED bootVars \/ \E c \in Cpu : lapic_init(c) \/ mmio_map_region(c)
  BY DEF BspStep, CpuStep, trap_init, mp_init, mp_entry, mp_init_end, boot_aps, lapic_startap,
         wait_started, ENV_CREATE, lock_kernel, mpentry, mp_main_percpu, mp_main_started,
         sched_yield
<1> QED BY <1>1, <1>2, <1>3, <1>4

(* The invariant of the start holds at power-on.                           *)
LEMMA SmpInitInv == Init => SmpInv
<1> SUFFICES ASSUME Init PROVE SmpInv
  OBVIOUS
<1> USE Cpus DEF Init, SmpInit
<1>1. SmpShape
  <2>1. /\ cpu_status \in [Cpu -> {"UNUSED", "STARTED"}]
        /\ ts_esp0 \in [Cpu -> Cpu \cup {NULL}] /\ esp \in [Cpu -> Cpu \cup {NULL}]
        /\ base \in [Cpu -> Nat] /\ lint0 \in [Cpu -> BOOLEAN]
    OBVIOUS
  <2>2. /\ pc \in [Cpu -> {"off"} \cup Early \cup Holding \cup Coming \cup Up]
        /\ pc[0] \in Early \cup Holding \cup {"run"}
    BY DEF Early, Finding
  <2>3. ncpu \in 0 .. NCPU /\ i \in Nat BY ImageBounds
  <2> QED BY <2>1, <2>2, <2>3 DEF SmpShape
<1>2. pc[0] = "mem_init" /\ \A c \in Other : pc[c] = "off" OBVIOUS
<1>3. Found /\ InOrder BY <1>2 DEF Found, InOrder, Early, Finding, Holding
<1>4. OwnBsp /\ LapicMapped BY <1>2 DEF OwnBsp, LapicMapped
<1>5. ASSUME NEW d \in Other PROVE Own(d) BY <1>2 DEF Own, Up
<1>6. ASSUME NEW d \in Cpu PROVE MapsNext(d) BY <1>2 DEF MapsNext
<1> QED BY <1>1, <1>3, <1>4, <1>5, <1>6 DEF SmpInv

StartInv == BootInv /\ FromMachine /\ SmpInv

(* The inductive invariant of the whole start.                             *)
THEOREM StartInvKept == Spec => []StartInv
<1>1. Init => StartInv
  BY SmpInitInv, BootInitInv, FromMachineStep DEF Init, StartInv
<1>2. StartInv /\ [Next]_vars => StartInv'
  <2> SUFFICES ASSUME StartInv, [Next]_vars PROVE StartInv'
    OBVIOUS
  <2>1. CASE BootNext /\ UNCHANGED smpVars
    BY <2>1, BootStep, FromMachineStep, SmpBootStep DEF StartInv
  <2>2. CASE bpc = "done" /\ (BspStep \/ \E c \in Cpu : CpuStep(c))
    <3>1. SmpInv' BY <2>2, SmpSteps DEF StartInv
    <3>2. BootInv' /\ bpc' \in {"done", "panic"} /\ UNCHANGED <<npages, npages_basemem, cr3>>
      BY <2>2, BootKept DEF StartInv
    <3>3. FromMachine' BY <2>2, <3>2 DEF FromMachine, StartInv
    <3> QED BY <3>1, <3>2, <3>3 DEF StartInv
  <2>3. CASE UNCHANGED vars
    <3>1. SmpInv' BY <2>3, SmpIdle DEF StartInv
    <3>2. UNCHANGED bootVars BY <2>3 DEF vars
    <3>3. BootInv' BY <3>2, BootIdle DEF StartInv
    <3>4. FromMachine' BY <3>2 DEF FromMachine, StartInv, bootVars
    <3> QED BY <3>1, <3>3, <3>4 DEF StartInv
  <2> QED BY <2>1, <2>2, <2>3 DEF Next
<1> QED BY <1>1, <1>2, PTL DEF Spec

-----------------------------------------------------------------------------
(* How much memory there can be, and what follows for the page tables.     *)
NvramPages == 1052672

(* Two words of NVRAM cannot report more.                                  *)
LEMMA MemoryBound == FromMachine => npages \in Nat /\ npages <= NvramPages
<1> SUFFICES ASSUME FromMachine, bpc # "detect" PROVE npages \in Nat /\ npages <= NvramPages
  BY SMT DEF FromMachine, NvramPages
<1>1. PICK m \in Machine : npages = totalmem(m) \div 4
  BY DEF FromMachine
<1>2. /\ m.base \in Nat /\ m.base <= 640 /\ m.ext \in Nat /\ m.ext16 \in Nat
      /\ m.ext < 65536 /\ m.ext16 < 65536
  BY BootAssumption, NvramAssumption, SMT
<1>3. totalmem(m) \in Nat /\ totalmem(m) <= 4 * NvramPages
  BY ONLY <1>2, SMT DEF totalmem, NvramPages
<1> QED BY ONLY <1>1, <1>3, SMT DEF NvramPages

(* No region lies past the last entry of a page directory.                 *)
LEMMA RegionsBelow ==
    ASSUME BootShape, LaidOut, npages <= NvramPages, NEW k \in 1..NRegions
    PROVE  PDX(Regions[k].va) \in 0 .. PT - 1
<1>1. k \in 1..4 \/ (\E j \in 1..NCPU : k = 4 + j) \/ (\E j \in 1..64 : k = 4 + NCPU + j)
  <2>1. k \in 1..4 \/ k - 4 \in 1..NCPU \/ k - 4 - NCPU \in 1..64
    BY ImageBounds, SMT DEF NRegions
  <2> QED BY <2>1, ImageBounds, SMT DEF NRegions
<1>2. ASSUME NEW va \in Nat, va < 1048576 PROVE PDX(va) \in 0 .. PT - 1
  BY <1>2, Numbers, SMT DEF PDX
<1>3. CASE k \in 1..4
  <2>0. k = 1 \/ k = 2 \/ k = 3 \/ k = 4 BY <1>3, SMT
  <2>1. Regions[k].va \in {UPAGES, KERNBASE + pages, UENVS, KSTACKTOP - KSTKSIZE}
    <3>1. /\ Regions[1] = UserRegion(UPAGES, ROUNDUP(PagesSize), pages)
          /\ Regions[2] = Region(KERNBASE + pages, ROUNDUP(PagesSize), pages, FALSE, TRUE)
          /\ Regions[3] = UserRegion(UENVS, ROUNDUP(EnvsSize), envs)
          /\ Regions[4] = Region(KSTACKTOP - KSTKSIZE, KSTKSIZE, BootStack, FALSE, TRUE)
      BY RegionsAre, Zenon
    <3> QED BY ONLY <2>0, <3>1 DEF UserRegion, Region
  <2>2. pages \in Nat /\ pages <= 4096
    <3>1. npages \in Nat /\ npages * SizeofPointer = npages * 4 BY Numbers, SMT DEF BootShape
    <3>2. PICK x \in Nat : x = ROUNDUP(npages * SizeofPointer) /\ (x - 1) * 4096 < npages * 4
      BY <3>1, Sizes, SMT
    <3>3. npages <= 1052672 BY SMT DEF NvramPages
    <3>4. x <= 1028 BY ONLY <3>1, <3>2, <3>3, SMT
    <3>5. pages = End + 1 + x BY <3>2 DEF LaidOut, PagesAt
    <3> QED BY ONLY <3>4, <3>5, x \in Nat, ImageBounds, SMT
  <2>3. PICK va : va = Regions[k].va OBVIOUS
  <2>4. va \in Nat /\ va < 1048576
    <3>1. va = UPAGES \/ va = KERNBASE + pages \/ va = UENVS \/ va = KSTACKTOP - KSTKSIZE
      BY ONLY <2>1, <2>3
    <3> QED BY ONLY <3>1, <2>2, Numbers, SMT
  <2> QED BY <1>2, <2>3, <2>4, SMT
<1>4. ASSUME NEW j \in 1..NCPU, k = 4 + j PROVE PDX(Regions[k].va) \in 0 .. PT - 1
  <2>0. Regions[k] = StackRegion(j) BY <1>4, RegionsAre
  <2>1. Regions[k].va = kstacktop(j-1) - KSTKSIZE BY <2>0 DEF StackRegion, Region
  <2>2. kstacktop(j-1) - KSTKSIZE \in Nat /\ kstacktop(j-1) - KSTKSIZE < 1048576
    BY ImageBounds, Numbers, SMT DEF kstacktop
  <2> QED BY <1>2, <2>1, <2>2, SMT
<1>5. ASSUME NEW j \in 1..64, k = 4 + NCPU + j PROVE PDX(Regions[k].va) \in 0 .. PT - 1
  <2>0. Regions[k] = RamRegion(j) BY <1>5, RegionsAre
  <2>1. Regions[k].va = KERNBASE + (j-1) * PT BY <2>0 DEF RamRegion, Region
  <2>2. KERNBASE + (j-1) * PT \in Nat /\ KERNBASE + (j-1) * PT < 1048576 BY Numbers, SMT
  <2> QED BY <1>2, <2>1, <2>2, SMT
<1> QED BY <1>1, <1>3, <1>4, <1>5

(* Entries of kern_pgdir name directory slots and pages that exist.        *)
LEMMA TablesTyped ==
    ASSUME BootInv, npages <= NvramPages, bpc # "panic", NEW e \in pde
    PROVE  e[1] \in 0 .. PT - 1 /\ e[2] \in 0 .. npages
<1>0. npages \in Nat /\ e[1] \in Nat /\ e[2] \in Int /\ bpc \notin {"detect", "pgdir"}
  BY DEF BootInv, BootShape, Layout
<1>1. e[1] \in 0 .. PT - 1
  <2>1. PDX(UVPT) \in 0 .. PT - 1 /\ PDX(MMIOBASE) \in 0 .. PT - 1
    BY Numbers, SMT DEF PDX
  <2>2. CASE bpc \in {"pages", "envs", "page_init"} \cup Listing
    <3>1. e = <<PDX(UVPT), kern_pgdir>> BY <2>2 DEF BootInv, Layout
    <3> QED BY <2>1, <3>1
  <2>3. CASE bpc \in Mapping \cup {"done"}
    <3>1. e[1] \in {PDX(UVPT), PDX(MMIOBASE)} \cup {PDX(kmap[k].va) : k \in DOMAIN kmap}
      BY <2>3 DEF BootInv, PageTablesKnown, Index
    <3>2. ASSUME NEW k \in DOMAIN kmap PROVE PDX(kmap[k].va) \in 0 .. PT - 1
      <4>0. k \in Nat /\ k >= 1 /\ NRegions \in Nat
        BY ImageBounds DEF BootInv, BootShape
      <4>1. CASE k <= NRegions
        <5>1. kmap[k] = Regions[k] /\ k \in 1..NRegions
          BY <4>0, <4>1 DEF BootInv, Mapped, KernelRegions
        <5>2. LaidOut BY DEF BootInv, Mapped, KernelRegions
        <5> QED BY <5>1, <5>2, RegionsBelow DEF BootInv
      <4>2. CASE k > NRegions
        <5>1. kmap[k].va \in MMIOBASE .. mmio - 1 /\ mmio \in MMIOBASE .. MMIOLIM
          BY <4>2 DEF BootInv, BootShape, Mapped, IoRegions
        <5> QED BY ONLY <5>1, Numbers, SMT DEF PDX
      <4> QED BY <4>0, <4>1, <4>2
    <3> QED BY <2>1, <3>1, <3>2
  <2> QED BY <1>0, <2>2, <2>3 DEF BootInv, BootShape, Allocating
<1>2. e[2] \in 0 .. npages
  <2>1. CASE bpc \in {"pages", "envs"}
    <3>1. e = <<PDX(UVPT), kern_pgdir>> BY <2>1 DEF BootInv, Layout
    <3>2. kern_pgdir = End + 1 /\ nextfree <= npages /\ nextfree \in Nat
          /\ (bpc = "pages" => nextfree = End + 1) /\ (bpc = "envs" => nextfree = PagesAt)
      BY <2>1 DEF BootInv, BootShape, Layout
    <3>3. PICK x \in Nat : x = ROUNDUP(npages * SizeofPointer)
      <4>1. npages * SizeofPointer \in Nat BY <1>0, Numbers, SMT
      <4> QED BY <4>1, RoundNat
    <3>4. PagesAt = End + 1 + x BY <3>3 DEF PagesAt
    <3> QED BY <1>0, <2>1, <3>1, <3>2, <3>4, ImageBounds
  <2>2. CASE bpc \notin {"pages", "envs"}
    <3>0. bpc \notin Allocating \cup {"panic"} BY <1>0, <2>2 DEF Allocating
    <3>1. LaidOut /\ (e = <<PDX(UVPT), kern_pgdir>> \/ Spare(e[2], e[2]))
      BY <3>0 DEF BootInv, Layout, FreeSpare
    <3>2. PICK x \in Nat : x = ROUNDUP(npages * SizeofPointer)
      <4>1. npages * SizeofPointer \in Nat BY <1>0, Numbers, SMT
      <4> QED BY <4>1, RoundNat
    <3>3. kern_pgdir = End + 1 /\ nextfree = End + 1 + x + 31 /\ nextfree <= npages
      BY <3>1, <3>2 DEF LaidOut, PagesAt
    <3>4. CASE e = <<PDX(UVPT), kern_pgdir>>
      BY <1>0, <3>3, <3>4, ImageBounds
    <3>5. CASE Spare(e[2], e[2])
      <4>1. \/ e[2] >= 1 /\ e[2] < 7
            \/ e[2] > 7 /\ e[2] < 160
            \/ e[2] >= 256 + nextfree /\ e[2] < npages
        BY <3>5, Numbers, SMT DEF Spare, FirstFree
      <4> QED BY ONLY <1>0, <3>3, <4>1, x \in Nat, ImageBounds, SMT
    <3> QED BY <3>1, <3>4, <3>5
  <2> QED BY <2>1, <2>2
<1> QED BY <1>1, <1>2

(* The types follow from the invariant.                                    *)
LEMMA TypesOK == ASSUME StartInv PROVE TypeOK
<1>1. /\ npages \in Nat /\ nextfree \in Nat /\ mmio \in MMIOBASE .. MMIOLIM
  BY DEF StartInv, BootInv, BootShape
<1>2. \A k \in DOMAIN free : free[k].lo \in Nat /\ (Left(k) => free[k].hi < npages)
  <2> TAKE k \in DOMAIN free
  <2>1. free \in Seq(RunSet) /\ k \in 1 .. Len(free) BY DEF StartInv, BootInv, BootShape
  <2>2. free[k] \in RunSet BY <2>1, ElementOfSeq
  <2> QED BY <2>2 DEF RunSet, StartInv, BootInv, FreeTyped
<1>3. bpc # "panic" => \A e \in pde : e[1] \in 0 .. PT - 1 /\ e[2] \in 0 .. npages
  BY MemoryBound, TablesTyped DEF StartInv
<1>4. bootcpu \in Cpu BY Cpus DEF StartInv, SmpInv, SmpShape
<1> QED BY <1>1, <1>2, <1>3, <1>4 DEF TypeOK, StartInv, SmpInv, SmpShape

(* Every processor that is up has its own stack, for calls and for traps.  *)
LEMMA OwnStacks == ASSUME StartInv PROVE OwnStack
<1> SUFFICES ASSUME NEW c \in Cpu
             PROVE  /\ esp[c] \in {NULL, c}
                    /\ pc[c] \in Up => esp[c] = c /\ ts_esp0[c] = c
  BY DEF OwnStack, Up
<1>1. CASE c = 0 BY <1>1 DEF StartInv, SmpInv, OwnBsp, Up
<1>2. CASE c # 0
  BY <1>2, Cpus DEF StartInv, SmpInv, Own, Up
<1> QED BY <1>1, <1>2

(* Regions of the MMIO window are mapped once.                             *)
LEMMA IoApart == ASSUME StartInv PROVE MmioExclusive
<1> DEFINE io == {k \in DOMAIN kmap : kmap[k].va \in MMIOBASE .. MMIOLIM - 1}
<1>0. DOMAIN kmap \subseteq Nat /\ NRegions \in Nat
      /\ \A k \in DOMAIN kmap : kmap[k].va \in Nat /\ k >= 1
  <2>1. kmap \in Seq(RegionSet) BY DEF StartInv, BootInv, BootShape
  <2>2. ASSUME NEW k \in DOMAIN kmap PROVE kmap[k].va \in Nat /\ k >= 1
    <3>1. kmap[k] \in RegionSet BY <2>1
    <3> QED BY <2>1, <3>1 DEF RegionSet
  <2> QED BY <2>1, <2>2, ImageBounds
<1>1. ASSUME NEW k \in io PROVE k > NRegions
  <2> SUFFICES ASSUME ~(k > NRegions) PROVE FALSE
    OBVIOUS
  <2>1. k \in 1..NRegions BY <1>0
  <2>2. kmap[k] = Regions[k] BY <2>1 DEF StartInv, BootInv, Mapped, KernelRegions
  <2> QED BY <2>1, <2>2, RegionsApart DEF StartInv, BootInv
<1>2. ASSUME NEW j \in io, NEW k \in io, j # k PROVE kmap[j].va # kmap[k].va
  <2>1. j < k \/ k < j BY <1>0, <1>2
  <2>2. j < k => kmap[j].va < kmap[k].va
    BY <1>1 DEF StartInv, BootInv, Mapped, IoRegions
  <2>3. k < j => kmap[k].va < kmap[j].va
    BY <1>1 DEF StartInv, BootInv, Mapped, IoRegions
  <2> QED BY <1>0, <2>1, <2>2, <2>3
<1>3. ASSUME NEW k \in io PROVE kmap[k].va < mmio
  <2>1. kmap[k].va \in MMIOBASE .. mmio - 1 /\ mmio \in MMIOBASE .. MMIOLIM
    BY <1>1 DEF StartInv, BootInv, BootShape, Mapped, IoRegions
  <2> QED BY ONLY <2>1, Numbers, SMT
<1>4. lapic # 0 => \E k \in io : kmap[k].va = lapic
  BY DEF StartInv, SmpInv, LapicMapped
<1> QED BY <1>2, <1>3, <1>4, Zenon DEF MmioExclusive

(* No processor schedules before the environments exist, and the 8259A     *)
(* interrupts the boot processor only.                                     *)
LEMMA SchedAndPic == ASSUME StartInv PROVE NoEarlySched /\ PicToBsp
<1> SUFFICES ASSUME NEW c \in Cpu
             PROVE  /\ pc[c] \in {"sched", "run"} => created
                    /\ pc[c] = "run" => (lint0[c] <=> c = 0)
  BY DEF NoEarlySched, PicToBsp
<1>1. CASE c = 0 BY <1>1 DEF StartInv, SmpInv, InOrder, OwnBsp
<1>2. CASE c # 0
  <2>1. c \in Other /\ c \in Nat /\ i \in Nat BY <1>2, Cpus DEF StartInv, SmpInv, SmpShape
  <2>2. c < i \/ c > i \/ c = i BY <2>1
  <2>3. pc[c] \in {"sched", "run"} => pc[0] = "run"
    BY <2>1, <2>2 DEF StartInv, SmpInv, SmpShape, InOrder, Early, Finding, Holding, Coming
  <2> QED BY <1>2, <2>1, <2>3 DEF StartInv, SmpInv, InOrder, Own
<1> QED BY <1>1, <1>2

(* init.c, mpentry.S, lapic.c: whatever table the BIOS left and however    *)
(* the processors' steps interleave, each comes up on its own stack with   *)
(* its own APIC page, none schedules before the environments exist, and    *)
(* the 8259A interrupts the boot processor only.                           *)
THEOREM StartsApart == Spec => []StartedApart
<1>1. StartInv => StartedApart
  BY TypesOK, OwnStacks, IoApart, SchedAndPic DEF StartedApart
<1> QED BY <1>1, StartInvKept, PTL

(* Memory of at most n pages, whatever the CMOS reports.                   *)
AtMost(n) == \A m \in Machine : totalmem(m) \div 4 <= n

(* A bound on every machine bounds npages.                                 *)
LEMMA NpagesAtMost ==
    ASSUME NEW n \in Nat, AtMost(n), FromMachine PROVE npages <= n
  BY DEF AtMost, FromMachine

(* pmap.c: with at most 256 MB, all that KERNBASE has room for, kern_pgdir *)
(* is what memlayout.h draws, and programs can read pages[] and envs[] and *)
(* write nothing above UTOP.                                               *)
THEOREM KernelIsMapped ==
    ASSUME AtMost(MB256) PROVE Spec => []KernelMapped
<1>1. StartInv => KernelMapped
  <2> SUFFICES ASSUME StartInv PROVE KernelMapped
    OBVIOUS
  <2>0. MB256 \in Nat BY SMT DEF MB256
  <2>1. npages <= MB256 BY <2>0, NpagesAtMost DEF StartInv
  <2> QED BY <2>1, PgdirBelow, UserReads DEF StartInv, KernelMapped
<1> QED BY <1>1, StartInvKept, PTL

(* pmap.c: boot_alloc returns the end of what it reserves, so pages[] runs *)
(* into envs[]: with more than 62 MB the two always share memory.          *)
THEOREM OverlapBeyond62MB ==
    Spec => [](npages > MB62 /\ bpc \notin BeforeFreeList \cup {"panic"}
               => ~BootArraysDisjoint)
<1>1. StartInv => (npages > MB62 /\ bpc \notin BeforeFreeList \cup {"panic"}
                   => ~BootArraysDisjoint)
  BY OverlapAbove DEF StartInv
<1> QED BY <1>1, StartInvKept, PTL

(* pmap.c: even so, with up to 574 MB the pages that page_init leaves out  *)
(* cover both arrays: none of their pages is ever allocated.               *)
THEOREM FreeListSafe ==
    ASSUME AtMost(MB574) PROVE Spec => []BootMemoryKept
<1>1. StartInv => BootMemoryKept
  <2> SUFFICES ASSUME StartInv PROVE BootMemoryKept
    OBVIOUS
  <2>0. MB574 \in Nat BY SMT DEF MB574
  <2>1. npages <= MB574 BY <2>0, NpagesAtMost DEF StartInv
  <2> QED BY <2>1, KeptBelow DEF StartInv
<1> QED BY <1>1, StartInvKept, PTL

(* pmap.c: with at most 62 MB, and base memory for the page tables, what   *)
(* the kernel takes before there is a free list is disjoint, stays taken,  *)
(* and is reached through entry_pgdir as long as that is in use.           *)
THEOREM BootMemorySafe ==
    ASSUME BaseLasts, AtMost(MB62) PROVE Spec => []BootMemory
<1> DEFINE Low == StartInv /\ LowPages
<1>1. Init => Low
  BY SmpInitInv, BootInitInv, FromMachineStep, LowPagesInit DEF Init, StartInv
<1>2. StartInv /\ LowPages /\ [Next]_vars => LowPages'
  <2> SUFFICES ASSUME StartInv, LowPages, [Next]_vars PROVE LowPages'
    OBVIOUS
  <2>1. CASE BootNext /\ UNCHANGED smpVars
    BY <2>1, LowPagesStep DEF StartInv
  <2>2. CASE bpc = "done" /\ (BspStep \/ \E c \in Cpu : CpuStep(c))
    <3>1. bpc' \in {"done", "panic"} /\ cr3' = cr3 BY <2>2, BootKept DEF StartInv
    <3> QED BY <2>2, <3>1 DEF LowPages
  <2>3. CASE UNCHANGED vars
    BY <2>3 DEF LowPages, LowEnough, Taken4MB, Run, vars, bootVars
  <2> QED BY <2>1, <2>2, <2>3 DEF Next
<1>3. StartInv /\ LowPages => BootMemory
  <2> SUFFICES ASSUME StartInv, LowPages PROVE BootMemory
    OBVIOUS
  <2>0. MB62 \in Nat /\ MB62 <= MB574 /\ MB574 \in Nat BY SMT DEF MB62, MB574
  <2>1. npages <= MB62 /\ npages \in Nat
    BY <2>0, NpagesAtMost DEF StartInv, BootInv, BootShape
  <2>2. npages <= MB574 BY ONLY <2>0, <2>1, SMT
  <2> QED BY <2>1, <2>2, DisjointBelow, KeptBelow, Reached DEF StartInv, BootMemory
<1> QED BY <1>1, <1>2, <1>3, StartInvKept, PTL DEF Spec

=============================================================================
