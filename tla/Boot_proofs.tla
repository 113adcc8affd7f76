----------------------------- MODULE Boot_proofs ----------------------------
(***************************************************************************)
(* Proofs about module Boot: what mem_init leaves behind, for every amount *)
(* of memory, every size of the kernel image and every number of           *)
(* processors.  BootInv is kept by every step of mem_init, and by the      *)
(* mappings that the processors add later (IoStep); the theorems about the *)
(* whole system are in Smp_proofs.                                         *)
(***************************************************************************)
EXTENDS Boot, TLAPS

(* The constants of memlayout.h and mmu.h, in pages.                       *)
LEMMA Numbers ==
    /\ PGSIZE = 4096 /\ PT = 1024 /\ KERNBASE = 983040 /\ KSTACKTOP = 983040
    /\ MMIOLIM = 982016 /\ MMIOBASE = 980992 /\ UVPT = 979968 /\ UPAGES = 978944
    /\ UENVS = 977920 /\ KSTKSIZE = 8 /\ KSTKGAP = 8 /\ MPENTRY = 7
    /\ IOPHYSMEM = 160 /\ EXTPHYSMEM = 256 /\ SizeofPageInfo = 8 /\ SizeofPointer = 4
    /\ NENV = 1024 /\ SizeofEnv = 124
  BY SMT DEF PGSIZE, PT, KERNBASE, KSTACKTOP, MMIOLIM, MMIOBASE, UVPT, UPAGES, UENVS,
        KSTKSIZE, KSTKGAP, MPENTRY, IOPHYSMEM, EXTPHYSMEM, NENV, SizeofEnv,
        SizeofPageInfo, SizeofPointer

(* mem_init in order                                                       *)
Allocating == {"detect", "pgdir", "pages", "envs"}
Listing == {"check_free", "check_page"}
Mapping == {"map", "check"}
NRegions == 68 + NCPU

(* Amounts of memory, in pages                                             *)
MB62 == 15872
MB256 == 65536
MB574 == 146944

RunSet == [lo : Nat, hi : Int]
RegionSet == [va : Nat, n : Nat, pa : Nat, u : BOOLEAN, w : BOOLEAN]

BootShape ==
    /\ bpc \in Allocating \cup {"page_init"} \cup Listing \cup Mapping \cup {"done", "panic"}
    /\ npages \in Nat /\ npages_basemem \in 0..160
    /\ nextfree \in Nat /\ kern_pgdir \in Nat /\ pages \in Nat /\ envs \in Nat
    /\ free \in Seq(RunSet)
    /\ pde \subseteq Nat \X Int
    /\ kmap \in Seq(RegionSet)
    /\ mmio \in MMIOBASE .. MMIOLIM

(* Where boot_alloc puts things: each at the end of what it reserved.      *)
PagesAt == End + 1 + ROUNDUP(npages * SizeofPointer)
LaidOut ==
    /\ kern_pgdir = End + 1 /\ pages = PagesAt /\ envs = PagesAt + 31
    /\ nextfree = envs /\ nextfree <= npages
Layout ==
    /\ bpc \in {"detect", "pgdir"} => nextfree = End /\ pde = {}
    /\ bpc = "pages" => /\ nextfree = End + 1 /\ kern_pgdir = End + 1
                        /\ nextfree <= npages
    /\ bpc = "envs" => /\ nextfree = PagesAt /\ kern_pgdir = End + 1 /\ pages = PagesAt
                       /\ nextfree <= npages
    /\ bpc \in {"pages", "envs", "page_init"} \cup Listing =>
          pde = {<<PDX(UVPT), kern_pgdir>>}
    /\ bpc \notin Allocating \cup {"panic"} => LaidOut
    /\ bpc \in Allocating \cup {"page_init"} => free = <<>>
    /\ bpc \in Allocating \cup {"page_init"} \cup Listing => kmap = <<>> /\ mmio = MMIOBASE

(* Pages the free list may hold: below and above mpentry's in base memory, *)
(* and above the kernel.                                                   *)
Spare(lo, hi) ==
    \/ lo >= 1 /\ hi < MPENTRY
    \/ lo > MPENTRY /\ hi < IOPHYSMEM
    \/ lo >= FirstFree /\ hi < npages
FreeSpare ==
    bpc \notin Allocating \cup {"panic"} =>
        /\ \A k \in DOMAIN free : Left(k) => Spare(free[k].lo, free[k].hi)
        /\ \A e \in pde : e = <<PDX(UVPT), kern_pgdir>> \/ Spare(e[2], e[2])
FreeTyped == \A k \in DOMAIN free : Left(k) => free[k].hi < npages

(* kmap holds the regions of mem_init in their order, then the pages of    *)
(* mmio_map_region, each above the last.                                   *)
KernelRegions ==
    /\ \A k \in DOMAIN kmap : k <= NRegions => kmap[k] = Regions[k]
    /\ kmap # <<>> => LaidOut
    /\ bpc = "map" => Len(kmap) < NRegions
    /\ bpc = "check" => Len(kmap) = NRegions
    /\ bpc = "done" => Len(kmap) >= NRegions
IoRegions ==
    /\ \A k \in DOMAIN kmap : k > NRegions =>
          kmap[k].va \in MMIOBASE .. mmio - 1 /\ kmap[k].n = 1 /\ ~kmap[k].u
    /\ \A j, k \in DOMAIN kmap : j > NRegions /\ j < k => kmap[j].va < kmap[k].va
Mapped == KernelRegions /\ IoRegions

(* The page tables are those of what is mapped, of UVPT and of MMIO.       *)
Index == {e[1] : e \in pde}
PageTablesKnown ==
    bpc \in Mapping \cup {"done"} =>
        Index = {PDX(UVPT), PDX(MMIOBASE)} \cup {PDX(kmap[k].va) : k \in DOMAIN kmap}

BootInv == BootShape /\ Layout /\ FreeSpare /\ FreeTyped /\ Mapped /\ PageTablesKnown

-----------------------------------------------------------------------------
(* Sizes in pages.                                                         *)
LEMMA Sizes ==
    /\ EnvsSize \in Nat /\ ROUNDUP(EnvsSize) = 31 /\ ROUNDUP(PGSIZE) = 1
    /\ \A n \in Nat : /\ ROUNDUP(n) \in Nat /\ ROUNDUP(n) * 4096 >= n
                      /\ (ROUNDUP(n) - 1) * 4096 < n
                      /\ (n > 0 => ROUNDUP(n) > 0)
  BY Numbers, SMT DEF EnvsSize, ROUNDUP

(* Sizes rounded up to pages are natural numbers.                          *)
LEMMA RoundNat == \A n \in Nat : ROUNDUP(n) \in Nat
  BY Numbers, SMT DEF ROUNDUP

(* The kernel image and the number of processors are as small as           *)
(* BootAssumption says.                                                    *)
LEMMA ImageBounds ==
    /\ End \in Nat /\ End >= 264 /\ End < 1024
    /\ NCPU \in Nat /\ NCPU >= 1 /\ NCPU <= 64 /\ NRegions \in Nat
    /\ BootStack \in Nat /\ KStacks \in Nat
  BY BootAssumption, Numbers, SMT DEF NRegions

(* The elements of three sequences in a row.                               *)
LEMMA Concat3 ==
    ASSUME NEW S, NEW a \in Seq(S), NEW b \in Seq(S), NEW c \in Seq(S), NEW d,
           d = a \o b \o c
    PROVE  /\ d \in Seq(S) /\ Len(d) = Len(a) + Len(b) + Len(c)
           /\ \A i \in 1..Len(a) : d[i] = a[i]
           /\ \A i \in 1..Len(b) : d[Len(a) + i] = b[i]
           /\ \A i \in 1..Len(c) : d[Len(a) + Len(b) + i] = c[i]
<1>1. /\ a \o b \in Seq(S) /\ Len(a \o b) = Len(a) + Len(b)
      /\ \A i \in 1..Len(a) : (a \o b)[i] = a[i]
      /\ \A i \in 1..Len(b) : (a \o b)[Len(a) + i] = b[i]
  OBVIOUS
<1> DEFINE ab == a \o b
<1> HIDE DEF ab
<1>2. /\ d \in Seq(S) /\ Len(d) = Len(ab) + Len(c)
      /\ \A i \in 1..Len(ab) : d[i] = ab[i]
      /\ \A i \in 1..Len(c) : d[Len(ab) + i] = c[i]
  BY <1>1 DEF ab
<1>3. \A i \in 1..Len(b) : Len(a) + i \in 1..Len(ab)
  BY <1>1 DEF ab
<1>4. \A i \in 1..Len(a) : i \in 1..Len(ab)
  BY <1>1 DEF ab
<1> QED BY <1>1, <1>2, <1>3, <1>4 DEF ab

(* An element of a sequence over S is in S.                                *)
LEMMA ElementOfSeq ==
    \A S : \A s \in Seq(S) : \A j \in 1..Len(s) : s[j] \in S
  OBVIOUS

(* A sequence of four.                                                     *)
LEMMA Four ==
    ASSUME NEW S, NEW a \in S, NEW b \in S, NEW c \in S, NEW d \in S
    PROVE  /\ <<a, b, c, d>> \in Seq(S) /\ Len(<<a, b, c, d>>) = 4
           /\ <<a, b, c, d>>[1] = a /\ <<a, b, c, d>>[2] = b
           /\ <<a, b, c, d>>[3] = c /\ <<a, b, c, d>>[4] = d
  OBVIOUS

(* The regions of mem_init, one by one.                                    *)
StackRegion(i) ==
    Region(kstacktop(i-1) - KSTKSIZE, KSTKSIZE, KStacks + (i-1) * KSTKSIZE, FALSE, TRUE)
RamRegion(i) == Region(KERNBASE + (i-1) * PT, PT, (i-1) * PT, FALSE, TRUE)
FixedRegions ==
    <<UserRegion(UPAGES, ROUNDUP(PagesSize), pages),
      Region(KERNBASE + pages, ROUNDUP(PagesSize), pages, FALSE, TRUE),
      UserRegion(UENVS, ROUNDUP(EnvsSize), envs),
      Region(KSTACKTOP - KSTKSIZE, KSTKSIZE, BootStack, FALSE, TRUE)>>

(* Regions, the calls of boot_map_region in order, place by place.         *)
LEMMA RegionsAre ==
    ASSUME BootShape
    PROVE  /\ Regions \in Seq(RegionSet) /\ Len(Regions) = NRegions
           /\ Regions[1] = UserRegion(UPAGES, ROUNDUP(PagesSize), pages)
           /\ Regions[2] = Region(KERNBASE + pages, ROUNDUP(PagesSize), pages, FALSE, TRUE)
           /\ Regions[3] = UserRegion(UENVS, ROUNDUP(EnvsSize), envs)
           /\ Regions[4] = Region(KSTACKTOP - KSTKSIZE, KSTKSIZE, BootStack, FALSE, TRUE)
           /\ \A i \in 1..NCPU : Regions[4 + i] = StackRegion(i)
           /\ \A i \in 1..64 : Regions[4 + NCPU + i] = RamRegion(i)
<1> DEFINE ram == [i \in 1 .. (1048576 - KERNBASE) \div PT |->
                     Region(KERNBASE + (i-1) * PT, PT, (i-1) * PT, FALSE, TRUE)]
<1>0. Regions = FixedRegions \o mem_init_mp \o ram
  BY SMT DEF Regions, FixedRegions
<1>1. FixedRegions \in Seq(RegionSet) /\ Len(FixedRegions) = 4
  <2>1. PagesSize \in Nat
    BY Numbers, SMT DEF PagesSize, BootShape
  <2>2. ROUNDUP(PagesSize) \in Nat /\ ROUNDUP(EnvsSize) \in Nat
    <3>1. EnvsSize \in Nat BY Sizes, SMT
    <3> QED BY <2>1, <3>1, RoundNat
  <2>3. KERNBASE + pages \in Nat /\ KSTACKTOP - KSTKSIZE \in Nat /\ KSTKSIZE \in Nat
        /\ UPAGES \in Nat /\ UENVS \in Nat /\ pages \in Nat /\ envs \in Nat
    BY Numbers, SMT DEF BootShape
  <2>4. /\ UserRegion(UPAGES, ROUNDUP(PagesSize), pages) \in RegionSet
        /\ UserRegion(UENVS, ROUNDUP(EnvsSize), envs) \in RegionSet
    BY <2>2, <2>3 DEF UserRegion, Region, RegionSet
  <2>5. /\ Region(KERNBASE + pages, ROUNDUP(PagesSize), pages, FALSE, TRUE) \in RegionSet
        /\ Region(KSTACKTOP - KSTKSIZE, KSTKSIZE, BootStack, FALSE, TRUE) \in RegionSet
    BY <2>2, <2>3, ImageBounds DEF Region, RegionSet
  <2> QED BY <2>4, <2>5, Four, ZenonT(30) DEF FixedRegions
<1>2. mem_init_mp \in Seq(RegionSet) /\ Len(mem_init_mp) = NCPU
      /\ \A i \in 1..NCPU : mem_init_mp[i] = StackRegion(i)
  <2>1. ASSUME NEW i \in 1..NCPU PROVE StackRegion(i) \in RegionSet
    <3>1. kstacktop(i-1) - KSTKSIZE \in Nat BY ImageBounds, Numbers, SMT DEF kstacktop
    <3>2. KStacks + (i-1) * KSTKSIZE \in Nat /\ KSTKSIZE \in Nat BY ImageBounds, Numbers, SMT
    <3> QED BY <3>1, <3>2 DEF Region, RegionSet, StackRegion
  <2>2. mem_init_mp = [i \in 1..NCPU |-> StackRegion(i)]
    BY DEF mem_init_mp, StackRegion
  <2> QED BY <2>1, <2>2, ImageBounds
<1>3. ram \in Seq(RegionSet) /\ Len(ram) = 64 /\ \A i \in 1..64 : ram[i] = RamRegion(i)
  <2>1. ASSUME NEW i \in 1..64 PROVE RamRegion(i) \in RegionSet
    <3>1. KERNBASE + (i-1) * PT \in Nat /\ PT \in Nat /\ (i-1) * PT \in Nat
      BY Numbers, SMT
    <3> QED BY <3>1 DEF Region, RegionSet, RamRegion
  <2>2. (1048576 - KERNBASE) \div PT = 64 BY Numbers, SMT
  <2>3. ram = [i \in 1..64 |-> RamRegion(i)]
    BY <2>2, SMT DEF RamRegion
  <2> HIDE DEF ram
  <2> QED BY <2>1, <2>3
<1> HIDE DEF ram
<1>4. /\ Regions \in Seq(RegionSet)
      /\ Len(Regions) = Len(FixedRegions) + Len(mem_init_mp) + Len(ram)
      /\ \A i \in 1..Len(FixedRegions) : Regions[i] = FixedRegions[i]
      /\ \A i \in 1..Len(mem_init_mp) : Regions[Len(FixedRegions) + i] = mem_init_mp[i]
      /\ \A i \in 1..Len(ram) : Regions[Len(FixedRegions) + Len(mem_init_mp) + i] = ram[i]
  <2>1. FixedRegions \in Seq(RegionSet) BY <1>1
  <2>2. mem_init_mp \in Seq(RegionSet) BY <1>2
  <2>3. ram \in Seq(RegionSet) BY <1>3
  <2> QED BY ONLY <2>1, <2>2, <2>3, <1>0, Concat3
<1>5. /\ Regions \in Seq(RegionSet) /\ Len(Regions) = NRegions
      /\ \A i \in 1..4 : Regions[i] = FixedRegions[i]
      /\ \A i \in 1..NCPU : Regions[4 + i] = mem_init_mp[i]
      /\ \A i \in 1..64 : Regions[4 + NCPU + i] = ram[i]
  <2>1. Len(FixedRegions) = 4 /\ Len(mem_init_mp) = NCPU /\ Len(ram) = 64
    BY <1>1, <1>2, <1>3
  <2>2. NRegions = 4 + NCPU + 64
    BY ImageBounds, SMT DEF NRegions
  <2>3. Regions \in Seq(RegionSet) /\ Len(Regions) = NRegions
    BY ONLY <1>4, <2>1, <2>2
  <2>4. \A i \in 1..4 : Regions[i] = FixedRegions[i]
    BY ONLY <1>4, <2>1
  <2>5. \A i \in 1..NCPU : Regions[4 + i] = mem_init_mp[i]
    BY ONLY <1>4, <2>1
  <2>6. \A i \in 1..64 : Regions[4 + NCPU + i] = ram[i]
    BY ONLY <1>4, <2>1
  <2> QED BY <2>3, <2>4, <2>5, <2>6
<1>6. /\ FixedRegions[1] = UserRegion(UPAGES, ROUNDUP(PagesSize), pages)
      /\ FixedRegions[2] = Region(KERNBASE + pages, ROUNDUP(PagesSize), pages, FALSE, TRUE)
      /\ FixedRegions[3] = UserRegion(UENVS, ROUNDUP(EnvsSize), envs)
      /\ FixedRegions[4] = Region(KSTACKTOP - KSTKSIZE, KSTKSIZE, BootStack, FALSE, TRUE)
  BY DEF FixedRegions
<1>7. Regions[1] = FixedRegions[1] /\ Regions[2] = FixedRegions[2]
      /\ Regions[3] = FixedRegions[3] /\ Regions[4] = FixedRegions[4]
  BY <1>5, SMT
<1> QED BY <1>2, <1>3, <1>5, <1>6, <1>7, Zenon

(* Where each of them begins; none is in the MMIO window.                  *)
LEMMA RegionsApart ==
    ASSUME BootShape, NEW k \in 1..NRegions
    PROVE  Regions[k] \in RegionSet /\ Regions[k].va \in Nat
           /\ Regions[k].va \notin MMIOBASE .. MMIOLIM - 1
<1>1. k \in 1..4 \/ (\E i \in 1..NCPU : k = 4 + i) \/ (\E i \in 1..64 : k = 4 + NCPU + i)
  <2>1. k \in 1..4 \/ k - 4 \in 1..NCPU \/ k - 4 - NCPU \in 1..64
    BY ImageBounds, SMT DEF NRegions
  <2> QED BY <2>1, ImageBounds, SMT DEF NRegions
<1>2. Regions[k] \in RegionSet /\ Regions[k].va \in Nat
  <2>1. Regions[k] \in RegionSet BY RegionsAre
  <2> QED BY <2>1 DEF RegionSet
<1>3. CASE k \in 1..4
  <2>0. k = 1 \/ k = 2 \/ k = 3 \/ k = 4 BY <1>3, SMT
  <2>1. Regions[k].va \in {UPAGES, KERNBASE + pages, UENVS, KSTACKTOP - KSTKSIZE}
    <3>1. /\ Regions[1].va = UPAGES /\ Regions[2].va = KERNBASE + pages
          /\ Regions[3].va = UENVS /\ Regions[4].va = KSTACKTOP - KSTKSIZE
      <4>1. /\ Regions[1] = UserRegion(UPAGES, ROUNDUP(PagesSize), pages)
            /\ Regions[2] = Region(KERNBASE + pages, ROUNDUP(PagesSize), pages, FALSE, TRUE)
            /\ Regions[3] = UserRegion(UENVS, ROUNDUP(EnvsSize), envs)
            /\ Regions[4] = Region(KSTACKTOP - KSTKSIZE, KSTKSIZE, BootStack, FALSE, TRUE)
        BY RegionsAre, Zenon
      <4> QED BY ONLY <4>1 DEF UserRegion, Region
    <3> QED BY <2>0, <3>1
  <2>2. pages \in Nat BY DEF BootShape
  <2>3. PICK va : va = Regions[k].va OBVIOUS
  <2>4. va \notin MMIOBASE .. MMIOLIM - 1
    <3>1. va = UPAGES \/ va = KERNBASE + pages \/ va = UENVS \/ va = KSTACKTOP - KSTKSIZE
      BY ONLY <2>1, <2>3
    <3>2. va \in Int /\ ~(va >= MMIOBASE /\ va <= MMIOLIM - 1)
      BY ONLY <3>1, <2>2, Numbers, SMT
    <3>3. MMIOBASE \in Int /\ MMIOLIM \in Int BY Numbers, SMT
    <3> QED BY ONLY <3>2, <3>3, SMT
  <2> QED BY <2>3, <2>4, <1>2, Zenon
<1>4. ASSUME NEW i \in 1..NCPU, k = 4 + i
      PROVE  Regions[k].va \notin MMIOBASE .. MMIOLIM - 1
  <2>0. Regions[k] = StackRegion(i) BY <1>4, RegionsAre
  <2>1. Regions[k].va = kstacktop(i-1) - KSTKSIZE BY <2>0 DEF StackRegion, Region
  <2> QED BY <2>1, ImageBounds, Numbers, SMT DEF kstacktop
<1>5. ASSUME NEW i \in 1..64, k = 4 + NCPU + i
      PROVE  Regions[k].va \notin MMIOBASE .. MMIOLIM - 1
  <2>0. Regions[k] = RamRegion(i) BY <1>5, RegionsAre
  <2>1. Regions[k].va = KERNBASE + (i-1) * PT BY <2>0 DEF RamRegion, Region
  <2> QED BY <2>1, Numbers, SMT
<1> QED BY <1>1, <1>2, <1>3, <1>4, <1>5
-----------------------------------------------------------------------------
(* The inductive step, action by action.                                   *)

(* The invariant of the boot holds when mem_init is called.                *)
LEMMA BootInitInv == BootInit => BootInv
<1> SUFFICES ASSUME BootInit PROVE BootInv
  OBVIOUS
<1>1. BootShape
  BY ImageBounds, Numbers, SMT DEF BootInit, BootShape, Allocating
<1>2. Layout
  BY DEF BootInit, Layout, Allocating, Listing
<1>3. FreeSpare /\ FreeTyped /\ PageTablesKnown
  BY DEF BootInit, FreeSpare, FreeTyped, PageTablesKnown, Allocating, Mapping
<1>4. Mapped
  BY DEF BootInit, Mapped, KernelRegions, IoRegions
<1> QED BY <1>1, <1>2, <1>3, <1>4 DEF BootInv

(* i386_detect_memory: the NVRAM's sizes make npages.                      *)
LEMMA DetectStep ==
    ASSUME BootInv, i386_detect_memory PROVE BootInv'
<1> USE DEF i386_detect_memory
<1>1. PICK m \in Machine : npages' = totalmem(m) \div 4 /\ npages_basemem' = m.base \div 4
  OBVIOUS
<1>2. npages' \in Nat /\ npages_basemem' \in 0..160
  <2>1. m.base \in 0..640 /\ m.ext \in Nat /\ m.ext16 \in Nat
    BY BootAssumption
  <2>2. totalmem(m) \in Nat
    BY <2>1, SMT DEF totalmem
  <2> QED BY <1>1, <2>1, <2>2, SMT
<1>3. BootShape'
  BY <1>2 DEF BootInv, BootShape, Allocating
<1>4. free = <<>> /\ kmap = <<>> /\ pde = {}
  BY DEF BootInv, Layout, Allocating
<1>5. Layout'
  BY <1>4 DEF BootInv, Layout, Allocating, Listing
<1>6. FreeSpare' /\ FreeTyped' /\ PageTablesKnown'
  BY <1>4 DEF FreeSpare, FreeTyped, PageTablesKnown, Allocating, Mapping
<1>7. Mapped'
  BY <1>4 DEF Mapped, KernelRegions, IoRegions
<1> QED BY <1>3, <1>5, <1>6, <1>7 DEF BootInv

(* What the three steps of boot_alloc have in common.                      *)
LEMMA AllocStep ==
    ASSUME BootInv, NEW here \in Allocating, NEW next \in Allocating \cup {"page_init"},
           NEW n \in Nat, Allocate(here, next, n)
    PROVE  /\ free = <<>> /\ kmap = <<>> /\ free' = <<>> /\ kmap' = <<>> /\ mmio' = MMIOBASE
           /\ nextfree' = nextfree + ROUNDUP(n) /\ nextfree' \in Nat
           /\ bpc' = "panic" \/ (bpc' = next /\ nextfree' <= npages)
           /\ npages' = npages /\ npages_basemem' = npages_basemem
           /\ FreeTyped' /\ Mapped' /\ PageTablesKnown'
<1>1. free = <<>> /\ kmap = <<>> /\ free' = <<>> /\ kmap' = <<>> /\ mmio' = MMIOBASE
  BY DEF Allocate, BootInv, Layout
<1>2. nextfree' = nextfree + ROUNDUP(n) /\ nextfree' \in Nat
  <2>1. ROUNDUP(n) \in Nat BY RoundNat
  <2>2. nextfree \in Nat BY DEF BootInv, BootShape
  <2> QED BY <2>1, <2>2 DEF Allocate, boot_alloc
<1>3. bpc' = "panic" \/ (bpc' = next /\ nextfree' <= npages)
  BY <1>2 DEF Allocate, Panic, BootInv, BootShape
<1>4. bpc' \in Allocating \cup {"page_init", "panic"}
  BY <1>3
<1>5. FreeTyped' /\ PageTablesKnown'
  BY <1>1, <1>4 DEF FreeTyped, PageTablesKnown, Mapping, Allocating
<1>6. Mapped'
  BY <1>1, <1>4 DEF Mapped, KernelRegions, IoRegions, Allocating
<1> QED BY <1>1, <1>2, <1>3, <1>5, <1>6 DEF Allocate

(* boot_alloc of kern_pgdir.                                               *)
LEMMA PgdirStep ==
    ASSUME BootInv, alloc_kern_pgdir PROVE BootInv'
<1> USE DEF alloc_kern_pgdir
<1>1. /\ free' = <<>> /\ kmap' = <<>> /\ mmio' = MMIOBASE
      /\ nextfree' = nextfree + 1 /\ nextfree' \in Nat
      /\ bpc' = "panic" \/ (bpc' = "pages" /\ nextfree' <= npages)
      /\ npages' = npages /\ npages_basemem' = npages_basemem
      /\ FreeTyped' /\ Mapped' /\ PageTablesKnown'
  <2>1. PGSIZE \in Nat /\ ROUNDUP(PGSIZE) = 1 BY Numbers, Sizes, SMT
  <2>2. "pgdir" \in Allocating /\ "pages" \in Allocating \cup {"page_init"}
    BY DEF Allocating
  <2> QED BY <2>1, <2>2, AllocStep
<1>2. nextfree = End BY DEF Allocate, BootInv, Layout
<1>3. BootShape'
  <2>1. pde' \subseteq Nat \X Int
    <3>1. PDX(UVPT) \in Nat BY Numbers, SMT DEF PDX
    <3> QED BY <1>1, <3>1
  <2> QED BY <1>1, <2>1, Numbers, SMT DEF BootInv, BootShape, Allocating
<1>4. Layout'
  BY <1>1, <1>2 DEF Layout, Allocating, Listing
<1>5. FreeSpare'
  BY <1>1 DEF FreeSpare, Allocating
<1> QED BY <1>1, <1>3, <1>4, <1>5 DEF BootInv

(* boot_alloc of pages[], whose size is that of a pointer per page.        *)
LEMMA PagesStep ==
    ASSUME BootInv, alloc_pages PROVE BootInv'
<1> USE DEF alloc_pages
<1>1. /\ free' = <<>> /\ kmap' = <<>> /\ mmio' = MMIOBASE
      /\ nextfree' = nextfree + ROUNDUP(npages * SizeofPointer) /\ nextfree' \in Nat
      /\ bpc' = "panic" \/ (bpc' = "envs" /\ nextfree' <= npages)
      /\ npages' = npages /\ npages_basemem' = npages_basemem
      /\ FreeTyped' /\ Mapped' /\ PageTablesKnown'
  <2>1. npages * SizeofPointer \in Nat BY Numbers, SMT DEF BootInv, BootShape
  <2>2. "pages" \in Allocating /\ "envs" \in Allocating \cup {"page_init"}
    BY DEF Allocating
  <2> QED BY <2>1, <2>2, AllocStep
<1>2. /\ bpc = "pages" /\ nextfree = End + 1 /\ kern_pgdir = End + 1
      /\ pde = {<<PDX(UVPT), kern_pgdir>>}
  BY DEF Allocate, BootInv, Layout
<1>3. BootShape'
  BY <1>1, Numbers, SMT DEF BootInv, BootShape, Allocating
<1>4. Layout'
  <2>1. PagesAt' = nextfree' BY <1>1, <1>2 DEF PagesAt
  <2> QED BY <1>1, <1>2, <2>1 DEF Layout, Allocating, Listing
<1>5. FreeSpare'
  BY <1>1 DEF FreeSpare, Allocating
<1> QED BY <1>1, <1>3, <1>4, <1>5 DEF BootInv

(* boot_alloc of envs[].                                                   *)
LEMMA EnvsStep ==
    ASSUME BootInv, alloc_envs PROVE BootInv'
<1> USE DEF alloc_envs
<1>1. /\ free' = <<>> /\ kmap' = <<>> /\ mmio' = MMIOBASE
      /\ nextfree' = nextfree + 31 /\ nextfree' \in Nat
      /\ bpc' = "panic" \/ (bpc' = "page_init" /\ nextfree' <= npages)
      /\ npages' = npages /\ npages_basemem' = npages_basemem
      /\ FreeTyped' /\ Mapped' /\ PageTablesKnown'
  <2>1. EnvsSize \in Nat /\ ROUNDUP(EnvsSize) = 31 BY Sizes, SMT
  <2>2. "envs" \in Allocating /\ "page_init" \in Allocating \cup {"page_init"}
    BY DEF Allocating
  <2> QED BY <2>1, <2>2, AllocStep
<1>2. /\ nextfree = PagesAt /\ kern_pgdir = End + 1 /\ pages = PagesAt
      /\ pde = {<<PDX(UVPT), kern_pgdir>>} /\ bpc = "envs"
  BY DEF Allocate, BootInv, Layout
<1>3. BootShape'
  BY <1>1, Numbers, SMT DEF BootInv, BootShape, Allocating
<1>4. Layout'
  <2>1. PagesAt' = PagesAt BY <1>1 DEF PagesAt
  <2> QED BY <1>1, <1>2, <2>1 DEF Layout, LaidOut, Allocating, Listing
<1>5. FreeSpare'
  BY <1>1, <1>2 DEF FreeSpare, Allocating
<1> QED BY <1>1, <1>3, <1>4, <1>5 DEF BootInv

(* page_init: what it puts into the list is spare.                         *)
LEMMA PageInitStep ==
    ASSUME BootInv, page_init PROVE BootInv'
<1> USE DEF page_init
<1>1. /\ LaidOut /\ kmap = <<>> /\ mmio = MMIOBASE /\ pde = {<<PDX(UVPT), kern_pgdir>>}
      /\ bpc = "page_init" /\ bpc' = "check_free"
  BY DEF BootInv, Layout, Allocating
<1>2. nextfree \in Nat /\ nextfree > 264 /\ npages \in Nat /\ nextfree <= npages
      /\ npages_basemem \in 0..160 /\ FirstFree \in Nat /\ FirstFree' = FirstFree
  <2>1. npages * SizeofPointer \in Nat BY Numbers, SMT DEF BootInv, BootShape
  <2>2. ROUNDUP(npages * SizeofPointer) \in Nat BY <2>1, RoundNat
  <2>3. nextfree \in Nat /\ npages \in Nat /\ npages_basemem \in 0..160
    BY DEF BootInv, BootShape
  <2>4. FirstFree = 256 + nextfree /\ FirstFree' = FirstFree
    BY Numbers, SMT DEF FirstFree
  <2>5. PICK x \in Nat : x = ROUNDUP(npages * SizeofPointer) BY <2>2
  <2>6. nextfree = End + 1 + x + 31 /\ nextfree <= npages
    BY <1>1, <2>5 DEF LaidOut, PagesAt
  <2> QED BY <2>3, <2>4, <2>6, ImageBounds, SMT
<1> DEFINE r1 == Run(FirstFree, npages - 1)
           r2 == Run(MPENTRY + 1, npages_basemem - 1)
           r3 == Run(1, MPENTRY - 1)
<1>3. /\ r1 \in RunSet /\ r1.lo = FirstFree /\ r1.hi = npages - 1
      /\ r2 \in RunSet /\ r2.lo = 8 /\ r2.hi = npages_basemem - 1
      /\ r3 \in RunSet /\ r3.lo = 1 /\ r3.hi = 6
  <2>1. MPENTRY = 7 BY Numbers, SMT
  <2> QED BY <1>2, <2>1 DEF Run, RunSet
<1>4. free' = <<r1, r2, r3>>
  OBVIOUS
<1> HIDE DEF r1, r2, r3
<1>5. free' \in Seq(RunSet) /\ DOMAIN free' = 1..3
      /\ free'[1] = r1 /\ free'[2] = r2 /\ free'[3] = r3
  BY <1>3, <1>4
<1>6. BootShape'
  BY <1>1, <1>5 DEF BootInv, BootShape, Listing
<1>7. Layout'
  BY <1>1 DEF Layout, LaidOut, PagesAt, Allocating, Listing
<1>8. \A k \in 1..3 : Left(k)' => Spare(free[k].lo, free[k].hi)' /\ free'[k].hi < npages
  <2> TAKE k \in 1..3
  <2>0. MPENTRY = 7 /\ IOPHYSMEM = 160 BY Numbers, SMT
  <2>1. CASE k = 1 BY <1>2, <1>3, <1>5, <2>0, <2>1 DEF Left, Spare
  <2>2. CASE k = 2 BY <1>2, <1>3, <1>5, <2>0, <2>2 DEF Left, Spare
  <2>3. CASE k = 3 BY <1>2, <1>3, <1>5, <2>0, <2>3 DEF Left, Spare
  <2> QED BY <2>1, <2>2, <2>3
<1>9. FreeSpare' /\ FreeTyped'
  BY <1>1, <1>5, <1>8 DEF FreeSpare, FreeTyped
<1>10. Mapped' /\ PageTablesKnown'
  BY <1>1 DEF Mapped, KernelRegions, IoRegions, PageTablesKnown, Mapping
<1> QED BY <1>6, <1>7, <1>9, <1>10 DEF BootInv

(* The second half of the list that check_page_free_list sorts: what is    *)
(* below 4 MB, and the rest.                                               *)
LEMMA Concat2 ==
    ASSUME NEW S, NEW a \in Seq(S), NEW b \in Seq(S), NEW c, c = a \o b
    PROVE  /\ c \in Seq(S) /\ Len(c) = Len(a) + Len(b)
           /\ \A i \in 1..Len(a) : c[i] = a[i]
           /\ \A i \in 1..Len(b) : c[Len(a) + i] = b[i]
           /\ \A i \in 1..Len(c) : i \in 1..Len(a) \/ i - Len(a) \in 1..Len(b)
           /\ \A i \in 1..Len(c) : i \notin 1..Len(a) => c[i] = b[i - Len(a)]
  OBVIOUS

LowPart(r) == Run(r.lo, IF r.hi < PT THEN r.hi ELSE PT - 1)
HighPart(r) == Run(IF r.lo >= PT THEN r.lo ELSE PT, r.hi)

(* The two parts into which check_page_free_list divides a run of pages:   *)
(* those below 4 MB, and the others.                                       *)
LEMMA Parts ==
    ASSUME NEW r \in RunSet
    PROVE  /\ LowPart(r) \in RunSet /\ LowPart(r).lo = r.lo /\ LowPart(r).hi <= r.hi
           /\ LowPart(r).hi < PT
           /\ HighPart(r) \in RunSet /\ HighPart(r).lo >= r.lo /\ HighPart(r).hi = r.hi
           /\ HighPart(r).lo >= PT
           /\ r.hi < PT => LowPart(r).hi = r.hi
  <1>1. PT \in Nat BY Numbers, SMT
  <1> QED BY <1>1 DEF LowPart, HighPart, Run, RunSet

(* Every run of the sorted list is part of a run of the old one.           *)
LEMMA Sorted ==
    ASSUME free \in Seq(RunSet), check_page_free_list
    PROVE  /\ free' \in Seq(RunSet) /\ Len(free') = 2 * Len(free)
           /\ \A k \in 1..Len(free) : free'[k] = LowPart(free[k])
           /\ \A k \in 1..Len(free) : free'[Len(free) + k] = HighPart(free[k])
           /\ \A k \in DOMAIN free' : \E j \in DOMAIN free :
                 free'[k].lo >= free[j].lo /\ free'[k].hi <= free[j].hi
<1> DEFINE a == [k \in DOMAIN free |-> LowPart(free[k])]
           b == [k \in DOMAIN free |-> HighPart(free[k])]
<1>1. free' = a \o b
  BY SMT DEF check_page_free_list, LowPart, HighPart
<1>2. \A k \in DOMAIN free : free[k] \in RunSet /\ LowPart(free[k]) \in RunSet
                             /\ HighPart(free[k]) \in RunSet
  BY Parts
<1>3. DOMAIN free = 1..Len(free) /\ Len(free) \in Nat
  OBVIOUS
<1>4. /\ a \in Seq(RunSet) /\ Len(a) = Len(free)
      /\ \A k \in 1..Len(free) : a[k] = LowPart(free[k])
  BY <1>2, <1>3
<1>5. /\ b \in Seq(RunSet) /\ Len(b) = Len(free)
      /\ \A k \in 1..Len(free) : b[k] = HighPart(free[k])
  BY <1>2, <1>3
<1> HIDE DEF a, b
<1>6. /\ free' \in Seq(RunSet) /\ Len(free') = Len(a) + Len(b)
      /\ \A i \in 1..Len(a) : free'[i] = a[i]
      /\ \A i \in 1..Len(b) : free'[Len(a) + i] = b[i]
      /\ \A i \in 1..Len(free') : i \in 1..Len(a) \/ i - Len(a) \in 1..Len(b)
      /\ \A i \in 1..Len(free') : i \notin 1..Len(a) => free'[i] = b[i - Len(a)]
  <2>1. a \in Seq(RunSet) BY <1>4
  <2>2. b \in Seq(RunSet) BY <1>5
  <2> QED BY ONLY <2>1, <2>2, <1>1, Concat2
<1>7. /\ \A k \in 1..Len(free) : free'[k] = LowPart(free[k])
      /\ \A k \in 1..Len(free) : free'[Len(free) + k] = HighPart(free[k])
      /\ Len(free') = 2 * Len(free)
  <2>1. Len(a) = Len(free) /\ Len(b) = Len(free) BY <1>4, <1>5
  <2>2. Len(free') = 2 * Len(free) BY <2>1, <1>3, <1>6
  <2>3. \A k \in 1..Len(free) : free'[k] = LowPart(free[k])
    BY <2>1, <1>4, <1>6, Zenon
  <2>4. \A k \in 1..Len(free) : free'[Len(free) + k] = HighPart(free[k])
    BY <2>1, <1>5, <1>6, Zenon
  <2> QED BY <2>2, <2>3, <2>4
<1>8. ASSUME NEW k \in DOMAIN free'
      PROVE  \E j \in DOMAIN free : free'[k].lo >= free[j].lo /\ free'[k].hi <= free[j].hi
  <2>1. k \in 1..Len(free') BY <1>6
  <2>2. CASE k \in 1..Len(free)
    <3>1. free'[k] = LowPart(free[k]) BY <2>2, <1>7
    <3>2. free[k] \in RunSet BY <2>2, <1>3
    <3>3. free'[k].lo >= free[k].lo /\ free'[k].hi <= free[k].hi
      BY <3>1, <3>2, Parts DEF RunSet
    <3> QED BY <2>2, <3>3, <1>3
  <2>3. CASE k \notin 1..Len(free)
    <3>1. PICK j \in 1..Len(free) : j = k - Len(free) /\ free'[k] = b[j]
      BY <2>1, <2>3, <1>4, <1>5, <1>6
    <3>2. free'[k] = HighPart(free[j]) /\ free[j] \in RunSet BY <3>1, <1>5, <1>3
    <3>3. free'[k].lo >= free[j].lo /\ free'[k].hi <= free[j].hi
      BY <3>2, Parts DEF RunSet
    <3> QED BY <3>1, <3>3, <1>3
  <2> QED BY <2>2, <2>3
<1> QED BY <1>6, <1>7, <1>8

(* check_page_free_list moves the low pages to the front and loses none.   *)
LEMMA CheckFreeStep ==
    ASSUME BootInv, check_page_free_list PROVE BootInv'
<1>0. free \in Seq(RunSet) /\ bpc = "check_free"
  BY DEF BootInv, BootShape, check_page_free_list
<1>1. /\ UNCHANGED <<npages, npages_basemem, nextfree, kern_pgdir, pages, envs, pde,
                     kmap, cr3, mmio>>
      /\ bpc' \in {"check_page", "panic"}
  BY DEF check_page_free_list, Panic
<1>2. /\ LaidOut /\ kmap = <<>> /\ mmio = MMIOBASE /\ pde = {<<PDX(UVPT), kern_pgdir>>}
  BY <1>0 DEF BootInv, Layout, Allocating, Listing
<1>3. free' \in Seq(RunSet)
  BY <1>0, Sorted
<1>4. BootShape'
  BY <1>1, <1>3 DEF BootInv, BootShape, Listing
<1>5. Layout'
  BY <1>1, <1>2 DEF Layout, LaidOut, PagesAt, Allocating, Listing
<1>6. ASSUME NEW k \in DOMAIN free', Left(k)'
      PROVE  Spare(free[k].lo, free[k].hi)' /\ free'[k].hi < npages'
  <2>1. PICK j \in DOMAIN free : free'[k].lo >= free[j].lo /\ free'[k].hi <= free[j].hi
    BY <1>0, Sorted
  <2>2. free[j] \in RunSet /\ free'[k] \in RunSet BY <1>0, <1>3
  <2>3. free'[k].lo <= free'[k].hi BY <1>6 DEF Left
  <2>4. Left(j) BY <2>1, <2>2, <2>3 DEF Left, RunSet
  <2>5. Spare(free[j].lo, free[j].hi) /\ free[j].hi < npages
    BY <1>0, <2>4 DEF BootInv, FreeSpare, FreeTyped, Allocating
  <2>6. FirstFree \in Nat /\ FirstFree' = FirstFree /\ npages \in Nat /\ npages' = npages
    <3>1. EXTPHYSMEM \in Nat BY Numbers, SMT
    <3> QED BY <1>1, <3>1 DEF FirstFree, BootInv, BootShape
  <2>7. MPENTRY \in Nat /\ IOPHYSMEM \in Nat BY Numbers, SMT
  <2> QED BY <2>1, <2>2, <2>5, <2>6, <2>7 DEF Spare, RunSet
<1>7. FreeSpare' /\ FreeTyped'
  BY <1>1, <1>2, <1>6 DEF FreeSpare, FreeTyped
<1>8. Mapped' /\ PageTablesKnown'
  BY <1>1, <1>2 DEF Mapped, KernelRegions, IoRegions, PageTablesKnown, Mapping
<1> QED BY <1>4, <1>5, <1>7, <1>8 DEF BootInv

(* page_alloc: the page table is a spare page, and the list stays one of   *)
(* spare pages.                                                            *)
LEMMA TableStep ==
    ASSUME BootInv, bpc \in {"check_page", "map", "done"}, NEW index \in Nat,
           page_alloc(index), npages' = npages, nextfree' = nextfree,
           kern_pgdir' = kern_pgdir
    PROVE  /\ free' \in Seq(RunSet) /\ pde' \subseteq Nat \X Int
           /\ FreeSpare' /\ FreeTyped'
           /\ Index' = Index \cup {index}
<1>1. PICK k \in DOMAIN free : /\ Left(k)
                               /\ pde' = pde \cup {<<index, free[k].hi>>}
                               /\ free' = [free EXCEPT ![k].hi = @ - 1]
  BY DEF page_alloc, AtFront
<1>2. /\ free \in Seq(RunSet) /\ pde \subseteq Nat \X Int /\ npages \in Nat /\ nextfree \in Nat
  BY DEF BootInv, BootShape
<1>3. /\ free' \in Seq(RunSet) /\ DOMAIN free' = DOMAIN free
      /\ \A j \in DOMAIN free : j # k => free'[j] = free[j]
      /\ free'[k].lo = free[k].lo /\ free'[k].hi = free[k].hi - 1
      /\ free[k].lo \in Nat /\ free[k].hi \in Int
  <2>1. free[k] \in RunSet BY <1>2
  <2>2. [free[k] EXCEPT !.hi = @ - 1] \in RunSet BY <2>1 DEF RunSet
  <2>3. free' = [free EXCEPT ![k] = [free[k] EXCEPT !.hi = @ - 1]] BY <1>1, <1>2
  <2>4. free[k].lo \in Nat /\ free[k].hi \in Int BY <2>1 DEF RunSet
  <2>5. /\ [free[k] EXCEPT !.hi = @ - 1].lo = free[k].lo
        /\ [free[k] EXCEPT !.hi = @ - 1].hi = free[k].hi - 1
    BY <2>1 DEF RunSet
  <2>6. \A i \in DOMAIN free : free'[i] \in RunSet
    BY <1>2, <2>2, <2>3
  <2>7. DOMAIN free' = DOMAIN free /\ \A j \in DOMAIN free : j # k => free'[j] = free[j]
    BY <1>2, <2>3
  <2>8. free'[k] = [free[k] EXCEPT !.hi = @ - 1]
    BY <1>2, <2>3
  <2>9. free' \in Seq(RunSet)
    <3>1. Len(free) \in Nat /\ DOMAIN free = 1..Len(free) BY <1>2
    <3>2. free' = [i \in 1..Len(free) |-> free'[i]] BY <2>3, <2>7, <3>1
    <3> QED BY <2>6, <3>1, <3>2
  <2> QED BY <2>4, <2>5, <2>7, <2>8, <2>9
<1>4. pde' \subseteq Nat \X Int
  BY <1>1, <1>2, <1>3
<1>5. FirstFree \in Nat /\ FirstFree' = FirstFree /\ MPENTRY \in Nat /\ IOPHYSMEM \in Nat
      /\ PDX(UVPT)' = PDX(UVPT)
  <2>1. EXTPHYSMEM \in Nat /\ MPENTRY \in Nat /\ IOPHYSMEM \in Nat BY Numbers, SMT
  <2> QED BY <1>2, <2>1 DEF FirstFree, PDX
<1>6. \A j \in DOMAIN free : Left(j) => Spare(free[j].lo, free[j].hi) /\ free[j].hi < npages
  BY DEF BootInv, FreeSpare, FreeTyped, Allocating
<1>7. \A j \in DOMAIN free' : Left(j)' => Spare(free[j].lo, free[j].hi)' /\ free'[j].hi < npages'
  <2> SUFFICES ASSUME NEW j \in DOMAIN free, Left(j)'
               PROVE  Spare(free[j].lo, free[j].hi)' /\ free'[j].hi < npages'
    BY <1>3
  <2>1. CASE j # k BY <2>1, <1>3, <1>5, <1>6 DEF Left, Spare
  <2>2. CASE j = k BY <2>2, <1>1, <1>2, <1>3, <1>5, <1>6 DEF Left, Spare
  <2> QED BY <2>1, <2>2
<1>8. \A e \in pde' : e = <<PDX(UVPT)', kern_pgdir'>> \/ Spare(e[2], e[2])'
  <2> TAKE e \in pde'
  <2>1. CASE e \in pde
    BY <2>1, <1>5 DEF BootInv, FreeSpare, Allocating, Spare
  <2>2. CASE e = <<index, free[k].hi>>
    BY <2>2, <1>1, <1>2, <1>3, <1>5, <1>6 DEF Left, Spare
  <2> QED BY <1>1, <2>1, <2>2
<1>9. FreeSpare' /\ FreeTyped'
  BY <1>7, <1>8 DEF FreeSpare, FreeTyped
<1>10. Index' = Index \cup {index}
  <2>1. <<index, free[k].hi>>[1] = index OBVIOUS
  <2>2. PICK x : x = <<index, free[k].hi>> OBVIOUS
  <2>3. pde' = pde \cup {x} /\ x[1] = index BY <1>1, <2>1, <2>2
  <2> QED BY ONLY <2>3 DEF Index
<1> QED BY <1>3, <1>4, <1>9, <1>10

(* check_page leaves three pages taken from the MMIO window, by            *)
(* mmio_map_region.                                                        *)
LEMMA CheckPageStep ==
    ASSUME BootInv, check_page PROVE BootInv'
<1> USE DEF check_page
<1>1. /\ LaidOut /\ kmap = <<>> /\ mmio = MMIOBASE /\ bpc = "check_page" /\ bpc' = "map"
      /\ kmap' = <<>>
  BY DEF BootInv, Layout, Allocating, Listing
<1>2. mmio' = mmio + 3 /\ mmio' \in MMIOBASE .. MMIOLIM
  <2>1. ROUNDUP(4097) = 2 /\ ROUNDUP(4096) = 1 BY Numbers, SMT DEF ROUNDUP
  <2> QED BY <1>1, <2>1, Numbers, SMT
<1>3. PDX(MMIOBASE) \in Nat
  BY Numbers, SMT DEF PDX
<1>4. /\ free' \in Seq(RunSet) /\ pde' \subseteq Nat \X Int /\ FreeSpare' /\ FreeTyped'
      /\ Index' = Index \cup {PDX(MMIOBASE)}
  BY <1>1, <1>3, TableStep
<1>5. Index = {PDX(UVPT)}
  <2>1. pde = {<<PDX(UVPT), kern_pgdir>>} BY <1>1 DEF BootInv, Layout, Listing
  <2> QED BY <2>1 DEF Index
<1>6. BootShape'
  BY <1>1, <1>2, <1>4 DEF BootInv, BootShape, Mapping
<1>7. Layout'
  BY <1>1 DEF Layout, LaidOut, PagesAt, Allocating, Listing
<1>8. Mapped'
  <2>1. 0 < NRegions BY ImageBounds, SMT DEF NRegions
  <2> QED BY <1>1, <2>1 DEF Mapped, KernelRegions, IoRegions
<1>9. PageTablesKnown'
  BY <1>1, <1>4, <1>5 DEF PageTablesKnown
<1> QED BY <1>4, <1>6, <1>7, <1>8, <1>9 DEF BootInv

(* The regions do not move once the arrays have been placed.               *)
LEMMA RegionsKept ==
    ASSUME npages' = npages, pages' = pages, envs' = envs
    PROVE  Regions' = Regions
  BY SMT DEF Regions, PagesSize, UserRegion, Region, mem_init_mp, kstacktop

(* boot_map_region: a new table, or one that is there.                     *)
LEMMA RegionStep ==
    ASSUME BootInv, bpc \in {"map", "done"}, NEW c \in RegionSet, boot_map_region(c),
           UNCHANGED <<npages, nextfree, kern_pgdir, pages, envs>>,
           bpc' \in {"map", "check", "done"}
    PROVE  /\ free' \in Seq(RunSet) /\ pde' \subseteq Nat \X Int
           /\ kmap' \in Seq(RegionSet) /\ Len(kmap') = Len(kmap) + 1
           /\ kmap'[Len(kmap) + 1] = c
           /\ \A k \in DOMAIN kmap : kmap'[k] = kmap[k]
           /\ FreeSpare' /\ FreeTyped' /\ PageTablesKnown'
<1>1. /\ kmap' = Append(kmap, c) /\ kmap \in Seq(RegionSet)
      /\ free \in Seq(RunSet) /\ pde \subseteq Nat \X Int /\ c.va \in Nat
  BY DEF boot_map_region, BootInv, BootShape, RegionSet
<1>2. PDX(c.va) \in Nat
  BY <1>1, Numbers, SMT DEF PDX
<1>3. /\ free' \in Seq(RunSet) /\ pde' \subseteq Nat \X Int /\ FreeSpare' /\ FreeTyped'
      /\ Index' = Index \cup {PDX(c.va)}
  <2>1. CASE PDX(c.va) \in Index
    <3>1. pde' = pde /\ free' = free BY <2>1 DEF boot_map_region, Index
    <3>2. FreeTyped' BY <3>1 DEF BootInv, FreeTyped, Left
    <3>3. FreeSpare'
      BY <3>1 DEF BootInv, FreeSpare, Spare, FirstFree, PDX, Left, Allocating
    <3> QED BY <1>1, <2>1, <3>1, <3>2, <3>3 DEF Index
  <2>2. CASE PDX(c.va) \notin Index
    <3>1. page_alloc(PDX(c.va)) BY <2>2 DEF boot_map_region, Index
    <3> QED BY <3>1, <1>2, TableStep
  <2> QED BY <2>1, <2>2
<1>4. /\ kmap' \in Seq(RegionSet) /\ Len(kmap') = Len(kmap) + 1
      /\ kmap'[Len(kmap) + 1] = c
      /\ \A k \in DOMAIN kmap : kmap'[k] = kmap[k]
      /\ DOMAIN kmap' = DOMAIN kmap \cup {Len(kmap) + 1}
  BY <1>1
<1>5. PageTablesKnown'
  <2>1. Index = {PDX(UVPT), PDX(MMIOBASE)} \cup {PDX(kmap[k].va) : k \in DOMAIN kmap}
    BY DEF BootInv, PageTablesKnown, Mapping
  <2>2. {PDX(kmap'[k].va) : k \in DOMAIN kmap'} =
           {PDX(kmap[k].va) : k \in DOMAIN kmap} \cup {PDX(c.va)}
    BY <1>4
  <2>3. Index' = {PDX(UVPT), PDX(MMIOBASE)} \cup {PDX(kmap'[k].va) : k \in DOMAIN kmap'}
    BY <1>3, <2>1, <2>2
  <2> QED BY <2>3 DEF PageTablesKnown
<1> QED BY <1>3, <1>4, <1>5

(* One call of boot_map_region, with the page tables it takes from the     *)
(* free list.                                                              *)
LEMMA MapStep ==
    ASSUME BootInv, map_kernel PROVE BootInv'
<1> USE DEF map_kernel
<1>1. /\ bpc = "map" /\ LaidOut /\ kmap \in Seq(RegionSet) /\ Len(kmap) < NRegions
      /\ Regions \in Seq(RegionSet) /\ Len(Regions) = NRegions
      /\ BootShape /\ Len(kmap) \in Nat /\ NRegions \in Nat
  <2>1. bpc = "map" /\ LaidOut /\ Len(kmap) < NRegions
    BY DEF BootInv, Layout, Mapped, KernelRegions, Allocating
  <2>2. BootShape BY DEF BootInv
  <2>3. kmap \in Seq(RegionSet) BY <2>2 DEF BootShape
  <2>4. Regions \in Seq(RegionSet) /\ Len(Regions) = NRegions BY <2>2, RegionsAre
  <2>5. NRegions \in Nat BY ImageBounds
  <2> QED BY <2>1, <2>2, <2>3, <2>4, <2>5
<1>2. PICK c \in RegionSet : c = Regions[Len(kmap) + 1]
  BY <1>1
<1>3. /\ UNCHANGED <<npages, npages_basemem, nextfree, kern_pgdir, pages, envs, cr3, mmio>>
      /\ \/ /\ boot_map_region(c)
            /\ bpc' = IF Len(kmap') = NRegions THEN "check" ELSE "map"
         \/ bpc' = "panic" /\ UNCHANGED <<kmap, pde, free>>
  <2>1. Len(Regions') = Len(Regions) BY RegionsKept
  <2> QED BY <1>1, <1>2, <2>1 DEF Panic
<1>4. LaidOut' /\ Regions' = Regions
  BY <1>1, <1>3, RegionsKept DEF LaidOut, PagesAt
<1>5. CASE bpc' = "panic" /\ UNCHANGED <<kmap, pde, free>>
  <2>1. BootShape' BY <1>1, <1>3, <1>5 DEF BootShape
  <2>2. Layout' BY <1>5 DEF Layout, Allocating, Listing
  <2>3. FreeSpare' /\ PageTablesKnown'
    BY <1>5 DEF FreeSpare, PageTablesKnown, Allocating, Mapping
  <2>4. FreeTyped' BY <1>3, <1>5 DEF BootInv, FreeTyped, Left
  <2>5. Mapped'
    <3>1. KernelRegions' BY <1>4, <1>5 DEF BootInv, Mapped, KernelRegions
    <3>2. IoRegions' BY <1>3, <1>5 DEF BootInv, Mapped, IoRegions
    <3> QED BY <3>1, <3>2 DEF Mapped
  <2> QED BY <2>1, <2>2, <2>3, <2>4, <2>5 DEF BootInv
<1>6. CASE /\ boot_map_region(c)
           /\ bpc' = IF Len(kmap') = NRegions THEN "check" ELSE "map"
  <2>1. bpc' \in {"map", "check", "done"} BY <1>6
  <2>2. /\ free' \in Seq(RunSet) /\ pde' \subseteq Nat \X Int
        /\ kmap' \in Seq(RegionSet) /\ Len(kmap') = Len(kmap) + 1
        /\ kmap'[Len(kmap) + 1] = c
        /\ \A k \in DOMAIN kmap : kmap'[k] = kmap[k]
        /\ FreeSpare' /\ FreeTyped' /\ PageTablesKnown'
    BY <1>1, <1>3, <1>6, <2>1, RegionStep
  <2>3. BootShape' BY <1>1, <1>3, <1>6, <2>2 DEF BootShape, Mapping
  <2>4. Layout' BY <1>4, <1>6 DEF Layout, Allocating, Listing
  <2>5. KernelRegions'
    <3>1. \A k \in DOMAIN kmap' : k <= NRegions => kmap'[k] = Regions[k]
      <4> TAKE k \in DOMAIN kmap'
      <4>1. CASE k \in DOMAIN kmap
        BY <2>2, <4>1 DEF BootInv, Mapped, KernelRegions
      <4>2. CASE k = Len(kmap) + 1
        BY <1>2, <2>2, <4>2
      <4> QED BY <1>1, <2>2, <4>1, <4>2
    <3>2. bpc' = "map" => Len(kmap') < NRegions
      BY <1>1, <1>6, <2>2
    <3>3. bpc' = "check" => Len(kmap') = NRegions
      BY <1>6
    <3>4. bpc' # "done" BY <1>6
    <3> QED BY <3>1, <3>2, <3>3, <3>4, <1>4 DEF KernelRegions
  <2>6. IoRegions'
    <3>1. \A k \in DOMAIN kmap' : ~(k > NRegions) /\ k \in Nat
      BY <1>1, <2>2
    <3> QED BY <3>1 DEF IoRegions
  <2> QED BY <2>2, <2>3, <2>4, <2>5, <2>6 DEF BootInv, Mapped
<1> QED BY <1>3, <1>5, <1>6

(* lcr3(kern_pgdir) after the checks.                                      *)
LEMMA InstallStep ==
    ASSUME BootInv, install_kern_pgdir PROVE BootInv'
<1> USE DEF install_kern_pgdir
<1>1. /\ bpc = "check" /\ bpc' = "done" /\ LaidOut /\ Len(kmap) = NRegions
      /\ NRegions \in Nat
  BY ImageBounds DEF BootInv, Layout, Mapped, KernelRegions, Allocating
<1>2. BootShape' BY <1>1 DEF BootInv, BootShape
<1>3. Layout' BY <1>1 DEF Layout, LaidOut, PagesAt, Allocating, Listing
<1>4. FreeSpare' BY <1>1 DEF BootInv, FreeSpare, Spare, FirstFree, PDX, Left, Allocating
<1>5. FreeTyped' BY DEF BootInv, FreeTyped, Left
<1>6. Mapped'
  <2>1. Regions' = Regions BY RegionsKept
  <2>2. KernelRegions'
    BY <1>1, <2>1 DEF BootInv, Mapped, KernelRegions, LaidOut, PagesAt
  <2>3. IoRegions' BY DEF BootInv, Mapped, IoRegions
  <2> QED BY <2>2, <2>3 DEF Mapped
<1>7. PageTablesKnown' BY <1>1 DEF BootInv, PageTablesKnown, Index, PDX, Mapping
<1> QED BY <1>2, <1>3, <1>4, <1>5, <1>6, <1>7 DEF BootInv

(* Every step of mem_init.                                                 *)
LEMMA BootStep == BootInv /\ BootNext => BootInv'
  BY DetectStep, PgdirStep, PagesStep, EnvsStep, PageInitStep, CheckFreeStep,
     CheckPageStep, MapStep, InstallStep DEF BootNext

(* Steps of other code leave mem_init's state alone ...                    *)
LEMMA BootIdle == BootInv /\ UNCHANGED bootVars => BootInv'
<1> SUFFICES ASSUME BootInv, UNCHANGED bootVars PROVE BootInv'
  OBVIOUS
<1> USE DEF bootVars
<1>1. BootShape' BY DEF BootInv, BootShape
<1>2. Layout' BY DEF BootInv, Layout, LaidOut, PagesAt, PDX, Allocating, Listing
<1>3. FreeSpare' BY DEF BootInv, FreeSpare, Spare, FirstFree, PDX, Left, Allocating
<1>4. FreeTyped' BY DEF BootInv, FreeTyped, Left
<1>5. Mapped'
  <2>1. Regions' = Regions BY RegionsKept
  <2>2. KernelRegions' BY <2>1 DEF BootInv, Mapped, KernelRegions, LaidOut, PagesAt
  <2>3. IoRegions' BY DEF BootInv, Mapped, IoRegions
  <2> QED BY <2>2, <2>3 DEF Mapped
<1>6. PageTablesKnown' BY DEF BootInv, PageTablesKnown, Index, PDX, Mapping
<1> QED BY <1>1, <1>2, <1>3, <1>4, <1>5, <1>6 DEF BootInv

(* ... or panic ...                                                        *)
LEMMA PanicStep ==
    ASSUME BootInv, bpc = "done", Panic,
           UNCHANGED <<npages, npages_basemem, nextfree, kern_pgdir, pages, envs, free, pde,
                       kmap, cr3, mmio>>
    PROVE  BootInv'
<1> USE DEF Panic
<1>1. BootShape' BY DEF BootInv, BootShape
<1>2. Layout' BY DEF Layout, Allocating, Listing
<1>3. FreeSpare' BY DEF FreeSpare
<1>4. FreeTyped' BY DEF BootInv, FreeTyped, Left
<1>5. Mapped'
  <2>1. Regions' = Regions BY RegionsKept
  <2>2. KernelRegions' BY <2>1 DEF BootInv, Mapped, KernelRegions, LaidOut, PagesAt
  <2>3. IoRegions' BY DEF BootInv, Mapped, IoRegions
  <2> QED BY <2>2, <2>3 DEF Mapped
<1>6. PageTablesKnown' BY DEF PageTablesKnown, Mapping
<1> QED BY <1>1, <1>2, <1>3, <1>4, <1>5, <1>6 DEF BootInv

(* ... or map the page at the static variable of mmio_map_region and       *)
(* advance it; the page table is check_page's.                             *)
LEMMA IoStep ==
    ASSUME BootInv, bpc = "done", NEW pa \in Nat, mmio + 1 <= MMIOLIM,
           boot_map_region(Region(mmio, 1, pa, FALSE, TRUE)), mmio' = mmio + 1,
           UNCHANGED <<bpc, npages, npages_basemem, nextfree, kern_pgdir, pages, envs, cr3>>
    PROVE  /\ BootInv'
           /\ Len(kmap') = Len(kmap) + 1 /\ kmap'[Len(kmap) + 1].va = mmio
           /\ \A k \in DOMAIN kmap : kmap'[k] = kmap[k]
           /\ kmap' \in Seq(RegionSet) /\ Len(kmap) >= NRegions
<1>1. PICK c : c = Region(mmio, 1, pa, FALSE, TRUE)
  OBVIOUS
<1>2. MMIOBASE \in Nat /\ MMIOLIM \in Nat
  BY Numbers, SMT
<1>3. mmio \in MMIOBASE .. MMIOLIM - 1 /\ mmio \in Nat
  BY <1>2 DEF BootInv, BootShape
<1>4. c \in RegionSet /\ c.va = mmio /\ c.n = 1 /\ ~c.u
  BY <1>1, <1>3 DEF Region, RegionSet
<1>5. /\ free' \in Seq(RunSet) /\ pde' \subseteq Nat \X Int
      /\ kmap' \in Seq(RegionSet) /\ Len(kmap') = Len(kmap) + 1
      /\ kmap'[Len(kmap) + 1] = c
      /\ \A k \in DOMAIN kmap : kmap'[k] = kmap[k]
      /\ FreeSpare' /\ FreeTyped' /\ PageTablesKnown'
  <2>1. boot_map_region(c) BY <1>1
  <2> QED BY <2>1, <1>4, RegionStep
<1>6. LaidOut /\ Len(kmap) >= NRegions /\ kmap \in Seq(RegionSet) /\ NRegions \in Nat
  BY ImageBounds DEF BootInv, BootShape, Layout, Mapped, KernelRegions, Allocating
<1>7. BootShape' BY <1>2, <1>3, <1>5 DEF BootInv, BootShape
<1>8. Layout' BY <1>6 DEF Layout, LaidOut, PagesAt, Allocating, Listing
<1>9. DOMAIN kmap' = DOMAIN kmap \cup {Len(kmap) + 1} /\ Len(kmap) \in Nat
      /\ DOMAIN kmap = 1..Len(kmap)
  BY <1>5, <1>6
<1>10. KernelRegions'
  <2>1. Regions' = Regions BY RegionsKept
  <2>2. \A k \in DOMAIN kmap' : k <= NRegions => kmap'[k] = Regions[k]
    BY <1>5, <1>6, <1>9 DEF BootInv, Mapped, KernelRegions
  <2> QED BY <2>1, <2>2, <1>5, <1>6, <1>9 DEF KernelRegions, LaidOut, PagesAt
<1>11. IoRegions'
  <2>1. \A k \in DOMAIN kmap : k > NRegions =>
           kmap[k].va \in MMIOBASE .. mmio - 1 /\ kmap[k].n = 1 /\ ~kmap[k].u
    BY DEF BootInv, Mapped, IoRegions
  <2>2. \A k \in DOMAIN kmap' : k > NRegions =>
           kmap'[k].va \in MMIOBASE .. mmio' - 1 /\ kmap'[k].n = 1 /\ ~kmap'[k].u
    <3> TAKE k \in DOMAIN kmap'
    <3>1. CASE k \in DOMAIN kmap BY <3>1, <1>2, <1>3, <1>5, <2>1
    <3>2. CASE k = Len(kmap) + 1 BY <3>2, <1>2, <1>3, <1>4, <1>5
    <3> QED BY <3>1, <3>2, <1>9
  <2>3. \A j, k \in DOMAIN kmap' : j > NRegions /\ j < k => kmap'[j].va < kmap'[k].va
    <3> SUFFICES ASSUME NEW j \in DOMAIN kmap', NEW k \in DOMAIN kmap', j > NRegions, j < k
                 PROVE  kmap'[j].va < kmap'[k].va
      OBVIOUS
    <3>1. j \in DOMAIN kmap BY <1>9
    <3>2. kmap'[j] = kmap[j] /\ kmap[j].va \in MMIOBASE .. mmio - 1 BY <3>1, <1>5, <2>1
    <3>3. CASE k \in DOMAIN kmap
      BY <3>1, <3>3, <1>5 DEF BootInv, Mapped, IoRegions
    <3>4. CASE k = Len(kmap) + 1
      BY <3>2, <3>4, <1>2, <1>3, <1>4, <1>5
    <3> QED BY <3>3, <3>4, <1>9
  <2> QED BY <2>2, <2>3 DEF IoRegions
<1> QED BY <1>4, <1>5, <1>6, <1>7, <1>8, <1>10, <1>11 DEF BootInv, Mapped

-----------------------------------------------------------------------------
(* What follows from the invariant.                                        *)

(* The sizes of the arrays, in numbers.                                    *)
LEMMA ArraySizes ==
    ASSUME BootInv
    PROVE  /\ npages \in Nat /\ ROUNDUP(PagesSize) \in Nat
           /\ ROUNDUP(PagesSize) * 4096 >= 8 * npages
           /\ (ROUNDUP(PagesSize) - 1) * 4096 < 8 * npages
           /\ ROUNDUP(npages * SizeofPointer) \in Nat
           /\ ROUNDUP(npages * SizeofPointer) * 4096 >= 4 * npages
           /\ (ROUNDUP(npages * SizeofPointer) - 1) * 4096 < 4 * npages
           /\ ROUNDUP(EnvsSize) = 31
  <1>1. npages \in Nat BY DEF BootInv, BootShape
  <1>2. PagesSize = npages * 8 /\ npages * SizeofPointer = npages * 4
    BY <1>1, Numbers, SMT DEF PagesSize
  <1>3. npages * 8 \in Nat /\ npages * 4 \in Nat BY <1>1, SMT
  <1>4. PICK a \in Nat, b \in Nat : /\ a = ROUNDUP(npages * 8) /\ b = ROUNDUP(npages * 4)
    BY <1>3, RoundNat
  <1>5. a * 4096 >= npages * 8 /\ (a - 1) * 4096 < npages * 8
    BY <1>1, <1>4, Numbers, SMT DEF ROUNDUP
  <1>6. b * 4096 >= npages * 4 /\ (b - 1) * 4096 < npages * 4
    BY <1>1, <1>4, Numbers, SMT DEF ROUNDUP
  <1>7. ROUNDUP(EnvsSize) = 31 BY Sizes, SMT
  <1> QED BY <1>1, <1>2, <1>4, <1>5, <1>6, <1>7, SMT

(* Once the free list is built, everything is where boot_alloc put it.     *)
Placed(r, x) ==
    /\ r = ROUNDUP(PagesSize) /\ r * 4096 >= 8 * npages /\ (r - 1) * 4096 < 8 * npages
    /\ x * 4096 >= 4 * npages /\ (x - 1) * 4096 < 4 * npages
    /\ kern_pgdir = End + 1 /\ pages = End + 1 + x /\ envs = End + 1 + x + 31
    /\ FirstFree = End + 1 + x + 31 + 256
    /\ npages \in Nat /\ envs <= npages
    /\ Extent(pages, PagesSize) = pages .. pages + r - 1
    /\ Extent(envs, EnvsSize) = envs .. envs + 30
    /\ Arrays = (pages .. pages + r - 1) \cup (envs .. envs + 30)

(* Where kern_pgdir, pages[] and envs[] lie once they are allocated.       *)
LEMMA Places ==
    ASSUME BootInv, bpc \notin BeforeFreeList \cup {"panic"}
    PROVE  \E r \in Nat, x \in Nat : Placed(r, x)
<1>1. PICK r \in Nat, x \in Nat : r = ROUNDUP(PagesSize) /\ x = ROUNDUP(npages * SizeofPointer)
  BY ArraySizes
<1>2. /\ r * 4096 >= 8 * npages /\ (r - 1) * 4096 < 8 * npages
      /\ x * 4096 >= 4 * npages /\ (x - 1) * 4096 < 4 * npages /\ npages \in Nat
      /\ ROUNDUP(EnvsSize) = 31
  BY <1>1, ArraySizes, SMT
<1>3. LaidOut
  BY DEF BootInv, Layout, BeforeFreeList, Allocating, BootShape
<1>4. kern_pgdir = End + 1 /\ pages = End + 1 + x /\ envs = End + 1 + x + 31
      /\ nextfree = envs /\ envs <= npages
  BY <1>1, <1>3 DEF LaidOut, PagesAt
<1>5. FirstFree = End + 1 + x + 31 + 256
  BY <1>4, ImageBounds, Numbers, SMT DEF FirstFree
<1>6. /\ Extent(pages, PagesSize) = pages .. pages + r - 1
      /\ Extent(envs, EnvsSize) = envs .. envs + 30
  <2>1. envs + 31 - 1 = envs + 30 BY <1>4, ImageBounds, SMT
  <2> QED BY <1>1, <1>2, <2>1, SMT DEF Extent
<1>7. Arrays = (pages .. pages + r - 1) \cup (envs .. envs + 30)
  BY <1>6 DEF Arrays
<1>8. Placed(r, x)
  BY <1>1, <1>2, <1>4, <1>5, <1>6, <1>7 DEF Placed
<1> QED BY <1>8, Zenon

(* With at most 62 MB, pages[] ends where envs[] begins.     *)
LEMMA DisjointBelow ==
    ASSUME BootInv, npages <= MB62 PROVE BootArraysDisjoint
<1> SUFFICES ASSUME bpc \notin BeforeFreeList \cup {"panic"}
             PROVE  /\ ~Overlap(Extent(pages, PagesSize), Extent(envs, EnvsSize))
                    /\ kern_pgdir \notin Arrays
                    /\ \A p \in Arrays \cup {kern_pgdir} : p >= End
  BY DEF BootArraysDisjoint
<1>1. PICK r \in Nat, x \in Nat : Placed(r, x)
  BY Places, Zenon
<1>2. r <= 31 /\ x > 0
  BY <1>1, ImageBounds, SMT DEF Placed, MB62
<1>3. ~Overlap(Extent(pages, PagesSize), Extent(envs, EnvsSize))
  BY <1>1, <1>2, ImageBounds, SMT DEF Overlap, Placed
<1>4. \A p \in Arrays : p \in Int /\ p > kern_pgdir
  BY <1>1, <1>2, ImageBounds, SMT DEF Placed
<1> QED BY <1>1, <1>3, <1>4, ImageBounds, SMT DEF Placed

(* With more they overlap, whatever the kernel's size.                     *)
LEMMA OverlapAbove ==
    ASSUME BootInv, npages > MB62, bpc \notin BeforeFreeList \cup {"panic"}
    PROVE  ~BootArraysDisjoint
<1>1. PICK r \in Nat, x \in Nat : Placed(r, x)
  BY Places, Zenon
<1>2. envs \in pages .. pages + r - 1 /\ envs \in envs .. envs + 30
  BY <1>1, ImageBounds, SMT DEF Placed, MB62
<1>3. Overlap(Extent(pages, PagesSize), Extent(envs, EnvsSize))
  <2>1. envs \in Extent(pages, PagesSize) /\ envs \in Extent(envs, EnvsSize)
    <3>1. /\ Extent(pages, PagesSize) = pages .. pages + r - 1
          /\ Extent(envs, EnvsSize) = envs .. envs + 30
      BY <1>1 DEF Placed
    <3> QED BY ONLY <3>1, <1>2, Zenon
  <2> QED BY <2>1 DEF Overlap
<1> QED BY <1>3 DEF BootArraysDisjoint

(* Up to 574 MB the 256 pages that page_init skips above boot_alloc's end  *)
(* cover both arrays.                                                      *)
LEMMA KeptBelow ==
    ASSUME BootInv, npages <= MB574 PROVE BootMemoryKept
<1> SUFFICES ASSUME bpc \notin BeforeFreeList \cup {"panic"}
             PROVE  /\ \A k \in DOMAIN free : ~Overlap(Taken, free[k].lo .. free[k].hi)
                    /\ \A e \in pde : e[2] \notin Taken \/ e = <<PDX(UVPT), kern_pgdir>>
  BY DEF BootMemoryKept
<1>1. PICK r \in Nat, x \in Nat : Placed(r, x)
  BY Places, Zenon
<1>2. r <= 287
  <2>1. (r - 1) * 4096 < 8 * npages /\ npages \in Nat BY <1>1 DEF Placed
  <2>2. npages <= 146944 BY SMT DEF MB574
  <2> QED BY ONLY <2>1, <2>2, r \in Nat, SMT
<1>3. ASSUME NEW lo \in Int, NEW hi \in Int, NEW p \in lo .. hi, Spare(lo, hi) PROVE p \notin Taken
  <2>1. \/ p \in 1..6 \/ p \in 8..159 \/ p >= FirstFree
    BY <1>3, <1>1, ImageBounds, Numbers, SMT DEF Spare, Placed
  <2>2. p \notin Arrays
    BY <1>1, <1>2, <2>1, ImageBounds, SMT DEF Placed
  <2>3. p \notin {0, MPENTRY, kern_pgdir} \cup (IOPHYSMEM .. End - 1)
    BY <1>1, <2>1, ImageBounds, Numbers, SMT DEF Placed
  <2> QED BY <2>2, <2>3 DEF Taken
<1>4. \A k \in DOMAIN free : ~Overlap(Taken, free[k].lo .. free[k].hi)
  <2> SUFFICES ASSUME NEW k \in DOMAIN free, NEW p \in free[k].lo .. free[k].hi PROVE p \notin Taken
    BY DEF Overlap
  <2>1. free[k] \in RunSet BY DEF BootInv, BootShape
  <2>2. free[k].lo \in Int /\ free[k].hi \in Int BY <2>1 DEF RunSet
  <2>3. Left(k) BY <2>2 DEF Left
  <2>4. Spare(free[k].lo, free[k].hi)
    BY <2>3 DEF BootInv, BootShape, FreeSpare, BeforeFreeList, Allocating
  <2> QED BY <2>2, <2>4, <1>3
<1>5. \A e \in pde : e[2] \notin Taken \/ e = <<PDX(UVPT), kern_pgdir>>
  <2> SUFFICES ASSUME NEW e \in pde, e # <<PDX(UVPT), kern_pgdir>> PROVE e[2] \notin Taken
    OBVIOUS
  <2>1. e[2] \in Int BY DEF BootInv, BootShape
  <2>2. Spare(e[2], e[2]) BY DEF BootInv, BootShape, FreeSpare, BeforeFreeList, Allocating
  <2>3. e[2] \in e[2] .. e[2] BY <2>1
  <2> QED BY <2>1, <2>2, <2>3, <1>3
<1> QED BY <1>4, <1>5

(* Programs can read pages[] and envs[] and nothing else.                  *)
LEMMA UserReads ==
    ASSUME BootInv PROVE UserReadsArrays
<1> SUFFICES ASSUME NEW k \in DOMAIN kmap, kmap[k].u
             PROVE  ~kmap[k].w /\ kmap[k].pa .. kmap[k].pa + kmap[k].n - 1 \subseteq Arrays
  BY DEF UserReadsArrays
<1>1. BootShape /\ kmap \in Seq(RegionSet) /\ NRegions \in Nat
  BY ImageBounds DEF BootInv, BootShape
<1>2. k \in 1..NRegions /\ kmap[k] = Regions[k]
  <2>1. k \in Nat /\ k >= 1 BY <1>1
  <2> QED BY <1>1, <2>1 DEF BootInv, Mapped, IoRegions, KernelRegions
<1>3. k = 1 \/ k = 3
  <2>1. k \in 1..4 \/ k - 4 \in 1..NCPU \/ k - 4 - NCPU \in 1..64
    BY <1>2, ImageBounds, SMT DEF NRegions
  <2>2. CASE k \in 1..4
    <3>0. /\ Regions[2] = Region(KERNBASE + pages, ROUNDUP(PagesSize), pages, FALSE, TRUE)
          /\ Regions[4] = Region(KSTACKTOP - KSTKSIZE, KSTKSIZE, BootStack, FALSE, TRUE)
      BY <1>1, RegionsAre, Zenon
    <3>1. Regions[2].u = FALSE /\ Regions[4].u = FALSE BY ONLY <3>0 DEF Region
    <3>2. k = 1 \/ k = 2 \/ k = 3 \/ k = 4 BY <2>2, SMT
    <3> QED BY <1>2, <3>1, <3>2
  <2>3. CASE k - 4 \in 1..NCPU
    <3>1. Regions[4 + (k - 4)] = StackRegion(k - 4) BY <1>1, <2>3, RegionsAre
    <3>2. 4 + (k - 4) = k BY <1>2
    <3> QED BY <1>2, <3>1, <3>2 DEF StackRegion, Region
  <2>4. CASE k - 4 - NCPU \in 1..64
    <3>1. Regions[4 + NCPU + (k - 4 - NCPU)] = RamRegion(k - 4 - NCPU) BY <1>1, <2>4, RegionsAre
    <3>2. 4 + NCPU + (k - 4 - NCPU) = k BY <1>2, ImageBounds, SMT
    <3> QED BY <1>2, <3>1, <3>2 DEF RamRegion, Region
  <2> QED BY <2>1, <2>2, <2>3, <2>4
<1>4. CASE k = 1
  <2>1. kmap[k] = UserRegion(UPAGES, ROUNDUP(PagesSize), pages) BY <1>1, <1>2, <1>4, RegionsAre
  <2> QED BY <2>1 DEF UserRegion, Region, Arrays, Extent
<1>5. CASE k = 3
  <2>1. kmap[k] = UserRegion(UENVS, ROUNDUP(EnvsSize), envs) BY <1>1, <1>2, <1>5, RegionsAre
  <2> QED BY <2>1 DEF UserRegion, Region, Arrays, Extent
<1> QED BY <1>3, <1>4, <1>5

-----------------------------------------------------------------------------
(* check_kern_pgdir.  When mem_init has mapped everything, kmap is this:   *)
FirstMapped(r) ==
    /\ kmap[1].va = 978944 /\ kmap[1].n = r /\ kmap[1].pa = pages
    /\ kmap[2].va = 983040 + pages /\ kmap[2].n = r
    /\ kmap[3].va = 977920 /\ kmap[3].n = 31 /\ kmap[3].pa = envs
    /\ kmap[4].va = 983032 /\ kmap[4].n = 8
StackMapped(i) ==
    /\ kmap[4 + i].va = 983040 - (i - 1) * 16 - 8
    /\ kmap[4 + i].n = 8 /\ kmap[4 + i].pa = KStacks + (i - 1) * 8
RamMapped(i) ==
    /\ kmap[4 + NCPU + i].va = 983040 + (i - 1) * 1024
    /\ kmap[4 + NCPU + i].n = 1024 /\ kmap[4 + NCPU + i].pa = (i - 1) * 1024
AllMapped(r) ==
    /\ DOMAIN kmap = 1..NRegions
    /\ FirstMapped(r)
    /\ \A i \in 1..NCPU : StackMapped(i)
    /\ \A i \in 1..64 : RamMapped(i)
Bounded(r) ==
    /\ r \in 0..128 /\ r = ROUNDUP(PagesSize) /\ pages \in Nat /\ envs \in Nat
    /\ npages \in Nat /\ npages <= 65536 /\ pages < 65536

(* When mem_init checks kern_pgdir, every region has been mapped.          *)
LEMMA MappedAll ==
    ASSUME BootInv, bpc = "check", npages <= MB256
    PROVE  \E r \in Nat : AllMapped(r) /\ Bounded(r)
<1>1. PICK r \in Nat, x \in Nat : Placed(r, x)
  BY Places, Zenon DEF BeforeFreeList
<1>2. npages <= 65536 BY SMT DEF MB256
<1>3. Bounded(r)
  <2>1. /\ r = ROUNDUP(PagesSize) /\ (r - 1) * 4096 < 8 * npages
        /\ pages = End + 1 + x /\ envs = pages + 31 /\ npages \in Nat /\ envs <= npages
    BY <1>1, ImageBounds, SMT DEF Placed
  <2>2. r \in 0..128 /\ npages \in Nat
    <3>1. (r - 1) * 4096 < 8 * npages /\ npages \in Nat BY <2>1
    <3>2. r <= 128 BY ONLY <3>1, <1>2, r \in Nat, SMT
    <3>3. r \in 0..128 BY ONLY <3>2, r \in Nat, SMT
    <3> QED BY <3>1, <3>3, SMT
  <2>3. pages \in Nat /\ envs \in Nat /\ pages < 65536
    BY ONLY <2>1, <1>2, x \in Nat, ImageBounds, SMT
  <2>4. r = ROUNDUP(PagesSize) BY <2>1
  <2> QED BY ONLY <2>2, <2>3, <2>4, <1>2, SMT DEF Bounded
<1>4. /\ BootShape /\ Len(kmap) = NRegions /\ kmap \in Seq(RegionSet)
      /\ NRegions \in Nat
  BY ImageBounds DEF BootInv, BootShape, Mapped, KernelRegions
<1>5. DOMAIN kmap = 1..NRegions /\ \A k \in DOMAIN kmap : kmap[k] = Regions[k]
  <2>1. DOMAIN kmap = 1..NRegions BY <1>4
  <2> QED BY <1>4, <2>1 DEF BootInv, Mapped, KernelRegions
<1>51. /\ 1 \in 1..NRegions /\ 2 \in 1..NRegions /\ 3 \in 1..NRegions /\ 4 \in 1..NRegions
       /\ \A i \in 1..NCPU : 4 + i \in 1..NRegions
       /\ \A i \in 1..64 : 4 + NCPU + i \in 1..NRegions
  BY ImageBounds, SMT DEF NRegions
<1>6. /\ kmap[1] = UserRegion(UPAGES, ROUNDUP(PagesSize), pages)
      /\ kmap[2] = Region(KERNBASE + pages, ROUNDUP(PagesSize), pages, FALSE, TRUE)
      /\ kmap[3] = UserRegion(UENVS, ROUNDUP(EnvsSize), envs)
      /\ kmap[4] = Region(KSTACKTOP - KSTKSIZE, KSTKSIZE, BootStack, FALSE, TRUE)
  <2>1. 1 \in DOMAIN kmap /\ 2 \in DOMAIN kmap /\ 3 \in DOMAIN kmap /\ 4 \in DOMAIN kmap
    BY <1>5, <1>51
  <2> QED BY <1>4, <1>5, <2>1, RegionsAre, Zenon
<1>7. FirstMapped(r)
  <2>1. r = ROUNDUP(PagesSize) BY <1>1 DEF Placed
  <2>2. ROUNDUP(EnvsSize) = 31 BY Sizes, SMT
  <2>3. /\ kmap[1].va = UPAGES /\ kmap[1].n = r /\ kmap[1].pa = pages
        /\ kmap[2].va = KERNBASE + pages /\ kmap[2].n = r
        /\ kmap[3].va = UENVS /\ kmap[3].n = 31 /\ kmap[3].pa = envs
        /\ kmap[4].va = KSTACKTOP - KSTKSIZE /\ kmap[4].n = KSTKSIZE
    BY ONLY <1>6, <2>1, <2>2 DEF UserRegion, Region
  <2> QED BY ONLY <2>3, Numbers, SMT DEF FirstMapped
<1>8. ASSUME NEW i \in 1..NCPU
      PROVE  StackMapped(i)
  <2>1. Regions[4 + i] = StackRegion(i) BY <1>4, RegionsAre
  <2>2. 4 + i \in DOMAIN kmap BY <1>5, <1>51
  <2>3. kmap[4 + i] = StackRegion(i) BY <1>5, <2>1, <2>2, Zenon
  <2>4. /\ kmap[4 + i].va = kstacktop(i-1) - KSTKSIZE /\ kmap[4 + i].n = KSTKSIZE
        /\ kmap[4 + i].pa = KStacks + (i-1) * KSTKSIZE
    BY ONLY <2>3 DEF StackRegion, Region
  <2>5. kstacktop(i-1) - KSTKSIZE = 983040 - (i - 1) * 16 - 8
    BY ImageBounds, Numbers, SMT DEF kstacktop
  <2>6. KSTKSIZE = 8 BY Numbers, SMT
  <2> QED BY ONLY <2>4, <2>5, <2>6, SMT DEF StackMapped
<1>9. ASSUME NEW i \in 1..64
      PROVE  RamMapped(i)
  <2>1. Regions[4 + NCPU + i] = RamRegion(i) BY <1>4, RegionsAre
  <2>2. 4 + NCPU + i \in DOMAIN kmap BY <1>5, <1>51
  <2>3. kmap[4 + NCPU + i] = RamRegion(i) BY <1>5, <2>1, <2>2, Zenon
  <2>4. /\ kmap[4 + NCPU + i].va = KERNBASE + (i-1) * PT /\ kmap[4 + NCPU + i].n = PT
        /\ kmap[4 + NCPU + i].pa = (i-1) * PT
    BY ONLY <2>3 DEF RamRegion, Region
  <2>5. KERNBASE = 983040 /\ PT = 1024 BY Numbers, SMT
  <2> QED BY ONLY <2>4, <2>5, SMT DEF RamMapped
<1>10. AllMapped(r) BY <1>5, <1>7, <1>8, <1>9 DEF AllMapped
<1> QED BY <1>3, <1>10, Zenon

(* The last of several mappings counts.                                    *)
LEMMA LastIs ==
    ASSUME NEW S \in SUBSET Nat, NEW k \in S, \A j \in S : j <= k
    PROVE  Last(S) = k
<1>1. \E m \in S : \A j \in S : j <= m OBVIOUS
<1>2. Last(S) \in S /\ \A j \in S : j <= Last(S)
  BY <1>1 DEF Last
<1>3. Last(S) \in Nat /\ k \in Nat BY <1>2
<1>4. Last(S) <= k /\ k <= Last(S) BY <1>2
<1> QED BY <1>3, <1>4

(* A mapping is one of the four first, of a stack or of a part of memory.  *)
LEMMA Which ==
    ASSUME NEW r, AllMapped(r), NEW k \in DOMAIN kmap
    PROVE  \/ k \in 1..4
           \/ \E i \in 1..NCPU : k = 4 + i
           \/ \E i \in 1..64 : k = 4 + NCPU + i
<1>1. k \in Int /\ (k \in 1..4 \/ k - 4 \in 1..NCPU \/ k - 4 - NCPU \in 1..64)
  <2>1. DOMAIN kmap = 1..NRegions BY DEF AllMapped
  <2>2. k \in 1 .. 68 + NCPU BY <2>1 DEF NRegions
  <2> QED BY ONLY <2>2, ImageBounds, SMT
<1>2. k = 4 + (k - 4) /\ k = 4 + NCPU + (k - 4 - NCPU) BY <1>1, ImageBounds, SMT
<1> QED BY <1>1, <1>2

(* What kern_pgdir maps at va, once one knows the last mapping there.      *)
LEMMA MapsTo ==
    ASSUME NEW r, AllMapped(r), NEW va \in Nat, NEW k \in DOMAIN kmap,
           kmap[k].va <= va, va < kmap[k].va + kmap[k].n,
           \A j \in DOMAIN kmap : kmap[j].va <= va /\ va < kmap[j].va + kmap[j].n => j <= k
    PROVE  check_va2pa(va) = kmap[k].pa + va - kmap[k].va
<1>1. At(va) \in SUBSET Nat
  <2>1. DOMAIN kmap = 1..NRegions BY DEF AllMapped
  <2>2. DOMAIN kmap \subseteq Nat BY <2>1
  <2> QED BY <2>2 DEF At
<1>2. k \in At(va) /\ \A j \in At(va) : j <= k
  BY DEF At
<1>3. Last(At(va)) = k
  BY <1>1, <1>2, LastIs
<1> QED BY <1>3 DEF check_va2pa

(* All of memory at KERNBASE ...                                           *)
LEMMA RamReached ==
    ASSUME NEW r, AllMapped(r), Bounded(r), NEW i \in 0 .. npages - 1
    PROVE  check_va2pa(KERNBASE + i) = i
<1>1. PICK q \in 0..63 : q * 1024 <= i /\ i < (q + 1) * 1024
  <2>1. i \div 1024 \in 0..63 BY SMT DEF Bounded
  <2>2. (i \div 1024) * 1024 <= i /\ i < (i \div 1024 + 1) * 1024 BY SMT DEF Bounded
  <2> QED BY <2>1, <2>2, SMT
<1>2. i \in Nat /\ npages \in Nat
  BY SMT DEF Bounded
<1>3. PICK va \in Nat : va = KERNBASE + i
  BY <1>2, Numbers, SMT
<1>4. va = 983040 + i
  BY <1>3, Numbers, SMT
<1>5. PICK k \in DOMAIN kmap : k = 5 + NCPU + q
  <2>1. DOMAIN kmap = 1..NRegions BY DEF AllMapped
  <2> QED BY <2>1, ImageBounds, SMT DEF NRegions
<1>6. kmap[k].va = 983040 + q * 1024 /\ kmap[k].n = 1024 /\ kmap[k].pa = q * 1024
  <2>0. q + 1 \in 1..64 BY SMT
  <2>1. RamMapped(q + 1) BY <2>0 DEF AllMapped
  <2>2. 4 + NCPU + (q + 1) = k /\ (q + 1) - 1 = q BY <1>5, ImageBounds, SMT
  <2> QED BY <2>1, <2>2, SMT DEF RamMapped
<1>7. \A j \in DOMAIN kmap : kmap[j].va <= va /\ va < kmap[j].va + kmap[j].n => j <= k
  <2> SUFFICES ASSUME NEW j \in DOMAIN kmap, kmap[j].va <= va PROVE j <= k
    OBVIOUS
  <2>1. CASE \E h \in 1..64 : j = 4 + NCPU + h
    <3>1. PICK h \in 1..64 : j = 4 + NCPU + h BY <2>1
    <3>2. RamMapped(h) BY DEF AllMapped
    <3>3. 983040 + (h - 1) * 1024 <= 983040 + i BY <3>1, <3>2, <1>4, SMT DEF RamMapped
    <3> QED BY <1>1, <1>2, <1>5, <3>1, <3>3, ImageBounds, SMT
  <2>2. CASE j \in 1..4 \/ \E h \in 1..NCPU : j = 4 + h
    BY <1>5, <2>2, ImageBounds, SMT
  <2> QED BY <2>1, <2>2, Which
<1>8. check_va2pa(va) = kmap[k].pa + va - kmap[k].va
  <2>1. kmap[k].va <= va /\ va < kmap[k].va + kmap[k].n
    BY <1>1, <1>2, <1>4, <1>6, SMT
  <2> QED BY <1>7, <2>1, MapsTo
<1> QED BY <1>1, <1>2, <1>3, <1>4, <1>6, <1>8, SMT
(* ... every processor's stack below KSTACKTOP ...                         *)
LEMMA StackReached ==
    ASSUME NEW r, AllMapped(r), Bounded(r), NEW n \in 0 .. NCPU - 1, NEW i \in 0 .. KSTKSIZE - 1
    PROVE  check_va2pa(KSTACKTOP - (KSTKSIZE + KSTKGAP) * (n + 1) + KSTKGAP + i) =
              KStacks + n * KSTKSIZE + i
<1>1. i \in 0..7 /\ n \in Nat /\ n + 1 \in 1..NCPU /\ KSTKSIZE = 8
  BY ImageBounds, Numbers, SMT
<1>2. PICK va \in Nat : va = KSTACKTOP - (KSTKSIZE + KSTKGAP) * (n + 1) + KSTKGAP + i
  BY <1>1, ImageBounds, Numbers, SMT
<1>3. va = 983040 - 16 * n - 8 + i
  BY <1>1, <1>2, Numbers, SMT
<1>4. PICK k \in DOMAIN kmap : k = 5 + n
  <2>1. DOMAIN kmap = 1..NRegions BY DEF AllMapped
  <2> QED BY <1>1, <2>1, ImageBounds, SMT DEF NRegions
<1>5. kmap[k].va = 983040 - n * 16 - 8 /\ kmap[k].n = 8 /\ kmap[k].pa = KStacks + n * 8
  <2>1. StackMapped(n + 1) BY <1>1 DEF AllMapped
  <2>2. 4 + (n + 1) = k /\ (n + 1) - 1 = n BY <1>1, <1>4, SMT
  <2> QED BY <2>1, <2>2, SMT DEF StackMapped
<1>6. \A j \in DOMAIN kmap : kmap[j].va <= va /\ va < kmap[j].va + kmap[j].n => j <= k
  <2> SUFFICES ASSUME NEW j \in DOMAIN kmap, kmap[j].va <= va, va < kmap[j].va + kmap[j].n
               PROVE  j <= k
    OBVIOUS
  <2>1. ~ \E h \in 1..64 : j = 4 + NCPU + h
    <3> SUFFICES ASSUME NEW h \in 1..64, j = 4 + NCPU + h PROVE FALSE
      OBVIOUS
    <3>1. RamMapped(h) BY DEF AllMapped
    <3> QED BY <1>1, <1>3, <3>1, SMT DEF RamMapped
  <2>2. ASSUME NEW h \in 1..NCPU, j = 4 + h PROVE j <= k
    <3>1. StackMapped(h) BY DEF AllMapped
    <3> QED BY <1>1, <1>3, <1>4, <2>2, <3>1, ImageBounds, SMT DEF StackMapped
  <2>3. CASE j \in 1..4 BY <1>1, <1>4, <2>3, SMT
  <2> QED BY <2>1, <2>2, <2>3, Which
<1>7. check_va2pa(va) = kmap[k].pa + va - kmap[k].va
  <2>1. kmap[k].va <= va /\ va < kmap[k].va + kmap[k].n BY <1>1, <1>3, <1>5, SMT
  <2> QED BY <1>6, <2>1, MapsTo
<1> QED BY <1>1, <1>2, <1>3, <1>5, <1>7, ImageBounds, SMT

(* ... with nothing mapped in the gap under it ...                         *)
LEMMA GapEmpty ==
    ASSUME NEW r, AllMapped(r), Bounded(r), NEW n \in 0 .. NCPU - 1, NEW i \in 0 .. KSTKGAP - 1
    PROVE  At(KSTACKTOP - (KSTKSIZE + KSTKGAP) * (n + 1) + i) = {}
<1>1. i \in 0..7 /\ n \in Nat /\ n < NCPU
  BY ImageBounds, Numbers, SMT
<1>2. PICK va \in Nat : va = KSTACKTOP - (KSTKSIZE + KSTKGAP) * (n + 1) + i
  BY <1>1, ImageBounds, Numbers, SMT
<1>3. va = 983040 - 16 * n - 16 + i
  BY <1>1, <1>2, Numbers, SMT
<1>4. ASSUME NEW j \in DOMAIN kmap, kmap[j].va <= va, va < kmap[j].va + kmap[j].n PROVE FALSE
  <2>1. ~ \E h \in 1..64 : j = 4 + NCPU + h
    <3> SUFFICES ASSUME NEW h \in 1..64, j = 4 + NCPU + h PROVE FALSE
      OBVIOUS
    <3>1. RamMapped(h) BY DEF AllMapped
    <3> QED BY <1>1, <1>3, <1>4, <3>1, SMT DEF RamMapped
  <2>2. ~ \E h \in 1..NCPU : j = 4 + h
    <3> SUFFICES ASSUME NEW h \in 1..NCPU, j = 4 + h PROVE FALSE
      OBVIOUS
    <3>1. StackMapped(h) BY DEF AllMapped
    <3> QED BY <1>1, <1>3, <1>4, <3>1, ImageBounds, SMT DEF StackMapped
  <2>3. j \in 1..4 BY <2>1, <2>2, Which
  <2>4. FirstMapped(r) /\ r \in 0..128 /\ pages \in Nat BY DEF AllMapped, Bounded
  <2> QED BY <1>1, <1>3, <1>4, <2>3, <2>4, ImageBounds, SMT DEF FirstMapped
<1> QED BY <1>2, <1>4 DEF At

(* ... the arrays at UPAGES and UENVS ...                                  *)
LEMMA ArraysReached ==
    ASSUME NEW r, AllMapped(r), Bounded(r)
    PROVE  /\ \A i \in 0 .. r - 1 : check_va2pa(UPAGES + i) = pages + i
           /\ \A i \in 0 .. 30 : check_va2pa(UENVS + i) = envs + i
<1>1. FirstMapped(r) /\ r \in 0..128 /\ pages \in Nat /\ envs \in Nat
  BY DEF AllMapped, Bounded
<1>2. 1 \in DOMAIN kmap /\ 3 \in DOMAIN kmap
  <2>1. DOMAIN kmap = 1..NRegions BY DEF AllMapped
  <2> QED BY <2>1, ImageBounds, SMT DEF NRegions
<1>21. (\A h \in 1..64 : RamMapped(h)) /\ (\A h \in 1..NCPU : StackMapped(h))
  BY DEF AllMapped
<1>3. ASSUME NEW va \in Nat, va < 982016, NEW j \in DOMAIN kmap, kmap[j].va <= va
      PROVE  j \in 1..4
  <2>1. ~ \E h \in 1..64 : j = 4 + NCPU + h
    <3> SUFFICES ASSUME NEW h \in 1..64, j = 4 + NCPU + h PROVE FALSE
      BY SMT
    <3>1. RamMapped(h) BY <1>21, SMT
    <3> QED BY <1>3, <3>1, SMT DEF RamMapped
  <2>2. ~ \E h \in 1..NCPU : j = 4 + h
    <3> SUFFICES ASSUME NEW h \in 1..NCPU, j = 4 + h PROVE FALSE
      BY SMT
    <3>1. StackMapped(h) BY <1>21, SMT
    <3> QED BY <1>3, <3>1, ImageBounds, SMT DEF StackMapped
  <2> QED BY <2>1, <2>2, Which, SMT
<1>4. ASSUME NEW i \in 0 .. r - 1 PROVE check_va2pa(UPAGES + i) = pages + i
  <2>1. PICK va \in Nat : va = UPAGES + i BY <1>1, Numbers, SMT
  <2>2. va = 978944 + i /\ i \in Nat /\ i < r BY <1>1, <2>1, Numbers, SMT
  <2>3. \A j \in DOMAIN kmap : kmap[j].va <= va /\ va < kmap[j].va + kmap[j].n => j <= 1
    <3> SUFFICES ASSUME NEW j \in DOMAIN kmap, kmap[j].va <= va, va < kmap[j].va + kmap[j].n
                 PROVE  j <= 1
      OBVIOUS
    <3>1. va < 982016 BY <1>1, <2>2, SMT
    <3>2. j \in 1..4 BY <1>3, <3>1, SMT
    <3> QED BY <1>1, <2>2, <3>2, SMT DEF FirstMapped
  <2>4. kmap[1].va <= va /\ va < kmap[1].va + kmap[1].n /\ kmap[1].va = 978944
        /\ kmap[1].pa = pages
    BY <1>1, <2>2, SMT DEF FirstMapped
  <2>5. kmap[1].va <= va /\ va < kmap[1].va + kmap[1].n BY <2>4, SMT
  <2>6. check_va2pa(va) = kmap[1].pa + va - kmap[1].va
    BY <1>2, <2>3, <2>5, MapsTo
  <2> QED BY <1>1, <2>1, <2>2, <2>4, <2>6, SMT
<1>5. ASSUME NEW i \in 0 .. 30 PROVE check_va2pa(UENVS + i) = envs + i
  <2>1. PICK va \in Nat : va = UENVS + i BY <1>1, Numbers, SMT
  <2>2. va = 977920 + i /\ i \in Nat /\ i < 31 BY <1>1, <2>1, Numbers, SMT
  <2>3. \A j \in DOMAIN kmap : kmap[j].va <= va /\ va < kmap[j].va + kmap[j].n => j <= 3
    <3> SUFFICES ASSUME NEW j \in DOMAIN kmap, kmap[j].va <= va, va < kmap[j].va + kmap[j].n
                 PROVE  j <= 3
      OBVIOUS
    <3>1. va < 982016 BY <1>1, <2>2, SMT
    <3>2. j \in 1..4 BY <1>3, <3>1, SMT
    <3> QED BY <1>1, <2>2, <3>2, SMT DEF FirstMapped
  <2>4. kmap[3].va <= va /\ va < kmap[3].va + kmap[3].n /\ kmap[3].va = 977920
        /\ kmap[3].pa = envs
    BY <1>1, <2>2, SMT DEF FirstMapped
  <2>5. kmap[3].va <= va /\ va < kmap[3].va + kmap[3].n BY <2>4, SMT
  <2>6. check_va2pa(va) = kmap[3].pa + va - kmap[3].va
    BY <1>2, <2>3, <2>5, MapsTo
  <2> QED BY <1>1, <2>1, <2>2, <2>4, <2>6, SMT
<1> QED BY <1>4, <1>5

(* ... and no page table but theirs.                                       *)
LEMMA TablesExact ==
    ASSUME NEW r, AllMapped(r), Bounded(r),
           Index = {PDX(UVPT), PDX(MMIOBASE)} \cup {PDX(kmap[k].va) : k \in DOMAIN kmap}
    PROVE  Index =
             {PDX(UVPT), PDX(KSTACKTOP - 1), PDX(UPAGES), PDX(UENVS), PDX(MMIOBASE)}
             \cup (PDX(KERNBASE) .. PDX(1048576) - 1)
<1> DEFINE ram == PDX(KERNBASE) .. PDX(1048576) - 1
           all == {PDX(UVPT), PDX(KSTACKTOP - 1), PDX(UPAGES), PDX(UENVS), PDX(MMIOBASE)}
                  \cup ram
<1>1. FirstMapped(r) /\ r \in 0..128 /\ pages \in Nat /\ pages < 65536
  BY SMT DEF AllMapped, Bounded
<1>2. (\A h \in 1..64 : RamMapped(h)) /\ (\A h \in 1..NCPU : StackMapped(h))
  BY DEF AllMapped
<1>3. ram = 960 .. 1023 /\ PDX(KSTACKTOP - 1) = 959
  BY Numbers, SMT DEF PDX
<1> HIDE DEF ram
<1>4. ASSUME NEW k \in DOMAIN kmap PROVE PDX(kmap[k].va) \in all
  <2>1. CASE k \in 1..4
    <3>1. k = 1 \/ k = 2 \/ k = 3 \/ k = 4 BY <2>1, SMT
    <3>2. kmap[1].va = UPAGES /\ kmap[3].va = UENVS
      BY <1>1, Numbers, SMT DEF FirstMapped
    <3>3. PDX(kmap[2].va) \in 960 .. 1023
      BY <1>1, Numbers, SMT DEF FirstMapped, PDX
    <3>4. PDX(kmap[4].va) = 959
      BY <1>1, Numbers, SMT DEF FirstMapped, PDX
    <3>5. CASE k = 1 BY <3>2, <3>5
    <3>6. CASE k = 2 BY <3>3, <3>6, <1>3, SMT
    <3>7. CASE k = 3 BY <3>2, <3>7
    <3>8. CASE k = 4 BY <3>4, <3>8, <1>3, SMT
    <3> QED BY <3>1, <3>5, <3>6, <3>7, <3>8
  <2>2. ASSUME NEW h \in 1..NCPU, k = 4 + h PROVE PDX(kmap[k].va) \in all
    <3>1. StackMapped(h) BY <1>2
    <3>2. PDX(kmap[k].va) = 959 BY <2>2, <3>1, ImageBounds, Numbers, SMT DEF StackMapped, PDX
    <3> QED BY <3>2, <1>3, SMT
  <2>3. ASSUME NEW h \in 1..64, k = 4 + NCPU + h PROVE PDX(kmap[k].va) \in all
    <3>1. RamMapped(h) BY <1>2
    <3>2. PDX(kmap[k].va) \in 960 .. 1023 BY <2>3, <3>1, Numbers, SMT DEF RamMapped, PDX
    <3> QED BY <3>2, <1>3, SMT
  <2> QED BY <2>1, <2>2, <2>3, Which
<1>5. ASSUME NEW t \in all PROVE t \in Index
  <2>0. DOMAIN kmap = 1..NRegions BY DEF AllMapped
  <2>1. CASE t \in {PDX(UVPT), PDX(MMIOBASE)} BY <2>1
  <2>2. CASE t = PDX(UPAGES)
    <3>1. kmap[1].va = UPAGES BY <1>1, Numbers, SMT DEF FirstMapped
    <3>2. 1 \in DOMAIN kmap BY <2>0, ImageBounds, SMT DEF NRegions
    <3> QED BY <2>2, <3>1, <3>2
  <2>3. CASE t = PDX(UENVS)
    <3>1. kmap[3].va = UENVS BY <1>1, Numbers, SMT DEF FirstMapped
    <3>2. 3 \in DOMAIN kmap BY <2>0, ImageBounds, SMT DEF NRegions
    <3> QED BY <2>3, <3>1, <3>2
  <2>4. CASE t = PDX(KSTACKTOP - 1)
    <3>1. PDX(kmap[4].va) = t BY <1>1, <1>3, <2>4, Numbers, SMT DEF FirstMapped, PDX
    <3>2. 4 \in DOMAIN kmap BY <2>0, ImageBounds, SMT DEF NRegions
    <3> QED BY <3>1, <3>2
  <2>5. CASE t \in ram
    <3>1. t \in 960 .. 1023 BY <2>5, <1>3, SMT
    <3>2. PICK h \in 1..64 : h = t - 959 BY <3>1, SMT
    <3>3. RamMapped(h) BY <1>2
    <3>4. PDX(kmap[4 + NCPU + h].va) = t
      BY <3>1, <3>2, <3>3, Numbers, SMT DEF RamMapped, PDX
    <3>5. 4 + NCPU + h \in DOMAIN kmap
      <4>1. 4 + NCPU + h \in 1..NRegions BY ONLY h \in 1..64, ImageBounds, SMT DEF NRegions
      <4> QED BY <2>0, <4>1
    <3> QED BY <3>4, <3>5
  <2> QED BY <2>1, <2>2, <2>3, <2>4, <2>5
<1>6. PDX(UVPT) \in all /\ PDX(MMIOBASE) \in all BY Zenon
<1> HIDE DEF all
<1>7. Index = all
  BY <1>4, <1>5, <1>6
<1> QED BY <1>7, SMT DEF all, ram

(* Up to 256 MB, which is all that fits above KERNBASE, kern_pgdir is what *)
(* check_kern_pgdir asserts.                                               *)
LEMMA PgdirBelow ==
    ASSUME BootInv, npages <= MB256 PROVE check_kern_pgdir
<1> SUFFICES ASSUME bpc = "check"
             PROVE  check_kern_pgdir
  BY SMT DEF check_kern_pgdir
<1>1. PICK r \in Nat : AllMapped(r) /\ Bounded(r)
  BY MappedAll
<1>2. r = ROUNDUP(PagesSize) BY <1>1, SMT DEF Bounded
<1>3. ROUNDUP(EnvsSize) = 31 BY Sizes, SMT
<1>4. Index = {PDX(UVPT), PDX(MMIOBASE)} \cup {PDX(kmap[k].va) : k \in DOMAIN kmap}
  BY DEF BootInv, PageTablesKnown, Mapping
<1>5. \A i \in 0 .. npages - 1 : check_va2pa(KERNBASE + i) = i
  BY <1>1, RamReached
<1>6. \A n \in 0 .. NCPU - 1 : \A i \in 0 .. KSTKSIZE - 1 :
         check_va2pa(KSTACKTOP - (KSTKSIZE + KSTKGAP) * (n + 1) + KSTKGAP + i) =
            KStacks + n * KSTKSIZE + i
  BY <1>1, StackReached
<1>7. \A n \in 0 .. NCPU - 1 : \A i \in 0 .. KSTKGAP - 1 :
         At(KSTACKTOP - (KSTKSIZE + KSTKGAP) * (n + 1) + i) = {}
  BY <1>1, GapEmpty
<1>8. /\ \A i \in 0 .. ROUNDUP(PagesSize) - 1 : check_va2pa(UPAGES + i) = pages + i
      /\ \A i \in 0 .. ROUNDUP(EnvsSize) - 1 : check_va2pa(UENVS + i) = envs + i
  <2>1. 31 - 1 = 30 BY SMT
  <2> QED BY <1>1, <1>2, <1>3, <2>1, ArraysReached
<1>9. {e[1] : e \in pde} =
             {PDX(UVPT), PDX(KSTACKTOP - 1), PDX(UPAGES), PDX(UENVS), PDX(MMIOBASE)}
             \cup (PDX(KERNBASE) .. PDX(1048576) - 1)
  BY <1>1, <1>4, TablesExact, SMT DEF Index
<1> QED BY <1>5, <1>6, <1>7, <1>8, <1>9, SMT DEF check_kern_pgdir

-----------------------------------------------------------------------------
(* Until kern_pgdir is loaded only 4 MB can be reached.  Two things are    *)
(* needed besides BootInv: where the amount of memory comes from, and that *)
(* the pages below 4 MB last for all page tables.  The latter counts       *)
(* base memory only: the pages left in it and the page tables taken so far *)
(* are never fewer than it has.                                            *)
FromMachine ==
    \/ bpc = "detect" /\ npages = 0
    \/ /\ bpc # "detect"
       /\ \E m \in Machine : npages = totalmem(m) \div 4 /\ npages_basemem = m.base \div 4
Taken4MB == IF bpc = "check_page" THEN 0 ELSE Len(kmap) + 1
LowEnough ==
    /\ Len(free) = 6 /\ free[1].hi < 1024
    /\ free[2].lo = 8 /\ free[2].hi >= 7 /\ free[2].hi < 1024
    /\ free[3].lo = 1 /\ free[3].hi >= 0 /\ free[3].hi < 1024
    /\ free[2].hi - 7 + free[3].hi + Taken4MB >= npages_basemem - 2
    /\ \A e \in pde : e[2] < 1024
LowPages ==
    /\ bpc = "check_free" =>
          Len(free) = 3 /\ free[2] = Run(8, npages_basemem - 1) /\ free[3] = Run(1, 6)
    /\ bpc \in {"check_page", "map", "check"} => LowEnough
    /\ bpc = "done" => cr3 = "kern_pgdir"

(* As much base memory as there are page tables, and a kernel that with    *)
(* its arrays ends below 4 MB.                                             *)
BaseLasts == End <= 945 /\ \A m \in Machine : m.base \div 4 >= 71 + NCPU

(* npages is what some machine reports, from its detection on.             *)
LEMMA FromMachineStep ==
    /\ BootInit => FromMachine
    /\ FromMachine /\ BootNext => FromMachine'
<1>1. BootInit => FromMachine
  BY DEF BootInit, FromMachine
<1>2. ASSUME FromMachine, i386_detect_memory PROVE FromMachine'
  BY <1>2 DEF FromMachine, i386_detect_memory
<1>3. ASSUME FromMachine, BootNext, ~i386_detect_memory PROVE FromMachine'
  <2>1. npages' = npages /\ npages_basemem' = npages_basemem /\ bpc # "detect"
        /\ bpc' # "detect"
    BY <1>3 DEF BootNext, alloc_kern_pgdir, alloc_pages, alloc_envs, page_init,
                check_page_free_list, check_page, map_kernel, install_kern_pgdir, Allocate, Panic
  <2> QED BY <1>3, <2>1 DEF FromMachine
<1> QED BY <1>1, <1>2, <1>3

(* A page table taken while base memory lasts is below 4 MB.               *)
LEMMA LowTable ==
    ASSUME BootInv, LowEnough, BaseLasts, FromMachine, NEW index,
           bpc \in {"check_page", "map"}, bpc' \in {"map", "check"},
           page_alloc(index), npages_basemem' = npages_basemem,
           Len(kmap') \in Nat, Taken4MB' = Taken4MB + 1
    PROVE  LowEnough'
<1>1. PICK k \in DOMAIN free : /\ Left(k) /\ \A j \in 1 .. k - 1 : ~Left(j)
                               /\ pde' = pde \cup {<<index, free[k].hi>>}
                               /\ free' = [free EXCEPT ![k].hi = @ - 1]
  BY DEF page_alloc, AtFront
<1>2. /\ free \in Seq(RunSet) /\ Len(free) = 6 /\ DOMAIN free = 1..6
      /\ npages_basemem \in 0..160 /\ kmap \in Seq(RegionSet) /\ Len(kmap) \in Nat
  BY DEF BootInv, BootShape, LowEnough
<1>3. \A j \in 1..6 : free[j] \in RunSet /\ free[j].lo \in Nat /\ free[j].hi \in Int
  <2> TAKE j \in 1..6
  <2>1. free[j] \in RunSet
    <3>1. free \in Seq(RunSet) /\ Len(free) = 6 BY <1>2
    <3> QED BY <3>1, ElementOfSeq
  <2>2. free[j].lo \in Nat /\ free[j].hi \in Int BY ONLY <2>1, Zenon DEF RunSet
  <2> QED BY <2>1, <2>2
<1>4. npages_basemem >= 71 + NCPU
  BY DEF BaseLasts, FromMachine
<1>5. Taken4MB \in Nat /\ Taken4MB <= 68 + NCPU
  <2>1. bpc = "map" => Len(kmap) < NRegions BY DEF BootInv, Mapped, KernelRegions
  <2> QED BY <1>2, <2>1, ImageBounds, SMT DEF Taken4MB, NRegions
<1>6. k \in {1, 2, 3}
  <2> SUFFICES ASSUME k \notin {1, 2, 3} PROVE FALSE
    OBVIOUS
  <2>1. 2 \in 1 .. k - 1 /\ 3 \in 1 .. k - 1 BY <1>2
  <2>2. ~Left(2) /\ ~Left(3) BY <1>1, <2>1
  <2>3. free[2].hi < 8 /\ free[3].hi < 1
    <3>1. 2 \in 1..6 /\ 3 \in 1..6 BY SMT
    <3>2. free[2].hi \in Int /\ free[3].hi \in Int BY <1>3, <3>1, Zenon
    <3>3. ~(8 <= free[2].hi) /\ ~(1 <= free[3].hi) BY <2>2 DEF Left, LowEnough
    <3> QED BY ONLY <3>2, <3>3, SMT
  <2>0. 2 \in 1..6 /\ 3 \in 1..6 BY SMT
  <2>4. free[2].hi = 7 /\ free[3].hi = 0
    <3>1. free[2].hi \in Int /\ free[3].hi \in Int BY <1>3, <2>0, Zenon
    <3>2. free[2].hi >= 7 /\ free[3].hi >= 0 BY DEF LowEnough
    <3> QED BY ONLY <2>3, <3>1, <3>2, SMT
  <2> QED BY <1>2, <1>4, <1>5, <2>4, ImageBounds DEF LowEnough
<1>7. /\ Len(free') = 6
      /\ \A j \in 1..6 : j # k => free'[j] = free[j]
      /\ free'[k].lo = free[k].lo /\ free'[k].hi = free[k].hi - 1
  <2>1. free' = [free EXCEPT ![k] = [free[k] EXCEPT !.hi = @ - 1]] BY <1>1, <1>2
  <2>2. free[k] \in RunSet /\ free[k].hi \in Int BY <1>2, <1>3
  <2>3. /\ [free[k] EXCEPT !.hi = @ - 1].lo = free[k].lo
        /\ [free[k] EXCEPT !.hi = @ - 1].hi = free[k].hi - 1
    <3> DEFINE r == free[k]
    <3>1. r \in [lo : Nat, hi : Int] BY <2>2 DEF RunSet
    <3> HIDE DEF r
    <3>2. [r EXCEPT !.hi = @ - 1].lo = r.lo /\ [r EXCEPT !.hi = @ - 1].hi = r.hi - 1
      BY ONLY <3>1
    <3> QED BY <3>2 DEF r
  <2>4. free'[k] = [free[k] EXCEPT !.hi = @ - 1] /\ \A j \in 1..6 : j # k => free'[j] = free[j]
    BY <1>2, <2>1
  <2>5. Len(free') = 6 BY <1>2, <2>1
  <2> QED BY <2>3, <2>4, <2>5
<1>8. free[k].lo <= free[k].hi BY <1>1 DEF Left
<1>9. free[k].hi < 1024 BY <1>6 DEF LowEnough
<1>10. \A e \in pde' : e[2] < 1024
  BY <1>1, <1>9 DEF LowEnough
<1>0. 1 \in 1..6 /\ 2 \in 1..6 /\ 3 \in 1..6 BY SMT
<1>a. /\ free[1].hi \in Int /\ free[2].hi \in Int /\ free[3].hi \in Int
      /\ npages_basemem \in Int /\ Taken4MB \in Int
  BY <1>0, <1>2, <1>3, <1>5
<1>b. /\ free[1].hi < 1024
      /\ free[2].lo = 8 /\ free[2].hi >= 7 /\ free[2].hi < 1024
      /\ free[3].lo = 1 /\ free[3].hi >= 0 /\ free[3].hi < 1024
      /\ free[2].hi - 7 + free[3].hi + Taken4MB >= npages_basemem - 2
  BY DEF LowEnough
<1>c. SUFFICES /\ free'[1].hi < 1024
               /\ free'[2].lo = 8 /\ free'[2].hi >= 7 /\ free'[2].hi < 1024
               /\ free'[3].lo = 1 /\ free'[3].hi >= 0 /\ free'[3].hi < 1024
               /\ free'[2].hi - 7 + free'[3].hi + (Taken4MB + 1) >= npages_basemem - 2
  BY <1>7, <1>10 DEF LowEnough
<1>11. CASE k = 1
  <2>1. free'[2] = free[2] /\ free'[3] = free[3] /\ free'[1].hi = free[1].hi - 1
    BY <1>0, <1>7, <1>11
  <2> QED BY ONLY <2>1, <1>a, <1>b, SMT
<1>12. CASE k = 2
  <2>1. free'[1] = free[1] /\ free'[3] = free[3] /\ free'[2].hi = free[2].hi - 1
        /\ free'[2].lo = free[2].lo /\ 8 <= free[2].hi
    BY <1>0, <1>7, <1>8, <1>12, <1>b
  <2> QED BY ONLY <2>1, <1>a, <1>b, SMT
<1>13. CASE k = 3
  <2>1. free'[1] = free[1] /\ free'[2] = free[2] /\ free'[3].hi = free[3].hi - 1
        /\ free'[3].lo = free[3].lo /\ 1 <= free[3].hi
    BY <1>0, <1>7, <1>8, <1>13, <1>b
  <2> QED BY ONLY <2>1, <1>a, <1>b, SMT
<1> QED BY <1>6, <1>11, <1>12, <1>13

(* No page is free before page_init.                                       *)
LEMMA LowPagesInit == BootInit => LowPages
  BY DEF BootInit, LowPages

(* As long as base memory lasts, page tables come from below 4 MB, which   *)
(* entry_pgdir maps.                                                       *)
LEMMA LowPagesStep ==
    ASSUME BootInv, FromMachine, LowPages, BaseLasts, BootNext PROVE LowPages'
<1>1. CASE i386_detect_memory \/ alloc_kern_pgdir \/ alloc_pages \/ alloc_envs
  <2>1. bpc' \in {"pgdir", "pages", "envs", "page_init", "panic"}
    BY <1>1 DEF i386_detect_memory, alloc_kern_pgdir, alloc_pages, alloc_envs, Allocate, Panic
  <2> QED BY <2>1 DEF LowPages
<1>2. CASE page_init
  <2>1. free'[2] = Run(8, npages_basemem - 1) /\ free'[3] = Run(1, 6) /\ Len(free') = 3
        /\ bpc' = "check_free" /\ npages_basemem' = npages_basemem
    <3>1. MPENTRY = 7 /\ 7 + 1 = 8 /\ 7 - 1 = 6 BY Numbers, SMT
    <3> QED BY <1>2, <3>1 DEF page_init
  <2>2. Run(8, npages_basemem - 1)' = Run(8, npages_basemem - 1) /\ Run(1, 6)' = Run(1, 6)
    BY <2>1 DEF Run
  <2> QED BY <2>1, <2>2 DEF LowPages
<1>3. CASE check_page_free_list
  <2>1. /\ bpc = "check_free" /\ bpc' \in {"check_page", "panic"} /\ free \in Seq(RunSet)
        /\ npages_basemem' = npages_basemem /\ pde' = pde /\ npages_basemem \in 0..160
    BY <1>3 DEF check_page_free_list, Panic, BootInv, BootShape
  <2>2. /\ Len(free) = 3 /\ free[2] = Run(8, npages_basemem - 1) /\ free[3] = Run(1, 6)
    BY <2>1 DEF LowPages
  <2>3. /\ Len(free') = 6 /\ free'[1] = LowPart(free[1])
        /\ free'[2] = LowPart(free[2]) /\ free'[3] = LowPart(free[3])
    BY <1>3, <2>1, <2>2, Sorted
  <2>4. free[1] \in RunSet /\ PT = 1024 BY <2>1, <2>2, Numbers, SMT
  <2>5. free'[1].hi < 1024 BY <2>3, <2>4, Parts
  <2>6. npages_basemem >= 71 + NCPU /\ NCPU \in Nat
    BY <2>1, ImageBounds DEF BaseLasts, FromMachine
  <2>7. /\ free'[2].lo = 8 /\ free'[2].hi = npages_basemem - 1
        /\ free'[3].lo = 1 /\ free'[3].hi = 6
    BY <2>1, <2>2, <2>3, <2>4, SMT DEF LowPart, Run
  <2>8. \A e \in pde : e[2] < 1024
    <3>1. pde = {<<PDX(UVPT), kern_pgdir>>} /\ kern_pgdir = End + 1
      BY <2>1 DEF BootInv, Layout, LaidOut, Allocating, Listing
    <3> QED BY <3>1, ImageBounds DEF BaseLasts
  <2>9. bpc' = "check_page" => LowEnough'
    BY <2>1, <2>3, <2>5, <2>6, <2>7, <2>8 DEF LowEnough, Taken4MB
  <2> QED BY <2>1, <2>9 DEF LowPages
<1>4. CASE check_page
  <2>1. /\ bpc = "check_page" /\ bpc' = "map" /\ kmap' = kmap /\ kmap = <<>>
        /\ npages_basemem' = npages_basemem /\ page_alloc(PDX(MMIOBASE))
    BY <1>4 DEF check_page, BootInv, Layout, Listing
  <2>2. Taken4MB' = Taken4MB + 1 /\ Len(kmap') \in Nat BY <2>1 DEF Taken4MB
  <2>3. LowEnough BY <2>1 DEF LowPages
  <2>4. LowEnough' BY <2>1, <2>2, <2>3, LowTable
  <2> QED BY <2>1, <2>4 DEF LowPages
<1>5. CASE map_kernel
  <2>1. /\ bpc = "map" /\ npages_basemem' = npages_basemem
        /\ bpc' \in {"map", "check", "panic"} /\ LowEnough
    BY <1>5 DEF map_kernel, Panic, LowPages
  <2>2. CASE bpc' = "panic" BY <2>2 DEF LowPages
  <2>3. CASE bpc' # "panic"
    <3>1. PICK c : boot_map_region(c)
      BY <1>5, <2>3 DEF map_kernel, Panic
    <3>2. kmap \in Seq(RegionSet) /\ kmap' = Append(kmap, c)
      BY <3>1 DEF boot_map_region, BootInv, BootShape
    <3>3. Len(kmap') = Len(kmap) + 1 /\ Len(kmap) \in Nat BY <3>2
    <3>4. Taken4MB' = Taken4MB + 1 /\ Taken4MB \in Nat BY <2>1, <2>3, <3>3 DEF Taken4MB
    <3>5. CASE PDX(c.va) \in Index
      <4>1. pde' = pde /\ free' = free BY <3>1, <3>5 DEF boot_map_region, Index
      <4>2. npages_basemem \in 0..160 /\ free \in Seq(RunSet) /\ Len(free) = 6
        BY <2>1 DEF BootInv, BootShape, LowEnough
      <4>3. free[2].hi \in Int /\ free[3].hi \in Int
        <5>1. free[2] \in RunSet /\ free[3] \in RunSet BY ONLY <4>2, SMT
        <5> QED BY ONLY <5>1, Zenon DEF RunSet
      <4>4. LowEnough' BY <2>1, <3>4, <4>1, <4>2, <4>3, SMTT(20) DEF LowEnough
      <4> QED BY <2>1, <2>3, <4>4 DEF LowPages
    <3>6. CASE PDX(c.va) \notin Index
      <4>1. page_alloc(PDX(c.va)) BY <3>1, <3>6 DEF boot_map_region, Index
      <4>2. bpc' \in {"map", "check"} /\ Len(kmap') \in Nat BY <2>1, <2>3, <3>3
      <4>3. LowEnough' BY <2>1, <3>4, <4>1, <4>2, LowTable
      <4> QED BY <4>2, <4>3 DEF LowPages
    <3> QED BY <3>5, <3>6
  <2> QED BY <2>2, <2>3
<1>6. CASE install_kern_pgdir
  BY <1>6 DEF install_kern_pgdir, LowPages
<1> QED BY <1>1, <1>2, <1>3, <1>4, <1>5, <1>6 DEF BootNext

(* The arrays, kern_pgdir and every page table are within the first 4 MB   *)
(* as long as entry_pgdir is in use.                                       *)
LEMMA Reached ==
    ASSUME BootInv, LowPages, BaseLasts, npages <= MB62 PROVE BootReach
<1> SUFFICES ASSUME cr3 = "entry_pgdir", bpc \notin BeforeFreeList \cup {"panic"}
             PROVE  \A p \in Arrays \cup {kern_pgdir} \cup {e[2] : e \in pde} : InEntryMap(p)
  BY DEF BootReach
<1>1. bpc \in {"check_free", "check_page", "map", "check"}
  BY DEF BootInv, BootShape, LowPages, BeforeFreeList, Allocating, Listing, Mapping
<1>2. PICK r \in Nat, x \in Nat : Placed(r, x)
  BY Places, Zenon
<1>3. r <= 31 /\ x <= 16
  <2>1. (r - 1) * 4096 < 8 * npages /\ npages \in Nat BY <1>2 DEF Placed
  <2>2. (x - 1) * 4096 < 4 * npages BY <1>2 DEF Placed
  <2>3. npages <= 15872 BY SMT DEF MB62
  <2>4. r <= 31 BY ONLY <2>1, <2>3, r \in Nat, SMT
  <2>5. npages \in Nat BY <2>1
  <2>6. x <= 16 BY ONLY <2>2, <2>3, <2>5, x \in Nat, SMT
  <2> QED BY <2>4, <2>6
<1> DEFINE First4MB == 0 .. 1023
<1>4. \A p \in First4MB : InEntryMap(p)
  <2> TAKE p \in First4MB
  <2>1. PDX(KERNBASE + p) = PDX(KERNBASE) /\ (KERNBASE + p) % PT = p /\ p \in 0 .. PT - 1
    BY Numbers, SMT DEF PDX
  <2> QED BY <2>1, SMT DEF InEntryMap, entry_pgdir, entry_pgtable
<1>5. kern_pgdir \in 0 .. 1023
  BY <1>2, ImageBounds, SMT DEF Placed, BaseLasts
<1>6. ASSUME NEW p \in Arrays PROVE p \in 0 .. 1023
  BY <1>2, <1>3, ImageBounds, SMT DEF Placed, BaseLasts
<1>7. ASSUME NEW e \in pde PROVE e[2] \in 0 .. 1023
  <2>1. e[2] \in Int BY DEF BootInv, BootShape
  <2>2. CASE e = <<PDX(UVPT), kern_pgdir>> BY <2>2, <1>5
  <2>3. CASE e # <<PDX(UVPT), kern_pgdir>>
    <3>1. bpc \notin {"check_free"}
      BY <2>3 DEF BootInv, Layout, Listing
    <3>2. e[2] < 1024 BY <1>1, <3>1, SMT DEF LowPages, LowEnough
    <3>3. Spare(e[2], e[2])
      BY <1>1, <2>3 DEF BootInv, FreeSpare, Allocating
    <3>4. e[2] >= 0
      BY <1>2, <2>1, <3>3, ImageBounds, Numbers, SMTT(20) DEF Spare, Placed
    <3> QED BY <2>1, <3>2, <3>4, SMT
  <2> QED BY <2>2, <2>3
<1> TAKE p \in Arrays \cup {kern_pgdir} \cup {e[2] : e \in pde}
<1>8. p \in 0 .. 1023
  <2>1. CASE p \in Arrays BY <1>6, <2>1
  <2>2. CASE p = kern_pgdir BY <1>5, <2>2
  <2>3. CASE p \in {e[2] : e \in pde} BY <1>7, <2>3
  <2> QED BY <2>1, <2>2, <2>3
<1>9. p \in First4MB
  BY ONLY <1>8
<1> HIDE DEF First4MB
<1> QED BY ONLY <1>4, <1>9, Zenon

=============================================================================
