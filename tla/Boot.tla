-------------------------------- MODULE Boot --------------------------------
(***************************************************************************)
(* mem_init of kern/pmap.c on the boot processor: how much memory there    *)
(* is, the three allocations of boot_alloc, the free list, and the kernel  *)
(* half of the address space.  Memory is counted in pages, physical and    *)
(* virtual, with the constants of inc/memlayout.h; the free list is a      *)
(* sequence of descending runs, in the order of page_alloc.  Of the        *)
(* self-tests the model keeps what they leave behind: the order of the     *)
(* free list after check_page_free_list, and the MMIO space and page table *)
(* that check_page uses up.  (That they also return three pages in another *)
(* order makes no difference here.)                                        *)
(***************************************************************************)
EXTENDS Integers, Sequences, FiniteSets

CONSTANTS
    Machine,    \* what the CMOS may report, in KB and (ext16) 64 KB
    End,        \* the page after the kernel image, whose last symbol is `end'
    BootStack,  \* page of bootstack, in the image
    KStacks,    \* page of percpu_kstacks, in the image
    NCPU

PGSIZE == 4096
PT == 1024                      \* NPTENTRIES, and PTSIZE in pages
KERNBASE == 983040              \* 0xF0000000
KSTACKTOP == KERNBASE
MMIOLIM == KSTACKTOP - PT
MMIOBASE == MMIOLIM - PT
UVPT == MMIOBASE - PT
UPAGES == UVPT - PT
UENVS == UPAGES - PT
KSTKSIZE == 8
KSTKGAP == 8
MPENTRY == 7
IOPHYSMEM == 160
EXTPHYSMEM == 256
NENV == 1024
SizeofEnv == 124
SizeofPageInfo == 8
SizeofPointer == 4

ASSUME BootAssumption ==
    /\ \A m \in Machine : m.base \in 0..640 /\ m.ext \in Nat /\ m.ext16 \in Nat
    /\ NCPU \in Nat \ {0} /\ NCPU * (KSTKSIZE + KSTKGAP) <= PT
    /\ End \in Nat /\ End < PT
    /\ BootStack \in EXTPHYSMEM .. End - KSTKSIZE
    /\ KStacks \in EXTPHYSMEM .. End - NCPU * KSTKSIZE
    /\ BootStack + KSTKSIZE <= KStacks \/ KStacks + NCPU * KSTKSIZE <= BootStack

(* nvram_read puts two bytes together.                                     *)
ASSUME NvramAssumption == \A m \in Machine : m.ext < 65536 /\ m.ext16 < 65536

VARIABLES
    bpc,            \* where mem_init is
    npages, npages_basemem,
    nextfree,       \* static variable of boot_alloc
    kern_pgdir, pages, envs,    \* first page of each, 0 before
    free,           \* page_free_list: runs of pages from hi down to lo
    pde,            \* page tables of kern_pgdir: {<<index, page>>}
    kmap,           \* what was mapped, in order: [va, n, pa, u, w]
    cr3,            \* "entry_pgdir" or "kern_pgdir"
    mmio            \* static variable base of mmio_map_region
bootVars == <<bpc, npages, npages_basemem, nextfree, kern_pgdir, pages, envs,
              free, pde, kmap, cr3, mmio>>

ROUNDUP(bytes) == (bytes + PGSIZE - 1) \div PGSIZE    \* in pages
PDX(va) == va \div PT
PagesSize == npages * SizeofPageInfo
EnvsSize == NENV * SizeofEnv

Panic == bpc' = "panic"

(* entry.S loads entry_pgdir, which maps the first 4 MB at 0 and KERNBASE. *)
entry_pgdir == {0, PDX(KERNBASE)}
entry_pgtable == [i \in 0..PT-1 |-> i]
BootInit ==
    /\ bpc = "detect" /\ cr3 = "entry_pgdir"
    /\ npages = 0 /\ npages_basemem = 0
    /\ nextfree = End       \* ROUNDUP(end + 1): set at the first call
    /\ kern_pgdir = 0 /\ pages = 0 /\ envs = 0
    /\ free = <<>> /\ pde = {} /\ kmap = <<>> /\ mmio = MMIOBASE

totalmem(m) ==
    IF m.ext16 # 0 THEN 16 * 1024 + m.ext16 * 64 ELSE IF m.ext # 0 THEN 1024 + m.ext ELSE m.base
i386_detect_memory ==
    /\ bpc = "detect"
    /\ \E m \in Machine : npages' = totalmem(m) \div 4 /\ npages_basemem' = m.base \div 4
    /\ bpc' = "pgdir"
    /\ UNCHANGED <<nextfree, kern_pgdir, pages, envs, free, pde, kmap, cr3, mmio>>

(* boot_alloc(n) for n > 0: what it returns is the new nextfree, the end   *)
(* of what it reserves.                                                    *)
boot_alloc_nopages(n) == nextfree
boot_alloc(n) == nextfree + ROUNDUP(n)

Allocate(here, next, n) ==
    /\ bpc = here
    /\ nextfree' = boot_alloc(n)
    /\ IF nextfree' > npages THEN Panic ELSE bpc' = next
    /\ UNCHANGED <<npages, npages_basemem, free, kmap, cr3, mmio>>
alloc_kern_pgdir ==
    /\ Allocate("pgdir", "pages", PGSIZE)
    /\ kern_pgdir' = nextfree'
    /\ pde' = {<<PDX(UVPT), kern_pgdir'>>}
    /\ UNCHANGED <<pages, envs>>
alloc_pages ==
    /\ Allocate("pages", "envs", npages * SizeofPointer)
    /\ pages' = nextfree'
    /\ UNCHANGED <<kern_pgdir, envs, pde>>
alloc_envs ==
    /\ Allocate("envs", "page_init", EnvsSize)
    /\ envs' = nextfree'
    /\ UNCHANGED <<kern_pgdir, pages, pde>>

(* A run with lo > hi is empty.                                            *)
Run(lo, hi) == [lo |-> lo, hi |-> hi]
Left(k) == free[k].lo <= free[k].hi

(* page_init: page 0, the page of mpentry, the I/O hole and everything up  *)
(* to 256 + boot_alloc(0) / PGSIZE stay out of the list; each page is put  *)
(* in front of the list.                                                   *)
FirstFree_end == End
FirstFree == EXTPHYSMEM + nextfree
page_init ==
    /\ bpc = "page_init"
    /\ free' = <<Run(FirstFree, npages - 1), Run(MPENTRY + 1, npages_basemem - 1),
                 Run(1, MPENTRY - 1)>>
    /\ bpc' = "check_free"
    /\ UNCHANGED <<npages, npages_basemem, nextfree, kern_pgdir, pages, envs, pde,
                   kmap, cr3, mmio>>

(* check_page_free_list(1): puts the pages that entry_pgdir maps in front  *)
(* and asserts that there are free pages in base and in extended memory,   *)
(* none of them page 0, at the ends of the I/O hole, mpentry's, or below   *)
(* what boot_alloc would return next.                                      *)
FreeListSane ==
    LET on(p) == \E k \in DOMAIN free : free[k].lo <= p /\ p <= free[k].hi
    IN /\ \E k \in DOMAIN free : Left(k) /\ free[k].lo < EXTPHYSMEM
       /\ \E k \in DOMAIN free : Left(k) /\ free[k].hi >= EXTPHYSMEM
       /\ \A p \in {0, MPENTRY, IOPHYSMEM, EXTPHYSMEM - 1, EXTPHYSMEM} : ~on(p)
       /\ \A k \in DOMAIN free : Left(k) => free[k].hi < EXTPHYSMEM \/ free[k].lo >= nextfree
check_page_free_list_unsorted ==
    /\ bpc = "check_free"
    /\ IF FreeListSane THEN bpc' = "check_page" ELSE Panic
    /\ UNCHANGED <<npages, npages_basemem, nextfree, kern_pgdir, pages, envs, free,
                   pde, kmap, cr3, mmio>>
check_page_free_list ==
    LET low(r) == Run(r.lo, IF r.hi < PT THEN r.hi ELSE PT - 1)
        high(r) == Run(IF r.lo >= PT THEN r.lo ELSE PT, r.hi)
    IN /\ bpc = "check_free"
       /\ free' = [k \in DOMAIN free |-> low(free[k])] \o [k \in DOMAIN free |-> high(free[k])]
       /\ IF FreeListSane THEN bpc' = "check_page" ELSE Panic
       /\ UNCHANGED <<npages, npages_basemem, nextfree, kern_pgdir, pages, envs, pde,
                      kmap, cr3, mmio>>
(* page_alloc, as pgdir_walk(create) calls it: the first page of the list  *)
(* becomes the page table with this index.                                 *)
AtFront(k) == Left(k) /\ \A j \in 1 .. k - 1 : ~Left(j)
page_alloc(index) ==
    \E k \in DOMAIN free :
        /\ AtFront(k)
        /\ pde' = pde \cup {<<index, free[k].hi>>}
        /\ free' = [free EXCEPT ![k].hi = @ - 1]

(* boot_map_region, for the n pages from va on that share a page table;    *)
(* fails if there is no page for a table that is missing.                  *)
boot_map_region(c) ==
    /\ kmap' = Append(kmap, c)
    /\ IF PDX(c.va) \in {e[1] : e \in pde} THEN UNCHANGED <<pde, free>>
       ELSE page_alloc(PDX(c.va))
CanMap(c) == PDX(c.va) \in {e[1] : e \in pde} \/ \E k \in DOMAIN free : Left(k)

(* check_page maps 4097 and then 4096 bytes of MMIO, checks them, and      *)
(* clears the entries: the page table and the three pages stay used.       *)
check_page ==
    /\ bpc = "check_page"
    /\ page_alloc(PDX(MMIOBASE))
    /\ mmio' = mmio + ROUNDUP(4097) + ROUNDUP(4096)
    /\ bpc' = "map"
    /\ UNCHANGED <<npages, npages_basemem, nextfree, kern_pgdir, pages, envs, kmap, cr3>>

(* The mappings of mem_init and mem_init_mp, in order.                     *)
Region(va, n, pa, u, w) == [va |-> va, n |-> n, pa |-> pa, u |-> u, w |-> w]
UserRegion_writable(va, n, pa) == Region(va, n, pa, TRUE, TRUE)
UserRegion(va, n, pa) == Region(va, n, pa, TRUE, FALSE)
kstacktop_nogap(i) == KSTACKTOP - i * KSTKSIZE
kstacktop(i) == KSTACKTOP - i * (KSTKSIZE + KSTKGAP)
mem_init_mp == [i \in 1..NCPU |->
    Region(kstacktop(i-1) - KSTKSIZE, KSTKSIZE, KStacks + (i-1) * KSTKSIZE, FALSE, TRUE)]
Regions ==
    <<UserRegion(UPAGES, ROUNDUP(PagesSize), pages),
      Region(KERNBASE + pages, ROUNDUP(PagesSize), pages, FALSE, TRUE),
      UserRegion(UENVS, ROUNDUP(EnvsSize), envs),
      Region(KSTACKTOP - KSTKSIZE, KSTKSIZE, BootStack, FALSE, TRUE)>>
    \o mem_init_mp
    \o [i \in 1 .. (1048576 - KERNBASE) \div PT |->
          Region(KERNBASE + (i-1) * PT, PT, (i-1) * PT, FALSE, TRUE)]

map_kernel ==
    /\ bpc = "map"
    /\ LET c == Regions[Len(kmap) + 1]
       IN IF CanMap(c)
          THEN /\ boot_map_region(c)
               /\ bpc' = IF Len(kmap') = Len(Regions) THEN "check" ELSE "map"
          ELSE Panic /\ UNCHANGED <<kmap, pde, free>>
    /\ UNCHANGED <<npages, npages_basemem, nextfree, kern_pgdir, pages, envs, cr3, mmio>>

install_kern_pgdir ==
    /\ bpc = "check"
    /\ cr3' = "kern_pgdir" /\ bpc' = "done"
    /\ UNCHANGED <<npages, npages_basemem, nextfree, kern_pgdir, pages, envs, free,
                   pde, kmap, mmio>>

BootNext ==
    \/ i386_detect_memory \/ alloc_kern_pgdir \/ alloc_pages \/ alloc_envs
    \/ page_init \/ check_page_free_list \/ check_page \/ map_kernel
    \/ install_kern_pgdir

-----------------------------------------------------------------------------
(* Properties *)

BeforeFreeList == {"detect", "pgdir", "pages", "envs", "page_init"}
Extent(first, bytes) == first .. first + ROUNDUP(bytes) - 1
Overlap(a, b) == a \cap b # {}
Arrays == Extent(pages, PagesSize) \cup Extent(envs, EnvsSize)
Taken == {0, MPENTRY, kern_pgdir} \cup (IOPHYSMEM .. End - 1) \cup Arrays

(* pmap.c: "allocates enough pages of contiguous physical memory to hold n *)
(* bytes": kern_pgdir, pages[] and envs[] share no memory with each other  *)
(* or with the kernel image.                                               *)
BootArraysDisjoint ==
    bpc \notin BeforeFreeList \cup {"panic"} =>
        /\ ~Overlap(Extent(pages, PagesSize), Extent(envs, EnvsSize))
        /\ kern_pgdir \notin Arrays
        /\ \A p \in Arrays \cup {kern_pgdir} : p >= End

(* Although boot_alloc returns the wrong end, page_init keeps enough: no   *)
(* page that the kernel, the BIOS or a starting processor uses is ever     *)
(* free or becomes a page table.                                           *)
BootMemoryKept ==
    bpc \notin BeforeFreeList \cup {"panic"} =>
        /\ \A k \in DOMAIN free : ~Overlap(Taken, free[k].lo .. free[k].hi)
        /\ \A e \in pde : e[2] \notin Taken \/ e = <<PDX(UVPT), kern_pgdir>>

(* Until kern_pgdir is installed the kernel reaches memory through         *)
(* entry_pgdir only: its arrays and the page tables it fills are there.    *)
InEntryMap(p) ==
    PDX(KERNBASE + p) \in entry_pgdir /\ entry_pgtable[(KERNBASE + p) % PT] = p
BootReach ==
    cr3 = "entry_pgdir" /\ bpc \notin BeforeFreeList \cup {"panic"} =>
        \A p \in Arrays \cup {kern_pgdir} \cup {e[2] : e \in pde} : InEntryMap(p)

(* The page that kern_pgdir maps at va; a later mapping replaces an        *)
(* earlier one.                                                            *)
At(va) == {k \in DOMAIN kmap : kmap[k].va <= va /\ va < kmap[k].va + kmap[k].n}
Last(S) == CHOOSE k \in S : \A j \in S : j <= k
check_va2pa(va) == LET k == Last(At(va)) IN kmap[k].pa + va - kmap[k].va

(* check_kern_pgdir: physical memory at KERNBASE, every processor's own    *)
(* stack below KSTACKTOP with an unmapped gap under it, the arrays at      *)
(* UPAGES and UENVS, and no other page directory entry.                    *)
check_kern_pgdir ==
    bpc = "check" =>
        /\ \A i \in 0 .. npages - 1 : check_va2pa(KERNBASE + i) = i
        /\ \A n \in 0 .. NCPU - 1 :
              LET base == KSTACKTOP - (KSTKSIZE + KSTKGAP) * (n + 1)
              IN /\ \A i \in 0 .. KSTKSIZE - 1 :
                       check_va2pa(base + KSTKGAP + i) = KStacks + n * KSTKSIZE + i
                 /\ \A i \in 0 .. KSTKGAP - 1 : At(base + i) = {}
        /\ \A i \in 0 .. ROUNDUP(PagesSize) - 1 : check_va2pa(UPAGES + i) = pages + i
        /\ \A i \in 0 .. ROUNDUP(EnvsSize) - 1 : check_va2pa(UENVS + i) = envs + i
        /\ {e[1] : e \in pde} =
              {PDX(UVPT), PDX(KSTACKTOP - 1), PDX(UPAGES), PDX(UENVS), PDX(MMIOBASE)}
              \cup (PDX(KERNBASE) .. PDX(1048576) - 1)

(* memlayout.h: above UTOP programs read the two arrays, and write nothing.*)
UserReadsArrays ==
    \A k \in DOMAIN kmap :
        kmap[k].u => ~kmap[k].w /\ kmap[k].pa .. kmap[k].pa + kmap[k].n - 1 \subseteq Arrays

(* Together: the memory the kernel took before it had an allocator is its  *)
(* own, once, and within reach as long as it is needed.                    *)
BootMemory == BootArraysDisjoint /\ BootMemoryKept /\ BootReach

(* Together: kern_pgdir is the address space memlayout.h draws, and        *)
(* programs get nothing of it but the two arrays, to read.                 *)
KernelMapped == check_kern_pgdir /\ UserReadsArrays
=============================================================================
