------------------------------- MODULE Loader -------------------------------
(***************************************************************************)
(* The two ELF loaders: boot/boot.S and bootmain of boot/main.c read the   *)
(* kernel from disk, sector by sector, into physical memory; load_icode of *)
(* kern/env.c copies a program from the kernel's image into the address    *)
(* space of a new environment.  The byte at offset o of a file is o + 1; a *)
(* byte of memory nobody wrote is Garbage.                                 *)
(***************************************************************************)
EXTENDS Strings

CONSTANTS
    LdSect,     \* bytes of a disk sector
    LdHdr,      \* bytes of the header that bootmain reads first, at ELFHDR
    LdMB,       \* 1 MB: where the kernel goes, and the address bit of gate A20
    LdPage,     \* bytes of a page
    LdTable,    \* pages of a page table
    LdFree      \* most free pages when load_icode is called

(* The kernel and a program fit into the memory, and the stack has a page  *)
(* of its own.                                                             *)
ASSUME LoaderAssumption ==
    /\ {LdSect, LdHdr, LdMB, LdPage, LdTable} \subseteq Nat \ {0} /\ LdFree \in Nat
    /\ LdHdr % LdSect = 0 /\ LdMB % LdSect = 0 /\ LdHdr < LdMB
    /\ 4 * LdSect <= LdMB /\ 5 * LdPage <= 2 * LdMB /\ LdTable > 1

Garbage == 99
FileByte(o) == o + 1

(* A segment goes to address at and takes memsz bytes, of which filesz are *)
(* in the file, from offset.                                               *)
Segment(at, memsz, filesz, offset, load) ==
    [at |-> at, memsz |-> memsz, filesz |-> filesz, offset |-> offset, load |-> load]
EndOf(seg) == seg.at + seg.memsz
Seg == st.segs[st.seg]

-----------------------------------------------------------------------------
(* boot.S: interrupts off, gate A20 open, protected mode, then bootmain    *)
seta20 ==
    /\ At("bootmain", "start")
    /\ st' = [st EXCEPT !.pc = "protcseg", !.a20 = TRUE]
protcseg ==
    /\ At("bootmain", "protcseg")
    /\ st' = [st EXCEPT !.pc = "readseg", !.pa = 0, !.end_pa = LdHdr, !.sector = 1]

(* The address that reaches memory: a closed gate A20 drops a bit.         *)
Phys(a) == IF st.a20 \/ (a \div LdMB) % 2 = 0 THEN a ELSE a - LdMB

(* readseg: sector by sector, from the sector boundary at or before pa     *)
FirstSector_0(offset) == offset \div LdSect
FirstSector(offset) == (offset \div LdSect) + 1
readseg(s, seg) ==
    [s EXCEPT !.pa = ROUNDDOWN(seg.at, LdSect), !.end_pa = EndOf(seg),
              !.sector = FirstSector(seg.offset)]

(* Sector 0 holds the boot loader, the file begins in sector 1.            *)
DiskByte(sector, i) == IF sector = 0 THEN Garbage ELSE FileByte((sector - 1) * LdSect + i)
Sector(s) ==
    [a \in DOMAIN s.mem |-> IF a \in {Phys(s.pa + i) : i \in 0 .. LdSect - 1}
                            THEN DiskByte(s.sector, a % LdSect) ELSE s.mem[a]]
readsect ==
    /\ At("bootmain", "readseg") /\ st.pa < st.end_pa
    /\ st' = [st EXCEPT !.mem = Sector(st), !.pa = st.pa + LdSect, !.sector = st.sector + 1]

(* After the header: is it an ELF file?  After a segment: clear its bss.   *)
Cleared(seg) == memset(st.mem, seg.at + seg.filesz, 0, seg.memsz - seg.filesz)
Finished == IF st.seg = 0 THEN st.mem ELSE Cleared(Seg)
next_segment ==
    /\ At("bootmain", "readseg") /\ st.pa >= st.end_pa
    /\ \/ /\ st.seg = 0 /\ ~st.elf
          /\ st' = [st EXCEPT !.pc = "done", !.ret = -1]
       \/ /\ st.seg < Len(st.segs) /\ st.elf
          /\ st' = readseg([st EXCEPT !.mem = Finished, !.seg = st.seg + 1], st.segs[st.seg + 1])
       \/ /\ st.seg = Len(st.segs)
          /\ st' = [st EXCEPT !.pc = "done", !.mem = Finished]

-----------------------------------------------------------------------------
(* load_icode: with the environment's page directory loaded                *)
Panics == st' = [st EXCEPT !.pc = "done", !.panic = TRUE]
load_icode ==
    /\ At("load_icode", "call")
    /\ IF st.elf THEN st' = [st EXCEPT !.pc = "segment", !.cr3 = "env"] ELSE Panics

(* region_alloc: the pages from va rounded down to the end rounded up      *)
RegionStart(va) == ROUNDDOWN(va, LdPage)
segment ==
    /\ At("load_icode", "segment") /\ st.seg <= Len(st.segs)
    /\ IF Seg.load
       THEN st' = [st EXCEPT !.pc = "region_alloc", !.va = RegionStart(Seg.at),
                             !.end_va = ROUNDUP(EndOf(Seg), LdPage)]
       ELSE st' = [st EXCEPT !.seg = st.seg + 1]

(* page_insert of a new page; it fails, silently, when there is no page    *)
(* left for a page table.                                                  *)
Inserted(s, page) ==
    LET table == page \div LdTable
    IN CASE table \in s.tables -> [s EXCEPT !.pages = s.pages \cup {page}, !.free = s.free - 1]
         [] table \notin s.tables /\ s.free > 1 ->
               [s EXCEPT !.pages = s.pages \cup {page}, !.free = s.free - 2,
                         !.tables = s.tables \cup {table}]
         [] OTHER -> [s EXCEPT !.free = 0]
ZeroPage(page) == memset(st.mem, page * LdPage, 0, LdPage)
region_alloc ==
    /\ At("load_icode", "region_alloc") /\ st.va < st.end_va
    /\ IF st.free = 0 THEN Panics
       ELSE LET page == st.va \div LdPage
            IN st' = Inserted([st EXCEPT !.va = st.va + LdPage, !.mem = ZeroPage(page)], page)

(* memset, then memcpy; a page that is missing faults in the kernel.       *)
Copied(mem, seg) ==
    [a \in DOMAIN mem |-> IF a \in seg.at .. seg.at + seg.filesz - 1
                          THEN FileByte(seg.offset + (a - seg.at)) ELSE mem[a]]
Filled_before_cleared(seg) == memset(Copied(st.mem, seg), seg.at, 0, seg.memsz)
Filled(seg) == Copied(memset(st.mem, seg.at, 0, seg.memsz), seg)
fill ==
    /\ At("load_icode", "region_alloc") /\ st.va >= st.end_va
    /\ IF \A a \in Seg.at .. EndOf(Seg) - 1 : a \div LdPage \in st.pages
       THEN st' = [st EXCEPT !.pc = "segment", !.mem = Filled(Seg), !.seg = st.seg + 1]
       ELSE Panics

(* The page of the stack, whose allocation nobody checks: page_insert      *)
(* faults on the missing page, unless it first fails for want of a table.  *)
StackPage == LdTable * 3 - 1
stack ==
    /\ At("load_icode", "segment") /\ st.seg > Len(st.segs)
    /\ IF st.free = 0 /\ StackPage \div LdTable \in st.tables THEN Panics
       ELSE st' = Inserted([st EXCEPT !.pc = "done", !.cr3 = "kern", !.eip = "entry"], StackPage)

LoaderNext == seta20 \/ protcseg \/ readsect \/ next_segment
              \/ load_icode \/ segment \/ region_alloc \/ fill \/ stack

(* Inputs.  The kernel as kern/kernel.ld links it: two segments, each from *)
(* a sector boundary, in the order of their addresses.  A program: two     *)
(* segments that share no page, at any offset.                             *)
KernelFile(m1, f1, m2, f2) ==
    <<Segment(LdMB, m1, f1, LdHdr, TRUE),
      Segment(LdMB + 2 * LdSect, m2, f2, LdHdr + 2 * LdSect, TRUE)>>
KernelSegs ==
    {KernelFile(m1, f1, m2, f2) :
       m1 \in 1 .. 2 * LdSect, f1 \in 1 .. 2 * LdSect, m2 \in 1 .. 2 * LdSect, f2 \in 0 .. 2 * LdSect}
UserFile(a, m1, f1, m2, f2, load) ==
    <<Segment(a, m1, f1, 2, load), Segment(2 * LdPage + a, m2, f2, 7, TRUE)>>
UserSegs ==
    {UserFile(a, m1, f1, m2, f2, load) :
       a \in 0 .. LdPage - 1, m1 \in 1 .. LdPage + 1, f1 \in 0 .. LdPage + 1,
       m2 \in 1 .. 2 * LdPage, f2 \in 0 .. LdPage, load \in BOOLEAN}
Proper(segs) ==
    /\ \A s \in {segs[1], segs[2]} : s.filesz <= s.memsz
    /\ EndOf(segs[1]) <= ROUNDDOWN(segs[2].at, LdPage)
Unwritten == [a \in 0 .. 2 * LdMB - 1 |-> Garbage]
LoaderInit ==
    \/ \E segs \in {s \in KernelSegs : Proper(s)}, elf \in BOOLEAN :
          st = [fn |-> "bootmain", pc |-> "start", segs |-> segs, elf |-> elf, a20 |-> FALSE,
                mem |-> Unwritten, seg |-> 0, pa |-> 0, end_pa |-> 0, sector |-> 0, ret |-> 0]
    \/ \E segs \in {s \in UserSegs : Proper(s)}, elf \in BOOLEAN, free \in 0 .. LdFree :
          st = [fn |-> "load_icode", pc |-> "call", segs |-> segs, seg |-> 1, elf |-> elf,
                mem |-> Unwritten, cr3 |-> "kern", free |-> free, tables |-> {}, pages |-> {},
                va |-> 0, end_va |-> 0, panic |-> FALSE, eip |-> "none"]

LoaderSpec == LoaderInit /\ [][LoaderNext]_st

-----------------------------------------------------------------------------
(* Properties *)

Loaded(seg) ==
    \A i \in 0 .. seg.memsz - 1 :
        st.mem[seg.at + i] = IF i < seg.filesz THEN FileByte(seg.offset + i) ELSE 0

(* boot/main.c: when bootmain enters the kernel, each segment holds the    *)
(* bytes of the file and then zeros, although sectors are read whole and   *)
(* past the ends of the segments; the header it works from is still there. *)
KernelLoaded ==
    At("bootmain", "done") /\ st.ret = 0 =>
        /\ \A k \in DOMAIN st.segs : Loaded(st.segs[k])
        /\ \A a \in 0 .. LdHdr - 1 : st.mem[a] = FileByte(a)

(* env.c: load_icode leaves the segments of type LOAD and the stack in the *)
(* environment, in these pages and no other, with the kernel's page        *)
(* directory back in force; or it panics, for a bad image or when memory   *)
(* ran out.  What becomes of the stack when memory runs out only then is   *)
(* StackMapped, below.                                                     *)
IcodeLoaded ==
    At("load_icode", "done") =>
        LET loads == {k \in DOMAIN st.segs : st.segs[k].load}
            touched == {a \div LdPage : a \in UNION {st.segs[k].at .. EndOf(st.segs[k]) - 1 : k \in loads}}
        IN IF st.panic THEN ~st.elf \/ st.free = 0
           ELSE /\ st.elf /\ st.cr3 = "kern" /\ st.eip = "entry"
                /\ st.pages \ {StackPage} = touched
                /\ StackPage \in st.pages \/ st.free = 0
                /\ \A k \in loads : Loaded(st.segs[k])

(* env.c: "this function maps one page for the program's initial stack.    *)
(* load_icode panics if it encounters problems."  The run LoaderNoStack    *)
(* shows that it does not when no page is left for the stack's page table: *)
(* the result of page_insert is not looked at.                             *)
StackMapped == At("load_icode", "done") /\ ~st.panic => StackPage \in st.pages

(* Together: what both loaders leave in memory is the program's image.     *)
ProgramsLoaded == KernelLoaded /\ IcodeLoaded
=============================================================================
