------------------------------- MODULE UserMem ------------------------------
(***************************************************************************)
(* user_mem_check and user_mem_assert of kern/pmap.c: may an environment   *)
(* access [va, va + len) with perm?  Addresses are modulo UmPages * UmPage *)
(* in place of 2^32.                                                       *)
(***************************************************************************)
EXTENDS Routine, FiniteSetsExt

CONSTANTS
    UmPage,     \* bytes of a page, PGSIZE
    UmPages,    \* pages of the address space
    UmLimit     \* first page at or above ULIM

ASSUME UserMemAssumption ==
    /\ UmPage \in Nat \ {0} /\ UmPages \in Nat \ {0} /\ UmLimit \in 0 .. UmPages

E_FAULT == 6
UmSize == UmPage * UmPages
ULIM == UmLimit * UmPage

(* A page has no page table, an entry without PTE_P, one without PTE_U,    *)
(* which only the kernel may access, or one with rights.                   *)
NoTable == {"none"}
Entry == {NoTable, {"U", "W"}, {"P", "W"}, {"P", "U"}, {"P", "U", "W"}}

(* user_mem_assert adds PTE_U to the rights it asks for.                   *)
user_mem_assert ==
    /\ At("usermem", "call")
    /\ st' = [st EXCEPT !.pc = "loop",
                        !.perm = st.perm \cup {"U"},
                        !.start = ROUNDDOWN(st.va, UmPage),
                        !.end = ROUNDUP((st.va + st.len) % UmSize, UmPage) % UmSize]

(* One turn of user_mem_check's loop: the page at start                    *)
Below_or_at(page) == st.start <= ULIM
Below(page) == st.start < ULIM
Allowed(page) ==
    LET pte == st.table[page]
    IN pte # NoTable /\ Below(page) /\ "P" \in pte /\ st.perm \subseteq pte
FirstBad == IF st.start < st.va THEN st.va ELSE st.start
user_mem_check ==
    /\ At("usermem", "loop") /\ st.start < st.end
    /\ IF Allowed(st.start \div UmPage)
       THEN st' = [st EXCEPT !.start = (st.start + UmPage) % UmSize]
       ELSE st' = [st EXCEPT !.pc = "done", !.ret = -E_FAULT, !.bad = FirstBad]
user_mem_ok ==
    /\ At("usermem", "loop") /\ st.start >= st.end
    /\ st' = [st EXCEPT !.pc = "done", !.ret = 0]

UserMemNext == user_mem_assert \/ user_mem_check \/ user_mem_ok

(* The last page of the address space is the kernel's, at KERNBASE.        *)
UserMemInit ==
    \E va \in 0 .. UmSize - 1, len \in 0 .. UmSize - 1, perm \in {{}, {"W"}},
       table \in {t \in [0 .. UmPages - 1 -> Entry] : t[UmPages - 1] = {"P", "W"}} :
          st = [fn |-> "usermem", pc |-> "call", va |-> va, len |-> len, perm |-> perm,
                table |-> table, start |-> 0, end |-> 0, ret |-> 0, bad |-> 0]

UserMemSpec == UserMemInit /\ [][UserMemNext]_st

-----------------------------------------------------------------------------
(* Properties *)

UserMay(a) ==
    LET pte == st.table[a \div UmPage]
    IN a < ULIM /\ pte # NoTable /\ {"P", "U"} \cup st.perm \subseteq pte

(* pmap.c: for a range that ends below the last page, the check succeeds   *)
(* only if the environment may access every byte (below ULIM, PTE_P,       *)
(* PTE_U and what was asked for), and fails, unless the range is empty,    *)
(* only if there is a byte that it may not, the first of which it names.   *)
UserMemChecked ==
    At("usermem", "done") /\ st.va + st.len <= UmSize - UmPage =>
        LET bad == {a \in st.va .. st.va + st.len - 1 : ~UserMay(a)}
        IN IF st.ret = 0 THEN bad = {}
           ELSE st.len > 0 => bad # {} /\ st.bad = Min(bad)
=============================================================================
