------------------------------ MODULE Strings -------------------------------
(***************************************************************************)
(* lib/string.c.  Strings that are only read are sequences of characters   *)
(* without the final NUL, and the routines on them are operators.          *)
(* memmove and the copying routines work on memory, step by step: words    *)
(* (StrWord bytes in place of four) or bytes, upwards or downwards.        *)
(***************************************************************************)
EXTENDS Routine, Sequences, FiniteSetsExt

CONSTANTS
    StrMem,     \* bytes of memory
    StrWord     \* bytes of a machine word

ASSUME StringsAssumption == StrMem \in Nat \ {0} /\ StrWord \in Nat \ {0}

NUL == 0

strlen(s) == Len(s)
strnlen(s, size) == IF Len(s) < size THEN Len(s) ELSE size
strchr(s, c) == \E i \in DOMAIN s : s[i] = c
strfind(s, c) == Min({i - 1 : i \in {j \in DOMAIN s : s[j] = c}} \cup {Len(s)})
strcmp(p, q) == p = q       \* only its being 0 is used

memset(mem, v, c, n) == [a \in DOMAIN mem |-> IF a \in v .. v + n - 1 THEN c % 256 ELSE mem[a]]

(* memmove: downwards when the destination begins inside the source, by    *)
(* words when both ends and the length allow it                            *)
Backwards_never == FALSE
Backwards == st.src < st.dst /\ st.src + st.n > st.dst
Unit ==
    LET s == IF Backwards THEN st.src + st.n ELSE st.src
        d == IF Backwards THEN st.dst + st.n ELSE st.dst
    IN IF s % StrWord = 0 /\ d % StrWord = 0 /\ st.n % StrWord = 0 THEN StrWord ELSE 1
memmove ==
    /\ At("memmove", "call")
    /\ st' = [st EXCEPT !.pc = "rep", !.back = Backwards, !.unit = Unit]

(* rep movs: one unit, i bytes from the beginning                          *)
Moved(mem, i) ==
    [a \in DOMAIN mem |-> IF a \in st.dst + i .. st.dst + i + st.unit - 1
                          THEN mem[st.src + (a - st.dst)] ELSE mem[a]]
movs ==
    /\ At("memmove", "rep") /\ st.k < st.n \div st.unit
    /\ LET i == (IF st.back THEN (st.n \div st.unit) - 1 - st.k ELSE st.k) * st.unit
       IN st' = [st EXCEPT !.k = st.k + 1, !.mem = Moved(st.mem, i)]
movs_ends ==
    /\ At("memmove", "rep") /\ st.k = st.n \div st.unit
    /\ st' = [st EXCEPT !.pc = "done", !.ret = st.dst]

(* The loops of strcpy, strncpy and strlcpy, with d and s the pointers.    *)
(* strcat is strcpy to the end of the first string.                        *)
Store(d, c) == [st.mem EXCEPT ![d] = c]
strcpy ==
    /\ At("strcpy", "call")
    /\ LET c == st.mem[st.s]
       IN st' = [st EXCEPT !.pc = IF c = NUL THEN "done" ELSE "call",
                           !.mem = Store(st.d, c), !.d = st.d + 1, !.s = st.s + 1]
strncpy ==
    /\ At("strncpy", "call")
    /\ IF st.i < st.n
       THEN st' = [st EXCEPT !.mem = Store(st.d, st.mem[st.s]), !.d = st.d + 1, !.i = st.i + 1,
                             !.s = IF st.mem[st.s] # NUL THEN st.s + 1 ELSE st.s]
       ELSE st' = [st EXCEPT !.pc = "done"]
Left_off_by_one(size) == size >= 0
Left(size) == size > 0
strlcpy ==
    /\ At("strlcpy", "call")
    /\ st' = CASE st.n = 0 -> [st EXCEPT !.pc = "done"]
               [] st.n > 0 /\ Left(st.n - 1) /\ st.mem[st.s] # NUL ->
                     [st EXCEPT !.n = st.n - 1, !.mem = Store(st.d, st.mem[st.s]),
                                !.d = st.d + 1, !.s = st.s + 1]
               [] OTHER -> [st EXCEPT !.pc = "done", !.mem = Store(st.d, NUL),
                                      !.ret = st.d - st.dst]

MoveNext == memmove \/ movs \/ movs_ends
CopyNext == strcpy \/ strncpy \/ strlcpy
StringsNext == MoveNext \/ CopyNext

(* Inputs: every position, length and overlap of a move; a string of up to *)
(* three characters at 0, copied to 4 and beyond.                          *)
MoveInit ==
    \E dst, src \in 0 .. StrMem - 1, n \in 0 .. StrMem :
       /\ dst + n <= StrMem /\ src + n <= StrMem
       /\ LET m == [a \in 0 .. StrMem - 1 |-> a]
          IN st = [fn |-> "memmove", pc |-> "call", mem |-> m, old |-> m,
                   dst |-> dst, src |-> src, n |-> n, k |-> 0, back |-> FALSE, unit |-> 1, ret |-> 0]
CopyRoutine == {"strcpy", "strncpy", "strlcpy"}
CopyCall(f, m, src, len, dst, n) ==
    st = [fn |-> f, pc |-> "call", mem |-> m, old |-> m, d |-> dst, s |-> src, i |-> 0,
          dst |-> dst, src |-> src, len |-> len, size |-> n, n |-> n, ret |-> 0]
StringsInit ==
    \/ MoveInit
    \/ \E len \in 0 .. 3, n \in 0 .. StrMem - 5, f \in CopyRoutine :
          CopyCall(f, [a \in 0 .. StrMem - 1 |-> IF a = len THEN NUL ELSE a + 1], 0, len, 4, n)

(* Any memory, a string of any length anywhere, copied to anywhere outside *)
(* of it                                                                   *)
CopyInit ==
    \E f \in CopyRoutine, m \in [0 .. StrMem - 1 -> Nat], src, len, dst, n \in Nat :
       LET room == IF f = "strcpy" THEN len + 1 ELSE n
       IN /\ src + len < StrMem /\ dst + room <= StrMem
          /\ m[src + len] = NUL /\ \A a \in src .. src + len - 1 : m[a] # NUL
          /\ src + len < dst \/ dst + room <= src
          /\ CopyCall(f, m, src, len, dst, n)
-----------------------------------------------------------------------------
(* Properties *)

(* string.c: memmove copies overlapping areas as if through a third one    *)
(* and changes nothing else.                                               *)
MovedAsAWhole ==
    At("memmove", "done") =>
        st.mem = [a \in DOMAIN st.old |-> IF a \in st.dst .. st.dst + st.n - 1
                                          THEN st.old[st.src + (a - st.dst)] ELSE st.old[a]]

(* string.c: strcpy writes the string and its NUL; strncpy exactly size    *)
(* bytes, padded; strlcpy at most size bytes, always with a NUL, and it    *)
(* returns the number of the others; none writes anywhere else.            *)
Written(count, all) ==
    [a \in DOMAIN st.old |->
        CASE a \in st.dst .. st.dst + count - 1 -> st.old[st.src + (a - st.dst)]
          [] a \in st.dst + count .. st.dst + all - 1 -> NUL
          [] OTHER -> st.old[a]]
Lesser(a, b) == IF a <= b THEN a ELSE b
CopiedInside ==
    st.fn \in CopyRoutine /\ st.pc = "done" =>
        LET fit == Lesser(st.len, st.size - 1)
        IN CASE st.fn = "strcpy" -> st.mem = Written(st.len, st.len + 1)
             [] st.fn = "strncpy" -> st.mem = Written(Lesser(st.len, st.size), st.size)
             [] st.fn = "strlcpy" /\ st.size = 0 -> st.mem = st.old /\ st.ret = 0
             [] st.fn = "strlcpy" /\ st.size > 0 -> st.mem = Written(fit, fit + 1) /\ st.ret = fit
=============================================================================
