-------------------------------- MODULE Stab --------------------------------
(***************************************************************************)
(* debuginfo_eip of kern/kdebug.c: three binary searches in the table of   *)
(* debugging symbols, for the source file (SO), the function (FUN) and the *)
(* line (SLINE) of an instruction address, then a walk back to the name of *)
(* the file and one forward over the parameters.  A stab is its type,      *)
(* value and line number; its name in the string table is its index.       *)
(***************************************************************************)
EXTENDS Routine, FiniteSetsExt, Sequences

CONSTANTS
    StabLen,    \* length of the tables for stab_binsearch by itself,
    StabValue,  \* addresses of the stabs in them
    StabAddr,   \* and addresses that are looked up
    StabStep    \* distance of two addresses in a whole table

ASSUME StabAssumption ==
    /\ StabLen \in Nat \ {0} /\ StabStep \in Nat \ {0}
    /\ StabValue \subseteq Nat /\ StabAddr \subseteq Nat

Is(i, type) == st.stabs[i].type = type

KernelFault == -2  \* debuginfo_eip does not return: trap panics

(* Call stab_binsearch on [left, right].                                   *)
binsearch(s, type, left, right, addr) ==
    [s EXCEPT !.pc = "search", !.type = type, !.from = left, !.to = right, !.key = addr,
              !.left = left, !.right = right, !.addr = addr,
              !.l = left, !.r = right, !.any = FALSE]

(* One turn of the search: m is the last stab of the type in [l, true_m].  *)
(* After an exact match the key is one more, to find the right end.        *)
PastExact_not(addr) == addr
PastExact(addr) == addr + 1
stab_binsearch ==
    /\ At("stab", "search") /\ st.l <= st.r /\ (st.l + st.r) \div 2 < st.readable
    /\ LET true_m == (st.l + st.r) \div 2
           match == {i \in st.l .. true_m : Is(i, st.type)}
           m == Max(match)
           v == st.stabs[m].value
       IN \/ /\ match = {}
             /\ st' = [st EXCEPT !.l = true_m + 1]
          \/ /\ match # {} /\ v < st.addr
             /\ st' = [st EXCEPT !.any = TRUE, !.left = m, !.l = true_m + 1]
          \/ /\ match # {} /\ v > st.addr
             /\ st' = [st EXCEPT !.any = TRUE, !.right = m - 1, !.r = m - 1]
          \/ /\ match # {} /\ v = st.addr
             /\ st' = [st EXCEPT !.any = TRUE, !.left = m, !.l = m, !.addr = PastExact(st.addr)]

(* The kernel faults on a stab that it cannot read.  A turn reads true_m   *)
(* first; what debuginfo_eip reads besides are stabs the searches have     *)
(* read, or stabs before them.                                             *)
table_fault ==
    /\ At("stab", "search") /\ st.l <= st.r /\ (st.l + st.r) \div 2 >= st.readable
    /\ st' = [st EXCEPT !.pc = "done", !.ret = KernelFault]

(* The rightmost stab of the type in the region, or its left end           *)
Rightmost_inclusive ==
    LET match == {i \in st.left + 1 .. st.right + 1 : i \in DOMAIN st.stabs /\ Is(i, st.type)}
    IN IF match # {} THEN Max(match) ELSE IF st.right > st.left THEN st.left ELSE st.right
Rightmost ==
    LET match == {i \in st.left + 1 .. st.right : Is(i, st.type)}
    IN IF match # {} THEN Max(match) ELSE IF st.right > st.left THEN st.left ELSE st.right
binsearch_ends ==
    /\ At("stab", "search") /\ st.l > st.r
    /\ st' = IF st.any THEN [st EXCEPT !.pc = "found", !.left = Rightmost]
             ELSE [st EXCEPT !.pc = "found", !.right = st.left - 1]

search_returns ==
    /\ At("stab", "found") /\ ~st.whole
    /\ st' = [st EXCEPT !.pc = "done"]

Fails == st' = [st EXCEPT !.pc = "done", !.ret = -1]

(* debuginfo_eip: of a user program's data the pointers at USTABDATA, one  *)
(* stab and the string table are checked, and that the latter ends with a  *)
(* NUL; the table of stabs may still end, for the kernel, after `readable' *)
(* stabs.                                                                  *)
debuginfo_eip ==
    /\ At("stab", "call")
    /\ IF st.usd /\ st.readable >= 1 /\ st.strtab
       THEN st' = binsearch(st, "SO", 0, st.last, st.eip)
       ELSE Fails

found_file ==
    /\ At("stab", "found") /\ st.type = "SO" /\ st.whole
    /\ IF st.left = 0 THEN Fails
       ELSE st' = binsearch([st EXCEPT !.lfile = st.left, !.rfile = st.right],
                            "FUN", st.left, st.right, st.eip)

(* Line numbers are relative to the function.                              *)
LineKey_absolute == st.eip
LineKey == st.eip - st.stabs[st.left].value
found_function ==
    /\ At("stab", "found") /\ st.type = "FUN"
    /\ LET s == [st EXCEPT !.lfun = st.left, !.rfun = st.right]
       IN st' = IF st.left <= st.right
                THEN binsearch([s EXCEPT !.fn_addr = st.stabs[st.left].value],
                               "SLINE", st.left, st.right, LineKey)
                ELSE binsearch([s EXCEPT !.fn_addr = st.eip], "SLINE", st.lfile, st.rfile, st.eip)

(* The line; the last file name before it; the parameters after the        *)
(* function's own stab                                                     *)
FileNames == {i \in st.lfile .. st.left :
                Is(i, "SOL") \/ (Is(i, "SO") /\ st.stabs[i].value # 0)}
Parameters ==
    LET i == Min({i \in st.lfun + 1 .. st.rfun : i = st.rfun \/ ~Is(i, "PSYM")})
    IN IF st.lfun < st.rfun THEN i - (st.lfun + 1) ELSE 0
found_line ==
    /\ At("stab", "found") /\ st.type = "SLINE"
    /\ IF st.left <= st.right
       THEN st' = [st EXCEPT !.pc = "done", !.line = st.stabs[st.left].desc,
                             !.file = IF FileNames = {} THEN -1 ELSE Max(FileNames),
                             !.narg = Parameters]
       ELSE Fails

StabNext == stab_binsearch \/ table_fault \/ binsearch_ends \/ search_returns \/ debuginfo_eip
            \/ found_file \/ found_function \/ found_line
SearchNext == stab_binsearch \/ binsearch_ends \/ search_returns

-----------------------------------------------------------------------------
(* Inputs: any table with sorted SO stabs, and whole tables as the         *)
(* compiler writes them: a header, a file, two functions, the file's end.  *)
Mk(type, value, desc) == [type |-> type, value |-> value, desc |-> desc]
Sorted(t) == \A i, j \in DOMAIN t :
    i < j /\ t[i].type = "SO" /\ t[j].type = "SO" => t[i].value <= t[j].value
AnyStab == {Mk("SO", v, 0) : v \in StabValue} \cup {Mk("LSYM", 0, 0)}

Function(at, psyms, sol, lines) ==
    <<Mk("FUN", at, 0)>> \o [i \in 1 .. psyms |-> Mk("PSYM", 0, 0)]
    \o <<Mk("SLINE", 0, 10 * at)>> \o sol
    \o [i \in 1 .. lines |-> Mk("SLINE", StabStep * i, 10 * at + i)]
Included == {<<>>, <<Mk("SOL", 1, 0)>>}
End == 6 * StabStep
Tables == {<<Mk("UNDF", 0, 0), Mk("SO", StabStep, 0)>> \o Function(StabStep, p, s, n)
             \o Function(4 * StabStep, q, <<>>, k) \o <<Mk("SO", End, 0)>> :
             p \in 0 .. 2, q \in 0 .. 2, s \in Included, n \in 0 .. 2, k \in 0 .. 1}

ZeroBased(t) == [i \in 0 .. Len(t) - 1 |-> t[i + 1]]
NewCall(t, whole) ==
    [fn |-> "stab", pc |-> "call", ret |-> 0, whole |-> whole,
     usd |-> TRUE, strtab |-> TRUE, readable |-> Len(t),
     stabs |-> ZeroBased(t), last |-> Len(t) - 1, eip |-> 0,
     type |-> "SO", from |-> 0, to |-> 0, key |-> 0, left |-> 0, right |-> 0, addr |-> 0,
     l |-> 0, r |-> 0, any |-> FALSE, lfile |-> 0, rfile |-> 0, lfun |-> 0, rfun |-> 0,
     fn_addr |-> 0, line |-> 0, file |-> 0, narg |-> 0]
SearchInit ==
    \E t \in {u \in [1 .. StabLen -> AnyStab] : Sorted(u)}, a \in StabAddr,
       right \in 0 .. StabLen - 1 :
          \E left \in 0 .. right : st = binsearch(NewCall(t, FALSE), "SO", left, right, a)
StabInit ==
    \/ SearchInit
    \/ \E t \in Tables, a \in 0 .. End + 1 :
          LET call == [NewCall(t, TRUE) EXCEPT !.eip = a]
          IN \/ st = [call EXCEPT !.usd = FALSE]
             \/ st = [call EXCEPT !.strtab = FALSE]
             \/ \E readable \in {0, 1, Len(t) \div 2, Len(t)} :
                   st = [call EXCEPT !.readable = readable]

(* stab_binsearch by itself                                                *)
SearchSpec == SearchInit /\ [][SearchNext]_st

-----------------------------------------------------------------------------
(* Properties *)

(* kdebug.c: when some stab of the type in the region begins at or before  *)
(* the address, the search returns the last one that does, and the index   *)
(* before the next one.                                                    *)
StabBrackets ==
    At("stab", "found") =>
        LET match == {i \in st.from .. st.to : Is(i, st.type)}
            before == {i \in match : st.stabs[i].value <= st.key}
            after == match \ before
        IN before # {} => /\ st.left = Max(before)
                          /\ st.right = IF after = {} THEN st.to ELSE Min(after) - 1

(* kdebug.c: for an address in a function, and a table all of which can be *)
(* read, debuginfo_eip gives the function, the number of its parameters,   *)
(* and the file and the line of the last line stab at or before the        *)
(* address.                                                                *)
LineFound ==
    At("stab", "done") /\ st.whole /\ st.usd /\ st.strtab /\ st.readable = st.last + 1
    /\ st.eip \in StabStep .. End - 1 =>
        LET fun == Max({i \in DOMAIN st.stabs : Is(i, "FUN") /\ st.stabs[i].value <= st.eip})
            next == Min({i \in DOMAIN st.stabs : i > fun /\ st.stabs[i].type \in {"FUN", "SO"}})
            line == Max({i \in fun .. next - 1 : /\ Is(i, "SLINE")
                                                 /\ st.stabs[fun].value + st.stabs[i].value <= st.eip})
            files == {i \in 1 .. line : st.stabs[i].type \in {"SO", "SOL"}}
        IN /\ st.ret = 0 /\ st.fn_addr = st.stabs[fun].value
           /\ st.line = st.stabs[line].desc /\ st.file = Max(files)
           /\ st.narg = Cardinality({i \in fun .. next - 1 : Is(i, "PSYM")})
=============================================================================
