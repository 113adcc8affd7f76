------------------------------- MODULE Monitor ------------------------------
(***************************************************************************)
(* runcmd of kern/monitor.c: splits the line into words in place, putting  *)
(* a NUL over each blank, looks the first word up and calls the command.   *)
(* setperms changes the rights of a page of the kernel; the other commands *)
(* only print.  A line is an array of characters that ends with a NUL.     *)
(***************************************************************************)
EXTENDS Strings

CONSTANTS
    LineChars,  \* characters of lines
    LineLen,    \* length of lines
    MAXARGS     \* pointers in argv

WHITESPACE == <<"\t", "\r", "\n", " ">>
EndOfLine == "NUL"

ASSUME MonitorAssumption ==
    LineLen \in Nat /\ MAXARGS \in Nat \ {0} /\ EndOfLine \notin LineChars

Blank(c) == strchr(WHITESPACE, c)

(* The word that begins at i, up to a NUL                                  *)
Word(buf, i) ==
    LET e == Min({j \in i .. Len(buf) : buf[j] = EndOfLine}) IN SubSeq(buf, i, e - 1)

gobble ==
    /\ At("runcmd", "blanks")
    /\ IF st.buf[st.i] # EndOfLine /\ Blank(st.buf[st.i])
       THEN st' = [st EXCEPT !.i = st.i + 1, !.buf = [st.buf EXCEPT ![st.i] = EndOfLine]]
       ELSE st' = [st EXCEPT !.pc = IF st.buf[st.i] = EndOfLine THEN "lookup" ELSE "word"]

Full_late(argc) == argc = MAXARGS
Full(argc) == argc = MAXARGS - 1
save_arg ==
    /\ At("runcmd", "word")
    /\ IF Full(Len(st.argv)) THEN st' = [st EXCEPT !.pc = "done", !.called = "too many"]
       ELSE st' = [st EXCEPT !.pc = "scan", !.argv = Append(st.argv, st.i)]
scan ==
    /\ At("runcmd", "scan")
    /\ IF st.buf[st.i] # EndOfLine /\ ~Blank(st.buf[st.i])
       THEN st' = [st EXCEPT !.i = st.i + 1]
       ELSE st' = [st EXCEPT !.pc = "blanks"]

(* argv[argc] = 0, then the command                                        *)
Argc == Len(st.argv)
Argv(k) == Word(st.buf, st.argv[k + 1])
Calls(c) == Argc > 0 /\ strcmp(Argv(0), c)
Done(called, pte) == st' = [st EXCEPT !.pc = "done", !.called = called, !.pte = pte]
lookup ==
    /\ At("runcmd", "lookup") /\ ~Calls(<<"s">>)
    /\ Done(IF Calls(<<"h">>) THEN "help" ELSE "none", st.pte)

(* A character of readline's buffer: behind the NUL of the line lies what  *)
(* earlier lines left there, then zeros.                                   *)
BufAt(i) ==
    IF i <= Len(st.buf) THEN st.buf[i]
    ELSE IF i - Len(st.buf) <= Len(st.rest) THEN st.rest[i - Len(st.buf)] ELSE EndOfLine

(* setperms ("s") "clear" ("c") or "set" ("e"), an address, the rights.    *)
(* The number of arguments is tested after the address was read: without   *)
(* one the kernel faults.  An address without page table is refused.       *)
FirstRight_zero == 0
FirstRight == 1
mon_setperms ==
    /\ At("runcmd", "lookup") /\ Calls(<<"s">>)
    /\ CASE Argc < 3 \/ ~st.mapped -> Done("panic", st.pte)
         [] Argc >= 3 /\ st.mapped /\ strcmp(Argv(1), <<"c">>) -> Done("setperms", {})
         [] Argc >= 3 /\ st.mapped /\ strcmp(Argv(1), <<"e">>) ->
               st' = [st EXCEPT !.pc = "rights", !.pte = {}, !.k = FirstRight]
         [] OTHER -> Done("setperms", st.pte)

(* The loop of "set", the rights already cleared: every other character up *)
(* to a NUL, which an argument of even length steps over.  Without the     *)
(* argument the kernel faults.                                             *)
set_rights ==
    /\ At("runcmd", "rights")
    /\ IF Argc < 4 THEN Done("panic", st.pte)
       ELSE LET c == BufAt(st.argv[4] + st.k) IN
            IF c = EndOfLine THEN Done("setperms", st.pte)
            ELSE st' = [st EXCEPT !.k = st.k + 2, !.pte = st.pte \cup ({c} \cap {"P", "U", "W"})]

MonitorNext == gobble \/ save_arg \/ scan \/ lookup \/ mon_setperms \/ set_rights

Lines == UNION {[1 .. k -> LineChars] : k \in 0 .. LineLen}
SetPrefix == <<"s", " ", "e", " ", "1", " ">>
ListOf(rs) == [i \in 1 .. 2 * Len(rs) + 1 |->
                 IF i % 2 = 0 THEN rs[i \div 2] ELSE IF i = 1 THEN "[" ELSE IF i = 2 * Len(rs) + 1 THEN "]" ELSE "|"]
SetLines == {SetPrefix \o ListOf(rs) \o b :
               rs \in UNION {[1 .. k -> {"P", "U", "W"}] : k \in 1 .. 3}, b \in {<<>>, <<" ">>}}
ClearLines == {<<"s", " ", "c", " ", "1">>}
OtherLines == {<<"s">>, <<"s", " ", "e">>, <<"s", " ", "e", " ", "1">>, <<"s", " ", "x", " ", "1">>,
               SetPrefix \o <<"[", "W">>, SetPrefix \o <<"W">>}
Leftovers == {<<>>, <<"P">>, <<"h", "U", "h", "W">>}
Typed(line, rest, mapped) ==
    [fn |-> "runcmd", pc |-> "blanks", buf |-> Append(line, EndOfLine), i |-> 1,
     line |-> line, rest |-> rest, mapped |-> mapped, argv |-> <<>>, called |-> "no",
     pte |-> {"P", "W"}, k |-> 0, ret |-> 0]
RuncmdInit == \E line \in Lines, rest \in Leftovers, mapped \in BOOLEAN : st = Typed(line, rest, mapped)
MonitorInit ==
    \/ \E line \in Lines : st = Typed(line, <<>>, TRUE)
    \/ \E line \in SetLines \cup ClearLines \cup OtherLines, rest \in Leftovers, mapped \in BOOLEAN :
          st = Typed(line, rest, mapped)

(* runcmd on a line of any characters                                      *)
RuncmdSpec == RuncmdInit /\ [][MonitorNext]_st

-----------------------------------------------------------------------------
(* Properties *)

(* Where the words of the line begin                                       *)
Starts == {i \in 1 .. Len(st.line) :
             ~Blank(st.line[i]) /\ (i = 1 \/ Blank(st.line[i - 1]))}

(* monitor.c: argv holds the words of the line, in order, each ended by a  *)
(* NUL; argv, with the NULL at its end, has room for them, and a line with *)
(* more words is refused before anything is called.                        *)
ArgvExact ==
    st.fn = "runcmd" =>
        /\ Len(st.argv) < MAXARGS
        /\ st.pc \in {"lookup", "rights", "done"} /\ st.called # "too many" =>
              /\ \A k \in DOMAIN st.argv :
                    /\ Cardinality({i \in Starts : i < st.argv[k]}) = k - 1
                    /\ \A j \in DOMAIN Argv(k - 1) : ~Blank(Argv(k - 1)[j])
              /\ Len(st.argv) = Cardinality(Starts)
        /\ st.called = "too many" => Cardinality(Starts) >= MAXARGS

(* monitor.c, the format its panic prints: "setperms clear va" takes every *)
(* right of the page and "setperms set va [W|U|P]" gives it the rights     *)
(* listed and no other, whatever lies in the buffer behind the line; where *)
(* no page table is, no entry changes.                                     *)
RightsAsListed ==
    At("runcmd", "done") /\ st.line \in SetLines \cup ClearLines =>
        IF st.mapped
        THEN st.pte = {st.line[i] : i \in DOMAIN st.line} \cap {"P", "U", "W"}
        ELSE st.pte = {"P", "W"} /\ st.called = "panic"
=============================================================================
