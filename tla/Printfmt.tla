------------------------------ MODULE Printfmt ------------------------------
(***************************************************************************)
(* vprintfmt of lib/printfmt.c, the interpreter of format strings, with    *)
(* vsnprintf's buffer behind it; strtol of lib/string.c reads numbers      *)
(* back.  A format is a sequence of characters, ended by a NUL; f is the   *)
(* index of the next one.  Arguments are words modulo FmtWord (in place of *)
(* 2^32); a pointer to a string is a small number.                         *)
(***************************************************************************)
EXTENDS Strings

CONSTANTS
    FmtWord,    \* a word is -FmtWord/2 .. FmtWord/2 - 1
    FmtChars,   \* characters of formats
    FmtLen      \* length of formats

ASSUME PrintfmtAssumption == FmtWord \in Nat \ {0} /\ FmtLen \in Nat /\ "NUL" \notin FmtChars

Digit == <<"0", "1", "2", "3", "4", "5", "6", "7", "8", "9", "a", "b", "c", "d", "e", "f">>
ValueOf(c) == CHOOSE v \in 0 .. 15 : Digit[v + 1] = c
IsDigit(c) == \E v \in 0 .. 9 : Digit[v + 1] = c

(* The string at a pointer, with a character that # shows as a question    *)
(* mark, and the message of an error code                                  *)
Text(p) == IF p = 0 THEN <<"(", "n", ")">> ELSE <<"s", "BEL", "r">>
Shown(c) == IF st.altflag /\ c = "BEL" THEN "?" ELSE c
MAXERROR == 9
ErrorString(err) == IF err \in 1 .. MAXERROR - 1 THEN <<"m", "s", "g">> ELSE <<>>

Unsigned(a) == a % FmtWord
Signed(a) == ((a + (FmtWord \div 2)) % FmtWord) - (FmtWord \div 2)

Repeat(c, n) == [i \in 1 .. n |-> c]

(* printnum: the digits of num, most significant first, padded to width    *)
Digits(num, base) ==
    LET d[n \in Nat] == IF n >= base THEN Append(d[n \div base], Digit[(n % base) + 1])
                        ELSE <<Digit[n + 1]>>
    IN d[num]
printnum(num, base, width, padc) ==
    LET d == Digits(num, base) IN Repeat(padc, width - Len(d)) \o d

(* sprintputch for each of the characters: all are counted, those that fit *)
(* are stored, with a byte kept for the NUL.                               *)
Room_all(n) == n
Room(n) == n - 1
Kept(all) == IF Len(all) <= Room(st.n) THEN all ELSE SubSeq(all, 1, Room(st.n))
Put(s, cs) == [s EXCEPT !.out = st.out \o cs, !.buf = Kept(st.out \o cs)]

Char == IF st.f < Len(st.fmt) THEN st.fmt[st.f + 1] ELSE "NUL"

(* Characters up to the next % are copied.                                 *)
vsnprintf ==
    /\ At("printf", "call")
    /\ st' = IF st.null \/ st.n < 1 THEN [st EXCEPT !.pc = "done", !.ret = -3]
             ELSE [st EXCEPT !.pc = "text"]
text ==
    /\ At("printf", "text")
    /\ \/ Char = "NUL" /\ st' = [st EXCEPT !.pc = "done", !.ret = Len(st.out)]
       \/ /\ Char = "%"
          /\ st' = [st EXCEPT !.pc = "escape", !.f = st.f + 1, !.padc = " ", !.width = -1,
                              !.precision = -1, !.lflag = 0, !.altflag = FALSE]
       \/ Char \notin {"NUL", "%"} /\ st' = Put([st EXCEPT !.f = st.f + 1], <<Char>>)

(* Flags, width and precision                                              *)
process_precision(s, p) ==
    [s EXCEPT !.width = IF st.width < 0 THEN p ELSE st.width,
              !.precision = IF st.width < 0 THEN -1 ELSE p]
LastDigit ==    \* of the number at f, and the value of the number
    Max({j \in st.f .. Len(st.fmt) - 1 : \A i \in st.f .. j : IsDigit(st.fmt[i + 1])})
Number ==
    LET val[j \in 0 .. LastDigit + 1] ==
            IF j <= st.f THEN 0 ELSE val[j - 1] * 10 + ValueOf(st.fmt[j])
    IN val[LastDigit + 1]
flags ==
    /\ At("printf", "escape")
    /\ \/ Char \in {"-", "0"} /\ st' = [st EXCEPT !.f = st.f + 1, !.padc = Char]
       \/ /\ IsDigit(Char) /\ Char # "0"
          /\ st' = process_precision([st EXCEPT !.f = LastDigit + 1], Number)
       \/ /\ Char = "*"
          /\ st' = process_precision([st EXCEPT !.f = st.f + 1, !.ap = st.ap + 1], st.args[st.ap])
       \/ /\ Char = "."
          /\ st' = [st EXCEPT !.f = st.f + 1, !.width = IF st.width < 0 THEN 0 ELSE st.width]
       \/ Char = "#" /\ st' = [st EXCEPT !.f = st.f + 1, !.altflag = TRUE]
       \/ Char = "l" /\ st' = [st EXCEPT !.f = st.f + 1, !.lflag = st.lflag + 1]

(* Conversions.  getuint and getint take one word or, after ll, two.       *)
Long == st.lflag >= 2
getuint == Unsigned(st.args[st.ap]) + (IF Long THEN FmtWord * Unsigned(st.args[st.ap + 1]) ELSE 0)
getint == IF Long THEN Unsigned(st.args[st.ap]) + FmtWord * st.args[st.ap + 1] ELSE st.args[st.ap]
Used == IF Long THEN 2 ELSE 1

string(p) ==
    LET len == IF st.precision < 0 THEN strlen(p) ELSE strnlen(p, st.precision)
        shown == [i \in 1 .. len |-> Shown(p[i])]
        pad == st.width - Len(shown)
    IN CASE st.padc # "-" /\ st.width > 0 -> Repeat(st.padc, pad) \o shown
         [] OTHER -> shown \o Repeat(" ", pad)
(* The least int stays negative; its index in error_string, four bytes     *)
(* each, wraps around to the entry of 0, which is NULL.                    *)
error(code) ==
    LET err == IF code < 0 THEN Signed(-code) ELSE code
    IN IF ErrorString(err) # <<>> THEN ErrorString(err)
       ELSE <<"e", "r", "r">> \o IF err < 0 THEN <<"-">> \o Digits(-err, 10) ELSE Digits(err, 10)
decimal(num) ==
    IF num < 0 THEN <<"-">> \o printnum(-num, 10, st.width, st.padc)
    ELSE printnum(num, 10, st.width, st.padc)
Converts(cs, used) ==
    st' = Put([st EXCEPT !.pc = "text", !.f = st.f + 1, !.ap = st.ap + used], cs)
conversion ==
    /\ At("printf", "escape")
    /\ \/ Char = "c" /\ Converts(<<"?">>, 1)
       \/ Char = "e" /\ Converts(error(st.args[st.ap]), 1)
       \/ Char = "s" /\ Converts(string(Text(st.args[st.ap])), 1)
       \/ Char = "d" /\ Converts(decimal(getint), Used)
       \/ Char = "u" /\ Converts(printnum(getuint, 10, st.width, st.padc), Used)
       \/ Char = "o" /\ Converts(printnum(getuint, 8, st.width, st.padc), Used)
       \/ Char = "p" /\ Converts(<<"0", "x">> \o printnum(Unsigned(st.args[st.ap]), 16, st.width, st.padc), 1)
       \/ Char = "x" /\ Converts(printnum(getuint, 16, st.width, st.padc), Used)
       \/ Char = "%" /\ Converts(<<"%">>, 0)

(* Anything else: print the %, and go back to what follows it.             *)
Known == {"-", "*", ".", "#", "l", "c", "e", "s", "d", "u", "o", "p", "x", "%"}
Back_none(f) == f + 1
Back(f) == Max({i \in 1 .. f : st.fmt[i] = "%"})
unknown ==
    /\ At("printf", "escape") /\ Char \notin Known /\ ~IsDigit(Char)
    /\ st' = Put([st EXCEPT !.pc = "text", !.f = Back(st.f)], <<"%">>)

-----------------------------------------------------------------------------
(* strtol, called on what was printed                                      *)
Peek(k) == IF st.i + k <= Len(st.s) THEN st.s[st.i + k] ELSE "NUL"
read_back ==
    /\ At("printf", "done") /\ st.base # -1 /\ st.ret > 0
    /\ st' = [fn |-> "strtol", pc |-> "blanks", s |-> st.out, i |-> 1, neg |-> FALSE,
              val |-> 0, base |-> st.base, expect |-> st.args[1], ret |-> 0]
strtol_blanks ==
    /\ At("strtol", "blanks")
    /\ st' = CASE Peek(0) = " " -> [st EXCEPT !.i = st.i + 1]
               [] Peek(0) \in {"+", "-"} ->
                     [st EXCEPT !.pc = "prefix", !.i = st.i + 1, !.neg = Peek(0) = "-"]
               [] OTHER -> [st EXCEPT !.pc = "prefix"]
HexPrefix_not_for_0 == st.base = 16 /\ Peek(0) = "0" /\ Peek(1) = "x"
HexPrefix == st.base \in {0, 16} /\ Peek(0) = "0" /\ Peek(1) = "x"
strtol_prefix ==
    /\ At("strtol", "prefix")
    /\ LET s == [st EXCEPT !.pc = "digits"]
       IN st' = CASE HexPrefix -> [s EXCEPT !.i = st.i + 2, !.base = 16]
                  [] ~HexPrefix /\ st.base = 0 /\ Peek(0) = "0" ->
                        [s EXCEPT !.i = st.i + 1, !.base = 8]
                  [] ~HexPrefix /\ st.base = 0 /\ Peek(0) # "0" -> [s EXCEPT !.base = 10]
                  [] OTHER -> s
IsDigitOf(c, base) == \E v \in 0 .. base - 1 : Digit[v + 1] = c
strtol_digits ==
    /\ At("strtol", "digits")
    /\ IF IsDigitOf(Peek(0), st.base)
       THEN st' = [st EXCEPT !.i = st.i + 1, !.val = Signed(st.val * st.base + ValueOf(Peek(0)))]
       ELSE st' = [st EXCEPT !.pc = "done", !.ret = Signed(IF st.neg THEN -st.val ELSE st.val)]

PrintfmtNext == vsnprintf \/ text \/ flags \/ conversion \/ unknown
                \/ read_back \/ strtol_blanks \/ strtol_prefix \/ strtol_digits

(* Inputs: every short format; formats whose output strtol reads back with *)
(* the given base.                                                         *)
Formats == UNION {[1 .. k -> FmtChars] : k \in 0 .. FmtLen}
ReadBackFormats ==
    {<<<<"%", "d">>, 10>>, <<<<"%", "0", "3", "d">>, 10>>, <<<<"%", "u">>, 0>>,
     <<<<"%", "0", "3", "x">>, 16>>, <<<<"0", "x", "%", "x">>, 0>>, <<<<"%", "p">>, 0>>,
     <<<<"0", "%", "o">>, 0>>, <<<<"%", "4", "u">>, 10>>}
FormatCall(fmt, args, null, n, base) ==
    st = [fn |-> "printf", pc |-> "call", fmt |-> fmt, f |-> 0, args |-> args, ap |-> 1,
          null |-> null, n |-> n, base |-> base, out |-> <<>>, buf |-> <<>>, ret |-> 0,
          padc |-> " ", width |-> -1, precision |-> -1, lflag |-> 0, altflag |-> FALSE]
Words == -(FmtWord \div 2) .. (FmtWord \div 2) - 1
PrintfmtInit ==
    \/ \E fmt \in Formats, a \in {-2, 0}, n \in {1, 3} :
          FormatCall(fmt, <<a, 1, 2, 3>>, FALSE, n, -1)
    \/ \E n \in {1, 3, 8} : FormatCall(<<"%", "e">>, <<-(FmtWord \div 2)>>, FALSE, n, -1)
    \/ \E r \in ReadBackFormats, a \in Words, n \in {0, 8}, null \in BOOLEAN :
          FormatCall(r[1], <<a>>, null, n, r[2])

(* vprintfmt on any format, with any arguments and any buffer              *)
FormatInit ==
    \E fmt \in Formats, args \in [Nat \ {0} -> Int], null \in BOOLEAN, n \in Nat :
       FormatCall(fmt, args, null, n, -1)

(* memmove, the copying routines and vprintfmt, one call of any of them    *)
TextInit == MoveInit \/ CopyInit \/ FormatInit
TextSpec == TextInit /\ [][StringsNext \/ PrintfmtNext]_st

-----------------------------------------------------------------------------
(* Properties *)

(* printfmt.c: whatever the format, even one that ends inside an escape,   *)
(* vprintfmt reads nothing after its NUL.                                  *)
InsideFormat == st.fn = "printf" => st.f <= Len(st.fmt)

(* printfmt.c: vsnprintf stores the beginning of what is printed, leaves   *)
(* room for the NUL, and returns the length of all of it.                  *)
BufferBounded ==
    st.fn = "printf" =>
        /\ st.n > 0 => Len(st.buf) < st.n
        /\ At("printf", "done") /\ st.ret >= 0 =>
              /\ st.ret = Len(st.out)
              /\ Len(st.buf) = Lesser(Len(st.out), st.n - 1)

(* printfmt.c, string.c: strtol reads back the number that was printed, in *)
(* every base, with zeros or blanks before it, also where it wraps around. *)
ReadBack == At("strtol", "done") => st.ret = st.expect /\ st.i = Len(st.s) + 1

(* Together: the routines of lib/ on bytes and text compute what they      *)
(* should and touch nothing outside their arguments.                       *)
TextExact == MovedAsAWhole /\ CopiedInside /\ InsideFormat /\ BufferBounded
=============================================================================
