------------------------------ MODULE Console -------------------------------
(***************************************************************************)
(* The console of kern/console.c under readline of lib/readline.c, as the  *)
(* kernel monitor uses them: the devices are polled, what they hold goes   *)
(* through a circular buffer, and the line that is typed is echoed on the  *)
(* CGA screen.  Characters stand for their classes; "NUL" is the 0 that    *)
(* kbd_proc_data returns for a key without a character.  The keyboard's    *)
(* decoding is in module Keyboard.  Characters on the serial and parallel  *)
(* output lines are left out.                                              *)
(***************************************************************************)
EXTENDS Integers, Sequences

CONSTANTS
    CONSBUFSIZE, CRT_COLS, CRT_ROWS, BUFLEN,
    Printable,  \* characters from ' ' on, without DEL
    DevQueue    \* characters a device holds until it is polled

CRT_SIZE == CRT_ROWS * CRT_COLS
Output == Printable \cup {"BS", "NL", "CR", "TAB"}
Input == Output \cup {"DEL", "NUL"}

(* A line never outgrows the screen less the row that scrolls away.        *)
ASSUME ConsoleAssumption ==
    /\ CONSBUFSIZE \in Nat /\ CONSBUFSIZE > 1 /\ DevQueue \in Nat \ {0}
    /\ CRT_COLS \in Nat \ {0} /\ CRT_ROWS \in Nat /\ CRT_ROWS > 1
    /\ BUFLEN \in Nat \ {0} /\ BUFLEN - 1 <= CRT_SIZE - CRT_COLS
    /\ " " \in Printable /\ Printable \cap {"BS", "NL", "CR", "TAB", "DEL", "NUL"} = {}

VARIABLES
    serial_exists,
    dev,        \* characters held by the serial port and the keyboard
    poll,       \* where cons_getc is: "serial", "kbd", "take", or "out"
    cons,       \* the ring: [buf, rpos, wpos]
    unread,     \* what was put into the ring and not taken out yet
    overrun,    \* more was put into it than it can hold
    crt,        \* [buf, pos]: the screen and the cursor
    line,       \* readline's buf[0..i-1]
    reading     \* readline was called and has not returned
consVars == <<serial_exists, dev, poll, cons, unread, overrun, crt, line, reading>>

(* cga_init takes over the screen as the BIOS left it.                     *)
ConsInit ==
    /\ serial_exists \in BOOLEAN
    /\ dev = [serial |-> <<>>, kbd |-> <<>>] /\ poll = "out"
    /\ cons = [buf |-> [k \in 0..CONSBUFSIZE-1 |-> "NUL"], rpos |-> 0, wpos |-> 0]
    /\ unread = <<>> /\ overrun = FALSE
    /\ crt \in [buf : {[k \in 0..CRT_SIZE-1 |-> " "]}, pos : 0..CRT_SIZE-1]
    /\ line = <<>> /\ reading = FALSE

(* A character arrives at a device, also while it is polled.               *)
Arrive(d, c) ==
    /\ Len(dev[d]) < DevQueue
    /\ d = "serial" => serial_exists
    /\ dev' = [dev EXCEPT ![d] = Append(@, c)]
    /\ UNCHANGED <<serial_exists, poll, cons, unread, overrun, crt, line, reading>>

(* cga_putc; a tab is five spaces through cons_putc.                       *)
Scroll_off_by_one(s) ==
    IF s.pos <= CRT_SIZE THEN s
    ELSE [buf |-> [k \in 0..CRT_SIZE-1 |->
                     IF k < CRT_SIZE - CRT_COLS THEN s.buf[k + CRT_COLS] ELSE " "],
          pos |-> s.pos - CRT_COLS]
Scroll(s) ==
    IF s.pos < CRT_SIZE THEN s
    ELSE [buf |-> [k \in 0..CRT_SIZE-1 |->
                     IF k < CRT_SIZE - CRT_COLS THEN s.buf[k + CRT_COLS] ELSE " "],
          pos |-> s.pos - CRT_COLS]
Show(s, c) == Scroll([buf |-> [s.buf EXCEPT ![s.pos] = c], pos |-> s.pos + 1])
cga_putc(s, c) ==
    CASE c = "BS" -> IF s.pos = 0 THEN s
                     ELSE [buf |-> [s.buf EXCEPT ![s.pos - 1] = " "], pos |-> s.pos - 1]
      [] c = "NL" -> Scroll([s EXCEPT !.pos = @ + CRT_COLS - (@ % CRT_COLS)])
      [] c = "CR" -> [s EXCEPT !.pos = @ - (@ % CRT_COLS)]
      [] c = "TAB" -> Show(Show(Show(Show(Show(s, " "), " "), " "), " "), " ")
      [] OTHER -> Show(s, c)

(* cons_intr puts a character of a device into the ring and asks the       *)
(* device again, until it has none.  The write position wraps, and nothing *)
(* looks at the read position.                                             *)
Put_wraps_early(r, c) ==
    [r EXCEPT !.buf[r.wpos] = c, !.wpos = (@ + 1) % (CONSBUFSIZE - 1)]
Put(r, c) == [r EXCEPT !.buf[r.wpos] = c, !.wpos = (@ + 1) % CONSBUFSIZE]
Received(c) ==
    IF c = "NUL" THEN UNCHANGED <<cons, unread, overrun>>
    ELSE /\ cons' = Put(cons, c)
         /\ overrun' = (overrun \/ Len(unread) + 1 >= CONSBUFSIZE)
         /\ unread' = IF overrun' THEN <<>> ELSE Append(unread, c)
cons_intr(d, present, next) ==
    /\ poll = d
    /\ \/ /\ present /\ dev[d] # <<>>
          /\ Received(Head(dev[d]))
          /\ dev' = [dev EXCEPT ![d] = Tail(@)]
          /\ UNCHANGED poll
       \/ /\ ~present \/ dev[d] = <<>>
          /\ poll' = next
          /\ UNCHANGED <<dev, cons, unread, overrun>>
    /\ UNCHANGED <<serial_exists, crt, line, reading>>
serial_intr == cons_intr("serial", serial_exists, "kbd")
kbd_intr == cons_intr("kbd", TRUE, "take")

(* cons_getc polls both devices, then takes a character out of the ring,   *)
(* or returns 0; getchar calls it until there is one.                      *)
cons_getc ==
    /\ poll = "out" /\ poll' = "serial"
    /\ UNCHANGED <<serial_exists, dev, cons, unread, overrun, crt, line, reading>>
Got == IF cons.rpos # cons.wpos THEN cons.buf[cons.rpos] ELSE "NUL"
Take ==
    /\ poll = "take" /\ poll' = "out"
    /\ cons' = IF cons.rpos = cons.wpos THEN cons
               ELSE [cons EXCEPT !.rpos = (@ + 1) % CONSBUFSIZE]
    /\ unread' = IF unread = <<>> THEN <<>> ELSE Tail(unread)
    /\ UNCHANGED <<serial_exists, dev, overrun>>

(* A character is read without echo, by sys_cgetc for a program.           *)
getchar ==
    /\ ~reading
    /\ Take
    /\ UNCHANGED <<crt, line, reading>>

(* The kernel prints a character.                                          *)
cputchar(c) ==
    /\ ~reading /\ poll = "out"
    /\ crt' = cga_putc(crt, c)
    /\ UNCHANGED <<serial_exists, dev, poll, cons, unread, overrun, line, reading>>

readline ==
    /\ ~reading /\ poll = "out"
    /\ reading' = TRUE /\ line' = <<>>
    /\ UNCHANGED <<serial_exists, dev, poll, cons, unread, overrun, crt>>

(* One character of readline: erase, add and echo, finish, or ignore it.   *)
IsErase(c) == c \in {"BS", "DEL"} /\ line # <<>>
IsText(c) == c \in Printable \cup {"DEL"}
Fits_off_by_one == Len(line) < BUFLEN
Fits == Len(line) < BUFLEN - 1
Erased_without_echo == line' = SubSeq(line, 1, Len(line) - 1) /\ UNCHANGED crt
Erased == line' = SubSeq(line, 1, Len(line) - 1) /\ crt' = cga_putc(crt, "BS")
readline_char ==
    /\ reading
    /\ Take
    /\ CASE IsErase(Got) -> Erased /\ UNCHANGED reading
         [] ~IsErase(Got) /\ IsText(Got) /\ Fits ->
              line' = Append(line, Got) /\ crt' = cga_putc(crt, Got) /\ UNCHANGED reading
         [] Got \in {"NL", "CR"} ->
              reading' = FALSE /\ crt' = cga_putc(crt, "NL") /\ UNCHANGED line
         [] OTHER -> UNCHANGED <<line, crt, reading>>

Poll == cons_getc \/ serial_intr \/ kbd_intr
Consume == Poll \/ getchar \/ readline \/ readline_char \/ \E c \in Output : cputchar(c)
ConsNext == Consume \/ \E d \in {"serial", "kbd"}, c \in Input : Arrive(d, c)
ConsSpec == ConsInit /\ [][ConsNext]_consVars

-----------------------------------------------------------------------------
(* Properties *)

ConsTypeOK ==
    /\ cons.buf \in [0..CONSBUFSIZE-1 -> Input]
    /\ cons.rpos \in 0..CONSBUFSIZE-1 /\ cons.wpos \in 0..CONSBUFSIZE-1
    /\ crt.buf \in [0..CRT_SIZE-1 -> Printable \cup {"DEL"}]
    /\ line \in Seq(Printable \cup {"DEL"}) /\ Len(line) < BUFLEN
    /\ reading \in BOOLEAN /\ overrun \in BOOLEAN
    /\ poll \in {"out", "serial", "kbd", "take"}

(* cga_putc: the cursor stays on the screen, so no character is written    *)
(* past the display memory.                                                *)
CursorOnScreen == crt.pos \in 0..CRT_SIZE-1

(* readline: the screen in front of the cursor spells the line, through    *)
(* wrapped rows, scrolling and erasing.                                    *)
EchoIsLine ==
    reading => \A k \in 1..Len(line) :
        crt.pos - k >= 0 /\ crt.buf[crt.pos - k] = line[Len(line) + 1 - k]

(* cons_getc: "return the next input character from the console": until    *)
(* the ring is overrun it holds what arrived and was not read, in order.   *)
Stored == [k \in 1 .. (cons.wpos - cons.rpos) % CONSBUFSIZE |->
               cons.buf[(cons.rpos + k - 1) % CONSBUFSIZE]]
InputInOrder == ~overrun => Stored = unread

(* Together: the ring's indices stay inside it and nothing is lost,        *)
(* repeated or exchanged until it is overrun.                              *)
InputSafe == ConsTypeOK /\ InputInOrder

(* Together: what is typed and erased stays on the screen, as typed.       *)
DisplaySafe == CursorOnScreen /\ EchoIsLine
=============================================================================
