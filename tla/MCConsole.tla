------------------------------ MODULE MCConsole -----------------------------
(* For TLC, one thing at a time: programs that fork; characters that       *)
(* arrive at both devices of the console while a program reads them; a     *)
(* line that is edited on the screen, typed no faster than it is read; the *)
(* keyboard.                                                               *)
EXTENDS MCCowFork, Console, Keyboard

VARIABLE machine
allVars == <<machine, vars, consVars, kbdVars>>

Keys == {[code |-> 42, ext |-> FALSE], [code |-> 54, ext |-> FALSE],    \* both Shift
         [code |-> 29, ext |-> FALSE], [code |-> 29, ext |-> TRUE],     \* both Ctrl
         [code |-> 56, ext |-> TRUE], [code |-> 83, ext |-> TRUE]}      \* Alt, Delete

(* The ring does not look at characters, other than NUL.                   *)
Any == {"NUL", "CR", "a", " "}

Idle == dev.serial = <<>> /\ dev.kbd = <<>> /\ unread = <<>>

McInit ==
    /\ machine \in {"fork", "input", "line", "keyboard"}
    /\ Init /\ ConsInit /\ KbdInit
    /\ machine # "line" => crt.pos = 0
    /\ machine # "input" => serial_exists
McNext ==
    \/ machine = "fork" /\ Next /\ UNCHANGED <<machine, consVars, kbdVars>>
    \/ /\ machine = "input"
       /\ Poll \/ getchar \/ \E d \in {"serial", "kbd"}, c \in Any : Arrive(d, c)
       /\ UNCHANGED <<machine, vars, kbdVars>>
    \/ /\ machine = "line"
       /\ Consume \/ (Idle /\ \E c \in Input : Arrive("kbd", c))
       /\ UNCHANGED <<machine, vars, kbdVars>>
    \/ machine = "keyboard" /\ KbdNext /\ UNCHANGED <<machine, vars, consVars>>
McSpec == McInit /\ [][McNext]_allVars

(* Cells of the ring that were read already do not matter, nor which frame *)
(* holds a page.                                                           *)
McView == <<machine, IF machine = "fork" THEN View ELSE vars, kbdVars, serial_exists, dev, poll, cons.rpos, cons.wpos, Stored,
            unread, overrun, crt, line, reading>>
=============================================================================
