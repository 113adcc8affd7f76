------------------------------ MODULE Keyboard ------------------------------
(***************************************************************************)
(* kbd_proc_data of kern/console.c: the scan codes of the keyboard are     *)
(* turned into characters, with the modifiers in a static variable.  The   *)
(* keyboard (external) sends a code for every press, repeat and release,   *)
(* after the byte 0xE0 for its extended keys; the controller queues the    *)
(* bytes until the kernel polls.  Each byte carries the set of keys that   *)
(* were down when it was sent, which the kernel does not see.              *)
(***************************************************************************)
EXTENDS Integers, Sequences

CONSTANTS
    Key,        \* keys: [code, ext]
    KbdQueue    \* bytes the controller queues

E0 == 224
Release == 128

ASSUME KeyboardAssumption ==
    /\ Key \subseteq [code : 1..127, ext : BOOLEAN]
    /\ \A k \in Key : k.code # E0 - Release     \* its release would be the prefix
    /\ KbdQueue \in Nat /\ KbdQueue >= 2

VARIABLES
    held,       \* keys that are down
    kbq,        \* bytes in the controller: [data, held, second]
    shift,      \* the static variable of kbd_proc_data
    seen,       \* the keys that were down at the last byte it read
    rebooted    \* outb(0x92, 0x3)
kbdVars == <<held, kbq, shift, seen, rebooted>>

(* The tables, for the keys that are modelled: modifiers, locks, a letter, *)
(* a digit and Delete.                                                     *)
shiftcode(d) ==
    CASE d \in {29, 157} -> {"CTL"}
      [] d \in {42, 54} -> {"SHIFT"}
      [] d \in {56, 184} -> {"ALT"}
      [] OTHER -> {}
togglecode(d) ==
    CASE d = 58 -> {"CAPSLOCK"}
      [] d = 69 -> {"NUMLOCK"}
      [] d = 70 -> {"SCROLLLOCK"}
      [] OTHER -> {}
KEY_DEL == 233
normalmap(d) == CASE d = 30 -> 97 [] d = 3 -> 50 [] d = 83 -> 46 [] d = 211 -> KEY_DEL [] OTHER -> 0
shiftmap(d) == CASE d = 30 -> 65 [] d = 3 -> 64 [] d = 83 -> 46 [] d = 211 -> KEY_DEL [] OTHER -> 0
ctlmap(d) == CASE d = 30 -> 1 [] d = 211 -> KEY_DEL [] OTHER -> 0
charcode(s, d) ==
    IF "CTL" \in s THEN ctlmap(d) ELSE IF "SHIFT" \in s THEN shiftmap(d) ELSE normalmap(d)
SwapCase(c) == IF c \in 97..122 THEN c - 32 ELSE IF c \in 65..90 THEN c + 32 ELSE c

KbdInit ==
    /\ held = {} /\ kbq = <<>> /\ shift = {} /\ seen = {} /\ rebooted = FALSE

(* The keyboard: a press (or repeat) or a release of a key                 *)
Send(k, data, down) ==
    LET byte(d, keys, second) == [data |-> d, held |-> keys, second |-> second]
        bytes == IF k.ext THEN <<byte(E0, held, FALSE), byte(data, down, TRUE)>>
                 ELSE <<byte(data, down, FALSE)>>
    IN /\ Len(kbq) + Len(bytes) <= KbdQueue
       /\ held' = down
       /\ kbq' = kbq \o bytes
       /\ UNCHANGED <<shift, seen, rebooted>>
Press(k) == Send(k, k.code, held \cup {k})
LetGo(k) == k \in held /\ Send(k, k.code + Release, held \ {k})

(* A release clears the modifier of its key, whichever key set it.         *)
Released_keeps_escape(data) == shift \ shiftcode(IF "E0ESC" \in shift THEN data ELSE data - Release)
Released_unmasked(data) == shift \ (shiftcode(data) \cup {"E0ESC"})
Released(data) ==
    shift \ (shiftcode(IF "E0ESC" \in shift THEN data ELSE data - Release) \cup {"E0ESC"})

(* A press sets modifiers and toggles locks.                               *)
Pressed(d) ==
    LET s == (shift \ {"E0ESC"}) \cup shiftcode(d)
        t == togglecode(d)
    IN (s \ t) \cup (t \ s)

(* Ctrl-Alt-Del                                                            *)
Reboots_any(s, c) == ({"CTL", "ALT"} \cap s # {}) /\ c = KEY_DEL
Reboots(s, c) == {"CTL", "ALT"} \subseteq s /\ c = KEY_DEL

(* kbd_proc_data on the next byte; what it returns is kbd_char, 0 for none.*)
kbd_char(data) ==
    LET d == IF "E0ESC" \in shift THEN data + Release ELSE data
        s == Pressed(d)
    IN IF data >= Release THEN 0
       ELSE IF "CAPSLOCK" \in s THEN SwapCase(charcode(s, d)) ELSE charcode(s, d)
kbd_proc_data ==
    /\ kbq # <<>>
    /\ LET data == Head(kbq).data
           d == IF "E0ESC" \in shift THEN data + Release ELSE data
       IN /\ shift' = IF data = E0 THEN shift \cup {"E0ESC"}
                      ELSE IF data >= Release THEN Released(data) ELSE Pressed(d)
          /\ rebooted' = Reboots(shift', kbd_char(data))
    /\ seen' = Head(kbq).held
    /\ kbq' = Tail(kbq)
    /\ UNCHANGED held

KbdNext == kbd_proc_data \/ \E k \in Key : Press(k) \/ LetGo(k)
KbdSpec == KbdInit /\ [][KbdNext]_kbdVars

-----------------------------------------------------------------------------
(* Properties *)

Code(k) == IF k.ext THEN k.code + Release ELSE k.code
Modifiers(K) == UNION {shiftcode(Code(k)) : k \in K}
Typed(c) == \E k \in seen : charcode({"CTL"}, Code(k)) = c

(* No modifier sticks: when a byte has been read, a modifier is on only if *)
(* one of its keys was down when the byte was sent, and with no key down   *)
(* all are off.                                                            *)
ModifiersHeld == shift \cap {"SHIFT", "CTL", "ALT"} \subseteq Modifiers(seen)

(* The escape bit is on exactly while the second byte of an extended key   *)
(* is the next to read, however the polls divide the bytes; otherwise a    *)
(* right Ctrl would be read as a left one, or a letter as a keypad key.    *)
EscapeInStep ==
    /\ kbq # <<>> => ("E0ESC" \in shift <=> Head(kbq).second)
    /\ kbq = <<>> => "E0ESC" \notin shift

(* The machine is rebooted only when Ctrl, Alt and Delete are down at once.*)
RebootAsked == rebooted => {"CTL", "ALT"} \subseteq Modifiers(seen) /\ Typed(KEY_DEL)

(* Together: kbd_proc_data takes no key to be down that is not, however    *)
(* its polls divide the bytes.  (It may lose a modifier: of two Shift keys *)
(* that are down, the first to go up ends the shift.)                      *)
KeysDecoded == ModifiersHeld /\ EscapeInStep /\ RebootAsked
=============================================================================
