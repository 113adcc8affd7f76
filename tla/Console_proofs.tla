--------------------------- MODULE Console_proofs ---------------------------
(***************************************************************************)
(* kbd_proc_data decodes what any set of keys sends, however its polls     *)
(* divide the bytes: KeysDecoded, for every keyboard and every queue.      *)
(* What readline echoes is the line, for every size of screen and buffer   *)
(* and whatever the devices deliver: DisplaySafe.  The ring of cons_intr   *)
(* holds the unread characters in order until it overruns, for every size  *)
(* of the ring and whatever arrives while the devices are polled:          *)
(* InputSafe.                                                              *)
(***************************************************************************)
EXTENDS Console, Keyboard, SequenceTheorems, TLAPS

Byte == [data : Nat, held : SUBSET Key, second : BOOLEAN]

KbdTypeOK == held \subseteq Key /\ seen \subseteq Key /\ kbq \in Seq(Byte)

(* Byte b is what the keyboard sends next when the keys in prev are down:  *)
(* the prefix, or the code of one key that goes down or up.                *)
PressOf(k, prev, b) == b.data = k.code /\ b.held = prev \cup {k}
ReleaseOf(k, prev, b) == b.data = k.code + Release /\ b.held = prev \ {k}
SentAfter(prev, b) ==
    \/ b.data = E0 /\ ~b.second /\ b.held = prev
    \/ \E k \in Key : k.ext = b.second /\ (PressOf(k, prev, b) \/ ReleaseOf(k, prev, b))

(* Each byte was sent with the keys of the byte before it down, the first  *)
(* one with those of the byte that was read last.                          *)
Chain ==
    /\ kbq # <<>> => SentAfter(seen, kbq[1]) /\ kbq[Len(kbq)].held = held
    /\ kbq = <<>> => seen = held
    /\ \A j \in 1 .. Len(kbq) - 1 : SentAfter(kbq[j].held, kbq[j + 1])

(* A second byte is one that comes after a prefix, and no prefix comes     *)
(* last.                                                                   *)
Prefixes ==
    /\ kbq # <<>> => ("E0ESC" \in shift <=> kbq[1].second) /\ kbq[Len(kbq)].data # E0
    /\ kbq = <<>> => "E0ESC" \notin shift
    /\ \A j \in 1 .. Len(kbq) - 1 : kbq[j + 1].second <=> kbq[j].data = E0

(* The inductive invariant.                                                *)
KbdInv == KbdTypeOK /\ Chain /\ Prefixes /\ ModifiersHeld /\ RebootAsked

(* What is known of one byte: a prefix, or a key's code with or without    *)
(* the release bit, which cannot be taken for the prefix.                  *)
LEMMA Codes ==
    ASSUME NEW k \in Key
    PROVE  /\ k.code \in 1 .. 127 /\ k.code # E0 /\ k.code + Release # E0
           /\ k.ext \in BOOLEAN
           /\ k.code < Release /\ k.code + Release >= Release
           /\ k.code + Release - Release = k.code
  BY KeyboardAssumption DEF E0, Release

(* A queue with one more byte, and with two.                               *)
LEMMA OneMore ==
    ASSUME NEW s \in Seq(Byte), NEW b \in Byte
    PROVE  /\ s \o <<b>> \in Seq(Byte) /\ s \o <<b>> # <<>>
           /\ Len(s \o <<b>>) = Len(s) + 1
           /\ \A j \in 1 .. Len(s) : (s \o <<b>>)[j] = s[j]
           /\ (s \o <<b>>)[Len(s) + 1] = b
<1>1. <<b>> \in Seq(Byte) /\ Len(<<b>>) = 1 /\ <<b>>[1] = b
  OBVIOUS
<1> DEFINE t == <<b>>
<1> HIDE DEF t
<1>2. t \in Seq(Byte) /\ Len(t) = 1 /\ t[1] = b
  BY <1>1 DEF t
<1>3. /\ s \o t \in Seq(Byte) /\ Len(s \o t) = Len(s) + 1 /\ Len(s) \in Nat
      /\ \A j \in 1 .. Len(s) + 1 :
           (s \o t)[j] = IF j <= Len(s) THEN s[j] ELSE t[j - Len(s)]
  <2>1. /\ s \o t \in Seq(Byte) /\ Len(s \o t) = Len(s) + Len(t)
        /\ \A j \in 1 .. Len(s) + Len(t) :
             (s \o t)[j] = IF j <= Len(s) THEN s[j] ELSE t[j - Len(s)]
    BY <1>2, ConcatProperties, Zenon
  <2> QED BY ONLY <1>2, <2>1, s \in Seq(Byte), LenProperties
<1> DEFINE st == s \o t
<1> HIDE DEF st
<1>4. /\ st # <<>>
      /\ \A j \in 1 .. Len(s) : st[j] = s[j]
      /\ st[Len(s) + 1] = b
  <2>1. st \in Seq(Byte) /\ Len(st) = Len(s) + 1
    BY <1>3 DEF st
  <2>2. \A j \in 1 .. Len(s) + 1 : st[j] = IF j <= Len(s) THEN s[j] ELSE t[j - Len(s)]
    BY <1>3 DEF st
  <2> QED BY <1>2, <1>3, <2>1, <2>2
<1> QED BY <1>3, <1>4 DEF t, st

(* A queue with two more bytes.                                            *)
LEMMA TwoMore ==
    ASSUME NEW s \in Seq(Byte), NEW a \in Byte, NEW b \in Byte
    PROVE  /\ s \o <<a, b>> \in Seq(Byte) /\ s \o <<a, b>> # <<>>
           /\ Len(s \o <<a, b>>) = Len(s) + 2
           /\ \A j \in 1 .. Len(s) : (s \o <<a, b>>)[j] = s[j]
           /\ (s \o <<a, b>>)[Len(s) + 1] = a
           /\ (s \o <<a, b>>)[Len(s) + 2] = b
<1>1. <<a, b>> \in Seq(Byte) /\ Len(<<a, b>>) = 2 /\ <<a, b>>[1] = a /\ <<a, b>>[2] = b
  OBVIOUS
<1> DEFINE t == <<a, b>>
<1> HIDE DEF t
<1>2. t \in Seq(Byte) /\ Len(t) = 2 /\ t[1] = a /\ t[2] = b
  BY <1>1 DEF t
<1>3. /\ s \o t \in Seq(Byte) /\ Len(s \o t) = Len(s) + 2 /\ Len(s) \in Nat
      /\ \A j \in 1 .. Len(s) + 2 :
           (s \o t)[j] = IF j <= Len(s) THEN s[j] ELSE t[j - Len(s)]
  <2>1. /\ s \o t \in Seq(Byte) /\ Len(s \o t) = Len(s) + Len(t)
        /\ \A j \in 1 .. Len(s) + Len(t) :
             (s \o t)[j] = IF j <= Len(s) THEN s[j] ELSE t[j - Len(s)]
    BY <1>2, ConcatProperties, Zenon
  <2> QED BY ONLY <1>2, <2>1, s \in Seq(Byte), LenProperties
<1> DEFINE st == s \o t
<1> HIDE DEF st
<1>4. /\ st # <<>>
      /\ \A j \in 1 .. Len(s) : st[j] = s[j]
      /\ st[Len(s) + 1] = a
      /\ st[Len(s) + 2] = b
  <2>1. st \in Seq(Byte) /\ Len(st) = Len(s) + 2
    BY <1>3 DEF st
  <2>2. \A j \in 1 .. Len(s) + 2 : st[j] = IF j <= Len(s) THEN s[j] ELSE t[j - Len(s)]
    BY <1>3 DEF st
  <2> QED BY <1>2, <1>3, <2>1, <2>2
<1> QED BY <1>3, <1>4 DEF t, st

(* A queue without its first byte.                                         *)
LEMMA OneLess ==
    ASSUME NEW s \in Seq(Byte), s # <<>>
    PROVE  /\ Tail(s) \in Seq(Byte) /\ Len(s) \in Nat \ {0}
           /\ Len(Tail(s)) = Len(s) - 1
           /\ \A j \in 1 .. Len(s) - 1 : Tail(s)[j] = s[j + 1]
           /\ Head(s) = s[1] /\ s[1] \in Byte
           /\ Tail(s) = <<>> <=> Len(s) = 1
<1>1. Len(s) \in Nat \ {0} /\ Tail(s) \in Seq(Byte) /\ Len(Tail(s)) = Len(s) - 1 /\ Head(s) = s[1]
  OBVIOUS
<1>2. \A j \in 1 .. Len(s) - 1 : Tail(s)[j] = s[j + 1]
  OBVIOUS
<1>3. s[1] \in Byte
  OBVIOUS
<1>4. Tail(s) = <<>> <=> Len(s) = 1
  BY <1>1, EmptySeq
<1> QED BY <1>1, <1>2, <1>3, <1>4

(* The keyboard keeps the chain: a key sends its code with the keys that   *)
(* are down then, an extended one after a prefix with those that were.     *)
LEMMA SendKeeps ==
    ASSUME KbdTypeOK, Chain, Prefixes, NEW k \in Key, NEW data \in Nat, NEW down \in SUBSET Key,
           Send(k, data, down), data # E0,
           \A b \in Byte : b.data = data /\ b.held = down => PressOf(k, held, b) \/ ReleaseOf(k, held, b)
    PROVE  KbdTypeOK' /\ Chain' /\ Prefixes'
<1> DEFINE one == [data |-> data, held |-> down, second |-> FALSE]
           pre == [data |-> E0, held |-> held, second |-> FALSE]
           two == [data |-> data, held |-> down, second |-> TRUE]
<1>0. held' = down /\ seen' = seen /\ shift' = shift /\ Len(kbq) \in Nat
  BY DEF Send, KbdTypeOK
<1>1. CASE ~k.ext
  <2>1. kbq' = kbq \o <<one>>
    BY <1>1 DEF Send
  <2>2. one \in Byte /\ one.data = data /\ one.held = down /\ one.second = FALSE
    BY DEF Byte
  <2>3. SentAfter(held, one)
    BY <1>1, <2>2, Codes DEF SentAfter
  <2> HIDE DEF one
  <2>4. /\ kbq' \in Seq(Byte) /\ kbq' # <<>> /\ Len(kbq') = Len(kbq) + 1
        /\ \A j \in 1 .. Len(kbq) : kbq'[j] = kbq[j]
        /\ kbq'[Len(kbq) + 1] = one
    BY <2>1, <2>2, OneMore DEF KbdTypeOK
  <2>5. KbdTypeOK'
    BY <1>0, <2>4 DEF KbdTypeOK
  <2>6. CASE kbq = <<>>
    <3>1. Len(kbq') = 1 /\ kbq'[1] = one
      BY <2>4, <2>6
    <3>2. Chain'
      BY <1>0, <2>2, <2>3, <2>4, <2>6, <3>1 DEF Chain
    <3>3. Prefixes'
      BY <1>0, <2>2, <2>4, <2>6, <3>1 DEF Prefixes
    <3> QED BY <2>5, <3>2, <3>3
  <2>7. CASE kbq # <<>>
    <3>1. Len(kbq) \in Nat \ {0} /\ kbq'[1] = kbq[1] /\ kbq'[Len(kbq)] = kbq[Len(kbq)]
      BY <2>4, <2>7 DEF KbdTypeOK
    <3>2. Chain'
      <4>1. ASSUME NEW j \in 1 .. Len(kbq') - 1 PROVE SentAfter(kbq'[j].held, kbq'[j + 1])
        <5>1. CASE j = Len(kbq)
          BY <2>3, <2>4, <2>7, <3>1, <5>1 DEF Chain
        <5>2. CASE j # Len(kbq)
          <6>1. j \in 1 .. Len(kbq) - 1 /\ kbq'[j] = kbq[j] /\ kbq'[j + 1] = kbq[j + 1]
            BY <2>4, <3>1, <5>2
          <6> QED BY <6>1 DEF Chain
        <5> QED BY <5>1, <5>2
      <4> QED BY <1>0, <2>2, <2>4, <2>7, <3>1, <4>1 DEF Chain
    <3>3. Prefixes'
      <4>1. ASSUME NEW j \in 1 .. Len(kbq') - 1 PROVE kbq'[j + 1].second <=> kbq'[j].data = E0
        <5>1. CASE j = Len(kbq)
          BY <2>2, <2>4, <2>7, <3>1, <5>1 DEF Prefixes
        <5>2. CASE j # Len(kbq)
          <6>1. j \in 1 .. Len(kbq) - 1 /\ kbq'[j] = kbq[j] /\ kbq'[j + 1] = kbq[j + 1]
            BY <2>4, <3>1, <5>2
          <6> QED BY <6>1 DEF Prefixes
        <5> QED BY <5>1, <5>2
      <4> QED BY <1>0, <2>2, <2>4, <2>7, <3>1, <4>1 DEF Prefixes
    <3> QED BY <2>5, <3>2, <3>3
  <2> QED BY <2>6, <2>7
<1>2. CASE k.ext
  <2>1. kbq' = kbq \o <<pre, two>>
    BY <1>2 DEF Send
  <2>2. /\ two \in Byte /\ two.data = data /\ two.held = down /\ two.second = TRUE
        /\ pre \in Byte /\ pre.data = E0 /\ pre.held = held /\ pre.second = FALSE
    BY DEF Byte, KbdTypeOK, E0
  <2>3. SentAfter(held, pre) /\ SentAfter(held, two)
    BY <1>2, <2>2, Codes DEF SentAfter
  <2> HIDE DEF two, pre
  <2>4. /\ kbq' \in Seq(Byte) /\ kbq' # <<>> /\ Len(kbq') = Len(kbq) + 2
        /\ \A j \in 1 .. Len(kbq) : kbq'[j] = kbq[j]
        /\ kbq'[Len(kbq) + 1] = pre /\ kbq'[Len(kbq) + 2] = two
    BY <2>1, <2>2, TwoMore DEF KbdTypeOK
  <2>5. KbdTypeOK'
    BY <1>0, <2>4 DEF KbdTypeOK
  <2>6. CASE kbq = <<>>
    <3>1. Len(kbq') = 2 /\ kbq'[1] = pre /\ kbq'[2] = two
      BY <2>4, <2>6
    <3>2. Chain'
      BY <1>0, <2>2, <2>3, <2>4, <2>6, <3>1 DEF Chain
    <3>3. Prefixes'
      BY <1>0, <2>2, <2>4, <2>6, <3>1 DEF Prefixes
    <3> QED BY <2>5, <3>2, <3>3
  <2>7. CASE kbq # <<>>
    <3>1. Len(kbq) \in Nat \ {0} /\ kbq'[1] = kbq[1] /\ kbq'[Len(kbq)] = kbq[Len(kbq)]
      BY <2>4, <2>7 DEF KbdTypeOK
    <3>2. Chain'
      <4>1. ASSUME NEW j \in 1 .. Len(kbq') - 1 PROVE SentAfter(kbq'[j].held, kbq'[j + 1])
        <5>1. CASE j = Len(kbq)
          BY <2>3, <2>4, <2>7, <3>1, <5>1 DEF Chain
        <5>2. CASE j = Len(kbq) + 1
          BY <2>2, <2>3, <2>4, <3>1, <5>2
        <5>3. CASE j \in 1 .. Len(kbq) - 1
          <6>1. kbq'[j] = kbq[j] /\ kbq'[j + 1] = kbq[j + 1]
            BY <2>4, <3>1, <5>3
          <6> QED BY <5>3, <6>1 DEF Chain
        <5> QED BY <2>4, <3>1, <5>1, <5>2, <5>3
      <4> QED BY <1>0, <2>2, <2>4, <2>7, <3>1, <4>1 DEF Chain
    <3>3. Prefixes'
      <4>1. ASSUME NEW j \in 1 .. Len(kbq') - 1 PROVE kbq'[j + 1].second <=> kbq'[j].data = E0
        <5>1. CASE j = Len(kbq)
          BY <2>2, <2>4, <2>7, <3>1, <5>1 DEF Prefixes
        <5>2. CASE j = Len(kbq) + 1
          BY <2>2, <2>4, <3>1, <5>2
        <5>3. CASE j \in 1 .. Len(kbq) - 1
          <6>1. kbq'[j] = kbq[j] /\ kbq'[j + 1] = kbq[j + 1]
            BY <2>4, <3>1, <5>3
          <6> QED BY <5>3, <6>1 DEF Prefixes
        <5> QED BY <2>4, <3>1, <5>1, <5>2, <5>3
      <4> QED BY <1>0, <2>2, <2>4, <2>7, <3>1, <4>1 DEF Prefixes
    <3> QED BY <2>5, <3>2, <3>3
  <2> QED BY <2>6, <2>7
<1> QED BY <1>1, <1>2, Codes

(* The decoder reads the code of the key that was meant: with the release  *)
(* bit taken off, and with the bit of the extended keys put on.            *)
LEMMA Meant ==
    ASSUME NEW k \in Key, k.ext <=> "E0ESC" \in shift
    PROVE  /\ Code(k) = IF "E0ESC" \in shift THEN k.code + Release ELSE k.code
           /\ Released(k.code + Release) = shift \ (shiftcode(Code(k)) \cup {"E0ESC"})
<1>1. Code(k) = IF "E0ESC" \in shift THEN k.code + Release ELSE k.code
  BY DEF Code
<1>2. Code(k) = IF "E0ESC" \in shift THEN k.code + Release ELSE (k.code + Release) - Release
  BY <1>1, Codes DEF Release
<1> QED BY <1>1, <1>2, Zenon DEF Released

(* Modifiers of more keys, and of one more.                                *)
LEMMA MoreModifiers ==
    ASSUME NEW K \in SUBSET Key, NEW k \in Key
    PROVE  /\ Modifiers(K) \subseteq Modifiers(K \cup {k})
           /\ shiftcode(Code(k)) \subseteq Modifiers(K \cup {k})
           /\ Modifiers(K) \ shiftcode(Code(k)) \subseteq Modifiers(K \ {k})
  BY DEF Modifiers

(* The locks are no modifiers, nor the escape bit a lock.                  *)
LEMMA TogglesApart ==
    ASSUME NEW d
    PROVE  /\ togglecode(d) \cap {"SHIFT", "CTL", "ALT", "E0ESC"} = {}
           /\ "E0ESC" \notin shiftcode(d)
  BY DEF togglecode, shiftcode

(* Swapping cases makes no Delete.                                         *)
LEMMA DeleteKept ==
    ASSUME NEW s, NEW d, "CTL" \in s
    PROVE  /\ charcode(s, d) = charcode({"CTL"}, d)
           /\ SwapCase(charcode(s, d)) = KEY_DEL => charcode(s, d) = KEY_DEL
<1>1. charcode(s, d) = ctlmap(d) /\ charcode({"CTL"}, d) = ctlmap(d)
  BY DEF charcode
<1>2. ctlmap(d) \in {0, 1, KEY_DEL}
  BY DEF ctlmap
<1>3. SwapCase(0) # KEY_DEL /\ SwapCase(1) # KEY_DEL
  BY DEF SwapCase, KEY_DEL
<1> QED BY <1>1, <1>2, <1>3

(* The state of the queue after a byte has been read.                      *)
LEMMA ReadKeeps ==
    ASSUME KbdTypeOK, Chain, Prefixes, kbd_proc_data
    PROVE  /\ KbdTypeOK' /\ Chain'
           /\ "E0ESC" \in shift' <=> kbq[1].data = E0
           /\ Prefixes'
<1>1. /\ kbq' = Tail(kbq) /\ kbq # <<>> /\ held' = held /\ Head(kbq) = kbq[1]
      /\ Len(kbq) \in Nat \ {0} /\ kbq' \in Seq(Byte) /\ Len(kbq') = Len(kbq) - 1
      /\ \A j \in 1 .. Len(kbq) - 1 : kbq'[j] = kbq[j + 1]
      /\ kbq[1] \in Byte /\ seen' = kbq[1].held
      /\ kbq' = <<>> <=> Len(kbq) = 1
  BY OneLess DEF KbdTypeOK, kbd_proc_data
<1>2. KbdTypeOK'
  BY <1>1 DEF KbdTypeOK, Byte
<1>3. "E0ESC" \in shift' <=> kbq[1].data = E0
  <2>1. kbq[1].data = E0 => shift' = shift \cup {"E0ESC"}
    BY <1>1 DEF kbd_proc_data
  <2>2. kbq[1].data # E0 => \/ \E d : shift' = Pressed(d)
                           \/ shift' = Released(kbq[1].data)
    BY <1>1 DEF kbd_proc_data
  <2> QED BY <2>1, <2>2, TogglesApart DEF Pressed, Released
<1>4. CASE Len(kbq) = 1
  BY <1>1, <1>2, <1>3, <1>4 DEF Chain, Prefixes
<1>5. CASE Len(kbq) # 1
  <2>1. /\ Len(kbq') \in Nat \ {0} /\ kbq' # <<>>
        /\ kbq'[1] = kbq[2] /\ kbq'[Len(kbq')] = kbq[Len(kbq)]
    BY <1>1, <1>5
  <2>2. SentAfter(kbq[1].held, kbq[2]) /\ (kbq[2].second <=> kbq[1].data = E0)
    BY <1>1, <1>5 DEF Chain, Prefixes
  <2>3. ASSUME NEW j \in 1 .. Len(kbq') - 1
        PROVE  /\ SentAfter(kbq'[j].held, kbq'[j + 1])
               /\ kbq'[j + 1].second <=> kbq'[j].data = E0
    <3>1. j + 1 \in 1 .. Len(kbq) - 1 /\ kbq'[j] = kbq[j + 1] /\ kbq'[j + 1] = kbq[j + 1 + 1]
      BY <1>1, <2>3
    <3> QED BY <3>1 DEF Chain, Prefixes
  <2>4. Chain'
    BY <1>1, <2>1, <2>2, <2>3 DEF Chain
  <2>5. Prefixes'
    BY <1>1, <1>3, <2>1, <2>2, <2>3 DEF Prefixes
  <2> QED BY <1>2, <1>3, <2>4, <2>5
<1> QED BY <1>4, <1>5

(* A byte that is read leaves no modifier on whose keys are up, and asks   *)
(* for a reboot only if the keys for it are down.                          *)
LEMMA ReadDecodes ==
    ASSUME KbdInv, kbd_proc_data
    PROVE  ModifiersHeld' /\ RebootAsked'
<1> DEFINE b == kbq[1]
<1>1. kbq # <<>> /\ Head(kbq) = b /\ b \in Byte /\ SentAfter(seen, b) /\ seen' = b.held
  BY OneLess DEF KbdInv, KbdTypeOK, kbd_proc_data, Chain
<1>2. "E0ESC" \in shift <=> b.second
  BY <1>1 DEF KbdInv, Prefixes
<1>3. shift \cap {"SHIFT", "CTL", "ALT"} \subseteq Modifiers(seen) /\ seen \in SUBSET Key
  BY DEF KbdInv, ModifiersHeld, KbdTypeOK
<1>4. rebooted' = Reboots(shift', kbd_char(b.data))
  BY <1>1 DEF kbd_proc_data
<1> HIDE DEF b
<1>5. CASE b.data = E0 /\ b.held = seen
  <2>1. shift' = shift \cup {"E0ESC"} /\ kbd_char(b.data) = 0
    BY <1>1, <1>5 DEF kbd_proc_data, kbd_char, E0, Release
  <2>2. ~rebooted'
    <3>1. ~Reboots(shift', kbd_char(b.data))
      BY <2>1 DEF Reboots, KEY_DEL
    <3> QED BY <1>4, <3>1, Zenon
  <2> QED BY <1>1, <1>3, <1>5, <2>1, <2>2 DEF ModifiersHeld, RebootAsked
<1>6. ASSUME NEW k \in Key, k.ext = b.second, PressOf(k, seen, b)
      PROVE  ModifiersHeld' /\ RebootAsked'
  <2>1. b.data = k.code /\ b.held = seen \cup {k}
    BY <1>6 DEF PressOf
  <2>0. ~(b.data >= Release) /\ b.data # E0
    BY <1>6, <2>1, Codes DEF Release
  <2>2. Code(k) = IF "E0ESC" \in shift THEN b.data + Release ELSE b.data
    BY <1>2, <1>6, <2>1, Meant
  <2>3. shift' = Pressed(Code(k))
    BY <1>1, <1>6, <2>0, <2>2 DEF kbd_proc_data
  <2>4. ModifiersHeld'
    <3>1. shift' \cap {"SHIFT", "CTL", "ALT"} \subseteq Modifiers(seen) \cup shiftcode(Code(k))
      BY <1>3, <2>3, TogglesApart DEF Pressed
    <3> QED BY <1>1, <1>3, <1>6, <2>1, <3>1, MoreModifiers DEF ModifiersHeld
  <2>5. RebootAsked'
    <3> SUFFICES ASSUME rebooted' PROVE {"CTL", "ALT"} \subseteq Modifiers(seen') /\ Typed(KEY_DEL)'
      BY DEF RebootAsked
    <3>1. {"CTL", "ALT"} \subseteq shift' /\ kbd_char(b.data) = KEY_DEL
      BY <1>4 DEF Reboots
    <3>2. kbd_char(b.data) = IF "CAPSLOCK" \in shift' THEN SwapCase(charcode(shift', Code(k)))
                             ELSE charcode(shift', Code(k))
      BY <1>6, <2>0, <2>2, <2>3 DEF kbd_char
    <3>3. charcode({"CTL"}, Code(k)) = KEY_DEL
      BY <3>1, <3>2, DeleteKept
    <3>4. k \in seen'
      BY <1>1, <2>1
    <3>5. {"CTL", "ALT"} \subseteq Modifiers(seen')
      BY <2>4, <3>1 DEF ModifiersHeld
    <3> QED BY <3>3, <3>4, <3>5 DEF Typed
  <2> QED BY <2>4, <2>5
<1>7. ASSUME NEW k \in Key, k.ext = b.second, ReleaseOf(k, seen, b)
      PROVE  ModifiersHeld' /\ RebootAsked'
  <2>1. b.data = k.code + Release /\ b.held = seen \ {k} /\ b.data # E0 /\ b.data >= Release
    BY <1>7, Codes DEF ReleaseOf
  <2>2. shift' = shift \ (shiftcode(Code(k)) \cup {"E0ESC"}) /\ kbd_char(b.data) = 0
    BY <1>1, <1>2, <1>7, <2>1, Meant DEF kbd_proc_data, kbd_char
  <2>3. ~rebooted'
    <3>1. ~Reboots(shift', kbd_char(b.data))
      BY <2>2 DEF Reboots, KEY_DEL
    <3> QED BY <1>4, <3>1, Zenon
  <2>4. shift' \cap {"SHIFT", "CTL", "ALT"} \subseteq Modifiers(seen) \ shiftcode(Code(k))
    BY <1>3, <2>2
  <2> QED BY <1>1, <1>3, <1>7, <2>1, <2>3, <2>4, MoreModifiers DEF ModifiersHeld, RebootAsked
<1> QED BY <1>1, <1>5, <1>6, <1>7 DEF SentAfter

(* The invariant is inductive.                                             *)
LEMMA KbdInvStep == KbdInv /\ [KbdNext]_kbdVars => KbdInv'
<1> SUFFICES ASSUME KbdInv, [KbdNext]_kbdVars PROVE KbdInv'
  OBVIOUS
<1>0. KbdTypeOK /\ Chain /\ Prefixes /\ ModifiersHeld /\ RebootAsked
  BY DEF KbdInv
<1>1. CASE kbd_proc_data
  BY <1>0, <1>1, ReadKeeps, ReadDecodes DEF KbdInv
<1>2. ASSUME NEW k \in Key, NEW data \in Nat, NEW down \in SUBSET Key, Send(k, data, down), data # E0,
             \A b \in Byte : b.data = data /\ b.held = down => PressOf(k, held, b) \/ ReleaseOf(k, held, b)
      PROVE  KbdInv'
  <2>1. KbdTypeOK' /\ Chain' /\ Prefixes'
    BY <1>0, <1>2, SendKeeps
  <2>2. UNCHANGED <<shift, seen, rebooted>>
    BY <1>2 DEF Send
  <2>3. ModifiersHeld' /\ RebootAsked'
    BY <1>0, <2>2 DEF ModifiersHeld, RebootAsked, Typed
  <2> QED BY <2>1, <2>3 DEF KbdInv
<1>3. ASSUME NEW k \in Key, Press(k) PROVE KbdInv'
  <2>1. k.code \in Nat /\ k.code # E0
    BY <1>3, Codes
  <2>2. held \cup {k} \in SUBSET Key
    BY <1>0, <1>3 DEF KbdTypeOK
  <2> QED BY <1>2, <1>3, <2>1, <2>2 DEF Press, PressOf
<1>4. ASSUME NEW k \in Key, LetGo(k) PROVE KbdInv'
  <2>1. k.code + Release \in Nat /\ k.code + Release # E0
    BY <1>4, Codes DEF Release
  <2>2. held \ {k} \in SUBSET Key
    BY <1>0 DEF KbdTypeOK
  <2> QED BY <1>2, <1>4, <2>1, <2>2 DEF LetGo, ReleaseOf
<1>5. CASE UNCHANGED kbdVars
  BY <1>0, <1>5 DEF kbdVars, KbdInv, KbdTypeOK, Chain, Prefixes, ModifiersHeld, RebootAsked, Typed
<1> QED BY <1>1, <1>3, <1>4, <1>5 DEF KbdNext

(* For any set of keys and any queue, kbd_proc_data decodes what is typed: *)
(* no modifier sticks when its keys are up, the escape bit is on exactly   *)
(* while the second byte of an extended key is next, and the machine is    *)
(* rebooted only when Ctrl, Alt and Delete are down at once.               *)
THEOREM KeysCorrect == KbdSpec => []KeysDecoded
<1>1. KbdInit => KbdInv
  BY DEF KbdInit, KbdInv, KbdTypeOK, Chain, Prefixes, ModifiersHeld, RebootAsked
<1>2. KbdInv => KeysDecoded
  <2> SUFFICES ASSUME KbdInv PROVE KeysDecoded
    OBVIOUS
  <2>1. EscapeInStep
    <3>1. kbq # <<>> => Head(kbq) = kbq[1]
      BY OneLess DEF KbdInv, KbdTypeOK
    <3> QED BY <3>1 DEF KbdInv, Prefixes, EscapeInStep
  <2> QED BY <2>1 DEF KbdInv, KeysDecoded
<1> QED BY <1>1, <1>2, KbdInvStep, PTL DEF KbdSpec

-----------------------------------------------------------------------------
(* The screen of cga_putc.                                                 *)

Shown == Printable \cup {"DEL"}
Cell == 0 .. CRT_SIZE - 1
Screen == [buf : [Cell -> Shown], pos : Cell]

(* In front of the cursor of screen s stands t.                            *)
Spells(s, t) ==
    \A k \in 1 .. Len(t) : s.pos - k >= 0 /\ s.buf[s.pos - k] = t[Len(t) + 1 - k]

DisplayInv ==
    /\ crt \in Screen
    /\ line \in Seq(Shown) /\ Len(line) <= BUFLEN - 1
    /\ reading => Spells(crt, line)

(* The screen has at least two rows.                                       *)
LEMMA ScreenSize ==
    /\ CRT_COLS \in Nat /\ CRT_COLS > 0 /\ CRT_SIZE \in Nat
    /\ CRT_SIZE >= 2 * CRT_COLS
    /\ BUFLEN \in Nat /\ BUFLEN > 0 /\ BUFLEN - 1 <= CRT_SIZE - CRT_COLS
<1>1. /\ CRT_COLS \in Nat /\ CRT_COLS > 0 /\ CRT_ROWS \in Nat /\ CRT_ROWS >= 2
      /\ BUFLEN \in Nat /\ BUFLEN > 0 /\ BUFLEN - 1 <= CRT_SIZE - CRT_COLS
  <2>1. /\ CRT_COLS \in Nat \ {0} /\ CRT_ROWS \in Nat /\ CRT_ROWS > 1
        /\ BUFLEN \in Nat \ {0} /\ BUFLEN - 1 <= CRT_SIZE - CRT_COLS
    BY ConsoleAssumption, Zenon
  <2> QED BY ONLY <2>1, SMT
<1>2. \A m \in Nat, n \in Nat : n >= 2 => n * m \in Nat /\ n * m >= 2 * m
  BY SMT
<1>3. CRT_SIZE \in Nat /\ CRT_SIZE >= 2 * CRT_COLS
  BY <1>1, <1>2 DEF CRT_SIZE
<1> QED BY <1>1, <1>3

(* cga_putc scrolls by one row: the cell at i is the one that was a row    *)
(* below.                                                                  *)
LEMMA ScrollEffect ==
    ASSUME NEW b \in [Cell -> Shown], NEW p \in Nat, p < CRT_SIZE + CRT_COLS
    PROVE  LET s == Scroll([buf |-> b, pos |-> p])
           IN /\ s \in Screen
              /\ p < CRT_SIZE => s.buf = b /\ s.pos = p
              /\ p >= CRT_SIZE =>
                    /\ s.pos = p - CRT_COLS
                    /\ \A i \in Cell : i + CRT_COLS \in Cell => s.buf[i] = b[i + CRT_COLS]
<1> DEFINE r == [buf |-> b, pos |-> p]
           c == [i \in Cell |-> IF i < CRT_SIZE - CRT_COLS THEN b[i + CRT_COLS] ELSE " "]
<1>1. /\ CRT_COLS \in Nat /\ CRT_COLS > 0 /\ CRT_SIZE \in Nat /\ CRT_SIZE >= 2 * CRT_COLS
  BY ScreenSize
<1>2. CASE p < CRT_SIZE
  <2>1. Scroll(r) = r
    BY <1>2 DEF Scroll
  <2>2. r \in Screen
    BY <1>1, <1>2 DEF Screen, Cell
  <2> QED BY <1>1, <1>2, <2>1, <2>2
<1>3. CASE ~(p < CRT_SIZE)
  <2>1. Scroll(r) = [buf |-> c, pos |-> p - CRT_COLS]
    BY <1>3 DEF Scroll, Cell
  <2>2. c \in [Cell -> Shown]
    <3>1. \A i \in Cell : i < CRT_SIZE - CRT_COLS => i + CRT_COLS \in Cell
      BY <1>1 DEF Cell
    <3>2. " " \in Shown
      BY ConsoleAssumption DEF Shown
    <3> QED BY <3>1, <3>2
  <2>3. p - CRT_COLS \in Cell
    BY <1>1, <1>3 DEF Cell
  <2>4. \A i \in Cell : i + CRT_COLS \in Cell => c[i] = b[i + CRT_COLS]
    <3>1. \A i \in Cell : i + CRT_COLS \in Cell => i < CRT_SIZE - CRT_COLS
      BY <1>1 DEF Cell
    <3> QED BY <3>1
  <2> HIDE DEF c
  <2> QED BY <1>1, <1>3, <2>1, <2>2, <2>3, <2>4 DEF Screen
<1> QED BY <1>2, <1>3

(* A character that is shown stays on the screen, and what stood in front  *)
(* of the cursor stands there still, with the character behind it, unless  *)
(* it fills the screen.                                                    *)
LEMMA ShowEffect ==
    ASSUME NEW s \in Screen, NEW c \in Shown
    PROVE  /\ Show(s, c) \in Screen
           /\ \A t \in Seq(Shown) :
                Len(t) < BUFLEN - 1 /\ Spells(s, t) => Spells(Show(s, c), Append(t, c))
<1> DEFINE p == s.pos + 1
           b == [s.buf EXCEPT ![s.pos] = c]
           u == Show(s, c)
<1>1. /\ CRT_COLS \in Nat /\ CRT_COLS > 0 /\ CRT_SIZE \in Nat /\ CRT_SIZE >= 2 * CRT_COLS
      /\ BUFLEN \in Nat /\ BUFLEN - 1 <= CRT_SIZE - CRT_COLS
  BY ScreenSize
<1>2. /\ s.pos \in Cell /\ s.buf \in [Cell -> Shown] /\ b \in [Cell -> Shown]
      /\ p \in Nat /\ p <= CRT_SIZE /\ p < CRT_SIZE + CRT_COLS
      /\ b[s.pos] = c /\ \A i \in Cell : i # s.pos => b[i] = s.buf[i]
  BY <1>1 DEF Screen, Cell
<1>3. u = Scroll([buf |-> b, pos |-> p])
  BY DEF Show
<1>4. p = s.pos + 1
  OBVIOUS
<1> HIDE DEF u, b, p
<1>5. /\ u \in Screen
      /\ p < CRT_SIZE => u.buf = b /\ u.pos = p
      /\ p >= CRT_SIZE =>
            /\ u.pos = p - CRT_COLS
            /\ \A i \in Cell : i + CRT_COLS \in Cell => u.buf[i] = b[i + CRT_COLS]
  BY <1>2, <1>3, ScrollEffect
<1>6. ASSUME NEW t \in Seq(Shown), Len(t) < BUFLEN - 1, Spells(s, t)
      PROVE  Spells(u, Append(t, c))
  <2> DEFINE a == Append(t, c)
             n == Len(t)
  <2>1. /\ n \in Nat /\ Len(a) = n + 1 /\ a[n + 1] = c
        /\ \A j \in 1 .. n : a[j] = t[j]
    BY <1>6
  <2>2. n + 1 <= CRT_SIZE - CRT_COLS
    BY <1>1, <1>6, <2>1
  <2>3. \A j \in 1 .. n : s.pos - j >= 0 /\ s.buf[s.pos - j] = t[n + 1 - j]
    BY <1>6 DEF Spells
  <2> HIDE DEF a, n
  <2>4. ASSUME NEW k \in 1 .. n + 1
        PROVE  p - k \in Cell /\ b[p - k] = a[n + 2 - k]
    <3>1. CASE k = 1
      <4>1. s.pos \in Int
        BY <1>1, <1>2 DEF Cell
      <4>2. p - k = s.pos /\ n + 2 - k = n + 1
        BY ONLY <1>4, <2>1, <3>1, <4>1
      <4> QED BY ONLY <1>2, <2>1, <4>2
    <3>2. CASE k # 1
      <4>1. k - 1 \in 1 .. n
        BY <2>1, <3>2
      <4>2. s.pos - (k - 1) >= 0 /\ s.buf[s.pos - (k - 1)] = t[n + 1 - (k - 1)]
        BY <2>3, <4>1
      <4>3. /\ p - k = s.pos - (k - 1) /\ n + 2 - k = n + 1 - (k - 1) /\ n + 2 - k \in 1 .. n
            /\ p - k # s.pos
        <5>1. s.pos \in Int /\ k \in Int /\ k >= 1 /\ k <= n + 1
          BY <1>1, <1>2, <2>1 DEF Cell
        <5> QED BY ONLY <1>4, <2>1, <3>2, <5>1
      <4>4. p - k \in Cell
        BY <1>1, <1>2, <4>1, <4>2, <4>3 DEF Cell
      <4> QED BY <1>2, <2>1, <4>2, <4>3, <4>4
    <3> QED BY <3>1, <3>2
  <2>5. ASSUME NEW k \in 1 .. n + 1
        PROVE  u.pos - k >= 0 /\ u.buf[u.pos - k] = a[n + 2 - k]
    <3>1. p - k \in Cell /\ b[p - k] = a[n + 2 - k]
      BY <2>4
    <3>2. CASE p < CRT_SIZE
      BY <1>1, <1>5, <3>1, <3>2 DEF Cell
    <3>3. CASE ~(p < CRT_SIZE)
      <4>1. p = CRT_SIZE /\ u.pos = CRT_SIZE - CRT_COLS
        BY <1>1, <1>2, <1>5, <3>3
      <4>2. u.pos - k \in Cell /\ (u.pos - k) + CRT_COLS = p - k
        BY <1>1, <2>1, <2>2, <4>1 DEF Cell
      <4>3. u.buf[u.pos - k] = b[(u.pos - k) + CRT_COLS]
        BY <1>1, <1>2, <1>5, <3>1, <3>3, <4>2
      <4> QED BY <1>1, <3>1, <4>2, <4>3 DEF Cell
    <3> QED BY <3>2, <3>3
  <2>6. \A k \in 1 .. Len(a) : u.pos - k >= 0 /\ u.buf[u.pos - k] = a[Len(a) + 1 - k]
    <3>1. \A k \in 1 .. n + 1 : (n + 1) + 1 - k = n + 2 - k
      BY <2>1
    <3> QED BY <2>1, <2>5, <3>1
  <2> QED BY <2>6 DEF Spells, a
<1> QED BY <1>5, <1>6 DEF u

(* Whatever is printed, the cursor stays on the screen.                    *)
LEMMA PutOnScreen ==
    ASSUME NEW s \in Screen, NEW c \in Output \cup {"DEL"}
    PROVE  cga_putc(s, c) \in Screen
<1>1. PICK b \in [Cell -> Shown], p \in Cell : s = [buf |-> b, pos |-> p]
  BY DEF Screen
<1> DEFINE m == p % CRT_COLS
<1>2. s.pos = p /\ s.buf = b /\ " " \in Shown
  BY <1>1, ConsoleAssumption DEF Shown
<1>0. /\ CRT_COLS \in Nat /\ CRT_COLS > 0 /\ CRT_SIZE \in Nat
      /\ p \in Nat /\ p < CRT_SIZE
  <2>1. CRT_COLS \in Nat /\ CRT_COLS > 0 /\ CRT_SIZE \in Nat
    BY ScreenSize
  <2>2. p \in Nat /\ p < CRT_SIZE
    BY ONLY <2>1, p \in Cell DEF Cell
  <2> QED BY <2>1, <2>2
<1>3. m \in Nat /\ m <= p
  <2>1. \A i \in Nat, n \in Nat : n > 0 => i % n \in Nat /\ i % n <= i
    BY SMT
  <2> QED BY ONLY <1>0, <2>1, Zenon
<1>4. CASE c = "BS"
  <2>1. CASE p = 0
    BY <1>2, <1>4, <2>1 DEF cga_putc
  <2>2. CASE p # 0
    <3>1. p - 1 \in Cell
      BY ONLY <1>0, <2>2 DEF Cell
    <3> DEFINE x == [b EXCEPT ![p - 1] = " "]
    <3>2. cga_putc(s, c) = [buf |-> x, pos |-> p - 1]
      BY <1>2, <1>4, <2>2, Zenon DEF cga_putc
    <3>3. x \in [Cell -> Shown]
      BY <1>2
    <3> HIDE DEF x
    <3> QED BY ONLY <3>1, <3>2, <3>3 DEF Screen
  <2> QED BY <2>1, <2>2
<1>5. CASE c = "NL" \/ c = "CR"
  <2> HIDE DEF m
  <2>1. p + CRT_COLS - m \in Nat /\ p + CRT_COLS - m < CRT_SIZE + CRT_COLS /\ p - m \in Cell
    BY ONLY <1>0, <1>3 DEF Cell
  <2>2. CASE c = "NL"
    <3> DEFINE q == p + CRT_COLS - m
    <3>1. cga_putc(s, c) = Scroll([s EXCEPT !.pos = q])
      BY <1>2, <2>2, Zenon DEF cga_putc, m
    <3> HIDE DEF q
    <3>2. [s EXCEPT !.pos = q] = [buf |-> b, pos |-> q]
      BY ONLY <1>1
    <3>3. cga_putc(s, c) = Scroll([buf |-> b, pos |-> q])
      BY ONLY <3>1, <3>2
    <3> QED BY <2>1, <3>3, ScrollEffect DEF q
  <2>3. CASE c = "CR"
    <3>1. cga_putc(s, c) = [s EXCEPT !.pos = p - m]
      BY <1>2, <2>3, Zenon DEF cga_putc, m
    <3> QED BY ONLY <1>1, <2>1, <3>1, b \in [Cell -> Shown] DEF Screen
  <2> QED BY <1>5, <2>2, <2>3
<1>6. CASE c = "TAB"
  <2> DEFINE s1 == Show(s, " ")
             s2 == Show(s1, " ")
             s3 == Show(s2, " ")
             s4 == Show(s3, " ")
             s5 == Show(s4, " ")
  <2>1. cga_putc(s, c) = s5
    BY <1>6 DEF cga_putc
  <2>2. \A r \in Screen : Show(r, " ") \in Screen
    BY <1>2, ShowEffect
  <2>3. s1 \in Screen
    BY <2>2
  <2> HIDE DEF s1
  <2>4. s2 \in Screen
    BY <2>2, <2>3
  <2> HIDE DEF s2
  <2>5. s3 \in Screen
    BY <2>2, <2>4
  <2> HIDE DEF s3
  <2>6. s4 \in Screen
    BY <2>2, <2>5
  <2> HIDE DEF s4
  <2>7. s5 \in Screen
    BY <2>2, <2>6
  <2> QED BY <2>1, <2>7
<1>7. CASE c \notin {"BS", "NL", "CR", "TAB"}
  <2>1. c \in Shown /\ cga_putc(s, c) = Show(s, c)
    BY <1>7 DEF Output, Shown, cga_putc
  <2> QED BY <2>1, ShowEffect
<1> QED BY <1>4, <1>5, <1>6, <1>7

(* readline erases the last character, from the line and from the screen.  *)
LEMMA EraseEffect ==
    ASSUME NEW s \in Screen, NEW t \in Seq(Shown), t # << >>, Spells(s, t)
    PROVE  /\ SubSeq(t, 1, Len(t) - 1) \in Seq(Shown)
           /\ Len(SubSeq(t, 1, Len(t) - 1)) = Len(t) - 1
           /\ Spells(cga_putc(s, "BS"), SubSeq(t, 1, Len(t) - 1))
<1> DEFINE n == Len(t)
           a == SubSeq(t, 1, n - 1)
           b == [s.buf EXCEPT ![s.pos - 1] = " "]
           u == cga_putc(s, "BS")
<1>1. n \in Nat /\ n > 0
  BY EmptySeq, LenProperties
<1>2. /\ a \in Seq(Shown) /\ Len(a) = n - 1
      /\ \A j \in 1 .. n - 1 : a[j] = t[j]
  BY <1>1, SubSeqProperties
<1>3. \A j \in 1 .. n : s.pos - j >= 0 /\ s.buf[s.pos - j] = t[n + 1 - j]
  BY DEF Spells
<1>4. /\ s.pos \in Cell /\ s.pos \in Int /\ s.buf \in [Cell -> Shown] /\ CRT_SIZE \in Nat
  BY ScreenSize DEF Screen, Cell
<1> HIDE DEF n, a
<1>5. s.pos - 1 >= 0
  BY <1>1, <1>3
<1>6. u = [buf |-> b, pos |-> s.pos - 1]
  <2>1. s.pos # 0
    BY ONLY <1>4, <1>5
  <2> QED BY <2>1, Zenon DEF cga_putc
<1>7. \A i \in Cell : i # s.pos - 1 => b[i] = s.buf[i]
  BY <1>4
<1> HIDE DEF b, u
<1>8. ASSUME NEW k \in 1 .. Len(a)
      PROVE  u.pos - k >= 0 /\ u.buf[u.pos - k] = a[Len(a) + 1 - k]
  <2>1. k + 1 \in 1 .. n
    BY <1>1, <1>2
  <2>2. s.pos - (k + 1) >= 0 /\ s.buf[s.pos - (k + 1)] = t[n + 1 - (k + 1)]
    BY <1>3, <2>1
  <2>3. /\ u.pos - k = s.pos - (k + 1) /\ s.pos - (k + 1) # s.pos - 1
        /\ Len(a) + 1 - k = n + 1 - (k + 1) /\ n + 1 - (k + 1) \in 1 .. n - 1
    <3>1. PICK p \in Int : p = s.pos
      BY <1>4
    <3>2. u.pos = p - 1 /\ k \in Int /\ k >= 1 /\ k <= n - 1
      BY <1>1, <1>2, <1>6, <3>1
    <3>3. /\ (p - 1) - k = p - (k + 1) /\ p - (k + 1) # p - 1
          /\ (n - 1) + 1 - k = n + 1 - (k + 1) /\ n + 1 - (k + 1) \in 1 .. n - 1
      BY ONLY <1>1, <3>2, p \in Int
    <3>4. u.pos = p - 1 /\ Len(a) = n - 1
      BY <1>2, <3>2
    <3> QED BY ONLY <3>1, <3>3, <3>4, Zenon
  <2>4. s.pos - (k + 1) \in Cell
    BY <1>1, <1>4, <2>1, <2>2 DEF Cell
  <2>5. b[s.pos - (k + 1)] = s.buf[s.pos - (k + 1)]
    BY <1>7, <2>3, <2>4
  <2> QED BY <1>2, <1>6, <2>2, <2>3, <2>5
<1> QED BY <1>2, <1>8 DEF Spells, n, a, u

(* Every step of the console keeps the screen and the line in step.        *)
LEMMA DisplayStep == DisplayInv /\ [ConsNext]_consVars => DisplayInv'
<1> SUFFICES ASSUME DisplayInv, [ConsNext]_consVars PROVE DisplayInv'
  OBVIOUS
<1>0. /\ crt \in Screen /\ line \in Seq(Shown) /\ Len(line) <= BUFLEN - 1
      /\ reading => Spells(crt, line)
      /\ BUFLEN \in Nat /\ BUFLEN > 0
  BY ScreenSize DEF DisplayInv
<1>1. CASE UNCHANGED <<crt, line, reading>>
  BY <1>1 DEF DisplayInv, Spells
<1>2. CASE readline
  <2>1. crt' = crt /\ line' = << >> /\ reading' = TRUE
    BY <1>2 DEF readline
  <2>2. << >> \in Seq(Shown) /\ Len(<< >>) = 0
    BY EmptySeq
  <2> QED BY <1>0, <2>1, <2>2 DEF DisplayInv, Spells
<1>3. ASSUME NEW c \in Output, cputchar(c)
      PROVE  DisplayInv'
  <2>1. ~reading /\ reading' = reading /\ line' = line /\ crt' = cga_putc(crt, c)
    BY <1>3 DEF cputchar
  <2> QED BY <1>0, <2>1, PutOnScreen DEF DisplayInv
<1>4. CASE readline_char
  <2>1. PICK g : g = Got
    OBVIOUS
  <2>2. reading
    BY <1>4 DEF readline_char
  <2>3. CASE IsErase(g)
    <3>1. /\ line # << >> /\ reading' = reading
          /\ line' = SubSeq(line, 1, Len(line) - 1) /\ crt' = cga_putc(crt, "BS")
      BY <1>4, <2>1, <2>3 DEF readline_char, IsErase, Erased
    <3>2. /\ line' \in Seq(Shown) /\ Len(line') = Len(line) - 1 /\ Spells(crt', line')
      BY <1>0, <2>2, <3>1, EraseEffect
    <3>3. crt' \in Screen
      BY <1>0, <3>1, PutOnScreen DEF Output
    <3>4. Len(line) \in Nat
      BY <1>0
    <3> QED BY <1>0, <3>2, <3>3, <3>4 DEF DisplayInv, Spells
  <2>4. CASE ~IsErase(g) /\ IsText(g) /\ Fits
    <3>1. line' = Append(line, g) /\ crt' = cga_putc(crt, g) /\ reading' = reading
      <4>1. g \notin {"NL", "CR"}
        BY <2>4, ConsoleAssumption DEF IsText
      <4> QED BY <1>4, <2>1, <2>4, <4>1 DEF readline_char
    <3>2. g \in Shown /\ Len(line) < BUFLEN - 1
      BY <2>4 DEF IsText, Shown, Fits
    <3>3. g \notin {"BS", "NL", "CR", "TAB"}
      BY <3>2, ConsoleAssumption DEF Shown
    <3>4. crt' = Show(crt, g)
      BY <3>1, <3>3 DEF cga_putc
    <3>5. crt' \in Screen /\ Spells(crt', line')
      BY <1>0, <2>2, <3>1, <3>2, <3>4, ShowEffect
    <3>6. line' \in Seq(Shown) /\ Len(line') = Len(line) + 1 /\ Len(line) \in Nat
      BY <1>0, <3>1, <3>2
    <3>7. Len(line') <= BUFLEN - 1
      BY ONLY <1>0, <3>2, <3>6
    <3> QED BY <3>5, <3>6, <3>7 DEF DisplayInv
  <2>5. CASE g \in {"NL", "CR"}
    <3>1. ~IsErase(g) /\ ~IsText(g)
      BY <2>5, ConsoleAssumption DEF IsErase, IsText
    <3>2. reading' = FALSE /\ crt' = cga_putc(crt, "NL") /\ line' = line
      BY <1>4, <2>1, <2>5, <3>1 DEF readline_char
    <3>3. crt' \in Screen
      BY <1>0, <3>2, PutOnScreen DEF Output
    <3> QED BY <1>0, <3>2, <3>3 DEF DisplayInv
  <2>6. CASE ~IsErase(g) /\ ~(IsText(g) /\ Fits) /\ g \notin {"NL", "CR"}
    <3>1. UNCHANGED <<line, crt, reading>>
      BY <1>4, <2>1, <2>6 DEF readline_char
    <3> QED BY <1>1, <3>1
  <2> QED BY <2>3, <2>4, <2>5, <2>6
<1>5. CASE getchar \/ Poll
  BY <1>1, <1>5 DEF getchar, Poll, cons_getc, serial_intr, kbd_intr, cons_intr
<1>6. ASSUME NEW d \in {"serial", "kbd"}, NEW c \in Input, Arrive(d, c)
      PROVE  DisplayInv'
  BY <1>1, <1>6 DEF Arrive
<1>7. CASE UNCHANGED consVars
  BY <1>1, <1>7 DEF consVars
<1> QED BY <1>2, <1>3, <1>4, <1>5, <1>6, <1>7 DEF ConsNext, Consume

(* The screen that cga_init finds, and no line.                            *)
LEMMA DisplayStart == ConsInit => DisplayInv
<1> SUFFICES ASSUME ConsInit PROVE DisplayInv
  OBVIOUS
<1>1. /\ crt \in [buf : {[k \in Cell |-> " "]}, pos : Cell]
      /\ line = << >> /\ reading = FALSE
  BY DEF ConsInit, Cell
<1>2. [k \in Cell |-> " "] \in [Cell -> Shown]
  BY ConsoleAssumption DEF Shown
<1>3. crt \in Screen
  BY <1>1, <1>2 DEF Screen
<1>4. line \in Seq(Shown) /\ Len(line) = 0
  BY <1>1, EmptySeq
<1>5. Len(line) <= BUFLEN - 1
  BY ONLY <1>4, ScreenSize
<1> QED BY <1>1, <1>3, <1>4, <1>5 DEF DisplayInv

(* cga_putc never writes outside the display memory, and the screen in     *)
(* front of the cursor spells the line that readline will return, through  *)
(* wrapped rows, scrolling and erasing, on a screen of any size.           *)
THEOREM DisplayCorrect == ConsSpec => []DisplaySafe
<1>1. DisplayInv => DisplaySafe
  BY DEF DisplayInv, DisplaySafe, CursorOnScreen, EchoIsLine, Screen, Cell, Spells
<1> QED BY <1>1, DisplayStart, DisplayStep, PTL DEF ConsSpec

-----------------------------------------------------------------------------
(* The ring of cons_intr and cons_getc.                                    *)

Slot == 0 .. CONSBUFSIZE - 1
Ring == [buf : [Slot -> Input], rpos : Slot, wpos : Slot]

(* From its read position to its write position ring r holds u.            *)
Holds(r, u) ==
    /\ Len(u) < CONSBUFSIZE
    /\ r.wpos = (r.rpos + Len(u)) % CONSBUFSIZE
    /\ \A k \in 1 .. Len(u) : r.buf[(r.rpos + k - 1) % CONSBUFSIZE] = u[k]

RingInv ==
    /\ cons \in Ring /\ unread \in Seq(Input) /\ overrun \in BOOLEAN
    /\ dev \in [serial : Seq(Input), kbd : Seq(Input)]
    /\ poll \in {"out", "serial", "kbd", "take"}
    /\ ~overrun => Holds(cons, unread)

(* The modulus brings an index that is less than two rings away into the   *)
(* ring.                                                                   *)
LEMMA RingIndex ==
    /\ CONSBUFSIZE \in Nat /\ CONSBUFSIZE > 1
    /\ \A x \in Slot : /\ x % CONSBUFSIZE = x
                       /\ (x + CONSBUFSIZE) % CONSBUFSIZE = x
                       /\ (x - CONSBUFSIZE) % CONSBUFSIZE = x
<1>1. CONSBUFSIZE \in Nat /\ CONSBUFSIZE > 1
  BY ConsoleAssumption, Zenon
<1>2. \A n \in Nat, x \in Int : n > 1 /\ 0 <= x /\ x < n =>
         x % n = x /\ (x + n) % n = x /\ (x - n) % n = x
  BY SMT
<1>3. \A x \in Slot : x \in Int /\ 0 <= x /\ x < CONSBUFSIZE
  BY ONLY <1>1 DEF Slot
<1> QED BY ONLY <1>1, <1>2, <1>3, Zenon

(* Going round the ring, place by place.                                   *)
LEMMA RingNext ==
    ASSUME NEW p \in Slot, NEW k \in Nat, k < CONSBUFSIZE
    PROVE  /\ (p + k) % CONSBUFSIZE = IF p + k < CONSBUFSIZE THEN p + k ELSE p + k - CONSBUFSIZE
           /\ (p + k) % CONSBUFSIZE \in Slot
<1> DEFINE N == CONSBUFSIZE
<1>1. N \in Nat /\ N > 1 /\ p \in Nat /\ p < N
  BY RingIndex DEF Slot
<1>2. CASE p + k < N
  <2>1. p + k \in Slot
    BY <1>1, <1>2 DEF Slot
  <2> QED BY <1>2, <2>1, RingIndex
<1>3. CASE ~(p + k < N)
  <2>1. PICK x \in Slot : x = p + k - N
    BY <1>1, <1>3 DEF Slot
  <2>2. x + N = p + k
    BY ONLY <1>1, <2>1, k \in Nat
  <2>3. (x + N) % N = x
    BY RingIndex
  <2>4. (p + k) % N = x
    BY ONLY <2>2, <2>3
  <2> QED BY ONLY <1>3, <2>1, <2>4
<1> QED BY <1>2, <1>3

(* cons_intr puts a character behind what the ring holds.                  *)
LEMMA PutEffect ==
    ASSUME NEW r \in Ring, NEW c \in Input
    PROVE  /\ Put(r, c) \in Ring
           /\ \A u \in Seq(Input) :
                Holds(r, u) /\ Len(u) + 1 < CONSBUFSIZE => Holds(Put(r, c), Append(u, c))
<1> DEFINE N == CONSBUFSIZE
           q == Put(r, c)
<1>1. N \in Nat /\ N > 1 /\ Slot \subseteq Nat
  BY RingIndex DEF Slot
<1>2. PICK b \in [Slot -> Input], p \in Slot, w \in Slot :
         r = [buf |-> b, rpos |-> p, wpos |-> w]
  BY DEF Ring
<1>3. (w + 1) % N \in Slot
  BY <1>1, RingNext
<1>4. q = [buf |-> [b EXCEPT ![w] = c], rpos |-> p, wpos |-> (w + 1) % N]
  <2>1. r.buf = b /\ r.rpos = p /\ r.wpos = w
    BY ONLY <1>2
  <2>2. PICK v : v = (w + 1) % N
    OBVIOUS
  <2>3. q = [r EXCEPT !.buf = [r.buf EXCEPT ![r.wpos] = c], !.wpos = (r.wpos + 1) % N]
    BY DEF Put
  <2>4. q = [r EXCEPT !.buf = [b EXCEPT ![w] = c], !.wpos = v]
    BY ONLY <2>1, <2>2, <2>3
  <2> QED BY ONLY <1>2, <2>2, <2>4
<1> HIDE DEF q
<1>5. q \in Ring
  BY ONLY <1>3, <1>4, b \in [Slot -> Input], p \in Slot, w \in Slot, c \in Input DEF Ring
<1>6. ASSUME NEW u \in Seq(Input), Holds(r, u), Len(u) + 1 < N
      PROVE  Holds(q, Append(u, c))
  <2> DEFINE a == Append(u, c)
  <2>1. PICK n \in Nat : n = Len(u)
    OBVIOUS
  <2>2. /\ n + 1 < N /\ w = (p + n) % N
        /\ \A k \in 1 .. n : b[(p + k - 1) % N] = u[k]
    BY <1>2, <1>6, <2>1 DEF Holds
  <2>3. /\ Len(a) = n + 1 /\ a[n + 1] = c
        /\ \A k \in 1 .. n : a[k] = u[k]
    BY <2>1
  <2> HIDE DEF a
  <2>4. /\ p \in Nat /\ p < N /\ w \in Nat /\ w < N
    BY <1>1 DEF Slot
  <2>5. w = IF p + n < N THEN p + n ELSE p + n - N
    <3>1. n < N
      BY ONLY <1>1, <2>2, n \in Nat
    <3> QED BY <2>2, <3>1, RingNext
  <2>6. (w + 1) % N = (p + (n + 1)) % N
    <3>1. PICK m \in Nat : m = n + 1
      OBVIOUS
    <3>2. PICK x \in Slot : x = (p + m) % N /\ x = IF p + m < N THEN p + m ELSE p + m - N
      <4>1. m < N
        BY ONLY <2>2, <3>1
      <4> QED BY <4>1, RingNext
    <3>3. PICK y \in Slot : y = (w + 1) % N /\ y = IF w + 1 < N THEN w + 1 ELSE w + 1 - N
      <4>1. 1 < N /\ 1 \in Nat
        BY <1>1
      <4> QED BY <4>1, RingNext
    <3>4. x \in Nat /\ y \in Nat
      BY <1>1
    <3>5. x = IF p + m < N THEN p + m ELSE p + m - N
      BY <3>2
    <3>6. y = IF w + 1 < N THEN w + 1 ELSE w + 1 - N
      BY <3>3
    <3>7. x = y
      <4>1. n + 1 < N
        BY <2>2
      <4> QED BY ONLY <1>1, <4>1, <2>4, <2>5, <3>1, <3>4, <3>5, <3>6, n \in Nat, m \in Nat
    <3> QED BY ONLY <3>1, <3>2, <3>3, <3>7
  <2>7. ASSUME NEW k \in 1 .. n + 1
        PROVE  q.buf[(p + k - 1) % N] = a[k]
    <3>1. PICK j \in Nat : j = k - 1 /\ j <= n /\ j < N
      BY ONLY <1>1, <2>2, n \in Nat, k \in 1 .. n + 1
    <3>2. p + k - 1 = p + j
      BY ONLY <2>4, <3>1, n \in Nat, k \in 1 .. n + 1
    <3>3. PICK x \in Slot : x = (p + j) % N /\ x = IF p + j < N THEN p + j ELSE p + j - N
      BY <3>1, RingNext
    <3>4. CASE j = n
      <4>1. k = n + 1
        BY ONLY <3>1, <3>4, n \in Nat, k \in 1 .. n + 1
      <4>2. (p + k - 1) % N = w
        BY ONLY <2>2, <3>2, <3>4
      <4>3. q.buf[w] = c
        BY ONLY <1>4, b \in [Slot -> Input], w \in Slot
      <4> QED BY ONLY <2>3, <4>1, <4>2, <4>3
    <3>5. CASE j # n
      <4>1. k \in 1 .. n
        BY ONLY <3>1, <3>5, n \in Nat, k \in 1 .. n + 1
      <4>2. x # w
        <5>1. x = IF p + j < N THEN p + j ELSE p + j - N
          BY <3>3
        <5>2. j < n
          BY ONLY <3>1, <3>5, j \in Nat, n \in Nat
        <5> QED BY ONLY <1>1, <2>2, <2>4, <2>5, <5>1, <5>2, j \in Nat, n \in Nat
      <4>3. q.buf[x] = b[x]
        BY ONLY <1>4, <4>2, b \in [Slot -> Input], x \in Slot, w \in Slot
      <4>4. (p + k - 1) % N = x
        BY ONLY <3>2, <3>3
      <4> QED BY ONLY <2>2, <2>3, <4>1, <4>3, <4>4
    <3> QED BY <3>4, <3>5
  <2>8. q.wpos = (w + 1) % N /\ q.rpos = p
    BY ONLY <1>4
  <2> QED BY ONLY <2>2, <2>3, <2>6, <2>7, <2>8 DEF Holds, a
<1> QED BY <1>5, <1>6 DEF q

(* cons_getc takes the first of what the ring holds.                       *)
LEMMA TakeEffect ==
    ASSUME NEW r \in Ring
    PROVE  /\ [r EXCEPT !.rpos = (@ + 1) % CONSBUFSIZE] \in Ring
           /\ \A u \in Seq(Input) : Holds(r, u) =>
                /\ r.rpos = r.wpos <=> u = << >>
                /\ u # << >> => /\ r.buf[r.rpos] = Head(u)
                                /\ Holds([r EXCEPT !.rpos = (@ + 1) % CONSBUFSIZE], Tail(u))
<1> DEFINE N == CONSBUFSIZE
           q == [r EXCEPT !.rpos = (@ + 1) % N]
<1>1. N \in Nat /\ N > 1 /\ Slot \subseteq Nat
  BY RingIndex DEF Slot
<1>2. PICK b \in [Slot -> Input], p \in Slot, w \in Slot :
         r = [buf |-> b, rpos |-> p, wpos |-> w]
  BY DEF Ring
<1>3. PICK p1 \in Slot : p1 = (p + 1) % N /\ (p1 = IF p + 1 < N THEN p + 1 ELSE p + 1 - N)
  BY <1>1, RingNext
<1>4. q = [buf |-> b, rpos |-> p1, wpos |-> w]
  BY <1>2, <1>3
<1>5. q \in Ring
  BY ONLY <1>4, b \in [Slot -> Input], p1 \in Slot, w \in Slot DEF Ring
<1>6. /\ p \in Nat /\ p < N /\ p1 \in Nat /\ p1 < N /\ w \in Nat /\ w < N
  BY <1>1 DEF Slot
<1>7. ASSUME NEW u \in Seq(Input), Holds(r, u)
      PROVE  /\ r.rpos = r.wpos <=> u = << >>
             /\ u # << >> => r.buf[r.rpos] = Head(u) /\ Holds(q, Tail(u))
  <2>1. PICK n \in Nat : n = Len(u) /\ (n = 0 <=> u = << >>)
    BY EmptySeq, LenProperties
  <2>2. /\ n < N /\ w = (p + n) % N
        /\ \A k \in 1 .. n : b[(p + k - 1) % N] = u[k]
    BY <1>2, <1>7, <2>1 DEF Holds
  <2>3. w = IF p + n < N THEN p + n ELSE p + n - N
    BY <2>2, RingNext
  <2>4. p = w <=> n = 0
    BY ONLY <1>1, <1>6, <2>2, <2>3, n \in Nat
  <2>5. r.rpos = r.wpos <=> u = << >>
    BY ONLY <1>2, <2>1, <2>4
  <2>6. ASSUME n # 0
        PROVE  r.buf[r.rpos] = Head(u) /\ Holds(q, Tail(u))
    <3> DEFINE t == Tail(u)
    <3>1. /\ Len(t) = n - 1 /\ Head(u) = u[1]
          /\ \A k \in 1 .. n - 1 : t[k] = u[k + 1]
      BY <2>1, <2>6, HeadTailProperties
    <3> HIDE DEF t
    <3>2. b[p] = u[1]
      <4>1. 1 \in 1 .. n /\ p + 1 - 1 = p
        BY ONLY <1>6, <2>6, n \in Nat
      <4>2. p % N = p
        BY RingIndex
      <4> QED BY ONLY <2>2, <4>1, <4>2
    <3>3. w = (p1 + (n - 1)) % N
      <4>1. n - 1 \in Nat /\ n - 1 < N
        BY ONLY <1>1, <2>2, <2>6, n \in Nat
      <4>2. (p1 + (n - 1)) % N = IF p1 + (n - 1) < N THEN p1 + (n - 1) ELSE p1 + (n - 1) - N
        BY <4>1, RingNext
      <4>3. w = IF p1 + (n - 1) < N THEN p1 + (n - 1) ELSE p1 + (n - 1) - N
        BY ONLY <1>1, <1>3, <1>6, <2>2, <2>3, <2>6, n \in Nat
      <4> QED BY ONLY <4>2, <4>3
    <3>4. ASSUME NEW k \in 1 .. n - 1
          PROVE  b[(p1 + k - 1) % N] = t[k]
      <4>1. k + 1 \in 1 .. n /\ k \in Nat /\ k - 1 \in Nat /\ k < N /\ k - 1 < N
        BY ONLY <1>1, <2>2, n \in Nat, k \in 1 .. n - 1
      <4>2. (p + k) % N = IF p + k < N THEN p + k ELSE p + k - N
        BY <4>1, RingNext
      <4>3. (p1 + (k - 1)) % N = IF p1 + (k - 1) < N THEN p1 + (k - 1) ELSE p1 + (k - 1) - N
        BY <4>1, RingNext
      <4>4. (IF p + k < N THEN p + k ELSE p + k - N)
            = (IF p1 + (k - 1) < N THEN p1 + (k - 1) ELSE p1 + (k - 1) - N)
        BY ONLY <1>1, <1>3, <1>6, <4>1
      <4>5. p1 + k - 1 = p1 + (k - 1) /\ p + (k + 1) - 1 = p + k
        BY ONLY <1>6, <4>1
      <4>6. b[(p + (k + 1) - 1) % N] = u[k + 1]
        BY ONLY <2>2, <4>1
      <4> QED BY ONLY <3>1, <4>2, <4>3, <4>4, <4>5, <4>6
    <3>5. n - 1 < N
      BY ONLY <1>1, <2>2, n \in Nat
    <3>6. Holds(q, t)
      BY ONLY <1>4, <3>1, <3>3, <3>4, <3>5 DEF Holds
    <3>7. r.buf[r.rpos] = Head(u)
      BY ONLY <1>2, <3>1, <3>2
    <3> QED BY <3>6, <3>7 DEF t
  <2> QED BY <2>1, <2>5, <2>6
<1> QED BY <1>5, <1>7

(* A character from a device goes into the ring, unless it is a NUL.       *)
LEMMA ReceivedStep ==
    ASSUME RingInv, NEW c \in Input, Received(c)
    PROVE  /\ cons' \in Ring /\ unread' \in Seq(Input) /\ overrun' \in BOOLEAN
           /\ ~overrun' => Holds(cons', unread')
<1>0. /\ cons \in Ring /\ unread \in Seq(Input) /\ overrun \in BOOLEAN
      /\ ~overrun => Holds(cons, unread)
  BY DEF RingInv
<1>1. CASE c = "NUL"
  <2>1. cons' = cons /\ unread' = unread /\ overrun' = overrun
    BY <1>1 DEF Received
  <2> QED BY <1>0, <2>1
<1>2. CASE c # "NUL"
  <2>1. /\ cons' = Put(cons, c)
        /\ overrun' = (overrun \/ Len(unread) + 1 >= CONSBUFSIZE)
        /\ unread' = IF overrun' THEN << >> ELSE Append(unread, c)
    BY <1>2 DEF Received
  <2>2. cons' \in Ring
    BY <1>0, <2>1, PutEffect
  <2>3. overrun' \in BOOLEAN
    BY <2>1, Zenon
  <2>4. CASE overrun'
    BY <2>1, <2>2, <2>3, <2>4, EmptySeq
  <2>5. CASE ~overrun'
    <3>1. ~overrun /\ ~(Len(unread) + 1 >= CONSBUFSIZE) /\ unread' = Append(unread, c)
      BY <2>1, <2>5
    <3>2. Len(unread) + 1 < CONSBUFSIZE
      BY <1>0, <3>1, RingIndex
    <3>3. Holds(Put(cons, c), Append(unread, c))
      BY <1>0, <3>1, <3>2, PutEffect
    <3>4. unread' \in Seq(Input)
      BY <1>0, <3>1
    <3> QED BY <2>1, <2>2, <2>3, <3>1, <3>3, <3>4
  <2> QED BY <2>4, <2>5
<1> QED BY <1>1, <1>2

(* One turn of cons_intr.                                                  *)
LEMMA IntrStep ==
    ASSUME RingInv, NEW d \in {"serial", "kbd"}, NEW present \in BOOLEAN,
           NEW next \in {"kbd", "take"}, cons_intr(d, present, next)
    PROVE  RingInv'
<1>0. /\ cons \in Ring /\ unread \in Seq(Input) /\ overrun \in BOOLEAN
      /\ dev \in [serial : Seq(Input), kbd : Seq(Input)]
      /\ poll \in {"out", "serial", "kbd", "take"}
      /\ ~overrun => Holds(cons, unread)
  BY DEF RingInv
<1>1. CASE poll' = next /\ UNCHANGED <<dev, cons, unread, overrun>>
  BY <1>0, <1>1 DEF RingInv, Holds
<1>2. CASE /\ dev[d] # << >> /\ Received(Head(dev[d]))
           /\ dev' = [dev EXCEPT ![d] = Tail(@)] /\ poll' = poll
  <2>1. PICK s \in Seq(Input) : s = dev[d]
    BY <1>0
  <2>2. Head(s) \in Input /\ Tail(s) \in Seq(Input)
    BY <1>2, <2>1, HeadTailProperties
  <2>3. PICK c \in Input : c = Head(dev[d])
    BY <2>1, <2>2
  <2>4. /\ cons' \in Ring /\ unread' \in Seq(Input) /\ overrun' \in BOOLEAN
        /\ ~overrun' => Holds(cons', unread')
    BY <1>2, <2>3, ReceivedStep
  <2>5. dev' \in [serial : Seq(Input), kbd : Seq(Input)]
    BY <1>0, <1>2, <2>1, <2>2
  <2> QED BY <1>0, <1>2, <2>4, <2>5 DEF RingInv, Holds
<1> QED BY <1>1, <1>2 DEF cons_intr

(* Every step of the console keeps the ring in step with what was put into *)
(* it and not taken out.                                                   *)
LEMMA RingStep == RingInv /\ serial_exists \in BOOLEAN /\ [ConsNext]_consVars => RingInv'
<1> SUFFICES ASSUME RingInv, serial_exists \in BOOLEAN, [ConsNext]_consVars PROVE RingInv'
  OBVIOUS
<1>0. /\ cons \in Ring /\ unread \in Seq(Input) /\ overrun \in BOOLEAN
      /\ dev \in [serial : Seq(Input), kbd : Seq(Input)]
      /\ poll \in {"out", "serial", "kbd", "take"}
      /\ ~overrun => Holds(cons, unread)
  BY DEF RingInv
<1>1. CASE UNCHANGED <<dev, poll, cons, unread, overrun>>
  BY <1>0, <1>1 DEF RingInv, Holds
<1>2. CASE Take
  <2>1. /\ poll' = "out" /\ dev' = dev /\ overrun' = overrun
        /\ cons' = IF cons.rpos = cons.wpos THEN cons
                   ELSE [cons EXCEPT !.rpos = (@ + 1) % CONSBUFSIZE]
        /\ unread' = IF unread = << >> THEN << >> ELSE Tail(unread)
    BY <1>2 DEF Take
  <2>2. cons' \in Ring
    BY <1>0, <2>1, TakeEffect
  <2>3. unread' \in Seq(Input)
    BY <1>0, <2>1, HeadTailProperties, EmptySeq
  <2>4. ASSUME ~overrun PROVE Holds(cons', unread')
    <3>1. /\ cons.rpos = cons.wpos <=> unread = << >>
          /\ unread # << >> => Holds([cons EXCEPT !.rpos = (@ + 1) % CONSBUFSIZE], Tail(unread))
      BY <1>0, <2>4, TakeEffect
    <3>2. CASE unread = << >>
      <4>1. cons' = cons /\ unread' = unread
        BY <2>1, <3>1, <3>2
      <4> QED BY <1>0, <2>4, <4>1
    <3>3. CASE unread # << >>
      <4>1. cons' = [cons EXCEPT !.rpos = (@ + 1) % CONSBUFSIZE] /\ unread' = Tail(unread)
        BY <2>1, <3>1, <3>3
      <4> QED BY <3>1, <3>3, <4>1
    <3> QED BY <3>2, <3>3
  <2> QED BY <1>0, <2>1, <2>2, <2>3, <2>4 DEF RingInv, Holds
<1>3. CASE cons_getc
  BY <1>0, <1>3 DEF cons_getc, RingInv, Holds
<1>4. CASE serial_intr \/ kbd_intr
  BY <1>4, IntrStep DEF serial_intr, kbd_intr
<1>5. ASSUME NEW d \in {"serial", "kbd"}, NEW c \in Input, Arrive(d, c)
      PROVE  RingInv'
  <2>1. /\ dev' = [dev EXCEPT ![d] = Append(@, c)]
        /\ UNCHANGED <<poll, cons, unread, overrun>>
    BY <1>5 DEF Arrive
  <2>2. dev' \in [serial : Seq(Input), kbd : Seq(Input)]
    <3>1. PICK s \in Seq(Input) : s = dev[d]
      BY <1>0
    <3>2. PICK t \in Seq(Input) : t = Append(s, c)
      BY ONLY AppendProperties, s \in Seq(Input), c \in Input
    <3>3. dev' = [dev EXCEPT ![d] = t]
      BY ONLY <2>1, <3>1, <3>2
    <3> QED BY <1>0, <3>3
  <2> QED BY <1>0, <2>1, <2>2 DEF RingInv, Holds
<1>6. CASE readline \/ \E c \in Output : cputchar(c)
  BY <1>1, <1>6 DEF readline, cputchar
<1>7. CASE getchar \/ readline_char
  BY <1>2, <1>7 DEF getchar, readline_char
<1>8. CASE UNCHANGED consVars
  BY <1>1, <1>8 DEF consVars
<1> QED BY <1>3, <1>4, <1>5, <1>6, <1>7, <1>8 DEF ConsNext, Consume, Poll

(* What the ring holds, as a sequence.                                     *)
LEMMA RingContent == RingInv => InputInOrder
<1> SUFFICES ASSUME RingInv, ~overrun PROVE Stored = unread
  BY DEF InputInOrder
<1> DEFINE N == CONSBUFSIZE
           u == unread
<1>1. cons \in Ring /\ u \in Seq(Input) /\ Holds(cons, u)
  BY DEF RingInv
<1>2. PICK p \in Slot, w \in Slot, n \in Nat : p = cons.rpos /\ w = cons.wpos /\ n = Len(u)
  BY <1>1 DEF Ring
<1>3. N \in Nat /\ N > 1 /\ p \in Nat /\ p < N /\ w \in Nat /\ w < N
  BY RingIndex DEF Slot
<1>4. n < N /\ w = (p + n) % N /\ \A k \in 1 .. n : cons.buf[(p + k - 1) % N] = u[k]
  BY <1>1, <1>2 DEF Holds
<1>5. w = IF p + n < N THEN p + n ELSE p + n - N
  BY <1>4, RingNext
<1>6. n \in Slot /\ (w - p = n \/ w - p = n - N)
  BY ONLY <1>3, <1>4, <1>5, n \in Nat DEF Slot
<1>7. (w - p) % N = n
  <2>1. n % N = n /\ (n - N) % N = n
    BY <1>6, RingIndex
  <2> QED BY ONLY <1>6, <2>1
<1>8. Stored = [k \in 1 .. n |-> u[k]]
  <2>1. Stored = [k \in 1 .. (w - p) % N |-> cons.buf[(p + k - 1) % N]]
    BY <1>2 DEF Stored
  <2>2. Stored = [k \in 1 .. n |-> cons.buf[(p + k - 1) % N]]
    BY ONLY <1>7, <2>1
  <2> QED BY ONLY <1>4, <2>2
<1>9. u = [k \in 1 .. n |-> u[k]]
  BY <1>1, <1>2
<1> QED BY <1>8, <1>9

(* cons_intr and cons_getc: whatever the devices deliver, also while they  *)
(* are polled, the indices stay in the ring, and until the ring is overrun *)
(* it holds what arrived and was not read, in order; for a ring, a line    *)
(* buffer and a screen of any size.                                        *)
THEOREM InputCorrect == ConsSpec => []InputSafe
<1> DEFINE I == DisplayInv /\ RingInv /\ serial_exists \in BOOLEAN /\ reading \in BOOLEAN
<1>1. ConsInit => I
  <2> SUFFICES ASSUME ConsInit PROVE I
    OBVIOUS
  <2>1. DisplayInv
    BY DisplayStart
  <2>2. /\ dev = [serial |-> << >>, kbd |-> << >>] /\ poll = "out"
        /\ cons = [buf |-> [k \in Slot |-> "NUL"], rpos |-> 0, wpos |-> 0]
        /\ unread = << >> /\ overrun = FALSE
        /\ serial_exists \in BOOLEAN /\ reading = FALSE
    BY DEF ConsInit, Slot
  <2>3. 0 \in Slot /\ 0 % CONSBUFSIZE = 0 /\ "NUL" \in Input
    <3>1. 0 \in Slot
      BY RingIndex DEF Slot
    <3> QED BY <3>1, RingIndex DEF Input
  <2>4. cons \in Ring
    BY <2>2, <2>3 DEF Ring
  <2>5. << >> \in Seq(Input) /\ Len(<< >>) = 0
    BY EmptySeq
  <2>6. Holds(cons, unread)
    <3>1. cons.wpos = 0 /\ cons.rpos = 0 /\ Len(unread) = 0
      BY <2>2, <2>5
    <3>2. 0 < CONSBUFSIZE /\ 0 + 0 = 0 /\ 1 .. 0 = {}
      BY RingIndex
    <3> QED BY <2>3, <3>1, <3>2 DEF Holds
  <2> QED BY <2>1, <2>2, <2>4, <2>5, <2>6 DEF RingInv
<1>2. I /\ [ConsNext]_consVars => I'
  <2> SUFFICES ASSUME I, [ConsNext]_consVars PROVE I'
    OBVIOUS
  <2>1. DisplayInv' /\ RingInv'
    BY DisplayStep, RingStep
  <2>2. serial_exists' = serial_exists /\ reading' \in BOOLEAN
    BY DEF ConsNext, Consume, Poll, Arrive, cons_getc, serial_intr, kbd_intr, cons_intr, getchar,
           readline, readline_char, cputchar, Take, Erased, consVars
  <2> QED BY <2>1, <2>2
<1>3. I => InputSafe
  <2> SUFFICES ASSUME I PROVE InputSafe
    OBVIOUS
  <2>1. InputInOrder
    BY RingContent
  <2>2. Len(line) < BUFLEN
    BY ScreenSize DEF DisplayInv
  <2>3. ConsTypeOK
    BY <2>2 DEF ConsTypeOK, DisplayInv, RingInv, Ring, Slot, Screen, Cell, Shown
  <2> QED BY <2>1, <2>3 DEF InputSafe
<1> QED BY <1>1, <1>2, <1>3, PTL DEF ConsSpec

=============================================================================
