-------------------------- MODULE UserFault_proofs --------------------------
(***************************************************************************)
(* Proofs about module UserFault: page faults handled by user code are     *)
(* invisible to the code they interrupt, for stacks of every size and      *)
(* however deep the faults are nested, as long as the program's own stack  *)
(* can be written when a handler returns (StackMayFault is FALSE).         *)
(***************************************************************************)
EXTENDS UserFault, TLAPS

(* The stack of level k - 1 is bound[k]: from top down to esp.             *)
Levels == DOMAIN bound
Here == bound[level + 1]
Bounds == [top : Nat, esp : Nat]

UfShape ==
    /\ level \in Nat /\ bound \in Seq(Bounds) /\ Len(bound) = level + 1
    /\ mem \in [Addr -> Int] /\ esp \in 0 .. UXSTACKTOP
    /\ regs \in Int /\ eip \in Int /\ eflags \in Int
    /\ eax \in Int /\ ebx \in Int /\ ebp \in Int
    /\ upc \in {"run", "upcall", "push_eip", "popa", "destroyed"}

(* Where page_fault_handler puts the frame for a stack pointer.            *)
FrameFor(sp) == IF sp >= UXSTACKBOT THEN sp - 7 ELSE UXSTACKTOP - 6

(* Each level but the first begins two words under the frame of the one    *)
(* before; what the levels use of the exception stack is one under the     *)
(* other, with the frame and a free word in between.                       *)
Within(k) ==
    /\ bound[k].esp <= bound[k].top /\ bound[k].top - bound[k].esp <= Locals
    /\ k = 1 => bound[k].top \in {USTACKTOP, UXSTACKTOP}
    /\ bound[k].top > USTACKTOP => bound[k].esp >= UXSTACKBOT
    /\ k > 1 => /\ bound[k].top > USTACKTOP /\ bound[k].top + 8 <= UXSTACKTOP
                /\ bound[k].top = FrameFor(bound[k - 1].esp) - 2
Under(j, k) == j < k /\ bound[j].esp > USTACKTOP => bound[k].top + 9 <= bound[j].esp
Nested ==
    /\ \A k \in Levels : Within(k)
    /\ \A j, k \in Levels : Under(j, k)

(* What a level has on its stack, and what a frame holds for it.           *)
LocalsKept(k) == \A a \in bound[k].esp .. bound[k].top - 1 : mem[a] = k - 1
Saved(frame, l, sp) ==
    /\ mem[frame + 2] = l /\ mem[frame + EIP] = l /\ mem[frame + 4] = l
    /\ mem[frame + ESP] = sp
FrameKept(k) == k > 1 => Saved(bound[k].top + 2, k - 2, bound[k - 1].esp)

(* What the processor and the upcall's registers hold, step by step.       *)
Running == regs = level /\ eip = level /\ eflags = level
Computed ==
    /\ level > 0 /\ Here.esp = Here.top
    /\ ebp = Here.top + 2
AtStep ==
    /\ upc = "run" => Running /\ esp = Here.esp
    /\ upc = "upcall" =>
          /\ Running /\ esp = FrameFor(Here.esp) /\ esp >= UXSTACKBOT
          /\ Saved(esp, level, Here.esp)
    /\ upc = "push_eip" =>
          Computed /\ eax = level - 1 /\ esp = bound[level].esp
    /\ upc = "popa" =>
          /\ Computed /\ esp = ebp + 2
          /\ mem[ebp + 2] = level - 1 /\ mem[ebp + 4] = level - 1
          /\ mem[ebp + ESP] = bound[level].esp - 1
          /\ mem[bound[level].esp - 1] = level - 1

Contents ==
    upc # "destroyed" =>
        /\ \A k \in Levels : LocalsKept(k)
        /\ \A k \in Levels : (upc = "popa" => k # level + 1) => FrameKept(k)
        /\ AtStep

UfInv == UfShape /\ Nested /\ Contents /\ GuardUntouched
-----------------------------------------------------------------------------
(* The places of the stacks, in words.                                     *)
LEMMA Layout ==
    /\ USTACKTOP \in Nat /\ UXSTACKBOT = USTACKTOP + 1 /\ UXSTACKTOP \in Nat
    /\ UXSTACKTOP >= UXSTACKBOT /\ Addr = 0 .. UXSTACKTOP - 1
    /\ Locals \in Nat /\ USTACKTOP > Locals
    /\ EIP = 3 /\ ESP = 5 /\ SizeofUtf = 6 /\ Scratch = 1
  BY UserFaultAssumption
     DEF USTACKTOP, UXSTACKBOT, UXSTACKTOP, Addr, EIP, ESP, SizeofUtf, Scratch

(* A function on 1..n is a sequence.                                       *)
LEMMA FunctionSeq ==
    ASSUME NEW S, NEW n \in Nat, NEW f \in [1..n -> S]
    PROVE  f \in Seq(S) /\ Len(f) = n
  OBVIOUS

(* A sequence without its last element.                                    *)
LEMMA FrontSeq ==
    ASSUME NEW S, NEW s \in Seq(S), NEW n \in Nat, Len(s) = n + 1, NEW t,
           t = SubSeq(s, 1, n)
    PROVE  t \in Seq(S) /\ Len(t) = n /\ \A k \in 1..n : t[k] = s[k]
  OBVIOUS

(* Every level has its part of a stack.                                    *)
LEMMA LevelTypes ==
    ASSUME UfShape
    PROVE  /\ Levels = 1 .. level + 1 /\ level + 1 \in Levels /\ level \in Nat /\ 1 \in Levels
           /\ \A k \in Levels : /\ bound[k] \in Bounds /\ k \in Nat /\ k >= 1 /\ k <= level + 1
                                /\ bound[k].top \in Nat /\ bound[k].esp \in Nat
<1>1. Levels = 1 .. level + 1 /\ level \in Nat /\ bound \in Seq(Bounds)
  BY DEF UfShape, Levels
<1>2. ASSUME NEW k \in Levels
      PROVE  /\ bound[k] \in Bounds /\ bound[k].top \in Nat /\ bound[k].esp \in Nat
  <2>1. bound[k] \in Bounds BY <1>1 DEF Levels
  <2> QED BY <2>1 DEF Bounds
<1> QED BY <1>1, <1>2

(* No level's part reaches past the exception stack.                       *)
LEMMA TopInside ==
    ASSUME UfShape, NEW k \in Levels, Within(k)
    PROVE  bound[k].top <= UXSTACKTOP
<1>1. k \in Nat /\ k >= 1 /\ bound[k].top \in Nat BY LevelTypes
<1>2. CASE k = 1
  <2>1. bound[k].top \in {USTACKTOP, UXSTACKTOP} BY <1>2 DEF Within
  <2> QED BY <2>1, Layout
<1>3. CASE k > 1
  <2>1. bound[k].top + 8 <= UXSTACKTOP BY <1>3 DEF Within
  <2> QED BY <1>1, <2>1, Layout
<1> QED BY <1>1, <1>2, <1>3

(* The stacks on the exception stack are in order: the last one is lowest. *)
LEMMA Lowest ==
    ASSUME UfShape, Nested, NEW k \in Levels, NEW n \in Levels, k <= n,
           bound[k].top > USTACKTOP
    PROVE  bound[n].esp <= bound[k].esp /\ bound[n].top > USTACKTOP
<1>1. CASE k = n BY <1>1, LevelTypes
<1>2. CASE k < n
  <2>1. Within(k) /\ Within(n) /\ Under(k, n) BY DEF Nested
  <2>2. bound[k].esp > USTACKTOP BY <2>1, Layout, LevelTypes DEF Within
  <2>3. bound[n].top + 9 <= bound[k].esp BY <1>2, <2>1, <2>2 DEF Under
  <2>4. n > 1 BY <1>2, LevelTypes
  <2>5. bound[n].esp <= bound[n].top /\ bound[n].top > USTACKTOP BY <2>1, <2>4 DEF Within
  <2>6. bound[n].esp \in Nat /\ bound[n].top \in Nat /\ bound[k].esp \in Nat BY LevelTypes
  <2> QED BY ONLY <2>3, <2>5, <2>6
<1> QED BY <1>1, <1>2, LevelTypes

(* A word under the stack of level n - 1 is on no stack and in no frame of *)
(* the levels up to there.                                                 *)
Free(n, a) ==
    \/ a > USTACKTOP /\ a < bound[n].esp
    \/ bound[n].top <= USTACKTOP /\ (a > USTACKTOP \/ a < bound[n].esp)

(* Writing words below the deepest level changes nothing that a level      *)
(* still needs.                                                            *)
LEMMA FreeWords ==
    ASSUME UfShape, Nested, NEW n \in Levels, NEW W,
           \A a \in Addr : a \notin W => mem'[a] = mem[a],
           \A a \in W : a \in Int /\ Free(n, a),
           NEW k \in Levels, k <= n
    PROVE  /\ \A a \in bound[k].esp .. bound[k].top - 1 : mem'[a] = mem[a]
           /\ k > 1 => \A o \in 2..5 : mem'[bound[k].top + 2 + o] = mem[bound[k].top + 2 + o]
<1>0. /\ bound[k].top \in Nat /\ bound[k].esp \in Nat /\ bound[n].top \in Nat
      /\ bound[n].esp \in Nat /\ k \in Nat /\ n \in Nat /\ k >= 1
  BY LevelTypes
<1>1. Within(k) /\ Within(n) BY DEF Nested
<1>2. ASSUME NEW a \in bound[k].esp .. bound[k].top - 1 PROVE mem'[a] = mem[a]
  <2>1. a \in Addr
    <3>1. bound[k].top <= UXSTACKTOP BY <1>1, TopInside
    <3> QED BY <1>0, <3>1, Layout
  <2>2. ASSUME a \in W PROVE FALSE
    <3>1. Free(n, a) /\ a \in Int BY <2>2
    <3>2. CASE bound[k].top > USTACKTOP
      <4>1. bound[n].esp <= bound[k].esp /\ bound[n].top > USTACKTOP BY <3>2, Lowest
      <4> QED BY <1>0, <3>1, <4>1, Layout DEF Free
    <3>3. CASE bound[k].top <= USTACKTOP
      <4>1. a <= USTACKTOP BY <1>0, <3>3, Layout
      <4>2. bound[n].top <= USTACKTOP BY <1>0, <3>1, <4>1, Layout DEF Free
      <4>3. n = 1
        <5>1. n > 1 => bound[n].top > USTACKTOP BY <1>1 DEF Within
        <5>2. USTACKTOP \in Nat BY Layout
        <5>3. n >= 1 BY LevelTypes
        <5> QED BY ONLY <1>0, <4>2, <5>1, <5>2, <5>3
      <4>4. k = n BY <1>0, <4>3
      <4> QED BY <1>0, <3>1, <4>1, <4>2, <4>4, Layout DEF Free
    <3> QED BY <1>0, <3>2, <3>3, Layout
  <2> QED BY <2>1, <2>2
<1>3. ASSUME k > 1, NEW o \in 2..5 PROVE mem'[bound[k].top + 2 + o] = mem[bound[k].top + 2 + o]
  <2>1. PICK a : a = bound[k].top + 2 + o OBVIOUS
  <2>2. /\ bound[k].top > USTACKTOP /\ bound[k].top + 8 <= UXSTACKTOP
        /\ bound[k].esp <= bound[k].top
    BY <1>1, <1>3 DEF Within
  <2>3. a \in Addr /\ a \in Int /\ a > bound[k].esp
    <3>1. o \in Int /\ o >= 2 /\ o <= 5 OBVIOUS
    <3>2. a \in Int /\ a > bound[k].esp /\ a < UXSTACKTOP /\ a >= 0
      <4>1. UXSTACKTOP \in Nat BY Layout
      <4> QED BY ONLY <1>0, <2>1, <2>2, <3>1, <4>1
    <3> QED BY <3>2, Layout
  <2>4. ASSUME a \in W PROVE FALSE
    <3>1. bound[n].esp <= bound[k].esp /\ bound[n].top > USTACKTOP BY <2>2, Lowest
    <3> QED BY <1>0, <2>3, <2>4, <3>1, Layout DEF Free
  <2> QED BY <2>1, <2>3, <2>4
<1> QED BY <1>2, <1>3

(* A frame whose four words are left alone still holds what it saved.      *)
LEMMA SavedKept ==
    ASSUME NEW f, NEW l, NEW sp, Saved(f, l, sp),
           \A o \in 2..5 : mem'[f + o] = mem[f + o]
    PROVE  /\ mem'[f + 2] = l /\ mem'[f + EIP] = l /\ mem'[f + 4] = l
           /\ mem'[f + ESP] = sp
<1>1. 2 \in 2..5 /\ EIP \in 2..5 /\ 4 \in 2..5 /\ ESP \in 2..5 BY DEF EIP, ESP
<1> QED BY <1>1 DEF Saved

(* The guard and the program's stack, when a word is written.              *)
LEMMA GuardKept ==
    ASSUME GuardUntouched, mem' \in [Addr -> Int], mem \in [Addr -> Int],
           \A a \in Addr : a <= USTACKTOP =>
              mem'[a] = mem[a] \/ (a < USTACKTOP /\ mem'[a] \in Nat)
    PROVE  GuardUntouched'
<1>1. USTACKTOP \in Nat /\ \A a \in 0 .. USTACKTOP : a \in Addr /\ a <= USTACKTOP BY Layout
<1>2. mem'[USTACKTOP] = mem[USTACKTOP]
  <2>1. USTACKTOP \in 0 .. USTACKTOP /\ ~(USTACKTOP < USTACKTOP) BY <1>1
  <2> QED BY <1>1, <2>1
<1>3. ASSUME NEW a \in 0 .. USTACKTOP - 1 PROVE mem'[a] \notin {FaultVa, Err}
  <2>1. a \in Addr /\ a <= USTACKTOP BY <1>1
  <2>2. CASE mem'[a] = mem[a] BY <2>2 DEF GuardUntouched
  <2>3. CASE mem'[a] \in Nat BY <2>3 DEF FaultVa, Err
  <2> QED BY <2>1, <2>2, <2>3
<1>4. UNCHANGED <<USTACKTOP>> BY DEF USTACKTOP
<1> QED BY <1>2, <1>3 DEF GuardUntouched, FaultVa, Err, Untouched, USTACKTOP

-----------------------------------------------------------------------------
(* The inductive step, action by action.                                   *)

(* The invariant holds when the program starts.                            *)
LEMMA UfInitInv == UfInit => UfInv
<1> SUFFICES ASSUME UfInit PROVE UfInv
  OBVIOUS
<1> USE DEF UfInit
<1>1. esp \in Nat /\ esp <= UXSTACKTOP /\ bound = <<[top |-> esp, esp |-> esp]>>
      /\ (esp = USTACKTOP \/ esp = UXSTACKTOP)
  BY Layout
<1>2. /\ bound \in Seq(Bounds) /\ Len(bound) = 1 /\ bound[1].top = esp /\ bound[1].esp = esp
      /\ Levels = {1}
  BY <1>1 DEF Bounds, Levels
<1>3. UfShape
  BY <1>1, <1>2, Layout DEF UfShape, Untouched
<1>4. Nested
  <2>1. Within(1)
    <3>1. ~(1 > 1) OBVIOUS
    <3>2. bound[1].esp <= bound[1].top /\ bound[1].top - bound[1].esp <= Locals
      BY <1>1, <1>2, Layout
    <3>3. bound[1].top > USTACKTOP => bound[1].esp >= UXSTACKBOT
      BY <1>1, <1>2, Layout
    <3> QED BY <1>1, <1>2, <3>1, <3>2, <3>3 DEF Within
  <2>2. Under(1, 1) BY DEF Under
  <2> QED BY <1>2, <2>1, <2>2 DEF Nested
<1>5. Contents
  <2>1. LocalsKept(1)
    <3>1. bound[1].esp .. bound[1].top - 1 = {} BY <1>1, <1>2
    <3> QED BY <3>1 DEF LocalsKept
  <2>2. FrameKept(1) BY DEF FrameKept
  <2>3. AtStep BY <1>2 DEF AtStep, Running, Here
  <2> QED BY <1>2, <2>1, <2>2, <2>3 DEF Contents
<1>6. GuardUntouched
  <2>1. \A a \in 0 .. USTACKTOP : a \in Addr BY Layout
  <2>2. \A a \in Addr : mem[a] = -1 BY DEF Untouched
  <2>3. USTACKTOP \in 0 .. USTACKTOP /\ \A a \in 0 .. USTACKTOP - 1 : a \in 0 .. USTACKTOP
    BY Layout
  <2> QED BY <2>1, <2>2, <2>3 DEF GuardUntouched, Untouched, FaultVa, Err
<1> QED BY <1>3, <1>4, <1>5, <1>6 DEF UfInv

(* push and pop move the stack pointer of the running level.               *)
LEMMA HereMoves ==
    ASSUME UfShape, Nested, NEW sp \in Nat, bound' = [bound EXCEPT ![level + 1].esp = sp],
           level' = level, sp <= Here.top, Here.top - sp <= Locals,
           Here.top > USTACKTOP => sp >= UXSTACKBOT
    PROVE  /\ bound' \in Seq(Bounds) /\ Len(bound') = level + 1 /\ Levels' = Levels
           /\ Here' = [top |-> Here.top, esp |-> sp]
           /\ \A k \in Levels : /\ bound'[k].top = bound[k].top
                                /\ k # level + 1 => bound'[k] = bound[k]
           /\ Nested'
<1> DEFINE n == level + 1
           r == [top |-> bound[n].top, esp |-> sp]
<1>0. n \in Levels /\ bound[n] \in Bounds /\ r \in Bounds /\ Levels = 1..n /\ n \in Nat
  BY LevelTypes DEF Bounds
<1>1. bound' = [bound EXCEPT ![n] = r]
  <2>1. bound' = [bound EXCEPT ![n] = [bound[n] EXCEPT !.esp = sp]]
    BY DEF n
  <2>2. [bound[n] EXCEPT !.esp = sp] = r BY <1>0 DEF Bounds
  <2> QED BY <2>1, <2>2
<1> HIDE DEF n, r
<1>2. bound \in Seq(Bounds) /\ Len(bound) = n /\ Levels = DOMAIN bound
  BY DEF UfShape, n, Levels
<1>3. /\ bound' \in Seq(Bounds) /\ Len(bound') = n /\ DOMAIN bound' = Levels
      /\ bound'[n] = r /\ \A k \in Levels : k # n => bound'[k] = bound[k]
  <2>1. DOMAIN bound' = 1..n /\ Levels = 1..n BY <1>0, <1>1, <1>2
  <2>2. bound'[n] = r /\ \A k \in Levels : k # n => bound'[k] = bound[k]
    BY <1>0, <1>1, <1>2
  <2>3. \A k \in 1..n : bound'[k] \in Bounds
    <3>1. \A k \in Levels : bound[k] \in Bounds BY LevelTypes
    <3> QED BY <1>0, <2>1, <2>2, <3>1
  <2>4. bound' \in [1..n -> Bounds] BY <1>1, <1>2, <2>1, <2>3
  <2>5. bound' \in Seq(Bounds) /\ Len(bound') = n BY <1>0, <2>4, FunctionSeq
  <2> QED BY <2>1, <2>2, <2>5
<1>4. r.top = bound[n].top /\ r.esp = sp BY DEF r
<1>5. \A k \in Levels : bound'[k].top = bound[k].top BY <1>3, <1>4
<1>6. ASSUME NEW k \in Levels PROVE Within(k)'
  <2>1. Within(k) BY DEF Nested
  <2>2. k > 1 => bound'[k - 1] = bound[k - 1]
    <3>1. k > 1 => k - 1 \in Levels /\ k - 1 # n BY <1>0
    <3> QED BY <1>3, <3>1
  <2>3. bound'[k].top = bound[k].top BY <1>5
  <2>4. CASE k = n
    <3>1. bound'[k].esp = sp BY <1>3, <1>4, <2>4
    <3>2. sp <= bound[k].top /\ bound[k].top - sp <= Locals
          /\ (bound[k].top > USTACKTOP => sp >= UXSTACKBOT)
      BY <2>4 DEF Here, n
    <3> QED BY <2>1, <2>2, <2>3, <3>1, <3>2
            DEF Within, FrameFor, UXSTACKBOT, UXSTACKTOP, USTACKTOP
  <2>5. CASE k # n
    <3>1. bound'[k] = bound[k] BY <1>3, <2>5
    <3> QED BY <2>1, <2>2, <3>1 DEF Within, FrameFor, UXSTACKBOT, UXSTACKTOP, USTACKTOP
  <2> QED BY <2>4, <2>5
<1>7. ASSUME NEW j \in Levels, NEW k \in Levels PROVE Under(j, k)'
  <2>1. Under(j, k) BY DEF Nested
  <2>2. j < k => bound'[j] = bound[j]
    <3>1. j < k => j # n BY <1>0
    <3> QED BY <1>3, <3>1
  <2> QED BY <1>5, <2>1, <2>2 DEF Under, USTACKTOP
<1>8. Levels' = Levels BY <1>3 DEF Levels
<1>9. Nested' BY <1>6, <1>7, <1>8 DEF Nested
<1>10. Here' = r BY <1>3 DEF Here, n
<1> QED BY <1>3, <1>5, <1>8, <1>9, <1>10 DEF r, n, Here

(* The code of a level pushes a word.                                      *)
LEMMA PushStep == ASSUME UfInv, push PROVE UfInv'
<1> USE DEF push
<1>1. /\ UfShape /\ Nested /\ Contents /\ GuardUntouched /\ Running /\ esp = Here.esp
      /\ upc = "run" /\ upc' = "run" /\ level' = level /\ esp \in Nat
  BY DEF UfInv, UfShape, Contents, AtStep
<1>2. PICK sp : sp = esp - 1 OBVIOUS
<1>3. Within(level + 1) /\ level + 1 \in Levels /\ Here.top \in Nat /\ Here.esp \in Nat
      /\ Here = bound[level + 1] /\ level \in Nat
  BY <1>1, LevelTypes DEF Nested, Here
<1>4. /\ sp \in Nat /\ sp \in Addr /\ sp # USTACKTOP /\ sp <= Here.top /\ Here.top - sp <= Locals
      /\ (Here.top > USTACKTOP => sp >= UXSTACKBOT)
      /\ (Here.top <= USTACKTOP => sp < USTACKTOP)
  <2>1. /\ Here.esp <= Here.top /\ Here.top - esp < Locals
        /\ (Here.top > USTACKTOP => Here.esp >= UXSTACKBOT)
        /\ esp > (IF esp <= USTACKTOP THEN 0 ELSE UXSTACKBOT)
    BY <1>1, <1>3 DEF Within, Here
  <2>2. /\ USTACKTOP \in Nat /\ UXSTACKBOT = USTACKTOP + 1 /\ UXSTACKTOP \in Nat
        /\ Locals \in Nat
    BY Layout
  <2>3. esp <= UXSTACKTOP BY <1>1, <2>2 DEF UfShape
  <2>4. esp <= USTACKTOP => esp > 0 BY <2>1
  <2>5. ~(esp <= USTACKTOP) => esp > USTACKTOP + 1 BY <2>1, <2>2
  <2>6. Here.top \in Nat /\ esp \in Nat /\ esp = Here.esp BY <1>1, <1>3
  <2>7. /\ sp \in Nat /\ sp # USTACKTOP /\ sp <= Here.top /\ Here.top - sp <= Locals
        /\ sp < UXSTACKTOP
    BY ONLY <1>2, <2>1, <2>2, <2>3, <2>4, <2>5, <2>6
  <2>8. Here.top > USTACKTOP => sp >= UXSTACKBOT
    BY ONLY <1>2, <2>1, <2>2, <2>4, <2>5, <2>6
  <2>9. Here.top <= USTACKTOP => sp < USTACKTOP
    BY ONLY <1>2, <2>1, <2>2, <2>4, <2>5, <2>6
  <2>10. sp \in Addr BY <2>2, <2>7, Layout
  <2> QED BY <2>7, <2>8, <2>9, <2>10
<1>5. /\ esp' = sp /\ mem' = [mem EXCEPT ![sp] = level]
      /\ bound' = [bound EXCEPT ![level + 1].esp = sp]
  BY <1>2
<1>6. /\ bound' \in Seq(Bounds) /\ Len(bound') = level + 1 /\ Levels' = Levels
      /\ Here' = [top |-> Here.top, esp |-> sp]
      /\ \A k \in Levels : /\ bound'[k].top = bound[k].top
                           /\ k # level + 1 => bound'[k] = bound[k]
      /\ Nested'
  BY ONLY <1>1, <1>4, <1>5, HereMoves
<1>7. mem' \in [Addr -> Int] /\ mem'[sp] = level /\ \A a \in Addr : a # sp => mem'[a] = mem[a]
  <2>1. mem \in [Addr -> Int] /\ level \in Int BY <1>1, <1>3 DEF UfShape
  <2>2. sp \in Addr BY <1>4, Layout
  <2> QED BY ONLY <1>5, <2>1, <2>2
<1>8. UfShape'
  <2>1. esp' \in 0 .. UXSTACKTOP BY <1>4, <1>5, Layout
  <2> QED BY <1>1, <1>6, <1>7, <2>1 DEF UfShape
<1>9. Free(level + 1, sp) /\ \A a \in {sp} : a \in Int /\ Free(level + 1, a)
  <2>1. sp < Here.esp BY <1>1, <1>2, <1>3
  <2>2. sp \in Int /\ Here = bound[level + 1] BY <1>3, <1>4
  <2>3. Here.top <= USTACKTOP \/ Here.top > USTACKTOP BY <1>3, Layout
  <2>4. Free(level + 1, sp) BY <1>4, <2>1, <2>2, <2>3, Layout DEF Free
  <2> QED BY <2>2, <2>4
<1>10. ASSUME NEW k \in Levels
       PROVE  /\ \A a \in bound[k].esp .. bound[k].top - 1 : mem'[a] = mem[a]
              /\ k > 1 => \A o \in 2..5 : mem'[bound[k].top + 2 + o] = mem[bound[k].top + 2 + o]
  <2>1. k <= level + 1 BY <1>1, LevelTypes
  <2> DEFINE W == {sp}
  <2>2. \A a \in Addr : a \notin W => mem'[a] = mem[a] BY <1>7
  <2>3. \A a \in W : a \in Int /\ Free(level + 1, a) BY <1>9
  <2>4. UfShape /\ Nested /\ level + 1 \in Levels BY <1>1, <1>3
  <2> HIDE DEF W
  <2> QED BY <2>1, <2>2, <2>3, <2>4, FreeWords
<1>11. ASSUME NEW k \in Levels PROVE LocalsKept(k)'
  <2>1. LocalsKept(k) BY <1>1 DEF Contents
  <2>2. CASE k # level + 1
    BY <1>6, <1>10, <2>1, <2>2 DEF LocalsKept
  <2>3. CASE k = level + 1
    <3>1. bound'[k].top = Here.top /\ bound'[k].esp = sp
      BY <1>1, <1>6, <2>3 DEF Here
    <3>2. \A a \in sp .. Here.top - 1 : a = sp \/ a \in Here.esp .. Here.top - 1
      BY <1>1, <1>2, <1>3
    <3>3. k - 1 = level BY <1>3, <2>3
    <3> QED BY <1>3, <1>7, <1>10, <2>1, <2>3, <3>1, <3>2, <3>3 DEF LocalsKept
  <2> QED BY <2>2, <2>3
<1>12. ASSUME NEW k \in Levels PROVE FrameKept(k)'
  <2>1. FrameKept(k) BY <1>1 DEF Contents
  <2>2. k > 1 => bound'[k - 1] = bound[k - 1]
    <3>1. k > 1 => k - 1 \in Levels /\ k - 1 # level + 1 BY <1>1, LevelTypes
    <3> QED BY <1>6, <3>1
  <2>3. bound'[k].top = bound[k].top BY <1>6
  <2> SUFFICES ASSUME k > 1 PROVE Saved(bound[k].top + 2, k - 2, bound[k - 1].esp)'
    BY DEF FrameKept
  <2> DEFINE f == bound[k].top + 2
             l == k - 2
             sq == bound[k - 1].esp
  <2>4. Saved(f, l, sq) BY <2>1 DEF FrameKept
  <2>5. \A o \in 2..5 : mem'[f + o] = mem[f + o] BY <1>10
  <2> HIDE DEF f, l, sq
  <2>6. mem'[f + 2] = l /\ mem'[f + EIP] = l /\ mem'[f + 4] = l /\ mem'[f + ESP] = sq
    BY <2>4, <2>5, SavedKept
  <2> QED BY <2>2, <2>3, <2>6 DEF Saved, f, l, sq
<1>13. AtStep' BY <1>1, <1>5, <1>6 DEF AtStep, Running
<1>14. GuardUntouched'
  <2>1. \A a \in Addr : a <= USTACKTOP =>
           mem'[a] = mem[a] \/ (a < USTACKTOP /\ mem'[a] \in Nat)
    BY <1>3, <1>4, <1>7, Layout
  <2> QED BY <1>1, <1>7, <2>1, GuardKept DEF UfShape
<1>15. Contents' BY <1>1, <1>6, <1>11, <1>12, <1>13 DEF Contents
<1> QED BY <1>6, <1>8, <1>14, <1>15 DEF UfInv

(* The code of a level pops a word.                                        *)
LEMMA PopStep == ASSUME UfInv, pop PROVE UfInv'
<1> USE DEF pop
<1>1. /\ UfShape /\ Nested /\ Contents /\ GuardUntouched /\ Running /\ esp = Here.esp
      /\ upc = "run" /\ upc' = "run" /\ level' = level /\ esp \in Nat
  BY DEF UfInv, UfShape, Contents, AtStep
<1>2. PICK sp : sp = esp + 1 OBVIOUS
<1>3. Within(level + 1) /\ level + 1 \in Levels /\ Here.top \in Nat /\ Here.esp \in Nat
      /\ Here = bound[level + 1] /\ level \in Nat
  BY <1>1, LevelTypes DEF Nested, Here
<1>4. /\ sp \in Nat /\ sp <= Here.top /\ Here.top - sp <= Locals /\ Here.top <= UXSTACKTOP
      /\ (Here.top > USTACKTOP => sp >= UXSTACKBOT)
  <2>1. /\ esp < Here.top /\ Here.top - Here.esp <= Locals
        /\ (Here.top > USTACKTOP => Here.esp >= UXSTACKBOT)
    BY <1>1, <1>3 DEF Within, Here
  <2>2. Here.top <= UXSTACKTOP
    <3>1. bound[level + 1].top <= UXSTACKTOP BY <1>1, <1>3, TopInside
    <3> QED BY <1>3, <3>1
  <2>3. USTACKTOP \in Nat /\ UXSTACKBOT = USTACKTOP + 1 /\ Locals \in Nat BY Layout
  <2>4. Here.top \in Nat /\ esp \in Nat /\ esp = Here.esp BY <1>1, <1>3
  <2>5. sp \in Nat /\ sp <= Here.top /\ Here.top - sp <= Locals
    BY ONLY <1>2, <2>1, <2>3, <2>4
  <2>6. Here.top > USTACKTOP => sp >= UXSTACKBOT
    BY ONLY <1>2, <2>1, <2>3, <2>4
  <2> QED BY <2>2, <2>5, <2>6
<1>5. /\ esp' = sp /\ mem' = mem /\ bound' = [bound EXCEPT ![level + 1].esp = sp]
  BY <1>2
<1>6. /\ bound' \in Seq(Bounds) /\ Len(bound') = level + 1 /\ Levels' = Levels
      /\ Here' = [top |-> Here.top, esp |-> sp]
      /\ \A k \in Levels : /\ bound'[k].top = bound[k].top
                           /\ k # level + 1 => bound'[k] = bound[k]
      /\ Nested'
  BY ONLY <1>1, <1>4, <1>5, HereMoves
<1>7. UfShape'
  <2>1. esp' \in 0 .. UXSTACKTOP
    <3>1. UXSTACKTOP \in Nat /\ Here.top \in Nat BY <1>3, Layout
    <3> QED BY <1>4, <1>5, <3>1
  <2> QED BY <1>1, <1>5, <1>6, <2>1 DEF UfShape
<1>8. ASSUME NEW k \in Levels PROVE LocalsKept(k)'
  <2>1. LocalsKept(k) BY <1>1 DEF Contents
  <2>2. CASE k # level + 1
    BY <1>5, <1>6, <2>1, <2>2 DEF LocalsKept
  <2>3. CASE k = level + 1
    <3>1. bound'[k].top = Here.top /\ bound'[k].esp = sp
      BY <1>1, <1>6, <2>3 DEF Here
    <3>2. \A a \in sp .. Here.top - 1 : a \in Here.esp .. Here.top - 1
      BY <1>1, <1>2, <1>3
    <3> QED BY <1>3, <1>5, <2>1, <2>3, <3>1, <3>2 DEF LocalsKept
  <2> QED BY <2>2, <2>3
<1>9. ASSUME NEW k \in Levels PROVE FrameKept(k)'
  <2>1. FrameKept(k) BY <1>1 DEF Contents
  <2>2. k > 1 => bound'[k - 1] = bound[k - 1]
    <3>1. k > 1 => k - 1 \in Levels /\ k - 1 # level + 1 BY <1>1, LevelTypes
    <3> QED BY <1>6, <3>1
  <2>3. bound'[k].top = bound[k].top BY <1>6
  <2> QED BY <1>5, <2>1, <2>2, <2>3 DEF FrameKept, Saved, EIP, ESP
<1>10. AtStep' BY <1>1, <1>5, <1>6 DEF AtStep, Running
<1>11. Contents' BY <1>1, <1>6, <1>8, <1>9, <1>10 DEF Contents
<1>12. GuardUntouched' BY <1>1, <1>5 DEF GuardUntouched, USTACKTOP, Untouched, FaultVa, Err
<1> QED BY <1>6, <1>7, <1>11, <1>12 DEF UfInv

(* What a write to free words leaves: the stacks and frames of the levels  *)
(* up to n, if their bounds are left alone too.                            *)
LEMMA ContentsKept ==
    ASSUME UfShape, Nested, NEW n \in Levels, NEW W,
           \A a \in Addr : a \notin W => mem'[a] = mem[a],
           \A a \in W : a \in Int /\ Free(n, a),
           NEW k \in Levels, k <= n, \A j \in Levels : j <= n => bound'[j] = bound[j],
           LocalsKept(k), FrameKept(k)
    PROVE  LocalsKept(k)' /\ FrameKept(k)'
<1>1. /\ \A a \in bound[k].esp .. bound[k].top - 1 : mem'[a] = mem[a]
      /\ k > 1 => \A o \in 2..5 : mem'[bound[k].top + 2 + o] = mem[bound[k].top + 2 + o]
  BY FreeWords
<1>2. bound'[k] = bound[k] OBVIOUS
<1>3. LocalsKept(k)' BY <1>1, <1>2 DEF LocalsKept
<1>4. ASSUME k > 1 PROVE Saved(bound[k].top + 2, k - 2, bound[k - 1].esp)'
  <2> DEFINE f == bound[k].top + 2
             l == k - 2
             sq == bound[k - 1].esp
  <2>1. Saved(f, l, sq) BY <1>4 DEF FrameKept
  <2>2. \A o \in 2..5 : mem'[f + o] = mem[f + o] BY <1>1, <1>4
  <2>3. bound'[k - 1] = bound[k - 1]
    <3>1. k - 1 \in Levels /\ k - 1 <= n BY <1>4, LevelTypes
    <3> QED BY <3>1
  <2> HIDE DEF f, l, sq
  <2>4. mem'[f + 2] = l /\ mem'[f + EIP] = l /\ mem'[f + 4] = l /\ mem'[f + ESP] = sq
    BY <2>1, <2>2, SavedKept
  <2> QED BY <1>2, <2>3, <2>4 DEF Saved, f, l, sq
<1> QED BY <1>3, <1>4 DEF FrameKept

(* A frame fits between the stack in use and the end of its page.          *)
LEMMA FrameRoom ==
    ASSUME UfShape, Nested, NEW k \in Levels, NEW f, f = FrameFor(bound[k].esp), f >= UXSTACKBOT
    PROVE  /\ f \in Nat /\ f + 6 <= UXSTACKTOP /\ bound[k].esp <= UXSTACKTOP
           /\ \A a \in Int : a > USTACKTOP /\ a <= f + 5 => Free(k, a)
<1>1. /\ bound[k].top \in Nat /\ bound[k].esp \in Nat /\ k \in Nat /\ k >= 1 /\ Within(k)
  BY LevelTypes DEF Nested
<1>2. /\ USTACKTOP \in Nat /\ UXSTACKBOT = USTACKTOP + 1 /\ UXSTACKTOP \in Nat
      /\ UXSTACKTOP >= UXSTACKBOT
  BY Layout
<1>3. bound[k].esp <= UXSTACKTOP
  <2>1. CASE k = 1 BY <1>1, <1>2, <2>1 DEF Within
  <2>2. CASE k > 1 BY <1>1, <1>2, <2>2 DEF Within
  <2> QED BY <1>1, <2>1, <2>2
<1>4. CASE bound[k].esp >= UXSTACKBOT
  <2>1. f = bound[k].esp - 7 BY <1>4 DEF FrameFor
  <2> QED BY <1>1, <1>2, <1>3, <2>1 DEF Free
<1>5. CASE ~(bound[k].esp >= UXSTACKBOT)
  <2>1. f = UXSTACKTOP - 6 BY <1>5 DEF FrameFor
  <2>2. bound[k].top <= USTACKTOP BY <1>1, <1>2, <1>5 DEF Within
  <2> QED BY <1>1, <1>2, <1>3, <2>1, <2>2 DEF Free
<1> QED BY <1>4, <1>5

(* The kernel destroys the environment: no room for the frame.             *)
LEMMA DestroyedStep ==
    ASSUME UfInv, upc' = "destroyed",
           UNCHANGED <<mem, regs, eip, eflags, esp, eax, ebx, ebp, level, bound>>
    PROVE  UfInv'
<1>1. UfShape' BY DEF UfInv, UfShape
<1>2. Nested'
  <2>1. Levels' = Levels BY DEF Levels
  <2> QED BY <2>1 DEF UfInv, Nested, Within, Under
<1>3. GuardUntouched' BY DEF UfInv, GuardUntouched
<1> QED BY <1>1, <1>2, <1>3 DEF UfInv, Contents

(* page_fault_handler writes the frame under everything that is in use.    *)
LEMMA FaultStep == ASSUME UfInv, Fault PROVE UfInv'
<1> USE DEF Fault
<1>1. /\ UfShape /\ Nested /\ Contents /\ GuardUntouched /\ Running /\ esp = Here.esp
      /\ upc = "run" /\ level' = level /\ bound' = bound /\ esp \in 0 .. UXSTACKTOP
      /\ Here = bound[level + 1] /\ level + 1 \in Levels /\ level \in Nat
  BY LevelTypes DEF UfInv, UfShape, Contents, AtStep, Here
<1>2. FrameAt = FrameFor(bound[level + 1].esp)
  <2>1. /\ UXSTACKBOT \in Nat /\ UXSTACKTOP \in Nat /\ Scratch = 1 /\ SizeofUtf = 6
    BY Layout
  <2>2. esp \in Int /\ esp <= UXSTACKTOP /\ bound[level + 1].esp = esp BY <1>1, <2>1
  <2>3. CASE esp >= UXSTACKBOT
    BY <2>1, <2>2, <2>3 DEF FrameAt, OnExcStack, FrameFor
  <2>4. CASE ~(esp >= UXSTACKBOT)
    BY <2>1, <2>2, <2>4 DEF FrameAt, OnExcStack, FrameFor
  <2> QED BY <2>3, <2>4
<1>3. CASE ~FrameFits
  BY <1>3, DestroyedStep DEF page_fault_handler
<1>4. CASE FrameFits
  <2>1. PICK f : f = FrameAt OBVIOUS
  <2>2. f >= UXSTACKBOT /\ f = FrameFor(bound[level + 1].esp) BY <1>2, <1>4, <2>1 DEF FrameFits
  <2>3. /\ f \in Nat /\ f + 6 <= UXSTACKTOP
        /\ \A a \in Int : a > USTACKTOP /\ a <= f + 5 => Free(level + 1, a)
    BY ONLY <1>1, <2>2, FrameRoom
  <2>4. /\ USTACKTOP \in Nat /\ UXSTACKBOT = USTACKTOP + 1 /\ UXSTACKTOP \in Nat
        /\ Addr = 0 .. UXSTACKTOP - 1 /\ EIP = 3 /\ ESP = 5 /\ SizeofUtf = 6
    BY Layout
  <2> DEFINE W == f .. f + 5
  <2>5. /\ mem' = [a \in Addr |-> IF a \in W THEN Utf[a - f + 1] ELSE mem[a]]
        /\ esp' = f /\ upc' = "upcall"
        /\ UNCHANGED <<regs, eip, eflags, eax, ebx, ebp>>
    <3>1. f + SizeofUtf - 1 = f + 5 BY <2>3, <2>4
    <3> QED BY <1>4, <2>1, <3>1 DEF page_fault_handler
  <2>6. /\ regs \in Int /\ eip \in Int /\ eflags \in Int /\ esp \in Int /\ mem \in [Addr -> Int]
        /\ FaultVa \in Int /\ Err \in Int
    BY <1>1, <2>4 DEF UfShape, FaultVa, Err
  <2>7. \A o \in 1..6 : Utf[o] \in Int
    BY <2>6 DEF Utf
  <2>8. mem' \in [Addr -> Int]
    <3>1. ASSUME NEW a \in Addr PROVE (IF a \in W THEN Utf[a - f + 1] ELSE mem[a]) \in Int
      <4>1. a \in W => a - f + 1 \in 1..6 BY <2>3, <2>4
      <4> HIDE DEF W
      <4> QED BY <2>6, <2>7, <4>1
    <3> HIDE DEF W
    <3> QED BY <2>5, <3>1
  <2>9. UfShape'
    <3>1. esp' \in 0 .. UXSTACKTOP BY <2>3, <2>4, <2>5
    <3> QED BY <1>1, <2>5, <2>8, <3>1 DEF UfShape
  <2>10. \A a \in Addr : a \notin W => mem'[a] = mem[a] BY <2>5
  <2>11. \A a \in W : a \in Int /\ Free(level + 1, a) /\ a > USTACKTOP /\ a \in Addr
    BY <2>2, <2>3, <2>4
  <2>12. Saved(f, level, bound[level + 1].esp)'
    <3>1. \A o \in 0..5 : mem'[f + o] = Utf[o + 1]
      <4> TAKE o \in 0..5
      <4>1. f + o \in W /\ f + o \in Addr /\ (f + o) - f + 1 = o + 1 BY <2>3, <2>4, <2>2
      <4> QED BY <2>5, <4>1
    <3>2. /\ Utf[3] = regs /\ Utf[4] = eip /\ Utf[5] = eflags /\ Utf[6] = esp BY DEF Utf
    <3>3. mem'[f + 2] = Utf[3] /\ mem'[f + 3] = Utf[4] /\ mem'[f + 4] = Utf[5]
          /\ mem'[f + 5] = Utf[6]
      <4>1. 2 \in 0..5 /\ 3 \in 0..5 /\ 4 \in 0..5 /\ 5 \in 0..5
            /\ 2 + 1 = 3 /\ 3 + 1 = 4 /\ 4 + 1 = 5 /\ 5 + 1 = 6
        OBVIOUS
      <4> QED BY ONLY <3>1, <4>1
    <3>4. mem'[f + 2] = level /\ mem'[f + EIP] = level /\ mem'[f + 4] = level
          /\ mem'[f + ESP] = bound[level + 1].esp
      BY <1>1, <2>4, <3>2, <3>3 DEF Running
    <3> QED BY <1>1, <3>4 DEF Saved
  <2> HIDE DEF W
  <2>13. ASSUME NEW k \in Levels PROVE LocalsKept(k)' /\ FrameKept(k)'
    <3>1. k <= level + 1 BY <1>1, LevelTypes
    <3>2. LocalsKept(k) /\ FrameKept(k) BY <1>1 DEF Contents
    <3>3. \A j \in Levels : j <= level + 1 => bound'[j] = bound[j] BY <1>1
    <3>4. UfShape /\ Nested /\ level + 1 \in Levels BY <1>1
    <3>5. \A a \in W : a \in Int /\ Free(level + 1, a) BY <2>11
    <3> QED BY <2>10, <3>1, <3>2, <3>3, <3>4, <3>5, ContentsKept
  <2>14. Levels' = Levels /\ Here' = Here BY <1>1 DEF Levels, Here
  <2>15. Nested' BY <1>1, <2>14 DEF Nested, Within, Under
  <2>16. AtStep'
    <3>1. FrameFor(Here.esp)' = f BY <1>1, <2>2, <2>14 DEF FrameFor
    <3> QED BY <1>1, <2>2, <2>5, <2>12, <2>14, <3>1 DEF AtStep, Running, Saved, Here
  <2>17. GuardUntouched'
    <3>1. \A a \in Addr : a <= USTACKTOP =>
             mem'[a] = mem[a] \/ (a < USTACKTOP /\ mem'[a] \in Nat)
      <4>1. \A a \in Addr : a <= USTACKTOP => a \notin W BY <2>4, <2>11
      <4> QED BY <2>10, <4>1
    <3> QED BY <1>1, <2>6, <2>8, <3>1, GuardKept
  <2>18. Contents' BY <2>5, <2>13, <2>14, <2>16 DEF Contents
  <2> QED BY <2>9, <2>15, <2>17, <2>18 DEF UfInv
<1> QED BY <1>3, <1>4

(* The handler returns to _pgfault_upcall.                                 *)
LEMMA HandlerReturnsStep == ASSUME UfInv, handler_returns PROVE UfInv'
<1> USE DEF handler_returns
<1>1. /\ UfShape /\ Nested /\ Contents /\ GuardUntouched /\ esp = Here.esp
      /\ upc = "run" /\ level' = level /\ bound' = bound /\ mem' = mem
      /\ Here = bound[level + 1] /\ level + 1 \in Levels /\ level \in Nat /\ level > 0
      /\ esp = Here.top
  BY LevelTypes DEF UfInv, UfShape, Contents, AtStep, Here
<1>2. /\ level \in Levels /\ bound[level].esp \in Nat /\ bound[level].top \in Nat
      /\ Here.top \in Nat
  BY <1>1, LevelTypes
<1>3. Saved(Here.top + 2, level - 1, bound[level].esp)
  <2>1. FrameKept(level + 1) BY <1>1 DEF Contents
  <2>2. (level + 1) - 2 = level - 1 /\ (level + 1) - 1 = level /\ level + 1 > 1 BY <1>1
  <2> QED BY <1>1, <2>1, <2>2 DEF FrameKept
<1>4. /\ eax' = level - 1 /\ ebx' = bound[level].esp /\ ebp' = Here.top + 2
      /\ esp' = bound[level].esp
  BY <1>1, <1>3 DEF Saved
<1>5. bound[level].esp <= UXSTACKTOP
  <2>1. Within(level) BY <1>1, <1>2 DEF Nested
  <2>2. bound[level].top <= UXSTACKTOP BY <1>1, <1>2, <2>1, TopInside
  <2>3. bound[level].esp <= bound[level].top BY <2>1 DEF Within
  <2>4. bound[level].top \in Nat /\ bound[level].esp \in Nat /\ UXSTACKTOP \in Nat
    BY <1>1, <1>2, LevelTypes, Layout
  <2> QED BY ONLY <2>2, <2>3, <2>4
<1>6. UfShape'
  <2>1. esp' \in 0 .. UXSTACKTOP BY <1>2, <1>4, <1>5, Layout
  <2>2. eax' \in Int /\ ebx' \in Int /\ ebp' \in Int BY <1>1, <1>2, <1>4
  <2> QED BY <1>1, <2>1, <2>2 DEF UfShape
<1>7. Levels' = Levels /\ Here' = Here BY <1>1 DEF Levels, Here
<1>8. Nested' BY <1>1, <1>7 DEF Nested, Within, Under
<1>9. Contents'
  <2>1. \A k \in Levels : LocalsKept(k)' /\ FrameKept(k)'
    BY <1>1 DEF Contents, LocalsKept, FrameKept, Saved
  <2>2. AtStep' BY <1>1, <1>4, <1>7 DEF AtStep, Computed
  <2> QED BY <1>7, <2>1, <2>2 DEF Contents
<1>10. GuardUntouched' BY <1>1 DEF GuardUntouched
<1> QED BY <1>6, <1>8, <1>9, <1>10 DEF UfInv

(* _pgfault_upcall calls the handler.                                      *)
LEMMA CallHandlerStep == ASSUME UfInv, call_handler PROVE UfInv'
<1> USE DEF call_handler
<1>1. /\ UfShape /\ Nested /\ Contents /\ GuardUntouched /\ Running
      /\ upc = "upcall" /\ esp = FrameFor(Here.esp) /\ esp >= UXSTACKBOT
      /\ Saved(esp, level, Here.esp)
      /\ Here = bound[level + 1] /\ level + 1 \in Levels /\ level \in Nat
  BY LevelTypes DEF UfInv, UfShape, Contents, AtStep, Here
<1>2. CASE ~(esp - 2 >= UXSTACKBOT)
  BY <1>2, DestroyedStep
<1>3. CASE esp - 2 >= UXSTACKBOT
  <2>1. PICK f : f = esp OBVIOUS
  <2>2. /\ f >= UXSTACKBOT /\ f = FrameFor(bound[level + 1].esp) /\ f - 2 >= UXSTACKBOT
    BY <1>1, <1>3, <2>1
  <2>3. /\ f \in Nat /\ f + 6 <= UXSTACKTOP
        /\ \A a \in Int : a > USTACKTOP /\ a <= f + 5 => Free(level + 1, a)
    BY ONLY <1>1, <2>2, FrameRoom
  <2>4. /\ USTACKTOP \in Nat /\ UXSTACKBOT = USTACKTOP + 1 /\ UXSTACKTOP \in Nat
        /\ Addr = 0 .. UXSTACKTOP - 1 /\ EIP = 3 /\ ESP = 5 /\ Locals \in Nat
    BY Layout
  <2>n. PICK n : n = level + 2 OBVIOUS
  <2> DEFINE W == {f - 1, f - 2}
             r == [top |-> f - 2, esp |-> f - 2]
  <2>5. /\ mem' = [mem EXCEPT ![f - 1] = level + 1, ![f - 2] = level + 1]
        /\ esp' = f - 2 /\ level' = level + 1
        /\ regs' = level + 1 /\ eip' = level + 1 /\ eflags' = level + 1
        /\ bound' = Append(bound, r) /\ upc' = "run" /\ UNCHANGED <<eax, ebx, ebp>>
    BY <1>3, <2>1
  <2>6. \A a \in W : a \in Int /\ Free(level + 1, a) /\ a > USTACKTOP /\ a \in Addr /\ a < f
    BY <2>2, <2>3, <2>4
  <2>7. mem' \in [Addr -> Int] /\ \A a \in Addr : a \notin W => mem'[a] = mem[a]
    BY <1>1, <2>5, <2>6 DEF UfShape
  <2>8. r \in Bounds /\ r.top = f - 2 /\ r.esp = f - 2 BY <2>2, <2>3, <2>4 DEF Bounds
  <2> HIDE DEF W, r
  <2>9. /\ bound' \in Seq(Bounds) /\ Len(bound') = n /\ Levels' = 1..n /\ Levels = 1 .. n - 1
        /\ n \in Nat /\ n - 1 = level + 1 /\ n > 1
        /\ bound'[n] = r /\ \A k \in Levels : bound'[k] = bound[k]
    <3>1. bound \in Seq(Bounds) /\ Len(bound) = level + 1 BY <1>1 DEF UfShape
    <3>2. /\ bound' \in Seq(Bounds) /\ Len(bound') = Len(bound) + 1
          /\ bound'[Len(bound) + 1] = r /\ \A k \in 1..Len(bound) : bound'[k] = bound[k]
      BY <2>5, <2>8, <3>1
    <3>3. Len(bound) + 1 = n /\ n \in Nat /\ n - 1 = level + 1 /\ n > 1
      BY <1>1, <2>n, <3>1
    <3>4. Levels = 1 .. n - 1 BY <1>1, <3>3, LevelTypes
    <3>5. Levels' = 1 .. n BY <3>2, <3>3 DEF Levels
    <3> QED BY <3>1, <3>2, <3>3, <3>4, <3>5
  <2>10. UfShape'
    <3>1. esp' \in 0 .. UXSTACKTOP
      <4>1. esp' = f - 2 BY <2>5
      <4> QED BY ONLY <4>1, <2>2, <2>3, <2>4
    <3>2. level' \in Nat /\ Len(bound') = level' + 1 /\ regs' \in Int /\ eip' \in Int
          /\ eflags' \in Int
      BY <1>1, <2>5, <2>9
    <3> QED BY <1>1, <2>5, <2>7, <2>9, <3>1, <3>2 DEF UfShape
  <2>11. bound'[n].top = f - 2 /\ bound'[n].esp = f - 2 /\ bound'[n - 1] = bound[level + 1]
    <3>1. n - 1 \in Levels BY <1>1, <2>9
    <3> QED BY <2>8, <2>9, <3>1
  <2>12. Within(n)'
    <3>1. bound'[n].esp <= bound'[n].top /\ bound'[n].top - bound'[n].esp <= Locals
      BY <2>3, <2>4, <2>11
    <3>2. bound'[n].top > USTACKTOP /\ bound'[n].esp >= UXSTACKBOT
          /\ bound'[n].top + 8 <= UXSTACKTOP
      BY <2>2, <2>3, <2>4, <2>11
    <3>3. bound'[n].top = FrameFor(bound'[n - 1].esp) - 2 BY <2>2, <2>11
    <3>4. n # 1 BY <2>9
    <3>5. FrameFor(bound[n - 1].esp)' = FrameFor(bound'[n - 1].esp)
      BY DEF FrameFor
    <3> QED BY <3>1, <3>2, <3>3, <3>4, <3>5 DEF Within
  <2>13. ASSUME NEW k \in Levels PROVE Within(k)'
    <3>1. Within(k) BY <1>1 DEF Nested
    <3>2. bound'[k] = bound[k] /\ (k > 1 => bound'[k - 1] = bound[k - 1])
      <4>1. k > 1 => k - 1 \in Levels BY <2>9
      <4> QED BY <2>9, <4>1
    <3> QED BY <3>1, <3>2 DEF Within, FrameFor
  <2>14. ASSUME NEW j \in Levels PROVE Under(j, n)'
    <3> SUFFICES ASSUME bound[j].esp > USTACKTOP PROVE f + 7 <= bound[j].esp
      <4>1. bound'[j] = bound[j] BY <2>9
      <4>2. bound'[n].top + 9 = f + 7 BY <2>3, <2>11
      <4> QED BY <4>1, <4>2 DEF Under
    <3>1. /\ bound[j].esp \in Nat /\ bound[j].top \in Nat /\ j \in Nat /\ j <= level + 1 /\ j >= 1
          /\ bound[level + 1].esp \in Nat /\ bound[level + 1].top \in Nat
      BY <1>1, LevelTypes
    <3>2. bound[j].top > USTACKTOP
      <4>1. Within(j) BY <1>1 DEF Nested
      <4> QED BY <2>4, <3>1, <4>1 DEF Within
    <3>3. bound[level + 1].esp <= bound[j].esp /\ bound[level + 1].top > USTACKTOP
      BY <1>1, <3>1, <3>2, Lowest
    <3>4. bound[level + 1].esp >= UXSTACKBOT
      <4>1. Within(level + 1) BY <1>1 DEF Nested
      <4> QED BY <3>3, <4>1 DEF Within
    <3>5. f = bound[level + 1].esp - 7 BY <2>2, <3>4 DEF FrameFor
    <3> QED BY ONLY <3>1, <3>3, <3>5
  <2>15. ASSUME NEW j \in Levels, NEW k \in Levels PROVE Under(j, k)'
    <3>1. Under(j, k) BY <1>1 DEF Nested
    <3> QED BY <2>9, <3>1 DEF Under
  <2>16. ASSUME NEW k \in 1..n PROVE Under(n, k)'
    BY <2>9 DEF Under
  <2>17. \A k \in 1..n : k = n \/ k \in Levels BY <2>9
  <2>18. Nested'
    <3>1. \A k \in 1..n : Within(k)' BY <2>12, <2>13, <2>17
    <3>2. \A j, k \in 1..n : Under(j, k)'
      <4> TAKE j, k \in 1..n
      <4> QED BY <2>14, <2>15, <2>16, <2>17
    <3> QED BY <2>9, <3>1, <3>2 DEF Nested
  <2>19. ASSUME NEW k \in Levels PROVE LocalsKept(k)' /\ FrameKept(k)'
    <3>1. k <= level + 1 BY <1>1, LevelTypes
    <3>2. LocalsKept(k) /\ FrameKept(k) BY <1>1 DEF Contents
    <3>3. \A j \in Levels : j <= level + 1 => bound'[j] = bound[j] BY <2>9
    <3>4. UfShape /\ Nested /\ level + 1 \in Levels BY <1>1
    <3>5. \A a \in W : a \in Int /\ Free(level + 1, a) BY <2>6
    <3> QED BY <2>7, <3>1, <3>2, <3>3, <3>4, <3>5, ContentsKept
  <2>20. LocalsKept(n)'
    <3>1. bound'[n].esp .. bound'[n].top - 1 = {} BY <2>3, <2>11
    <3> QED BY <3>1 DEF LocalsKept
  <2>21. FrameKept(n)'
    <3>1. Saved(f, level, bound[level + 1].esp) BY <1>1, <2>1
    <3>2. \A o \in 2..5 : mem'[f + o] = mem[f + o]
      <4> TAKE o \in 2..5
      <4>1. f + o \in Addr /\ f + o >= f BY <2>3, <2>4
      <4>2. f + o \notin W BY <2>3, <2>6, <4>1
      <4> QED BY <2>7, <4>1, <4>2
    <3>3. /\ mem'[f + 2] = level /\ mem'[f + EIP] = level /\ mem'[f + 4] = level
          /\ mem'[f + ESP] = bound[level + 1].esp
      BY <3>1, <3>2, SavedKept
    <3>4. bound'[n].top + 2 = f /\ n - 2 = level BY <1>1, <2>3, <2>n, <2>11
    <3> QED BY <2>11, <3>3, <3>4 DEF FrameKept, Saved
  <2>22. Contents'
    <3>1. \A k \in 1..n : LocalsKept(k)' /\ FrameKept(k)' BY <2>17, <2>19, <2>20, <2>21
    <3>2. AtStep'
      <4>1. level' + 1 = n BY <1>1, <2>5, <2>n
      <4>2. Here'.esp = f - 2 BY <2>11, <4>1 DEF Here
      <4> QED BY <2>5, <4>2 DEF AtStep, Running
    <3> QED BY <2>5, <2>9, <3>1, <3>2 DEF Contents
  <2>23. GuardUntouched'
    <3>1. \A a \in Addr : a <= USTACKTOP =>
             mem'[a] = mem[a] \/ (a < USTACKTOP /\ mem'[a] \in Nat)
      <4>1. \A a \in Addr : a <= USTACKTOP => a \notin W BY <2>4, <2>6
      <4> QED BY <2>7, <4>1
    <3> QED BY <1>1, <2>7, <3>1, GuardKept DEF UfShape
  <2> QED BY <2>10, <2>18, <2>22, <2>23 DEF UfInv
<1> QED BY <1>2, <1>3

(* The word under the stack that a handler returns to is free, too.        *)
LEMMA PushEipStep == ASSUME UfInv, push_eip, StackMayFault = FALSE PROVE UfInv'
<1> USE DEF push_eip
<1>1. /\ UfShape /\ Nested /\ Contents /\ GuardUntouched
      /\ upc = "push_eip" /\ level' = level /\ bound' = bound
      /\ level > 0 /\ Here.esp = Here.top /\ ebp = Here.top + 2
      /\ eax = level - 1 /\ esp = bound[level].esp
      /\ Here = bound[level + 1] /\ level + 1 \in Levels /\ level \in Nat
      /\ Here.top \in Nat
  BY LevelTypes DEF UfInv, UfShape, Contents, AtStep, Here, Computed
<1>2. /\ level \in Levels /\ bound[level].esp \in Nat /\ bound[level].top \in Nat
      /\ level < level + 1 /\ (level + 1) - 1 = level /\ level + 1 > 1
  BY <1>1, LevelTypes
<1>3. /\ USTACKTOP \in Nat /\ UXSTACKBOT = USTACKTOP + 1 /\ UXSTACKTOP \in Nat
      /\ Addr = 0 .. UXSTACKTOP - 1 /\ EIP = 3 /\ ESP = 5 /\ Locals \in Nat
      /\ USTACKTOP > Locals
  BY Layout
<1>4. /\ mem' = [mem EXCEPT ![esp - 1] = eax, ![ebp + 5] = esp - 1]
      /\ esp' = ebp + 2 /\ upc' = "popa"
      /\ UNCHANGED <<regs, eip, eflags, eax, ebx, ebp>>
  BY <1>3
<1>5. Within(level) /\ Within(level + 1) /\ Under(level, level + 1)
  BY <1>1, <1>2 DEF Nested
<1>6. /\ Here.top > USTACKTOP /\ Here.top + 8 <= UXSTACKTOP
      /\ Here.top = FrameFor(bound[level].esp) - 2
  BY <1>1, <1>2, <1>5 DEF Within
<1>7. PICK w : w = esp - 1 OBVIOUS
<1>8. /\ w \in Addr /\ w \in Int /\ Free(level, w) /\ w # ebp + 5 /\ w # ebp + 2 /\ w # ebp + 4
      /\ w # USTACKTOP
  <2>1. CASE bound[level].esp >= UXSTACKBOT
    <3>1. Here.top = bound[level].esp - 9 BY <1>2, <1>6, <2>1 DEF FrameFor
    <3>2. w = Here.top + 8 /\ ebp = Here.top + 2 BY <1>1, <1>2, <1>7, <3>1
    <3>3. Here.top \in Nat /\ Here.top > USTACKTOP /\ Here.top + 8 <= UXSTACKTOP BY <1>1, <1>6
    <3>4. bound[level].esp \in Nat /\ USTACKTOP \in Nat /\ UXSTACKTOP \in Nat BY <1>2, <1>3
    <3>5. w \in Nat /\ w > USTACKTOP /\ w < bound[level].esp
      BY ONLY <3>1, <3>2, <3>3, <3>4
    <3>6. w < UXSTACKTOP
      <4>1. bound[level].esp <= UXSTACKTOP BY <1>1 DEF UfShape
      <4> QED BY ONLY <3>1, <3>2, <3>3, <3>4, <4>1
    <3>7. w \in Addr BY ONLY <1>3, <3>5, <3>6
    <3>8. w # ebp + 5 /\ w # ebp + 2 /\ w # ebp + 4 /\ w # USTACKTOP
      BY ONLY <3>2, <3>3, <3>4, <3>5
    <3> QED BY <3>5, <3>7, <3>8 DEF Free
  <2>2. CASE ~(bound[level].esp >= UXSTACKBOT)
    <3>1. bound[level].top <= USTACKTOP BY <1>2, <1>3, <1>5, <2>2 DEF Within
    <3>2. level = 1
      <4>1. ~(level > 1) BY <1>2, <1>3, <1>5, <3>1 DEF Within
      <4> QED BY <1>1, <4>1
    <3>3. bound[level].top \in {USTACKTOP, UXSTACKTOP} BY <1>5, <3>2 DEF Within
    <3>4. bound[level].top = USTACKTOP BY <1>2, <1>3, <3>1, <3>3, Layout
    <3>5. /\ bound[level].esp <= bound[level].top
          /\ bound[level].top - bound[level].esp <= Locals
      BY <1>5 DEF Within
    <3>6. w >= 0 /\ w < USTACKTOP /\ w < bound[level].esp /\ w \in Int
      <4>1. /\ bound[level].esp \in Nat /\ bound[level].top \in Nat /\ w = bound[level].esp - 1
            /\ USTACKTOP \in Nat /\ Locals \in Nat /\ USTACKTOP > Locals
        BY <1>1, <1>2, <1>3, <1>7
      <4> QED BY ONLY <3>4, <3>5, <4>1
    <3>7. w \in Addr BY <1>3, <3>6, Layout
    <3>8. ebp > USTACKTOP /\ ebp \in Nat BY <1>1, <1>3, <1>6
    <3>9. Free(level, w) BY <3>1, <3>6 DEF Free
    <3> QED BY <1>3, <3>6, <3>7, <3>8, <3>9
  <2> QED BY <2>1, <2>2
<1>9. /\ ebp + 5 \in Addr /\ ebp + 5 \in Int /\ Free(level, ebp + 5) /\ ebp + 5 > USTACKTOP
      /\ ebp \in Nat /\ ebp + 2 \in Addr /\ ebp + 4 \in Addr /\ ebp + 2 \in 0 .. UXSTACKTOP
  <2>1. ebp \in Nat /\ ebp = Here.top + 2 BY <1>1
  <2>2. /\ ebp + 5 \in Addr /\ ebp + 5 > USTACKTOP /\ ebp + 5 \in Int
        /\ ebp + 2 \in Addr /\ ebp + 4 \in Addr /\ ebp + 2 \in 0 .. UXSTACKTOP
    <3>1. /\ Here.top \in Nat /\ Here.top > USTACKTOP /\ Here.top + 8 <= UXSTACKTOP
          /\ USTACKTOP \in Nat /\ UXSTACKTOP \in Nat
      BY <1>1, <1>3, <1>6
    <3>2. ebp + 5 < UXSTACKTOP /\ ebp + 5 > USTACKTOP BY ONLY <2>1, <3>1
    <3>3. /\ ebp + 5 \in 0 .. UXSTACKTOP - 1 /\ ebp + 2 \in 0 .. UXSTACKTOP - 1
          /\ ebp + 4 \in 0 .. UXSTACKTOP - 1 /\ ebp + 2 \in 0 .. UXSTACKTOP
      BY ONLY <2>1, <3>1, <3>2
    <3> QED BY <1>3, <2>1, <3>2, <3>3
  <2>3. Free(level, ebp + 5)
    <3>1. CASE bound[level].esp > USTACKTOP
      <4>1. Here.top + 9 <= bound[level].esp BY <1>1, <1>2, <1>5, <3>1 DEF Under
      <4> QED BY <1>1, <1>2, <2>1, <2>2, <4>1 DEF Free
    <3>2. CASE ~(bound[level].esp > USTACKTOP)
      <4>1. bound[level].top <= USTACKTOP BY <1>2, <1>3, <1>5, <3>2 DEF Within
      <4> QED BY <2>2, <4>1 DEF Free
    <3> QED BY <3>1, <3>2
  <2> QED BY <2>1, <2>2, <2>3
<1> DEFINE W == {w, ebp + 5}
<1>10. /\ mem' \in [Addr -> Int] /\ \A a \in Addr : a \notin W => mem'[a] = mem[a]
       /\ mem'[w] = eax /\ mem'[ebp + 5] = w
  <2>1. mem \in [Addr -> Int] /\ eax \in Int BY <1>1 DEF UfShape
  <2>2. mem' = [mem EXCEPT ![w] = eax, ![ebp + 5] = w] BY <1>4, <1>7
  <2> QED BY ONLY <1>8, <1>9, <2>1, <2>2
<1>11. UfShape' BY <1>1, <1>4, <1>9, <1>10 DEF UfShape
<1>12. Levels' = Levels /\ Here' = Here BY <1>1 DEF Levels, Here
<1>13. Nested' BY <1>1, <1>12 DEF Nested, Within, Under
<1>14. \A a \in W : a \in Int /\ Free(level, a) BY <1>8, <1>9
<1>15. ASSUME NEW k \in Levels, k # level + 1 PROVE LocalsKept(k)' /\ FrameKept(k)'
  <2>1. k <= level BY <1>1, <1>15, LevelTypes
  <2>2. LocalsKept(k) /\ FrameKept(k) BY <1>1 DEF Contents
  <2>3. \A j \in Levels : j <= level => bound'[j] = bound[j] BY <1>1
  <2>4. UfShape /\ Nested /\ level \in Levels BY <1>1, <1>2
  <2> HIDE DEF W
  <2> QED BY <1>10, <1>14, <2>1, <2>2, <2>3, <2>4, ContentsKept
<1>16. LocalsKept(level + 1)'
  <2>1. bound[level + 1].esp .. bound[level + 1].top - 1 = {} BY <1>1
  <2> QED BY <1>1, <2>1 DEF LocalsKept
<1>17. AtStep'
  <2>1. Saved(ebp, level - 1, bound[level].esp)
    <3>1. FrameKept(level + 1) BY <1>1 DEF Contents
    <3>2. (level + 1) - 2 = level - 1 BY <1>1
    <3> QED BY <1>1, <1>2, <3>1, <3>2 DEF FrameKept
  <2>2. mem'[ebp + 2] = level - 1 /\ mem'[ebp + 4] = level - 1
    <3>1. ebp + 2 \notin W /\ ebp + 4 \notin W BY <1>8, <1>9
    <3> QED BY <1>9, <1>10, <2>1, <3>1 DEF Saved
  <2>3. mem'[ebp + ESP] = bound[level].esp - 1 /\ mem'[bound[level].esp - 1] = level - 1
    BY <1>1, <1>3, <1>7, <1>10
  <2> QED BY <1>1, <1>4, <1>12, <2>2, <2>3 DEF AtStep, Computed
<1>18. Contents'
  <2>1. \A k \in Levels : LocalsKept(k)' BY <1>15, <1>16
  <2> QED BY <1>1, <1>4, <1>12, <1>15, <1>17, <2>1 DEF Contents
<1>19. GuardUntouched'
  <2>1. \A a \in Addr : a <= USTACKTOP =>
           mem'[a] = mem[a] \/ (a < USTACKTOP /\ mem'[a] \in Nat)
    <3> TAKE a \in Addr
    <3> HAVE a <= USTACKTOP
    <3>1. a # ebp + 5 BY <1>3, <1>9
    <3>2. CASE a = w
      <4>1. a < USTACKTOP BY <1>3, <1>8, <3>2
      <4>2. mem'[a] \in Nat BY <1>1, <1>10, <3>2
      <4> QED BY <4>1, <4>2
    <3>3. CASE a # w BY <1>10, <3>1, <3>3
    <3> QED BY <3>2, <3>3
  <2> QED BY <1>1, <1>10, <2>1, GuardKept DEF UfShape
<1> QED BY <1>11, <1>13, <1>18, <1>19 DEF UfInv

(* The last instructions of _pgfault_upcall restore registers, flags,      *)
(* stack and place.                                                        *)
LEMMA ReturnStep == ASSUME UfInv, return_from_upcall PROVE UfInv'
<1> USE DEF return_from_upcall
<1>1. /\ UfShape /\ Nested /\ Contents /\ GuardUntouched
      /\ upc = "popa" /\ level > 0 /\ esp = ebp + 2 /\ ebp = Here.top + 2
      /\ mem[ebp + 2] = level - 1 /\ mem[ebp + 4] = level - 1
      /\ mem[ebp + ESP] = bound[level].esp - 1
      /\ mem[bound[level].esp - 1] = level - 1
      /\ Here = bound[level + 1] /\ level + 1 \in Levels /\ level \in Nat
      /\ Here.top \in Nat
  BY LevelTypes DEF UfInv, UfShape, Contents, AtStep, Here, Computed
<1>2. /\ level \in Levels /\ bound[level].esp \in Nat /\ bound[level].top \in Nat
      /\ Levels = 1 .. level + 1
  BY <1>1, LevelTypes
<1>3. /\ regs' = level - 1 /\ eflags' = level - 1 /\ eip' = level - 1
      /\ esp' = bound[level].esp /\ level' = level - 1 /\ upc' = "run" /\ mem' = mem
      /\ bound' = SubSeq(bound, 1, level) /\ UNCHANGED <<eax, ebx, ebp>>
  <2>1. esp + 2 = ebp + 4 /\ esp + 3 = ebp + ESP
    <3>1. Here.top \in Nat /\ ebp = Here.top + 2 /\ esp = ebp + 2 BY <1>1
    <3>2. ESP = 5 BY Layout
    <3> QED BY ONLY <3>1, <3>2
  <2>2. mem[esp + 3] = bound[level].esp - 1 BY <1>1, <2>1
  <2>3. (bound[level].esp - 1) + 1 = bound[level].esp BY <1>2
  <2> QED BY <1>1, <2>1, <2>2, <2>3
<1>4. /\ bound' \in Seq(Bounds) /\ Len(bound') = level /\ Levels' = 1 .. level
      /\ \A k \in 1 .. level : bound'[k] = bound[k] /\ k \in Levels
  <2>1. bound \in Seq(Bounds) /\ Len(bound) = level + 1 BY <1>1 DEF UfShape
  <2>2. bound' \in Seq(Bounds) /\ Len(bound') = level
        /\ \A k \in 1 .. level : bound'[k] = bound[k]
    <3>1. bound' = SubSeq(bound, 1, level) /\ level \in Nat BY <1>1, <1>3
    <3> QED BY ONLY <2>1, <3>1, FrontSeq
  <2>3. \A k \in 1 .. level : k \in Levels BY <1>1, <1>2
  <2>4. Levels' = 1 .. level BY <2>2 DEF Levels
  <2> QED BY <2>2, <2>3, <2>4
<1>5. bound[level].esp <= UXSTACKTOP
  <2>1. Within(level) BY <1>1, <1>2 DEF Nested
  <2>2. bound[level].top <= UXSTACKTOP BY <1>1, <1>2, <2>1, TopInside
  <2>3. bound[level].esp <= bound[level].top BY <2>1 DEF Within
  <2>4. bound[level].top \in Nat /\ bound[level].esp \in Nat /\ UXSTACKTOP \in Nat
    BY <1>1, <1>2, LevelTypes, Layout
  <2> QED BY ONLY <2>2, <2>3, <2>4
<1>6. UfShape'
  <2>1. esp' \in 0 .. UXSTACKTOP BY <1>2, <1>3, <1>5, Layout
  <2>2. level' \in Nat /\ Len(bound') = level' + 1 /\ regs' \in Int /\ eip' \in Int
        /\ eflags' \in Int
    <3>1. level \in Nat /\ level > 0 /\ level' = level - 1 /\ Len(bound') = level
      BY <1>1, <1>3, <1>4
    <3>2. level' \in Nat /\ Len(bound') = level' + 1 /\ level - 1 \in Int BY ONLY <3>1
    <3> QED BY <1>3, <3>2
  <2> QED BY <1>1, <1>3, <1>4, <2>1, <2>2 DEF UfShape
<1>7. ASSUME NEW k \in 1 .. level PROVE Within(k)' /\ LocalsKept(k)' /\ FrameKept(k)'
  <2>0. level \in Nat /\ k # level + 1 BY <1>1
  <2>1. bound'[k] = bound[k] /\ k \in Levels /\ k # level + 1 BY <1>4, <2>0
  <2>2. k > 1 => bound'[k - 1] = bound[k - 1]
    <3>1. k > 1 => k - 1 \in 1 .. level BY <1>1
    <3> QED BY <1>4, <3>1
  <2>3. Within(k) /\ LocalsKept(k) /\ FrameKept(k) BY <1>1, <2>1 DEF Nested, Contents
  <2>4. Within(k)' BY <2>1, <2>2, <2>3 DEF Within, FrameFor
  <2>5. LocalsKept(k)' BY <1>3, <2>1, <2>3 DEF LocalsKept
  <2>6. FrameKept(k)' BY <1>3, <2>1, <2>2, <2>3 DEF FrameKept, Saved
  <2> QED BY <2>4, <2>5, <2>6
<1>8. Nested'
  <2>1. \A j, k \in 1 .. level : Under(j, k)'
    <3> TAKE j, k \in 1 .. level
    <3>1. Under(j, k) BY <1>1, <1>4 DEF Nested
    <3> QED BY <1>4, <3>1 DEF Under
  <2> QED BY <1>4, <1>7, <2>1 DEF Nested
<1>9. AtStep'
  <2>1. level' + 1 = level /\ level \in 1 .. level BY <1>1, <1>3
  <2>2. Here'.esp = bound[level].esp BY <1>4, <2>1 DEF Here
  <2> QED BY <1>3, <2>2 DEF AtStep, Running
<1>10. Contents' BY <1>4, <1>7, <1>9 DEF Contents
<1>11. GuardUntouched' BY <1>1, <1>3 DEF GuardUntouched
<1> QED BY <1>6, <1>8, <1>10, <1>11 DEF UfInv

(* Nothing changes.                                                        *)
LEMMA UfIdle == ASSUME UfInv, UNCHANGED ufVars PROVE UfInv'
<1> USE DEF ufVars
<1>1. UfShape' BY DEF UfInv, UfShape
<1>2. Levels' = Levels /\ Here' = Here BY DEF Levels, Here
<1>3. Nested' BY <1>2 DEF UfInv, Nested, Within, Under
<1>4. Contents'
  BY <1>2 DEF UfInv, Contents, LocalsKept, FrameKept, Saved, AtStep, Running, Computed
<1>5. GuardUntouched' BY DEF UfInv, GuardUntouched
<1> QED BY <1>1, <1>3, <1>4, <1>5 DEF UfInv

(* FaultsTransparent is a part of the invariant.                           *)
LEMMA UfTransparent == ASSUME UfInv PROVE FaultsTransparent
<1>1. UfTypeOK BY DEF UfInv, UfShape, UfTypeOK
<1>2. StateRestored BY DEF UfInv, Contents, AtStep, Running, Here, StateRestored
<1>3. StacksIntact BY DEF UfInv, Contents, LocalsKept, Levels, StacksIntact
<1> QED BY <1>1, <1>2, <1>3 DEF UfInv, FaultsTransparent

-----------------------------------------------------------------------------
(* trap.c, pfentry.S: with a program stack that can be written when the    *)
(* handler returns, page faults nested to any depth leave registers,       *)
(* flags, place, stack pointer and stack of everything they interrupt as   *)
(* they were, and never write into the guard page.                         *)
THEOREM FaultsInvisible ==
    ASSUME StackMayFault = FALSE PROVE UfSpec => []FaultsTransparent
<1>1. UfInv /\ [UfNext]_ufVars => UfInv'
  BY PushStep, PopStep, FaultStep, CallHandlerStep, HandlerReturnsStep, PushEipStep,
     ReturnStep, UfIdle DEF UfNext
<1>2. UfInv => FaultsTransparent BY UfTransparent
<1> QED BY <1>1, <1>2, UfInitInv, PTL DEF UfSpec

=============================================================================
