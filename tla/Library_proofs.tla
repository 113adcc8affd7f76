---------------------------- MODULE Library_proofs --------------------------
(***************************************************************************)
(* Proofs about module IpcLib, for every number of environments, values    *)
(* and receivers: what ipc_recv returns is one message, although it reads  *)
(* the three fields of struct Env one by one, without the kernel lock.     *)
(*                                                                         *)
(* The argument is that nobody else writes those fields while ipc_recv     *)
(* reads them: a sender writes them only when env_ipc_recving is set, that *)
(* is set exactly while the environment is blocked, and the send that      *)
(* wakes it clears it.                                                     *)
(*                                                                         *)
(* About module UserMem, for every page size and address space:            *)
(* user_mem_check, which rounds the range to whole pages, decides for the  *)
(* bytes of the range and names the first one that fails.                  *)
(*                                                                         *)
(* About the other sequential routines: the frames of TrapEntry for every  *)
(* vector and any registers; the search of Stab in tables of any length;   *)
(* both loaders of Loader; memmove, the copying routines and vprintfmt of  *)
(* Strings and Printfmt for any memory and any format; runcmd of Monitor   *)
(* for lines of any length.  Each has an invariant that says what the loop *)
(* has done so far.                                                        *)
(***************************************************************************)
EXTENDS IpcLib, UserMem, Stab, TrapEntry, Loader, Monitor, Printfmt,
        FiniteSetTheorems, SequenceTheorems, WellFoundedInduction, TLAPS

Fields == [recving : BOOLEAN, from : IpcEnv \cup {NONE}, value : IpcValue \cup {NONE},
           perm : {0, PermPage}, dstva : BOOLEAN]
Message == [from : IpcEnv, perm : SUBSET {0, PermPage}, value : IpcValue]
Request == [to : Receiver, value : IpcValue, page : BOOLEAN]
Woken == {"from", "perm", "value", "received"}
Pcs == Woken \cup {"idle", "blocked", "failed", "try", "yield", "dead"}

(* The shape of the variables; who sends has arguments, and who is woken   *)
(* was sent something.                                                     *)
IpcShape ==
    /\ ipc \in [IpcEnv -> Fields]
    /\ ipcpc \in [IpcEnv -> Pcs]
    /\ arg \in [IpcEnv -> Request \cup {NONE}]
    /\ result \in [IpcEnv -> [from : IpcEnv \cup {NONE}, perm : {0, PermPage, NONE},
                              value : IpcValue \cup {NONE}]]
    /\ sent \in [IpcEnv -> Message \cup {NONE}]
    /\ \A e \in IpcEnv : ipcpc[e] \in {"try", "yield"} => arg[e] \in Request /\ arg[e].to # e
    /\ \A e \in IpcEnv : ipcpc[e] \in Woken => sent[e] \in Message

(* Only who waits can be sent to.                                          *)
Waiting(e) == ipc[e].recving <=> ipcpc[e] = "blocked"

(* The fields of struct Env are those of the message that woke it, from    *)
(* the send until ipc_recv returns ...                                     *)
Stored(e) ==
    ipcpc[e] \in Woken =>
        /\ ipc[e].from = sent[e].from /\ ipc[e].value = sent[e].value
        /\ ipc[e].perm \in sent[e].perm

(* ... and so is what it has read of them.                                 *)
ReadSoFar(e) ==
    /\ ipcpc[e] \in Woken \ {"from"} => result[e].from = sent[e].from
    /\ ipcpc[e] \in {"value", "received"} => result[e].perm \in sent[e].perm
    /\ ipcpc[e] = "received" => result[e].value = sent[e].value

OneMessage(e) == Waiting(e) /\ Stored(e) /\ ReadSoFar(e)
IpcInv == IpcShape /\ \A e \in IpcEnv : OneMessage(e)

-----------------------------------------------------------------------------
(* Environments whose state a step leaves alone keep their part.           *)
LEMMA OthersKept ==
    ASSUME NEW e \in IpcEnv, OneMessage(e),
           ipc'[e] = ipc[e], ipcpc'[e] = ipcpc[e], result'[e] = result[e], sent'[e] = sent[e]
    PROVE  OneMessage(e)'
  BY DEF OneMessage, Waiting, Stored, ReadSoFar

(* In the first state nobody waits and nobody is woken.                    *)
LEMMA IpcInitInv == IpcInit => IpcInv
<1>1. IpcInit => IpcShape
  BY DEF IpcInit, IpcShape, Fields, NoResult, Pcs, Woken
<1>2. IpcInit => \A e \in IpcEnv : OneMessage(e)
  <2> SUFFICES ASSUME IpcInit, NEW e \in IpcEnv PROVE OneMessage(e)
    OBVIOUS
  <2>1. ipc[e].recving = FALSE /\ ipcpc[e] = "idle"
    BY DEF IpcInit
  <2> QED BY <2>1 DEF OneMessage, Waiting, Stored, ReadSoFar, Woken
<1> QED BY <1>1, <1>2 DEF IpcInv

(* ipc_recv: from now on the environment can be sent to.                   *)
LEMMA RecvStep ==
    ASSUME IpcInv, NEW e \in IpcEnv, ipc_recv(e) PROVE IpcInv'
<1> USE DEF ipc_recv, IpcGoto
<1>1. IpcShape'
  <2>1. PICK asks \in BOOLEAN : ipc' = [ipc EXCEPT ![e].recving = TRUE, ![e].dstva = asks]
    OBVIOUS
  <2>2. /\ ipcpc' \in [IpcEnv -> Pcs]
        /\ \A f \in IpcEnv : f # e => ipcpc'[f] = ipcpc[f]
        /\ ipcpc'[e] = "blocked"
    BY DEF IpcInv, IpcShape, Pcs
  <2>3. ipc' \in [IpcEnv -> Fields]
    <3>1. [ipc[e] EXCEPT !.recving = TRUE, !.dstva = asks] \in Fields
      <4>1. ipc[e] \in Fields BY DEF IpcInv, IpcShape
      <4> HIDE DEF ipc_recv
      <4> QED BY <4>1 DEF Fields
    <3>2. ipc' = [ipc EXCEPT ![e] = [ipc[e] EXCEPT !.recving = TRUE, !.dstva = asks]]
      BY <2>1 DEF IpcInv, IpcShape
    <3> QED BY <3>1, <3>2 DEF IpcInv, IpcShape
  <2> QED BY <2>2, <2>3 DEF IpcInv, IpcShape, Woken
<1>2. \A f \in IpcEnv : OneMessage(f)'
  <2> TAKE f \in IpcEnv
  <2>1. CASE f # e
    BY <2>1, OthersKept DEF IpcInv, IpcShape
  <2>2. CASE f = e
    BY <2>2 DEF IpcInv, IpcShape, OneMessage, Waiting, Stored, ReadSoFar, Woken
  <2> QED BY <2>1, <2>2
<1> QED BY <1>1, <1>2 DEF IpcInv

(* The steps of ipc_recv after it is woken: each copies one field.         *)
LEMMA ReadStep ==
    ASSUME IpcInv, NEW e \in IpcEnv,
           read_from(e) \/ read_perm(e) \/ read_value(e) \/ recv_return(e) \/ recv_fails(e)
    PROVE  IpcInv'
<1> USE DEF IpcGoto, NoResult
<1>1. CASE read_from(e)
  <2> USE <1>1 DEF read_from
  <2>1. IpcShape' BY DEF IpcInv, IpcShape, Fields, Pcs, Woken
  <2>2. \A f \in IpcEnv \ {e} : OneMessage(f)' BY OthersKept DEF IpcInv, IpcShape
  <2>3. OneMessage(e)'
    BY DEF IpcInv, IpcShape, OneMessage, Waiting, Stored, ReadSoFar, Woken
  <2> QED BY <2>1, <2>2, <2>3 DEF IpcInv
<1>2. CASE read_perm(e)
  <2> USE <1>2 DEF read_perm
  <2>1. IpcShape' BY DEF IpcInv, IpcShape, Fields, Pcs, Woken
  <2>2. \A f \in IpcEnv \ {e} : OneMessage(f)' BY OthersKept DEF IpcInv, IpcShape
  <2>3. OneMessage(e)'
    BY DEF IpcInv, IpcShape, OneMessage, Waiting, Stored, ReadSoFar, Woken
  <2> QED BY <2>1, <2>2, <2>3 DEF IpcInv
<1>3. CASE read_value(e)
  <2> USE <1>3 DEF read_value
  <2>1. IpcShape' BY DEF IpcInv, IpcShape, Fields, Pcs, Woken
  <2>2. \A f \in IpcEnv \ {e} : OneMessage(f)' BY OthersKept DEF IpcInv, IpcShape
  <2>3. OneMessage(e)'
    BY DEF IpcInv, IpcShape, OneMessage, Waiting, Stored, ReadSoFar, Woken
  <2> QED BY <2>1, <2>2, <2>3 DEF IpcInv
<1>4. CASE recv_return(e)
  <2> USE <1>4 DEF recv_return
  <2>1. IpcShape' BY DEF IpcInv, IpcShape, Fields, Pcs, Woken
  <2>2. \A f \in IpcEnv \ {e} : OneMessage(f)' BY OthersKept DEF IpcInv, IpcShape
  <2>3. OneMessage(e)'
    BY DEF IpcInv, IpcShape, OneMessage, Waiting, Stored, ReadSoFar, Woken
  <2> QED BY <2>1, <2>2, <2>3 DEF IpcInv
<1>5. CASE recv_fails(e)
  <2> USE <1>5 DEF recv_fails
  <2>1. IpcShape' BY DEF IpcInv, IpcShape, Fields, Pcs, Woken
  <2>2. \A f \in IpcEnv \ {e} : OneMessage(f)' BY OthersKept DEF IpcInv, IpcShape
  <2>3. OneMessage(e)'
    BY DEF IpcInv, IpcShape, OneMessage, Waiting, Stored, ReadSoFar, Woken
  <2> QED BY <2>1, <2>2, <2>3 DEF IpcInv
<1> QED BY <1>1, <1>2, <1>3, <1>4, <1>5

(* ipc_send starts, waits for its turn or gives up; sys_exit.  None of     *)
(* these writes another environment's struct Env.                          *)
LEMMA OwnStep ==
    ASSUME IpcInv, NEW e \in IpcEnv,
           ipc_send(e) \/ bad_env(e) \/ not_recv(e) \/ bad_page(e) \/ sys_yield(e) \/ exit(e)
    PROVE  IpcInv'
<1> USE DEF ipc_send, bad_env, not_recv, bad_page, sys_yield, exit, IpcGoto
<1>1. IpcShape'
  <2>1. CASE ipc_send(e) BY <2>1, IpcAssumption DEF IpcInv, IpcShape, Pcs, Woken, Request
  <2>2. CASE bad_env(e) BY <2>2 DEF IpcInv, IpcShape, Pcs, Woken
  <2>3. CASE not_recv(e) BY <2>3 DEF IpcInv, IpcShape, Pcs, Woken
  <2>4. CASE sys_yield(e) BY <2>4 DEF IpcInv, IpcShape, Pcs, Woken
  <2>5. CASE exit(e) BY <2>5 DEF IpcInv, IpcShape, Pcs, Woken
  <2>6. CASE bad_page(e) BY <2>6 DEF IpcInv, IpcShape, Pcs, Woken
  <2> QED BY <2>1, <2>2, <2>3, <2>4, <2>5, <2>6
<1>2. \A f \in IpcEnv \ {e} : OneMessage(f)' BY OthersKept DEF IpcInv, IpcShape
<1>3. OneMessage(e)'
  BY DEF IpcInv, IpcShape, OneMessage, Waiting, Stored, ReadSoFar, Woken
<1> QED BY <1>1, <1>2, <1>3 DEF IpcInv

(* A send that fails for lack of memory has written the permission of an   *)
(* environment that still waits: it has read nothing.                      *)
LEMMA NoMemStep ==
    ASSUME IpcInv, NEW e \in IpcEnv, no_mem(e) PROVE IpcInv'
<1> USE DEF no_mem, IpcGoto
<1>1. PICK to \in Receiver : to = arg[e].to /\ to # e
  BY DEF IpcInv, IpcShape, Request
<1>2. to \in IpcEnv /\ ipcpc[to] = "blocked" /\ ipc[to].recving
  BY <1>1, IpcAssumption DEF IpcInv, OneMessage, Waiting
<1>3. ipc' = [ipc EXCEPT ![to].perm = PermPage]
  BY <1>1
<1>4. IpcShape'
  <2>1. /\ ipcpc' \in [IpcEnv -> Pcs]
        /\ \A f \in IpcEnv : f # e => ipcpc'[f] = ipcpc[f]
        /\ ipcpc'[e] = "dead"
    BY DEF IpcInv, IpcShape, Pcs
  <2>2. ipc' \in [IpcEnv -> Fields]
    <3>1. [ipc[to] EXCEPT !.perm = PermPage] \in Fields
      BY <1>2 DEF IpcInv, IpcShape, Fields
    <3> QED BY <1>2, <1>3, <3>1 DEF IpcInv, IpcShape
  <2> QED BY <2>1, <2>2 DEF IpcInv, IpcShape, Woken
<1>5. \A f \in IpcEnv \ {e, to} : OneMessage(f)'
  BY <1>3, OthersKept DEF IpcInv, IpcShape
<1>6. OneMessage(to)'
  BY <1>1, <1>2, <1>3 DEF IpcInv, IpcShape, OneMessage, Waiting, Stored, ReadSoFar, Woken
<1>7. OneMessage(e)'
  BY <1>1, <1>3 DEF IpcInv, IpcShape, OneMessage, Waiting, Stored, ReadSoFar, Woken
<1> QED BY <1>4, <1>5, <1>6, <1>7 DEF IpcInv

(* What sys_ipc_try_send stores as permission is among what the receiver   *)
(* may read.                                                               *)
LEMMA PermAmong ==
    ASSUME IpcInv, NEW e \in IpcEnv, arg[e] \in Request
    PROVE  /\ PermSent(e) \in PermsFor(e)
           /\ PermsFor(e) \in SUBSET {0, PermPage}
<1>1. PICK to \in Receiver : to = arg[e].to
  BY DEF Request
<1>2. arg[e].page \in BOOLEAN /\ ipc[to].dstva \in BOOLEAN /\ ipc[to].perm \in {0, PermPage}
  BY <1>1, IpcAssumption DEF IpcInv, IpcShape, Fields, Request
<1> QED BY <1>1, <1>2 DEF PermSent, PermsFor, PageMoves

(* The send that succeeds writes all fields of an environment that waits,  *)
(* and wakes it.                                                           *)
LEMMA TrySendStep ==
    ASSUME IpcInv, NEW e \in IpcEnv, try_send(e) PROVE IpcInv'
<1> USE DEF try_send
<1>1. PICK to \in Receiver : to = arg[e].to /\ to # e
  BY DEF IpcInv, IpcShape, Request
<1>2. arg[e] \in Request
  BY DEF IpcInv, IpcShape
<1>3. to \in IpcEnv /\ ipcpc[to] = "blocked"
  BY <1>1, IpcAssumption DEF IpcInv, OneMessage, Waiting
<1>4. PICK v \in IpcValue : v = arg[e].value
  BY <1>2 DEF Request
<1>5. PICK perm \in {0, PermPage} : perm = PermSent(e)
  BY <1>2, PermAmong
<1>6. PICK perms \in SUBSET {0, PermPage} : perms = PermsFor(e) /\ perm \in perms
  BY <1>2, <1>5, PermAmong
<1>7. /\ ipc' = [ipc EXCEPT ![to] = [ipc[to] EXCEPT !.recving = FALSE, !.from = e,
                                                   !.value = v, !.perm = perm]]
      /\ sent' = [sent EXCEPT ![to] = [from |-> e, perm |-> perms, value |-> v]]
      /\ ipcpc' = [ipcpc EXCEPT ![e] = "idle", ![to] = "from"]
      /\ arg' = [arg EXCEPT ![e] = NONE]
      /\ result' = result
  <2>1. ipcpc' = [ipcpc EXCEPT ![e] = "idle", ![to] = "from"]
    BY <1>1, <1>3 DEF IpcInv, IpcShape
  <2> QED BY <2>1, <1>1, <1>4, <1>5, <1>6 DEF Delivered
<1> HIDE DEF try_send
<1>8. IpcShape'
  <2>1. /\ ipcpc' \in [IpcEnv -> Pcs]
        /\ \A f \in IpcEnv : f \notin {e, to} => ipcpc'[f] = ipcpc[f]
        /\ ipcpc'[e] = "idle" /\ ipcpc'[to] = "from"
    BY <1>1, <1>3, <1>7 DEF IpcInv, IpcShape, Pcs, Woken
  <2>2. ipc' \in [IpcEnv -> Fields]
    <3>1. [ipc[to] EXCEPT !.recving = FALSE, !.from = e, !.value = v, !.perm = perm] \in Fields
      <4>1. ipc[to] \in Fields BY <1>3 DEF IpcInv, IpcShape
      <4> QED BY <4>1 DEF Fields
    <3> QED BY <1>3, <1>7, <3>1 DEF IpcInv, IpcShape
  <2>3. arg' \in [IpcEnv -> Request \cup {NONE}] /\ \A f \in IpcEnv : f # e => arg'[f] = arg[f]
    BY <1>7 DEF IpcInv, IpcShape
  <2>4. [from |-> e, perm |-> perms, value |-> v] \in Message
    BY DEF Message
  <2>5. /\ sent' \in [IpcEnv -> Message \cup {NONE}]
        /\ \A f \in IpcEnv : f # to => sent'[f] = sent[f]
        /\ sent'[to] \in Message
    BY <1>3, <1>7, <2>4 DEF IpcInv, IpcShape
  <2> QED BY <1>7, <2>1, <2>2, <2>3, <2>5 DEF IpcInv, IpcShape, Woken
<1>9. \A f \in IpcEnv \ {e, to} : OneMessage(f)'
  BY <1>7, OthersKept DEF IpcInv, IpcShape
<1>10. OneMessage(to)'
  BY <1>1, <1>3, <1>6, <1>7
     DEF IpcInv, IpcShape, OneMessage, Waiting, Stored, ReadSoFar, Woken
<1>11. OneMessage(e)'
  <2>1. ipcpc[e] = "try" BY DEF try_send
  <2> QED BY <1>1, <1>7, <2>1
       DEF IpcInv, IpcShape, OneMessage, Waiting, Stored, ReadSoFar, Woken
<1> QED BY <1>8, <1>9, <1>10, <1>11 DEF IpcInv

(* Every step keeps the invariant.                                         *)
LEMMA IpcInvStep == IpcInv /\ [IpcNext]_ipcVars => IpcInv'
<1> SUFFICES ASSUME IpcInv, [IpcNext]_ipcVars PROVE IpcInv'
  OBVIOUS
<1>1. CASE UNCHANGED ipcVars
  BY <1>1 DEF ipcVars, IpcInv, IpcShape, OneMessage, Waiting, Stored, ReadSoFar
<1>2. CASE IpcNext
  <2>1. PICK e \in IpcEnv :
          Continue(e) \/ ipc_recv(e) \/ recv_fails(e) \/ ipc_send(e) \/ exit(e)
    BY <1>2 DEF IpcNext
  <2> QED BY <2>1, RecvStep, ReadStep, OwnStep, NoMemStep, TrySendStep DEF Continue
<1> QED BY <1>1, <1>2

(* lib/ipc.c: ipc_recv returns the sender, the value and the permission of *)
(* the one send that woke it, and an environment can be sent to exactly    *)
(* while it waits.                                                         *)
THEOREM MessagesCorrect == IpcSpec => []MessagesWhole
<1>1. IpcInv => MessagesWhole
  BY DEF IpcInv, IpcShape, Fields, OneMessage, Waiting, Stored, ReadSoFar, Woken,
         MessagesWhole, IpcTypeOK, ReceivedAsSent
<1> QED BY <1>1, IpcInitInv, IpcInvStep, PTL DEF IpcSpec
-----------------------------------------------------------------------------
(* user_mem_check                                                          *)

Addr == 0 .. UmSize - 1
Call == [fn : {"usermem"}, pc : {"call", "loop", "done"}, va : Addr, len : Addr,
         perm : SUBSET {"U", "W"}, table : [0 .. UmPages - 1 -> Entry],
         start : Addr, end : Addr, ret : Int, bad : Addr]

(* The range ends below the last page.                                     *)
Short == st.va + st.len <= UmSize - UmPage

(* The loop stands at the start of page s and ends before page e, the      *)
(* first one behind the range; the bytes it has passed may be accessed.    *)
LoopAt(s, e) ==
    /\ st.start = s * UmPage /\ st.end = e * UmPage
    /\ st.va + st.len <= e * UmPage /\ e * UmPage < st.va + st.len + UmPage
    /\ st.va < s * UmPage + UmPage
    /\ \A a \in st.va .. s * UmPage - 1 : UserMay(a)

UserMemInv ==
    /\ st \in Call
    /\ st.pc = "loop" => "U" \in st.perm
    /\ st.pc = "loop" /\ Short => \E s, e \in 0 .. UmPages - 1 : LoopAt(s, e)
    /\ UserMemChecked

(* The least element of a set of numbers.                                  *)
LEMMA MinIs ==
    ASSUME NEW S \in SUBSET Int, NEW f \in S, \A y \in S : f <= y
    PROVE  Min(S) = f
<1>1. Min(S) \in S /\ \A y \in S : Min(S) <= y
  BY Zenon DEF Min
<1>2. PICK m \in S : m = Min(S) /\ m <= f
  BY ONLY <1>1, f \in S, Zenon
<1>3. m = f
  BY ONLY <1>2, \A y \in S : f <= y, m \in S, S \in SUBSET Int, f \in S, SMT
<1> QED BY ONLY <1>2, <1>3

(* What rounding to pages does, for pages of any size.                     *)
LEMMA PageArithmetic ==
    ASSUME NEW n \in Nat, n > 0
    PROVE  /\ \A a \in Nat : \E q \in Nat :
                 ROUNDDOWN(a, n) = q * n /\ q * n <= a /\ a < q * n + n
           /\ \A q \in Nat, a \in Nat : q * n <= a /\ a < q * n + n => a \div n = q
           /\ \A i \in Nat, j \in Nat : i * n < j * n => i + 1 <= j /\ i * n + n <= j * n
           /\ \A i \in Nat, j \in Nat : i <= j => i * n <= j * n
           /\ \A i \in Nat : i * n \in Nat /\ (i + 1) * n = i * n + n
<1>1. ASSUME NEW a \in Nat
      PROVE  \E q \in Nat : ROUNDDOWN(a, n) = q * n /\ q * n <= a /\ a < q * n + n
  <2>1. a \div n \in Nat /\ a % n \in Nat /\ a % n < n /\ a - (a % n) = (a \div n) * n
    BY SMT
  <2>2. PICK q \in Nat, r \in Nat : r < n /\ r = a % n /\ q = a \div n /\ a - r = q * n
    BY ONLY <2>1, Zenon
  <2>3. PICK m : m = q * n
    OBVIOUS
  <2>4. m <= a /\ a < m + n
    BY ONLY <2>2, <2>3, a \in Nat, n \in Nat
  <2> QED BY ONLY <2>2, <2>3, <2>4, Zenon DEF ROUNDDOWN
<1>2. \A q \in Nat, a \in Nat : q * n <= a /\ a < q * n + n => a \div n = q
  BY SMT
<1>3. \A i \in Nat, j \in Nat : i <= j => i * n <= j * n
  BY SMT
<1>4. \A i \in Nat : i * n \in Nat /\ (i + 1) * n = i * n + n
  BY SMT
<1>5. \A i \in Nat, j \in Nat : i * n < j * n => i + 1 <= j
  BY SMT
<1>6. \A i \in Nat, j \in Nat : i * n < j * n => i + 1 <= j /\ i * n + n <= j * n
  <2> SUFFICES ASSUME NEW i \in Nat, NEW j \in Nat, i * n < j * n
               PROVE  i + 1 <= j /\ i * n + n <= j * n
    OBVIOUS
  <2>1. i + 1 \in Nat /\ i + 1 <= j
    BY <1>5
  <2>2. (i + 1) * n <= j * n
    BY <1>3, <2>1
  <2> QED BY <1>4, <2>1, <2>2
<1> QED BY <1>1, <1>2, <1>3, <1>4, <1>6

(* The sizes; n is UmPage in what follows.                                 *)
LEMMA UserMemSizes ==
    /\ UmPage \in Nat /\ UmPage > 0 /\ UmPages \in Nat /\ UmPages > 0 /\ UmLimit \in Nat
    /\ UmSize = UmPages * UmPage /\ UmSize \in Nat /\ UmSize > 0 /\ UmPage <= UmSize
    /\ UmSize - UmPage = (UmPages - 1) * UmPage
<1>1. /\ UmPage \in Nat /\ UmPage > 0 /\ UmPages \in Nat /\ UmPages > 0 /\ UmLimit \in Nat
  BY UserMemAssumption
<1>2. \A m \in Nat, n \in Nat : m > 0 /\ n > 0 =>
         /\ n * m = m * n /\ m * n \in Nat /\ m * n > 0 /\ n <= m * n
         /\ m * n - n = (m - 1) * n
  BY SMT
<1> QED BY <1>1, <1>2 DEF UmSize

(* A byte of page s may be accessed exactly if the loop accepts the page.  *)
LEMMA PageAllowed ==
    ASSUME st \in Call, "U" \in st.perm, NEW s \in 0 .. UmPages - 1, NEW a \in Nat,
           s * UmPage <= a, a < s * UmPage + UmPage, st.start = s * UmPage
    PROVE  UserMay(a) <=> Allowed(s)
<1>0. s \in Nat /\ UmPage \in Nat /\ UmPage > 0
  BY UserMemSizes
<1>1. a \div UmPage = s
  <2>1. \A q \in Nat, b \in Nat : q * UmPage <= b /\ b < q * UmPage + UmPage => b \div UmPage = q
    BY ONLY <1>0, PageArithmetic
  <2> QED BY ONLY <1>0, <2>1, a \in Nat, s * UmPage <= a, a < s * UmPage + UmPage, Zenon
<1>2. a < ULIM <=> s * UmPage < ULIM
  <2> DEFINE x == s * UmPage
             y == UmLimit * UmPage
  <2>1. /\ UmPage \in Nat /\ UmPage > 0 /\ UmLimit \in Nat /\ s \in Nat
    BY UserMemSizes
  <2>2. x \in Nat /\ y \in Nat /\ (x < y => x + UmPage <= y)
    BY ONLY <2>1, PageArithmetic
  <2>3. x <= a /\ a < x + UmPage
    OBVIOUS
  <2> HIDE DEF x, y
  <2>4. a < y <=> x < y
    BY ONLY <2>1, <2>2, <2>3, a \in Nat
  <2> QED BY <2>4 DEF x, y, ULIM
<1>3. Below(s) <=> s * UmPage < ULIM
  BY DEF Below
<1>4. \A pte : ({"P", "U"} \cup st.perm \subseteq pte) <=> ("P" \in pte /\ st.perm \subseteq pte)
  BY ONLY "U" \in st.perm
<1> QED BY <1>1, <1>2, <1>3, <1>4, Zenon DEF UserMay, Allowed

(* The arguments are rounded to whole pages.                               *)
LEMMA RoundedRange ==
    ASSUME UserMemInv, user_mem_assert
    PROVE  UserMemInv'
<1>0. /\ UmPage \in Nat /\ UmPage > 0 /\ UmPages \in Nat /\ UmPages > 0
      /\ UmSize \in Nat /\ UmSize > 0 /\ UmPage <= UmSize
      /\ UmSize = UmPages * UmPage /\ UmSize - UmPage = (UmPages - 1) * UmPage
  BY UserMemSizes
<1>1. PICK va \in Nat, len \in Nat : va = st.va /\ len = st.len /\ va < UmSize /\ len < UmSize
  BY <1>0 DEF UserMemInv, Call, Addr
<1> DEFINE start == ROUNDDOWN(va, UmPage)
           end == ROUNDUP((va + len) % UmSize, UmPage) % UmSize
<1>2. PICK s \in Nat : start = s * UmPage /\ s * UmPage <= va /\ va < s * UmPage + UmPage
  BY <1>0, PageArithmetic
<1>3. start \in Addr
  <2>1. PICK x \in Nat : x = s * UmPage
    BY <1>0, PageArithmetic
  <2>2. x \in 0 .. UmSize - 1
    BY ONLY <1>0, <1>1, <1>2, <2>1
  <2> QED BY <1>2, <2>1, <2>2 DEF Addr
<1>4. end \in Addr
  <2>1. \A x \in Int, n \in Nat : n > 0 => x % n \in 0 .. n - 1
    BY SMT
  <2>2. \A x \in Int, n \in Nat : n > 0 => x % n \in Int
    BY SMT
  <2>3. ROUNDUP((va + len) % UmSize, UmPage) \in Int
    <3>1. PICK x \in Int : x = (va + len) % UmSize
      BY <1>0, <2>2
    <3>2. PICK y \in Int : y = (x + UmPage - 1) % UmPage
      BY <1>0, <2>2
    <3> QED BY <1>0, <3>1, <3>2 DEF ROUNDUP, ROUNDDOWN
  <2> QED BY ONLY <1>0, <2>1, <2>3, Zenon DEF Addr
<1>5. /\ st' = [st EXCEPT !.pc = "loop", !.perm = st.perm \cup {"U"}, !.start = start, !.end = end]
      /\ st \in Call
  BY <1>1 DEF user_mem_assert, UserMemInv
<1> HIDE DEF start, end
<1>6. /\ st' \in Call /\ st'.pc = "loop" /\ "U" \in st'.perm
      /\ st'.va = va /\ st'.len = len /\ st'.start = start /\ st'.end = end
  BY <1>1, <1>3, <1>4, <1>5 DEF Call
<1>7. ASSUME va + len <= UmSize - UmPage
      PROVE  \E t, e \in 0 .. UmPages - 1 : LoopAt(t, e)'
  <2>1. (va + len) % UmSize = va + len /\ va + len + UmPage - 1 \in Nat
    BY <1>0, <1>7, SMT
  <2>2. PICK e \in Nat : /\ ROUNDDOWN(va + len + UmPage - 1, UmPage) = e * UmPage
                         /\ e * UmPage <= va + len + UmPage - 1
                         /\ va + len + UmPage - 1 < e * UmPage + UmPage
    <3>1. \A a \in Nat : \E q \in Nat :
             ROUNDDOWN(a, UmPage) = q * UmPage /\ q * UmPage <= a /\ a < q * UmPage + UmPage
      BY ONLY <1>0, PageArithmetic
    <3> QED BY ONLY <2>1, <3>1, Zenon
  <2>3. PICK y \in Nat, x \in Nat : y = e * UmPage /\ x = s * UmPage
    BY <1>0, PageArithmetic
  <2>4. /\ va + len <= y /\ y < va + len + UmPage /\ y < UmSize
        /\ x <= va /\ va < x + UmPage /\ x < UmSize
    BY ONLY <1>0, <1>1, <1>2, <1>7, <2>2, <2>3, va \in Nat, len \in Nat
  <2>5. \A i \in Nat : i * UmPage < UmSize => i \in 0 .. UmPages - 1
    <3> SUFFICES ASSUME NEW i \in Nat, i * UmPage < UmPages * UmPage PROVE i + 1 <= UmPages
      BY <1>0
    <3> QED BY <1>0, PageArithmetic
  <2>6. e \in 0 .. UmPages - 1 /\ s \in 0 .. UmPages - 1
    BY ONLY <2>3, <2>4, <2>5
  <2>7. end = y
    <3>1. ROUNDUP(va + len, UmPage) = y
      BY <2>2, <2>3 DEF ROUNDUP
    <3>2. \A i \in Nat, n \in Nat : i < n => i % n = i
      BY SMT
    <3>3. y % UmSize = y
      BY ONLY <1>0, <2>4, <3>2, y \in Nat
    <3> QED BY ONLY <2>1, <3>1, <3>3 DEF end
  <2>8. va .. s * UmPage - 1 = {}
    BY ONLY <2>3, <2>4, va \in Nat
  <2>9. LoopAt(s, e)'
    <3>1. /\ st'.start = s * UmPage /\ st'.end = e * UmPage
          /\ st'.va + st'.len <= e * UmPage /\ e * UmPage < st'.va + st'.len + UmPage
          /\ st'.va < s * UmPage + UmPage
      BY ONLY <1>2, <1>6, <2>3, <2>4, <2>7
    <3>2. st'.va .. s * UmPage - 1 = {}
      BY ONLY <1>6, <2>8
    <3> QED BY <3>1, <3>2 DEF LoopAt
  <2> QED BY <2>6, <2>9
<1>8. UserMemChecked'
  BY <1>6 DEF UserMemChecked, At
<1>9. st'.pc = "loop" /\ Short' => \E t, e \in 0 .. UmPages - 1 : LoopAt(t, e)'
  BY <1>6, <1>7 DEF Short
<1> QED BY <1>6, <1>8, <1>9 DEF UserMemInv

(* The loop passes a page that may be accessed.                            *)
LEMMA PassedPage ==
    ASSUME UserMemInv, At("usermem", "loop"), st.start < st.end,
           Allowed(st.start \div UmPage), st' = [st EXCEPT !.start = (st.start + UmPage) % UmSize]
    PROVE  UserMemInv'
<1>0. /\ UmPage \in Nat /\ UmPage > 0 /\ UmPages \in Nat /\ UmPages > 0
      /\ UmSize \in Nat /\ UmSize > 0 /\ UmSize = UmPages * UmPage
  BY UserMemSizes
<1>1. /\ st \in Call /\ st.pc = "loop" /\ st.va \in Nat /\ st.start \in Nat /\ st.start < UmSize
      /\ "U" \in st.perm
  BY <1>0 DEF UserMemInv, At, Call, Addr
<1>2. (st.start + UmPage) % UmSize \in Addr
  <2>1. \A x \in Nat, n \in Nat : n > 0 => x % n \in 0 .. n - 1
    BY SMT
  <2>2. st.start + UmPage \in Nat
    BY <1>0, <1>1
  <2> QED BY ONLY <1>0, <2>1, <2>2, Zenon DEF Addr
<1>3. PICK z \in Addr : z = (st.start + UmPage) % UmSize
  BY <1>2
<1>4. /\ st' \in Call /\ st'.pc = "loop" /\ st'.start = z /\ st'.end = st.end
      /\ st'.va = st.va /\ st'.len = st.len /\ st'.table = st.table /\ st'.perm = st.perm
  BY <1>1, <1>3 DEF Call
<1>5. \A a : UserMay(a)' <=> UserMay(a)
  BY ONLY <1>4, Zenon DEF UserMay, ULIM
<1>6. ASSUME Short PROVE \E s, e \in 0 .. UmPages - 1 : LoopAt(s, e)'
  <2>1. PICK s \in 0 .. UmPages - 1, e \in 0 .. UmPages - 1 : LoopAt(s, e)
    BY <1>1, <1>6 DEF UserMemInv
  <2>2. s \in Nat /\ e \in Nat /\ e < UmPages
    BY <1>0
  <2>3. PICK x \in Nat, y \in Nat : x = s * UmPage /\ y = e * UmPage
    BY <1>0, <2>2, PageArithmetic
  <2>4. /\ st.start = x /\ st.end = y /\ st.va + st.len <= y /\ y < st.va + st.len + UmPage
        /\ st.va < x + UmPage /\ \A a \in st.va .. x - 1 : UserMay(a)
    BY ONLY <2>1, <2>3 DEF LoopAt
  <2>5. s + 1 <= e /\ x + UmPage <= y /\ (s + 1) * UmPage = x + UmPage
    <3>1. s * UmPage < e * UmPage
      BY <2>3, <2>4
    <3>2. /\ \A i \in Nat, j \in Nat : i * UmPage < j * UmPage => i + 1 <= j /\ i * UmPage + UmPage <= j * UmPage
          /\ \A i \in Nat : (i + 1) * UmPage = i * UmPage + UmPage
      BY ONLY <1>0, PageArithmetic
    <3>3. /\ s + 1 <= e /\ s * UmPage + UmPage <= e * UmPage
          /\ (s + 1) * UmPage = s * UmPage + UmPage
      BY ONLY <2>2, <3>1, <3>2, Zenon
    <3> QED BY ONLY <2>3, <3>3
  <2>6. y < UmSize
    <3>1. PICK f \in Nat : f = e + 1 /\ f <= UmPages
      BY ONLY <1>0, <2>2
    <3>2. f * UmPage <= UmPages * UmPage
      BY ONLY <1>0, <3>1, PageArithmetic
    <3>3. (e + 1) * UmPage = e * UmPage + UmPage
      BY ONLY <1>0, <2>2, PageArithmetic
    <3>4. y + UmPage <= UmSize
      BY ONLY <1>0, <2>3, <3>1, <3>2, <3>3, Zenon
    <3> QED BY ONLY <1>0, <3>4, y \in Nat
  <2>7. z = x + UmPage
    <3>1. \A i \in Nat, n \in Nat : i < n => i % n = i
      BY SMT
    <3>2. x + UmPage \in Nat /\ x + UmPage < UmSize
      BY ONLY <1>0, <2>5, <2>6, x \in Nat, y \in Nat
    <3> QED BY ONLY <1>0, <1>3, <2>4, <3>1, <3>2
  <2>8. s + 1 \in 0 .. UmPages - 1
    BY ONLY <1>0, <2>2, <2>5
  <2>9. st.start \div UmPage = s
    <3>1. s * UmPage <= x /\ x < s * UmPage + UmPage
      BY ONLY <1>0, <2>3, x \in Nat
    <3>2. \A q \in Nat, b \in Nat : q * UmPage <= b /\ b < q * UmPage + UmPage => b \div UmPage = q
      BY ONLY <1>0, PageArithmetic
    <3>3. x \div UmPage = s
      BY ONLY <2>2, <3>1, <3>2, x \in Nat, Zenon
    <3> QED BY ONLY <2>4, <3>3
  <2>10. Allowed(s)
    BY <2>9
  <2>11. ASSUME NEW a \in st.va .. (x + UmPage) - 1 PROVE UserMay(a)
    <3>1. a \in Nat /\ a < x + UmPage /\ a >= st.va
      BY <1>0, <1>1
    <3>2. CASE a < x
      BY <1>1, <2>4, <3>1, <3>2
    <3>3. CASE ~(a < x)
      <4>1. s * UmPage <= a /\ a < s * UmPage + UmPage /\ st.start = s * UmPage
        BY ONLY <2>3, <2>4, <3>1, <3>3, x \in Nat
      <4> QED BY <1>1, <2>10, <3>1, <4>1, PageAllowed
    <3> QED BY <3>2, <3>3
  <2>12. LoopAt(s + 1, e)'
    <3>1. PICK t \in Nat : t = s + 1 /\ t * UmPage = x + UmPage
      BY <2>2, <2>5
    <3>2. LoopAt(t, e)'
      <4>1. /\ st'.start = t * UmPage /\ st'.end = e * UmPage
            /\ st'.va + st'.len <= e * UmPage /\ e * UmPage < st'.va + st'.len + UmPage
        BY ONLY <1>4, <2>3, <2>4, <2>7, <3>1
      <4>2. st'.va < t * UmPage + UmPage
        <5>1. st.va < (x + UmPage) + UmPage
          BY ONLY <1>0, <1>1, <2>4, x \in Nat
        <5> QED BY ONLY <1>4, <3>1, <5>1
      <4>3. \A a \in st'.va .. t * UmPage - 1 : UserMay(a)'
        BY ONLY <1>4, <1>5, <2>11, <3>1
      <4> QED BY <4>1, <4>2, <4>3 DEF LoopAt
    <3> QED BY <3>1, <3>2
  <2> QED BY <2>8, <2>12
<1>7. UserMemChecked'
  BY <1>4 DEF UserMemChecked, At
<1>8. st'.pc = "loop" /\ Short' => \E s, e \in 0 .. UmPages - 1 : LoopAt(s, e)'
  BY <1>4, <1>6 DEF Short
<1> QED BY <1>1, <1>4, <1>7, <1>8 DEF UserMemInv

(* The loop meets a page that may not be accessed: the first byte of the   *)
(* range on that page is the first that may not be.                        *)
LEMMA RefusedPage ==
    ASSUME UserMemInv, At("usermem", "loop"), st.start < st.end, ~Allowed(st.start \div UmPage),
           st' = [st EXCEPT !.pc = "done", !.ret = -E_FAULT, !.bad = FirstBad]
    PROVE  UserMemInv'
<1>0. UmPage \in Nat /\ UmPage > 0 /\ UmPages \in Nat /\ UmSize \in Nat
  BY UserMemSizes
<1>1. /\ st \in Call /\ st.pc = "loop" /\ st.va \in Nat /\ st.len \in Nat /\ st.start \in Nat
      /\ st.va \in Addr /\ st.start \in Addr /\ "U" \in st.perm
  BY <1>0 DEF UserMemInv, At, Call, Addr
<1>2. PICK f \in Addr : f = FirstBad
  BY <1>1 DEF FirstBad
<1>3. -E_FAULT \in Int /\ -E_FAULT # 0
  BY DEF E_FAULT
<1>4. /\ st' \in Call /\ st'.pc = "done" /\ st'.ret # 0 /\ st'.bad = f
      /\ st'.va = st.va /\ st'.len = st.len /\ st'.table = st.table /\ st'.perm = st.perm
  BY <1>1, <1>2, <1>3 DEF Call
<1>5. \A a : UserMay(a)' <=> UserMay(a)
  BY ONLY <1>4, Zenon DEF UserMay, ULIM
<1> DEFINE bad == {a \in st.va .. st.va + st.len - 1 : ~UserMay(a)}
<1>6. ASSUME Short, st.len > 0 PROVE f \in bad /\ f = Min(bad)
  <2>1. PICK s \in 0 .. UmPages - 1, e \in 0 .. UmPages - 1 : LoopAt(s, e)
    BY <1>1, <1>6 DEF UserMemInv
  <2>2. s \in Nat /\ e \in Nat
    BY <1>0
  <2>3. PICK x \in Nat, y \in Nat : x = s * UmPage /\ y = e * UmPage
    BY <1>0, <2>2, PageArithmetic
  <2>4. /\ st.start = x /\ st.end = y /\ st.va + st.len <= y /\ y < st.va + st.len + UmPage
        /\ st.va < x + UmPage /\ \A a \in st.va .. x - 1 : UserMay(a)
    BY ONLY <2>1, <2>3 DEF LoopAt
  <2>5. x + UmPage <= y
    <3>1. s * UmPage < e * UmPage
      BY <2>3, <2>4
    <3>2. \A i \in Nat, j \in Nat : i * UmPage < j * UmPage => i * UmPage + UmPage <= j * UmPage
      BY ONLY <1>0, PageArithmetic
    <3>3. s * UmPage + UmPage <= e * UmPage
      BY ONLY <2>2, <3>1, <3>2, Zenon
    <3> QED BY ONLY <2>3, <3>3
  <2>7. f = (IF x < st.va THEN st.va ELSE x)
    BY ONLY <1>2, <2>4 DEF FirstBad
  <2>8. f \in Nat /\ x <= f /\ f < x + UmPage /\ f \in st.va .. st.va + st.len - 1
    BY ONLY <1>0, <1>1, <1>6, <2>4, <2>5, <2>7, x \in Nat, y \in Nat
  <2>9. ~UserMay(f)
    <3>1. x \div UmPage = s
      <4>1. s * UmPage <= x /\ x < s * UmPage + UmPage
        BY ONLY <1>0, <2>3, x \in Nat
      <4>2. \A q \in Nat, b \in Nat : q * UmPage <= b /\ b < q * UmPage + UmPage => b \div UmPage = q
        BY ONLY <1>0, PageArithmetic
      <4> QED BY ONLY <2>2, <4>1, <4>2, x \in Nat, Zenon
    <3>2. ~Allowed(s)
      BY <2>4, <3>1
    <3>3. s * UmPage <= f /\ f < s * UmPage + UmPage /\ st.start = s * UmPage
      BY ONLY <2>3, <2>4, <2>8
    <3> QED BY <1>1, <2>8, <3>2, <3>3, PageAllowed
  <2>10. f \in bad
    BY <2>8, <2>9
  <2>11. ASSUME NEW a \in bad PROVE f <= a
    <3>1. a \in Nat /\ a >= st.va /\ ~UserMay(a)
      BY <1>1
    <3>2. ~(a < x)
      BY <1>1, <2>4, <3>1
    <3> QED BY ONLY <1>1, <2>7, <3>1, <3>2, x \in Nat
  <2>12. bad \in SUBSET Int
    BY <1>1
  <2> HIDE DEF bad
  <2> QED BY <2>10, <2>11, <2>12, MinIs
<1>7. bad' = bad
  BY ONLY <1>4, <1>5
<1>8. UserMemChecked'
  <2>1. st'.va + st'.len <= UmSize - UmPage => Short
    BY <1>4 DEF Short
  <2>2. st'.va + st'.len <= UmSize - UmPage =>
           (st'.len > 0 => bad' # {} /\ st'.bad = Min(bad'))
    <3> HIDE DEF bad
    <3>1. ASSUME st'.va + st'.len <= UmSize - UmPage, st'.len > 0
          PROVE  bad' # {} /\ st'.bad = Min(bad')
      <4>1. Short /\ st.len > 0
        BY ONLY <1>4, <2>1, <3>1
      <4>2. f \in bad /\ f = Min(bad)
        BY ONLY <1>6, <4>1
      <4> QED BY ONLY <1>4, <1>7, <4>2
    <3> QED BY <3>1
  <2> QED BY <1>4, <2>2 DEF UserMemChecked
<1> QED BY <1>4, <1>8 DEF UserMemInv

(* The loop ends behind the range: every byte may be accessed.             *)
LEMMA WholeRange ==
    ASSUME UserMemInv, user_mem_ok
    PROVE  UserMemInv'
<1>0. UmPage \in Nat /\ UmPage > 0 /\ UmPages \in Nat
  BY UserMemSizes
<1>1. /\ st \in Call /\ st.pc = "loop" /\ st.va \in Nat /\ st.len \in Nat
      /\ st.start >= st.end /\ st' = [st EXCEPT !.pc = "done", !.ret = 0]
  <2>1. /\ st \in Call /\ st.pc = "loop"
        /\ st.start >= st.end /\ st' = [st EXCEPT !.pc = "done", !.ret = 0]
    BY Zenon DEF UserMemInv, user_mem_ok, At
  <2>2. st.va \in Addr /\ st.len \in Addr
    BY ONLY <2>1 DEF Call
  <2>3. Addr \subseteq Nat
    BY UserMemSizes DEF Addr
  <2> QED BY ONLY <2>1, <2>2, <2>3, Zenon
<1>2. /\ st' \in Call /\ st'.pc = "done" /\ st'.ret = 0
      /\ st'.va = st.va /\ st'.len = st.len /\ st'.table = st.table /\ st'.perm = st.perm
  <2>1. PICK r \in Int : r = 0
    BY SMT
  <2>2. st \in Call /\ st' = [st EXCEPT !.pc = "done", !.ret = r]
    BY <1>1, <2>1
  <2>3. /\ st' \in Call /\ st'.pc = "done" /\ st'.ret = r
        /\ st'.va = st.va /\ st'.len = st.len /\ st'.table = st.table /\ st'.perm = st.perm
    BY ONLY <2>2, r \in Int DEF Call
  <2> QED BY ONLY <2>1, <2>3
<1>3. \A a : UserMay(a)' <=> UserMay(a)
  BY ONLY <1>2, Zenon DEF UserMay, ULIM
<1>4. ASSUME Short, NEW a \in st.va .. st.va + st.len - 1 PROVE UserMay(a)
  <2>1. PICK s \in 0 .. UmPages - 1, e \in 0 .. UmPages - 1 : LoopAt(s, e)
    BY <1>1, <1>4 DEF UserMemInv
  <2>2. PICK x \in Nat, y \in Nat : x = s * UmPage /\ y = e * UmPage
    <3>1. s \in Nat /\ e \in Nat
      BY <1>0
    <3> QED BY <1>0, <3>1, PageArithmetic
  <2>3. /\ st.start = x /\ st.end = y /\ st.va + st.len <= y
        /\ \A b \in st.va .. x - 1 : UserMay(b)
    BY ONLY <2>1, <2>2 DEF LoopAt
  <2>4. a \in st.va .. x - 1
    BY ONLY <1>1, <2>3, a \in st.va .. st.va + st.len - 1, x \in Nat, y \in Nat
  <2> QED BY <2>3, <2>4
<1>5. UserMemChecked'
  <2>1. st'.va + st'.len <= UmSize - UmPage =>
          {a \in st'.va .. st'.va + st'.len - 1 : ~UserMay(a)'} = {}
    BY <1>2, <1>3, <1>4 DEF Short
  <2> QED BY <1>2, <2>1 DEF UserMemChecked
<1> QED BY <1>2, <1>5 DEF UserMemInv

(* user_mem_check accepts a range of at least a byte exactly if every byte *)
(* of it may be accessed, and otherwise reports the first that may not be, *)
(* for every page size, size of the address space and page table, if the   *)
(* range ends below the last page.                                         *)
THEOREM UserMemCorrect == UserMemSpec => []UserMemChecked
<1>1. UserMemInit => UserMemInv
  <2> SUFFICES ASSUME UserMemInit PROVE UserMemInv
    OBVIOUS
  <2>1. PICK va \in Addr, len \in Addr, perm \in {{}, {"W"}}, table \in [0 .. UmPages - 1 -> Entry] :
           st = [fn |-> "usermem", pc |-> "call", va |-> va, len |-> len, perm |-> perm,
                 table |-> table, start |-> 0, end |-> 0, ret |-> 0, bad |-> 0]
    BY DEF UserMemInit, Addr
  <2>2. 0 \in Addr /\ perm \in SUBSET {"U", "W"}
    BY UserMemSizes DEF Addr
  <2>3. st \in Call /\ st.pc = "call"
    BY <2>1, <2>2 DEF Call
  <2> QED BY <2>3 DEF UserMemInv, UserMemChecked, At
<1>2. UserMemInv /\ [UserMemNext]_st => UserMemInv'
  <2> SUFFICES ASSUME UserMemInv, [UserMemNext]_st PROVE UserMemInv'
    OBVIOUS
  <2>1. CASE user_mem_check
    BY <2>1, PassedPage, RefusedPage DEF user_mem_check
  <2>2. CASE UNCHANGED st
    BY <2>2 DEF UserMemInv, UserMemChecked, Short, LoopAt, UserMay, At
  <2> QED BY <2>1, <2>2, RoundedRange, WholeRange DEF UserMemNext
<1>3. UserMemInv => UserMemChecked
  BY DEF UserMemInv
<1> QED BY <1>1, <1>2, <1>3, PTL DEF UserMemSpec

-----------------------------------------------------------------------------
(* Trap frames.                                                            *)

(* Pushing s on a stack t puts s in front of it.                           *)
OnTop(z, s, t) ==
    /\ Len(z) = Len(s) + Len(t)
    /\ \A k \in 1 .. Len(s) : z[k] = s[k]
    /\ \A k \in 1 .. Len(t) : z[Len(s) + k] = t[k]

LEMMA PushedOn ==
    ASSUME NEW S, NEW s \in Seq(S), NEW t \in Seq(S)
    PROVE  s \o t \in Seq(S) /\ OnTop(s \o t, s, t)
<1>1. PICK z \in Seq(S) : z = s \o t
  BY ConcatProperties
<1>2. PICK n \in Nat, m \in Nat : n = Len(s) /\ m = Len(t)
  BY LenProperties
<1>3. /\ Len(z) = n + m
      /\ \A i \in 1 .. n + m : z[i] = IF i <= n THEN s[i] ELSE t[i - n]
  BY <1>1, <1>2, ConcatProperties
<1>4. ASSUME NEW k \in 1 .. n PROVE z[k] = s[k]
  BY <1>3
<1>5. ASSUME NEW k \in 1 .. m PROVE z[n + k] = t[k]
  <2>1. PICK i \in 1 .. n + m : i = n + k /\ ~(i <= n) /\ i - n = k
    OBVIOUS
  <2>2. z[i] = t[i - n]
    BY ONLY <1>3, <2>1
  <2> QED BY ONLY <2>1, <2>2
<1> QED BY ONLY <1>1, <1>2, <1>3, <1>4, <1>5 DEF OnTop

(* The entry points make the frames alike: with or without an error code   *)
(* of the processor, the trap number and an error code come first.         *)
Numbered(u, v, e, t) ==
    /\ Len(u) = 2 + Len(t) /\ u[1] = v /\ u[2] = e
    /\ \A k \in 1 .. Len(t) : u[2 + k] = t[k]

LEMMA NumberAndCode ==
    ASSUME NEW S, NEW v \in S, NEW e \in S, NEW t \in Seq(S)
    PROVE  \A u : u = <<v>> \o (<<e>> \o t) \/ u = <<v, e>> \o (<< >> \o t) =>
              u \in Seq(S) /\ Numbered(u, v, e, t)
<1>1. PICK m \in Nat : m = Len(t)
  BY LenProperties
<1>2. ASSUME NEW u, u = <<v>> \o (<<e>> \o t)
      PROVE  /\ u \in Seq(S) /\ Len(u) = 2 + m /\ u[1] = v /\ u[2] = e
             /\ \A k \in 1 .. m : u[2 + k] = t[k]
  <2>1. PICK a \in Seq(S), b \in Seq(S) : a = <<v>> /\ b = <<e>>
    <3>1. <<v>> \in Seq(S) /\ <<e>> \in Seq(S)
      OBVIOUS
    <3> QED BY <3>1, Zenon
  <2>2. Len(a) = 1 /\ Len(b) = 1 /\ a[1] = v /\ b[1] = e
    BY <2>1
  <2>3. PICK w \in Seq(S) : /\ w = b \o t /\ Len(w) = 1 + m /\ w[1] = e
                            /\ \A k \in 1 .. m : w[1 + k] = t[k]
    <3>1. /\ b \o t \in Seq(S) /\ Len(b \o t) = 1 + m
          /\ \A k \in 1 .. 1 : (b \o t)[k] = b[k]
          /\ \A k \in 1 .. m : (b \o t)[1 + k] = t[k]
      <4>1. b \o t \in Seq(S) /\ OnTop(b \o t, b, t)
        BY ONLY t \in Seq(S), b \in Seq(S), PushedOn, Zenon
      <4> QED BY ONLY <1>1, <2>2, <4>1 DEF OnTop
    <3>2. 1 \in 1 .. 1
      OBVIOUS
    <3>3. (b \o t)[1] = e
      BY ONLY <2>2, <3>1, <3>2
    <3> QED BY ONLY <3>1, <3>3, Zenon
  <2>4. PICK n \in Nat : n = 1 + m
    OBVIOUS
  <2>5. /\ u \in Seq(S) /\ Len(u) = 1 + n /\ u[1] = v
        /\ \A k \in 1 .. n : u[1 + k] = w[k]
    <3>1. u = a \o w /\ Len(w) = n
      BY ONLY <1>2, <2>1, <2>3, <2>4
    <3>2. /\ u \in Seq(S) /\ Len(u) = 1 + n
          /\ \A k \in 1 .. 1 : u[k] = a[k]
          /\ \A k \in 1 .. n : u[1 + k] = w[k]
      <4>1. a \o w \in Seq(S) /\ OnTop(a \o w, a, w)
        BY ONLY a \in Seq(S), w \in Seq(S), PushedOn, Zenon
      <4> QED BY ONLY <2>2, <3>1, <4>1 DEF OnTop
    <3>3. 1 \in 1 .. 1
      OBVIOUS
    <3> QED BY ONLY <2>2, <3>2, <3>3
  <2>6. ASSUME NEW k \in 1 .. m PROVE u[2 + k] = t[k]
    <3>1. PICK j \in 1 .. n : j = 1 + k /\ 1 + j = 2 + k
      BY <2>4
    <3> QED BY ONLY <2>3, <2>5, <3>1, k \in 1 .. m, j \in 1 .. n
  <2>7. u[2] = e
    <3>1. PICK j \in 1 .. n : j = 1
      BY <2>4
    <3>2. 1 + j = 2
      BY <3>1
    <3> QED BY ONLY <2>3, <2>5, <3>1, <3>2
  <2>8. 1 + n = 2 + m
    BY <2>4
  <2> QED BY ONLY <2>5, <2>6, <2>7, <2>8
<1>3. ASSUME NEW u, u = <<v, e>> \o (<< >> \o t)
      PROVE  /\ u \in Seq(S) /\ Len(u) = 2 + m /\ u[1] = v /\ u[2] = e
             /\ \A k \in 1 .. m : u[2 + k] = t[k]
  <2>1. << >> \o t = t
    BY ConcatEmptySeq
  <2>2. PICK a \in Seq(S) : a = <<v, e>>
    <3>1. <<v, e>> \in Seq(S)
      OBVIOUS
    <3> QED BY <3>1, Zenon
  <2>3. Len(a) = 2 /\ a[1] = v /\ a[2] = e
    BY <2>2
  <2>4. u = a \o t
    BY ONLY <1>3, <2>1, <2>2
  <2>5. /\ u \in Seq(S) /\ Len(u) = 2 + Len(t)
        /\ \A k \in 1 .. 2 : u[k] = a[k]
        /\ \A k \in 1 .. Len(t) : u[2 + k] = t[k]
    <3>1. a \o t \in Seq(S) /\ OnTop(a \o t, a, t)
      BY ONLY a \in Seq(S), t \in Seq(S), PushedOn, Zenon
    <3> QED BY ONLY <2>3, <2>4, <3>1 DEF OnTop
  <2>6. u[1] = a[1] /\ u[2] = a[2]
    BY <2>5
  <2> QED BY ONLY <1>1, <2>3, <2>5, <2>6
<1> QED BY ONLY <1>1, <1>2, <1>3 DEF Numbered

(* A stack t behind the fields of struct Trapframe                         *)
Framed(z, a, b, c, v, e, i, s, f, t) ==
    /\ Len(z) = 8 + Len(t)
    /\ z[1] = a /\ z[2] = b /\ z[3] = c /\ z[4] = v /\ z[5] = e
    /\ z[6] = i /\ z[7] = s /\ z[8] = f
    /\ \A k \in 1 .. Len(t) : z[8 + k] = t[k]

(* What processor and entry points have pushed is a struct Trapframe: z is *)
(* <<a, b, c>> on the trap number and error code u, on <<i, s, f>>, on t.  *)
LEMMA FrameLayout ==
    ASSUME NEW S, NEW a \in S, NEW b \in S, NEW c \in S, NEW v \in S, NEW e \in S,
           NEW i \in S, NEW s \in S, NEW f \in S, NEW t \in Seq(S),
           NEW u, \/ u = <<v>> \o (<<e>> \o (<<i, s, f>> \o t))
                  \/ u = <<v, e>> \o (<< >> \o (<<i, s, f>> \o t)),
           NEW z, z = <<a, b, c>> \o u
    PROVE  Framed(z, a, b, c, v, e, i, s, f, t)
<1>1. PICK m \in Nat : m = Len(t)
  BY LenProperties
<1>2. PICK x \in Seq(S), y \in Seq(S) : x = <<a, b, c>> /\ y = <<i, s, f>>
  <2>1. <<a, b, c>> \in Seq(S) /\ <<i, s, f>> \in Seq(S)
    OBVIOUS
  <2> QED BY <2>1, Zenon
<1>3. /\ Len(x) = 3 /\ x[1] = a /\ x[2] = b /\ x[3] = c
      /\ Len(y) = 3 /\ y[1] = i /\ y[2] = s /\ y[3] = f
  BY <1>2
<1>4. PICK w \in Seq(S) : /\ w = y \o t /\ Len(w) = 3 + m
                          /\ \A k \in 1 .. 3 : w[k] = y[k]
                          /\ \A k \in 1 .. m : w[3 + k] = t[k]
  <2>1. /\ y \o t \in Seq(S) /\ Len(y \o t) = 3 + m
        /\ \A k \in 1 .. 3 : (y \o t)[k] = y[k]
        /\ \A k \in 1 .. m : (y \o t)[3 + k] = t[k]
    <3>1. y \o t \in Seq(S) /\ OnTop(y \o t, y, t)
      BY ONLY y \in Seq(S), t \in Seq(S), PushedOn, Zenon
    <3> QED BY ONLY <1>1, <1>3, <3>1 DEF OnTop
  <2> QED BY ONLY <2>1
<1>5. PICK n \in Nat : n = 3 + m
  OBVIOUS
<1>6. /\ u \in Seq(S) /\ Len(u) = 2 + n /\ u[1] = v /\ u[2] = e
      /\ \A k \in 1 .. n : u[2 + k] = w[k]
  <2>1. u = <<v>> \o (<<e>> \o w) \/ u = <<v, e>> \o (<< >> \o w)
    BY ONLY <1>2, <1>4, \/ u = <<v>> \o (<<e>> \o (<<i, s, f>> \o t))
                        \/ u = <<v, e>> \o (<< >> \o (<<i, s, f>> \o t))
  <2>2. Len(w) = n
    BY <1>4, <1>5
  <2>3. u \in Seq(S) /\ Numbered(u, v, e, w)
    BY ONLY <2>1, v \in S, e \in S, w \in Seq(S), NumberAndCode, Zenon
  <2> QED BY ONLY <2>2, <2>3 DEF Numbered
<1>7. PICK p \in Nat : p = 2 + n
  OBVIOUS
<1>8. /\ z \in Seq(S) /\ Len(z) = 3 + p
      /\ \A k \in 1 .. 3 : z[k] = x[k]
      /\ \A k \in 1 .. p : z[3 + k] = u[k]
  <2>1. z = x \o u /\ Len(u) = p
    BY ONLY <1>2, <1>6, <1>7, z = <<a, b, c>> \o u
  <2>2. x \o u \in Seq(S) /\ OnTop(x \o u, x, u)
    BY ONLY <1>6, x \in Seq(S), PushedOn, Zenon
  <2> QED BY ONLY <1>3, <2>1, <2>2 DEF OnTop
<1>9. z[1] = x[1] /\ z[2] = x[2] /\ z[3] = x[3]
  BY <1>8
<1>10. z[4] = u[1] /\ z[5] = u[2]
  <2>1. z[3 + 1] = u[1] /\ z[3 + 2] = u[2]
    BY <1>5, <1>7, <1>8
  <2> QED BY <2>1
<1>11. ASSUME NEW k \in 1 .. n PROVE z[5 + k] = w[k]
  <2>1. PICK j \in 1 .. p : j = 2 + k /\ 3 + j = 5 + k
    BY <1>7
  <2> QED BY ONLY <1>6, <1>8, <2>1, k \in 1 .. n, j \in 1 .. p
<1>12. z[6] = w[1] /\ z[7] = w[2] /\ z[8] = w[3]
  <2>1. z[5 + 1] = w[1] /\ z[5 + 2] = w[2] /\ z[5 + 3] = w[3]
    BY <1>5, <1>11
  <2> QED BY <2>1
<1>13. ASSUME NEW k \in 1 .. m PROVE z[8 + k] = t[k]
  <2>1. PICK j \in 1 .. n : j = 3 + k /\ 5 + j = 8 + k
    BY <1>5
  <2> QED BY ONLY <1>4, <1>11, <2>1, k \in 1 .. m, j \in 1 .. n
<1>14. w[1] = y[1] /\ w[2] = y[2] /\ w[3] = y[3]
  <2>1. 1 \in 1 .. 3 /\ 2 \in 1 .. 3 /\ 3 \in 1 .. 3
    OBVIOUS
  <2> QED BY ONLY <1>4, <2>1
<1>15. 3 + p = 8 + m
  BY <1>5, <1>7
<1> QED BY ONLY <1>1, <1>3, <1>6, <1>8, <1>9, <1>10, <1>12, <1>13, <1>14, <1>15 DEF Framed

(* From the interrupt to the return: which interrupts there are, ...       *)
TrapFields == {"fn", "pc", "asked", "kind", "user", "cpu", "err", "vector", "stack", "tf",
               "want", "back", "gone"}
TrapShape ==
    /\ st = [x \in DOMAIN st |-> st[x]] /\ TrapFields \subseteq DOMAIN st
    /\ st.pc \in {"run", "entry", "trap", "dispatch", "return", "done"}
    /\ st.user \in BOOLEAN /\ st.cpu \in Context(st.user) /\ st.err \in TrapWord
    /\ st.asked \in 0 .. 255 /\ st.vector \in 0 .. 255

(* ... what the processor has pushed when an entry point starts, ...       *)
Coded == IF st.vector \in HasErrorCode THEN <<st.err>> ELSE << >>
AtEntry == st.pc = "entry" => st.stack = Coded \o Pushed

(* ... and the frame of a program, which trap_dispatch changes and from    *)
(* which env_pop_tf returns.                                               *)
IsFrame(z, c) ==
    /\ z[1] = c.regs /\ z[2] = c.es /\ z[3] = c.ds
    /\ z[6] = c.eip /\ z[7] = c.cs /\ z[8] = c.eflags
    /\ z[9] = c.esp /\ z[10] = c.ss
AtTrap == st.pc = "trap" => DOMAIN st.stack = 1 .. Len(st.stack)
AtDispatch == st.pc = "dispatch" => st.user /\ IsFrame(st.tf, st.cpu) /\ DOMAIN st.tf = 1 .. 10
AtReturn == st.pc = "return" => st.user /\ st.want \in Context(TRUE) /\ IsFrame(st.tf, st.want)

TrapInv == TrapShape /\ AtEntry /\ FrameUniform /\ AtTrap /\ AtDispatch /\ AtReturn /\ Resumed

(* The processor raises a vector with the error code that belongs to it.   *)
LEMMA InterruptStep == TrapInv /\ interrupt => TrapInv'
<1> SUFFICES ASSUME TrapInv, interrupt PROVE TrapInv'
  OBVIOUS
<1>1. TrapShape /\ st.pc = "run"
  BY DEF TrapInv, interrupt, At
<1>2. PICK v, z : v = VectorRaised /\ z = ErrorCode \o Pushed
  OBVIOUS
<1>3. st' = [st EXCEPT !.pc = "entry", !.vector = v, !.stack = z]
  BY <1>2 DEF interrupt
<1>4. v \in 0 .. 255
  BY <1>1, <1>2 DEF TrapShape, VectorRaised, T_GPFLT
<1>5. /\ st' = [x \in DOMAIN st' |-> st'[x]] /\ DOMAIN st' = DOMAIN st
      /\ st'.pc = "entry" /\ st'.vector = v /\ st'.stack = z
      /\ st'.asked = st.asked /\ st'.user = st.user /\ st'.cpu = st.cpu /\ st'.err = st.err
  BY ONLY <1>1, <1>3 DEF TrapShape, TrapFields
<1>6. TrapShape'
  BY ONLY <1>1, <1>4, <1>5 DEF TrapShape
<1>7. v \in HasErrorCode => ~Software
  BY <1>2 DEF VectorRaised, Software, Refused, Dpl, HasErrorCode, T_BRKPT, T_SYSCALL
<1>8. ErrorCode = IF v \in HasErrorCode THEN <<st.err>> ELSE << >>
  BY <1>2, <1>7 DEF ErrorCode
<1>9. st'.stack = Coded' \o Pushed'
  BY <1>2, <1>5, <1>8 DEF Coded, Pushed
<1> QED BY <1>5, <1>6, <1>9 DEF TrapInv, AtEntry, FrameUniform, AtTrap, AtDispatch, AtReturn, Resumed, At

(* The entry point and _alltraps complete the frame.                       *)
LEMMA AlltrapsStep == TrapInv /\ alltraps => TrapInv'
<1> SUFFICES ASSUME TrapInv, alltraps PROVE TrapInv'
  OBVIOUS
<1>1. TrapShape /\ st.pc = "entry" /\ st.stack = Coded \o Pushed
  BY DEF TrapInv, alltraps, At, AtEntry
<1> DEFINE S == TrapWord \cup Nat \cup [eax : TrapWord, others : TrapWord]
<1>2. PICK a \in S, b \in S, c \in S, i \in S, s \in S, f \in S, p \in S, q \in S :
         /\ a = st.cpu.regs /\ b = st.cpu.es /\ c = st.cpu.ds
         /\ i = st.cpu.eip /\ s = st.cpu.cs /\ f = st.cpu.eflags
         /\ p = st.cpu.esp /\ q = st.cpu.ss
  <2>1. st.cpu \in Context(st.user)
    BY <1>1 DEF TrapShape, TrapFields
  <2>2. 27 \in S /\ 8 \in S
    OBVIOUS
  <2> QED BY ONLY <2>1, <2>2 DEF Context
<1>3. PICK v \in S, e \in S :
         v = st.vector /\ e = IF v \in HasErrorCode THEN st.err ELSE 0
  <2>0. st.vector \in 0 .. 255 /\ st.err \in TrapWord
    BY <1>1 DEF TrapShape
  <2>1. st.vector \in S /\ st.err \in S /\ 0 \in S
    BY ONLY <2>0
  <2> QED BY <2>1
<1>4. PICK t \in Seq(S) : t = IF st.user THEN <<p, q>> ELSE << >>
  <2>1. <<p, q>> \in Seq(S) /\ << >> \in Seq(S)
    OBVIOUS
  <2> QED BY <2>1, Zenon
<1>5. PICK u : u = TrapNumber \o st.stack
  OBVIOUS
<1>6. \/ u = <<v>> \o (<<e>> \o (<<i, s, f>> \o t))
      \/ u = <<v, e>> \o (<< >> \o (<<i, s, f>> \o t))
  <2>1. Pushed = <<i, s, f>> \o t
    BY <1>2, <1>4 DEF Pushed
  <2>2. TRAPHANDLER = HasErrorCode
    BY DEF TRAPHANDLER, HasErrorCode
  <2>3. CASE v \in HasErrorCode
    <3>1. TrapNumber = <<v>> /\ Coded = <<e>>
      BY <1>3, <2>2, <2>3 DEF TrapNumber, Coded
    <3> QED BY ONLY <1>1, <1>5, <2>1, <3>1
  <2>4. CASE v \notin HasErrorCode
    <3>1. TrapNumber = <<v, e>> /\ Coded = << >>
      BY <1>3, <2>2, <2>4 DEF TrapNumber, Coded
    <3> QED BY ONLY <1>1, <1>5, <2>1, <3>1
  <2> QED BY <2>3, <2>4
<1>7. PICK z : z = <<a, b, c>> \o u
  OBVIOUS
<1> HIDE DEF S
<1>8. Framed(z, a, b, c, v, e, i, s, f, t)
  BY ONLY <1>6, <1>7, a \in S, b \in S, c \in S, v \in S, e \in S, i \in S, s \in S, f \in S,
          t \in Seq(S), FrameLayout, Zenon
<1>9. st' = [st EXCEPT !.pc = "trap", !.stack = z]
  BY <1>2, <1>5, <1>7 DEF alltraps
<1>10. /\ st' = [x \in DOMAIN st' |-> st'[x]] /\ DOMAIN st' = DOMAIN st
       /\ st'.asked = st.asked
       /\ st'.pc = "trap" /\ st'.stack = z /\ st'.vector = v
       /\ st'.user = st.user /\ st'.cpu = st.cpu /\ st'.err = st.err
  BY ONLY <1>1, <1>3, <1>9 DEF TrapShape, TrapFields
<1>11. TrapShape'
  BY ONLY <1>1, <1>3, <1>10 DEF TrapShape
<1>12. /\ Len(z) = IF st.user THEN 10 ELSE 8
       /\ st.user => z[9] = p /\ z[10] = q
  <2>1. CASE st.user
    <3>1. t = <<p, q>>
      BY <1>4, <2>1
    <3>2. Len(t) = 2 /\ t[1] = p /\ t[2] = q
      BY <3>1
    <3>3. Len(z) = 8 + 2 /\ z[8 + 1] = t[1] /\ z[8 + 2] = t[2]
      BY <1>8, <3>2 DEF Framed
    <3>4. 8 + 1 = 9 /\ 8 + 2 = 10
      OBVIOUS
    <3> QED BY ONLY <2>1, <3>2, <3>3, <3>4
  <2>2. CASE ~st.user
    <3>1. Len(t) = 0
      BY <1>4, <2>2
    <3> QED BY <1>8, <2>2, <3>1 DEF Framed
  <2> QED BY <2>1, <2>2
<1>13. FrameUniform'
  <2>1. /\ Len(st'.stack) = IF st'.user THEN 10 ELSE 8
        /\ st'.stack[4] = st'.vector
        /\ st'.stack[5] = IF st'.vector \in HasErrorCode THEN st'.err ELSE 0
    BY <1>3, <1>8, <1>10, <1>12 DEF Framed
  <2>2. /\ st'.stack[1] = st'.cpu.regs /\ st'.stack[2] = st'.cpu.es /\ st'.stack[3] = st'.cpu.ds
        /\ st'.stack[6] = st'.cpu.eip /\ st'.stack[7] = st'.cpu.cs /\ st'.stack[8] = st'.cpu.eflags
        /\ st'.user => st'.stack[9] = st'.cpu.esp /\ st'.stack[10] = st'.cpu.ss
    BY <1>2, <1>8, <1>10, <1>12 DEF Framed
  <2> QED BY ONLY <2>1, <2>2 DEF FrameUniform, tf
<1>14. AtTrap'
  <2>1. u \in Seq(S)
    <3>1. <<v>> \in Seq(S) /\ <<e>> \in Seq(S) /\ <<v, e>> \in Seq(S) /\ << >> \in Seq(S)
          /\ <<i, s, f>> \in Seq(S)
      OBVIOUS
    <3>2. \A x, y \in Seq(S) : x \o y \in Seq(S)
      OBVIOUS
    <3>3. <<i, s, f>> \o t \in Seq(S)
      BY ONLY <3>1, <3>2, t \in Seq(S), Zenon
    <3>4. <<e>> \o (<<i, s, f>> \o t) \in Seq(S) /\ << >> \o (<<i, s, f>> \o t) \in Seq(S)
      BY ONLY <3>1, <3>2, <3>3, Zenon
    <3>5. <<v>> \o (<<e>> \o (<<i, s, f>> \o t)) \in Seq(S)
      BY ONLY <3>1, <3>2, <3>4, Zenon
    <3>6. <<v, e>> \o (<< >> \o (<<i, s, f>> \o t)) \in Seq(S)
      BY ONLY <3>1, <3>2, <3>4, Zenon
    <3> QED BY ONLY <1>6, <3>5, <3>6, Zenon
  <2>2. <<a, b, c>> \in Seq(S)
    OBVIOUS
  <2>3. z \in Seq(S)
    BY ONLY <1>7, <2>1, <2>2
  <2>4. DOMAIN z = 1 .. Len(z)
    BY ONLY <2>3
  <2> QED BY ONLY <1>10, <2>4 DEF AtTrap
<1> QED BY <1>10, <1>11, <1>13, <1>14 DEF TrapInv, AtEntry, AtDispatch, AtReturn, Resumed, At

(* trap() keeps the frame of a program, which it tells by %cs.             *)
LEMMA TrapStep == TrapInv /\ (trap \/ trap_in_kernel) => TrapInv'
<1> SUFFICES ASSUME TrapInv, trap \/ trap_in_kernel PROVE TrapInv'
  OBVIOUS
<1>1. TrapShape /\ At("trap", "trap") /\ FrameUniform /\ DOMAIN st.stack = 1 .. Len(st.stack)
  BY DEF TrapInv, trap, trap_in_kernel, AtTrap, At
<1>2. st.user => IsFrame(st.stack, st.cpu) /\ DOMAIN st.stack = 1 .. 10
  BY <1>1 DEF FrameUniform, IsFrame, tf
<1>3. FromUser <=> st.user
  <2>1. st.user \in BOOLEAN /\ st.cpu.cs = IF st.user THEN 27 ELSE 8
    BY <1>1 DEF TrapShape, Context
  <2>2. 27 % 4 = 3 /\ 8 % 4 = 0
    OBVIOUS
  <2>3. tf(7) = st.cpu.cs
    BY <1>1 DEF FrameUniform, tf
  <2> QED BY <2>1, <2>2, <2>3 DEF FromUser
<1>4. CASE trap
  <2>1. st' = [st EXCEPT !.pc = "dispatch", !.tf = st.stack] /\ st.user
    BY <1>3, <1>4 DEF trap
  <2>3. /\ st' = [x \in DOMAIN st' |-> st'[x]] /\ DOMAIN st' = DOMAIN st
        /\ st'.asked = st.asked /\ st'.vector = st.vector /\ st'.err = st.err
        /\ st'.pc = "dispatch" /\ st'.tf = st.stack /\ st'.user = st.user /\ st'.cpu = st.cpu
    BY ONLY <1>1, <2>1 DEF TrapShape, TrapFields
  <2>2. TrapShape'
    BY ONLY <1>1, <2>3 DEF TrapShape
  <2>4. AtDispatch'
    BY <1>2, <2>1, <2>3 DEF AtDispatch, IsFrame
  <2> QED BY <2>2, <2>3, <2>4 DEF TrapInv, AtEntry, FrameUniform, AtTrap, AtReturn, Resumed, At
<1>5. CASE trap_in_kernel
  <2>1. st' = [st EXCEPT !.pc = "done"] /\ ~st.user
    BY <1>3, <1>5 DEF trap_in_kernel
  <2>3. /\ st' = [x \in DOMAIN st' |-> st'[x]] /\ DOMAIN st' = DOMAIN st
        /\ st'.asked = st.asked /\ st'.vector = st.vector /\ st'.err = st.err
        /\ st'.pc = "done" /\ st'.user = st.user /\ st'.cpu = st.cpu
    BY ONLY <1>1, <2>1 DEF TrapShape, TrapFields
  <2>2. TrapShape'
    BY ONLY <1>1, <2>3 DEF TrapShape
  <2> QED BY <2>1, <2>2, <2>3
       DEF TrapInv, AtEntry, FrameUniform, AtTrap, AtDispatch, AtReturn, Resumed, At
<1> QED BY <1>4, <1>5

(* trap_dispatch changes, in the frame, the fields that the program is to  *)
(* see changed, and no other.                                              *)
LEMMA FrameWritten ==
    ASSUME TrapInv, At("trap", "dispatch"), NEW t, NEW c \in Context(TRUE), IsFrame(t, c),
           Dispatched(t, c)
    PROVE  TrapInv'
<1>1. TrapShape /\ st.user
  BY DEF TrapInv, AtDispatch, At
<1>2. st' = [st EXCEPT !.pc = "return", !.tf = t, !.want = c]
  BY DEF Dispatched
<1>3. /\ st' = [x \in DOMAIN st' |-> st'[x]] /\ DOMAIN st' = DOMAIN st
      /\ st'.asked = st.asked /\ st'.vector = st.vector /\ st'.err = st.err
      /\ st'.pc = "return" /\ st'.user = st.user /\ st'.cpu = st.cpu
      /\ st'.tf = t /\ st'.want = c
  BY ONLY <1>1, <1>2 DEF TrapShape, TrapFields
<1>4. TrapShape'
  BY ONLY <1>1, <1>3 DEF TrapShape
<1>5. AtReturn'
  BY ONLY <1>1, <1>3, IsFrame(t, c), c \in Context(TRUE) DEF AtReturn, IsFrame
<1> QED BY ONLY <1>3, <1>4, <1>5 DEF TrapInv, AtEntry, FrameUniform, AtTrap, AtDispatch, Resumed, At

LEMMA DispatchStep ==
    TrapInv /\ (trap_dispatch \/ syscall_result \/ page_fault_upcall) => TrapInv'
<1> SUFFICES ASSUME TrapInv, trap_dispatch \/ syscall_result \/ page_fault_upcall PROVE TrapInv'
  OBVIOUS
<1>1. At("trap", "dispatch")
  BY DEF trap_dispatch, syscall_result, page_fault_upcall
<1>2. TrapShape /\ st.user /\ IsFrame(st.tf, st.cpu) /\ DOMAIN st.tf = 1 .. 10
  BY <1>1 DEF TrapInv, AtDispatch, At
<1>3. PICK c \in Context(TRUE) : c = st.cpu
  BY <1>2 DEF TrapShape
<1>7. PICK z : z = st.tf /\ IsFrame(z, c) /\ DOMAIN z = 1 .. 10
  BY <1>2, <1>3
<1>4. CASE trap_dispatch
  BY <1>1, <1>3, <1>4, <1>7, FrameWritten DEF trap_dispatch
<1>5. CASE syscall_result
  <2>1. PICK r \in TrapWord : Dispatched([z EXCEPT ![1].eax = r], [c EXCEPT !.regs.eax = r])
    BY <1>3, <1>5, <1>7 DEF syscall_result
  <2>2. PICK t, d : t = [z EXCEPT ![1].eax = r] /\ d = [c EXCEPT !.regs.eax = r]
    OBVIOUS
  <2>3. /\ d \in Context(TRUE) /\ d.regs = [c.regs EXCEPT !.eax = r]
        /\ d.es = c.es /\ d.ds = c.ds /\ d.eip = c.eip /\ d.cs = c.cs
        /\ d.eflags = c.eflags /\ d.esp = c.esp /\ d.ss = c.ss
    BY ONLY <2>2, c \in Context(TRUE), r \in TrapWord DEF Context
  <2>4. t[1] = [z[1] EXCEPT !.eax = r] /\ \A i \in 2 .. 10 : t[i] = z[i]
    BY ONLY <1>7, <2>2
  <2>5. IsFrame(t, d)
    <3>1. /\ t[2] = z[2] /\ t[3] = z[3] /\ t[6] = z[6] /\ t[7] = z[7] /\ t[8] = z[8]
          /\ t[9] = z[9] /\ t[10] = z[10]
      BY ONLY <2>4
    <3> QED BY ONLY <1>7, <2>3, <2>4, <3>1 DEF IsFrame
  <2> QED BY ONLY TrapInv, <1>1, <2>1, <2>2, <2>3, <2>5, FrameWritten
<1>6. CASE page_fault_upcall
  <2>1. PICK eip \in TrapWord, esp \in TrapWord :
           Dispatched([z EXCEPT ![6] = eip, ![9] = esp], [c EXCEPT !.eip = eip, !.esp = esp])
    BY <1>3, <1>6, <1>7 DEF page_fault_upcall
  <2>2. PICK t, d : /\ t = [z EXCEPT ![6] = eip, ![9] = esp]
                    /\ d = [c EXCEPT !.eip = eip, !.esp = esp]
    OBVIOUS
  <2>3. /\ d \in Context(TRUE) /\ d.regs = c.regs
        /\ d.es = c.es /\ d.ds = c.ds /\ d.eip = eip /\ d.cs = c.cs
        /\ d.eflags = c.eflags /\ d.esp = esp /\ d.ss = c.ss
    BY ONLY <2>2, c \in Context(TRUE), eip \in TrapWord, esp \in TrapWord DEF Context
  <2>4. /\ t[1] = z[1] /\ t[2] = z[2] /\ t[3] = z[3] /\ t[6] = eip /\ t[7] = z[7]
        /\ t[8] = z[8] /\ t[9] = esp /\ t[10] = z[10]
    BY ONLY <1>7, <2>2
  <2>5. IsFrame(t, d)
    BY ONLY <1>7, <2>3, <2>4 DEF IsFrame
  <2> QED BY ONLY TrapInv, <1>1, <2>1, <2>2, <2>3, <2>5, FrameWritten
<1> QED BY <1>4, <1>5, <1>6

LEMMA DestroyStep == TrapInv /\ trap_destroys => TrapInv'
<1> SUFFICES ASSUME TrapInv, trap_destroys PROVE TrapInv'
  OBVIOUS
<1>1. TrapShape /\ st' = [st EXCEPT !.pc = "done", !.gone = TRUE]
  BY DEF TrapInv, trap_destroys
<1>2. /\ st' = [x \in DOMAIN st' |-> st'[x]] /\ DOMAIN st' = DOMAIN st
      /\ st'.asked = st.asked /\ st'.vector = st.vector /\ st'.err = st.err
      /\ st'.pc = "done" /\ st'.user = st.user /\ st'.cpu = st.cpu /\ st'.gone
  BY ONLY <1>1 DEF TrapShape, TrapFields
<1>3. TrapShape'
  BY ONLY <1>1, <1>2 DEF TrapShape
<1> QED BY ONLY <1>2, <1>3
     DEF TrapInv, AtEntry, FrameUniform, AtTrap, AtDispatch, AtReturn, Resumed, At

(* env_pop_tf loads every register from its field.                         *)
LEMMA PopStep == TrapInv /\ env_pop_tf => TrapInv'
<1> SUFFICES ASSUME TrapInv, env_pop_tf PROVE TrapInv'
  OBVIOUS
<1>1. TrapShape /\ st.user /\ IsFrame(st.tf, st.want) /\ st.want \in Context(TRUE)
  BY DEF TrapInv, env_pop_tf, At, AtReturn
<1>2. PICK r : r = Popped(st.tf, 3 + Skipped)
  OBVIOUS
<1>3. st' = [st EXCEPT !.pc = "done", !.back = r]
  BY <1>2 DEF env_pop_tf
<1>4. r = st.want
  <2>1. /\ 3 + Skipped + 1 = 6 /\ 3 + Skipped + 2 = 7 /\ 3 + Skipped + 3 = 8
        /\ 3 + Skipped + 4 = 9 /\ 3 + Skipped + 5 = 10
    BY DEF Skipped
  <2>2. PICK z : z = st.tf
    OBVIOUS
  <2>3. r = [regs |-> z[1], es |-> z[2], ds |-> z[3], eip |-> z[6], cs |-> z[7],
             eflags |-> z[8], esp |-> z[9], ss |-> z[10]]
    BY ONLY <1>2, <2>1, <2>2 DEF Popped
  <2>4. PICK c \in Context(TRUE) : c = st.want
    BY <1>1
  <2>5. c = [regs |-> c.regs, es |-> c.es, ds |-> c.ds, eip |-> c.eip, cs |-> c.cs,
             eflags |-> c.eflags, esp |-> c.esp, ss |-> c.ss]
    BY ONLY c \in Context(TRUE) DEF Context
  <2>6. /\ z[1] = c.regs /\ z[2] = c.es /\ z[3] = c.ds /\ z[6] = c.eip /\ z[7] = c.cs
        /\ z[8] = c.eflags /\ z[9] = c.esp /\ z[10] = c.ss
    BY ONLY <1>1, <2>2, <2>4 DEF IsFrame
  <2> QED BY ONLY <2>3, <2>4, <2>5, <2>6
<1>6. /\ st' = [x \in DOMAIN st' |-> st'[x]] /\ DOMAIN st' = DOMAIN st
      /\ st'.asked = st.asked /\ st'.vector = st.vector /\ st'.err = st.err
      /\ st'.pc = "done" /\ st'.user = st.user /\ st'.back = r /\ st'.cpu = st.cpu
      /\ st'.want = st.want
  BY ONLY <1>1, <1>3 DEF TrapShape, TrapFields
<1>5. TrapShape'
  BY ONLY <1>1, <1>6 DEF TrapShape
<1> QED BY <1>4, <1>5, <1>6
     DEF TrapInv, AtEntry, FrameUniform, AtTrap, AtDispatch, AtReturn, Resumed, At

(* trapentry.S, trap and env_pop_tf: whatever the registers hold, for      *)
(* every exception, interrupt and int of a program, trap() finds each      *)
(* register, the trap number and the error code in its field of struct     *)
(* Trapframe, and the program continues with the registers it had, but for *)
(* the result of a system call and the start of a page fault upcall.       *)
THEOREM FramesCorrect == TrapEntrySpec => []FramesExact
<1>1. TrapEntryInit => TrapInv
  <2> SUFFICES ASSUME TrapEntryInit PROVE TrapInv
    OBVIOUS
  <2> DEFINE V == 0 .. 255
  <2>1. PICK v \in V, kind \in {"exception", "irq", "int"}, user \in BOOLEAN :
           Start(v, kind, user)
    <3>1. Exception \subseteq V /\ Irq \subseteq V /\ Vector \subseteq V
      BY TrapEntryAssumption DEF Exception, Irq, IRQ_OFFSET
    <3> HIDE DEF V
    <3> QED BY <3>1, Zenon DEF TrapEntryInit
  <2>2. PICK c \in Context(user), err \in TrapWord :
           st = [fn |-> "trap", pc |-> "run", asked |-> v, kind |-> kind, user |-> user,
                 cpu |-> c, err |-> err, vector |-> 0, stack |-> << >>, tf |-> << >>,
                 want |-> << >>, back |-> << >>, gone |-> FALSE]
    BY <2>1 DEF Start
  <2>3. 0 \in 0 .. 255
    OBVIOUS
  <2>4. TrapShape /\ st.pc = "run"
    BY ONLY <2>2, <2>3, v \in 0 .. 255, user \in BOOLEAN, c \in Context(user), err \in TrapWord
       DEF TrapShape, TrapFields
  <2> QED BY <2>4 DEF TrapInv, AtEntry, FrameUniform, AtTrap, AtDispatch, AtReturn, Resumed, At
<1>2. TrapInv /\ [TrapEntryNext]_st => TrapInv'
  <2> SUFFICES ASSUME TrapInv, [TrapEntryNext]_st PROVE TrapInv'
    OBVIOUS
  <2>1. CASE UNCHANGED st
    BY <2>1 DEF TrapInv, TrapShape, AtEntry, Coded, Pushed, FrameUniform, tf, AtTrap,
                AtDispatch, AtReturn, IsFrame, Resumed, At
  <2> QED BY <2>1, InterruptStep, AlltrapsStep, TrapStep, DispatchStep, DestroyStep, PopStep
       DEF TrapEntryNext
<1>3. TrapInv => FramesExact
  BY DEF TrapInv, FramesExact
<1> QED BY <1>1, <1>2, <1>3, PTL DEF TrapEntrySpec

-----------------------------------------------------------------------------
(* The binary search of stab_binsearch.  M are the indices of the stabs of *)
(* the type in the region [F, T], and v their addresses.                   *)

(* A nonempty set of integers with an upper bound has a greatest element.  *)
LEMMA MaxIs ==
    ASSUME NEW S \in SUBSET Int, NEW f \in S, NEW b \in Int, \A y \in S : y <= b
    PROVE  /\ Max(S) \in S /\ Max(S) \in Int /\ \A y \in S : y <= Max(S)
           /\ (\A y \in S : y <= f) => Max(S) = f
<1> DEFINE D == {b - y : y \in S}
<1>1. D \subseteq Nat /\ D # {}
  OBVIOUS
<1>2. \A y \in S : b - y \in D
  OBVIOUS
<1>3. \A d \in D : \E y \in S : d = b - y
  OBVIOUS
<1> HIDE DEF D
<1>4. PICK d \in D : \A e \in D : ~(<<e, d>> \in OpToRel(<, Nat))
  BY <1>1, NatLessThanWellFounded, WFMin
<1>5. PICK x \in S : d = b - x
  BY <1>3
<1>6. ASSUME NEW y \in S
      PROVE  x >= y
  <2>1. PICK e \in D : e = b - y
    BY <1>2
  <2>2. d \in Nat /\ e \in Nat /\ ~(<<e, d>> \in OpToRel(<, Nat))
    BY <1>1, <1>4
  <2>3. e < d => <<e, d>> \in OpToRel(<, Nat)
    BY <2>2 DEF OpToRel
  <2>4. d \in Nat /\ e \in Nat /\ ~(e < d)
    BY <2>2, <2>3, Zenon
  <2>5. x \in Int /\ y \in Int
    OBVIOUS
  <2> QED BY ONLY <1>5, <2>1, <2>4, <2>5, b \in Int
<1>7. Max(S) \in S /\ \A y \in S : Max(S) >= y
  BY <1>6, Zenon DEF Max
<1>8. PICK m \in S : m = Max(S) /\ \A y \in S : m >= y
  BY ONLY <1>7, Zenon
<1>9. m \in Int /\ (\A y \in S : y <= m) /\ ((\A y \in S : y <= f) => m = f)
  BY ONLY <1>8, m \in S, f \in S, S \in SUBSET Int
<1> QED BY ONLY <1>8, <1>9

(* Stabs of the type are sorted by address, and no two are one apart.      *)
StabTable(M, v, F, T) ==
    /\ F \in Int /\ T \in Int /\ M \subseteq F .. T /\ v \in [M -> Nat]
    /\ \A i, j \in M : i < j => v[i] <= v[j]
    /\ \A i, j \in M : v[j] # v[i] + 1

(* Stabs before l are at or before the address that is looked up, those    *)
(* behind R after it, next to R is one that is after it, and L is one that *)
(* is at or before it, or the start; the key is one more after an exact    *)
(* match, and until there is a match nothing but l has changed.            *)
Searched(M, v, F, T, key, L, R, any, addr, l) ==
    /\ key \in Nat /\ L \in Int /\ R \in Int /\ any \in BOOLEAN /\ addr \in Nat /\ l \in Int
    /\ F <= L /\ F <= l /\ R <= T
    /\ \A i \in M : i < l => v[i] <= key
    /\ \A i \in M : i > R => v[i] > key
    /\ R # T => R + 1 \in M
    /\ L # F => L \in M /\ v[L] <= key
    /\ addr # key => addr = key + 1 /\ \E i \in M : v[i] = key
    /\ ~any => R = T /\ L = F /\ \A i \in M : i >= l

(* A turn that meets no stab of the type                                   *)
LEMMA TurnNone ==
    ASSUME NEW M, NEW v, NEW F, NEW T, NEW key, NEW L, NEW R, NEW any, NEW addr, NEW l,
           StabTable(M, v, F, T), Searched(M, v, F, T, key, L, R, any, addr, l),
           NEW c \in Int, l <= c, c <= R, \A i \in M : ~(l <= i /\ i <= c)
    PROVE  Searched(M, v, F, T, key, L, R, any, addr, c + 1)
BY DEF StabTable, Searched

(* A turn that meets m, the last one in [l, c]                             *)
LEMMA TurnBefore ==
    ASSUME NEW M, NEW v, NEW F, NEW T, NEW key, NEW L, NEW R, NEW any, NEW addr, NEW l,
           StabTable(M, v, F, T), Searched(M, v, F, T, key, L, R, any, addr, l),
           NEW c \in Int, l <= c, c <= R,
           NEW m \in M, l <= m, m <= c, \A i \in M : i <= c => i <= m, v[m] < addr
    PROVE  Searched(M, v, F, T, key, m, R, TRUE, addr, c + 1)
<1>1. v[m] \in Nat /\ v[m] <= key
  BY DEF StabTable, Searched
<1>2. ASSUME NEW i \in M, i < c + 1 PROVE v[i] <= key
  <2>1. i \in Int /\ m \in Int /\ v[i] \in Nat /\ (i < m => v[i] <= v[m])
    BY DEF StabTable
  <2>2. i <= m
    BY <1>2, <2>1
  <2> QED BY <1>1, <2>1, <2>2 DEF Searched
<1>3. F <= m /\ F <= c + 1 /\ c + 1 \in Int /\ m \in Int
  BY DEF StabTable, Searched
<1> QED BY <1>1, <1>2, <1>3 DEF Searched

LEMMA TurnAfter ==
    ASSUME NEW M, NEW v, NEW F, NEW T, NEW key, NEW L, NEW R, NEW any, NEW addr, NEW l,
           StabTable(M, v, F, T), Searched(M, v, F, T, key, L, R, any, addr, l),
           NEW m \in M, m <= R, v[m] > addr
    PROVE  Searched(M, v, F, T, key, L, m - 1, TRUE, addr, l)
<1>1. v[m] \in Nat /\ v[m] > key /\ m \in Int
  BY DEF StabTable, Searched
<1>2. ASSUME NEW i \in M, i > m - 1 PROVE v[i] > key
  <2>1. i \in Int /\ v[i] \in Nat /\ (m < i => v[m] <= v[i])
    BY DEF StabTable
  <2>2. i = m \/ m < i
    BY <1>1, <1>2, <2>1
  <2>3. key \in Nat
    BY DEF Searched
  <2> QED BY <1>1, <2>1, <2>2, <2>3
<1>3. m - 1 \in Int /\ m - 1 + 1 = m /\ m - 1 <= T
  BY <1>1 DEF Searched, StabTable
<1> QED BY <1>1, <1>2, <1>3 DEF Searched

LEMMA TurnExact ==
    ASSUME NEW M, NEW v, NEW F, NEW T, NEW key, NEW L, NEW R, NEW any, NEW addr, NEW l,
           StabTable(M, v, F, T), Searched(M, v, F, T, key, L, R, any, addr, l),
           NEW m \in M, l <= m, v[m] = addr
    PROVE  Searched(M, v, F, T, key, m, R, TRUE, addr + 1, m)
<1>1. addr = key
  <2>1. \A i \in M : v[m] # v[i] + 1
    BY DEF StabTable
  <2> QED BY <2>1 DEF Searched
<1>2. v[m] \in Nat /\ m \in Int /\ F <= m /\ v[m] = key
  BY <1>1 DEF StabTable, Searched
<1>3. ASSUME NEW i \in M, i < m PROVE v[i] <= key
  BY <1>2, <1>3 DEF StabTable
<1> QED BY <1>1, <1>2, <1>3 DEF Searched

(* When the search ends, what it returns brackets the address.             *)
LEMMA SearchEnds ==
    ASSUME NEW M, NEW v, NEW F, NEW T, NEW key, NEW L, NEW R, NEW any, NEW addr, NEW l,
           StabTable(M, v, F, T), Searched(M, v, F, T, key, L, R, any, addr, l), l > R,
           NEW B, B = {i \in M : v[i] <= key}, B # {},
           NEW X, X = {i \in M : L + 1 <= i /\ i <= R}
    PROVE  /\ any
           /\ Max(B) = IF X # {} THEN Max(X) ELSE IF R > L THEN L ELSE R
           /\ R = IF M \ B = {} THEN T ELSE Min(M \ B) - 1
<1>1. /\ F \in Int /\ T \in Int /\ L \in Int /\ R \in Int /\ F <= L /\ R <= T
      /\ M \subseteq Int /\ \A i \in M : F <= i /\ i <= T
  BY DEF StabTable, Searched
<1>2. \A i \in M : (i \in B) <=> (i <= R)
  <2> SUFFICES ASSUME NEW i \in M PROVE (i \in B) <=> (i <= R)
    OBVIOUS
  <2>1. i \in Int /\ v[i] \in Nat /\ key \in Nat /\ l \in Int
    BY DEF StabTable, Searched
  <2>2. (i < l => v[i] <= key) /\ (i > R => v[i] > key)
    BY DEF Searched
  <2>3. i \in B <=> v[i] <= key
    OBVIOUS
  <2> QED BY ONLY <1>1, <2>1, <2>2, <2>3, l > R
<1>3. B \subseteq M /\ X \subseteq M
  OBVIOUS
<1>4. any
  <2> SUFFICES ASSUME ~any PROVE FALSE
    BY DEF Searched
  <2>1. PICK i \in B : TRUE
    OBVIOUS
  <2>2. i >= l /\ i <= R /\ i \in Int /\ l \in Int
    BY <1>1, <1>2, <1>3 DEF Searched
  <2> QED BY ONLY <1>1, <2>2, l > R
<1>5. PICK b \in B : b = Max(B) /\ b \in Int /\ \A y \in B : y <= b
  <2>1. B \in SUBSET Int /\ \A y \in B : y <= T
    BY <1>1, <1>3
  <2>2. PICK f \in B : TRUE
    OBVIOUS
  <2> QED BY ONLY <1>1, <2>1, <2>2, MaxIs
<1>6. b \in M /\ F <= b /\ b <= R
  BY <1>1, <1>2, <1>3
<1>7. L # F => L \in B
  BY DEF Searched
<1>8. b = IF X # {} THEN Max(X) ELSE IF R > L THEN L ELSE R
  <2>1. CASE b > L
    <3>1. b \in X
      BY <1>1, <1>6, <2>1
    <3>2. X \in SUBSET Int /\ \A y \in X : y <= b
      BY <1>1, <1>2, <1>3, <1>5
    <3>3. Max(X) = b
      BY ONLY <3>1, <3>2, b \in Int, MaxIs, <1>5
    <3> QED BY ONLY <3>1, <3>3
  <2>2. CASE ~(b > L)
    <3>1. b = L
      BY ONLY <1>1, <1>5, <1>6, <1>7, <2>2
    <3>2. X = {}
      <4> SUFFICES ASSUME NEW i \in X PROVE FALSE
        OBVIOUS
      <4>1. i \in Int /\ L + 1 <= i /\ i <= R /\ i \in B
        BY <1>1, <1>2, <1>3
      <4>2. i <= b
        BY <1>5, <4>1
      <4> QED BY ONLY <1>1, <3>1, <4>1, <4>2
    <3> QED BY ONLY <1>1, <1>6, <3>1, <3>2
  <2> QED BY <2>1, <2>2
<1>9. R = IF M \ B = {} THEN T ELSE Min(M \ B) - 1
  <2>1. CASE R = T
    <3>1. M \ B = {}
      BY <1>1, <1>2, <2>1
    <3> QED BY <2>1, <3>1
  <2>2. CASE R # T
    <3>1. PICK a \in M : a = R + 1 /\ a \in Int
      BY <1>1, <2>2 DEF Searched
    <3>2. a \in M \ B /\ \A y \in M \ B : a <= y
      BY <1>1, <1>2, <3>1
    <3>3. M \ B \in SUBSET Int
      BY <1>1
    <3>4. Min(M \ B) = a
      BY ONLY <3>2, <3>3, MinIs
    <3>5. M \ B # {} /\ R = a - 1
      BY <1>1, <3>1, <3>2
    <3> QED BY ONLY <3>4, <3>5
  <2> QED BY <2>1, <2>2
<1> QED BY <1>4, <1>5, <1>8, <1>9

(* One call of stab_binsearch.                                             *)
SearchFields == {"fn", "pc", "stabs", "type", "from", "to", "key", "left", "right", "addr",
                 "l", "r", "any"}
OfType == {i \in st.from .. st.to : Is(i, st.type)}
Address == [i \in OfType |-> st.stabs[i].value]

SearchInv ==
    /\ st = [x \in DOMAIN st |-> st[x]] /\ SearchFields \subseteq DOMAIN st
    /\ st.fn = "stab" /\ st.pc \in {"search", "found", "done"}
    /\ st.pc = "search" =>
          /\ StabTable(OfType, Address, st.from, st.to) /\ st.r = st.right
          /\ Searched(OfType, Address, st.from, st.to, st.key, st.left, st.right, st.any,
                      st.addr, st.l)
    /\ StabBrackets

(* The middle of an interval                                               *)
LEMMA Middle == \A l, r \in Int : l <= r =>
                   (l + r) \div 2 \in Int /\ l <= (l + r) \div 2 /\ (l + r) \div 2 <= r
BY SMT

LEMMA SearchTurn == SearchInv /\ stab_binsearch => SearchInv'
<1> SUFFICES ASSUME SearchInv, stab_binsearch PROVE SearchInv'
  OBVIOUS
<1>1. /\ st = [x \in DOMAIN st |-> st[x]] /\ SearchFields \subseteq DOMAIN st
      /\ st.fn = "stab" /\ st.pc = "search" /\ st.l <= st.r /\ st.r = st.right
  BY DEF SearchInv, stab_binsearch, At
<1>2. PICK M, v, F, T, key, L, R, any, addr, l :
         /\ M = OfType /\ v = Address /\ F = st.from /\ T = st.to /\ key = st.key
         /\ L = st.left /\ R = st.right /\ any = st.any /\ addr = st.addr /\ l = st.l
  OBVIOUS
<1>3. StabTable(M, v, F, T) /\ Searched(M, v, F, T, key, L, R, any, addr, l)
  BY <1>1, <1>2 DEF SearchInv
<1>4. /\ F \in Int /\ T \in Int /\ L \in Int /\ R \in Int /\ l \in Int /\ addr \in Nat
      /\ F <= l /\ R <= T /\ l <= R /\ M \subseteq Int
  BY <1>1, <1>2, <1>3 DEF StabTable, Searched
<1>5. PICK c \in Int : c = (st.l + st.r) \div 2 /\ l <= c /\ c <= R
  BY <1>1, <1>2, <1>4, Middle
<1>6. PICK X : X = {i \in st.l .. c : Is(i, st.type)}
  OBVIOUS
<1>7. X = {i \in M : l <= i /\ i <= c}
  <2>1. M = {i \in F .. T : Is(i, st.type)}
    BY <1>2 DEF OfType
  <2> QED BY ONLY <1>2, <1>4, <1>5, <1>6, <2>1, c \in Int
<1>8. PICK m : m = Max(X)
  OBVIOUS
<1>9. ASSUME X # {}
      PROVE  /\ m \in M /\ l <= m /\ m <= c /\ m \in Int /\ \A i \in M : i <= c => i <= m
             /\ st.stabs[m].value = v[m] /\ v[m] \in Nat
  <2>1. PICK f \in X : TRUE
    BY <1>9
  <2>2. X \in SUBSET Int /\ \A y \in X : y <= c
    BY <1>4, <1>7
  <2>3. m \in X /\ m \in Int /\ \A y \in X : y <= m
    BY ONLY <1>8, <2>1, <2>2, c \in Int, MaxIs
  <2>4. m \in M /\ l <= m /\ m <= c
    BY <1>7, <2>3
  <2>5. ASSUME NEW i \in M, i <= c PROVE i <= m
    <3>1. i \in Int
      BY <1>4
    <3>2. CASE l <= i
      BY <1>7, <2>3, <2>5, <3>2
    <3>3. CASE ~(l <= i)
      BY ONLY <1>4, <2>3, <2>4, <3>1, <3>3
    <3> QED BY <3>2, <3>3
  <2>6. st.stabs[m].value = v[m] /\ v[m] \in Nat
    <3>1. v[m] \in Nat
      BY <1>3, <2>4 DEF StabTable
    <3> QED BY <1>2, <2>4, <3>1 DEF Address
  <2> QED BY ONLY <2>3, <2>4, <2>5, <2>6
<1>10. \/ X = {} /\ st' = [st EXCEPT !.l = c + 1]
       \/ X # {} /\ v[m] < addr /\ st' = [st EXCEPT !.any = TRUE, !.left = m, !.l = c + 1]
       \/ X # {} /\ v[m] > addr /\ st' = [st EXCEPT !.any = TRUE, !.right = m - 1, !.r = m - 1]
       \/ X # {} /\ v[m] = addr
          /\ st' = [st EXCEPT !.any = TRUE, !.left = m, !.l = m, !.addr = addr + 1]
  BY <1>2, <1>5, <1>6, <1>8, <1>9, Zenon DEF stab_binsearch, PastExact
<1>11. /\ st' = [x \in DOMAIN st' |-> st'[x]] /\ DOMAIN st' = DOMAIN st
       /\ st'.fn = "stab" /\ st'.pc = "search" /\ st'.stabs = st.stabs /\ st'.type = st.type
       /\ st'.from = F /\ st'.to = T /\ st'.key = key /\ st'.r = st'.right
  <2>1. CASE X = {} /\ st' = [st EXCEPT !.l = c + 1]
    BY ONLY <1>1, <1>2, <2>1 DEF SearchFields
  <2>2. CASE st' = [st EXCEPT !.any = TRUE, !.left = m, !.l = c + 1]
    BY ONLY <1>1, <1>2, <2>2 DEF SearchFields
  <2>3. CASE st' = [st EXCEPT !.any = TRUE, !.right = m - 1, !.r = m - 1]
    BY ONLY <1>1, <1>2, <2>3 DEF SearchFields
  <2>4. CASE st' = [st EXCEPT !.any = TRUE, !.left = m, !.l = m, !.addr = addr + 1]
    BY ONLY <1>1, <1>2, <2>4 DEF SearchFields
  <2> QED BY ONLY <1>10, <2>1, <2>2, <2>3, <2>4
<1>12. OfType' = M /\ Address' = v
  <2>1. OfType' = OfType
    BY <1>2, <1>11 DEF OfType, Is
  <2> QED BY <1>2, <1>11, <2>1 DEF Address
<1>13. Searched(M, v, F, T, key, st'.left, st'.right, st'.any, st'.addr, st'.l)
  <2>1. CASE X = {} /\ st' = [st EXCEPT !.l = c + 1]
    <3>1. /\ st'.left = L /\ st'.right = R /\ st'.any = any /\ st'.addr = addr /\ st'.l = c + 1
      BY ONLY <1>1, <1>2, <2>1 DEF SearchFields
    <3>2. \A i \in M : ~(l <= i /\ i <= c)
      BY ONLY <1>7, <2>1
    <3>3. Searched(M, v, F, T, key, L, R, any, addr, c + 1)
      BY <1>3, <1>5, <3>2, TurnNone
    <3> QED BY ONLY <3>1, <3>3
  <2>2. CASE X # {} /\ v[m] < addr /\ st' = [st EXCEPT !.any = TRUE, !.left = m, !.l = c + 1]
    <3>1. /\ st'.left = m /\ st'.right = R /\ st'.any = TRUE /\ st'.addr = addr /\ st'.l = c + 1
      BY ONLY <1>1, <1>2, <2>2 DEF SearchFields
    <3>2. Searched(M, v, F, T, key, m, R, TRUE, addr, c + 1)
      BY <1>3, <1>5, <1>9, <2>2, TurnBefore
    <3> QED BY ONLY <3>1, <3>2
  <2>3. CASE X # {} /\ v[m] > addr
             /\ st' = [st EXCEPT !.any = TRUE, !.right = m - 1, !.r = m - 1]
    <3>1. /\ st'.left = L /\ st'.right = m - 1 /\ st'.any = TRUE /\ st'.addr = addr /\ st'.l = l
      BY ONLY <1>1, <1>2, <2>3 DEF SearchFields
    <3>2. m \in M /\ m <= R /\ v[m] > addr
      BY <1>4, <1>5, <1>9, <2>3
    <3>3. Searched(M, v, F, T, key, L, m - 1, TRUE, addr, l)
      BY <1>3, <3>2, TurnAfter
    <3> QED BY ONLY <3>1, <3>3
  <2>4. CASE X # {} /\ v[m] = addr
             /\ st' = [st EXCEPT !.any = TRUE, !.left = m, !.l = m, !.addr = addr + 1]
    <3>1. /\ st'.left = m /\ st'.right = R /\ st'.any = TRUE /\ st'.addr = addr + 1 /\ st'.l = m
      BY ONLY <1>1, <1>2, <2>4 DEF SearchFields
    <3>2. Searched(M, v, F, T, key, m, R, TRUE, addr + 1, m)
      BY <1>3, <1>9, <2>4, TurnExact
    <3> QED BY ONLY <3>1, <3>2
  <2> QED BY ONLY <1>10, <2>1, <2>2, <2>3, <2>4
<1>14. SearchFields \subseteq DOMAIN st'
  BY <1>1, <1>11
<1> QED BY <1>3, <1>11, <1>12, <1>13, <1>14 DEF SearchInv, StabBrackets, At

LEMMA SearchDone == SearchInv /\ binsearch_ends => SearchInv'
<1> SUFFICES ASSUME SearchInv, binsearch_ends PROVE SearchInv'
  OBVIOUS
<1>1. /\ st = [x \in DOMAIN st |-> st[x]] /\ SearchFields \subseteq DOMAIN st
      /\ st.fn = "stab" /\ st.pc = "search" /\ st.l > st.r /\ st.r = st.right
  BY DEF SearchInv, binsearch_ends, At
<1>2. PICK M, v, F, T, key, L, R, any, addr, l :
         /\ M = OfType /\ v = Address /\ F = st.from /\ T = st.to /\ key = st.key
         /\ L = st.left /\ R = st.right /\ any = st.any /\ addr = st.addr /\ l = st.l
  OBVIOUS
<1>3. StabTable(M, v, F, T) /\ Searched(M, v, F, T, key, L, R, any, addr, l) /\ l > R
  BY <1>1, <1>2 DEF SearchInv
<1>4. /\ F \in Int /\ T \in Int /\ L \in Int /\ R \in Int /\ F <= L /\ R <= T
      /\ M \subseteq Int /\ any \in BOOLEAN
  BY <1>3 DEF StabTable, Searched
<1>5. PICK w : w = Rightmost
  OBVIOUS
<1>6. st' = IF any THEN [st EXCEPT !.pc = "found", !.left = w]
            ELSE [st EXCEPT !.pc = "found", !.right = L - 1]
  BY <1>2, <1>5 DEF binsearch_ends
<1>7. /\ st' = [x \in DOMAIN st' |-> st'[x]] /\ DOMAIN st' = DOMAIN st
      /\ st'.fn = "stab" /\ st'.pc = "found" /\ st'.stabs = st.stabs /\ st'.type = st.type
      /\ st'.from = F /\ st'.to = T /\ st'.key = key
      /\ any => st'.left = w /\ st'.right = R
  BY ONLY <1>1, <1>2, <1>4, <1>6 DEF SearchFields
<1>8. PICK X : X = {i \in st.left + 1 .. st.right : Is(i, st.type)}
  OBVIOUS
<1>9. X = {i \in M : L + 1 <= i /\ i <= R}
  <2>1. M = {i \in F .. T : Is(i, st.type)}
    BY <1>2 DEF OfType
  <2> QED BY ONLY <1>2, <1>4, <1>8, <2>1
<1>10. w = IF X # {} THEN Max(X) ELSE IF R > L THEN L ELSE R
  BY ONLY <1>2, <1>5, <1>8, Zenon DEF Rightmost
<1>11. PICK B : B = {i \in M : v[i] <= key}
  OBVIOUS
<1>12. StabBrackets'
  <2>1. {i \in st'.from .. st'.to : Is(i, st.type)'} = M
    BY <1>2, <1>7 DEF OfType, Is
  <2>2. {i \in M : st'.stabs[i].value <= st'.key} = B
    <3>1. \A i \in M : st'.stabs[i].value = v[i]
      BY <1>2, <1>7 DEF Address
    <3> QED BY ONLY <1>7, <1>11, <3>1
  <2>3. ASSUME B # {}
        PROVE  /\ st'.left = Max(B)
               /\ st'.right = IF M \ B = {} THEN st'.to ELSE Min(M \ B) - 1
    <3>1. /\ any
          /\ Max(B) = IF X # {} THEN Max(X) ELSE IF R > L THEN L ELSE R
          /\ R = IF M \ B = {} THEN T ELSE Min(M \ B) - 1
      BY <1>3, <1>9, <1>11, <2>3, SearchEnds
    <3> QED BY ONLY <1>7, <1>10, <3>1
  <2> QED BY <2>1, <2>2, <2>3 DEF StabBrackets, Is
<1>13. SearchFields \subseteq DOMAIN st'
  BY <1>1, <1>7
<1> QED BY <1>7, <1>12, <1>13 DEF SearchInv

(* The start of a call, on a table without neighbouring addresses          *)
LEMMA SearchStart ==
    ASSUME \A x, y \in StabValue : y # x + 1, SearchInit
    PROVE  SearchInv
<1>1. PICK t \in [1 .. StabLen -> AnyStab], a \in StabAddr, right \in 0 .. StabLen - 1 :
         /\ Sorted(t)
         /\ \E left \in 0 .. right : st = binsearch(NewCall(t, FALSE), "SO", left, right, a)
  BY DEF SearchInit
<1>2. PICK left \in 0 .. right : st = binsearch(NewCall(t, FALSE), "SO", left, right, a)
  BY <1>1
<1>3. /\ StabLen \in Nat /\ StabLen > 0 /\ StabValue \subseteq Nat /\ a \in Nat
  BY StabAssumption
<1>4. PICK f : f = ZeroBased(t)
  OBVIOUS
<1>5. /\ st = [x \in DOMAIN st |-> st[x]] /\ SearchFields \subseteq DOMAIN st
      /\ st.fn = "stab" /\ st.pc = "search" /\ st.stabs = f /\ st.type = "SO"
      /\ st.from = left /\ st.to = right /\ st.key = a /\ st.left = left /\ st.right = right
      /\ st.addr = a /\ st.l = left /\ st.r = right /\ st.any = FALSE
  <2>1. PICK s : s = NewCall(t, FALSE)
    OBVIOUS
  <2>2. /\ s = [x \in DOMAIN s |-> s[x]] /\ SearchFields \subseteq DOMAIN s
        /\ s.fn = "stab" /\ s.stabs = f
    BY ONLY <1>4, <2>1 DEF NewCall, SearchFields
  <2>3. st = [s EXCEPT !.pc = "search", !.type = "SO", !.from = left, !.to = right, !.key = a,
                       !.left = left, !.right = right, !.addr = a,
                       !.l = left, !.r = right, !.any = FALSE]
    BY ONLY <1>2, <2>1 DEF binsearch
  <2> QED BY ONLY <2>2, <2>3 DEF SearchFields
<1>6. f = [i \in 0 .. StabLen - 1 |-> t[i + 1]]
  <2>1. t \in Seq(AnyStab) /\ Len(t) = StabLen
    BY <1>3
  <2> QED BY <1>4, <2>1 DEF ZeroBased
<1>7. PICK M : M = OfType
  OBVIOUS
<1>8. ASSUME NEW i \in M
      PROVE  /\ i \in left .. right /\ i \in 0 .. StabLen - 1 /\ i + 1 \in 1 .. StabLen
             /\ f[i] = t[i + 1] /\ t[i + 1].type = "SO" /\ f[i].value \in StabValue
  <2>1. i \in left .. right /\ f[i].type = "SO"
    BY <1>5, <1>7 DEF OfType, Is
  <2>2. i \in 0 .. StabLen - 1 /\ i + 1 \in 1 .. StabLen
    BY ONLY <1>3, <2>1, right \in 0 .. StabLen - 1, left \in 0 .. right
  <2>3. f[i] = t[i + 1] /\ t[i + 1] \in AnyStab
    BY ONLY <1>6, <2>2, t \in [1 .. StabLen -> AnyStab]
  <2>4. PICK w \in AnyStab : w = f[i] /\ w.type = "SO"
    BY ONLY <2>1, <2>3
  <2>5. w.value \in StabValue
    BY ONLY <2>4, w \in AnyStab DEF AnyStab, Mk
  <2> QED BY ONLY <2>1, <2>2, <2>3, <2>4, <2>5
<1>9. Address = [i \in M |-> f[i].value]
  BY <1>5, <1>7 DEF Address
<1>10. StabTable(M, Address, left, right)
  <2>1. left \in Int /\ right \in Int /\ M \subseteq left .. right
    BY <1>8
  <2>2. Address \in [M -> Nat]
    BY ONLY <1>3, <1>8, <1>9
  <2>3. ASSUME NEW i \in M, NEW j \in M, i < j
        PROVE  Address[i] <= Address[j]
    <3>1. PICK p \in 1 .. StabLen, q \in 1 .. StabLen : p = i + 1 /\ q = j + 1
      BY <1>8
    <3>2. p < q
      BY <1>8, <2>3, <3>1
    <3>3. t[p].value <= t[q].value
      BY ONLY <1>1, <1>8, <3>1, <3>2, t \in [1 .. StabLen -> AnyStab], i \in M, j \in M
         DEF Sorted
    <3> QED BY ONLY <1>8, <1>9, <3>1, <3>3, i \in M, j \in M
  <2>4. ASSUME NEW i \in M, NEW j \in M
        PROVE  Address[j] # Address[i] + 1
    BY <1>8, <1>9
  <2> QED BY ONLY <2>1, <2>2, <2>3, <2>4 DEF StabTable
<1>11. Searched(M, Address, left, right, a, left, right, FALSE, a, left)
  <2>1. \A i \in M : i \in Int /\ ~(i < left) /\ ~(i > right)
    BY <1>8
  <2>2. left \in Int /\ right \in Int
    OBVIOUS
  <2> QED BY ONLY <1>3, <2>1, <2>2 DEF Searched
<1> QED BY <1>5, <1>7, <1>10, <1>11 DEF SearchInv, StabBrackets, At

(* kdebug.c: in a table of any length in which no two symbols are one      *)
(* address apart, for every region and every address, stab_binsearch       *)
(* returns the last symbol at or before the address, and the index before  *)
(* the next one, although it goes on with another key after a match.       *)
THEOREM SearchCorrect ==
    ASSUME \A x, y \in StabValue : y # x + 1
    PROVE  SearchSpec => []StabBrackets
<1>1. SearchInit => SearchInv
  BY SearchStart
<1>2. SearchInv /\ [SearchNext]_st => SearchInv'
  <2> SUFFICES ASSUME SearchInv, [SearchNext]_st PROVE SearchInv'
    OBVIOUS
  <2>1. CASE search_returns
    <3>1. /\ st = [x \in DOMAIN st |-> st[x]] /\ SearchFields \subseteq DOMAIN st
          /\ st.fn = "stab" /\ st' = [st EXCEPT !.pc = "done"]
      BY <2>1 DEF SearchInv, search_returns
    <3>2. /\ st' = [x \in DOMAIN st' |-> st'[x]] /\ SearchFields \subseteq DOMAIN st'
          /\ st'.fn = "stab" /\ st'.pc = "done"
      BY ONLY <3>1 DEF SearchFields
    <3> QED BY <3>2 DEF SearchInv, StabBrackets, At
  <2>2. CASE UNCHANGED st
    BY <2>2 DEF SearchInv, StabBrackets, OfType, Address, Is, At
  <2> QED BY <2>1, <2>2, SearchTurn, SearchDone DEF SearchNext
<1>3. SearchInv => StabBrackets
  BY DEF SearchInv
<1> QED BY <1>1, <1>2, <1>3, PTL DEF SearchSpec

-----------------------------------------------------------------------------
(* The loaders.                                                            *)

(* The image of a segment g in memory m.                                   *)
Holding(m, g) ==
    \A i \in 0 .. g.memsz - 1 :
        m[g.at + i] = IF i < g.filesz THEN FileByte(g.offset + i) ELSE 0

Sizes(g) ==
    /\ g.at \in Nat /\ g.memsz \in Nat /\ g.filesz \in Nat /\ g.offset \in Nat
    /\ g.filesz <= g.memsz /\ EndOf(g) <= 2 * LdMB

Memory == 0 .. 2 * LdMB - 1

LEMMA LoaderSizes ==
    /\ LdSect \in Nat /\ LdSect > 0 /\ LdHdr \in Nat /\ LdMB \in Nat /\ LdHdr < LdMB
    /\ LdPage \in Nat /\ LdPage > 0 /\ LdTable \in Nat /\ LdTable > 1
    /\ 4 * LdSect <= LdMB /\ 5 * LdPage <= 2 * LdMB
    /\ \E h \in Nat : LdHdr = h * LdSect
    /\ \E b \in Nat : LdMB = b * LdSect
<1>1. /\ LdSect \in Nat /\ LdSect > 0 /\ LdHdr \in Nat /\ LdMB \in Nat /\ LdHdr < LdMB
      /\ LdPage \in Nat /\ LdPage > 0 /\ LdTable \in Nat /\ LdTable > 1
      /\ 4 * LdSect <= LdMB /\ 5 * LdPage <= 2 * LdMB
      /\ LdHdr % LdSect = 0 /\ LdMB % LdSect = 0
  BY LoaderAssumption
<1>2. ASSUME NEW a \in Nat, NEW n \in Nat, n > 0, a % n = 0
      PROVE  \E q \in Nat : a = q * n
  <2>1. a \div n \in Nat /\ a = (a \div n) * n
    BY <1>2, SMT
  <2> QED BY <2>1, Zenon
<1> QED BY <1>1, <1>2

(* Whole sectors                                                           *)
LEMMA SectorArithmetic ==
    ASSUME NEW n \in Nat, n > 0, NEW q \in Nat
    PROVE  /\ q * n \in Nat /\ (q * n) \div n = q /\ ROUNDDOWN(q * n, n) = q * n
           /\ (q + 1) * n = q * n + n
           /\ \A a \in Nat : q * n <= a /\ a < q * n + n => a % n = a - q * n
<1>1. q * n \in Nat /\ (q * n) \div n = q /\ (q * n) % n = 0 /\ (q + 1) * n = q * n + n
  BY SMT
<1>2. ASSUME NEW a \in Nat, q * n <= a, a < q * n + n
      PROVE  a % n = a - q * n
  <2>1. PICK i \in Nat : i < n /\ a = q * n + i /\ i = a - q * n
    BY <1>1, <1>2
  <2>2. (q * n + i) % n = i
    BY ONLY <2>1, n \in Nat, q \in Nat, i \in Nat, n > 0, SMT
  <2> QED BY ONLY <2>1, <2>2
<1>3. ROUNDDOWN(q * n, n) = q * n
  BY <1>1 DEF ROUNDDOWN
<1> QED BY <1>1, <1>2, <1>3

(* What writes to a part of memory leaves the images outside of it.        *)
LEMMA HoldingKept ==
    ASSUME NEW m, NEW w, NEW g, Sizes(g), Holding(m, g),
           NEW lo \in Int, EndOf(g) <= lo, \A a \in Memory : a < lo => w[a] = m[a]
    PROVE  Holding(w, g)
<1>1. PICK at \in Nat, size \in Nat : at = g.at /\ size = g.memsz /\ at + size <= 2 * LdMB
                                      /\ at + size <= lo
  BY DEF Sizes, EndOf
<1>2. ASSUME NEW i \in 0 .. size - 1
      PROVE  w[at + i] = m[at + i]
  <2>1. at + i \in Memory /\ at + i < lo
    BY <1>1, LoaderSizes DEF Memory
  <2> QED BY <2>1
<1> QED BY <1>1, <1>2 DEF Holding

-----------------------------------------------------------------------------
(* bootmain.  The segments are whole sectors in the file, in the order of  *)
(* their addresses, behind the header.                                     *)
KernelImage(segs) ==
    /\ Len(segs) \in Nat /\ DOMAIN segs = 1 .. Len(segs)
    /\ \A k \in 1 .. Len(segs) :
          /\ Sizes(segs[k]) /\ LdHdr <= segs[k].at
          /\ \E p \in Nat : segs[k].at = p * LdSect
          /\ \E o \in Nat : segs[k].offset = o * LdSect
          /\ \A j \in 1 .. k - 1 : EndOf(segs[j]) <= segs[k].at

(* What is read: the header first, as if it were a segment                 *)
HeaderSeg == [at |-> 0, memsz |-> LdHdr, filesz |-> LdHdr, offset |-> 0, load |-> TRUE]
Wanted(segs, k) == IF k = 0 THEN HeaderSeg ELSE segs[k]

(* The file, from segment g's offset, is in memory from its address to pa. *)
ReadTo(m, g, pa) ==
    \A a \in g.at .. pa - 1 : a \in Memory => m[a] = FileByte(g.offset + (a - g.at))

BootFields == {"fn", "pc", "segs", "elf", "a20", "mem", "seg", "pa", "end_pa", "sector", "ret"}
ReadingAt(g, q) ==
    /\ st.pa = q * LdSect /\ g.at <= st.pa /\ st.end_pa = EndOf(g)
    /\ st.sector \in Nat /\ st.sector > 0
    /\ (st.sector - 1) * LdSect + g.at = g.offset + st.pa
    /\ ReadTo(st.mem, g, st.pa)

BootInv ==
    /\ st = [x \in DOMAIN st |-> st[x]] /\ BootFields \subseteq DOMAIN st
    /\ st.fn = "bootmain" /\ st.pc \in {"start", "protcseg", "readseg", "done"}
    /\ KernelImage(st.segs) /\ DOMAIN st.mem = Memory
    /\ st.pc \in {"start", "protcseg"} => st.seg = 0
    /\ st.pc \in {"protcseg", "readseg"} => st.a20
    /\ st.pc = "readseg" =>
          /\ st.seg \in 0 .. Len(st.segs)
          /\ \E q \in Nat : ReadingAt(Wanted(st.segs, st.seg), q)
          /\ \A j \in 0 .. st.seg - 1 : Holding(st.mem, Wanted(st.segs, j))
    /\ KernelLoaded

LEMMA WantedSizes ==
    ASSUME NEW segs, KernelImage(segs), NEW k \in 0 .. Len(segs)
    PROVE  /\ Sizes(Wanted(segs, k))
           /\ \E p \in Nat : Wanted(segs, k).at = p * LdSect
           /\ \E o \in Nat : Wanted(segs, k).offset = o * LdSect
           /\ k > 0 => k \in 1 .. Len(segs) /\ Wanted(segs, k) = segs[k]
<1>0. Len(segs) \in Nat
  BY DEF KernelImage
<1>1. CASE k = 0
  <2>1. 0 = 0 * LdSect
    BY LoaderSizes
  <2> QED BY <1>1, <2>1, LoaderSizes DEF Wanted, HeaderSeg, Sizes, EndOf
<1>2. CASE k # 0
  <2>1. k \in 1 .. Len(segs) /\ Wanted(segs, k) = segs[k]
    BY <1>0, <1>2 DEF Wanted
  <2> QED BY <2>1 DEF KernelImage
<1> QED BY <1>1, <1>2

LEMMA EarlierBefore ==
    ASSUME NEW segs, KernelImage(segs), NEW k \in 0 .. Len(segs), NEW j \in 0 .. k - 1
    PROVE  Sizes(Wanted(segs, j)) /\ EndOf(Wanted(segs, j)) <= Wanted(segs, k).at
<1>0. Len(segs) \in Nat
  BY DEF KernelImage
<1>1. k \in 1 .. Len(segs) /\ j \in 0 .. Len(segs) /\ Wanted(segs, k) = segs[k]
  BY <1>0 DEF Wanted
<1>2. Sizes(Wanted(segs, j))
  BY <1>1, WantedSizes
<1>3. CASE j = 0
  <2>1. EndOf(Wanted(segs, j)) = LdHdr
    BY <1>3, LoaderSizes DEF Wanted, HeaderSeg, EndOf
  <2>2. LdHdr <= segs[k].at
    BY <1>1 DEF KernelImage
  <2> QED BY <1>1, <1>2, <2>1, <2>2
<1>4. CASE j # 0
  <2>1. j \in 1 .. k - 1 /\ Wanted(segs, j) = segs[j]
    BY <1>0, <1>4 DEF Wanted
  <2> QED BY <1>1, <1>2, <2>1 DEF KernelImage
<1> QED BY <1>3, <1>4

(* One sector is read to where it belongs.                                 *)
LEMMA SectorRead ==
    ASSUME BootInv, readsect
    PROVE  BootInv'
<1>1. /\ st = [x \in DOMAIN st |-> st[x]] /\ BootFields \subseteq DOMAIN st
      /\ st.fn = "bootmain" /\ st.pc = "readseg" /\ KernelImage(st.segs)
      /\ DOMAIN st.mem = Memory /\ st.a20 /\ st.seg \in 0 .. Len(st.segs)
      /\ \A j \in 0 .. st.seg - 1 : Holding(st.mem, Wanted(st.segs, j))
  BY DEF BootInv, readsect, At
<1>0. PICK g : g = Wanted(st.segs, st.seg)
  OBVIOUS
<1>2. PICK q \in Nat : g = Wanted(st.segs, st.seg) /\ ReadingAt(g, q)
  BY <1>0, <1>1 DEF BootInv
<1>3. PICK m, w, pa, sec : m = st.mem /\ w = Sector(st) /\ pa = st.pa /\ sec = st.sector
  OBVIOUS
<1>4. st' = [st EXCEPT !.mem = w, !.pa = pa + LdSect, !.sector = sec + 1]
  BY <1>3 DEF readsect
<1>5. /\ st' = [x \in DOMAIN st' |-> st'[x]] /\ DOMAIN st' = DOMAIN st
      /\ st'.fn = "bootmain" /\ st'.pc = "readseg" /\ st'.segs = st.segs /\ st'.a20 = st.a20
      /\ st'.seg = st.seg /\ st'.end_pa = st.end_pa
      /\ st'.mem = w /\ st'.pa = pa + LdSect /\ st'.sector = sec + 1
  BY ONLY <1>1, <1>4 DEF BootFields
<1>6. Sizes(g) /\ g.at \in Nat /\ g.offset \in Nat
  BY <1>1, <1>2, WantedSizes DEF Sizes
<1>7. /\ pa = q * LdSect /\ pa \in Nat /\ g.at <= pa /\ sec \in Nat /\ sec > 0
      /\ (sec - 1) * LdSect + g.at = g.offset + pa /\ ReadTo(m, g, pa)
      /\ st.end_pa = EndOf(g)
  BY <1>2, <1>3, LoaderSizes, SectorArithmetic DEF ReadingAt
<1>8. /\ DOMAIN w = Memory
      /\ \A a \in Memory : w[a] = IF pa <= a /\ a < pa + LdSect
                                  THEN FileByte(g.offset + (a - g.at)) ELSE m[a]
  <2>1. \A a \in Nat : (a \in {Phys(st.pa + i) : i \in 0 .. LdSect - 1})
                       <=> (pa <= a /\ a < pa + LdSect)
    <3>1. {Phys(st.pa + i) : i \in 0 .. LdSect - 1} = {pa + i : i \in 0 .. LdSect - 1}
      BY <1>1, <1>3 DEF Phys
    <3>2. ASSUME NEW a \in Nat, pa <= a, a < pa + LdSect
          PROVE  a \in {pa + i : i \in 0 .. LdSect - 1}
      <4>1. PICK i \in 0 .. LdSect - 1 : a = pa + i
        BY <1>7, <3>2, LoaderSizes
      <4> QED BY <4>1
    <3>3. ASSUME NEW a \in {pa + i : i \in 0 .. LdSect - 1}
          PROVE  pa <= a /\ a < pa + LdSect
      BY <1>7, LoaderSizes
    <3> QED BY <3>1, <3>2, <3>3
  <2>2. w = [a \in Memory |-> IF pa <= a /\ a < pa + LdSect
                              THEN DiskByte(sec, a % LdSect) ELSE m[a]]
    <3>1. \A a \in Memory : a \in Nat
      BY DEF Memory
    <3>2. w = [a \in Memory |-> IF a \in {Phys(st.pa + i) : i \in 0 .. LdSect - 1}
                                THEN DiskByte(sec, a % LdSect) ELSE m[a]]
      BY <1>1, <1>3 DEF Sector
    <3> QED BY ONLY <2>1, <3>1, <3>2
  <2>3. ASSUME NEW a \in Memory, pa <= a, a < pa + LdSect
        PROVE  DiskByte(sec, a % LdSect) = FileByte(g.offset + (a - g.at))
    <3>1. a \in Nat
      BY DEF Memory
    <3>2. a % LdSect = a - pa
      <4>1. LdSect \in Nat /\ LdSect > 0 /\ q * LdSect <= a /\ a < q * LdSect + LdSect
        BY <1>7, <2>3, LoaderSizes
      <4>2. a % LdSect = a - q * LdSect
        BY ONLY <3>1, <4>1, SectorArithmetic, q \in Nat
      <4> QED BY ONLY <1>7, <4>2
    <3>3. PICK x \in Nat : x = (sec - 1) * LdSect /\ x + g.at = g.offset + pa
      <4>1. (sec - 1) * LdSect \in Nat
        BY <1>7, LoaderSizes, SectorArithmetic
      <4> QED BY <1>7, <4>1
    <3>4. x + (a - pa) = g.offset + (a - g.at)
      BY ONLY <1>6, <1>7, <3>1, <3>3
    <3>5. sec # 0
      BY <1>7
    <3> QED BY ONLY <3>2, <3>3, <3>4, <3>5 DEF DiskByte
  <2> QED BY ONLY <2>2, <2>3
<1>9. ReadTo(w, g, pa + LdSect)
  <2> SUFFICES \A a \in g.at .. (pa + LdSect) - 1 :
                   a \in Memory => w[a] = FileByte(g.offset + (a - g.at))
    BY DEF ReadTo
  <2> SUFFICES ASSUME NEW a \in g.at .. (pa + LdSect) - 1, a \in Memory
               PROVE  w[a] = FileByte(g.offset + (a - g.at))
    OBVIOUS
  <2>1. CASE pa <= a
    BY <1>6, <1>7, <1>8, <2>1, LoaderSizes
  <2>2. CASE ~(pa <= a)
    <3>1. a \in g.at .. pa - 1 /\ ~(pa <= a)
      BY <1>6, <1>7, <2>2, LoaderSizes
    <3>2. w[a] = m[a]
      BY ONLY <1>8, <3>1, a \in Memory
    <3> QED BY ONLY <1>7, <3>1, <3>2, a \in Memory DEF ReadTo
  <2> QED BY <2>1, <2>2
<1>10. ReadingAt(g, q + 1)'
  <2>1. pa + LdSect = (q + 1) * LdSect /\ g.at <= pa + LdSect
    BY <1>6, <1>7, LoaderSizes, SectorArithmetic
  <2>2. sec + 1 \in Nat /\ sec + 1 > 0
    BY <1>7
  <2>3. (sec + 1 - 1) * LdSect + g.at = g.offset + (pa + LdSect)
    <3>1. PICK k \in Nat : k = sec - 1 /\ k + 1 = sec + 1 - 1
      BY <1>7
    <3>2. (k + 1) * LdSect = k * LdSect + LdSect /\ k * LdSect \in Nat
      BY LoaderSizes, SectorArithmetic
    <3>3. PICK x \in Nat : x = k * LdSect /\ x + g.at = g.offset + pa
      BY <1>7, <3>1, <3>2
    <3>4. (x + LdSect) + g.at = g.offset + (pa + LdSect)
      BY ONLY <1>6, <1>7, <3>3, LoaderSizes
    <3> QED BY ONLY <3>1, <3>2, <3>3, <3>4
  <2> QED BY ONLY <1>5, <1>7, <1>9, <2>1, <2>2, <2>3 DEF ReadingAt
<1>11. ASSUME NEW j \in 0 .. st.seg - 1
       PROVE  Holding(w, Wanted(st.segs, j))
  <2>1. Holding(m, Wanted(st.segs, j))
    BY <1>1, <1>3
  <2>2. Sizes(Wanted(st.segs, j)) /\ EndOf(Wanted(st.segs, j)) <= g.at
    BY <1>1, <1>2, EarlierBefore
  <2>3. \A a \in Memory : a < g.at => w[a] = m[a]
    BY <1>6, <1>7, <1>8 DEF Memory
  <2> QED BY <1>6, <2>1, <2>2, <2>3, HoldingKept
<1>12. KernelLoaded'
  BY <1>5 DEF KernelLoaded, At
<1>13. \E r \in Nat : ReadingAt(Wanted(st.segs, st.seg), r)'
  <2>1. q + 1 \in Nat
    OBVIOUS
  <2>2. Wanted(st.segs, st.seg)' = g
    BY ONLY <1>2, <1>5 DEF Wanted
  <2>3. ReadingAt(Wanted(st.segs, st.seg), q + 1)'
    BY ONLY <1>10, <2>2 DEF ReadingAt
  <2> QED BY ONLY <2>1, <2>3, Zenon
<1> QED BY ONLY <1>1, <1>5, <1>8, <1>11, <1>12, <1>13 DEF BootInv, Wanted
(* When readseg has come to the end of a segment, its bss is cleared and   *)
(* the segment, like those before it, is in memory.                        *)
LEMMA SegmentDone ==
    ASSUME BootInv, st.pc = "readseg", st.pa >= st.end_pa, NEW w, w = Finished
    PROVE  DOMAIN w = Memory /\ \A j \in 0 .. st.seg : Holding(w, Wanted(st.segs, j))
<1>1. /\ KernelImage(st.segs) /\ DOMAIN st.mem = Memory /\ st.seg \in 0 .. Len(st.segs)
      /\ Len(st.segs) \in Nat
      /\ \A j \in 0 .. st.seg - 1 : Holding(st.mem, Wanted(st.segs, j))
  BY DEF BootInv, KernelImage
<1>0. PICK g, m : g = Wanted(st.segs, st.seg) /\ m = st.mem
  OBVIOUS
<1>2. PICK q \in Nat : ReadingAt(g, q)
  BY <1>0 DEF BootInv
<1>3. Sizes(g) /\ (st.seg > 0 => g = st.segs[st.seg])
  BY <1>0, <1>1, WantedSizes
<1>4. PICK at \in Nat, size \in Nat, filesz \in Nat :
        /\ at = g.at /\ size = g.memsz /\ filesz = g.filesz /\ filesz <= size
        /\ at + size <= 2 * LdMB
  BY <1>3 DEF Sizes, EndOf
<1>5. \A a \in at .. at + size - 1 : a \in Memory /\ m[a] = FileByte(g.offset + (a - at))
  <2>1. /\ st.pa = q * LdSect /\ at + size <= st.pa /\ ReadTo(m, g, st.pa)
    BY <1>0, <1>2, <1>4 DEF ReadingAt, EndOf
  <2>2. PICK pa \in Nat : pa = st.pa /\ at + size <= pa /\ ReadTo(m, g, pa)
    <3>1. q * LdSect \in Nat
      BY LoaderSizes, SectorArithmetic
    <3> QED BY <2>1, <3>1
  <2> SUFFICES ASSUME NEW a \in at .. at + size - 1
               PROVE  a \in Memory /\ m[a] = FileByte(g.offset + (a - at))
    OBVIOUS
  <2>3. a \in Memory /\ a \in at .. pa - 1
    BY <1>4, <2>2, LoaderSizes DEF Memory
  <2> QED BY ONLY <1>4, <2>2, <2>3 DEF ReadTo
<1>6. CASE st.seg = 0
  <2>1. w = m /\ g = HeaderSeg
    BY <1>0, <1>6 DEF Finished, Wanted
  <2>2. filesz = size
    BY <1>4, <2>1 DEF HeaderSeg
  <2>3. ASSUME NEW i \in 0 .. size - 1
        PROVE  m[at + i] = IF i < filesz THEN FileByte(g.offset + i) ELSE 0
    <3>1. at + i \in at .. at + size - 1 /\ (at + i) - at = i /\ i < filesz
      BY <1>4, <2>2
    <3> QED BY ONLY <1>5, <3>1
  <2>4. Holding(m, g)
    BY ONLY <1>4, <2>3 DEF Holding
  <2>5. \A j \in 0 .. st.seg : j = 0
    BY <1>6
  <2> QED BY <1>0, <1>1, <1>6, <2>1, <2>4, <2>5
<1>7. CASE st.seg # 0
  <2>1. st.seg > 0 /\ g = st.segs[st.seg]
    BY <1>1, <1>3, <1>7
  <2>2. w = memset(m, at + filesz, 0, size - filesz)
    BY <1>0, <1>4, <1>7, <2>1 DEF Finished, Cleared, Seg
  <2>3. /\ DOMAIN w = Memory
        /\ \A a \in Memory : w[a] = IF a \in (at + filesz) .. (at + filesz) + (size - filesz) - 1
                                    THEN 0 ELSE m[a]
    <3>1. 0 % 256 = 0
      OBVIOUS
    <3> QED BY <1>0, <1>1, <2>2, <3>1 DEF memset
  <2>4. ASSUME NEW j \in 0 .. st.seg - 1
        PROVE  Holding(w, Wanted(st.segs, j))
    <3>1. Holding(m, Wanted(st.segs, j))
      BY <1>0, <1>1
    <3>2. Sizes(Wanted(st.segs, j)) /\ EndOf(Wanted(st.segs, j)) <= at
      BY <1>0, <1>1, <1>4, EarlierBefore
    <3>3. \A a \in Memory : a < at => w[a] = m[a]
      BY <1>4, <2>3 DEF Memory
    <3>4. at \in Int
      OBVIOUS
    <3> QED BY <3>1, <3>2, <3>3, <3>4, HoldingKept
  <2>5. ASSUME NEW i \in 0 .. size - 1
        PROVE  w[at + i] = IF i < filesz THEN FileByte(g.offset + i) ELSE 0
    <3>1. /\ at + i \in at .. at + size - 1 /\ (at + i) - at = i
          /\ (i < filesz) <=> ~(at + i \in (at + filesz) .. (at + filesz) + (size - filesz) - 1)
      BY ONLY <1>4, i \in 0 .. size - 1
    <3>2. at + i \in Memory /\ m[at + i] = FileByte(g.offset + i)
      BY ONLY <1>5, <3>1
    <3> QED BY ONLY <2>3, <3>1, <3>2
  <2>6. Holding(w, g)
    BY ONLY <1>4, <2>5 DEF Holding
  <2>7. \A j \in 0 .. st.seg : j = st.seg \/ j \in 0 .. st.seg - 1
    BY <1>1
  <2> QED BY <1>0, <2>3, <2>4, <2>6, <2>7
<1> QED BY <1>6, <1>7

LEMMA NextSegmentRead ==
    ASSUME BootInv, next_segment
    PROVE  BootInv'
<1>1. /\ st = [x \in DOMAIN st |-> st[x]] /\ BootFields \subseteq DOMAIN st
      /\ st.fn = "bootmain" /\ st.pc = "readseg" /\ st.pa >= st.end_pa /\ KernelImage(st.segs)
      /\ DOMAIN st.mem = Memory /\ st.a20 /\ st.seg \in 0 .. Len(st.segs)
      /\ Len(st.segs) \in Nat
  BY DEF BootInv, next_segment, At, KernelImage
<1>2. PICK w : w = Finished
  OBVIOUS
<1>3. DOMAIN w = Memory /\ \A j \in 0 .. st.seg : Holding(w, Wanted(st.segs, j))
  BY <1>1, <1>2, SegmentDone
<1>4. CASE st' = [st EXCEPT !.pc = "done", !.ret = -1]
  <2>1. /\ st' = [x \in DOMAIN st' |-> st'[x]] /\ DOMAIN st' = DOMAIN st
        /\ st'.fn = "bootmain" /\ st'.pc = "done" /\ st'.segs = st.segs
        /\ st'.mem = st.mem /\ st'.ret = -1
    BY ONLY <1>1, <1>4 DEF BootFields
  <2>2. KernelLoaded'
    <3>1. -1 # 0
      OBVIOUS
    <3> QED BY ONLY <2>1, <3>1 DEF KernelLoaded, At
  <2> QED BY ONLY <1>1, <2>1, <2>2 DEF BootInv
<1>5. CASE /\ st.seg < Len(st.segs)
           /\ st' = readseg([st EXCEPT !.mem = Finished, !.seg = st.seg + 1], st.segs[st.seg + 1])
  <2>1. PICK k, g : k = st.seg + 1 /\ g = st.segs[k]
    OBVIOUS
  <2>2. /\ st' = [x \in DOMAIN st' |-> st'[x]] /\ DOMAIN st' = DOMAIN st
        /\ st'.fn = "bootmain" /\ st'.pc = "readseg" /\ st'.segs = st.segs /\ st'.a20 = st.a20
        /\ st'.mem = w /\ st'.seg = k /\ st'.pa = ROUNDDOWN(g.at, LdSect)
        /\ st'.end_pa = EndOf(g) /\ st'.sector = FirstSector(g.offset)
    <3>1. st' = [[st EXCEPT !.mem = w, !.seg = k] EXCEPT
                   !.pa = ROUNDDOWN(g.at, LdSect), !.end_pa = EndOf(g),
                   !.sector = FirstSector(g.offset)]
      BY <1>2, <1>5, <2>1 DEF readseg
    <3> QED BY ONLY <1>1, <3>1 DEF BootFields
  <2>3. k \in 1 .. Len(st.segs) /\ k \in 0 .. Len(st.segs) /\ k > 0 /\ g = Wanted(st.segs, k)
        /\ k - 1 = st.seg
    BY <1>1, <1>5, <2>1 DEF Wanted
  <2>4. Sizes(g) /\ (\E p \in Nat : g.at = p * LdSect) /\ (\E o \in Nat : g.offset = o * LdSect)
    BY ONLY <1>1, <2>3, WantedSizes
  <2>5. PICK p \in Nat, o \in Nat : g.at = p * LdSect /\ g.offset = o * LdSect
    BY ONLY <2>4
  <2>6. /\ g.at \in Nat /\ g.offset \in Nat /\ ROUNDDOWN(g.at, LdSect) = g.at
        /\ g.offset \div LdSect = o
    BY ONLY <2>5, LoaderSizes, SectorArithmetic
  <2>7. ReadingAt(g, p)'
    <3>1. FirstSector(g.offset) = o + 1 /\ o + 1 \in Nat /\ o + 1 > 0 /\ (o + 1) - 1 = o
      BY <2>6 DEF FirstSector
    <3>2. o * LdSect + g.at = g.offset + g.at
      BY ONLY <2>5
    <3>3. ReadTo(w, g, g.at)
      <4>1. \A a \in g.at .. g.at - 1 : FALSE
        BY <2>6
      <4> QED BY ONLY <4>1 DEF ReadTo
    <3>4. g.at <= g.at
      BY <2>6
    <3> QED BY ONLY <2>2, <2>5, <2>6, <3>1, <3>2, <3>3, <3>4 DEF ReadingAt
  <2>8. \E r \in Nat : ReadingAt(Wanted(st.segs, st.seg), r)'
    <3>1. Wanted(st.segs, st.seg)' = g
      BY ONLY <2>2, <2>3 DEF Wanted
    <3>2. ReadingAt(Wanted(st.segs, st.seg), p)'
      BY ONLY <2>7, <3>1 DEF ReadingAt
    <3> QED BY ONLY <3>2, p \in Nat, Zenon
  <2>9. KernelLoaded'
    BY ONLY <2>2 DEF KernelLoaded, At
  <2> QED BY ONLY <1>1, <1>3, <2>2, <2>3, <2>8, <2>9 DEF BootInv, Wanted
<1>6. CASE st.seg = Len(st.segs) /\ st' = [st EXCEPT !.pc = "done", !.mem = Finished]
  <2>1. /\ st' = [x \in DOMAIN st' |-> st'[x]] /\ DOMAIN st' = DOMAIN st
        /\ st'.fn = "bootmain" /\ st'.pc = "done" /\ st'.segs = st.segs
        /\ st'.mem = w
    BY ONLY <1>1, <1>2, <1>6 DEF BootFields
  <2>2. ASSUME NEW k \in DOMAIN st.segs
        PROVE  Holding(w, st.segs[k])
    <3>1. k \in 0 .. st.seg /\ Wanted(st.segs, k) = st.segs[k]
      BY <1>1, <1>6 DEF KernelImage, Wanted
    <3> QED BY <1>3, <3>1
  <2>3. ASSUME NEW a \in 0 .. LdHdr - 1
        PROVE  w[a] = FileByte(a)
    <3>1. 0 \in 0 .. st.seg /\ Wanted(st.segs, 0) = HeaderSeg
      BY <1>1 DEF Wanted
    <3>2. Holding(w, HeaderSeg)
      BY <1>3, <3>1
    <3>3. a \in Nat /\ 0 + a = a /\ a < LdHdr
      BY LoaderSizes
    <3>4. w[0 + a] = IF a < LdHdr THEN FileByte(0 + a) ELSE 0
      BY ONLY <3>2, a \in 0 .. LdHdr - 1 DEF Holding, HeaderSeg
    <3> QED BY ONLY <3>3, <3>4
  <2>4. KernelLoaded'
    BY ONLY <2>1, <2>2, <2>3 DEF KernelLoaded, Loaded, Holding
  <2> QED BY ONLY <1>1, <1>3, <2>1, <2>4 DEF BootInv
<1> QED BY <1>4, <1>5, <1>6 DEF next_segment

(* boot.S opens gate A20 before bootmain reads the header.                 *)
LEMMA BootStarted ==
    ASSUME BootInv, seta20 \/ protcseg
    PROVE  BootInv'
<1>1. /\ st = [x \in DOMAIN st |-> st[x]] /\ BootFields \subseteq DOMAIN st
      /\ st.fn = "bootmain" /\ KernelImage(st.segs) /\ Len(st.segs) \in Nat
      /\ DOMAIN st.mem = Memory /\ st.seg = 0
  BY DEF BootInv, seta20, protcseg, At, KernelImage
<1>2. CASE seta20
  <2>0. st' = [st EXCEPT !.pc = "protcseg", !.a20 = TRUE]
    BY <1>2 DEF seta20
  <2>1. /\ st' = [x \in DOMAIN st' |-> st'[x]] /\ DOMAIN st' = DOMAIN st
        /\ st'.fn = "bootmain" /\ st'.pc = "protcseg" /\ st'.segs = st.segs /\ st'.a20
        /\ st'.mem = st.mem /\ st'.seg = st.seg
    BY ONLY <1>1, <2>0 DEF BootFields
  <2>2. KernelLoaded'
    BY ONLY <2>1 DEF KernelLoaded, At
  <2> QED BY ONLY <1>1, <2>1, <2>2 DEF BootInv
<1>3. CASE protcseg
  <2>0. st.a20 /\ st' = [st EXCEPT !.pc = "readseg", !.pa = 0, !.end_pa = LdHdr, !.sector = 1]
    BY <1>3 DEF protcseg, At, BootInv
  <2>1. /\ st' = [x \in DOMAIN st' |-> st'[x]] /\ DOMAIN st' = DOMAIN st
        /\ st'.fn = "bootmain" /\ st'.pc = "readseg" /\ st'.segs = st.segs /\ st'.a20 = st.a20
        /\ st'.mem = st.mem /\ st'.seg = st.seg /\ st'.pa = 0 /\ st'.end_pa = LdHdr
        /\ st'.sector = 1
    BY ONLY <1>1, <2>0 DEF BootFields
  <2>2. KernelLoaded'
    BY ONLY <2>1 DEF KernelLoaded, At
  <2>3. \E r \in Nat : ReadingAt(Wanted(st.segs, st.seg), r)'
    <3>1. Wanted(st.segs, st.seg)' = HeaderSeg
      BY ONLY <1>1, <2>1 DEF Wanted
    <3>2. 0 = 0 * LdSect /\ (1 - 1) * LdSect + 0 = 0 + 0 /\ EndOf(HeaderSeg) = LdHdr
      BY LoaderSizes DEF EndOf, HeaderSeg
    <3>3. HeaderSeg.at = 0 /\ HeaderSeg.offset = 0
      BY DEF HeaderSeg
    <3>4. ReadTo(st.mem, HeaderSeg, 0)
      BY <3>3 DEF ReadTo
    <3>5. ReadingAt(Wanted(st.segs, st.seg), 0)'
      BY ONLY <2>1, <3>1, <3>2, <3>3, <3>4 DEF ReadingAt
    <3> QED BY ONLY <3>5, 0 \in Nat, Zenon
  <2>4. \A j \in 0 .. st'.seg - 1 : FALSE
    BY <1>1, <2>1
  <2>5. st'.seg \in 0 .. Len(st'.segs)
    BY <1>1, <2>1
  <2> QED BY ONLY <1>1, <2>0, <2>1, <2>2, <2>3, <2>4, <2>5 DEF BootInv
<1> QED BY <1>2, <1>3

-----------------------------------------------------------------------------
(* load_icode.  The segments are in the order of their addresses, below    *)
(* the stack, and no two of them share a page.                             *)
Program(segs) ==
    /\ Len(segs) \in Nat /\ DOMAIN segs = 1 .. Len(segs)
    /\ \A k \in 1 .. Len(segs) :
          /\ Sizes(segs[k]) /\ segs[k].memsz > 0 /\ EndOf(segs[k]) <= StackPage * LdPage
          /\ \A j \in 1 .. k - 1 : EndOf(segs[j]) <= RegionStart(segs[k].at)

(* The pages of a segment, and of the segments loaded before segment k     *)
Pages(g) == {a \div LdPage : a \in g.at .. EndOf(g) - 1}
Before(segs, k) == UNION {Pages(segs[j]) : j \in {i \in 1 .. k - 1 : segs[i].load}}

(* Segment g takes the pages from lo up to hi.                             *)
Takes(g, lo, hi) ==
    /\ lo <= hi /\ RegionStart(g.at) = lo * LdPage /\ ROUNDUP(EndOf(g), LdPage) = hi * LdPage
    /\ Pages(g) = lo .. hi - 1

LEMMA Region ==
    ASSUME NEW g, Sizes(g), g.memsz > 0
    PROVE  \E lo, hi \in Nat : Takes(g, lo, hi)
<1>0. LdPage \in Nat /\ LdPage > 0
  BY LoaderSizes
<1>1. PICK at \in Nat, end \in Nat : at = g.at /\ end = EndOf(g) /\ at < end
  BY DEF Sizes, EndOf
<1>2. PICK lo \in Nat : ROUNDDOWN(at, LdPage) = lo * LdPage /\ lo * LdPage <= at
                        /\ at < lo * LdPage + LdPage
  BY <1>0, PageArithmetic
<1>3. PICK top \in Nat : top = end + LdPage - 1
  BY <1>0
<1>4. PICK hi \in Nat : ROUNDDOWN(top, LdPage) = hi * LdPage /\ hi * LdPage <= top
                        /\ top < hi * LdPage + LdPage
  BY <1>0, PageArithmetic
<1>5. PICK x \in Nat, y \in Nat : x = lo * LdPage /\ y = hi * LdPage
  BY <1>0, PageArithmetic
<1>6. x <= at /\ at < x + LdPage /\ y < end + LdPage /\ end <= y /\ x < y
  BY ONLY <1>0, <1>1, <1>2, <1>3, <1>4, <1>5
<1>7. lo + 1 <= hi
  BY ONLY <1>0, <1>5, <1>6, PageArithmetic
<1>8. ASSUME NEW a \in at .. end - 1
      PROVE  a \div LdPage \in lo .. hi - 1
  <2>0. a \in Nat
    OBVIOUS
  <2>1. PICK q \in Nat : q * LdPage <= a /\ a < q * LdPage + LdPage /\ a \in Nat
    BY ONLY <1>0, <2>0, PageArithmetic
  <2>2. a \div LdPage = q
    BY ONLY <1>0, <2>1, PageArithmetic
  <2>3. PICK z \in Nat : z = q * LdPage
    BY <1>0, PageArithmetic
  <2>4. z < y /\ x < z + LdPage
    BY ONLY <1>0, <1>6, <2>1, <2>3, a \in at .. end - 1, at \in Nat, end \in Nat
  <2>5. z + LdPage = (q + 1) * LdPage /\ q + 1 \in Nat
    BY ONLY <1>0, <2>3, PageArithmetic
  <2>6. q + 1 <= hi
    BY ONLY <1>0, <1>5, <2>3, <2>4, PageArithmetic
  <2>7. lo + 1 <= q + 1
    BY ONLY <1>0, <1>5, <2>4, <2>5, PageArithmetic
  <2> QED BY ONLY <2>2, <2>6, <2>7, lo \in Nat, hi \in Nat, q \in Nat
<1>9. ASSUME NEW q \in lo .. hi - 1
      PROVE  \E a \in at .. end - 1 : q = a \div LdPage
  <2>1. PICK z \in Nat : z = q * LdPage
    BY <1>0, PageArithmetic
  <2>2. x <= z /\ z + LdPage <= y
    <3>1. x <= z
      BY ONLY <1>0, <1>5, <2>1, PageArithmetic, lo <= q, q \in Nat
    <3>2. q + 1 \in Nat /\ q + 1 <= hi /\ (q + 1) * LdPage = z + LdPage
      BY ONLY <1>0, <2>1, PageArithmetic, q \in lo .. hi - 1, lo \in Nat, hi \in Nat
    <3>3. z + LdPage <= y
      <4>1. (q + 1) * LdPage <= hi * LdPage
        BY ONLY <1>0, <3>2, PageArithmetic, hi \in Nat
      <4> QED BY ONLY <1>5, <3>2, <4>1
    <3> QED BY <3>1, <3>3
  <2>3. PICK a \in at .. end - 1 : z <= a /\ a < z + LdPage /\ a \in Nat
    <3>1. CASE z <= at
      BY ONLY <1>0, <1>1, <1>5, <1>6, <2>1, <2>2, <3>1
    <3>2. CASE ~(z <= at)
      <4>1. z < end
        BY ONLY <1>0, <1>5, <1>6, <1>1, <2>1, <2>2
      <4> QED BY ONLY <1>0, <1>1, <2>1, <3>2, <4>1
    <3> QED BY <3>1, <3>2
  <2>4. a \div LdPage = q
    <3>1. q \in Nat
      OBVIOUS
    <3> QED BY ONLY <1>0, <2>1, <2>3, <3>1, PageArithmetic
  <2> QED BY <2>4
<1>10. Pages(g) = lo .. hi - 1
  BY ONLY <1>1, <1>8, <1>9 DEF Pages
<1>11. RegionStart(g.at) = lo * LdPage /\ ROUNDUP(EndOf(g), LdPage) = hi * LdPage
  BY <1>1, <1>2, <1>3, <1>4 DEF RegionStart, ROUNDUP
<1>12. lo <= hi
  BY <1>7
<1> QED BY ONLY <1>10, <1>11, <1>12, lo \in Nat, hi \in Nat DEF Takes

(* A program's segments are below the page of the stack.                   *)
LEMMA StackApart ==
    ASSUME NEW segs, Program(segs), NEW k \in Nat
    PROVE  k <= Len(segs) + 1 => StackPage \notin Before(segs, k)
<1> SUFFICES ASSUME k <= Len(segs) + 1, NEW j \in 1 .. k - 1, StackPage \in Pages(segs[j])
             PROVE  FALSE
  BY DEF Before
<1>0. LdPage \in Nat /\ LdPage > 0 /\ StackPage \in Nat
  BY LoaderSizes DEF StackPage
<1>1. Sizes(segs[j]) /\ EndOf(segs[j]) <= StackPage * LdPage
  BY DEF Program
<1>2. PICK a \in segs[j].at .. EndOf(segs[j]) - 1 : StackPage = a \div LdPage
  BY DEF Pages
<1>3. PICK x \in Nat : x = StackPage * LdPage
  BY <1>0, PageArithmetic
<1>4. a \in Nat /\ a < x
  <2>1. PICK at \in Nat, end \in Nat : at = segs[j].at /\ end = EndOf(segs[j]) /\ end <= x
    <3>1. PICK g : g = segs[j]
      OBVIOUS
    <3>2. g.at \in Nat /\ EndOf(g) \in Nat
      <4>1. Sizes(g)
        BY ONLY <1>1, <3>1, Zenon
      <4> QED BY ONLY <4>1 DEF Sizes, EndOf
    <3>3. EndOf(g) <= x
      BY ONLY <1>1, <1>3, <3>1
    <3> QED BY ONLY <3>1, <3>2, <3>3, Zenon
  <2>2. a \in at .. end - 1
    BY <1>2, <2>1
  <2> QED BY ONLY <1>3, <2>1, <2>2
<1>5. PICK q \in Nat : q * LdPage <= a /\ a < q * LdPage + LdPage
  BY <1>0, <1>4, PageArithmetic
<1>6. q = StackPage
  BY ONLY <1>0, <1>2, <1>4, <1>5, PageArithmetic
<1> QED BY ONLY <1>3, <1>4, <1>5, <1>6

(* page_insert, as load_icode calls it, changes the page tables only: it   *)
(* maps the page, or uses up the last page.                                *)
MapsPage(s, t, page) ==
    /\ t = [x \in DOMAIN t |-> t[x]] /\ DOMAIN t = DOMAIN s
    /\ \A x \in DOMAIN s \ {"pages", "free", "tables"} : t[x] = s[x]
    /\ t.free \in Nat
    /\ t.pages = s.pages \cup {page} \/ (t.pages = s.pages /\ t.free = 0)

LEMMA Insertion ==
    ASSUME NEW s, s = [x \in DOMAIN s |-> s[x]], {"pages", "free", "tables"} \subseteq DOMAIN s,
           s.free \in Nat, NEW page, s.free # 0 \/ page \div LdTable \notin s.tables
    PROVE  MapsPage(s, Inserted(s, page), page)
<1>1. PICK table, t : table = page \div LdTable /\ t = Inserted(s, page)
  OBVIOUS
<1>2. CASE table \in s.tables
  <2>1. t = [s EXCEPT !.pages = s.pages \cup {page}, !.free = s.free - 1]
    BY <1>1, <1>2 DEF Inserted
  <2>2. s.free - 1 \in Nat
    BY <1>1, <1>2
  <2>3. MapsPage(s, t, page)
    BY ONLY <2>1, <2>2, s = [x \in DOMAIN s |-> s[x]],
            {"pages", "free", "tables"} \subseteq DOMAIN s DEF MapsPage
  <2> QED BY <1>1, <2>3
<1>3. CASE table \notin s.tables /\ s.free > 1
  <2>1. t = [s EXCEPT !.pages = s.pages \cup {page}, !.free = s.free - 2,
                      !.tables = s.tables \cup {table}]
    BY <1>1, <1>3 DEF Inserted
  <2>2. s.free - 2 \in Nat
    BY <1>3
  <2>3. MapsPage(s, t, page)
    BY ONLY <2>1, <2>2, s = [x \in DOMAIN s |-> s[x]],
            {"pages", "free", "tables"} \subseteq DOMAIN s DEF MapsPage
  <2> QED BY <1>1, <2>3
<1>4. CASE table \notin s.tables /\ ~(s.free > 1)
  <2>1. t = [s EXCEPT !.free = 0]
    BY <1>1, <1>4 DEF Inserted
  <2>3. MapsPage(s, t, page)
    BY ONLY <2>1, s = [x \in DOMAIN s |-> s[x]],
            {"pages", "free", "tables"} \subseteq DOMAIN s DEF MapsPage
  <2> QED BY <1>1, <2>3
<1> QED BY <1>2, <1>3, <1>4

IcodeFields == {"fn", "pc", "segs", "seg", "elf", "mem", "cr3", "free", "tables", "pages",
                "va", "end_va", "panic", "eip"}

(* The state of load_icode apart from its progress                         *)
IcodeState ==
    /\ st = [x \in DOMAIN st |-> st[x]] /\ IcodeFields \subseteq DOMAIN st
    /\ st.fn = "load_icode" /\ st.pc \in {"call", "segment", "region_alloc", "done"}
    /\ Program(st.segs) /\ DOMAIN st.mem = Memory /\ st.free \in Nat

(* The segments before this one are in memory.                             *)
EarlierLoaded(m) == \A j \in 1 .. st.seg - 1 : st.segs[j].load => Holding(m, st.segs[j])

(* region_alloc has come to page q of the pages lo to hi; a page that it   *)
(* could not map took the last free page.                                  *)
AllocAt(lo, hi, q) ==
    /\ Takes(Seg, lo, hi) /\ lo <= q /\ q <= hi
    /\ st.va = q * LdPage /\ st.end_va = hi * LdPage
    /\ Before(st.segs, st.seg) \subseteq st.pages
    /\ st.pages \subseteq Before(st.segs, st.seg) \cup (lo .. q - 1)
    /\ st.free = 0 \/ st.pages = Before(st.segs, st.seg) \cup (lo .. q - 1)

IcodeInv ==
    /\ IcodeState
    /\ st.pc = "call" => st.seg = 1 /\ st.pages = {} /\ ~st.panic
    /\ st.pc \in {"segment", "region_alloc"} =>
          /\ st.elf /\ ~st.panic /\ st.seg \in 1 .. Len(st.segs) + 1 /\ EarlierLoaded(st.mem)
    /\ st.pc = "segment" => st.pages = Before(st.segs, st.seg)
    /\ st.pc = "region_alloc" =>
          /\ st.seg <= Len(st.segs) /\ Seg.load
          /\ \E lo, hi, q \in Nat : AllocAt(lo, hi, q)
    /\ IcodeLoaded

(* It panics only when the image is bad or memory has run out.             *)
LEMMA PanicJustified ==
    ASSUME IcodeInv, Panics, ~st.elf \/ st.free = 0
    PROVE  IcodeInv'
<1>1. IcodeState
  BY DEF IcodeInv
<1>2. /\ st' = [x \in DOMAIN st' |-> st'[x]] /\ DOMAIN st' = DOMAIN st
      /\ st'.fn = "load_icode" /\ st'.pc = "done" /\ st'.segs = st.segs /\ st'.mem = st.mem
      /\ st'.free = st.free /\ st'.elf = st.elf /\ st'.panic
  BY ONLY <1>1, Panics DEF Panics, IcodeState, IcodeFields
<1>3. IcodeState'
  BY ONLY <1>1, <1>2 DEF IcodeState
<1>4. IcodeLoaded'
  BY ONLY <1>2, ~st.elf \/ st.free = 0 DEF IcodeLoaded, At
<1> QED BY ONLY <1>2, <1>3, <1>4 DEF IcodeInv

LEMMA IcodeCalled ==
    ASSUME IcodeInv, load_icode
    PROVE  IcodeInv'
<1>1. IcodeState /\ st.pc = "call" /\ st.seg = 1 /\ st.pages = {} /\ ~st.panic
  BY DEF IcodeInv, load_icode, At
<1>2. CASE ~st.elf
  BY <1>2, PanicJustified DEF load_icode
<1>3. CASE st.elf
  <2>1. st' = [st EXCEPT !.pc = "segment", !.cr3 = "env"]
    BY <1>3 DEF load_icode
  <2>2. /\ st' = [x \in DOMAIN st' |-> st'[x]] /\ DOMAIN st' = DOMAIN st
        /\ st'.fn = "load_icode" /\ st'.pc = "segment" /\ st'.segs = st.segs /\ st'.mem = st.mem
        /\ st'.free = st.free /\ st'.elf = st.elf /\ st'.panic = st.panic /\ st'.seg = 1
        /\ st'.pages = {}
    BY ONLY <1>1, <2>1 DEF IcodeState, IcodeFields
  <2>3. IcodeState'
    BY ONLY <1>1, <2>2 DEF IcodeState
  <2>4. IcodeLoaded'
    BY ONLY <2>2 DEF IcodeLoaded, At
  <2>5. 1 .. 1 - 1 = {} /\ 1 \in 1 .. Len(st.segs) + 1
    BY <1>1 DEF IcodeState, Program
  <2>6. Before(st.segs, 1) = {}
    BY ONLY <2>5 DEF Before
  <2>7. EarlierLoaded(st.mem)'
    BY ONLY <2>2, <2>5 DEF EarlierLoaded
  <2>8. st'.seg \in 1 .. Len(st'.segs) + 1 /\ st'.pages = Before(st'.segs, st'.seg)
    BY ONLY <2>2, <2>5, <2>6
  <2> QED BY ONLY <1>1, <1>3, <2>2, <2>3, <2>4, <2>7, <2>8 DEF IcodeInv
<1> QED BY <1>2, <1>3

(* Segments of other types are passed over, load segments get their pages. *)
LEMMA BeforeNext ==
    ASSUME NEW segs, NEW k \in Nat, k >= 1
    PROVE  Before(segs, k + 1) = IF segs[k].load THEN Before(segs, k) \cup Pages(segs[k])
                                 ELSE Before(segs, k)
<1>1. \A j : j \in 1 .. (k + 1) - 1 <=> (j \in 1 .. k - 1 \/ j = k)
  OBVIOUS
<1> QED BY ONLY <1>1 DEF Before

LEMMA SegmentBegun ==
    ASSUME IcodeInv, segment
    PROVE  IcodeInv'
<1>1. /\ IcodeState /\ st.pc = "segment" /\ st.elf /\ ~st.panic /\ Len(st.segs) \in Nat
      /\ st.seg \in 1 .. Len(st.segs) + 1 /\ EarlierLoaded(st.mem) /\ st.seg <= Len(st.segs)
      /\ st.pages = Before(st.segs, st.seg)
  BY DEF IcodeInv, segment, At, IcodeState, Program
<1>2. CASE Seg.load
  <2>1. PICK g : g = Seg
    OBVIOUS
  <2>2. st' = [st EXCEPT !.pc = "region_alloc", !.va = RegionStart(g.at),
                         !.end_va = ROUNDUP(EndOf(g), LdPage)]
    BY <1>2, <2>1 DEF segment
  <2>3. /\ st' = [x \in DOMAIN st' |-> st'[x]] /\ DOMAIN st' = DOMAIN st
        /\ st'.fn = "load_icode" /\ st'.pc = "region_alloc" /\ st'.segs = st.segs
        /\ st'.mem = st.mem /\ st'.free = st.free /\ st'.elf = st.elf /\ st'.panic = st.panic
        /\ st'.seg = st.seg /\ st'.pages = st.pages
        /\ st'.va = RegionStart(g.at) /\ st'.end_va = ROUNDUP(EndOf(g), LdPage)
    BY ONLY <1>1, <2>2 DEF IcodeState, IcodeFields
  <2>4. IcodeState'
    BY ONLY <1>1, <2>3 DEF IcodeState
  <2>5. IcodeLoaded'
    BY ONLY <2>3 DEF IcodeLoaded, At
  <2>6. Sizes(g) /\ g.memsz > 0
    BY <1>1, <2>1 DEF IcodeState, Program, Seg
  <2>7. PICK lo \in Nat, hi \in Nat : Takes(g, lo, hi)
    BY ONLY <2>6, Region
  <2>8. Seg' = g
    BY ONLY <2>1, <2>3 DEF Seg
  <2>9. AllocAt(lo, hi, lo)'
    <3>1. lo .. lo - 1 = {} /\ lo <= lo
      OBVIOUS
    <3>2. /\ lo <= hi /\ st'.va = lo * LdPage /\ st'.end_va = hi * LdPage
      BY ONLY <2>3, <2>7 DEF Takes
    <3> QED BY ONLY <1>1, <2>3, <2>7, <2>8, <3>1, <3>2 DEF AllocAt
  <2>10. \E a, b, c \in Nat : AllocAt(a, b, c)'
    BY ONLY <2>9, lo \in Nat, hi \in Nat, Zenon
  <2>11. Seg'.load
    BY ONLY <1>2, <2>1, <2>8
  <2>12. EarlierLoaded(st.mem)'
    BY ONLY <1>1, <2>3 DEF EarlierLoaded
  <2> QED BY ONLY <1>1, <2>3, <2>4, <2>5, <2>10, <2>11, <2>12 DEF IcodeInv
<1>3. CASE ~Seg.load
  <2>1. PICK k \in Nat : k = st.seg /\ k >= 1
    BY <1>1
  <2>2. st' = [st EXCEPT !.seg = k + 1]
    BY <1>3, <2>1 DEF segment
  <2>3. /\ st' = [x \in DOMAIN st' |-> st'[x]] /\ DOMAIN st' = DOMAIN st
        /\ st'.fn = "load_icode" /\ st'.pc = "segment" /\ st'.segs = st.segs
        /\ st'.mem = st.mem /\ st'.free = st.free /\ st'.elf = st.elf /\ st'.panic = st.panic
        /\ st'.seg = k + 1 /\ st'.pages = st.pages
    BY ONLY <1>1, <2>2 DEF IcodeState, IcodeFields
  <2>4. IcodeState'
    BY ONLY <1>1, <2>3 DEF IcodeState
  <2>5. IcodeLoaded'
    BY ONLY <2>3 DEF IcodeLoaded, At
  <2>6. ~st.segs[k].load
    BY <1>3, <2>1 DEF Seg
  <2>7. st.pages = Before(st.segs, k + 1)
    BY <1>1, <2>1, <2>6, BeforeNext
  <2>8. EarlierLoaded(st.mem)'
    <3>1. \A j \in 1 .. (k + 1) - 1 : j \in 1 .. k - 1 \/ j = k
      BY <2>1
    <3> QED BY ONLY <1>1, <2>1, <2>3, <2>6, <3>1 DEF EarlierLoaded
  <2>9. k + 1 \in 1 .. Len(st.segs) + 1
    BY <1>1, <2>1
  <2> QED BY ONLY <1>1, <2>3, <2>4, <2>5, <2>7, <2>8, <2>9 DEF IcodeInv
<1> QED BY <1>2, <1>3

(* What is written from the first page of this segment on leaves the       *)
(* earlier segments alone.                                                 *)
LEMMA EarlierKept ==
    ASSUME IcodeState, st.seg \in 1 .. Len(st.segs), EarlierLoaded(st.mem), NEW w,
           \A a \in Memory : a < RegionStart(Seg.at) => w[a] = st.mem[a]
    PROVE  EarlierLoaded(w)
<1> SUFFICES ASSUME NEW j \in 1 .. st.seg - 1, st.segs[j].load
             PROVE  Holding(w, st.segs[j])
  BY DEF EarlierLoaded
<1>1. PICK g, h, lo : g = st.segs[j] /\ h = Seg /\ lo = RegionStart(h.at)
  OBVIOUS
<1>2. Len(st.segs) \in Nat /\ j \in 1 .. Len(st.segs)
  BY DEF IcodeState, Program
<1>3. Sizes(g) /\ EndOf(g) <= lo /\ Sizes(h)
  BY <1>1, <1>2 DEF IcodeState, Program, Seg
<1>4. lo \in Int
  <2>1. PICK at \in Nat : at = h.at
    BY <1>3 DEF Sizes
  <2>2. at % LdPage \in Nat
    BY ONLY at \in Nat, LoaderSizes
  <2> QED BY <1>1, <2>1, <2>2 DEF RegionStart, ROUNDDOWN
<1>5. Holding(st.mem, g)
  BY <1>1 DEF EarlierLoaded
<1>6. \A a \in Memory : a < lo => w[a] = st.mem[a]
  BY <1>1
<1> QED BY ONLY <1>1, <1>3, <1>4, <1>5, <1>6, HoldingKept

LEMMA PageAllocated ==
    ASSUME IcodeInv, region_alloc
    PROVE  IcodeInv'
<1>1. /\ IcodeState /\ st.pc = "region_alloc" /\ st.elf /\ ~st.panic /\ Len(st.segs) \in Nat
      /\ st.seg \in 1 .. Len(st.segs) + 1 /\ EarlierLoaded(st.mem) /\ st.seg <= Len(st.segs)
      /\ Seg.load /\ st.va < st.end_va
  BY DEF IcodeInv, region_alloc, At, IcodeState, Program
<1>2. PICK lo \in Nat, hi \in Nat, q \in Nat : AllocAt(lo, hi, q)
  BY <1>1 DEF IcodeInv
<1>3. CASE st.free = 0
  BY <1>3, PanicJustified DEF region_alloc
<1>4. CASE st.free # 0
  <2>0. LdPage \in Nat /\ LdPage > 0
    BY LoaderSizes
  <2>1. PICK x \in Nat, z \in Nat : x = lo * LdPage /\ z = q * LdPage
    BY <2>0, PageArithmetic
  <2>2. x <= z /\ q + 1 <= hi /\ z + LdPage = (q + 1) * LdPage /\ z \div LdPage = q
    <3>1. z < hi * LdPage /\ lo <= q /\ st.va = z
      BY <1>1, <1>2, <2>1 DEF AllocAt
    <3>2. x <= z /\ q + 1 <= hi /\ z + LdPage = (q + 1) * LdPage
      BY ONLY <2>0, <2>1, <3>1, PageArithmetic, hi \in Nat, q \in Nat, lo \in Nat
    <3>3. z <= z /\ z < z + LdPage
      BY <2>0, <2>1
    <3>4. z \div LdPage = q
      BY ONLY <2>0, <2>1, <3>3, PageArithmetic, q \in Nat
    <3> QED BY <3>2, <3>4
  <2>3. PICK w, s : w = memset(st.mem, z, 0, LdPage)
                    /\ s = [st EXCEPT !.va = z + LdPage, !.mem = w]
    OBVIOUS
  <2>4. st' = Inserted(s, q)
    <3>1. st.va = z
      BY <1>2, <2>1 DEF AllocAt
    <3>2. ZeroPage(q) = w
      BY <2>1, <2>3 DEF ZeroPage
    <3> QED BY <1>4, <2>2, <2>3, <3>1, <3>2 DEF region_alloc
  <2>5. /\ s = [x_1 \in DOMAIN s |-> s[x_1]] /\ DOMAIN s = DOMAIN st
        /\ s.fn = "load_icode" /\ s.pc = "region_alloc" /\ s.segs = st.segs
        /\ s.mem = w /\ s.free = st.free /\ s.elf = st.elf /\ s.panic = st.panic
        /\ s.seg = st.seg /\ s.pages = st.pages /\ s.va = z + LdPage /\ s.end_va = st.end_va
    BY ONLY <1>1, <2>3 DEF IcodeState, IcodeFields
  <2>6. MapsPage(s, st', q)
    <3>1. s.free \in Nat /\ s.free # 0 /\ {"pages", "free", "tables"} \subseteq DOMAIN s
      BY <1>1, <1>4, <2>5 DEF IcodeState, IcodeFields
    <3> QED BY <2>4, <2>5, <3>1, Insertion
  <2>7. /\ st' = [x_1 \in DOMAIN st' |-> st'[x_1]] /\ DOMAIN st' = DOMAIN st
        /\ st'.fn = "load_icode" /\ st'.pc = "region_alloc" /\ st'.segs = st.segs
        /\ st'.mem = w /\ st'.elf = st.elf /\ st'.panic = st.panic
        /\ st'.seg = st.seg /\ st'.va = z + LdPage /\ st'.end_va = st.end_va
    <3>1. IcodeFields \subseteq DOMAIN st
      BY <1>1 DEF IcodeState
    <3> QED BY ONLY <2>5, <2>6, <3>1 DEF MapsPage, IcodeFields
  <2>8. st'.free \in Nat /\ (st'.pages = st.pages \cup {q} \/ (st'.pages = st.pages /\ st'.free = 0))
    BY ONLY <2>5, <2>6 DEF MapsPage
  <2>9. DOMAIN w = Memory /\ \A a \in Memory : a < x => w[a] = st.mem[a]
    <3>1. w = [a \in Memory |-> IF a \in z .. z + LdPage - 1 THEN 0 % 256 ELSE st.mem[a]]
      BY <1>1, <2>3 DEF memset, IcodeState
    <3>2. ASSUME NEW a \in Memory, a < x
          PROVE  a \notin z .. z + LdPage - 1
      BY <2>0, <2>1, <2>2, <3>2 DEF Memory
    <3> QED BY ONLY <3>1, <3>2
  <2>10. IcodeState'
    BY ONLY <1>1, <2>7, <2>8, <2>9 DEF IcodeState
  <2>11. IcodeLoaded'
    BY ONLY <2>7 DEF IcodeLoaded, At
  <2>12. EarlierLoaded(st.mem)'
    <3>1. RegionStart(Seg.at) = x
      BY <1>2, <2>1 DEF AllocAt, Takes
    <3>2. st.seg \in 1 .. Len(st.segs)
      BY <1>1
    <3>3. EarlierLoaded(w)
      BY ONLY <1>1, <2>9, <3>1, <3>2, EarlierKept
    <3> QED BY ONLY <2>7, <3>3 DEF EarlierLoaded
  <2>13. Seg' = Seg
    BY ONLY <2>7 DEF Seg
  <2>14. AllocAt(lo, hi, q + 1)'
    <3>1. PICK old, g : old = Before(st.segs, st.seg) /\ g = Seg
      OBVIOUS
    <3>2. /\ Takes(g, lo, hi) /\ lo <= q /\ st.end_va = hi * LdPage
          /\ old \subseteq st.pages /\ st.pages \subseteq old \cup (lo .. q - 1)
          /\ st.pages = old \cup (lo .. q - 1)
      BY <1>2, <1>4, <3>1 DEF AllocAt
    <3>3. lo .. (q + 1) - 1 = (lo .. q - 1) \cup {q} /\ lo <= q + 1
      BY <3>2
    <3>4. /\ old \subseteq st'.pages /\ st'.pages \subseteq old \cup (lo .. (q + 1) - 1)
          /\ st'.free = 0 \/ st'.pages = old \cup (lo .. (q + 1) - 1)
      BY ONLY <2>8, <3>2, <3>3
    <3> QED BY ONLY <2>2, <2>7, <2>13, <3>1, <3>2, <3>3, <3>4 DEF AllocAt
  <2>15. \E a, b, c \in Nat : AllocAt(a, b, c)'
    <3>1. q + 1 \in Nat
      OBVIOUS
    <3> QED BY ONLY <2>14, <3>1, lo \in Nat, hi \in Nat, Zenon
  <2> QED BY ONLY <1>1, <2>7, <2>10, <2>11, <2>12, <2>13, <2>15 DEF IcodeInv
<1> QED BY <1>3, <1>4

(* The segment is filled once every page of it is there.                   *)
LEMMA SegmentFilled ==
    ASSUME IcodeInv, fill
    PROVE  IcodeInv'
<1>1. /\ IcodeState /\ st.pc = "region_alloc" /\ st.elf /\ ~st.panic /\ Len(st.segs) \in Nat
      /\ st.seg \in 1 .. Len(st.segs) + 1 /\ EarlierLoaded(st.mem) /\ st.seg <= Len(st.segs)
      /\ Seg.load /\ st.va >= st.end_va
  BY DEF IcodeInv, fill, At, IcodeState, Program
<1>2. PICK lo \in Nat, hi \in Nat, q \in Nat : AllocAt(lo, hi, q)
  BY <1>1 DEF IcodeInv
<1>3. PICK g, m, k, old : g = Seg /\ m = st.mem /\ k = st.seg /\ old = Before(st.segs, st.seg)
  OBVIOUS
<1>4. q = hi
  <2>1. LdPage \in Nat /\ LdPage > 0 /\ ~(q * LdPage < hi * LdPage) /\ q <= hi
    <3>1. q * LdPage \in Nat /\ hi * LdPage \in Nat
      BY LoaderSizes, PageArithmetic
    <3>2. q * LdPage >= hi * LdPage /\ q <= hi
      BY <1>1, <1>2 DEF AllocAt
    <3> QED BY <3>1, <3>2, LoaderSizes
  <2>2. CASE q < hi
    <3>1. q + 1 <= hi
      BY <2>2
    <3>2. (q + 1) * LdPage <= hi * LdPage /\ (q + 1) * LdPage = q * LdPage + LdPage
          /\ q * LdPage \in Nat /\ hi * LdPage \in Nat
      BY ONLY <2>1, <3>1, PageArithmetic, q \in Nat, hi \in Nat, q + 1 \in Nat
    <3> QED BY ONLY <2>1, <3>2
  <2> QED BY <2>1, <2>2
<1>5. /\ Pages(g) = lo .. hi - 1 /\ old \subseteq st.pages /\ st.pages \subseteq old \cup Pages(g)
      /\ st.free = 0 \/ st.pages = old \cup Pages(g)
  BY <1>2, <1>3, <1>4 DEF AllocAt, Takes
<1>6. (\A a \in g.at .. EndOf(g) - 1 : a \div LdPage \in st.pages) <=> Pages(g) \subseteq st.pages
  BY DEF Pages
<1>7. CASE ~(Pages(g) \subseteq st.pages)
  <2>1. st.free = 0
    BY <1>5, <1>7
  <2> QED BY <1>3, <1>6, <1>7, <2>1, PanicJustified DEF fill
<1>8. CASE Pages(g) \subseteq st.pages
  <2>1. PICK w : w = Filled(g)
    OBVIOUS
  <2>2. st' = [st EXCEPT !.pc = "segment", !.mem = w, !.seg = k + 1]
    BY <1>3, <1>6, <1>8, <2>1 DEF fill
  <2>3. /\ st' = [x \in DOMAIN st' |-> st'[x]] /\ DOMAIN st' = DOMAIN st
        /\ st'.fn = "load_icode" /\ st'.pc = "segment" /\ st'.segs = st.segs
        /\ st'.mem = w /\ st'.free = st.free /\ st'.elf = st.elf /\ st'.panic = st.panic
        /\ st'.seg = k + 1 /\ st'.pages = st.pages
    BY ONLY <1>1, <2>2 DEF IcodeState, IcodeFields
  <2>4. Sizes(g) /\ k \in 1 .. Len(st.segs) /\ k \in Nat /\ k >= 1 /\ g = st.segs[k]
    BY <1>1, <1>3 DEF IcodeState, Program, Seg
  <2>5. PICK at \in Nat, size \in Nat, filesz \in Nat :
          /\ at = g.at /\ size = g.memsz /\ filesz = g.filesz /\ filesz <= size
          /\ at + size <= 2 * LdMB
    BY <2>4 DEF Sizes, EndOf
  <2>6. /\ DOMAIN w = Memory
        /\ \A a \in Memory : w[a] = IF a \in at .. at + filesz - 1
                                    THEN FileByte(g.offset + (a - at))
                                    ELSE IF a \in at .. at + size - 1 THEN 0 ELSE m[a]
    <3>1. PICK v : v = memset(m, at, 0, size)
      OBVIOUS
    <3>2. v = [a \in Memory |-> IF a \in at .. at + size - 1 THEN 0 % 256 ELSE m[a]]
      BY <1>1, <1>3, <3>1 DEF memset, IcodeState
    <3>3. 0 % 256 = 0
      OBVIOUS
    <3>4. w = [a \in DOMAIN v |-> IF a \in at .. at + filesz - 1
                                  THEN FileByte(g.offset + (a - at)) ELSE v[a]]
      BY <1>3, <2>1, <2>5, <3>1 DEF Filled, Copied
    <3> QED BY ONLY <3>2, <3>3, <3>4
  <2>7. ASSUME NEW i \in 0 .. size - 1
        PROVE  w[at + i] = IF i < filesz THEN FileByte(g.offset + i) ELSE 0
    <3>1. /\ at + i \in Memory /\ (at + i) - at = i /\ at + i \in at .. at + size - 1
          /\ (i < filesz) <=> at + i \in at .. at + filesz - 1
      BY <2>5, LoaderSizes DEF Memory
    <3> QED BY ONLY <2>6, <3>1
  <2>8. Holding(w, g)
    BY ONLY <2>5, <2>7 DEF Holding
  <2>9. EarlierLoaded(w)
    <3>1. PICK x \in Nat : x = lo * LdPage
      BY LoaderSizes, PageArithmetic
    <3>2. RegionStart(g.at) = x
      BY <1>2, <1>3, <3>1 DEF AllocAt, Takes
    <3>3. x <= at
      <4>1. at % LdPage \in Nat
        BY LoaderSizes
      <4> QED BY <2>5, <3>1, <3>2, <4>1 DEF RegionStart, ROUNDDOWN
    <3>4. ASSUME NEW a \in Memory, a < x
          PROVE  w[a] = m[a]
      <4>1. a \notin at .. at + filesz - 1 /\ a \notin at .. at + size - 1
        BY <2>5, <3>1, <3>3, <3>4 DEF Memory
      <4> QED BY ONLY <2>6, <4>1, a \in Memory
    <3>5. \A a \in Memory : a < RegionStart(Seg.at) => w[a] = st.mem[a]
      BY <1>3, <3>2, <3>4
    <3> QED BY ONLY <1>1, <1>3, <2>4, <3>5, EarlierKept
  <2>10. EarlierLoaded(st.mem)'
    <3>1. \A j \in 1 .. (k + 1) - 1 : j \in 1 .. k - 1 \/ j = k
      BY <2>4
    <3> QED BY ONLY <1>3, <2>3, <2>4, <2>8, <2>9, <3>1 DEF EarlierLoaded
  <2>11. st.pages = Before(st.segs, k + 1)
    <3>1. Before(st.segs, k + 1) = old \cup Pages(g)
      <4>1. st.segs[k].load
        BY <1>1, <1>3, <2>4
      <4> QED BY ONLY <1>3, <2>4, <4>1, BeforeNext
    <3> QED BY ONLY <1>5, <1>8, <3>1
  <2>12. IcodeState'
    BY ONLY <1>1, <2>3, <2>6 DEF IcodeState
  <2>13. IcodeLoaded'
    BY ONLY <2>3 DEF IcodeLoaded, At
  <2>14. k + 1 \in 1 .. Len(st.segs) + 1
    BY <1>1, <2>4
  <2> QED BY ONLY <1>1, <2>3, <2>10, <2>11, <2>12, <2>13, <2>14 DEF IcodeInv
<1> QED BY <1>7, <1>8

(* The stack's page comes last and belongs to no segment.                  *)
LEMMA StackAllocated ==
    ASSUME IcodeInv, stack
    PROVE  IcodeInv'
<1>1. /\ IcodeState /\ st.pc = "segment" /\ st.elf /\ ~st.panic /\ Len(st.segs) \in Nat
      /\ st.seg = Len(st.segs) + 1 /\ EarlierLoaded(st.mem)
      /\ st.pages = Before(st.segs, st.seg)
  BY DEF IcodeInv, stack, At, IcodeState, Program
<1>2. CASE st.free = 0 /\ StackPage \div LdTable \in st.tables
  BY <1>2, PanicJustified DEF stack
<1>3. CASE ~(st.free = 0 /\ StackPage \div LdTable \in st.tables)
  <2>1. PICK s : s = [st EXCEPT !.pc = "done", !.cr3 = "kern", !.eip = "entry"]
    OBVIOUS
  <2>2. st' = Inserted(s, StackPage)
    BY <1>3, <2>1 DEF stack
  <2>3. /\ s = [x \in DOMAIN s |-> s[x]] /\ DOMAIN s = DOMAIN st
        /\ s.fn = "load_icode" /\ s.pc = "done" /\ s.segs = st.segs
        /\ s.mem = st.mem /\ s.free = st.free /\ s.elf = st.elf /\ s.panic = st.panic
        /\ s.seg = st.seg /\ s.pages = st.pages /\ s.tables = st.tables /\ s.cr3 = "kern"
        /\ s.eip = "entry"
    BY ONLY <1>1, <2>1 DEF IcodeState, IcodeFields
  <2>4. MapsPage(s, st', StackPage)
    <3>1. s.free \in Nat /\ {"pages", "free", "tables"} \subseteq DOMAIN s
          /\ (s.free # 0 \/ StackPage \div LdTable \notin s.tables)
      BY <1>1, <1>3, <2>3 DEF IcodeState, IcodeFields
    <3> QED BY ONLY <2>2, <2>3, <3>1, Insertion
  <2>5. /\ st' = [x \in DOMAIN st' |-> st'[x]] /\ DOMAIN st' = DOMAIN st
        /\ st'.fn = "load_icode" /\ st'.pc = "done" /\ st'.segs = st.segs
        /\ st'.mem = st.mem /\ st'.elf = st.elf /\ st'.panic = st.panic
        /\ st'.cr3 = "kern" /\ st'.eip = "entry"
    <3>1. IcodeFields \subseteq DOMAIN st
      BY <1>1 DEF IcodeState
    <3> QED BY ONLY <2>3, <2>4, <3>1 DEF MapsPage, IcodeFields
  <2>6. st'.free \in Nat
        /\ (st'.pages = st.pages \cup {StackPage} \/ (st'.pages = st.pages /\ st'.free = 0))
    BY ONLY <2>3, <2>4 DEF MapsPage
  <2>7. IcodeState'
    BY ONLY <1>1, <2>5, <2>6 DEF IcodeState
  <2>8. StackPage \notin st.pages
    <3>1. st.seg \in Nat /\ st.seg <= Len(st.segs) + 1
      BY <1>1
    <3> QED BY <1>1, <3>1, StackApart DEF IcodeState
  <2>9. PICK loads : loads = {k \in DOMAIN st.segs : st.segs[k].load}
    OBVIOUS
  <2>10. loads = {i \in 1 .. st.seg - 1 : st.segs[i].load}
    <3>1. DOMAIN st.segs = 1 .. st.seg - 1
      BY <1>1 DEF IcodeState, Program
    <3> QED BY <2>9, <3>1
  <2>11. {a \div LdPage : a \in UNION {st.segs[k].at .. EndOf(st.segs[k]) - 1 : k \in loads}}
         = st.pages
    <3>1. st.pages = UNION {Pages(st.segs[j]) : j \in loads}
      BY <1>1, <2>10 DEF Before
    <3> QED BY ONLY <3>1 DEF Pages
  <2>12. \A k \in loads : Holding(st.mem, st.segs[k])
    BY <1>1, <2>10 DEF EarlierLoaded
  <2>13. st'.pages \ {StackPage} = st.pages /\ (StackPage \in st'.pages \/ st'.free = 0)
    BY ONLY <2>6, <2>8
  <2>14. IcodeLoaded'
    <3>1. ~st'.panic /\ st'.elf
      BY ONLY <1>1, <2>5
    <3> QED BY ONLY <2>5, <2>9, <2>11, <2>12, <2>13, <3>1 DEF IcodeLoaded, At, Loaded, Holding
  <2> QED BY ONLY <2>5, <2>7, <2>14 DEF IcodeInv
<1> QED BY <1>2, <1>3

-----------------------------------------------------------------------------
(* Both loaders                                                            *)
LoaderInv == BootInv \/ IcodeInv

(* The images of the program satisfy what the invariants ask of them.      *)
LEMMA KernelLinked ==
    ASSUME NEW segs \in KernelSegs, Proper(segs)
    PROVE  KernelImage(segs)
<1>1. PICK m1 \in 1 .. 2 * LdSect, f1 \in 1 .. 2 * LdSect, m2 \in 1 .. 2 * LdSect,
           f2 \in 0 .. 2 * LdSect :
        segs = KernelFile(m1, f1, m2, f2)
  BY DEF KernelSegs
<1>2. PICK g, h : g = segs[1] /\ h = segs[2]
  OBVIOUS
<1>3. /\ Len(segs) = 2 /\ DOMAIN segs = 1 .. 2
      /\ g = Segment(LdMB, m1, f1, LdHdr, TRUE)
      /\ h = Segment(LdMB + 2 * LdSect, m2, f2, LdHdr + 2 * LdSect, TRUE)
  BY ONLY <1>1, <1>2 DEF KernelFile
<1>4. /\ g.at = LdMB /\ g.memsz = m1 /\ g.filesz = f1 /\ g.offset = LdHdr /\ EndOf(g) = LdMB + m1
      /\ h.at = LdMB + 2 * LdSect /\ h.memsz = m2 /\ h.filesz = f2
      /\ h.offset = LdHdr + 2 * LdSect /\ EndOf(h) = LdMB + 2 * LdSect + m2
  BY ONLY <1>3 DEF Segment, EndOf
<1>5. f1 <= m1 /\ f2 <= m2
  BY <1>2, <1>4 DEF Proper
<1>6. Sizes(g) /\ LdHdr <= g.at /\ Sizes(h) /\ LdHdr <= h.at /\ EndOf(g) <= h.at
  BY ONLY <1>4, <1>5, LoaderSizes, m1 \in 1 .. 2 * LdSect, f1 \in 1 .. 2 * LdSect,
          m2 \in 1 .. 2 * LdSect, f2 \in 0 .. 2 * LdSect DEF Sizes
<1>7. PICK b \in Nat, d \in Nat : LdMB = b * LdSect /\ LdHdr = d * LdSect
  BY LoaderSizes
<1>8. b + 2 \in Nat /\ d + 2 \in Nat /\ h.at = (b + 2) * LdSect /\ h.offset = (d + 2) * LdSect
  <2>1. \A i \in Nat, n \in Nat : i * n + 2 * n = (i + 2) * n
    BY SMT
  <2> QED BY ONLY <1>4, <1>7, <2>1, LoaderSizes, b \in Nat, d \in Nat
<1>9. ASSUME NEW k \in 1 .. 2
      PROVE  /\ Sizes(segs[k]) /\ LdHdr <= segs[k].at
             /\ \E p \in Nat : segs[k].at = p * LdSect
             /\ \E o \in Nat : segs[k].offset = o * LdSect
             /\ \A j \in 1 .. k - 1 : EndOf(segs[j]) <= segs[k].at
  <2>1. CASE k = 1
    <3>1. 1 .. 1 - 1 = {}
      OBVIOUS
    <3> QED BY ONLY <1>2, <1>4, <1>6, <1>7, <2>1, <3>1
  <2>2. CASE k = 2
    <3>1. \A j \in 1 .. 2 - 1 : j = 1
      OBVIOUS
    <3> QED BY ONLY <1>2, <1>6, <1>8, <2>2, <3>1
  <2> QED BY <2>1, <2>2
<1> QED BY ONLY <1>3, <1>9, 2 \in Nat DEF KernelImage

LEMMA UserLinked ==
    ASSUME NEW segs \in UserSegs, Proper(segs)
    PROVE  Program(segs)
<1>1. PICK a \in 0 .. LdPage - 1, m1 \in 1 .. LdPage + 1, f1 \in 0 .. LdPage + 1,
           m2 \in 1 .. 2 * LdPage, f2 \in 0 .. LdPage, load \in BOOLEAN :
        segs = UserFile(a, m1, f1, m2, f2, load)
  BY DEF UserSegs
<1>2. PICK g, h : g = segs[1] /\ h = segs[2]
  OBVIOUS
<1>3. /\ Len(segs) = 2 /\ DOMAIN segs = 1 .. 2
      /\ g = Segment(a, m1, f1, 2, load) /\ h = Segment(2 * LdPage + a, m2, f2, 7, TRUE)
  BY ONLY <1>1, <1>2 DEF UserFile
<1>4. /\ g.at = a /\ g.memsz = m1 /\ g.filesz = f1 /\ g.offset = 2 /\ EndOf(g) = a + m1
      /\ h.at = 2 * LdPage + a /\ h.memsz = m2 /\ h.filesz = f2
      /\ h.offset = 7 /\ EndOf(h) = 2 * LdPage + a + m2
  BY ONLY <1>3 DEF Segment, EndOf
<1>5. f1 <= m1 /\ f2 <= m2 /\ EndOf(g) <= RegionStart(h.at)
  BY <1>2, <1>4 DEF Proper, RegionStart
<1>6. Sizes(g) /\ Sizes(h) /\ g.memsz > 0 /\ h.memsz > 0
      /\ EndOf(g) <= 5 * LdPage /\ EndOf(h) <= 5 * LdPage
  BY ONLY <1>4, <1>5, LoaderSizes, a \in 0 .. LdPage - 1, m1 \in 1 .. LdPage + 1,
          f1 \in 0 .. LdPage + 1, m2 \in 1 .. 2 * LdPage, f2 \in 0 .. LdPage DEF Sizes
<1>7. EndOf(g) <= StackPage * LdPage /\ EndOf(h) <= StackPage * LdPage
  <2>1. StackPage \in Nat /\ 5 <= StackPage /\ LdPage \in Nat /\ LdPage > 0
    BY LoaderSizes DEF StackPage
  <2>2. 5 * LdPage <= StackPage * LdPage
    BY ONLY <2>1, PageArithmetic, 5 \in Nat
  <2>3. PICK x \in Nat : x = StackPage * LdPage
    BY <2>1, PageArithmetic
  <2>4. EndOf(g) \in Nat /\ EndOf(h) \in Nat
    BY <1>6 DEF Sizes, EndOf
  <2> QED BY ONLY <1>6, <2>1, <2>2, <2>3, <2>4
<1>8. ASSUME NEW k \in 1 .. 2
      PROVE  /\ Sizes(segs[k]) /\ segs[k].memsz > 0 /\ EndOf(segs[k]) <= StackPage * LdPage
             /\ \A j \in 1 .. k - 1 : EndOf(segs[j]) <= RegionStart(segs[k].at)
  <2>1. CASE k = 1
    <3>1. 1 .. 1 - 1 = {}
      OBVIOUS
    <3> QED BY ONLY <1>2, <1>6, <1>7, <2>1, <3>1
  <2>2. CASE k = 2
    <3>1. \A j \in 1 .. 2 - 1 : j = 1
      OBVIOUS
    <3> QED BY ONLY <1>2, <1>5, <1>6, <1>7, <2>2, <3>1
  <2> QED BY <2>1, <2>2
<1> QED BY ONLY <1>3, <1>8, 2 \in Nat DEF Program

LEMMA LoaderStarts == LoaderInit => LoaderInv
<1>0. DOMAIN Unwritten = Memory
  BY DEF Unwritten, Memory
<1>1. ASSUME NEW segs \in KernelSegs, Proper(segs), NEW elf \in BOOLEAN,
             st = [fn |-> "bootmain", pc |-> "start", segs |-> segs, elf |-> elf, a20 |-> FALSE,
                   mem |-> Unwritten, seg |-> 0, pa |-> 0, end_pa |-> 0, sector |-> 0, ret |-> 0]
      PROVE  BootInv
  <2>1. KernelImage(segs)
    BY <1>1, KernelLinked
  <2>2. /\ st = [x \in DOMAIN st |-> st[x]] /\ BootFields \subseteq DOMAIN st
        /\ st.fn = "bootmain" /\ st.pc = "start" /\ st.segs = segs /\ st.mem = Unwritten
        /\ st.seg = 0
    BY ONLY <1>1 DEF BootFields
  <2>3. KernelLoaded
    BY ONLY <2>2 DEF KernelLoaded, At
  <2> QED BY ONLY <1>0, <2>1, <2>2, <2>3 DEF BootInv
<1>2. ASSUME NEW segs \in UserSegs, Proper(segs), NEW elf \in BOOLEAN, NEW free \in 0 .. LdFree,
             st = [fn |-> "load_icode", pc |-> "call", segs |-> segs, seg |-> 1, elf |-> elf,
                   mem |-> Unwritten, cr3 |-> "kern", free |-> free, tables |-> {}, pages |-> {},
                   va |-> 0, end_va |-> 0, panic |-> FALSE, eip |-> "none"]
      PROVE  IcodeInv
  <2>1. Program(segs)
    BY <1>2, UserLinked
  <2>2. /\ st = [x \in DOMAIN st |-> st[x]] /\ IcodeFields \subseteq DOMAIN st
        /\ st.fn = "load_icode" /\ st.pc = "call" /\ st.segs = segs /\ st.mem = Unwritten
        /\ st.seg = 1 /\ st.pages = {} /\ ~st.panic /\ st.free = free
    BY ONLY <1>2 DEF IcodeFields
  <2>3. IcodeLoaded
    BY ONLY <2>2 DEF IcodeLoaded, At
  <2>4. free \in Nat
    BY LoaderAssumption
  <2>5. IcodeState
    BY ONLY <1>0, <2>1, <2>2, <2>4 DEF IcodeState
  <2> QED BY ONLY <2>2, <2>3, <2>5 DEF IcodeInv
<1> QED BY <1>1, <1>2 DEF LoaderInit, LoaderInv

(* A step of one loader is no step of the other.                           *)
LEMMA LoaderSteps == LoaderInv /\ [LoaderNext]_st => LoaderInv'
<1>1. ASSUME BootInv, LoaderNext
      PROVE  BootInv'
  <2>1. st.fn = "bootmain"
    BY <1>1 DEF BootInv
  <2>2. ~(load_icode \/ segment \/ region_alloc \/ fill \/ stack)
    BY ONLY <2>1 DEF load_icode, segment, region_alloc, fill, stack, At
  <2> QED BY <1>1, <2>2, BootStarted, SectorRead, NextSegmentRead DEF LoaderNext
<1>2. ASSUME IcodeInv, LoaderNext
      PROVE  IcodeInv'
  <2>1. st.fn = "load_icode"
    BY <1>2 DEF IcodeInv, IcodeState
  <2>2. ~(seta20 \/ protcseg \/ readsect \/ next_segment)
    BY ONLY <2>1 DEF seta20, protcseg, readsect, next_segment, At
  <2> QED BY <1>2, <2>2, IcodeCalled, SegmentBegun, PageAllocated, SegmentFilled, StackAllocated
          DEF LoaderNext
<1>3. ASSUME UNCHANGED st
      PROVE  (BootInv => BootInv') /\ (IcodeInv => IcodeInv')
  <2>1. BootInv => BootInv'
    BY ONLY <1>3 DEF BootInv, KernelLoaded, Loaded, At, ReadingAt, Wanted
  <2>2. IcodeInv => IcodeInv'
    <3>1. /\ IcodeState' = IcodeState /\ IcodeLoaded' = IcodeLoaded /\ Seg' = Seg
          /\ EarlierLoaded(st.mem)' = EarlierLoaded(st.mem)
      BY ONLY <1>3 DEF IcodeState, IcodeLoaded, Loaded, At, EarlierLoaded, Seg
    <3>2. \A lo, hi, q : AllocAt(lo, hi, q)' = AllocAt(lo, hi, q)
      BY ONLY <1>3 DEF AllocAt, Seg
    <3> QED BY ONLY <1>3, <3>1, <3>2 DEF IcodeInv
  <2> QED BY <2>1, <2>2
<1> QED BY <1>1, <1>2, <1>3 DEF LoaderInv

(* ProgramsLoaded, for every size of sectors, pages and page tables and    *)
(* every amount of free memory: what bootmain (boot/main.c) and load_icode *)
(* (kern/env.c) leave in memory is the program's image, each segment's     *)
(* bytes of the file and then zeros, and load_icode panics only for a bad  *)
(* image or when memory has run out.                                       *)
THEOREM LoadersCorrect == LoaderSpec => []ProgramsLoaded
<1>1. LoaderInv => ProgramsLoaded
  <2>1. BootInv => st.fn = "bootmain" /\ KernelLoaded
    BY DEF BootInv
  <2>2. IcodeInv => st.fn = "load_icode" /\ IcodeLoaded
    BY DEF IcodeInv, IcodeState
  <2>3. st.fn = "bootmain" => IcodeLoaded
    BY DEF IcodeLoaded, At
  <2>4. st.fn = "load_icode" => KernelLoaded
    BY DEF KernelLoaded, At
  <2> QED BY ONLY <2>1, <2>2, <2>3, <2>4 DEF LoaderInv, ProgramsLoaded
<1> QED BY <1>1, LoaderStarts, LoaderSteps, PTL DEF LoaderSpec

-----------------------------------------------------------------------------
(* memmove.                                                                *)

MoveFields == {"fn", "pc", "mem", "old", "dst", "src", "n", "k", "back", "unit", "ret"}

(* In m the bytes from lo up to hi have their final value, and the others  *)
(* the one they had.                                                       *)
MovedBetween(m, lo, hi) ==
    m = [a \in DOMAIN st.old |-> IF lo <= a /\ a < hi THEN st.old[st.src + (a - st.dst)]
                                 ELSE st.old[a]]

(* The operands of the move, all inside memory                             *)
MoveState ==
    /\ st = [x \in DOMAIN st |-> st[x]] /\ MoveFields \subseteq DOMAIN st
    /\ st.fn = "memmove" /\ st.pc \in {"call", "rep", "done"}
    /\ DOMAIN st.old = 0 .. StrMem - 1
    /\ st.dst \in Nat /\ st.src \in Nat /\ st.n \in Nat
    /\ st.dst + st.n <= StrMem /\ st.src + st.n <= StrMem

(* k of the N units are moved: the first ones, or the last ones when the   *)
(* destination begins inside the source.                                   *)
MovedUnits(N) ==
    /\ st.unit \in Nat /\ st.unit > 0 /\ N * st.unit = st.n /\ st.n \div st.unit = N
    /\ st.k \in Nat /\ st.k <= N
    /\ st.back \in BOOLEAN
    /\ st.back => st.src < st.dst
                  /\ MovedBetween(st.mem, st.dst + (N - st.k) * st.unit, st.dst + st.n)
    /\ ~st.back => (st.src >= st.dst \/ st.src + st.n <= st.dst)
                   /\ MovedBetween(st.mem, st.dst, st.dst + st.k * st.unit)

MoveInv ==
    /\ MoveState
    /\ st.pc = "call" => st.mem = st.old /\ st.old = [a \in DOMAIN st.old |-> st.old[a]] /\ st.k = 0
    /\ st.pc = "rep" => \E N \in Nat : MovedUnits(N)
    /\ MovedAsAWhole

LEMMA MoveStarts == MoveInit => MoveInv
<1> SUFFICES ASSUME MoveInit PROVE MoveInv
  OBVIOUS
<1>0. PICK m : m = [a \in 0 .. StrMem - 1 |-> a]
  OBVIOUS
<1>1. PICK dst \in 0 .. StrMem - 1, src \in 0 .. StrMem - 1, n \in 0 .. StrMem :
        /\ dst + n <= StrMem /\ src + n <= StrMem /\ m = [a \in 0 .. StrMem - 1 |-> a]
        /\ st = [fn |-> "memmove", pc |-> "call", mem |-> m, old |-> m,
                 dst |-> dst, src |-> src, n |-> n, k |-> 0, back |-> FALSE, unit |-> 1, ret |-> 0]
  BY <1>0 DEF MoveInit
<1>2. /\ st = [x \in DOMAIN st |-> st[x]] /\ MoveFields \subseteq DOMAIN st
      /\ st.fn = "memmove" /\ st.pc = "call" /\ st.mem = m /\ st.old = m /\ st.dst = dst
      /\ st.src = src /\ st.n = n /\ st.k = 0
  BY ONLY <1>1 DEF MoveFields
<1>3. DOMAIN m = 0 .. StrMem - 1 /\ m = [a \in DOMAIN m |-> m[a]]
  BY ONLY <1>1
<1>4. dst \in Nat /\ src \in Nat /\ n \in Nat
  BY <1>1, StringsAssumption
<1>5. MoveState
  BY ONLY <1>1, <1>2, <1>3, <1>4 DEF MoveState
<1>6. MovedAsAWhole
  BY ONLY <1>2 DEF MovedAsAWhole, At
<1> QED BY ONLY <1>2, <1>3, <1>5, <1>6 DEF MoveInv

LEMMA WholeUnits ==
    ASSUME NEW n \in Nat, NEW u \in Nat, u > 0, n % u = 0
    PROVE  n \div u \in Nat /\ (n \div u) * u = n
BY SMT

LEMMA MoveCalled ==
    ASSUME MoveInv, memmove
    PROVE  MoveInv'
<1>1. /\ MoveState /\ st.pc = "call" /\ st.mem = st.old /\ st.k = 0
      /\ st.old = [a \in DOMAIN st.old |-> st.old[a]]
  BY DEF MoveInv, memmove, At
<1>2. PICK b, u : b = Backwards /\ u = Unit
  OBVIOUS
<1>3. st' = [st EXCEPT !.pc = "rep", !.back = b, !.unit = u]
  BY <1>2 DEF memmove
<1>4. /\ st' = [x \in DOMAIN st' |-> st'[x]] /\ DOMAIN st' = DOMAIN st
      /\ st'.fn = "memmove" /\ st'.pc = "rep" /\ st'.mem = st.mem /\ st'.old = st.old
      /\ st'.dst = st.dst /\ st'.src = st.src /\ st'.n = st.n /\ st'.k = st.k
      /\ st'.back = b /\ st'.unit = u
  BY ONLY <1>1, <1>3 DEF MoveState, MoveFields
<1>5. MoveState'
  BY ONLY <1>1, <1>4 DEF MoveState
<1>6. MovedAsAWhole'
  BY ONLY <1>4 DEF MovedAsAWhole, At
<1>7. PICK n \in Nat, src \in Nat, dst \in Nat : n = st.n /\ src = st.src /\ dst = st.dst
  BY <1>1 DEF MoveState
<1>8. u \in Nat /\ u > 0 /\ n % u = 0
  <2>1. n % 1 = 0
    OBVIOUS
  <2>2. u = 1 \/ (u = StrWord /\ n % StrWord = 0)
    BY <1>2, <1>7 DEF Unit
  <2> QED BY <2>1, <2>2, StringsAssumption
<1>9. PICK N \in Nat : N = n \div u /\ N * u = n
  BY ONLY <1>8, WholeUnits, n \in Nat
<1>10. b \in BOOLEAN /\ (b => src < dst) /\ (~b => src >= dst \/ src + n <= dst)
  <2>1. Backwards \in BOOLEAN
    BY DEF Backwards
  <2>2. (Backwards => src < dst) /\ (~Backwards => src >= dst \/ src + n <= dst)
    BY <1>7 DEF Backwards
  <2> QED BY ONLY <1>2, <2>1, <2>2, Zenon
<1>11. MovedUnits(N)'
  <2>1. 0 \in Nat /\ 0 <= N /\ N - 0 = N /\ dst + 0 * u = dst
    BY <1>8
  <2>2. DOMAIN st.old = 0 .. StrMem - 1
    BY <1>1 DEF MoveState
  <2>3. \A a \in DOMAIN st.old : ~(dst <= a /\ a < dst) /\ ~(dst + n <= a /\ a < dst + n)
    BY <2>2, StringsAssumption
  <2>4. MovedBetween(st.mem, dst + n, dst + n) /\ MovedBetween(st.mem, dst, dst)
    BY ONLY <1>1, <2>3 DEF MovedBetween
  <2>5. MovedBetween(st.mem, st.dst + (N - st.k) * st.unit, st.dst + st.n)'
    <3>1. st'.dst + (N - st'.k) * st'.unit = dst + n
      BY ONLY <1>1, <1>4, <1>7, <1>9, <2>1
    <3> QED BY ONLY <1>4, <1>7, <2>4, <3>1 DEF MovedBetween
  <2>6. MovedBetween(st.mem, st.dst, st.dst + st.k * st.unit)'
    <3>1. st'.dst + st'.k * st'.unit = dst
      BY ONLY <1>1, <1>4, <1>7, <2>1
    <3> QED BY ONLY <1>4, <1>7, <2>4, <3>1 DEF MovedBetween
  <2> QED BY ONLY <1>1, <1>4, <1>7, <1>8, <1>9, <1>10, <2>1, <2>5, <2>6 DEF MovedUnits
<1>12. \E M \in Nat : MovedUnits(M)'
  BY ONLY <1>11, N \in Nat, Zenon
<1> QED BY ONLY <1>4, <1>5, <1>6, <1>12 DEF MoveInv

(* The next unit is read before any byte of it is overwritten.             *)
LEMMA UnitMoved ==
    ASSUME MoveInv, movs
    PROVE  MoveInv'
<1>1. MoveState /\ st.pc = "rep" /\ st.k < st.n \div st.unit
  BY DEF MoveInv, movs, At
<1>2. PICK N \in Nat : MovedUnits(N)
  BY <1>1 DEF MoveInv
<1>3. PICK n \in Nat, src \in Nat, dst \in Nat, u \in Nat, k \in Nat :
        /\ n = st.n /\ src = st.src /\ dst = st.dst /\ u = st.unit /\ k = st.k /\ u > 0
        /\ N * u = n /\ st.n \div st.unit = N /\ k < N /\ dst + n <= StrMem /\ src + n <= StrMem
  BY <1>1, <1>2 DEF MoveState, MovedUnits
<1>4. PICK i, w, m, old :
        /\ i = (IF st.back THEN N - 1 - k ELSE k) * u
        /\ m = st.mem /\ w = Moved(m, i) /\ old = st.old
  OBVIOUS
<1>5. st' = [st EXCEPT !.k = k + 1, !.mem = w]
  BY <1>3, <1>4 DEF movs
<1>6. /\ st' = [x \in DOMAIN st' |-> st'[x]] /\ DOMAIN st' = DOMAIN st
      /\ st'.fn = "memmove" /\ st'.pc = "rep" /\ st'.mem = w /\ st'.old = st.old
      /\ st'.dst = st.dst /\ st'.src = st.src /\ st'.n = st.n /\ st'.k = k + 1
      /\ st'.back = st.back /\ st'.unit = st.unit
  BY ONLY <1>1, <1>5 DEF MoveState, MoveFields
<1>7. MoveState'
  BY ONLY <1>1, <1>6 DEF MoveState
<1>8. MovedAsAWhole'
  BY ONLY <1>6 DEF MovedAsAWhole, At
<1>9. /\ DOMAIN old = 0 .. StrMem - 1 /\ StrMem \in Nat /\ st.back \in BOOLEAN
  BY <1>1, <1>2, <1>4, StringsAssumption DEF MoveState, MovedUnits
<1>10. k < N /\ u > 0 /\ dst + n <= StrMem /\ src + n <= StrMem
  BY <1>3
<1>11. CASE ~st.back
  <2>1. /\ src >= dst \/ src + n <= dst
        /\ m = [a \in DOMAIN old |-> IF dst <= a /\ a < dst + k * u THEN old[src + (a - dst)] ELSE old[a]]
    BY <1>2, <1>3, <1>4, <1>11 DEF MovedUnits, MovedBetween
  <2>2. PICK c \in Nat : c = k * u /\ i = c /\ (k + 1) * u = c + u /\ c + u <= n
    <3>1. k * u \in Nat /\ (k + 1) * u = k * u + u
      BY ONLY k \in Nat, u \in Nat, SMT
    <3>2. k + 1 \in Nat /\ k + 1 <= N
      BY ONLY <1>10, k \in Nat, N \in Nat
    <3>3. (k + 1) * u <= N * u
      BY ONLY <3>2, u \in Nat, N \in Nat, SMT
    <3> QED BY ONLY <1>3, <1>4, <1>11, <3>1, <3>3
  <2>3. w = [a \in DOMAIN old |-> IF dst <= a /\ a < dst + (c + u) THEN old[src + (a - dst)] ELSE old[a]]
    <3>1. w = [a \in DOMAIN old |-> IF a \in dst + c .. dst + c + u - 1
                                    THEN m[src + (a - dst)] ELSE m[a]]
      BY <1>3, <1>4, <2>1, <2>2 DEF Moved
    <3>2. ASSUME NEW a \in DOMAIN old
          PROVE  (IF a \in dst + c .. dst + c + u - 1 THEN m[src + (a - dst)] ELSE m[a])
                 = IF dst <= a /\ a < dst + (c + u) THEN old[src + (a - dst)] ELSE old[a]
      <4>1. a \in Nat
        BY <1>9
      <4>2. CASE a \in dst + c .. dst + c + u - 1
        <5>1. src + (a - dst) \in DOMAIN old /\ dst <= a /\ a < dst + (c + u)
              /\ ~(dst <= src + (a - dst) /\ src + (a - dst) < dst + c)
          <6>1. (src >= dst \/ src + n <= dst) /\ c + u <= n
            BY <2>1, <2>2
          <6> QED BY ONLY <1>9, <1>10, <4>1, <4>2, <6>1, src \in Nat, dst \in Nat, n \in Nat,
                          u \in Nat, c \in Nat
        <5>2. m[src + (a - dst)] = old[src + (a - dst)]
          BY ONLY <2>1, <2>2, <5>1
        <5> QED BY ONLY <4>2, <5>1, <5>2
      <4>3. CASE a \notin dst + c .. dst + c + u - 1
        <5>1. (dst <= a /\ a < dst + (c + u)) <=> (dst <= a /\ a < dst + c)
          BY ONLY <1>3, <2>2, <4>1, <4>3
        <5>2. m[a] = IF dst <= a /\ a < dst + c THEN old[src + (a - dst)] ELSE old[a]
          BY ONLY <2>1, <2>2, a \in DOMAIN old
        <5> QED BY ONLY <4>3, <5>1, <5>2
      <4> QED BY <4>2, <4>3
    <3> QED BY ONLY <3>1, <3>2
  <2>4. MovedBetween(st.mem, st.dst, st.dst + st.k * st.unit)'
    BY ONLY <1>3, <1>4, <1>6, <2>2, <2>3 DEF MovedBetween
  <2>5. k + 1 \in Nat /\ k + 1 <= N
    BY <1>3
  <2>6. MovedUnits(N)'
    BY ONLY <1>3, <1>6, <1>9, <1>11, <2>1, <2>4, <2>5 DEF MovedUnits
  <2>7. \E M \in Nat : MovedUnits(M)'
    BY ONLY <2>6, N \in Nat, Zenon
  <2> QED BY ONLY <1>6, <1>7, <1>8, <2>7 DEF MoveInv
<1>12. CASE st.back
  <2>1. PICK c \in Nat : c = (N - 1 - k) * u /\ i = c /\ (N - (k + 1)) * u = c
                         /\ (N - k) * u = c + u /\ c + u <= n
    <3>1. PICK j \in Nat : j = N - 1 - k /\ N - (k + 1) = j /\ N - k = j + 1 /\ j + 1 <= N
      BY ONLY <1>10, k \in Nat, N \in Nat
    <3>2. j * u \in Nat /\ (j + 1) * u = j * u + u
      BY ONLY j \in Nat, u \in Nat, SMT
    <3>3. (j + 1) * u <= N * u
      BY ONLY <3>1, j \in Nat, u \in Nat, N \in Nat, SMT
    <3> QED BY ONLY <1>3, <1>4, <1>12, <3>1, <3>2, <3>3
  <2>2. /\ src < dst
        /\ m = [a \in DOMAIN old |-> IF dst + (c + u) <= a /\ a < dst + n
                                     THEN old[src + (a - dst)] ELSE old[a]]
    BY <1>2, <1>3, <1>4, <1>12, <2>1 DEF MovedUnits, MovedBetween
  <2>3. w = [a \in DOMAIN old |-> IF dst + c <= a /\ a < dst + n THEN old[src + (a - dst)] ELSE old[a]]
    <3>1. w = [a \in DOMAIN old |-> IF a \in dst + c .. dst + c + u - 1
                                    THEN m[src + (a - dst)] ELSE m[a]]
      BY <1>3, <1>4, <2>1, <2>2 DEF Moved
    <3>2. ASSUME NEW a \in DOMAIN old
          PROVE  (IF a \in dst + c .. dst + c + u - 1 THEN m[src + (a - dst)] ELSE m[a])
                 = IF dst + c <= a /\ a < dst + n THEN old[src + (a - dst)] ELSE old[a]
      <4>1. a \in Nat
        BY <1>9
      <4>2. CASE a \in dst + c .. dst + c + u - 1
        <5>1. src + (a - dst) \in DOMAIN old /\ dst + c <= a /\ a < dst + n
              /\ ~(dst + (c + u) <= src + (a - dst) /\ src + (a - dst) < dst + n)
          <6>1. src < dst /\ c + u <= n
            BY <2>1, <2>2
          <6> QED BY ONLY <1>9, <1>10, <4>1, <4>2, <6>1, src \in Nat, dst \in Nat, n \in Nat,
                          u \in Nat, c \in Nat
        <5>2. m[src + (a - dst)] = old[src + (a - dst)]
          BY ONLY <2>2, <5>1
        <5> QED BY ONLY <4>2, <5>1, <5>2
      <4>3. CASE a \notin dst + c .. dst + c + u - 1
        <5>1. (dst + c <= a /\ a < dst + n) <=> (dst + (c + u) <= a /\ a < dst + n)
          BY ONLY <1>3, <2>1, <4>1, <4>3
        <5>2. m[a] = IF dst + (c + u) <= a /\ a < dst + n THEN old[src + (a - dst)] ELSE old[a]
          BY ONLY <2>2, a \in DOMAIN old
        <5> QED BY ONLY <4>3, <5>1, <5>2
      <4> QED BY <4>2, <4>3
    <3> QED BY ONLY <3>1, <3>2
  <2>4. MovedBetween(st.mem, st.dst + (N - st.k) * st.unit, st.dst + st.n)'
    BY ONLY <1>3, <1>4, <1>6, <2>1, <2>3 DEF MovedBetween
  <2>5. k + 1 \in Nat /\ k + 1 <= N
    BY <1>3
  <2>6. MovedUnits(N)'
    BY ONLY <1>3, <1>6, <1>9, <1>12, <2>2, <2>4, <2>5 DEF MovedUnits
  <2>7. \E M \in Nat : MovedUnits(M)'
    BY ONLY <2>6, N \in Nat, Zenon
  <2> QED BY ONLY <1>6, <1>7, <1>8, <2>7 DEF MoveInv
<1> QED BY <1>9, <1>11, <1>12

LEMMA MoveEnds ==
    ASSUME MoveInv, movs_ends
    PROVE  MoveInv'
<1>1. MoveState /\ st.pc = "rep" /\ st.k = st.n \div st.unit
  BY DEF MoveInv, movs_ends, At
<1>2. PICK N \in Nat : MovedUnits(N)
  BY <1>1 DEF MoveInv
<1>3. st' = [st EXCEPT !.pc = "done", !.ret = st.dst]
  BY DEF movs_ends
<1>4. /\ st' = [x \in DOMAIN st' |-> st'[x]] /\ DOMAIN st' = DOMAIN st
      /\ st'.fn = "memmove" /\ st'.pc = "done" /\ st'.mem = st.mem /\ st'.old = st.old
      /\ st'.dst = st.dst /\ st'.src = st.src /\ st'.n = st.n
  BY ONLY <1>1, <1>3 DEF MoveState, MoveFields
<1>5. MoveState'
  BY ONLY <1>1, <1>4 DEF MoveState
<1>6. PICK n \in Nat, dst \in Nat, u \in Nat :
        n = st.n /\ dst = st.dst /\ u = st.unit /\ N * u = n /\ st.k = N
  BY <1>1, <1>2 DEF MoveState, MovedUnits
<1>7. dst + (N - N) * u = dst
  <2>1. N - N = 0 /\ 0 * u = 0
    OBVIOUS
  <2> QED BY <2>1
<1>8. MovedBetween(st.mem, dst, dst + n)
  <2>1. CASE st.back
    BY <1>2, <1>6, <1>7, <2>1 DEF MovedUnits
  <2>2. CASE ~st.back
    BY <1>2, <1>6, <2>2 DEF MovedUnits
  <2> QED BY <2>1, <2>2
<1>9. \A a \in DOMAIN st.old : (dst <= a /\ a < dst + n) <=> a \in dst .. dst + n - 1
  <2>1. \A a \in DOMAIN st.old : a \in Int
    BY <1>1 DEF MoveState
  <2> QED BY <2>1
<1>10. MovedAsAWhole'
  BY ONLY <1>4, <1>6, <1>8, <1>9 DEF MovedAsAWhole, MovedBetween, At
<1> QED BY ONLY <1>4, <1>5, <1>10 DEF MoveInv

LEMMA MoveSteps == MoveInv /\ [MoveNext]_st => MoveInv'
<1>1. ASSUME MoveInv, UNCHANGED st PROVE MoveInv'
  <2>1. MoveState' = MoveState /\ MovedAsAWhole' = MovedAsAWhole
    BY ONLY <1>1 DEF MoveState, MovedAsAWhole, At
  <2>2. \A m, lo, hi : MovedBetween(m, lo, hi)' = MovedBetween(m, lo, hi)
    BY ONLY <1>1 DEF MovedBetween
  <2>3. ASSUME NEW N \in Nat, MovedUnits(N) PROVE MovedUnits(N)'
    BY ONLY <1>1, <2>2, <2>3 DEF MovedUnits
  <2> QED BY ONLY <1>1, <2>1, <2>3 DEF MoveInv
<1> QED BY <1>1, MoveCalled, UnitMoved, MoveEnds DEF MoveNext

-----------------------------------------------------------------------------
(* The copying routines.                                                   *)

CopyFields == {"fn", "pc", "mem", "old", "d", "s", "i", "dst", "src", "len", "size", "n", "ret"}

(* The string from src to its NUL is in memory, so is the destination, and *)
(* they are apart.                                                         *)
CopyArgs(old, src, len, dst, room) ==
    /\ src \in Nat /\ len \in Nat /\ dst \in Nat /\ room \in Nat
    /\ old \in [0 .. StrMem - 1 -> Nat]
    /\ src + len < StrMem /\ dst + room <= StrMem
    /\ old[src + len] = NUL /\ \A a \in src .. src + len - 1 : old[a] # NUL
    /\ src + len < dst \/ dst + room <= src

(* The memory after count characters of the string and the NULs after      *)
(* them, all bytes together                                                *)
CopyByte(old, src, dst, count, all, a) ==
    CASE a \in dst .. dst + count - 1 -> old[src + (a - dst)]
      [] a \in dst + count .. dst + all - 1 -> NUL
      [] OTHER -> old[a]
CopyOf(old, src, dst, count, all) == [a \in DOMAIN old |-> CopyByte(old, src, dst, count, all, a)]

LEMMA CopyByteIs ==
    ASSUME NEW old, NEW src, NEW dst, NEW count, NEW all, NEW a \in DOMAIN old
    PROVE  CopyOf(old, src, dst, count, all)[a] = CopyByte(old, src, dst, count, all, a)
BY DEF CopyOf

CopyRoom == IF st.fn = "strcpy" THEN st.len + 1 ELSE st.size

CopyAt(count, all) ==
    /\ st.mem = CopyOf(st.old, st.src, st.dst, count, all)
    /\ st.d = st.dst + all /\ st.s = st.src + count

CopyInv ==
    /\ st = [x \in DOMAIN st |-> st[x]] /\ CopyFields \subseteq DOMAIN st
    /\ st.fn \in CopyRoutine /\ st.pc \in {"call", "done"}
    /\ st.size \in Nat
    /\ CopyArgs(st.old, st.src, st.len, st.dst, CopyRoom)
    /\ st.pc = "call" /\ st.fn = "strcpy" => \E k \in Nat : k <= st.len /\ CopyAt(k, k)
    /\ st.pc = "call" /\ st.fn = "strncpy" =>
          /\ st.n = st.size /\ st.i \in Nat /\ st.i <= st.n /\ CopyAt(Lesser(st.len, st.i), st.i)
    /\ st.pc = "call" /\ st.fn = "strlcpy" =>
          /\ st.n \in Nat /\ st.ret = 0
          /\ st.size > 0 => st.n > 0
          /\ \E k \in Nat : k <= st.len /\ st.n = st.size - k /\ CopyAt(k, k)
    /\ CopiedInside

LEMMA WrittenIs ==
    ASSUME NEW count, NEW all
    PROVE  Written(count, all) = CopyOf(st.old, st.src, st.dst, count, all)
BY DEF Written, CopyOf, CopyByte

(* What is read is the string, wherever the copy has got to.               *)
LEMMA CopyRead ==
    ASSUME NEW old, NEW src, NEW len, NEW dst, NEW room, CopyArgs(old, src, len, dst, room),
           NEW count \in Nat, NEW all \in Nat, count <= len, count <= all, all <= room
    PROVE  /\ CopyOf(old, src, dst, count, all)[src + count] = old[src + count]
           /\ old[src + count] = NUL <=> count = len
<1>1. /\ src \in Nat /\ len \in Nat /\ dst \in Nat /\ room \in Nat /\ StrMem \in Nat
      /\ old \in [0 .. StrMem - 1 -> Nat]
      /\ src + len < StrMem
      /\ old[src + len] = NUL /\ \A a \in src .. src + len - 1 : old[a] # NUL
      /\ src + len < dst \/ dst + room <= src
  BY StringsAssumption DEF CopyArgs
<1>2. PICK a \in Nat : a = src + count
  BY <1>1
<1>3. a \in 0 .. StrMem - 1 /\ a \notin dst .. dst + count - 1 /\ a \notin dst + count .. dst + all - 1
  BY ONLY <1>1, <1>2, count \in Nat, all \in Nat, count <= len, count <= all, all <= room
<1>4. CopyOf(old, src, dst, count, all)[a] = old[a]
  <2>1. a \in DOMAIN old
    BY ONLY <1>1, <1>3
  <2>2. CopyByte(old, src, dst, count, all, a) = old[a]
    BY ONLY <1>3 DEF CopyByte
  <2> QED BY ONLY <2>1, <2>2, CopyByteIs
<1>5. old[a] = NUL <=> count = len
  <2>1. CASE count = len
    BY ONLY <1>1, <1>2, <2>1
  <2>2. CASE count # len
    <3>1. a \in src .. src + len - 1
      BY ONLY <1>1, <1>2, <2>2, count \in Nat, count <= len
    <3> QED BY ONLY <1>1, <2>2, <3>1
  <2> QED BY <2>1, <2>2
<1> QED BY <1>2, <1>4, <1>5

(* One more character                                                      *)
LEMMA CopyChar ==
    ASSUME NEW old, NEW src, NEW len, NEW dst, NEW room, CopyArgs(old, src, len, dst, room),
           NEW k \in Nat, k < room
    PROVE  [CopyOf(old, src, dst, k, k) EXCEPT ![dst + k] = old[src + k]]
              = CopyOf(old, src, dst, k + 1, k + 1)
<1>1. src \in Nat /\ dst \in Nat /\ room \in Nat /\ StrMem \in Nat
      /\ old \in [0 .. StrMem - 1 -> Nat] /\ dst + room <= StrMem
  BY StringsAssumption DEF CopyArgs
<1>2. PICK m, w : m = CopyOf(old, src, dst, k, k) /\ w = CopyOf(old, src, dst, k + 1, k + 1)
  OBVIOUS
<1>3. PICK u : u = [m EXCEPT ![dst + k] = old[src + k]]
  OBVIOUS
<1>4. DOMAIN old = 0 .. StrMem - 1 /\ DOMAIN m = DOMAIN old /\ DOMAIN w = DOMAIN old /\ DOMAIN u = DOMAIN old
      /\ u = [a \in DOMAIN u |-> u[a]] /\ w = [a \in DOMAIN w |-> w[a]]
  BY <1>1, <1>2, <1>3 DEF CopyOf
<1>5. ASSUME NEW a \in DOMAIN old PROVE u[a] = w[a]
  <2>0. a \in Int
    BY <1>4
  <2>1. CASE a = dst + k
    <3>1. /\ a \in dst .. dst + (k + 1) - 1 /\ src + (a - dst) = src + k
          /\ a \notin dst + (k + 1) .. dst + (k + 1) - 1
      BY ONLY <1>1, <2>1, k \in Nat
    <3>2. w[a] = old[src + (a - dst)]
      BY ONLY <1>2, <3>1, <1>5, CopyByteIs DEF CopyByte
    <3>3. u[a] = old[src + k]
      BY ONLY <1>3, <1>4, <1>5, <2>1
    <3> QED BY <3>1, <3>2, <3>3
  <2>2. CASE a # dst + k
    <3>1. u[a] = m[a]
      BY ONLY <1>3, <1>4, <1>5, <2>2
    <3>2. /\ a \in dst .. dst + (k + 1) - 1 <=> a \in dst .. dst + k - 1
          /\ a \notin dst + (k + 1) .. dst + (k + 1) - 1
          /\ a \notin dst + k .. dst + k - 1
      BY ONLY <1>1, <2>0, <2>2, k \in Nat
    <3>3. m[a] = w[a]
      BY ONLY <1>2, <1>5, <3>2, CopyByteIs DEF CopyByte
    <3> QED BY <3>1, <3>3
  <2> QED BY <2>1, <2>2
<1>6. u = w
  BY ONLY <1>4, <1>5
<1> QED BY <1>2, <1>3, <1>6

(* One more NUL                                                            *)
LEMMA CopyNul ==
    ASSUME NEW old, NEW src, NEW len, NEW dst, NEW room, CopyArgs(old, src, len, dst, room),
           NEW k \in Nat, NEW all \in Nat, k <= all, all < room
    PROVE  [CopyOf(old, src, dst, k, all) EXCEPT ![dst + all] = NUL]
              = CopyOf(old, src, dst, k, all + 1)
<1>1. src \in Nat /\ dst \in Nat /\ room \in Nat /\ StrMem \in Nat
      /\ old \in [0 .. StrMem - 1 -> Nat] /\ dst + room <= StrMem
  BY StringsAssumption DEF CopyArgs
<1>2. PICK m, w : m = CopyOf(old, src, dst, k, all) /\ w = CopyOf(old, src, dst, k, all + 1)
  OBVIOUS
<1>3. PICK u : u = [m EXCEPT ![dst + all] = NUL]
  OBVIOUS
<1>4. DOMAIN old = 0 .. StrMem - 1 /\ DOMAIN m = DOMAIN old /\ DOMAIN w = DOMAIN old /\ DOMAIN u = DOMAIN old
      /\ u = [a \in DOMAIN u |-> u[a]] /\ w = [a \in DOMAIN w |-> w[a]]
  BY <1>1, <1>2, <1>3 DEF CopyOf
<1>5. ASSUME NEW a \in DOMAIN old PROVE u[a] = w[a]
  <2>0. a \in Int
    BY <1>4
  <2>1. CASE a = dst + all
    <3>1. a \notin dst .. dst + k - 1 /\ a \in dst + k .. dst + (all + 1) - 1
      BY ONLY <1>1, <2>1, k \in Nat, all \in Nat, k <= all
    <3>2. w[a] = NUL
      BY ONLY <1>2, <3>1, <1>5, CopyByteIs DEF CopyByte
    <3>3. u[a] = NUL
      BY ONLY <1>3, <1>4, <1>5, <2>1
    <3> QED BY <3>2, <3>3
  <2>2. CASE a # dst + all
    <3>1. u[a] = m[a]
      BY ONLY <1>3, <1>4, <1>5, <2>2
    <3>2. a \in dst + k .. dst + (all + 1) - 1 <=> a \in dst + k .. dst + all - 1
      BY ONLY <1>1, <2>0, <2>2, k \in Nat, all \in Nat
    <3>3. m[a] = w[a]
      BY ONLY <1>2, <1>5, <3>2, CopyByteIs DEF CopyByte
    <3> QED BY <3>1, <3>3
  <2> QED BY <2>1, <2>2
<1>6. u = w
  BY ONLY <1>4, <1>5
<1> QED BY <1>2, <1>3, <1>6

LEMMA CopyNothing ==
    ASSUME NEW old, NEW src, NEW len, NEW dst, NEW room, CopyArgs(old, src, len, dst, room)
    PROVE  CopyOf(old, src, dst, 0, 0) = old
<1>1. dst \in Nat /\ StrMem \in Nat /\ old \in [0 .. StrMem - 1 -> Nat]
  BY StringsAssumption DEF CopyArgs
<1>2. PICK m : m = CopyOf(old, src, dst, 0, 0)
  OBVIOUS
<1>3. DOMAIN m = DOMAIN old /\ m = [a \in DOMAIN m |-> m[a]] /\ old = [a \in DOMAIN old |-> old[a]]
  BY <1>1, <1>2 DEF CopyOf
<1>4. ASSUME NEW a \in DOMAIN old PROVE m[a] = old[a]
  <2>1. a \notin dst .. dst + 0 - 1 /\ a \notin dst + 0 .. dst + 0 - 1
    BY ONLY <1>1
  <2> QED BY ONLY <1>2, <1>4, <2>1, CopyByteIs DEF CopyByte
<1> QED BY ONLY <1>2, <1>3, <1>4

LEMMA CopyStarts == CopyInit => CopyInv
<1> SUFFICES ASSUME CopyInit PROVE CopyInv
  OBVIOUS
<1>1. PICK f \in CopyRoutine, m \in [0 .. StrMem - 1 -> Nat], src, len, dst, n \in Nat :
         LET room == IF f = "strcpy" THEN len + 1 ELSE n
         IN /\ src + len < StrMem /\ dst + room <= StrMem
            /\ m[src + len] = NUL /\ \A a \in src .. src + len - 1 : m[a] # NUL
            /\ src + len < dst \/ dst + room <= src
            /\ CopyCall(f, m, src, len, dst, n)
  BY DEF CopyInit
<1>2. PICK room : room = IF f = "strcpy" THEN len + 1 ELSE n
  OBVIOUS
<1>3. room \in Nat /\ CopyArgs(m, src, len, dst, room)
  BY <1>1, <1>2 DEF CopyArgs
<1>4. /\ st = [x \in DOMAIN st |-> st[x]] /\ CopyFields \subseteq DOMAIN st
      /\ st.fn = f /\ st.pc = "call" /\ st.mem = m /\ st.old = m /\ st.d = dst /\ st.s = src
      /\ st.i = 0 /\ st.dst = dst /\ st.src = src /\ st.len = len /\ st.size = n /\ st.n = n
      /\ st.ret = 0
  <2>1. CopyCall(f, m, src, len, dst, n)
    BY <1>1
  <2> QED BY ONLY <2>1 DEF CopyCall, CopyFields
<1>5. CopyRoom = room
  BY <1>2, <1>4 DEF CopyRoom
<1>6. CopyAt(0, 0)
  BY <1>3, <1>4, CopyNothing DEF CopyAt
<1>7. Lesser(len, 0) = 0 /\ 0 \in Nat /\ 0 <= len /\ 0 <= n /\ n - 0 = n
  BY DEF Lesser
<1>8. CopiedInside
  BY <1>4 DEF CopiedInside
<1> QED BY ONLY <1>3, <1>4, <1>5, <1>6, <1>7, <1>8, f \in CopyRoutine, n \in Nat DEF CopyInv

(* A step of a copying routine leaves its arguments alone.                 *)
CopyKeeps ==
    /\ st' = [x \in DOMAIN st' |-> st'[x]] /\ DOMAIN st' = DOMAIN st
    /\ st'.fn = st.fn /\ st'.old = st.old /\ st'.dst = st.dst /\ st'.src = st.src
    /\ st'.len = st.len /\ st'.size = st.size

LEMMA CopyEnds ==
    ASSUME CopyInv, CopyKeeps, st'.pc = "done", CopiedInside'
    PROVE  CopyInv'
<1>1. CopyRoom' = CopyRoom
  BY DEF CopyRoom, CopyKeeps
<1>2. CopyArgs(st'.old, st'.src, st'.len, st'.dst, CopyRoom')
  BY <1>1 DEF CopyInv, CopyKeeps
<1> QED BY <1>2 DEF CopyInv, CopyKeeps

LEMMA CopyGoesOn ==
    ASSUME CopyInv, CopyKeeps, st'.pc = "call",
           st.fn = "strcpy" => \E k \in Nat : k <= st.len /\ CopyAt(k, k)',
           st.fn = "strncpy" =>
              /\ st'.n = st.size /\ st'.i \in Nat /\ st'.i <= st'.n
              /\ CopyAt(Lesser(st.len, st.i), st.i)',
           st.fn = "strlcpy" =>
              /\ st'.n \in Nat /\ st'.ret = 0
              /\ st.size > 0 => st'.n > 0
              /\ \E k \in Nat : k <= st.len /\ st'.n = st.size - k /\ CopyAt(k, k)'
    PROVE  CopyInv'
<1>1. CopyRoom' = CopyRoom
  BY DEF CopyRoom, CopyKeeps
<1>2. CopyArgs(st'.old, st'.src, st'.len, st'.dst, CopyRoom')
  BY <1>1 DEF CopyInv, CopyKeeps
<1>3. CopiedInside'
  BY DEF CopiedInside
<1>4. st'.fn = st.fn /\ st'.len = st.len /\ st'.size = st.size
  BY DEF CopyKeeps
<1> QED BY <1>2, <1>3, <1>4 DEF CopyInv, CopyKeeps

LEMMA StrcpyCopies ==
    ASSUME CopyInv, strcpy
    PROVE  CopyInv'
<1>1. /\ st = [x \in DOMAIN st |-> st[x]] /\ CopyFields \subseteq DOMAIN st
      /\ st.fn = "strcpy" /\ st.pc = "call" /\ CopyRoom = st.len + 1
      /\ CopyArgs(st.old, st.src, st.len, st.dst, st.len + 1)
  BY DEF CopyInv, CopyRoom, strcpy, At
<1>2. PICK k \in Nat : k <= st.len /\ CopyAt(k, k)
  BY <1>1 DEF CopyInv
<1>3. st.len \in Nat /\ st.src \in Nat /\ st.dst \in Nat /\ st.len + 1 \in Nat
  BY <1>1 DEF CopyArgs
<1>4. k <= st.len + 1 /\ k < st.len + 1 /\ k <= k
  BY ONLY <1>2, <1>3
<1>5. st.mem = CopyOf(st.old, st.src, st.dst, k, k) /\ st.d = st.dst + k /\ st.s = st.src + k
  BY <1>2 DEF CopyAt
<1>6. PICK c : c = st.old[st.src + k]
  OBVIOUS
<1>7. st.mem[st.s] = c /\ (c = NUL <=> k = st.len)
  BY ONLY <1>1, <1>2, <1>4, <1>5, <1>6, CopyRead
<1>8. PICK m : m = CopyOf(st.old, st.src, st.dst, k + 1, k + 1)
  OBVIOUS
<1>9. Store(st.d, c) = m
  BY ONLY <1>1, <1>4, <1>5, <1>6, <1>8, k \in Nat, CopyChar DEF Store
<1>10. PICK p, d, s : p = (IF c = NUL THEN "done" ELSE "call") /\ d = st.d + 1 /\ s = st.s + 1
  OBVIOUS
<1>11. st' = [st EXCEPT !.pc = p, !.mem = m, !.d = d, !.s = s]
  BY <1>7, <1>9, <1>10 DEF strcpy
<1>12. CopyKeeps /\ st'.pc = p /\ st'.mem = m /\ st'.d = d /\ st'.s = s
  BY ONLY <1>1, <1>11 DEF CopyKeeps, CopyFields
<1>13. CASE k = st.len
  <2>1. Written(st.len, st.len + 1)' = CopyOf(st.old, st.src, st.dst, k, k + 1)
    BY <1>12, <1>13, WrittenIs DEF CopyKeeps, Written, CopyOf, CopyByte
  <2>2. m = CopyOf(st.old, st.src, st.dst, k, k + 1)
    <3>1. st.mem = CopyOf(st.old, st.src, st.dst, k, k)
      BY <1>5
    <3>2. [st.mem EXCEPT ![st.dst + k] = NUL] = CopyOf(st.old, st.src, st.dst, k, k + 1)
      BY ONLY <1>1, <1>4, <3>1, k \in Nat, CopyNul
    <3> QED BY ONLY <1>5, <1>7, <1>9, <1>13, <3>2 DEF Store
  <2>3. CopiedInside'
    <3>1. st'.fn = "strcpy"
      BY <1>1, <1>12 DEF CopyKeeps
    <3>2. st'.mem = Written(st.len, st.len + 1)'
      BY ONLY <1>12, <2>1, <2>2
    <3> QED BY ONLY <3>1, <3>2 DEF CopiedInside
  <2> QED BY ONLY CopyInv, <1>7, <1>10, <1>12, <1>13, <2>3, CopyEnds
<1>14. CASE k # st.len
  <2>1. k + 1 \in Nat /\ k + 1 <= st.len /\ d = st.dst + (k + 1) /\ s = st.src + (k + 1)
    BY ONLY <1>2, <1>3, <1>5, <1>10, <1>14, k \in Nat
  <2>2. CopyAt(k + 1, k + 1)'
    BY ONLY <1>8, <1>12, <2>1 DEF CopyAt, CopyKeeps
  <2>3. \E j \in Nat : j <= st.len /\ CopyAt(j, j)'
    BY ONLY <2>1, <2>2
  <2>4. st'.pc = "call"
    BY ONLY <1>7, <1>10, <1>12, <1>14
  <2> QED BY ONLY CopyInv, <1>1, <1>12, <2>3, <2>4, CopyGoesOn
<1> QED BY <1>13, <1>14

LEMMA StrncpyCopies ==
    ASSUME CopyInv, strncpy
    PROVE  CopyInv'
<1>1. /\ st = [x \in DOMAIN st |-> st[x]] /\ CopyFields \subseteq DOMAIN st
      /\ st.fn = "strncpy" /\ st.pc = "call" /\ CopyRoom = st.size /\ st.size \in Nat
      /\ CopyArgs(st.old, st.src, st.len, st.dst, st.size)
      /\ st.n = st.size /\ st.i \in Nat /\ st.i <= st.n /\ CopyAt(Lesser(st.len, st.i), st.i)
  BY DEF CopyInv, CopyRoom, strncpy, At
<1>2. PICK i \in Nat, len \in Nat, dst \in Nat, src \in Nat :
         i = st.i /\ len = st.len /\ dst = st.dst /\ src = st.src /\ i <= st.size
  BY <1>1 DEF CopyArgs
<1>3. PICK k \in Nat : k = Lesser(len, i) /\ k <= len /\ k <= i
  BY DEF Lesser
<1>4. st.mem = CopyOf(st.old, src, dst, k, i) /\ st.d = dst + i /\ st.s = src + k
  BY <1>1, <1>2, <1>3 DEF CopyAt
<1>5. CopyArgs(st.old, src, len, dst, st.size)
  BY ONLY <1>1, <1>2
<1>6. st.mem[st.s] = st.old[src + k] /\ (st.old[src + k] = NUL <=> k = len)
  BY ONLY <1>2, <1>3, <1>4, <1>5, CopyRead
<1>7. CASE ~(st.i < st.n)
  <2>1. st' = [st EXCEPT !.pc = "done"]
    BY <1>7 DEF strncpy
  <2>2. CopyKeeps /\ st'.pc = "done" /\ st'.mem = st.mem
    BY ONLY <1>1, <2>1 DEF CopyKeeps, CopyFields
  <2>3. i = st.size
    BY ONLY <1>1, <1>2, <1>7
  <2>4. /\ st'.fn = "strncpy" /\ st'.mem = CopyOf(st.old, src, dst, k, i) /\ st'.old = st.old
        /\ st'.dst = dst /\ st'.src = src /\ st'.len = len /\ st'.size = i
    BY ONLY <1>1, <1>2, <1>4, <2>2, <2>3 DEF CopyKeeps
  <2>5. CopiedInside'
    <3>1. Written(Lesser(len, i), i)' = CopyOf(st.old, src, dst, k, i)
      BY ONLY <1>3, <2>4 DEF Written, CopyOf, CopyByte
    <3>2. st'.mem = Written(Lesser(st.len, st.size), st.size)'
      BY ONLY <2>4, <3>1 DEF Written
    <3> QED BY ONLY <2>4, <3>2 DEF CopiedInside
  <2> QED BY ONLY CopyInv, <2>2, <2>5, CopyEnds
<1>8. CASE st.i < st.n
  <2>1. i < st.size /\ i + 1 <= st.size /\ i + 1 \in Nat
    BY ONLY <1>1, <1>2, <1>8
  <2>2. PICK m : m = Store(st.d, st.mem[st.s])
    OBVIOUS
  <2>3. PICK d, s, j : /\ d = st.d + 1 /\ j = st.i + 1
                       /\ s = (IF st.mem[st.s] # NUL THEN st.s + 1 ELSE st.s)
    OBVIOUS
  <2>4. st' = [st EXCEPT !.mem = m, !.d = d, !.i = j, !.s = s]
    BY <1>8, <2>2, <2>3 DEF strncpy
  <2>5. /\ CopyKeeps /\ st'.pc = "call" /\ st'.mem = m /\ st'.d = d /\ st'.s = s
        /\ st'.i = j /\ st'.n = st.n
    BY ONLY <1>1, <2>4 DEF CopyKeeps, CopyFields
  <2>6. PICK c \in Nat : /\ c = Lesser(len, j) /\ s = src + c
                         /\ m = CopyOf(st.old, src, dst, c, i + 1)
    <3>1. CASE len <= i
      <4>1. k = len /\ Lesser(len, i + 1) = len
        BY ONLY <1>2, <1>3, <3>1 DEF Lesser
      <4>2. m = [CopyOf(st.old, src, dst, k, i) EXCEPT ![dst + i] = NUL]
        BY ONLY <1>4, <1>6, <2>2, <4>1 DEF Store
      <4>3. m = CopyOf(st.old, src, dst, k, i + 1)
        <5>1. [CopyOf(st.old, src, dst, k, i) EXCEPT ![dst + i] = NUL] = CopyOf(st.old, src, dst, k, i + 1)
          BY ONLY i \in Nat, k \in Nat, <1>3, <1>5, <2>1, CopyNul
        <5> QED BY ONLY <4>2, <5>1
      <4>4. s = src + len
        BY ONLY <1>4, <1>6, <2>3, <4>1
      <4> QED BY ONLY <1>2, <2>3, <4>1, <4>3, <4>4
    <3>2. CASE ~(len <= i)
      <4>1. k = i /\ k # len /\ Lesser(len, i + 1) = i + 1
        BY ONLY <1>2, <1>3, <3>2 DEF Lesser
      <4>2. m = [CopyOf(st.old, src, dst, i, i) EXCEPT ![dst + i] = st.old[src + i]]
        BY ONLY <1>4, <1>6, <2>2, <4>1 DEF Store
      <4>3. m = CopyOf(st.old, src, dst, i + 1, i + 1)
        <5>1. [CopyOf(st.old, src, dst, i, i) EXCEPT ![dst + i] = st.old[src + i]]
                 = CopyOf(st.old, src, dst, i + 1, i + 1)
          BY ONLY i \in Nat, <1>5, <2>1, CopyChar
        <5> QED BY ONLY <4>2, <5>1
      <4>4. s = (src + i) + 1
        BY ONLY <1>4, <1>6, <2>3, <4>1
      <4>5. s = src + (i + 1)
        BY ONLY <1>2, <4>4
      <4> QED BY ONLY <1>2, <2>1, <2>3, <4>1, <4>3, <4>5
    <3> QED BY <3>1, <3>2
  <2>7. d = dst + (i + 1) /\ j = i + 1
    BY ONLY <1>2, <1>4, <2>3
  <2>8. CopyAt(Lesser(st.len, st.i), st.i)'
    <3>1. /\ st'.mem = m /\ st'.old = st.old /\ st'.src = src /\ st'.dst = dst /\ st'.d = d
          /\ st'.s = s /\ st'.len = len /\ st'.i = i + 1
      BY ONLY <1>2, <2>5, <2>7 DEF CopyKeeps
    <3>2. CopyAt(c, i + 1)'
      BY ONLY <2>6, <2>7, <3>1 DEF CopyAt
    <3>3. Lesser(st.len, st.i)' = c
      BY ONLY <2>6, <2>7, <3>1 DEF Lesser
    <3> QED BY ONLY <3>1, <3>2, <3>3 DEF CopyAt
  <2>9. st'.n = st.size /\ st'.i \in Nat /\ st'.i <= st'.n
    BY ONLY <1>1, <2>1, <2>5, <2>7
  <2> QED BY ONLY CopyInv, <1>1, <2>5, <2>8, <2>9, CopyGoesOn
<1> QED BY <1>7, <1>8

LEMMA StrlcpyCopies ==
    ASSUME CopyInv, strlcpy
    PROVE  CopyInv'
<1>1. /\ st = [x \in DOMAIN st |-> st[x]] /\ CopyFields \subseteq DOMAIN st
      /\ st.fn = "strlcpy" /\ st.pc = "call" /\ CopyRoom = st.size
      /\ CopyArgs(st.old, st.src, st.len, st.dst, st.size)
      /\ st.n \in Nat /\ st.ret = 0 /\ (st.size > 0 => st.n > 0)
  BY DEF CopyInv, CopyRoom, strlcpy, At
<1>2. PICK len \in Nat, dst \in Nat, src \in Nat, size \in Nat :
         len = st.len /\ dst = st.dst /\ src = st.src /\ size = st.size
  BY <1>1 DEF CopyArgs
<1>3. PICK k \in Nat : k <= st.len /\ st.n = st.size - k /\ CopyAt(k, k)
  BY <1>1 DEF CopyInv
<1>4. st.mem = CopyOf(st.old, src, dst, k, k) /\ st.d = dst + k /\ st.s = src + k
  BY <1>2, <1>3 DEF CopyAt
<1>5. PICK n \in Nat : n = st.n /\ n = size - k /\ k <= len /\ k <= size /\ (size > 0 => n > 0)
  BY ONLY <1>1, <1>2, <1>3
<1>6. CopyArgs(st.old, src, len, dst, size) /\ k <= k
  BY <1>1, <1>2
<1>7. st.mem[st.s] = st.old[src + k] /\ (st.old[src + k] = NUL <=> k = len)
  BY ONLY k \in Nat, <1>4, <1>5, <1>6, CopyRead
<1>8. CASE n = 0
  <2>1. st' = [st EXCEPT !.pc = "done"]
    BY <1>5, <1>8 DEF strlcpy, Left
  <2>2. CopyKeeps /\ st'.pc = "done" /\ st'.mem = st.mem /\ st'.ret = 0
    BY ONLY <1>1, <2>1 DEF CopyKeeps, CopyFields
  <2>3. size = 0 /\ k = 0
    BY ONLY <1>2, <1>5, <1>8, k \in Nat
  <2>4. st.mem = st.old
    BY ONLY <1>4, <1>6, <2>3, CopyNothing
  <2>5. CopiedInside'
    <3>1. st'.fn = "strlcpy" /\ st'.size = 0 /\ ~(st'.size > 0) /\ st'.mem = st'.old
      BY ONLY <1>1, <1>2, <2>2, <2>3, <2>4 DEF CopyKeeps
    <3> QED BY ONLY <2>2, <3>1 DEF CopiedInside
  <2> QED BY ONLY CopyInv, <2>2, <2>5, CopyEnds
<1>9. CASE n > 0 /\ n - 1 > 0 /\ k # len
  <2>1. /\ k < size /\ n - 1 \in Nat /\ k + 1 \in Nat /\ k + 1 <= len /\ n - 1 = size - (k + 1)
        /\ n # 0
    BY ONLY <1>2, <1>5, <1>9, k \in Nat
  <2>2. st.n > 0 /\ st.n # 0 /\ Left(st.n - 1) /\ st.mem[st.s] # NUL
    BY ONLY <1>5, <1>7, <1>9, <2>1 DEF Left
  <2>3. PICK m, d, s : m = Store(st.d, st.mem[st.s]) /\ d = st.d + 1 /\ s = st.s + 1
    OBVIOUS
  <2>4. st' = [st EXCEPT !.n = st.n - 1, !.mem = Store(st.d, st.mem[st.s]),
                         !.d = st.d + 1, !.s = st.s + 1]
    BY ONLY strlcpy, <2>2 DEF strlcpy
  <2>5. st' = [st EXCEPT !.n = n - 1, !.mem = m, !.d = d, !.s = s]
    BY ONLY <1>5, <2>3, <2>4
  <2>6. /\ CopyKeeps /\ st'.pc = "call" /\ st'.mem = m /\ st'.d = d /\ st'.s = s
        /\ st'.n = n - 1 /\ st'.ret = 0
    BY ONLY <1>1, <2>5 DEF CopyKeeps, CopyFields
  <2>7. m = CopyOf(st.old, src, dst, k + 1, k + 1)
    <3>1. m = [CopyOf(st.old, src, dst, k, k) EXCEPT ![dst + k] = st.old[src + k]]
      BY ONLY <1>4, <1>7, <2>3 DEF Store
    <3> QED BY ONLY <1>6, <2>1, <3>1, k \in Nat, CopyChar
  <2>8. d = dst + (k + 1) /\ s = src + (k + 1)
    BY ONLY <1>2, <1>4, <2>3, k \in Nat
  <2>9. CopyAt(k + 1, k + 1)'
    <3>1. st'.old = st.old /\ st'.src = src /\ st'.dst = dst
      BY ONLY <1>2, <2>6 DEF CopyKeeps
    <3> QED BY ONLY <2>6, <2>7, <2>8, <3>1 DEF CopyAt
  <2>10. /\ st'.n \in Nat /\ st'.n > 0 /\ k + 1 <= st.len /\ st'.n = st.size - (k + 1)
    BY ONLY <1>2, <1>9, <2>1, <2>6
  <2>11. \E j \in Nat : j <= st.len /\ st'.n = st.size - j /\ CopyAt(j, j)'
    BY ONLY <2>1, <2>9, <2>10
  <2> QED BY ONLY CopyInv, <1>1, <2>6, <2>10, <2>11, CopyGoesOn
<1>10. CASE n > 0 /\ ~(n - 1 > 0 /\ k # len)
  <2>1. k < size /\ size > 0 /\ n # 0 /\ Lesser(len, size - 1) = k
    BY ONLY <1>2, <1>5, <1>10, k \in Nat DEF Lesser
  <2>2. st.n # 0 /\ ~(st.n > 0 /\ Left(st.n - 1) /\ st.mem[st.s] # NUL)
    BY ONLY <1>5, <1>7, <1>10, <2>1 DEF Left
  <2>3. st' = [st EXCEPT !.pc = "done", !.mem = Store(st.d, NUL), !.ret = st.d - st.dst]
    BY ONLY strlcpy, <2>2 DEF strlcpy
  <2>4. PICK m : m = Store(st.d, NUL)
    OBVIOUS
  <2>5. st.d - st.dst = k
    BY ONLY <1>2, <1>4, k \in Nat
  <2>6. st' = [st EXCEPT !.pc = "done", !.mem = m, !.ret = k]
    BY ONLY <2>3, <2>4, <2>5
  <2>7. CopyKeeps /\ st'.pc = "done" /\ st'.mem = m /\ st'.ret = k
    BY ONLY <1>1, <2>6 DEF CopyKeeps, CopyFields
  <2>8. m = CopyOf(st.old, src, dst, k, k + 1)
    <3>1. m = [CopyOf(st.old, src, dst, k, k) EXCEPT ![dst + k] = NUL]
      BY ONLY <1>4, <2>4 DEF Store
    <3>2. [CopyOf(st.old, src, dst, k, k) EXCEPT ![dst + k] = NUL] = CopyOf(st.old, src, dst, k, k + 1)
      <4>1. k < size
        BY <2>1
      <4> QED BY ONLY <1>6, <4>1, k \in Nat, CopyNul
    <3> QED BY ONLY <3>1, <3>2
  <2>9. CopiedInside'
    <3>1. /\ st'.fn = "strlcpy" /\ st'.old = st.old /\ st'.src = src /\ st'.dst = dst
          /\ st'.len = len /\ st'.size = size /\ size # 0
      BY ONLY <1>1, <1>2, <2>1, <2>7 DEF CopyKeeps
    <3>2. Written(k, k + 1)' = CopyOf(st.old, src, dst, k, k + 1)
      BY ONLY <3>1 DEF Written, CopyOf, CopyByte
    <3>3. Lesser(st.len, st.size - 1)' = k
      BY ONLY <2>1, <3>1 DEF Lesser
    <3>4. st'.mem = Written(Lesser(st.len, st.size - 1), Lesser(st.len, st.size - 1) + 1)'
      BY ONLY <2>7, <2>8, <3>2, <3>3 DEF Written
    <3> QED BY ONLY <2>1, <2>7, <3>1, <3>3, <3>4 DEF CopiedInside
  <2> QED BY ONLY CopyInv, <2>7, <2>9, CopyEnds
<1> QED BY <1>8, <1>9, <1>10

LEMMA CopySteps == CopyInv /\ [CopyNext]_st => CopyInv'
<1> SUFFICES ASSUME CopyInv, [CopyNext]_st PROVE CopyInv'
  OBVIOUS
<1>1. CASE UNCHANGED st
  <2>1. CopiedInside' = CopiedInside
    BY <1>1 DEF CopiedInside, CopyRoutine, Lesser, Written
  <2>2. \A c, a : CopyAt(c, a)' = CopyAt(c, a)
    BY <1>1 DEF CopyAt, CopyOf, CopyByte
  <2>3. CopyRoom' = CopyRoom
    BY <1>1 DEF CopyRoom
  <2>4. Lesser(st.len, st.i)' = Lesser(st.len, st.i)
    BY <1>1 DEF Lesser
  <2> QED BY <1>1, <2>1, <2>2, <2>3, <2>4 DEF CopyInv, CopyAt
<1> QED BY <1>1, StrcpyCopies, StrncpyCopies, StrlcpyCopies DEF CopyNext

-----------------------------------------------------------------------------
(* runcmd.                                                                 *)

(* A set of numbers has a least element.                                   *)
LEMMA LeastOf ==
    ASSUME NEW S \in SUBSET Nat, NEW f \in S
    PROVE  Min(S) \in S /\ \A y \in S : Min(S) <= y
<1>1. PICK d \in S : \A e \in S : ~(<<e, d>> \in OpToRel(<, Nat))
  BY NatLessThanWellFounded, WFMin
<1>2. ASSUME NEW e \in S
      PROVE  d <= e
  <2>1. d \in Nat /\ e \in Nat /\ ~(<<e, d>> \in OpToRel(<, Nat))
    BY <1>1
  <2>2. e < d => <<e, d>> \in OpToRel(<, Nat)
    BY <2>1 DEF OpToRel
  <2>3. d \in Nat /\ e \in Nat /\ ~(e < d)
    BY <2>1, <2>2, Zenon
  <2> QED BY ONLY <2>3
<1>3. Min(S) = d
  <2>1. S \in SUBSET Int
    OBVIOUS
  <2> QED BY ONLY <1>2, <2>1, d \in S, MinIs
<1> QED BY ONLY <1>2, <1>3, d \in S

RuncmdFields == {"fn", "pc", "buf", "i", "line", "argv", "called", "pte", "k", "ret"}

(* The words that begin before j                                           *)
StartsBefore(j) == {s \in Starts : s < j}

(* The line as far as it was split: NULs over the blanks                   *)
SplitTo(i) ==
    /\ st.buf \in Seq(LineChars \cup {EndOfLine}) /\ Len(st.buf) = Len(st.line) + 1
    /\ st.buf[Len(st.line) + 1] = EndOfLine
    /\ \A j \in 1 .. Len(st.line) :
          st.buf[j] = IF j < i /\ Blank(st.line[j]) THEN EndOfLine ELSE st.line[j]

(* argv holds the first words, in order.                                   *)
InOrder ==
    /\ st.argv \in Seq(Nat) /\ Len(st.argv) < MAXARGS
    /\ \A k \in 1 .. Len(st.argv) :
          st.argv[k] \in Starts /\ Cardinality(StartsBefore(st.argv[k])) = k - 1

RuncmdState ==
    /\ st = [x \in DOMAIN st |-> st[x]] /\ RuncmdFields \subseteq DOMAIN st
    /\ st.fn = "runcmd" /\ st.pc \in {"blanks", "word", "scan", "lookup", "rights", "done"}
    /\ st.line \in Seq(LineChars) /\ \A j \in 1 .. Len(st.line) : st.line[j] # EndOfLine
    /\ st.i \in 1 .. Len(st.line) + 1 /\ SplitTo(st.i) /\ InOrder

InWord(i) == i > 1 /\ ~Blank(st.line[i - 1])
EndsHere(i) == i = Len(st.line) + 1 \/ Blank(st.line[i])

RuncmdInv ==
    /\ RuncmdState
    /\ st.pc # "done" => st.called = "no"
    /\ st.pc = "blanks" => /\ InWord(st.i) => EndsHere(st.i)
                           /\ Len(st.argv) = Cardinality(StartsBefore(st.i))
    /\ st.pc = "word" => st.i \in Starts /\ Len(st.argv) = Cardinality(StartsBefore(st.i))
    /\ st.pc = "scan" => /\ st.i \in Starts \/ InWord(st.i)
                         /\ Len(st.argv) = Cardinality(StartsBefore(st.i + 1))
    /\ st.pc \in {"lookup", "rights", "done"} /\ st.called # "too many" =>
          st.i = Len(st.line) + 1 /\ Len(st.argv) = Cardinality(Starts)
    /\ st.called = "too many" => Cardinality(Starts) >= MAXARGS

(* The words are counted as the line is read.                              *)
LEMMA StartsCounted ==
    ASSUME RuncmdState, NEW j \in Nat
    PROVE  /\ IsFiniteSet(Starts) /\ IsFiniteSet(StartsBefore(j))
           /\ Cardinality(StartsBefore(j)) \in Nat /\ Cardinality(Starts) \in Nat
           /\ Cardinality(StartsBefore(j)) <= Cardinality(Starts)
           /\ j \in Starts => Cardinality(StartsBefore(j + 1)) = Cardinality(StartsBefore(j)) + 1
           /\ j \notin Starts => StartsBefore(j + 1) = StartsBefore(j)
           /\ j > Len(st.line) => StartsBefore(j) = Starts
<1>1. Len(st.line) \in Nat
  BY DEF RuncmdState
<1>2. Starts \subseteq 1 .. Len(st.line) /\ IsFiniteSet(1 .. Len(st.line)) /\ Starts \subseteq Nat
  <2>1. Starts \subseteq 1 .. Len(st.line)
    BY DEF Starts
  <2>2. IsFiniteSet(1 .. Len(st.line))
    BY <1>1, FS_Interval
  <2> QED BY <1>1, <2>1, <2>2
<1>3. \A s \in Starts : s \in Nat
  BY <1>2
<1>4. IsFiniteSet(Starts)
  BY <1>2, FS_Subset
<1>5. IsFiniteSet(StartsBefore(j)) /\ Cardinality(StartsBefore(j)) <= Cardinality(Starts)
  <2>1. StartsBefore(j) \in SUBSET Starts
    BY DEF StartsBefore
  <2> QED BY ONLY <1>4, <2>1, FS_Subset
<1>6. Cardinality(StartsBefore(j)) \in Nat /\ Cardinality(Starts) \in Nat
  BY <1>4, <1>5, FS_CardinalityType
<1>7. ASSUME j \in Starts
      PROVE  Cardinality(StartsBefore(j + 1)) = Cardinality(StartsBefore(j)) + 1
  <2>1. \A s \in Starts : (s < j + 1) <=> (s < j \/ s = j)
    BY ONLY <1>3, j \in Nat
  <2>2. ~(j < j)
    OBVIOUS
  <2>3. StartsBefore(j + 1) = StartsBefore(j) \cup {j} /\ j \notin StartsBefore(j)
    BY ONLY <1>7, <2>1, <2>2 DEF StartsBefore
  <2> QED BY ONLY <1>5, <2>3, FS_AddElement
<1>8. ASSUME j \notin Starts
      PROVE  StartsBefore(j + 1) = StartsBefore(j)
  <2>1. \A s \in Starts : (s < j + 1) <=> (s < j \/ s = j)
    BY ONLY <1>3, j \in Nat
  <2> QED BY ONLY <1>8, <2>1 DEF StartsBefore
<1>9. ASSUME j > Len(st.line)
      PROVE  StartsBefore(j) = Starts
  <2>1. \A s \in Starts : s < j
    BY <1>1, <1>2, <1>9
  <2> QED BY ONLY <2>1 DEF StartsBefore
<1> QED BY <1>4, <1>5, <1>6, <1>7, <1>8, <1>9

LEMMA RuncmdStarts == RuncmdInit => RuncmdInv
<1> SUFFICES ASSUME RuncmdInit PROVE RuncmdInv
  OBVIOUS
<1>1. PICK line \in Lines, rest \in Leftovers, mapped \in BOOLEAN : st = Typed(line, rest, mapped)
  BY DEF RuncmdInit
<1>2. /\ st = [x \in DOMAIN st |-> st[x]] /\ RuncmdFields \subseteq DOMAIN st
      /\ st.fn = "runcmd" /\ st.pc = "blanks" /\ st.buf = Append(line, EndOfLine) /\ st.i = 1
      /\ st.line = line /\ st.argv = <<>> /\ st.called = "no"
  BY ONLY <1>1 DEF RuncmdFields, Typed
<1>3. PICK n \in Nat : line \in [1 .. n -> LineChars]
  BY DEF Lines
<1>4. /\ line \in Seq(LineChars) /\ Len(line) = n
      /\ \A j \in 1 .. n : line[j] # EndOfLine
  <2>1. line \in Seq(LineChars) /\ Len(line) = n
    BY <1>3
  <2>2. \A j \in 1 .. n : line[j] \in LineChars
    BY <1>3
  <2> QED BY ONLY <2>1, <2>2, MonitorAssumption
<1>5. SplitTo(1)
  <2>1. \A j \in 1 .. n : ~(j < 1)
    OBVIOUS
  <2>2. line \in Seq(LineChars \cup {EndOfLine}) /\ Len(line) = n
    BY <1>4
  <2>3. /\ Append(line, EndOfLine) \in Seq(LineChars \cup {EndOfLine})
        /\ Len(Append(line, EndOfLine)) = n + 1
        /\ Append(line, EndOfLine)[n + 1] = EndOfLine
        /\ \A j \in 1 .. n : Append(line, EndOfLine)[j] = line[j]
    BY ONLY <2>2, n \in Nat
  <2> QED BY ONLY <1>2, <1>4, <2>1, <2>3 DEF SplitTo
<1>6. InOrder
  <2>1. <<>> \in Seq(Nat) /\ Len(<<>>) = 0 /\ 1 .. 0 = {} /\ 0 < MAXARGS
    BY MonitorAssumption
  <2> QED BY ONLY <1>2, <2>1 DEF InOrder
<1>7. RuncmdState
  <2>1. 1 \in 1 .. n + 1
    OBVIOUS
  <2> QED BY ONLY <1>2, <1>4, <1>5, <1>6, <2>1 DEF RuncmdState
<1>8. Len(st.argv) = Cardinality(StartsBefore(1))
  <2>1. StartsBefore(1) = {}
    BY <1>2, <1>4 DEF StartsBefore, Starts
  <2> QED BY <1>2, <2>1, FS_EmptySet
<1>9. ~InWord(1)
  BY DEF InWord
<1> QED BY ONLY <1>2, <1>7, <1>8, <1>9 DEF RuncmdInv

(* The character at i, as it was typed                                     *)
LEMMA CharAt ==
    ASSUME RuncmdState
    PROVE  /\ Len(st.line) \in Nat /\ st.i \in Nat /\ st.i >= 1 /\ st.i <= Len(st.line) + 1
           /\ st.buf[st.i] = EndOfLine <=> st.i = Len(st.line) + 1
           /\ st.i <= Len(st.line) => st.buf[st.i] = st.line[st.i]
           /\ st.i \in Starts <=> /\ st.i <= Len(st.line) /\ ~Blank(st.line[st.i])
                                  /\ ~InWord(st.i)
<1>1. PICK n \in Nat : n = Len(st.line)
  BY DEF RuncmdState
<1>2. PICK i \in Nat : i = st.i /\ i >= 1 /\ i <= n + 1
  BY <1>1 DEF RuncmdState
<1>3. /\ st.buf[n + 1] = EndOfLine
      /\ \A j \in 1 .. n : st.line[j] # EndOfLine
      /\ \A j \in 1 .. n : st.buf[j] = IF j < i /\ Blank(st.line[j]) THEN EndOfLine ELSE st.line[j]
  BY <1>1, <1>2 DEF RuncmdState, SplitTo
<1>4. i <= n => st.buf[i] = st.line[i] /\ st.buf[i] # EndOfLine
  <2>1. i <= n => i \in 1 .. n /\ ~(i < i)
    BY <1>2
  <2> QED BY ONLY <1>3, <2>1
<1>5. i <= n \/ i = n + 1
  BY <1>2
<1>6. i = n + 1 => ~(i <= n)
  BY <1>2
<1>7. i \in Starts <=> (i <= n /\ ~Blank(st.line[i]) /\ ~InWord(i))
  <2>1. i \in 1 .. n <=> i <= n
    BY <1>2
  <2>2. i = 1 <=> ~(i > 1)
    BY <1>2
  <2> QED BY ONLY <1>1, <2>1, <2>2 DEF Starts, InWord
<1> QED BY ONLY <1>1, <1>2, <1>3, <1>4, <1>5, <1>6, <1>7

(* The words depend on the line only.                                      *)
LEMMA SameLine ==
    ASSUME st'.line = st.line
    PROVE  /\ Starts' = Starts /\ \A j : StartsBefore(j)' = StartsBefore(j)
           /\ \A j : InWord(j)' = InWord(j) /\ EndsHere(j)' = EndsHere(j)
<1>1. Starts' = Starts
  BY DEF Starts
<1>2. ASSUME NEW j PROVE StartsBefore(j)' = StartsBefore(j)
  BY <1>1 DEF StartsBefore
<1>3. ASSUME NEW j PROVE InWord(j)' = InWord(j) /\ EndsHere(j)' = EndsHere(j)
  BY DEF InWord, EndsHere
<1> QED BY <1>1, <1>2, <1>3

(* A step that changes none of these                                       *)
LEMMA SameArgv ==
    ASSUME RuncmdState, st'.line = st.line, st'.argv = st.argv
    PROVE  InOrder'
<1>1. Starts' = Starts /\ \A j : StartsBefore(j)' = StartsBefore(j)
  BY SameLine
<1> QED BY ONLY RuncmdState, <1>1, st'.argv = st.argv DEF RuncmdState, InOrder, StartsBefore

LEMMA Gobbled ==
    ASSUME RuncmdInv, gobble
    PROVE  RuncmdInv'
<1>1. /\ RuncmdState /\ st.pc = "blanks" /\ st.called = "no"
      /\ InWord(st.i) => EndsHere(st.i)
      /\ Len(st.argv) = Cardinality(StartsBefore(st.i))
  BY DEF RuncmdInv, gobble, At
<1>2. PICK n \in Nat, i \in Nat : n = Len(st.line) /\ i = st.i /\ i >= 1 /\ i <= n + 1
  BY <1>1, CharAt
<1>3. /\ st.buf[i] = EndOfLine <=> i = n + 1
      /\ i <= n => st.buf[i] = st.line[i]
      /\ i \in Starts <=> i <= n /\ ~Blank(st.line[i]) /\ ~InWord(i)
  BY <1>1, <1>2, CharAt
<1>4. i <= n \/ i = n + 1
  BY <1>2
<1>5. CASE st.buf[i] # EndOfLine /\ Blank(st.buf[i])
  <2>1. PICK b : b = [st.buf EXCEPT ![i] = EndOfLine]
    OBVIOUS
  <2>2. st' = [st EXCEPT !.i = i + 1, !.buf = b]
    BY <1>2, <1>5, <2>1 DEF gobble
  <2>3. /\ st' = [x \in DOMAIN st' |-> st'[x]] /\ DOMAIN st' = DOMAIN st
        /\ st'.fn = "runcmd" /\ st'.pc = "blanks" /\ st'.line = st.line /\ st'.buf = b
        /\ st'.i = i + 1 /\ st'.argv = st.argv /\ st'.called = "no"
    BY ONLY <1>1, <2>2 DEF RuncmdState, RuncmdFields
  <2>4. i <= n /\ Blank(st.line[i]) /\ i \notin Starts
    BY ONLY <1>3, <1>4, <1>5
  <2>5. SplitTo(st.i)'
    <3>1. /\ st.buf \in Seq(LineChars \cup {EndOfLine}) /\ Len(st.buf) = n + 1
          /\ st.buf[n + 1] = EndOfLine
          /\ \A j \in 1 .. n :
               st.buf[j] = IF j < i /\ Blank(st.line[j]) THEN EndOfLine ELSE st.line[j]
      BY ONLY <1>1, <1>2 DEF RuncmdState, SplitTo
    <3>2. b \in Seq(LineChars \cup {EndOfLine}) /\ Len(b) = n + 1
      BY ONLY <1>2, <2>1, <2>4, <3>1, n \in Nat, i \in Nat
    <3>3. \A j \in 1 .. n + 1 : b[j] = IF j = i THEN EndOfLine ELSE st.buf[j]
      BY ONLY <2>1, <3>1, n \in Nat
    <3>4. b[n + 1] = EndOfLine
      BY ONLY <3>1, <3>3, n \in Nat
    <3>5. ASSUME NEW j \in 1 .. n
          PROVE  b[j] = IF j < i + 1 /\ Blank(st.line[j]) THEN EndOfLine ELSE st.line[j]
      <4>1. j \in 1 .. n + 1 /\ ((j < i + 1) <=> (j < i \/ j = i))
        BY <1>2
      <4>2. CASE j = i
        BY ONLY <2>4, <3>3, <4>1, <4>2
      <4>3. CASE j # i
        BY ONLY <3>1, <3>3, <4>1, <4>3, j \in 1 .. n
      <4> QED BY <4>2, <4>3
    <3> QED BY ONLY <1>2, <2>3, <3>2, <3>4, <3>5 DEF SplitTo
  <2>6. InOrder'
    BY ONLY <1>1, <2>3, SameArgv
  <2>7. RuncmdState'
    <3>1. i + 1 \in 1 .. n + 1
      BY <1>2, <2>4
    <3> QED BY ONLY <1>1, <1>2, <2>3, <2>5, <2>6, <3>1 DEF RuncmdState
  <2>8. ~InWord(i + 1)
    <3>1. (i + 1) - 1 = i
      OBVIOUS
    <3> QED BY ONLY <2>4, <3>1 DEF InWord
  <2>9. Len(st.argv) = Cardinality(StartsBefore(i + 1))
    <3>1. StartsBefore(i + 1) = StartsBefore(i)
      BY ONLY <1>1, <2>4, i \in Nat, StartsCounted
    <3> QED BY ONLY <1>1, <1>2, <3>1
  <2>10. ~InWord(st.i)' /\ (Len(st.argv) = Cardinality(StartsBefore(st.i)))'
    <3>1. InWord(i + 1)' = InWord(i + 1) /\ StartsBefore(i + 1)' = StartsBefore(i + 1)
      BY ONLY <2>3, SameLine
    <3> QED BY ONLY <2>3, <2>8, <2>9, <3>1 DEF InWord, StartsBefore
  <2> QED BY ONLY <2>3, <2>7, <2>10 DEF RuncmdInv
<1>6. CASE ~(st.buf[i] # EndOfLine /\ Blank(st.buf[i]))
  <2>1. PICK pc : pc = IF st.buf[i] = EndOfLine THEN "lookup" ELSE "word"
    OBVIOUS
  <2>2. st' = [st EXCEPT !.pc = pc]
    BY <1>2, <1>6, <2>1 DEF gobble
  <2>3. /\ st' = [x \in DOMAIN st' |-> st'[x]] /\ DOMAIN st' = DOMAIN st
        /\ st'.fn = "runcmd" /\ st'.pc = pc /\ st'.line = st.line /\ st'.buf = st.buf
        /\ st'.i = st.i /\ st'.argv = st.argv /\ st'.called = "no"
    BY ONLY <1>1, <2>2 DEF RuncmdState, RuncmdFields
  <2>4. RuncmdState'
    <3>1. SplitTo(st.i)'
      BY ONLY <1>1, <2>3 DEF RuncmdState, SplitTo
    <3>2. InOrder'
      BY ONLY <1>1, <2>3, SameArgv
    <3>3. pc \in {"blanks", "word", "scan", "lookup", "done"}
      BY <2>1
    <3> QED BY ONLY <1>1, <2>3, <3>1, <3>2, <3>3 DEF RuncmdState
  <2>5. Starts' = Starts /\ StartsBefore(st.i)' = StartsBefore(st.i)
    <3>1. Starts' = Starts
      BY ONLY <2>3, SameLine
    <3> QED BY ONLY <2>3, <3>1 DEF StartsBefore
  <2>6. CASE st.buf[i] = EndOfLine
    <3>1. pc = "lookup" /\ i = n + 1 /\ i > n
      BY <1>3, <2>1, <2>6
    <3>2. StartsBefore(i) = Starts
      BY ONLY <1>1, <1>2, <3>1, StartsCounted, i \in Nat
    <3> QED BY ONLY <1>1, <1>2, <2>3, <2>4, <2>5, <3>1, <3>2 DEF RuncmdInv
  <2>7. CASE st.buf[i] # EndOfLine
    <3>1. pc = "word"
      BY <2>1, <2>7
    <3>2. i <= n /\ ~Blank(st.line[i]) /\ ~(i = n + 1)
      BY ONLY <1>3, <1>4, <1>6, <2>7
    <3>3. i \in Starts
      <4>1. ~EndsHere(i)
        BY ONLY <1>2, <3>2 DEF EndsHere
      <4> QED BY ONLY <1>1, <1>2, <1>3, <3>2, <4>1
    <3> QED BY ONLY <1>1, <1>2, <2>3, <2>4, <2>5, <3>1, <3>3 DEF RuncmdInv
  <2> QED BY <2>6, <2>7
<1> QED BY <1>5, <1>6

LEMMA ArgSaved ==
    ASSUME RuncmdInv, save_arg
    PROVE  RuncmdInv'
<1>1. /\ RuncmdState /\ st.pc = "word" /\ st.called = "no" /\ st.i \in Starts
      /\ Len(st.argv) = Cardinality(StartsBefore(st.i))
  BY DEF RuncmdInv, save_arg, At
<1>2. PICK n \in Nat, i \in Nat : n = Len(st.line) /\ i = st.i /\ i >= 1 /\ i <= n + 1
  BY <1>1, CharAt
<1>3. PICK argv \in Seq(Nat) : argv = st.argv /\ Len(argv) \in Nat /\ Len(argv) < MAXARGS
  BY <1>1 DEF RuncmdState, InOrder
<1>4. /\ Cardinality(StartsBefore(i + 1)) = Len(argv) + 1
      /\ Cardinality(StartsBefore(i + 1)) <= Cardinality(Starts) /\ Cardinality(Starts) \in Nat
  <2>1. Cardinality(StartsBefore(i + 1)) = Cardinality(StartsBefore(i)) + 1
    BY ONLY <1>1, <1>2, i \in Nat, StartsCounted
  <2>2. i + 1 \in Nat
    OBVIOUS
  <2>3. Cardinality(StartsBefore(i + 1)) <= Cardinality(Starts) /\ Cardinality(Starts) \in Nat
    BY ONLY <1>1, <2>2, StartsCounted
  <2> QED BY ONLY <1>1, <1>2, <1>3, <2>1, <2>3
<1>5. MAXARGS \in Nat
  BY MonitorAssumption
<1>6. CASE Full(Len(argv))
  <2>1. st' = [st EXCEPT !.pc = "done", !.called = "too many"]
    BY <1>3, <1>6 DEF save_arg
  <2>2. /\ st' = [x \in DOMAIN st' |-> st'[x]] /\ DOMAIN st' = DOMAIN st
        /\ st'.fn = "runcmd" /\ st'.pc = "done" /\ st'.line = st.line /\ st'.buf = st.buf
        /\ st'.i = st.i /\ st'.argv = st.argv /\ st'.called = "too many"
    BY ONLY <1>1, <2>1 DEF RuncmdState, RuncmdFields
  <2>3. RuncmdState'
    <3>1. SplitTo(st.i)'
      BY ONLY <1>1, <2>2 DEF RuncmdState, SplitTo
    <3>2. InOrder'
      BY ONLY <1>1, <2>2, SameArgv
    <3> QED BY ONLY <1>1, <2>2, <3>1, <3>2 DEF RuncmdState
  <2>4. Cardinality(Starts) >= MAXARGS
    BY ONLY <1>3, <1>4, <1>5, <1>6 DEF Full
  <2>5. Starts' = Starts
    BY ONLY <2>2, SameLine
  <2> QED BY ONLY <2>2, <2>3, <2>4, <2>5 DEF RuncmdInv
<1>7. CASE ~Full(Len(argv))
  <2>1. PICK w : w = Append(argv, i)
    OBVIOUS
  <2>2. st' = [st EXCEPT !.pc = "scan", !.argv = w]
    BY <1>2, <1>3, <1>7, <2>1 DEF save_arg
  <2>3. /\ st' = [x \in DOMAIN st' |-> st'[x]] /\ DOMAIN st' = DOMAIN st
        /\ st'.fn = "runcmd" /\ st'.pc = "scan" /\ st'.line = st.line /\ st'.buf = st.buf
        /\ st'.i = st.i /\ st'.argv = w /\ st'.called = "no"
    BY ONLY <1>1, <2>2 DEF RuncmdState, RuncmdFields
  <2>4. /\ w \in Seq(Nat) /\ Len(w) = Len(argv) + 1 /\ w[Len(argv) + 1] = i
        /\ \A k \in 1 .. Len(argv) : w[k] = argv[k]
    BY ONLY <2>1, argv \in Seq(Nat), i \in Nat
  <2>5. Len(w) < MAXARGS
    BY ONLY <1>3, <1>5, <1>7, <2>4 DEF Full
  <2>6. Starts' = Starts /\ \A j : StartsBefore(j)' = StartsBefore(j)
    BY ONLY <2>3, SameLine
  <2>7. ASSUME NEW k \in 1 .. Len(w)
        PROVE  w[k] \in Starts /\ Cardinality(StartsBefore(w[k])) = k - 1
    <3>1. CASE k \in 1 .. Len(argv)
      BY ONLY <1>1, <1>3, <2>4, <3>1 DEF RuncmdState, InOrder
    <3>2. CASE k = Len(argv) + 1
      <4>1. w[k] = i /\ k - 1 = Len(argv)
        BY ONLY <1>3, <2>4, <3>2
      <4> QED BY ONLY <1>1, <1>2, <1>3, <4>1
    <3>3. k \in 1 .. Len(argv) \/ k = Len(argv) + 1
      BY ONLY <1>3, <2>4, k \in 1 .. Len(w)
    <3> QED BY <3>1, <3>2, <3>3
  <2>8. InOrder'
    BY ONLY <2>3, <2>4, <2>5, <2>6, <2>7 DEF InOrder, StartsBefore
  <2>9. RuncmdState'
    <3>1. SplitTo(st.i)'
      BY ONLY <1>1, <2>3 DEF RuncmdState, SplitTo
    <3> QED BY ONLY <1>1, <2>3, <2>8, <3>1 DEF RuncmdState
  <2>10. (Len(st.argv) = Cardinality(StartsBefore(st.i + 1)))'
    BY ONLY <1>2, <1>4, <2>3, <2>4, <2>6 DEF StartsBefore
  <2> QED BY ONLY <1>1, <2>3, <2>6, <2>9, <2>10 DEF RuncmdInv
<1> QED BY <1>6, <1>7

LEMMA WordScanned ==
    ASSUME RuncmdInv, scan
    PROVE  RuncmdInv'
<1>1. /\ RuncmdState /\ st.pc = "scan" /\ st.called = "no"
      /\ st.i \in Starts \/ InWord(st.i)
      /\ Len(st.argv) = Cardinality(StartsBefore(st.i + 1))
  BY DEF RuncmdInv, scan, At
<1>2. PICK n \in Nat, i \in Nat : n = Len(st.line) /\ i = st.i /\ i >= 1 /\ i <= n + 1
  BY <1>1, CharAt
<1>3. /\ st.buf[i] = EndOfLine <=> i = n + 1
      /\ i <= n => st.buf[i] = st.line[i]
      /\ i \in Starts <=> i <= n /\ ~Blank(st.line[i]) /\ ~InWord(i)
  BY <1>1, <1>2, CharAt
<1>4. i <= n \/ i = n + 1
  BY <1>2
<1>5. CASE st.buf[i] # EndOfLine /\ ~Blank(st.buf[i])
  <2>2. st' = [st EXCEPT !.i = i + 1]
    BY <1>2, <1>5 DEF scan
  <2>3. /\ st' = [x \in DOMAIN st' |-> st'[x]] /\ DOMAIN st' = DOMAIN st
        /\ st'.fn = "runcmd" /\ st'.pc = "scan" /\ st'.line = st.line /\ st'.buf = st.buf
        /\ st'.i = i + 1 /\ st'.argv = st.argv /\ st'.called = "no"
    BY ONLY <1>1, <2>2 DEF RuncmdState, RuncmdFields
  <2>4. i <= n /\ ~Blank(st.line[i])
    BY ONLY <1>3, <1>4, <1>5
  <2>5. SplitTo(st.i)'
    <3>1. /\ st.buf \in Seq(LineChars \cup {EndOfLine}) /\ Len(st.buf) = n + 1
          /\ st.buf[n + 1] = EndOfLine
          /\ \A j \in 1 .. n :
               st.buf[j] = IF j < i /\ Blank(st.line[j]) THEN EndOfLine ELSE st.line[j]
      BY ONLY <1>1, <1>2 DEF RuncmdState, SplitTo
    <3>2. \A j \in 1 .. n : (j < i + 1) <=> (j < i \/ j = i)
      BY <1>2
    <3>3. \A j \in 1 .. n :
            st.buf[j] = IF j < i + 1 /\ Blank(st.line[j]) THEN EndOfLine ELSE st.line[j]
      BY ONLY <2>4, <3>1, <3>2
    <3> QED BY ONLY <1>2, <2>3, <3>1, <3>3 DEF SplitTo
  <2>6. RuncmdState'
    <3>1. i + 1 \in 1 .. n + 1
      BY <1>2, <2>4
    <3>2. InOrder'
      BY ONLY <1>1, <2>3, SameArgv
    <3> QED BY ONLY <1>1, <1>2, <2>3, <2>5, <3>1, <3>2 DEF RuncmdState
  <2>7. InWord(i + 1)
    <3>1. i + 1 > 1 /\ (i + 1) - 1 = i
      BY <1>2
    <3> QED BY ONLY <2>4, <3>1 DEF InWord
  <2>8. i + 1 \notin Starts
    <3>1. (i + 1) - 1 = i /\ i + 1 # 1
      BY <1>2
    <3> QED BY ONLY <2>4, <3>1 DEF Starts
  <2>9. Len(st.argv) = Cardinality(StartsBefore(i + 1 + 1))
    <3>1. i + 1 \in Nat
      OBVIOUS
    <3>2. StartsBefore(i + 1 + 1) = StartsBefore(i + 1)
      BY ONLY <1>1, <2>8, <3>1, StartsCounted
    <3> QED BY ONLY <1>1, <1>2, <3>2
  <2>10. InWord(st.i)' /\ (Len(st.argv) = Cardinality(StartsBefore(st.i + 1)))'
    <3>1. InWord(i + 1)' = InWord(i + 1) /\ StartsBefore(i + 1 + 1)' = StartsBefore(i + 1 + 1)
      BY ONLY <2>3, SameLine
    <3> QED BY ONLY <2>3, <2>7, <2>9, <3>1 DEF InWord, StartsBefore
  <2> QED BY ONLY <2>3, <2>6, <2>10 DEF RuncmdInv
<1>6. CASE ~(st.buf[i] # EndOfLine /\ ~Blank(st.buf[i]))
  <2>2. st' = [st EXCEPT !.pc = "blanks"]
    BY <1>2, <1>6 DEF scan
  <2>3. /\ st' = [x \in DOMAIN st' |-> st'[x]] /\ DOMAIN st' = DOMAIN st
        /\ st'.fn = "runcmd" /\ st'.pc = "blanks" /\ st'.line = st.line /\ st'.buf = st.buf
        /\ st'.i = st.i /\ st'.argv = st.argv /\ st'.called = "no"
    BY ONLY <1>1, <2>2 DEF RuncmdState, RuncmdFields
  <2>4. RuncmdState'
    <3>1. SplitTo(st.i)'
      BY ONLY <1>1, <2>3 DEF RuncmdState, SplitTo
    <3>2. InOrder'
      BY ONLY <1>1, <2>3, SameArgv
    <3> QED BY ONLY <1>1, <2>3, <3>1, <3>2 DEF RuncmdState
  <2>5. EndsHere(i) /\ i \notin Starts
    <3>1. i = n + 1 => ~(i <= n)
      BY <1>2
    <3>2. i = n + 1 \/ (i <= n /\ Blank(st.line[i]))
      BY ONLY <1>3, <1>4, <1>6
    <3> QED BY ONLY <1>2, <1>3, <3>1, <3>2 DEF EndsHere
  <2>6. StartsBefore(i + 1) = StartsBefore(i)
    BY ONLY <1>1, <2>5, i \in Nat, StartsCounted
  <2>7. EndsHere(st.i)' /\ (Len(st.argv) = Cardinality(StartsBefore(st.i)))'
    <3>1. EndsHere(i)' = EndsHere(i) /\ StartsBefore(i)' = StartsBefore(i)
      BY ONLY <2>3, SameLine
    <3> QED BY ONLY <1>1, <1>2, <2>3, <2>5, <2>6, <3>1 DEF EndsHere, StartsBefore
  <2> QED BY ONLY <2>3, <2>4, <2>7 DEF RuncmdInv
<1> QED BY <1>5, <1>6

LEMMA CommandCalled ==
    ASSUME RuncmdInv, lookup \/ mon_setperms \/ set_rights
    PROVE  RuncmdInv'
<1>1. /\ RuncmdState /\ st.pc \in {"lookup", "rights"} /\ st.called = "no"
      /\ st.i = Len(st.line) + 1 /\ Len(st.argv) = Cardinality(Starts)
  BY DEF RuncmdInv, lookup, mon_setperms, set_rights, At
<1>2. \/ \E c, p : Done(c, p) /\ c # "too many"
      \/ \E k, p : st' = [st EXCEPT !.pc = "rights", !.pte = p, !.k = k]
      \/ \E k, p : st' = [st EXCEPT !.k = k, !.pte = p] /\ st.pc = "rights"
  <2>0. /\ "help" # "too many" /\ "none" # "too many" /\ "panic" # "too many"
        /\ "setperms" # "too many"
    OBVIOUS
  <2>1. CASE lookup
    <3>2. Done(IF Calls(<<"h">>) THEN "help" ELSE "none", st.pte)
      BY <2>1 DEF lookup
    <3>3. Done("help", st.pte) \/ Done("none", st.pte)
      <4>1. CASE Calls(<<"h">>)
        BY ONLY <3>2, <4>1, Zenon
      <4>2. CASE ~Calls(<<"h">>)
        BY ONLY <3>2, <4>2, Zenon
      <4> QED BY ONLY <4>1, <4>2, Zenon
    <3> QED BY ONLY <2>0, <3>3, Zenon
  <2>2. CASE mon_setperms
    <3>2. \/ Done("panic", st.pte) \/ Done("setperms", {}) \/ Done("setperms", st.pte)
          \/ st' = [st EXCEPT !.pc = "rights", !.pte = {}, !.k = FirstRight]
      BY <2>2 DEF mon_setperms
    <3> QED BY ONLY <2>0, <3>2, Zenon
  <2>3. CASE set_rights
    <3>1. PICK p : p = st.pte \cup ({BufAt(st.argv[4] + st.k)} \cap {"P", "U", "W"})
      OBVIOUS
    <3>2. /\ st.pc = "rights"
          /\ \/ Done("panic", st.pte) \/ Done("setperms", st.pte)
             \/ st' = [st EXCEPT !.k = st.k + 2, !.pte = p]
      BY <2>3, <3>1 DEF set_rights, At
    <3> QED BY ONLY <2>0, <3>2, Zenon
  <2> QED BY <2>1, <2>2, <2>3
<1> DEFINE StepKeeps ==
      /\ st' = [x \in DOMAIN st' |-> st'[x]] /\ DOMAIN st' = DOMAIN st
      /\ st'.fn = "runcmd" /\ st'.line = st.line /\ st'.buf = st.buf
      /\ st'.i = st.i /\ st'.argv = st.argv /\ st'.called # "too many"
      /\ \/ st'.pc = "done"
         \/ st'.pc = "rights" /\ st'.called = "no"
<1>5. StepKeeps
  <2>1. ASSUME NEW c, NEW p, Done(c, p), c # "too many" PROVE StepKeeps
    <3>1. st' = [st EXCEPT !.pc = "done", !.called = c, !.pte = p]
      BY <2>1 DEF Done
    <3> QED BY ONLY <1>1, <2>1, <3>1 DEF RuncmdState, RuncmdFields
  <2>2. ASSUME NEW k, NEW p, st' = [st EXCEPT !.pc = "rights", !.pte = p, !.k = k] PROVE StepKeeps
    BY ONLY <1>1, <2>2 DEF RuncmdState, RuncmdFields
  <2>3. ASSUME NEW k, NEW p, st' = [st EXCEPT !.k = k, !.pte = p], st.pc = "rights" PROVE StepKeeps
    BY ONLY <1>1, <2>3 DEF RuncmdState, RuncmdFields
  <2> QED BY ONLY <1>2, <2>1, <2>2, <2>3
<1>6. RuncmdState'
  <2>1. SplitTo(st.i)'
    BY ONLY <1>1, <1>5 DEF RuncmdState, SplitTo
  <2>2. InOrder'
    BY ONLY <1>1, <1>5, SameArgv
  <2> QED BY ONLY <1>1, <1>5, <2>1, <2>2 DEF RuncmdState
<1>7. Starts' = Starts
  BY ONLY <1>5, SameLine
<1> QED BY ONLY <1>1, <1>5, <1>6, <1>7 DEF RuncmdInv

(* A word of the line that was split has no blank in it.                   *)
LEMMA WordPlain ==
    ASSUME RuncmdState, st.i = Len(st.line) + 1, NEW a \in 1 .. Len(st.line)
    PROVE  \A j \in DOMAIN Word(st.buf, a) : ~Blank(Word(st.buf, a)[j])
<1>1. PICK n \in Nat : n = Len(st.line)
  BY DEF RuncmdState
<1>2. PICK buf \in Seq(LineChars \cup {EndOfLine}) :
        /\ buf = st.buf /\ Len(buf) = n + 1 /\ buf[n + 1] = EndOfLine
        /\ \A j \in 1 .. n :
             buf[j] = IF j < n + 1 /\ Blank(st.line[j]) THEN EndOfLine ELSE st.line[j]
  BY <1>1 DEF RuncmdState, SplitTo
<1>3. PICK T : T = {j \in a .. Len(buf) : buf[j] = EndOfLine}
  OBVIOUS
<1>4. T \in SUBSET Nat /\ n + 1 \in T
  BY <1>1, <1>2, <1>3
<1>5. PICK e \in T : e = Min(T) /\ \A y \in T : e <= y
  BY <1>4, LeastOf
<1>6. e \in Nat /\ a <= e /\ e <= n + 1
  <2>1. e \in a .. n + 1 /\ a \in Nat
    BY <1>1, <1>2, <1>3
  <2> QED BY ONLY <2>1, n \in Nat
<1>7. Word(buf, a) = SubSeq(buf, a, e - 1)
  BY <1>3, <1>5 DEF Word
<1>8. /\ DOMAIN SubSeq(buf, a, e - 1) = 1 .. (e - 1) - a + 1
      /\ \A j \in 1 .. (e - 1) - a + 1 : SubSeq(buf, a, e - 1)[j] = buf[a + j - 1]
  <2>1. PICK z \in Int : z = e - 1 /\ a \in Int /\ a <= z + 1 /\ z <= n
    BY <1>1, <1>6
  <2>2. \A x \in a .. z : x \in 1 .. Len(buf)
    BY <1>1, <1>2, <2>1
  <2>3. PICK C : buf \in Seq(C)
    OBVIOUS
  <2>4. \A x \in a .. z : buf[x] \in C
    BY ONLY <2>2, <2>3
  <2>5. PICK s : s = SubSeq(buf, a, z)
    OBVIOUS
  <2>6. /\ s \in Seq(C) /\ Len(s) = IF a <= z THEN z - a + 1 ELSE 0
        /\ \A j \in 1 .. z - a + 1 : s[j] = buf[a + j - 1]
    BY ONLY <2>1, <2>4, <2>5, SubSeqProperties
  <2>7. DOMAIN s = 1 .. Len(s) /\ Len(s) = z - a + 1
    <3>1. DOMAIN s = 1 .. Len(s)
      BY ONLY <2>6
    <3> QED BY ONLY <2>1, <2>6, <3>1
  <2> QED BY ONLY <2>1, <2>5, <2>6, <2>7
<1>9. ASSUME NEW j \in 1 .. (e - 1) - a + 1
      PROVE  ~Blank(buf[a + j - 1])
  <2>1. PICK x \in Nat : x = a + j - 1 /\ a <= x /\ x < e /\ x \in 1 .. n
    BY <1>1, <1>6
  <2>2. x \notin T
    BY ONLY <1>5, <1>6, <2>1
  <2>3. x \in a .. Len(buf) /\ x < n + 1
    BY <1>1, <1>2, <1>6, <2>1
  <2>4. buf[x] # EndOfLine
    BY ONLY <1>3, <2>2, <2>3
  <2>5. ~Blank(buf[x])
    BY ONLY <1>2, <2>1, <2>3, <2>4
  <2> QED BY ONLY <2>1, <2>5
<1> QED BY ONLY <1>2, <1>7, <1>8, <1>9

(* ArgvExact, for every line and every MAXARGS: runcmd of kern/monitor.c   *)
(* splits the line into its words, in order, each ended by a NUL; argv has *)
(* room for them and the NULL, and a line with more words is refused.      *)
THEOREM RuncmdCorrect == RuncmdSpec => []ArgvExact
<1>1. RuncmdInv /\ [MonitorNext]_st => RuncmdInv'
  <2>1. ASSUME RuncmdInv, UNCHANGED st PROVE RuncmdInv'
    <3>1. st'.line = st.line
      BY <2>1
    <3>2. /\ Starts' = Starts /\ (\A j : StartsBefore(j)' = StartsBefore(j))
          /\ \A j : InWord(j)' = InWord(j) /\ EndsHere(j)' = EndsHere(j)
      BY ONLY <3>1, SameLine
    <3>3. RuncmdState /\ st'.argv = st.argv
      BY <2>1 DEF RuncmdInv
    <3>4. InOrder'
      BY ONLY <3>1, <3>3, SameArgv
    <3>5. RuncmdState'
      BY ONLY <2>1, <3>3, <3>4 DEF RuncmdState, SplitTo
    <3> QED BY ONLY <2>1, <3>2, <3>5 DEF RuncmdInv, StartsBefore, InWord, EndsHere
  <2> QED BY <2>1, Gobbled, ArgSaved, WordScanned, CommandCalled DEF MonitorNext
<1>2. RuncmdInv => ArgvExact
  <2> SUFFICES ASSUME RuncmdInv PROVE ArgvExact
    OBVIOUS
  <2>0. RuncmdState /\ st.argv \in Seq(Nat) /\ Len(st.argv) < MAXARGS
    BY DEF RuncmdInv, RuncmdState, InOrder
  <2>1. /\ RuncmdState /\ st.argv \in Seq(Nat) /\ Len(st.argv) < MAXARGS
        /\ DOMAIN st.argv = 1 .. Len(st.argv)
    BY ONLY <2>0
  <2>2. ASSUME st.pc \in {"lookup", "rights", "done"}, st.called # "too many", NEW k \in DOMAIN st.argv
        PROVE  /\ Cardinality({i \in Starts : i < st.argv[k]}) = k - 1
               /\ \A j \in DOMAIN Argv(k - 1) : ~Blank(Argv(k - 1)[j])
    <3>1. k \in 1 .. Len(st.argv) /\ st.argv[k] \in Starts
          /\ Cardinality(StartsBefore(st.argv[k])) = k - 1
      BY <2>1 DEF RuncmdState, InOrder
    <3>2. st.i = Len(st.line) + 1
      BY <2>2 DEF RuncmdInv
    <3>3. PICK a \in 1 .. Len(st.line) : a = st.argv[k]
      BY ONLY <3>1 DEF Starts
    <3>4. (k - 1) + 1 = k
      BY ONLY <2>1, <3>1
    <3>5. Argv(k - 1) = Word(st.buf, a)
      BY ONLY <3>3, <3>4 DEF Argv
    <3>6. \A j \in DOMAIN Word(st.buf, a) : ~Blank(Word(st.buf, a)[j])
      BY ONLY <2>1, <3>2, WordPlain, a \in 1 .. Len(st.line)
    <3> QED BY ONLY <3>1, <3>5, <3>6 DEF StartsBefore
  <2> QED BY <2>1, <2>2 DEF ArgvExact, RuncmdInv
<1> QED BY <1>1, <1>2, RuncmdStarts, PTL DEF RuncmdSpec

-----------------------------------------------------------------------------
(* vprintfmt: what it reads.                                               *)

FormatFields == {"fn", "pc", "fmt", "f", "args", "ap", "n", "base", "out", "buf", "ret",
                 "padc", "width", "precision", "lflag", "altflag"}

(* Inside an escape, the percent sign that began it is behind f.           *)
FormatInv ==
    /\ st = [x \in DOMAIN st |-> st[x]] /\ FormatFields \subseteq DOMAIN st
    /\ st.fn = "printf" /\ st.base = -1
    /\ st.fmt \in Seq(FmtChars) /\ st.f \in Nat /\ st.f <= Len(st.fmt)
    /\ st.pc = "escape" => \E k \in 1 .. st.f : st.fmt[k] = "%"

(* A step of vprintfmt: it may move f, and an escape keeps its percent     *)
(* sign.                                                                   *)
Reads(f, pc) ==
    /\ st' = [x \in DOMAIN st' |-> st'[x]] /\ DOMAIN st' = DOMAIN st
    /\ st'.fn = "printf" /\ st'.base = st.base /\ st'.fmt = st.fmt /\ st'.f = f /\ st'.pc = pc

LEMMA FormatStep ==
    ASSUME FormatInv, NEW f \in Nat, NEW pc, Reads(f, pc), f <= Len(st.fmt),
           pc = "escape" => \E k \in 1 .. f : st.fmt[k] = "%"
    PROVE  FormatInv'
BY DEF FormatInv, Reads

LEMMA FormatStarts == FormatInit => FormatInv
<1> SUFFICES ASSUME FormatInit PROVE FormatInv
  OBVIOUS
<1>1. PICK fmt \in Formats, args \in [Nat \ {0} -> Int], null \in BOOLEAN, n \in Nat :
         FormatCall(fmt, args, null, n, -1)
  BY DEF FormatInit
<1>2. /\ st = [x \in DOMAIN st |-> st[x]] /\ FormatFields \subseteq DOMAIN st
      /\ st.fn = "printf" /\ st.base = -1 /\ st.fmt = fmt /\ st.f = 0 /\ st.pc = "call"
  BY ONLY <1>1 DEF FormatCall, FormatFields
<1>3. PICK k \in Nat : fmt \in [1 .. k -> FmtChars]
  BY DEF Formats
<1>4. fmt \in Seq(FmtChars) /\ Len(fmt) \in Nat
  BY ONLY <1>3
<1>5. 0 \in Nat /\ 0 <= Len(fmt)
  BY <1>4
<1> QED BY ONLY <1>2, <1>4, <1>5 DEF FormatInv

(* A character that is there is not the NUL.                               *)
LEMMA CharThere ==
    ASSUME FormatInv, Char # "NUL"
    PROVE  /\ Len(st.fmt) \in Nat /\ st.f < Len(st.fmt) /\ Char = st.fmt[st.f + 1]
           /\ st.f + 1 \in Nat /\ st.f + 1 <= Len(st.fmt)
<1>1. st.f < Len(st.fmt) /\ Char = st.fmt[st.f + 1]
  BY DEF Char
<1>2. st.f \in Nat /\ Len(st.fmt) \in Nat
  BY DEF FormatInv
<1> QED BY <1>1, <1>2

(* The changes to the output leave the format alone.                       *)
LEMMA PutReads ==
    ASSUME FormatInv, NEW s, s = [x \in DOMAIN s |-> s[x]], DOMAIN s = DOMAIN st,
           NEW cs, NEW f, NEW pc, s.fn = "printf", s.base = st.base, s.fmt = st.fmt, s.f = f,
           s.pc = pc, st' = Put(s, cs)
    PROVE  Reads(f, pc)
<1>1. PICK o, b : st' = [s EXCEPT !.out = o, !.buf = b]
  BY DEF Put
<1>2. FormatFields \subseteq DOMAIN s
  BY DEF FormatInv
<1> QED BY <1>1, <1>2 DEF Reads, FormatFields

(* The escape goes on, one character further.                              *)
LEMMA OneFurther ==
    ASSUME FormatInv, Char # "NUL", st.pc = "escape", Reads(st.f + 1, "escape")
    PROVE  FormatInv'
<1>1. st.f + 1 \in Nat /\ st.f + 1 <= Len(st.fmt) /\ st.f \in Nat
  BY CharThere DEF FormatInv
<1>2. \E k \in 1 .. st.f + 1 : st.fmt[k] = "%"
  <2>1. PICK k \in 1 .. st.f : st.fmt[k] = "%"
    BY DEF FormatInv
  <2>2. k \in 1 .. st.f + 1
    BY <1>1
  <2> QED BY <2>1, <2>2
<1> QED BY <1>1, <1>2, FormatStep

LEMMA TextRead ==
    ASSUME FormatInv, text
    PROVE  FormatInv'
<1>1. /\ st = [x \in DOMAIN st |-> st[x]] /\ FormatFields \subseteq DOMAIN st
      /\ st.fn = "printf" /\ st.pc = "text" /\ st.f \in Nat /\ st.f <= Len(st.fmt)
  BY DEF FormatInv, text, At
<1>2. CASE st' = [st EXCEPT !.pc = "done", !.ret = Len(st.out)]
  <2>1. Reads(st.f, "done")
    BY ONLY <1>1, <1>2 DEF Reads, FormatFields
  <2> QED BY <1>1, <2>1, FormatStep
<1>3. CASE /\ Char = "%"
           /\ st' = [st EXCEPT !.pc = "escape", !.f = st.f + 1, !.padc = " ", !.width = -1,
                               !.precision = -1, !.lflag = 0, !.altflag = FALSE]
  <2>1. Reads(st.f + 1, "escape")
    BY ONLY <1>1, <1>3 DEF Reads, FormatFields
  <2>2. st.f + 1 \in Nat /\ st.f + 1 <= Len(st.fmt) /\ st.fmt[st.f + 1] = "%"
    BY <1>3, CharThere
  <2>3. \E k \in 1 .. st.f + 1 : st.fmt[k] = "%"
    <3>1. st.f + 1 \in 1 .. st.f + 1
      BY <1>1
    <3> QED BY <2>2, <3>1
  <2> QED BY <2>1, <2>2, <2>3, FormatStep
<1>4. CASE Char \notin {"NUL", "%"} /\ st' = Put([st EXCEPT !.f = st.f + 1], <<Char>>)
  <2>1. PICK s : s = [st EXCEPT !.f = st.f + 1]
    OBVIOUS
  <2>2. /\ s = [x \in DOMAIN s |-> s[x]] /\ DOMAIN s = DOMAIN st /\ s.fn = "printf"
        /\ s.base = st.base /\ s.fmt = st.fmt /\ s.f = st.f + 1 /\ s.pc = "text"
    BY ONLY <1>1, <2>1 DEF FormatFields
  <2>3. st' = Put(s, <<Char>>)
    BY ONLY <1>4, <2>1
  <2>4. Reads(st.f + 1, "text")
    BY ONLY FormatInv, <2>2, <2>3, PutReads
  <2>5. st.f + 1 \in Nat /\ st.f + 1 <= Len(st.fmt)
    BY <1>4, CharThere
  <2> QED BY ONLY FormatInv, <2>4, <2>5, FormatStep
<1> QED BY <1>2, <1>3, <1>4 DEF text

(* The digits of a number end inside the format.                           *)
LEMMA NumberInside ==
    ASSUME FormatInv, IsDigit(Char), Char # "NUL"
    PROVE  /\ LastDigit \in Nat /\ st.f <= LastDigit /\ LastDigit + 1 <= Len(st.fmt)
           /\ \A i \in st.f .. LastDigit : IsDigit(st.fmt[i + 1])
<1>1. PICK f \in Nat, n \in Nat : f = st.f /\ n = Len(st.fmt) /\ f < n /\ Char = st.fmt[f + 1]
  BY CharThere DEF FormatInv
<1>2. PICK T : T = {j \in f .. n - 1 : \A i \in f .. j : IsDigit(st.fmt[i + 1])}
  OBVIOUS
<1>3. f \in T
  <2>1. f \in f .. n - 1 /\ \A i \in f .. f : i = f
    BY <1>1
  <2> QED BY ONLY <1>1, <1>2, <2>1, IsDigit(Char)
<1>4. T \in SUBSET Int /\ \A y \in T : y <= n - 1
  BY <1>1, <1>2
<1>5. n - 1 \in Int
  OBVIOUS
<1>6. Max(T) \in T
  BY ONLY <1>3, <1>4, <1>5, MaxIs
<1>7. LastDigit = Max(T)
  BY <1>1, <1>2 DEF LastDigit
<1>8. LastDigit \in f .. n - 1
  BY ONLY <1>2, <1>6, <1>7
<1>9. \A i \in st.f .. LastDigit : IsDigit(st.fmt[i + 1])
  BY ONLY <1>1, <1>2, <1>6, <1>7
<1> QED BY ONLY <1>1, <1>8, <1>9

LEMMA CallRead ==
    ASSUME FormatInv, vsnprintf
    PROVE  FormatInv'
<1>1. /\ st = [x \in DOMAIN st |-> st[x]] /\ FormatFields \subseteq DOMAIN st
      /\ st.fn = "printf" /\ st.pc = "call" /\ st.f \in Nat /\ st.f <= Len(st.fmt)
  BY DEF FormatInv, vsnprintf, At
<1>2. CASE st' = [st EXCEPT !.pc = "done", !.ret = -3]
  <2>1. Reads(st.f, "done")
    BY ONLY <1>1, <1>2 DEF Reads, FormatFields
  <2> QED BY <1>1, <2>1, FormatStep
<1>3. CASE st' = [st EXCEPT !.pc = "text"]
  <2>1. Reads(st.f, "text")
    BY ONLY <1>1, <1>3 DEF Reads, FormatFields
  <2> QED BY <1>1, <2>1, FormatStep
<1> QED BY <1>2, <1>3 DEF vsnprintf

(* No digit is the NUL.                                                    *)
LEMMA DigitThere ==
    ASSUME NEW c, IsDigit(c)
    PROVE  c # "NUL"
<1>1. PICK v \in 0 .. 9 : Digit[v + 1] = c
  BY DEF IsDigit
<1>2. v + 1 \in {1, 2, 3, 4, 5, 6, 7, 8, 9, 10}
  BY <1>1
<1>3. /\ Digit[1] = "0" /\ Digit[2] = "1" /\ Digit[3] = "2" /\ Digit[4] = "3" /\ Digit[5] = "4"
      /\ Digit[6] = "5" /\ Digit[7] = "6" /\ Digit[8] = "7" /\ Digit[9] = "8" /\ Digit[10] = "9"
  BY DEF Digit
<1> QED BY <1>1, <1>2, <1>3

(* A flag or a star is one character, a number is all its digits.          *)
LEMMA FlagsRead ==
    ASSUME FormatInv, flags
    PROVE  FormatInv'
<1>1. /\ st = [x \in DOMAIN st |-> st[x]] /\ FormatFields \subseteq DOMAIN st
      /\ st.fn = "printf" /\ st.pc = "escape" /\ st.f \in Nat
  BY DEF FormatInv, flags, At
<1>3. CASE Char \in {"-", "0"} /\ st' = [st EXCEPT !.f = st.f + 1, !.padc = Char]
  <2>1. Reads(st.f + 1, "escape")
    BY ONLY <1>1, <1>3 DEF Reads, FormatFields
  <2> QED BY <1>1, <1>3, <2>1, OneFurther
<1>4. CASE /\ IsDigit(Char) /\ Char # "0"
           /\ st' = process_precision([st EXCEPT !.f = LastDigit + 1], Number)
  <2>1. PICK w, p : st' = [[st EXCEPT !.f = LastDigit + 1] EXCEPT !.width = w, !.precision = p]
    BY ONLY <1>4 DEF process_precision
  <2>2. Reads(LastDigit + 1, "escape")
    BY ONLY <1>1, <2>1 DEF Reads, FormatFields
  <2>3. LastDigit \in Nat /\ st.f <= LastDigit /\ LastDigit + 1 <= Len(st.fmt)
    BY ONLY FormatInv, <1>4, DigitThere, NumberInside
  <2>4. \E k \in 1 .. LastDigit + 1 : st.fmt[k] = "%"
    <3>1. PICK k \in 1 .. st.f : st.fmt[k] = "%"
      BY <1>1 DEF FormatInv
    <3>2. k \in 1 .. LastDigit + 1
      BY ONLY <1>1, <2>3, k \in 1 .. st.f
    <3> QED BY <3>1, <3>2
  <2>5. LastDigit + 1 \in Nat
    BY ONLY <2>3
  <2> QED BY ONLY FormatInv, <2>2, <2>3, <2>4, <2>5, FormatStep
<1>5. CASE /\ Char = "*"
           /\ st' = process_precision([st EXCEPT !.f = st.f + 1, !.ap = st.ap + 1], st.args[st.ap])
  <2>1. PICK w, p : st' = [[st EXCEPT !.f = st.f + 1, !.ap = st.ap + 1] EXCEPT !.width = w, !.precision = p]
    BY ONLY <1>5 DEF process_precision
  <2>2. Reads(st.f + 1, "escape")
    BY ONLY <1>1, <2>1 DEF Reads, FormatFields
  <2> QED BY <1>1, <1>5, <2>2, OneFurther
<1>6. CASE /\ Char = "."
           /\ st' = [st EXCEPT !.f = st.f + 1, !.width = IF st.width < 0 THEN 0 ELSE st.width]
  <2>1. PICK w : st' = [st EXCEPT !.f = st.f + 1, !.width = w]
    BY ONLY <1>6
  <2>2. Reads(st.f + 1, "escape")
    BY ONLY <1>1, <2>1 DEF Reads, FormatFields
  <2> QED BY <1>1, <1>6, <2>2, OneFurther
<1>7. CASE Char = "#" /\ st' = [st EXCEPT !.f = st.f + 1, !.altflag = TRUE]
  <2>1. Reads(st.f + 1, "escape")
    BY ONLY <1>1, <1>7 DEF Reads, FormatFields
  <2> QED BY <1>1, <1>7, <2>1, OneFurther
<1>8. CASE Char = "l" /\ st' = [st EXCEPT !.f = st.f + 1, !.lflag = st.lflag + 1]
  <2>1. Reads(st.f + 1, "escape")
    BY ONLY <1>1, <1>8 DEF Reads, FormatFields
  <2> QED BY <1>1, <1>8, <2>1, OneFurther
<1> QED BY <1>3, <1>4, <1>5, <1>6, <1>7, <1>8 DEF flags

(* A conversion is one character and ends the escape.                      *)
LEMMA ConversionRead ==
    ASSUME FormatInv, conversion
    PROVE  FormatInv'
<1>1. /\ st = [x \in DOMAIN st |-> st[x]] /\ FormatFields \subseteq DOMAIN st
      /\ st.fn = "printf" /\ st.f \in Nat
  BY DEF FormatInv
<1>2. Char # "NUL" /\ \E cs, used : Converts(cs, used)
  BY DEF conversion
<1>3. PICK cs, used : Converts(cs, used)
  BY ONLY <1>2
<1>4. PICK a, s : /\ s = [st EXCEPT !.pc = "text", !.f = st.f + 1, !.ap = a]
                  /\ st' = Put(s, cs)
  BY ONLY <1>3 DEF Converts
<1>5. /\ s = [x \in DOMAIN s |-> s[x]] /\ DOMAIN s = DOMAIN st /\ s.fn = "printf"
      /\ s.base = st.base /\ s.fmt = st.fmt /\ s.f = st.f + 1 /\ s.pc = "text"
  BY ONLY <1>1, <1>4 DEF FormatFields
<1>6. Reads(st.f + 1, "text")
  BY ONLY FormatInv, <1>4, <1>5, PutReads
<1>7. st.f + 1 \in Nat /\ st.f + 1 <= Len(st.fmt)
  BY <1>2, CharThere
<1> QED BY ONLY FormatInv, <1>6, <1>7, FormatStep

(* An unknown conversion goes back no further than to its percent sign,    *)
(* which is there.                                                         *)
LEMMA UnknownRead ==
    ASSUME FormatInv, unknown
    PROVE  FormatInv'
<1>1. /\ st = [x \in DOMAIN st |-> st[x]] /\ FormatFields \subseteq DOMAIN st
      /\ st.fn = "printf" /\ st.pc = "escape" /\ st.f \in Nat
      /\ st.f <= Len(st.fmt) /\ Len(st.fmt) \in Nat
  BY DEF FormatInv, unknown, At
<1>2. PICK k \in 1 .. st.f : st.fmt[k] = "%"
  BY <1>1 DEF FormatInv
<1>3. PICK T : T = {i \in 1 .. st.f : st.fmt[i] = "%"}
  OBVIOUS
<1>4. k \in T /\ T \in SUBSET Int /\ (\A y \in T : y <= st.f) /\ st.f \in Int
  BY ONLY <1>1, <1>2, <1>3
<1>5. Max(T) \in T
  BY ONLY <1>4, MaxIs
<1>6. PICK b : b = Max(T) /\ b = Back(st.f)
  BY <1>3 DEF Back
<1>7. b \in Nat /\ b <= Len(st.fmt)
  BY ONLY <1>1, <1>3, <1>5, <1>6
<1>8. PICK s : s = [st EXCEPT !.pc = "text", !.f = b] /\ st' = Put(s, <<"%">>)
  BY <1>6 DEF unknown
<1>9. /\ s = [x \in DOMAIN s |-> s[x]] /\ DOMAIN s = DOMAIN st /\ s.fn = "printf"
      /\ s.base = st.base /\ s.fmt = st.fmt /\ s.f = b /\ s.pc = "text"
  BY ONLY <1>1, <1>8 DEF FormatFields
<1>10. Reads(b, "text")
  BY ONLY FormatInv, <1>8, <1>9, PutReads
<1> QED BY ONLY FormatInv, <1>7, <1>10, FormatStep

-----------------------------------------------------------------------------
(* Functions defined by recursion.                                         *)

(* f on E: outside B the value at n comes from the one at p[n].            *)
Solves(f, E, S, B, g, p, h) ==
    /\ f \in [E -> S]
    /\ \A n \in E : f[n] = IF n \in B THEN g[n] ELSE h[n][f[p[n]]]

Recursion(D, S, B, g, p, h) ==
    /\ D \subseteq Nat /\ g \in [D -> S] /\ p \in [D -> D] /\ h \in [D -> [S -> S]]
    /\ \A n \in D \ B : p[n] < n

UpTo(D, m) == {i \in D : i <= m}

LEMMA SolutionsAgree ==
    ASSUME NEW D, NEW S, NEW B, NEW g, NEW p, NEW h, Recursion(D, S, B, g, p, h),
           NEW a \in D, NEW b \in D, NEW f, NEW e,
           Solves(f, UpTo(D, a), S, B, g, p, h), Solves(e, UpTo(D, b), S, B, g, p, h),
           NEW n \in D, n <= a, n <= b
    PROVE  f[n] = e[n]
<1> SUFFICES ASSUME f[n] # e[n] PROVE FALSE
  OBVIOUS
<1>1. D \subseteq Nat /\ p \in [D -> D] /\ \A i \in D \ B : p[i] < i
  BY DEF Recursion
<1>2. PICK T : T = {i \in D : i <= a /\ i <= b /\ f[i] # e[i]}
  OBVIOUS
<1>3. T \in SUBSET Nat /\ T # {}
  BY <1>1, <1>2
<1>4. PICK m \in T : \A y \in T : m <= y
  <2>1. PICK t \in T : TRUE
    BY <1>3
  <2> QED BY ONLY <1>3, t \in T, LeastOf
<1>5. m \in D /\ m \in Nat /\ m <= a /\ m <= b /\ f[m] # e[m] /\ a \in Nat /\ b \in Nat
  BY <1>1, <1>2
<1>6. m \in UpTo(D, a) /\ m \in UpTo(D, b)
  BY <1>5 DEF UpTo
<1>7. /\ f[m] = IF m \in B THEN g[m] ELSE h[m][f[p[m]]]
      /\ e[m] = IF m \in B THEN g[m] ELSE h[m][e[p[m]]]
  BY <1>6 DEF Solves
<1>8. m \notin B
  BY ONLY <1>5, <1>7
<1>9. PICK k \in D : k = p[m]
  BY <1>1, <1>5
<1>10. k \in Nat /\ k < m /\ k <= a /\ k <= b
  BY <1>1, <1>5, <1>8, <1>9
<1>11. f[k] = e[k]
  BY ONLY <1>2, <1>4, <1>5, <1>10, k \in D
<1> QED BY ONLY <1>5, <1>7, <1>8, <1>9, <1>11

(* When there are solutions below every p[i] that E needs, there is one on *)
(* E.                                                                      *)
LEMMA SolutionFrom ==
    ASSUME NEW D, NEW S, NEW B, NEW g, NEW p, NEW h, Recursion(D, S, B, g, p, h),
           NEW E \in SUBSET D, \A i \in E \ B : p[i] \in E,
           \A i \in E \ B : \E f : Solves(f, UpTo(D, p[i]), S, B, g, p, h)
    PROVE  \E f : Solves(f, E, S, B, g, p, h)
<1>1. /\ D \subseteq Nat /\ g \in [D -> S] /\ p \in [D -> D] /\ h \in [D -> [S -> S]]
      /\ \A n \in D \ B : p[n] < n
  BY DEF Recursion
<1> DEFINE F(j) == CHOOSE f : Solves(f, UpTo(D, j), S, B, g, p, h)
<1>2. \A i \in E \ B : Solves(F(p[i]), UpTo(D, p[i]), S, B, g, p, h)
  OBVIOUS
<1> DEFINE v(i) == IF i \in B THEN g[i] ELSE h[i][F(p[i])[p[i]]]
<1> DEFINE f == [i \in E |-> v(i)]
<1> HIDE DEF F
<1>3. ASSUME NEW i \in E \ B
      PROVE  F(p[i])[p[i]] \in S
  <2>1. PICK k \in D : k = p[i]
    BY <1>1
  <2>2. k \in UpTo(D, k)
    BY <1>1 DEF UpTo
  <2>3. F(k) \in [UpTo(D, k) -> S]
    BY <1>2, <2>1 DEF Solves
  <2> QED BY ONLY <2>1, <2>2, <2>3
<1>4. \A i \in E : v(i) \in S
  BY <1>1, <1>3
<1>5. f \in [E -> S] /\ \A i \in E : f[i] = v(i)
  BY <1>4
<1>6. ASSUME NEW n \in E
      PROVE  f[n] = IF n \in B THEN g[n] ELSE h[n][f[p[n]]]
  <2>1. CASE n \in B
    BY <1>5, <2>1
  <2>2. CASE n \notin B
    <3>1. PICK k \in E : k = p[n]
      BY <2>2
    <3>2. k \in D /\ k \in Nat /\ k \in UpTo(D, k)
      BY <1>1 DEF UpTo
    <3>3. Solves(F(k), UpTo(D, k), S, B, g, p, h)
      BY <1>2, <2>2, <3>1
    <3>4. F(k)[k] = IF k \in B THEN g[k] ELSE h[k][F(k)[p[k]]]
      BY ONLY <3>2, <3>3 DEF Solves
    <3>5. F(k)[k] = v(k)
      <4>1. CASE k \in B
        BY ONLY <3>4, <4>1
      <4>2. CASE k \notin B
        <5>1. PICK j \in D : j = p[k]
          BY <1>1, <3>2
        <5>2. j \in Nat /\ j < k /\ j <= k /\ j <= j
          BY <1>1, <3>2, <4>2, <5>1
        <5>3. Solves(F(j), UpTo(D, j), S, B, g, p, h)
          BY <1>2, <4>2, <5>1
        <5>4. F(k)[j] = F(j)[j]
          BY ONLY <3>2, <3>3, <5>2, <5>3, j \in D, Recursion(D, S, B, g, p, h), SolutionsAgree
        <5> QED BY ONLY <3>4, <4>2, <5>1, <5>4
      <4> QED BY <4>1, <4>2
    <3>6. f[k] = F(k)[k]
      BY <1>5, <3>5
    <3>7. f[n] = h[n][F(k)[k]]
      BY <1>5, <2>2, <3>1
    <3> QED BY ONLY <2>2, <3>1, <3>6, <3>7
  <2> QED BY <2>1, <2>2
<1> HIDE DEF f
<1> QED BY <1>5, <1>6 DEF Solves

LEMMA RecursionSolved ==
    ASSUME NEW D, NEW S, NEW B, NEW g, NEW p, NEW h, Recursion(D, S, B, g, p, h)
    PROVE  \E f : Solves(f, D, S, B, g, p, h)
<1>1. /\ D \subseteq Nat /\ p \in [D -> D] /\ \A n \in D \ B : p[n] < n
  BY DEF Recursion
<1>2. \A m \in D : \E f : Solves(f, UpTo(D, m), S, B, g, p, h)
  <2> SUFFICES ASSUME NEW q \in D, ~\E f : Solves(f, UpTo(D, q), S, B, g, p, h) PROVE FALSE
    OBVIOUS
  <2> DEFINE T == {m \in D : ~\E f : Solves(f, UpTo(D, m), S, B, g, p, h)}
  <2>1. T \in SUBSET Nat /\ T # {} /\ T \subseteq D
    BY <1>1
  <2>2. \A i \in D : i \notin T => \E f : Solves(f, UpTo(D, i), S, B, g, p, h)
    OBVIOUS
  <2>3. \A i \in T : ~\E f : Solves(f, UpTo(D, i), S, B, g, p, h)
    OBVIOUS
  <2> HIDE DEF T
  <2>4. PICK m \in T : \A y \in T : m <= y
    <3>1. PICK t \in T : TRUE
      BY <2>1
    <3> QED BY ONLY <2>1, t \in T, LeastOf
  <2>5. PICK E : E = UpTo(D, m)
    OBVIOUS
  <2>6. E \in SUBSET D /\ m \in D /\ m \in Nat
    BY <1>1, <2>1, <2>5 DEF UpTo
  <2>7. ASSUME NEW i \in E \ B
        PROVE  p[i] \in E /\ p[i] \in D /\ p[i] \notin T
    <3>1. i \in D /\ i \in Nat /\ i <= m
      BY <1>1, <2>5 DEF UpTo
    <3>2. p[i] \in D /\ p[i] \in Nat /\ p[i] < i
      BY <1>1, <3>1
    <3>3. p[i] <= m /\ ~(m <= p[i])
      BY ONLY <2>6, <3>1, <3>2
    <3> QED BY <2>4, <2>5, <3>2, <3>3 DEF UpTo
  <2>8. \A i \in E \ B : p[i] \in E
    BY ONLY <2>7
  <2>9. \A i \in E \ B : \E f : Solves(f, UpTo(D, p[i]), S, B, g, p, h)
    BY ONLY <2>2, <2>7
  <2>10. \E f : Solves(f, E, S, B, g, p, h)
    BY ONLY <2>6, <2>8, <2>9, Recursion(D, S, B, g, p, h), SolutionFrom
  <2> QED BY ONLY <2>3, <2>4, <2>5, <2>10, m \in T
<1>3. \A i \in D \ B : p[i] \in D
  BY <1>1
<1>4. \A i \in D \ B : \E f : Solves(f, UpTo(D, p[i]), S, B, g, p, h)
  BY ONLY <1>2, <1>3
<1>5. D \in SUBSET D
  OBVIOUS
<1> QED BY ONLY <1>3, <1>4, <1>5, Recursion(D, S, B, g, p, h), SolutionFrom

-----------------------------------------------------------------------------
(* vprintfmt: what it prints.                                              *)

(* The characters vprintfmt prints besides those of the format             *)
Printed == FmtChars \cup {Digit[v + 1] : v \in 0 .. 15}
           \cup {" ", "-", "?", "%", "x", "e", "r", "(", "n", ")", "s", "BEL", "m", "g"}

LEMMA Symbols ==
    /\ " " \in Printed /\ "-" \in Printed /\ "?" \in Printed /\ "%" \in Printed
    /\ "0" \in Printed /\ FmtChars \subseteq Printed
    /\ <<"-">> \in Seq(Printed) /\ <<"%">> \in Seq(Printed) /\ <<"?">> \in Seq(Printed)
    /\ <<"0", "x">> \in Seq(Printed) /\ <<"e", "r", "r">> \in Seq(Printed)
    /\ <<"m", "s", "g">> \in Seq(Printed) /\ <<>> \in Seq(Printed)
    /\ <<"(", "n", ")">> \in Seq(Printed) /\ <<"s", "BEL", "r">> \in Seq(Printed)
<1>1. /\ " " \in Printed /\ "-" \in Printed /\ "?" \in Printed /\ "%" \in Printed
      /\ FmtChars \subseteq Printed
  BY DEF Printed
<1>2. /\ "e" \in Printed /\ "r" \in Printed /\ "m" \in Printed /\ "s" \in Printed
      /\ "g" \in Printed /\ "x" \in Printed /\ "(" \in Printed /\ "n" \in Printed
      /\ ")" \in Printed /\ "BEL" \in Printed
  BY DEF Printed
<1>3. "0" \in Printed
  <2>1. Digit[0 + 1] = "0"
    BY DEF Digit
  <2> QED BY <2>1 DEF Printed
<1>4. /\ <<"-">> \in Seq(Printed) /\ <<"%">> \in Seq(Printed) /\ <<"?">> \in Seq(Printed)
      /\ <<>> \in Seq(Printed)
  <2>1. \A c \in Printed : <<c>> \in Seq(Printed)
    OBVIOUS
  <2>2. <<>> \in Seq(Printed)
    OBVIOUS
  <2> QED BY ONLY <1>1, <2>1, <2>2
<1>5. /\ <<"0", "x">> \in Seq(Printed) /\ <<"e", "r", "r">> \in Seq(Printed)
      /\ <<"m", "s", "g">> \in Seq(Printed)
  BY ONLY <1>2, <1>3
<1>6. <<"(", "n", ")">> \in Seq(Printed) /\ <<"s", "BEL", "r">> \in Seq(Printed)
  BY ONLY <1>2
<1> QED BY ONLY <1>1, <1>3, <1>4, <1>5, <1>6

LEMMA DigitPrinted ==
    ASSUME NEW v \in 0 .. 15
    PROVE  Digit[v + 1] \in Printed
BY DEF Printed

(* printnum: the digits of a number are characters.                        *)
LEMMA DigitsText ==
    ASSUME NEW num \in Nat, NEW base \in {8, 10, 16}
    PROVE  Digits(num, base) \in Seq(Printed)
<1> DEFINE S == Seq(Printed)
<1> DEFINE Eqn(d) == [n \in Nat |-> IF n >= base THEN Append(d[n \div base], Digit[(n % base) + 1])
                                    ELSE <<Digit[n + 1]>>]
<1>1. base \in Nat /\ base >= 2 /\ base <= 16
  OBVIOUS
<1>2. \A n \in Nat : n >= base => n \div base \in Nat /\ n \div base < n
  BY ONLY base \in {8, 10, 16}
<1>3. \A n \in Nat : n % base \in 0 .. 15
  BY ONLY base \in {8, 10, 16}
<1>4. \A n \in Nat : n >= base => Digit[(n % base) + 1] \in Printed
  BY ONLY <1>3, DigitPrinted
<1>5. \A n \in Nat : ~(n >= base) => n \in 0 .. 15
  BY ONLY <1>1
<1>6. \A n \in Nat : ~(n >= base) => <<Digit[n + 1]>> \in S
  <2> SUFFICES ASSUME NEW n \in Nat, ~(n >= base) PROVE <<Digit[n + 1]>> \in S
    OBVIOUS
  <2>1. Digit[n + 1] \in Printed
    BY ONLY <1>5, ~(n >= base), n \in Nat, DigitPrinted
  <2> QED BY <2>1
<1>7. ASSUME NEW n \in Nat, n >= base, NEW s \in S
      PROVE  Append(s, Digit[(n % base) + 1]) \in S
  <2>1. Digit[(n % base) + 1] \in Printed
    BY ONLY <1>4, n \in Nat, n >= base
  <2> QED BY ONLY <2>1, s \in S
<1> HIDE DEF S
<1>8. PICK B, g, p, h : /\ B = {n \in Nat : ~(n >= base)}
                        /\ g = [n \in Nat |-> IF n >= base THEN <<Digit[1]>> ELSE <<Digit[n + 1]>>]
                        /\ p = [n \in Nat |-> IF n >= base THEN n \div base ELSE 0]
                        /\ h = [n \in Nat |-> [s \in S |-> IF n >= base THEN Append(s, Digit[(n % base) + 1])
                                                           ELSE s]]
  OBVIOUS
<1>9. Recursion(Nat, S, B, g, p, h)
  <2>1. g \in [Nat -> S]
    <3>1. \A n \in Nat : (IF n >= base THEN <<Digit[1]>> ELSE <<Digit[n + 1]>>) \in S
      <4>1. <<Digit[1]>> \in S
        <5>1. 0 \in Nat /\ ~(0 >= base) /\ 0 + 1 = 1
          BY ONLY <1>1
        <5> QED BY ONLY <1>6, <5>1
      <4> QED BY ONLY <1>6, <4>1
    <3> QED BY ONLY <1>8, <3>1
  <2>2. p \in [Nat -> Nat]
    BY ONLY <1>2, <1>8
  <2>3. h \in [Nat -> [S -> S]]
    BY ONLY <1>7, <1>8
  <2>4. \A n \in Nat \ B : p[n] < n
    BY ONLY <1>2, <1>8
  <2> QED BY <2>1, <2>2, <2>3, <2>4 DEF Recursion
<1>10. PICK f : Solves(f, Nat, S, B, g, p, h)
  BY ONLY <1>9, RecursionSolved
<1>11. f = Eqn(f)
  <2>1. f \in [Nat -> S] /\ \A n \in Nat : f[n] = IF n \in B THEN g[n] ELSE h[n][f[p[n]]]
    BY <1>10 DEF Solves
  <2>2. ASSUME NEW n \in Nat
        PROVE  f[n] = IF n >= base THEN Append(f[n \div base], Digit[(n % base) + 1])
                      ELSE <<Digit[n + 1]>>
    <3>1. CASE n >= base
      <4>1. n \notin B /\ p[n] = n \div base /\ n \div base \in Nat
        BY ONLY <1>2, <1>8, <3>1, n \in Nat
      <4>2. f[n \div base] \in S
        BY ONLY <2>1, <4>1
      <4>3. h[n][f[n \div base]] = Append(f[n \div base], Digit[(n % base) + 1])
        BY ONLY <1>8, <3>1, <4>2, n \in Nat
      <4> QED BY ONLY <2>1, <3>1, <4>1, <4>3, n \in Nat
    <3>2. CASE ~(n >= base)
      BY ONLY <1>8, <2>1, <3>2, n \in Nat
    <3> QED BY <3>1, <3>2
  <2> QED BY ONLY <2>1, <2>2
<1>12. PICK d : d = Eqn(d) /\ Digits(num, base) = d[num]
  <2>1. Digits(num, base) = (CHOOSE d : d = Eqn(d))[num]
    BY DEF Digits
  <2> QED BY <1>11, <2>1
<1>13. \A n \in Nat : d[n] = IF n >= base THEN Append(d[n \div base], Digit[(n % base) + 1])
                             ELSE <<Digit[n + 1]>>
  BY <1>12
<1>14. d[num] \in S
  <2> SUFFICES ASSUME d[num] \notin S PROVE FALSE
    OBVIOUS
  <2>1. PICK T : T = {n \in Nat : d[n] \notin S}
    OBVIOUS
  <2>2. T \in SUBSET Nat /\ num \in T
    BY <2>1
  <2>3. PICK m \in T : \A y \in T : m <= y
    BY ONLY <2>2, LeastOf
  <2>4. m \in Nat /\ d[m] \notin S
    BY <2>1
  <2>5. m >= base
    BY ONLY <1>6, <1>13, <2>4
  <2>6. PICK k \in Nat : k = m \div base /\ k < m
    BY <1>2, <2>4, <2>5
  <2>7. d[k] \in S
    BY ONLY <2>1, <2>3, <2>4, <2>6, k \in Nat
  <2>8. d[m] = Append(d[k], Digit[(m % base) + 1])
    BY ONLY <1>13, <2>4, <2>5, <2>6
  <2> QED BY ONLY <1>7, <2>4, <2>5, <2>7, <2>8
<1> QED BY <1>12, <1>14 DEF S

(* The number in an escape is an integer.                                  *)
LEMMA NumberInt ==
    ASSUME FormatInv, IsDigit(Char), Char # "NUL"
    PROVE  Number \in Int
<1>1. PICK f \in Nat, e \in Nat : /\ f = st.f /\ e = LastDigit + 1 /\ f < e /\ e <= Len(st.fmt)
                                  /\ LastDigit \in Nat
  <2>1. LastDigit \in Nat /\ st.f <= LastDigit /\ LastDigit + 1 <= Len(st.fmt) /\ st.f \in Nat
    BY NumberInside DEF FormatInv
  <2> QED BY <2>1
<1>2. PICK D : D = 0 .. e
  OBVIOUS
<1> DEFINE Eqn(u) == [j \in D |-> IF j <= f THEN 0 ELSE u[j - 1] * 10 + ValueOf(st.fmt[j])]
<1>3. \A j \in D : ~(j <= f) => ValueOf(st.fmt[j]) \in Int
  <2> SUFFICES ASSUME NEW j \in D, ~(j <= f) PROVE ValueOf(st.fmt[j]) \in Int
    OBVIOUS
  <2>1. j \in Nat /\ j - 1 \in st.f .. LastDigit /\ (j - 1) + 1 = j
    BY <1>1, <1>2
  <2>2. IsDigit(st.fmt[(j - 1) + 1])
    BY ONLY FormatInv, IsDigit(Char), Char # "NUL", <2>1, NumberInside
  <2>3. PICK v \in 0 .. 9 : Digit[v + 1] = st.fmt[j]
    BY ONLY <2>1, <2>2 DEF IsDigit
  <2>4. v \in 0 .. 15
    OBVIOUS
  <2>5. ValueOf(st.fmt[j]) \in 0 .. 15
    BY ONLY <2>3, <2>4 DEF ValueOf
  <2> QED BY ONLY <2>5
<1>4. PICK c : c = [j \in D |-> ValueOf(st.fmt[j])]
  OBVIOUS
<1>5. \A j \in D : ~(j <= f) => c[j] \in Int
  BY ONLY <1>3, <1>4
<1>6. PICK B, g, p, h : /\ B = {j \in D : j <= f}
                        /\ g = [j \in D |-> 0]
                        /\ p = [j \in D |-> IF j <= f THEN 0 ELSE j - 1]
                        /\ h = [j \in D |-> [x \in Int |-> IF j <= f THEN 0 ELSE x * 10 + c[j]]]
  OBVIOUS
<1>7. \A j \in D : j \in Nat /\ (~(j <= f) => j - 1 \in D /\ j - 1 < j)
  BY <1>1, <1>2
<1>8. Recursion(D, Int, B, g, p, h)
  <2>1. D \subseteq Nat /\ 0 \in D
    BY <1>1, <1>2
  <2>2. g \in [D -> Int]
    BY ONLY <1>6
  <2>3. p \in [D -> D]
    BY ONLY <1>6, <1>7, <2>1
  <2>4. h \in [D -> [Int -> Int]]
    BY ONLY <1>5, <1>6
  <2>5. \A j \in D \ B : p[j] < j
    BY ONLY <1>6, <1>7
  <2> QED BY <2>1, <2>2, <2>3, <2>4, <2>5 DEF Recursion
<1>9. PICK w : Solves(w, D, Int, B, g, p, h)
  BY ONLY <1>8, RecursionSolved
<1>10. w = Eqn(w)
  <2>1. w \in [D -> Int] /\ \A j \in D : w[j] = IF j \in B THEN g[j] ELSE h[j][w[p[j]]]
    BY <1>9 DEF Solves
  <2>2. ASSUME NEW j \in D
        PROVE  w[j] = IF j <= f THEN 0 ELSE w[j - 1] * 10 + ValueOf(st.fmt[j])
    <3>1. CASE j <= f
      BY ONLY <1>6, <2>1, <3>1, j \in D
    <3>2. CASE ~(j <= f)
      <4>1. j \notin B /\ p[j] = j - 1 /\ j - 1 \in D
        BY ONLY <1>6, <1>7, <3>2, j \in D
      <4>2. w[j - 1] \in Int
        BY ONLY <2>1, <4>1
      <4>3. h[j][w[j - 1]] = w[j - 1] * 10 + c[j]
        BY ONLY <1>6, <3>2, <4>2, j \in D
      <4> QED BY ONLY <1>4, <2>1, <3>2, <4>1, <4>3, j \in D
    <3> QED BY <3>1, <3>2
  <2> QED BY ONLY <2>1, <2>2
<1>11. PICK u : u = Eqn(u) /\ Number = u[e]
  <2>1. Number = (CHOOSE u : u = Eqn(u))[e]
    BY <1>1, <1>2 DEF Number
  <2> QED BY <1>10, <2>1
<1>12. \A j \in D : u[j] = IF j <= f THEN 0 ELSE u[j - 1] * 10 + c[j]
  BY <1>4, <1>11
<1>13. u[e] \in Int
  <2> SUFFICES ASSUME u[e] \notin Int PROVE FALSE
    OBVIOUS
  <2>1. PICK T : T = {j \in D : u[j] \notin Int}
    OBVIOUS
  <2>2. T \in SUBSET Nat /\ e \in T
    BY <1>1, <1>2, <2>1
  <2>3. PICK m \in T : \A y \in T : m <= y
    BY ONLY <2>2, LeastOf
  <2>4. m \in D /\ u[m] \notin Int
    BY <2>1
  <2>5. ~(m <= f)
    BY ONLY <1>12, <2>4
  <2>6. m \in Nat /\ m - 1 \in D /\ ~(m <= m - 1)
    BY <1>7, <2>4, <2>5
  <2>7. u[m - 1] \in Int
    BY ONLY <2>1, <2>3, <2>6
  <2>8. u[m] = u[m - 1] * 10 + c[m]
    BY ONLY <1>12, <2>4, <2>5
  <2> QED BY ONLY <1>5, <2>4, <2>5, <2>7, <2>8
<1> QED BY <1>11, <1>13

LEMMA RepeatText ==
    ASSUME NEW c \in Printed, NEW n \in Int
    PROVE  Repeat(c, n) \in Seq(Printed)
<1>1. CASE n >= 0
  <2>1. n \in Nat
    BY <1>1
  <2> QED BY <2>1 DEF Repeat
<1>2. CASE ~(n >= 0)
  <2>1. 1 .. n = 1 .. 0
    BY <1>2
  <2>2. Repeat(c, n) \in [1 .. 0 -> Printed]
    BY <2>1 DEF Repeat
  <2> QED BY ONLY <2>2
<1> QED BY <1>1, <1>2

LEMMA NumText ==
    ASSUME NEW num \in Nat, NEW base \in {8, 10, 16}, NEW width \in Int, NEW padc \in Printed
    PROVE  printnum(num, base, width, padc) \in Seq(Printed)
<1>1. PICK d \in Seq(Printed) : d = Digits(num, base)
  BY DigitsText
<1>2. width - Len(d) \in Int
  BY ONLY d \in Seq(Printed), width \in Int
<1>3. Repeat(padc, width - Len(d)) \in Seq(Printed)
  BY ONLY <1>2, padc \in Printed, RepeatText
<1>4. printnum(num, base, width, padc) = Repeat(padc, width - Len(d)) \o d
  BY <1>1 DEF printnum
<1> QED BY ONLY <1>3, <1>4, d \in Seq(Printed)

(* What vprintfmt prints is text, the buffer holds the beginning of it,    *)
(* and it gets to the format only with a buffer.                           *)
OutInv ==
    /\ st.args \in [Nat \ {0} -> Int] /\ st.ap \in Nat \ {0}
    /\ st.padc \in Printed /\ st.width \in Int /\ st.precision \in Int
    /\ st.n \in Nat /\ st.out \in Seq(Printed)
    /\ st.n > 0 => st.buf = Kept(st.out)
    /\ st.pc \in {"text", "escape"} => st.n > 0
    /\ st.pc = "done" => st.ret = -3 \/ (st.n > 0 /\ st.ret = Len(st.out))

LEMMA DecimalText ==
    ASSUME OutInv, NEW num \in Int
    PROVE  decimal(num) \in Seq(Printed)
<1>1. PICK w \in Int, c \in Printed : w = st.width /\ c = st.padc
  BY DEF OutInv
<1>2. CASE num < 0
  <2>1. -num \in Nat
    BY <1>2
  <2>2. printnum(-num, 10, w, c) \in Seq(Printed)
    BY ONLY <2>1, w \in Int, c \in Printed, NumText
  <2>3. <<"-">> \in Seq(Printed)
    BY Symbols
  <2>4. decimal(num) = <<"-">> \o printnum(-num, 10, w, c)
    BY <1>1, <1>2 DEF decimal
  <2> QED BY ONLY <2>2, <2>3, <2>4
<1>3. CASE ~(num < 0)
  <2>1. num \in Nat
    BY <1>3
  <2>2. printnum(num, 10, w, c) \in Seq(Printed)
    BY ONLY <2>1, w \in Int, c \in Printed, NumText
  <2>3. decimal(num) = printnum(num, 10, w, c)
    BY <1>1, <1>3 DEF decimal
  <2> QED BY ONLY <2>2, <2>3
<1> QED BY <1>2, <1>3

LEMMA ErrorText ==
    ASSUME NEW code \in Int
    PROVE  error(code) \in Seq(Printed)
<1>1. PICK err \in Int : err = IF code < 0 THEN Signed(-code) ELSE code
  <2>1. FmtWord \in Nat /\ FmtWord > 0
    BY PrintfmtAssumption
  <2>2. PICK h \in Int : h = FmtWord \div 2
    BY <2>1
  <2>3. PICK x \in Int : x = -code + h
    OBVIOUS
  <2>4. x % FmtWord \in Int
    BY ONLY <2>1, x \in Int
  <2>5. Signed(-code) = (x % FmtWord) - h
    BY ONLY <2>2, <2>3 DEF Signed
  <2> QED BY ONLY <2>4, <2>5, h \in Int, code \in Int
<1>2. ErrorString(err) \in Seq(Printed)
  <2>1. <<"m", "s", "g">> \in Seq(Printed) /\ <<>> \in Seq(Printed)
    BY Symbols
  <2> QED BY <2>1 DEF ErrorString
<1>3. PICK d \in Seq(Printed) :
         d = IF err < 0 THEN <<"-">> \o Digits(-err, 10) ELSE Digits(err, 10)
  <2>1. <<"-">> \in Seq(Printed)
    BY Symbols
  <2>2. CASE err < 0
    <3>1. PICK m \in Nat : m = -err
      BY <2>2
    <3>2. Digits(m, 10) \in Seq(Printed)
      BY ONLY m \in Nat, DigitsText
    <3>3. <<"-">> \o Digits(m, 10) \in Seq(Printed)
      BY ONLY <2>1, <3>2
    <3> QED BY <2>2, <3>1, <3>3
  <2>3. CASE ~(err < 0)
    <3>1. err \in Nat
      BY <2>3
    <3>2. Digits(err, 10) \in Seq(Printed)
      BY ONLY <3>1, DigitsText
    <3> QED BY <2>3, <3>2
  <2> QED BY <2>2, <2>3
<1>4. <<"e", "r", "r">> \o d \in Seq(Printed)
  <2>1. <<"e", "r", "r">> \in Seq(Printed)
    BY Symbols
  <2> QED BY ONLY <2>1, d \in Seq(Printed)
<1>5. error(code) = IF ErrorString(err) # <<>> THEN ErrorString(err) ELSE <<"e", "r", "r">> \o d
  BY <1>1, <1>3 DEF error
<1> QED BY ONLY <1>2, <1>4, <1>5

LEMMA StringText ==
    ASSUME OutInv, NEW a \in Int
    PROVE  string(Text(a)) \in Seq(Printed)
<1>1. PICK w \in Int, c \in Printed, q \in Int : w = st.width /\ c = st.padc /\ q = st.precision
  BY DEF OutInv
<1>2. PICK t \in Seq(Printed) : t = Text(a)
  <2>1. <<"(", "n", ")">> \in Seq(Printed) /\ <<"s", "BEL", "r">> \in Seq(Printed)
    BY Symbols
  <2> QED BY <2>1 DEF Text
<1>3. PICK len \in Nat : /\ len = (IF q < 0 THEN strlen(t) ELSE strnlen(t, q))
                         /\ len <= Len(t)
  BY DEF strlen, strnlen
<1>4. PICK shown : shown = [i \in 1 .. len |-> Shown(t[i])]
  OBVIOUS
<1>5. \A i \in 1 .. len : Shown(t[i]) \in Printed
  <2> SUFFICES ASSUME NEW i \in 1 .. len PROVE Shown(t[i]) \in Printed
    OBVIOUS
  <2>1. i \in 1 .. Len(t)
    BY ONLY <1>3, t \in Seq(Printed), i \in 1 .. len, len \in Nat
  <2>2. t[i] \in Printed
    BY ONLY <2>1, t \in Seq(Printed)
  <2>3. "?" \in Printed
    BY Symbols
  <2> QED BY ONLY <2>2, <2>3 DEF Shown
<1>6. shown \in Seq(Printed)
  BY ONLY <1>4, <1>5, len \in Nat
<1>7. w - Len(shown) \in Int
  BY ONLY <1>6, w \in Int
<1>8. PICK before \in Seq(Printed), after \in Seq(Printed) :
         before = Repeat(c, w - Len(shown)) /\ after = Repeat(" ", w - Len(shown))
  <2>1. " " \in Printed
    BY Symbols
  <2> QED BY ONLY <1>7, <2>1, c \in Printed, RepeatText
<1>9. \/ string(Text(a)) = Repeat(c, w - Len(shown)) \o shown
      \/ string(Text(a)) = shown \o Repeat(" ", w - Len(shown))
  BY <1>1, <1>2, <1>3, <1>4 DEF string
<1>10. before \o shown \in Seq(Printed)
  BY ONLY <1>6, before \in Seq(Printed)
<1>11. shown \o after \in Seq(Printed)
  BY ONLY <1>6, after \in Seq(Printed)
<1> QED BY ONLY <1>8, <1>9, <1>10, <1>11

LEMMA ArgumentsRead ==
    ASSUME OutInv
    PROVE  /\ st.args[st.ap] \in Int /\ Unsigned(st.args[st.ap]) \in Nat
           /\ getuint \in Nat /\ getint \in Int /\ Used \in {1, 2}
<1>1. PICK w \in Nat \ {0} : w = FmtWord
  BY PrintfmtAssumption
<1>2. st.ap \in Nat \ {0} /\ st.ap + 1 \in Nat \ {0} /\ st.args \in [Nat \ {0} -> Int]
  BY DEF OutInv
<1>3. PICK a \in Int, b \in Int : a = st.args[st.ap] /\ b = st.args[st.ap + 1]
  BY ONLY <1>2
<1>4. PICK x \in Nat, y \in Nat : x = Unsigned(a) /\ y = Unsigned(b)
  <2>1. a % w \in Nat /\ b % w \in Nat
    BY ONLY a \in Int, b \in Int, w \in Nat \ {0}
  <2> QED BY <1>1, <2>1 DEF Unsigned
<1>5. PICK u \in Nat, v \in Int : u = w * y /\ v = w * b
  BY ONLY w \in Nat \ {0}, y \in Nat, b \in Int
<1>6. getuint \in {x + u, x + 0}
  BY <1>1, <1>3, <1>4, <1>5 DEF getuint
<1>7. getint \in {x + v, a}
  BY <1>1, <1>3, <1>4, <1>5 DEF getint
<1>8. Used \in {1, 2}
  BY DEF Used
<1>9. x + u \in Nat /\ x + 0 \in Nat /\ x + v \in Int
  OBVIOUS
<1> QED BY ONLY <1>3, <1>4, <1>6, <1>7, <1>8, <1>9, a \in Int, x \in Nat

(* Everything else a step may change                                       *)
OutKeeps(s) ==
    /\ s.args = st.args /\ s.ap \in Nat \ {0} /\ s.padc \in Printed
    /\ s.width \in Int /\ s.precision \in Int /\ s.n = st.n

LEMMA KeptIs ==
    ASSUME NEW o, st'.n = st.n, st'.out = o
    PROVE  Kept(st.out)' = Kept(o)
BY DEF Kept, Room

LEMMA OutSame ==
    ASSUME OutInv, OutKeeps(st'), st'.out = st.out, st'.buf = st.buf,
           st'.pc \in {"text", "escape"} => st.n > 0,
           st'.pc = "done" => st'.ret = -3 \/ (st.n > 0 /\ st'.ret = Len(st.out))
    PROVE  OutInv'
<1>1. st'.n = st.n
  BY DEF OutKeeps
<1>2. Kept(st.out)' = Kept(st.out)
  BY ONLY <1>1, st'.out = st.out, KeptIs
<1> QED BY <1>2 DEF OutInv, OutKeeps

LEMMA OutPut ==
    ASSUME OutInv, NEW s, FormatFields \subseteq DOMAIN s, OutKeeps(s), s.pc = "text", st.n > 0,
           NEW cs \in Seq(Printed), st' = Put(s, cs)
    PROVE  OutInv'
<1>1. PICK o, b : o = st.out \o cs /\ b = Kept(o)
  OBVIOUS
<1>2. st' = [s EXCEPT !.out = o, !.buf = b]
  BY <1>1 DEF Put
<1>3. /\ st'.args = s.args /\ st'.ap = s.ap /\ st'.padc = s.padc /\ st'.width = s.width
      /\ st'.precision = s.precision /\ st'.n = s.n /\ st'.pc = s.pc /\ st'.out = o /\ st'.buf = b
  BY ONLY <1>2, FormatFields \subseteq DOMAIN s DEF FormatFields
<1>4. o \in Seq(Printed)
  BY <1>1 DEF OutInv
<1>5. st'.n = st.n
  BY <1>3 DEF OutKeeps
<1>6. Kept(st.out)' = b
  BY ONLY <1>1, <1>3, <1>5, KeptIs
<1> QED BY <1>3, <1>4, <1>6 DEF OutInv, OutKeeps

LEMMA OutStarts == FormatInit => OutInv
<1> SUFFICES ASSUME FormatInit PROVE OutInv
  OBVIOUS
<1>1. PICK fmt \in Formats, args \in [Nat \ {0} -> Int], null \in BOOLEAN, n \in Nat :
         FormatCall(fmt, args, null, n, -1)
  BY DEF FormatInit
<1>2. /\ st.args = args /\ st.ap = 1 /\ st.padc = " " /\ st.width = -1 /\ st.precision = -1
      /\ st.n = n /\ st.out = <<>> /\ st.buf = <<>> /\ st.pc = "call"
  BY ONLY <1>1 DEF FormatCall
<1>3. " " \in Printed /\ <<>> \in Seq(Printed)
  BY Symbols
<1>4. n > 0 => Kept(<<>>) = <<>>
  <2>1. Len(<<>>) = 0 /\ (n > 0 => 0 <= n - 1)
    OBVIOUS
  <2> QED BY ONLY <1>2, <2>1 DEF Kept, Room
<1>5. 1 \in Nat \ {0} /\ -1 \in Int
  OBVIOUS
<1>6. n > 0 => st.buf = Kept(st.out)
  BY ONLY <1>2, <1>4
<1> QED BY ONLY <1>2, <1>3, <1>5, <1>6, args \in [Nat \ {0} -> Int], n \in Nat DEF OutInv

LEMMA OutBounded ==
    ASSUME OutInv
    PROVE  BufferBounded
<1>1. PICK o \in Seq(Printed), n \in Nat : o = st.out /\ n = st.n
  BY DEF OutInv
<1>2. CASE n > 0
  <2>1. st.buf = IF Len(o) <= n - 1 THEN o ELSE SubSeq(o, 1, n - 1)
    BY <1>1, <1>2 DEF OutInv, Kept, Room
  <2>2. Len(st.buf) = Lesser(Len(o), n - 1) /\ Len(st.buf) < n
    <3>1. CASE Len(o) <= n - 1
      BY ONLY <2>1, <3>1, o \in Seq(Printed), n \in Nat DEF Lesser
    <3>2. CASE ~(Len(o) <= n - 1)
      <4>1. n - 1 \in Nat /\ n - 1 <= Len(o) /\ Len(o) \in Nat
        BY ONLY <1>2, <3>2, o \in Seq(Printed), n \in Nat
      <4>2. Len(SubSeq(o, 1, n - 1)) = n - 1
        BY ONLY <4>1, o \in Seq(Printed)
      <4> QED BY ONLY <2>1, <3>2, <4>1, <4>2, n \in Nat DEF Lesser
    <3> QED BY <3>1, <3>2
  <2>3. At("printf", "done") /\ st.ret >= 0 => st.ret = Len(o)
    BY <1>1 DEF OutInv, At
  <2> QED BY <1>1, <2>2, <2>3 DEF BufferBounded
<1>3. CASE ~(n > 0)
  <2>1. ~(At("printf", "done") /\ st.ret >= 0)
    BY <1>1, <1>3 DEF OutInv, At
  <2> QED BY <1>1, <1>3, <2>1 DEF BufferBounded
<1> QED BY <1>2, <1>3

LEMMA CallOut ==
    ASSUME FormatInv, OutInv, vsnprintf
    PROVE  OutInv'
<1>1. FormatFields \subseteq DOMAIN st /\ st.n \in Nat /\ OutKeeps(st)
  BY DEF FormatInv, OutInv, OutKeeps
<1>2. CASE st' = [st EXCEPT !.pc = "done", !.ret = -3]
  <2>1. /\ OutKeeps(st') /\ st'.out = st.out /\ st'.buf = st.buf /\ st'.pc = "done" /\ st'.ret = -3
    BY ONLY <1>1, <1>2 DEF OutKeeps, FormatFields
  <2> QED BY ONLY OutInv, <2>1, OutSame
<1>3. CASE ~(st.n < 1) /\ st' = [st EXCEPT !.pc = "text"]
  <2>1. OutKeeps(st') /\ st'.out = st.out /\ st'.buf = st.buf /\ st'.pc = "text"
    BY ONLY <1>1, <1>3 DEF OutKeeps, FormatFields
  <2>2. st.n > 0
    BY <1>1, <1>3
  <2> QED BY ONLY OutInv, <2>1, <2>2, OutSame
<1> QED BY <1>2, <1>3 DEF vsnprintf

LEMMA TextOut ==
    ASSUME FormatInv, OutInv, text
    PROVE  OutInv'
<1>1. FormatFields \subseteq DOMAIN st /\ st.n \in Nat /\ OutKeeps(st) /\ st.pc = "text" /\ st.n > 0
  BY DEF FormatInv, OutInv, OutKeeps, text, At
<1>2. CASE st' = [st EXCEPT !.pc = "done", !.ret = Len(st.out)]
  <2>1. /\ OutKeeps(st') /\ st'.out = st.out /\ st'.buf = st.buf /\ st'.pc = "done"
        /\ st'.ret = Len(st.out)
    BY ONLY <1>1, <1>2 DEF OutKeeps, FormatFields
  <2> QED BY ONLY OutInv, <1>1, <2>1, OutSame
<1>3. CASE st' = [st EXCEPT !.pc = "escape", !.f = st.f + 1, !.padc = " ", !.width = -1,
                            !.precision = -1, !.lflag = 0, !.altflag = FALSE]
  <2>1. " " \in Printed
    BY Symbols
  <2>2. -1 \in Int
    OBVIOUS
  <2>3. OutKeeps(st') /\ st'.out = st.out /\ st'.buf = st.buf /\ st'.pc = "escape"
    BY ONLY <1>1, <1>3, <2>1, <2>2 DEF OutKeeps, FormatFields
  <2> QED BY ONLY OutInv, <1>1, <2>3, OutSame
<1>4. CASE Char \notin {"NUL", "%"} /\ st' = Put([st EXCEPT !.f = st.f + 1], <<Char>>)
  <2>1. PICK s, cs : s = [st EXCEPT !.f = st.f + 1] /\ cs = <<Char>> /\ st' = Put(s, cs)
    BY ONLY <1>4
  <2>2. FormatFields \subseteq DOMAIN s /\ OutKeeps(s) /\ s.pc = "text"
    BY ONLY <1>1, <2>1 DEF OutKeeps, FormatFields
  <2>3. Char \in Printed
    <3>1. st.f + 1 \in 1 .. Len(st.fmt) /\ Char = st.fmt[st.f + 1]
      <4>1. /\ Len(st.fmt) \in Nat /\ Char = st.fmt[st.f + 1]
            /\ st.f + 1 \in Nat /\ st.f + 1 <= Len(st.fmt) /\ st.f \in Nat
        BY <1>4, CharThere DEF FormatInv
      <4> QED BY ONLY <4>1
    <3>2. st.fmt \in Seq(FmtChars)
      BY DEF FormatInv
    <3>3. Char \in FmtChars
      BY ONLY <3>1, <3>2
    <3> QED BY <3>3, Symbols
  <2>4. cs \in Seq(Printed)
    BY ONLY <2>1, <2>3
  <2> QED BY ONLY OutInv, <1>1, <2>1, <2>2, <2>4, OutPut
<1> QED BY <1>2, <1>3, <1>4 DEF text

LEMMA FlagsOut ==
    ASSUME FormatInv, OutInv, flags
    PROVE  OutInv'
<1>1. /\ FormatFields \subseteq DOMAIN st /\ OutKeeps(st) /\ st.pc = "escape" /\ st.n > 0
      /\ st.width \in Int /\ st.ap + 1 \in Nat \ {0}
  <2>1. /\ FormatFields \subseteq DOMAIN st /\ OutKeeps(st) /\ st.pc = "escape" /\ st.n > 0
        /\ st.width \in Int /\ st.ap \in Nat \ {0}
    BY DEF FormatInv, OutInv, OutKeeps, flags, At
  <2> QED BY <2>1
<1>2. ASSUME OutKeeps(st'), st'.out = st.out, st'.buf = st.buf, st'.pc = "escape"
      PROVE  OutInv'
  BY ONLY OutInv, <1>1, <1>2, OutSame
<1>3. CASE Char \in {"-", "0"} /\ st' = [st EXCEPT !.f = st.f + 1, !.padc = Char]
  <2>1. Char \in Printed
    BY <1>3, Symbols
  <2>2. OutKeeps(st') /\ st'.out = st.out /\ st'.buf = st.buf /\ st'.pc = "escape"
    BY ONLY <1>1, <1>3, <2>1 DEF OutKeeps, FormatFields
  <2> QED BY ONLY <1>2, <2>2
<1>4. ASSUME NEW p \in Int, NEW s, FormatFields \subseteq DOMAIN s, OutKeeps(s),
             s.out = st.out, s.buf = st.buf, s.pc = "escape", st' = process_precision(s, p)
      PROVE  OutInv'
  <2>1. PICK w \in Int, q \in Int : st' = [s EXCEPT !.width = w, !.precision = q]
    <3>1. (IF st.width < 0 THEN p ELSE st.width) \in Int /\ (IF st.width < 0 THEN -1 ELSE p) \in Int
      BY <1>1
    <3> QED BY ONLY <1>4, <3>1 DEF process_precision
  <2>2. OutKeeps(st') /\ st'.out = st.out /\ st'.buf = st.buf /\ st'.pc = "escape"
    BY ONLY <1>4, <2>1, w \in Int, q \in Int DEF OutKeeps, FormatFields
  <2> QED BY ONLY <1>2, <2>2
<1>5. CASE /\ IsDigit(Char) /\ Char # "0"
           /\ st' = process_precision([st EXCEPT !.f = LastDigit + 1], Number)
  <2>1. PICK p, s : /\ p = Number /\ s = [st EXCEPT !.f = LastDigit + 1]
                    /\ st' = process_precision(s, p)
    BY ONLY <1>5
  <2>2. p \in Int
    BY ONLY FormatInv, <1>5, <2>1, DigitThere, NumberInt
  <2>3. /\ FormatFields \subseteq DOMAIN s /\ OutKeeps(s) /\ s.out = st.out /\ s.buf = st.buf
        /\ s.pc = "escape"
    BY ONLY <1>1, <2>1 DEF OutKeeps, FormatFields
  <2> QED BY ONLY <1>4, <2>1, <2>2, <2>3
<1>6. CASE st' = process_precision([st EXCEPT !.f = st.f + 1, !.ap = st.ap + 1], st.args[st.ap])
  <2>1. PICK p, s : /\ p = st.args[st.ap] /\ s = [st EXCEPT !.f = st.f + 1, !.ap = st.ap + 1]
                    /\ st' = process_precision(s, p)
    BY ONLY <1>6
  <2>2. p \in Int
    BY ONLY OutInv, <2>1, ArgumentsRead
  <2>3. /\ FormatFields \subseteq DOMAIN s /\ OutKeeps(s) /\ s.out = st.out /\ s.buf = st.buf
        /\ s.pc = "escape"
    BY ONLY <1>1, <2>1 DEF OutKeeps, FormatFields
  <2> QED BY ONLY <1>4, <2>1, <2>2, <2>3
<1>7. CASE st' = [st EXCEPT !.f = st.f + 1, !.width = IF st.width < 0 THEN 0 ELSE st.width]
  <2>1. PICK w : /\ w = (IF st.width < 0 THEN 0 ELSE st.width)
                 /\ st' = [st EXCEPT !.f = st.f + 1, !.width = w]
    BY ONLY <1>7
  <2>2. w \in Int /\ st' = [st EXCEPT !.f = st.f + 1, !.width = w]
    BY ONLY <1>1, <2>1
  <2>3. OutKeeps(st') /\ st'.out = st.out /\ st'.buf = st.buf /\ st'.pc = "escape"
    BY ONLY <1>1, <2>2 DEF OutKeeps, FormatFields
  <2> QED BY ONLY <1>2, <2>3
<1>8. CASE st' = [st EXCEPT !.f = st.f + 1, !.altflag = TRUE]
  <2>1. OutKeeps(st') /\ st'.out = st.out /\ st'.buf = st.buf /\ st'.pc = "escape"
    BY ONLY <1>1, <1>8 DEF OutKeeps, FormatFields
  <2> QED BY ONLY <1>2, <2>1
<1>9. CASE st' = [st EXCEPT !.f = st.f + 1, !.lflag = st.lflag + 1]
  <2>1. OutKeeps(st') /\ st'.out = st.out /\ st'.buf = st.buf /\ st'.pc = "escape"
    BY ONLY <1>1, <1>9 DEF OutKeeps, FormatFields
  <2> QED BY ONLY <1>2, <2>1
<1> QED BY <1>3, <1>5, <1>6, <1>7, <1>8, <1>9 DEF flags

LEMMA ConversionOut ==
    ASSUME FormatInv, OutInv, conversion
    PROVE  OutInv'
<1>1. /\ FormatFields \subseteq DOMAIN st /\ OutKeeps(st) /\ st.n > 0
      /\ \A u \in {0, 1, 2} : st.ap + u \in Nat \ {0}
  <2>1. FormatFields \subseteq DOMAIN st /\ OutKeeps(st) /\ st.n > 0 /\ st.ap \in Nat \ {0}
    BY DEF FormatInv, OutInv, OutKeeps, conversion, At
  <2> QED BY <2>1
<1>2. PICK w \in Int, c \in Printed : w = st.width /\ c = st.padc
  BY DEF OutInv
<1>3. PICK cs \in Seq(Printed), used \in {0, 1, 2} : Converts(cs, used)
  <2>1. /\ st.args[st.ap] \in Int /\ Unsigned(st.args[st.ap]) \in Nat
        /\ getuint \in Nat /\ getint \in Int /\ Used \in {0, 1, 2}
    BY ArgumentsRead
  <2>2. error(st.args[st.ap]) \in Seq(Printed) /\ string(Text(st.args[st.ap])) \in Seq(Printed)
    BY ONLY OutInv, <2>1, ErrorText, StringText
  <2>3. decimal(getint) \in Seq(Printed)
    BY ONLY OutInv, <2>1, DecimalText
  <2>4. /\ printnum(getuint, 10, w, c) \in Seq(Printed) /\ printnum(getuint, 8, w, c) \in Seq(Printed)
        /\ printnum(getuint, 16, w, c) \in Seq(Printed)
    BY ONLY <2>1, w \in Int, c \in Printed, NumText
  <2>5. <<"0", "x">> \o printnum(Unsigned(st.args[st.ap]), 16, w, c) \in Seq(Printed)
    <3>1. printnum(Unsigned(st.args[st.ap]), 16, w, c) \in Seq(Printed)
      BY ONLY <2>1, w \in Int, c \in Printed, NumText
    <3>2. <<"0", "x">> \in Seq(Printed)
      BY Symbols
    <3> QED BY ONLY <3>1, <3>2
  <2>6. <<"?">> \in Seq(Printed) /\ <<"%">> \in Seq(Printed)
    BY Symbols
  <2>7. \/ Converts(<<"?">>, 1)
        \/ Converts(error(st.args[st.ap]), 1)
        \/ Converts(string(Text(st.args[st.ap])), 1)
        \/ Converts(decimal(getint), Used)
        \/ Converts(printnum(getuint, 10, w, c), Used)
        \/ Converts(printnum(getuint, 8, w, c), Used)
        \/ Converts(<<"0", "x">> \o printnum(Unsigned(st.args[st.ap]), 16, w, c), 1)
        \/ Converts(printnum(getuint, 16, w, c), Used)
        \/ Converts(<<"%">>, 0)
    BY ONLY conversion, <1>2, Zenon DEF conversion
  <2>8. 0 \in {0, 1, 2} /\ 1 \in {0, 1, 2}
    OBVIOUS
  <2> QED BY ONLY <2>1, <2>2, <2>3, <2>4, <2>5, <2>6, <2>7, <2>8
<1>4. PICK a, s : /\ a = st.ap + used /\ s = [st EXCEPT !.pc = "text", !.f = st.f + 1, !.ap = a]
                  /\ st' = Put(s, cs)
  BY ONLY <1>3 DEF Converts
<1>5. a \in Nat \ {0}
  BY ONLY <1>1, <1>4, used \in {0, 1, 2}
<1>6. FormatFields \subseteq DOMAIN s /\ OutKeeps(s) /\ s.pc = "text"
  BY ONLY <1>1, <1>4, <1>5 DEF OutKeeps, FormatFields
<1> QED BY ONLY OutInv, <1>1, <1>4, <1>6, cs \in Seq(Printed), OutPut

LEMMA UnknownOut ==
    ASSUME FormatInv, OutInv, unknown
    PROVE  OutInv'
<1>1. FormatFields \subseteq DOMAIN st /\ OutKeeps(st) /\ st.n > 0
  BY DEF FormatInv, OutInv, OutKeeps, unknown, At
<1>2. PICK s, cs : s = [st EXCEPT !.pc = "text", !.f = Back(st.f)] /\ cs = <<"%">> /\ st' = Put(s, cs)
  BY DEF unknown
<1>3. FormatFields \subseteq DOMAIN s /\ OutKeeps(s) /\ s.pc = "text"
  BY ONLY <1>1, <1>2 DEF OutKeeps, FormatFields
<1>4. cs \in Seq(Printed)
  BY <1>2, Symbols
<1> QED BY ONLY OutInv, <1>1, <1>2, <1>3, <1>4, OutPut

LEMMA FormatSteps == FormatInv /\ OutInv /\ [PrintfmtNext]_st => FormatInv' /\ OutInv'
<1> SUFFICES ASSUME FormatInv, OutInv, [PrintfmtNext]_st PROVE FormatInv' /\ OutInv'
  OBVIOUS
<1>1. CASE UNCHANGED st
  <2>1. FormatInv' = FormatInv
    BY <1>1 DEF FormatInv, FormatFields
  <2>2. Kept(st.out)' = Kept(st.out)
    BY <1>1 DEF Kept, Room
  <2>3. OutInv' = OutInv
    BY <1>1, <2>2 DEF OutInv
  <2> QED BY <2>1, <2>3
<1>2. st.fn = "printf" /\ st.base = -1
  BY DEF FormatInv
<1>3. ~read_back /\ ~strtol_blanks /\ ~strtol_prefix /\ ~strtol_digits
  BY <1>2 DEF read_back, strtol_blanks, strtol_prefix, strtol_digits, At
<1>4. CASE vsnprintf \/ text \/ flags \/ conversion \/ unknown
  <2>1. FormatInv'
    BY <1>4, CallRead, TextRead, FlagsRead, ConversionRead, UnknownRead
  <2>2. OutInv'
    BY <1>4, CallOut, TextOut, FlagsOut, ConversionOut, UnknownOut
  <2> QED BY <2>1, <2>2
<1> QED BY <1>1, <1>3, <1>4 DEF PrintfmtNext

TextInv == MoveInv \/ CopyInv \/ (FormatInv /\ OutInv)

(* TextExact, for every memory, word size, string, size and format: in     *)
(* lib/string.c, memmove copies overlapping areas as if through a third    *)
(* one, by words or by bytes, upwards or downwards; strcpy and strlcpy end *)
(* what they write with one NUL, strncpy fills the size with them, strlcpy *)
(* stays inside its size, and no other byte changes.  In lib/printfmt.c,   *)
(* vprintfmt reads nothing after the NUL of a format, even of one that     *)
(* ends inside an escape or has an escape it does not know; vsnprintf      *)
(* stores what fits with room for the NUL and returns the length of all.   *)
THEOREM TextCorrect == TextSpec => []TextExact
<1>1. TextInit => TextInv
  BY MoveStarts, CopyStarts, FormatStarts, OutStarts DEF TextInit, TextInv
<1>2. TextInv /\ [StringsNext \/ PrintfmtNext]_st => TextInv'
  <2> SUFFICES ASSUME TextInv, [StringsNext \/ PrintfmtNext]_st PROVE TextInv'
    OBVIOUS
  <2>1. /\ MoveNext => st.fn = "memmove"
        /\ CopyNext => st.fn \in CopyRoutine
        /\ PrintfmtNext => st.fn \in {"printf", "strtol"}
    BY DEF MoveNext, memmove, movs, movs_ends, CopyNext, CopyRoutine, strcpy, strncpy, strlcpy,
           PrintfmtNext, vsnprintf, text, flags, conversion, unknown, read_back,
           strtol_blanks, strtol_prefix, strtol_digits, At
  <2>2. ASSUME MoveInv PROVE TextInv'
    <3>1. st.fn = "memmove"
      BY <2>2 DEF MoveInv, MoveState
    <3>2. [MoveNext]_st
      BY <2>1, <3>1 DEF StringsNext, CopyRoutine
    <3> QED BY <2>2, <3>2, MoveSteps DEF TextInv
  <2>3. ASSUME CopyInv PROVE TextInv'
    <3>1. st.fn \in CopyRoutine
      BY <2>3 DEF CopyInv
    <3>2. [CopyNext]_st
      BY <2>1, <3>1 DEF StringsNext, CopyRoutine
    <3> QED BY <2>3, <3>2, CopySteps DEF TextInv
  <2>4. ASSUME FormatInv, OutInv PROVE TextInv'
    <3>1. st.fn = "printf"
      BY <2>4 DEF FormatInv
    <3>2. [PrintfmtNext]_st
      BY <2>1, <3>1 DEF StringsNext, CopyRoutine
    <3> QED BY <2>4, <3>2, FormatSteps DEF TextInv
  <2> QED BY <2>2, <2>3, <2>4 DEF TextInv
<1>3. TextInv => TextExact
  <2>1. ASSUME MoveInv PROVE TextExact
    <3>1. st.fn = "memmove" /\ MovedAsAWhole
      BY <2>1 DEF MoveInv, MoveState
    <3> QED BY <3>1 DEF TextExact, CopiedInside, CopyRoutine, InsideFormat, BufferBounded
  <2>2. ASSUME CopyInv PROVE TextExact
    <3>1. st.fn \in CopyRoutine /\ CopiedInside
      BY <2>2 DEF CopyInv
    <3>2. st.fn # "memmove" /\ st.fn # "printf"
      BY <3>1 DEF CopyRoutine
    <3> QED BY <3>1, <3>2 DEF TextExact, MovedAsAWhole, At, InsideFormat, BufferBounded
  <2>3. ASSUME FormatInv, OutInv PROVE TextExact
    <3>1. st.fn = "printf" /\ InsideFormat
      BY <2>3 DEF FormatInv, InsideFormat
    <3>2. BufferBounded
      BY <2>3, OutBounded
    <3>3. MovedAsAWhole /\ CopiedInside
      BY <3>1 DEF MovedAsAWhole, CopiedInside, CopyRoutine, At
    <3> QED BY <3>1, <3>2, <3>3 DEF TextExact
  <2> QED BY <2>1, <2>2, <2>3 DEF TextInv
<1> QED BY <1>1, <1>2, <1>3, PTL DEF TextSpec

=============================================================================
