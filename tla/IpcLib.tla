------------------------------- MODULE IpcLib -------------------------------
(***************************************************************************)
(* ipc_send and ipc_recv of lib/ipc.c over sys_ipc_try_send and            *)
(* sys_ipc_recv of kern/syscall.c.  A system call is one step (the big     *)
(* kernel lock); ipc_recv reads the results from its struct Env one by     *)
(* one, without the lock, while others send.  A page is sent or not;       *)
(* page_insert may fail for lack of memory.                                *)
(***************************************************************************)
EXTENDS Integers

CONSTANTS
    IpcEnv,     \* environments
    IpcValue,   \* values they send
    Receiver,   \* environments that receive; the others only send
    PageUser,   \* receivers that may ask for a page, and are sent pages
    NONE        \* "nothing"

ASSUME IpcAssumption ==
    /\ PageUser \subseteq Receiver /\ Receiver \subseteq IpcEnv
    /\ NONE \notin IpcEnv \cup IpcValue

PermPage == 7
NoResult == [from |-> NONE, perm |-> NONE, value |-> NONE]

VARIABLES
    ipc,        \* of each environment: env_ipc_recving, from, value, perm, and
                \* whether env_ipc_dstva is below UTOP: it asks for a page
    ipcpc,      \* where it is in the library
    arg,        \* arguments of its ipc_send: [to, value, page]
    result,     \* what ipc_recv has read so far
    sent        \* what the send that woke it sent, until ipc_recv returns
ipcVars == <<ipc, ipcpc, arg, result, sent>>

IpcInit ==
    /\ ipc = [e \in IpcEnv |-> [recving |-> FALSE, from |-> NONE, value |-> NONE, perm |-> 0,
                             dstva |-> FALSE]]
    /\ ipcpc = [e \in IpcEnv |-> "idle"]
    /\ arg = [e \in IpcEnv |-> NONE]
    /\ result = [e \in IpcEnv |-> NoResult]
    /\ sent = [e \in IpcEnv |-> NONE]

IpcGoto(e, l) == ipcpc' = [ipcpc EXCEPT ![e] = l]

(* ipc_recv: sys_ipc_recv blocks; a send continues it at "from".           *)
ipc_recv(e) ==
    /\ ipcpc[e] = "idle" /\ e \in Receiver
    /\ \E asks \in BOOLEAN :
          /\ asks => e \in PageUser
          /\ ipc' = [ipc EXCEPT ![e].recving = TRUE, ![e].dstva = asks]
    /\ IpcGoto(e, "blocked")
    /\ UNCHANGED <<arg, result, sent>>

(* sys_ipc_recv refuses an address that is not page-aligned: -E_INVAL.     *)
recv_fails(e) ==
    /\ ipcpc[e] = "idle" /\ e \in PageUser
    /\ result' = [result EXCEPT ![e] = [from |-> NONE, perm |-> 0, value |-> NONE]]
    /\ IpcGoto(e, "failed")
    /\ UNCHANGED <<ipc, arg, sent>>

(* from_env_store, perm_store and the value, in this order                 *)
read_from(e) ==
    /\ ipcpc[e] = "from"
    /\ result' = [result EXCEPT ![e].from = ipc[e].from]
    /\ IpcGoto(e, "perm")
    /\ UNCHANGED <<ipc, arg, sent>>
read_perm(e) ==
    /\ ipcpc[e] = "perm"
    /\ result' = [result EXCEPT ![e].perm = ipc[e].perm]
    /\ IpcGoto(e, "value")
    /\ UNCHANGED <<ipc, arg, sent>>
read_value(e) ==
    /\ ipcpc[e] = "value"
    /\ result' = [result EXCEPT ![e].value = ipc[e].value]
    /\ IpcGoto(e, "received")
    /\ UNCHANGED <<ipc, arg, sent>>
recv_return(e) ==
    /\ ipcpc[e] \in {"received", "failed"}
    /\ result' = [result EXCEPT ![e] = NoResult]
    /\ sent' = [sent EXCEPT ![e] = NONE]
    /\ IpcGoto(e, "idle")
    /\ UNCHANGED <<ipc, arg>>

(* ipc_send with a value and perhaps a page                                *)
ipc_send(e) ==
    /\ ipcpc[e] = "idle"
    /\ \E to \in Receiver \ {e}, v \in IpcValue, page \in BOOLEAN :
          /\ page => to \in PageUser
          /\ arg' = [arg EXCEPT ![e] = [to |-> to, value |-> v, page |-> page]]
    /\ IpcGoto(e, "try")
    /\ UNCHANGED <<ipc, result, sent>>

(* sys_ipc_try_send: -E_BAD_ENV, -E_IPC_NOT_RECV, -E_INVAL (the page is    *)
(* not aligned, not mapped or not writable, or perm is not one of a page), *)
(* -E_NO_MEM (which has changed env_ipc_perm) or success.  ipc_send tries  *)
(* again after -E_IPC_NOT_RECV and panics on the others.                   *)
Delivered_still_recving(e, perm) ==
    [ipc[arg[e].to] EXCEPT !.from = e, !.value = arg[e].value, !.perm = perm]
Delivered(e, perm) ==
    [ipc[arg[e].to] EXCEPT !.recving = FALSE, !.from = e, !.value = arg[e].value, !.perm = perm]
PageMoves(e) == arg[e].page /\ ipc[arg[e].to].dstva
PermSent_kept(e) == IF PageMoves(e) THEN PermPage ELSE ipc[arg[e].to].perm
PermSent(e) ==
    CASE ~arg[e].page -> 0
      [] PageMoves(e) -> PermPage
      [] OTHER -> ipc[arg[e].to].perm       \* a page nobody asked for: unchanged

(* Recorded for the properties: what the receiver may read as permission   *)
PermsFor(e) ==
    IF PageMoves(e) THEN {PermPage} ELSE IF arg[e].page THEN {0, PermPage} ELSE {0}

bad_env(e) ==
    /\ ipcpc[e] = "try" /\ ipcpc[arg[e].to] = "dead"
    /\ IpcGoto(e, "dead")
    /\ UNCHANGED <<ipc, arg, result, sent>>
not_recv(e) ==
    /\ ipcpc[e] = "try" /\ ipcpc[arg[e].to] # "dead" /\ ~ipc[arg[e].to].recving
    /\ IpcGoto(e, "yield")
    /\ UNCHANGED <<ipc, arg, result, sent>>
bad_page(e) ==
    /\ ipcpc[e] = "try" /\ ipcpc[arg[e].to] # "dead" /\ ipc[arg[e].to].recving
    /\ arg[e].page
    /\ IpcGoto(e, "dead")
    /\ UNCHANGED <<ipc, arg, result, sent>>
no_mem(e) ==
    /\ ipcpc[e] = "try" /\ ipcpc[arg[e].to] # "dead" /\ ipc[arg[e].to].recving
    /\ PageMoves(e)
    /\ ipc' = [ipc EXCEPT ![arg[e].to].perm = PermPage]
    /\ IpcGoto(e, "dead")
    /\ UNCHANGED <<arg, result, sent>>
try_send(e) ==
    /\ ipcpc[e] = "try" /\ ipcpc[arg[e].to] # "dead" /\ ipc[arg[e].to].recving
    /\ LET to == arg[e].to
       IN /\ ipc' = [ipc EXCEPT ![to] = Delivered(e, PermSent(e))]
          /\ sent' = [sent EXCEPT ![to] = [from |-> e, perm |-> PermsFor(e), value |-> arg[e].value]]
          /\ ipcpc' = [ipcpc EXCEPT ![e] = "idle", ![to] = IF @ = "blocked" THEN "from" ELSE @]
    /\ arg' = [arg EXCEPT ![e] = NONE]
    /\ UNCHANGED result
sys_yield(e) ==
    /\ ipcpc[e] = "yield"
    /\ IpcGoto(e, "try")
    /\ UNCHANGED <<ipc, arg, result, sent>>

exit(e) ==
    /\ ipcpc[e] = "idle"
    /\ IpcGoto(e, "dead")
    /\ UNCHANGED <<ipc, arg, result, sent>>

(* Steps an environment takes when the scheduler runs it.                  *)
Continue(e) ==
    \/ read_from(e) \/ read_perm(e) \/ read_value(e) \/ recv_return(e)
    \/ bad_env(e) \/ not_recv(e) \/ bad_page(e) \/ no_mem(e) \/ try_send(e) \/ sys_yield(e)
IpcNext == \E e \in IpcEnv : Continue(e) \/ ipc_recv(e) \/ recv_fails(e) \/ ipc_send(e) \/ exit(e)
IpcSpec == IpcInit /\ [][IpcNext]_ipcVars

-----------------------------------------------------------------------------
(* Properties *)

IpcTypeOK ==
    /\ \A e \in IpcEnv : ipc[e].perm \in {0, PermPage} /\ ipc[e].recving \in BOOLEAN
    /\ \A e \in IpcEnv : ipc[e].recving <=> ipcpc[e] = "blocked"

(* ipc.c: ipc_recv returns the value, the sender and the permission of one *)
(* send, the one that woke it, although it reads them without the lock and *)
(* an earlier send may have failed after it wrote the permission: 0 unless *)
(* a page was mapped.  The one exception is a page sent to a receiver that *)
(* does not ask for one: the permission of an earlier page is left.        *)
ReceivedAsSent ==
    \A e \in IpcEnv : ipcpc[e] = "received" =>
        /\ result[e].from = sent[e].from /\ result[e].value = sent[e].value
        /\ result[e].perm \in sent[e].perm

(* ipc.c: a receiver is woken once somebody keeps trying to send to it,    *)
(* or the sender dies of an error.                                         *)
ReceiverServed ==
    \A r \in Receiver : \A s \in IpcEnv \ {r} :
        (ipc[r].recving /\ ipcpc[s] \in {"try", "yield"} /\ arg[s].to = r)
            ~> (~ipc[r].recving \/ ipcpc[s] = "dead")

(* Together: an environment that waits is the only one that can be sent to,*)
(* and what it returns is one message.                                     *)
MessagesWhole == IpcTypeOK /\ ReceivedAsSent
=============================================================================
