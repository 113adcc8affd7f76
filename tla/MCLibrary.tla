------------------------------ MODULE MCLibrary -----------------------------
(* For TLC: user-level page faults, the IPC library, or one call of a      *)
(* sequential routine on a small input; one of the three at a time.        *)
EXTENDS UserFault, IpcLib, Stab, UserMem, Printfmt, Monitor, Loader, TrapEntry

VARIABLE machine
vars == <<machine, ufVars, ipcVars, st>>

(* Of the words of an interrupted context and the error code at most one   *)
(* differs from the others: enough to see where each of them goes.         *)
Mark == CHOOSE w \in TrapWord : TRUE
Marked ==
    {f \in {"es", "ds", "eip", "eflags", "esp", "ss"} : st.cpu[f] = Mark}
    \cup {f \in {"eax", "others"} : st.cpu.regs[f] = Mark}
    \cup (IF st.err = Mark THEN {"err"} ELSE {})

NoCall == [fn |-> "none", pc |-> "done"]
CallInit == StabInit \/ UserMemInit \/ StringsInit \/ PrintfmtInit \/ MonitorInit
            \/ LoaderInit \/ (TrapEntryInit /\ Cardinality(Marked) <= 1)
CallNext == StabNext \/ UserMemNext \/ StringsNext \/ PrintfmtNext \/ MonitorNext
            \/ LoaderNext \/ TrapEntryNext

Init ==
    /\ UfInit /\ IpcInit
    /\ \/ machine = "fault" /\ st = NoCall
       \/ machine = "ipc" /\ esp = USTACKTOP /\ st = NoCall
       \/ machine = "call" /\ esp = USTACKTOP /\ CallInit
Next ==
    \/ machine = "fault" /\ UfNext /\ UNCHANGED <<machine, ipcVars, st>>
    \/ machine = "ipc" /\ IpcNext /\ UNCHANGED <<machine, ufVars, st>>
    \/ machine = "call" /\ CallNext /\ UNCHANGED <<machine, ufVars, ipcVars>>

(* The scheduler runs every environment again and again, and a routine     *)
(* runs on until it returns.                                               *)
Spec ==
    /\ Init /\ [][Next]_vars
    /\ \A e \in IpcEnv :
          WF_vars(machine = "ipc" /\ Continue(e) /\ UNCHANGED <<machine, ufVars, st>>)
    /\ WF_vars(machine = "call" /\ CallNext /\ UNCHANGED <<machine, ufVars, ipcVars>>)

(* Every loop of the routines ends: the binary search goes on past an      *)
(* exact match, vprintfmt goes on after an escape it does not know.        *)
Returns == <>(st.pc = "done")

(* Together, what one sees of the kernel in the monitor: the symbols of an *)
(* address, the words of a command, the numbers typed and the rights set   *)
(* are the ones asked for.                                                 *)
DebuggerExact == StabBrackets /\ LineFound /\ ArgvExact /\ RightsAsListed /\ ReadBack
=============================================================================
