------------------------------ MODULE Routine -------------------------------
(***************************************************************************)
(* One call of a sequential routine of the kernel or of the library: st    *)
(* holds the routine's name (fn), where it is (pc), its arguments and its  *)
(* variables.  The modules that extend this one give the steps.            *)
(***************************************************************************)
EXTENDS Integers

VARIABLE st

At(fn, pc) == st.fn = fn /\ st.pc = pc

(* inc/types.h                                                             *)
ROUNDDOWN(a, n) == a - (a % n)
ROUNDUP(a, n) == ROUNDDOWN(a + n - 1, n)
=============================================================================
