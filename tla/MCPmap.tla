------------------------------- MODULE MCPmap -------------------------------
(* Pmap for TLC.  No operator depends on which page or CPU is which, and   *)
(* the runs check safety only, so both sets are symmetric.                 *)
EXTENDS Pmap, TLC

Symmetry == Permutations(Page \ Reserved) \cup Permutations(Cpu)
=============================================================================
