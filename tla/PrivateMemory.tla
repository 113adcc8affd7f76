--------------------------- MODULE PrivateMemory ----------------------------
(***************************************************************************)
(* What fork promises programs: every environment has a memory of its own. *)
(* A write changes the writer's memory and nobody else's, and a new        *)
(* environment starts with a copy of its parent's memory.  Its stack is    *)
(* the exception: the parent goes on using its own while it makes the      *)
(* copy, so the copy is of some earlier moment and may have been written   *)
(* last by somebody else.                                                  *)
(***************************************************************************)
CONSTANTS Env, FirstEnv, UserVa, NULL

VARIABLE memory     \* memory[e][va], or NULL if e does not run

Init ==
    /\ DOMAIN memory = Env
    /\ \A e \in Env : memory[e] = NULL <=> e # FirstEnv

Push(e) == memory' = [memory EXCEPT ![e]["stack"].writer = e]

SetHandler(e) == memory' = [memory EXCEPT ![e]["data"].handler = TRUE]

SetThisenv(e) == memory' = [memory EXCEPT ![e]["data"].thisenv = e]

Fork(parent, child) ==
    /\ memory[parent] # NULL /\ memory[child] = NULL
    /\ \E w \in Env \cup {0} :
          memory' = [memory EXCEPT ![child] =
                        [memory[parent] EXCEPT !["stack"].writer = w]]

Exit(e) == memory' = [memory EXCEPT ![e] = NULL]

Next ==
    \/ \E e \in Env : memory[e] # NULL /\ (Push(e) \/ SetHandler(e) \/ SetThisenv(e) \/ Exit(e))
    \/ \E parent, child \in Env : Fork(parent, child)

Spec == Init /\ [][Next]_memory

=============================================================================
