----------------------------- MODULE AddrSpace ------------------------------
(***************************************************************************)
(* What the page calls of the kernel promise the programs, without page    *)
(* tables, reference counts or a free list: each environment has a map     *)
(* from virtual pages to frames; a frame that is handed out is one nobody  *)
(* has; sharing starts from a mapping that exists and never adds the right *)
(* to write.                                                               *)
(***************************************************************************)
CONSTANTS Page, Env, FirstEnv, Va, NULL

VARIABLES
    live,   \* environments that have an address space
    as      \* as[e][va]: the frame and the right to write, or NULL

vars == <<live, as>>

Mapped(p) == \E e \in Env, va \in Va : as[e][va] # NULL /\ as[e][va].page = p

Init ==
    /\ live = {FirstEnv}
    /\ \E p \in Page :
          as = [e \in Env |-> [va \in Va |->
                  IF e = FirstEnv /\ va = 0 THEN [page |-> p, w |-> TRUE] ELSE NULL]]

Create(e) == e \notin live /\ live' = live \cup {e} /\ UNCHANGED as

Alloc(e, va) ==
    /\ e \in live
    /\ \E p \in Page, w \in BOOLEAN :
          ~Mapped(p) /\ as' = [as EXCEPT ![e][va] = [page |-> p, w |-> w]]
    /\ UNCHANGED live

Share(src, srcva, dst, dstva) ==
    /\ {src, dst} \subseteq live
    /\ as[src][srcva] # NULL
    /\ \E w \in BOOLEAN :
          /\ w => as[src][srcva].w
          /\ as' = [as EXCEPT ![dst][dstva] = [page |-> as[src][srcva].page, w |-> w]]
    /\ UNCHANGED live

Unmap(e, va) == e \in live /\ as' = [as EXCEPT ![e][va] = NULL] /\ UNCHANGED live

Destroy(e) ==
    /\ e \in live
    /\ \A va \in Va : as[e][va] = NULL
    /\ live' = live \ {e}
    /\ UNCHANGED as

(* A call that leaves every map as it was is a stuttering step.           *)
Next ==
    \/ \E e \in Env : Create(e) \/ Destroy(e)
    \/ /\ as' # as
       /\ \/ \E e \in Env, va \in Va : Alloc(e, va) \/ Unmap(e, va)
          \/ \E src, dst \in Env, srcva, dstva \in Va : Share(src, srcva, dst, dstva)

Spec == Init /\ [][Next]_vars

=============================================================================
