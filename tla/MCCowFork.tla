----------------------------- MODULE MCCowFork ------------------------------
(* CowFork for TLC.  Which frame holds a page makes no difference, so two  *)
(* states are the same if they agree on everything else: on the contents,  *)
(* the permissions and who shares with whom.                               *)
EXTENDS CowFork

Sharers(pte) ==
    {<<e, va>> \in Env \X Va : pt[e][va] # NULL /\ pt[e][va].frame = pte.frame}

Pages ==
    [e \in Env |-> [va \in Va |->
        IF pt[e][va] = NULL THEN NULL
        ELSE [perm |-> pt[e][va].perm, content |-> Read(e, va), sharers |-> Sharers(pt[e][va])]]]

View == <<Pages, status, upcall, pc, pn, cow, child, fault, panic>>
=============================================================================
