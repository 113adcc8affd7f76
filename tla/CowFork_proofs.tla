---------------------------- MODULE CowFork_proofs ----------------------------
(***************************************************************************)
(* Proofs about CowFork, for any number of environments and pages, and     *)
(* whichever calls run out of memory.                                      *)
(***************************************************************************)
EXTENDS CowFork, WellFoundedInduction, TLAPS

-----------------------------------------------------------------------------
(* The inductive invariant *)

(* fork between sys_exofork and its return, when it has a child; and when  *)
(* set_pgfault_handler has done its work.                                  *)
DupPcs == {"dup_read", "dup_child", "dup_self", "alloc_ux", "child_upcall", "wake"}
ReadyPcs == {"save_handler", "exofork"} \cup DupPcs

(* The pages that duppage makes copy-on-write.                             *)
CowVa == {"data", "stack"}

(* e can take a page fault.                                                *)
Ready(e) == upcall[e] /\ Writable(e, "uxstack")

(* Who is there, and who is making whom: a child does not run until its    *)
(* only parent wakes it.                                                   *)
Lives ==
    /\ \A e \in Env :
         /\ status[e] = "FREE" => pc[e] = "user" /\ \A va \in Va : pt[e][va] = NULL
         /\ status[e] = "NOT_RUNNABLE" => pc[e] = "child"
         /\ status[e] # "RUNNABLE" => fault[e] = NULL
         /\ pc[e] \in DupPcs => child[e] \in Env /\ status[child[e]] = "NOT_RUNNABLE"
         /\ pc[e] \notin DupPcs => child[e] = NULL
    /\ \A e, f \in Env : child[e] = child[f] /\ child[e] # NULL => e = f

(* What each page may be mapped as.                                        *)
Kinds ==
    \A e \in Env, va \in Va : pt[e][va] # NULL =>
        /\ va = "text" => pt[e][va].perm = "r"
        /\ va \in CowVa => pt[e][va].perm \in {"w", "cow"}
        /\ va \in {"pftemp", "uxstack"} => pt[e][va].perm = "w"

(* pgfault works on a page that nobody writes until it has moved its copy, *)
(* and PFTEMP is mapped only meanwhile.                                    *)
Copying ==
    \A e \in Env :
        /\ pt[e]["pftemp"] # NULL => fault[e] # NULL /\ fault[e].at # "alloc"
        /\ fault[e] # NULL =>
             /\ fault[e].va \in CowVa /\ pt[e][fault[e].va] # NULL
             /\ fault[e].at # "unmap" => pt[e][fault[e].va].perm = "cow"
             /\ fault[e].at # "alloc" => pt[e]["pftemp"] # NULL
             /\ fault[e].at = "map" => Read(e, "pftemp") = Read(e, fault[e].va)
             /\ fault[e].at = "unmap" => pt[e]["pftemp"] = pt[e][fault[e].va]

(* duppage works on a page that stays mapped, and what it saw of its       *)
(* permissions still holds.                                                *)
Duplicating ==
    \A e \in Env :
        /\ pc[e] \in {"dup_child", "dup_self"} =>
             /\ Loop[pn[e]] \in UserVa /\ pt[e][Loop[pn[e]]] # NULL
             /\ cow[e] <=> Loop[pn[e]] \in CowVa
        /\ pc[e] = "dup_self" => cow[e]

(* Whoever may meet a copy-on-write page can take the fault.               *)
HandlerOk(e) ==
    /\ \/ pc[e] \in ReadyPcs
       \/ status[e] = "RUNNABLE" /\ pc[e] = "child"
       \/ status[e] = "RUNNABLE" /\ pt[e]["data"] # NULL /\ Read(e, "data").handler
       => Ready(e)
    /\ pc[e] = "set_upcall" => Writable(e, "uxstack")
    /\ pc[e] = "child_upcall" => Writable(child[e], "uxstack")
    /\ pc[e] = "wake" => Ready(child[e])

Handlers == \A e \in Env : HandlerOk(e)

(* A program that runs has its data.                                       *)
DataThere == \A e \in Env : status[e] = "RUNNABLE" /\ pc[e] # "child" => pt[e]["data"] # NULL

Inv ==
    /\ TypeOK /\ Lives /\ Kinds /\ Copying /\ Duplicating /\ Handlers /\ DataThere
    /\ Isolated /\ HandlerReady /\ ThisenvOwn

-----------------------------------------------------------------------------
(* Pages and page tables *)

PageTables == [Env -> [Va -> Pte \cup {NULL}]]

(* fork's loop visits four pages, the last one the stack.                  *)
LEMMA LoopFacts ==
    /\ Len(Loop) = 4 /\ Loop[1] = "pftemp" /\ Loop[2] = "text" /\ Loop[3] = "data"
    /\ Loop[4] = "stack" /\ \A k \in 1..4 : Loop[k] \in Va
  BY DEF Loop, Va, UserVa

(* NULL is no page table entry, no environment and no pgfault.             *)
LEMMA Nulls ==
    /\ NULL \notin Env /\ NULL \notin Pte
    /\ \A f \in Frame, p \in Perm :
          [frame |-> f, perm |-> p] \in Pte /\ [frame |-> f, perm |-> p] # NULL
    /\ \A x \in Pte : x.frame \in Frame /\ x.perm \in Perm
    /\ \A l \in FaultPcs, va \in UserVa :
          [at |-> l, va |-> va] \in [at : FaultPcs, va : UserVa] /\ [at |-> l, va |-> va] # NULL
<1>1. NULL \notin Env /\ NULL \notin Pte /\ NULL \notin [at : FaultPcs, va : UserVa]
  BY CowForkNull
<1>2. ASSUME NEW f \in Frame, NEW p \in Perm
      PROVE  [frame |-> f, perm |-> p] \in Pte
  BY DEF Pte
<1>3. \A x \in Pte : x.frame \in Frame /\ x.perm \in Perm
  BY DEF Pte
<1>4. ASSUME NEW l \in FaultPcs, NEW va \in UserVa
      PROVE  /\ [at |-> l, va |-> va] \in [at : FaultPcs, va : UserVa]
             /\ [at |-> l, va |-> va] # NULL
  <2>1. [at |-> l, va |-> va] \in [at : FaultPcs, va : UserVa]
    OBVIOUS
  <2> QED BY <1>1, <2>1
<1> HIDE DEF Pte
<1> QED BY <1>1, <1>2, <1>3, <1>4

(* sys_page_alloc's page is one that nobody maps.                          *)
LEMMA FreshFrame ==
    ASSUME TypeOK, InUse(pt) # Frame
    PROVE  NewFrame \in Frame \ InUse(pt)
<1> DEFINE U == Frame \ InUse(pt)
<1>1. U \subseteq Nat /\ U # {}
  BY CowForkAssumption DEF InUse, Frame
<1> HIDE DEF U
<1>2. PICK f \in U : \A g \in U : ~(<<g, f>> \in OpToRel(<, Nat))
  BY <1>1, NatLessThanWellFounded, WFMin
<1>3. ASSUME NEW g \in U
      PROVE  f <= g
  <2>1. f \in Nat /\ g \in Nat /\ ~(<<g, f>> \in OpToRel(<, Nat))
    BY <1>1, <1>2
  <2>2. g < f => <<g, f>> \in OpToRel(<, Nat)
    BY <2>1 DEF OpToRel
  <2>3. f \in Nat /\ g \in Nat /\ ~(g < f)
    BY <2>1, <2>2, Zenon
  <2> QED BY <2>3
<1> QED BY <1>3 DEF NewFrame, U

(* What is mapped after an edit of the page tables keeps its contents.     *)
LEMMA SetPtEffect ==
    ASSUME NEW m \in PageTables, content \in [Frame -> Content], SetPt(m, content)
    PROVE  /\ pt' = m /\ content' \in [Frame -> Content]
           /\ \A e \in Env, va \in Va : m[e][va] # NULL => Read(e, va)' = content[m[e][va].frame]
<1>1. pt' = m /\ content' = [f \in Frame |-> IF f \in InUse(m) THEN content[f] ELSE Zero]
  BY DEF SetPt
<1>2. Zero \in Content
  BY CowForkAssumption DEF Zero, Content
<1>3. ASSUME NEW e \in Env, NEW va \in Va, m[e][va] # NULL
      PROVE  Read(e, va)' = content[m[e][va].frame]
  <2>1. m[e][va].frame \in Frame
    BY <1>3, Nulls DEF PageTables
  <2>2. m[e][va].frame \in InUse(m)
    BY <1>3, <2>1 DEF InUse
  <2> QED BY <1>1, <2>1, <2>2 DEF Read
<1> QED BY <1>1, <1>2, <1>3

(* sys_page_alloc maps one page more, writable, which is shared with       *)
(* nobody, and takes no other page.                                        *)
LEMMA AllocEffect ==
    ASSUME TypeOK, NEW e \in Env, NEW va \in Va, sys_page_alloc(e, va)
    PROVE  \E x \in Pte :
             /\ x.perm = "w"
             /\ \A f \in Env, u \in Va : pt[f][u] # NULL => pt[f][u].frame # x.frame
             /\ pt' = [pt EXCEPT ![e][va] = x] /\ pt' \in PageTables
             /\ content' \in [Frame -> Content]
             /\ \A f \in Env, u \in Va : pt[f][u] # NULL /\ <<f, u>> # <<e, va>> =>
                   Read(f, u)' = Read(f, u)
<1> DEFINE x == [frame |-> NewFrame, perm |-> "w"]
           m == [pt EXCEPT ![e][va] = x]
<1>1. NewFrame \in Frame \ InUse(pt)
  BY FreshFrame DEF sys_page_alloc
<1>2. x \in Pte /\ x.frame = NewFrame /\ x.perm = "w"
  BY <1>1, Nulls DEF Perm
<1>3. SetPt(m, content)
  BY DEF sys_page_alloc
<1>4. pt \in PageTables /\ content \in [Frame -> Content]
  BY DEF TypeOK, PageTables
<1> HIDE DEF x
<1>5. m \in PageTables
  BY <1>2, <1>4 DEF PageTables
<1>6. /\ pt' = m /\ content' \in [Frame -> Content]
      /\ \A f \in Env, u \in Va : m[f][u] # NULL => Read(f, u)' = content[m[f][u].frame]
  BY <1>3, <1>4, <1>5, SetPtEffect
<1>7. \A f \in Env, u \in Va : pt[f][u] # NULL => pt[f][u].frame # x.frame
  BY <1>1, <1>2, <1>4, Nulls DEF InUse, PageTables
<1>8. ASSUME NEW f \in Env, NEW u \in Va, pt[f][u] # NULL, <<f, u>> # <<e, va>>
      PROVE  Read(f, u)' = Read(f, u)
  <2>1. m[f][u] = pt[f][u]
    BY <1>4, <1>8 DEF PageTables
  <2> QED BY <1>6, <1>8, <2>1 DEF Read
<1> QED BY <1>2, <1>5, <1>6, <1>7, <1>8

(* sys_page_map, and sys_page_unmap: one entry is replaced.                *)
LEMMA EditEffect ==
    ASSUME TypeOK, NEW e \in Env, NEW va \in Va, NEW x \in Pte \cup {NULL},
           SetPt([pt EXCEPT ![e][va] = x], content)
    PROVE  /\ pt' = [pt EXCEPT ![e][va] = x] /\ pt' \in PageTables
           /\ content' \in [Frame -> Content]
           /\ x # NULL => Read(e, va)' = content[x.frame]
           /\ \A f \in Env, u \in Va : pt[f][u] # NULL /\ <<f, u>> # <<e, va>> =>
                 Read(f, u)' = Read(f, u)
<1> DEFINE m == [pt EXCEPT ![e][va] = x]
<1>1. pt \in PageTables /\ content \in [Frame -> Content]
  BY DEF TypeOK, PageTables
<1>2. m \in PageTables /\ m[e][va] = x
  BY <1>1 DEF PageTables
<1>3. /\ pt' = m /\ content' \in [Frame -> Content]
      /\ \A f \in Env, u \in Va : m[f][u] # NULL => Read(f, u)' = content[m[f][u].frame]
  BY <1>1, <1>2, SetPtEffect
<1>4. ASSUME NEW f \in Env, NEW u \in Va, pt[f][u] # NULL, <<f, u>> # <<e, va>>
      PROVE  Read(f, u)' = Read(f, u)
  <2>1. m[f][u] = pt[f][u]
    BY <1>1, <1>4 DEF PageTables
  <2> QED BY <1>3, <1>4, <2>1 DEF Read
<1> QED BY <1>2, <1>3, <1>4

(* exit and destruction: every page of e goes.                             *)
LEMMA GoneEffect ==
    ASSUME TypeOK, NEW e \in Env, SetPt([pt EXCEPT ![e] = Gone(e)], content)
    PROVE  /\ pt' \in PageTables /\ content' \in [Frame -> Content]
           /\ \A va \in Va : pt'[e][va] = NULL
           /\ \A f \in Env : f # e => pt'[f] = pt[f]
           /\ \A f \in Env, u \in Va : pt[f][u] # NULL /\ f # e => Read(f, u)' = Read(f, u)
<1> DEFINE m == [pt EXCEPT ![e] = Gone(e)]
<1>1. pt \in PageTables /\ content \in [Frame -> Content]
  BY DEF TypeOK, PageTables
<1>2. m \in PageTables /\ (\A va \in Va : m[e][va] = NULL) /\ \A f \in Env : f # e => m[f] = pt[f]
  BY <1>1 DEF PageTables, Gone
<1>3. /\ pt' = m /\ content' \in [Frame -> Content]
      /\ \A f \in Env, u \in Va : m[f][u] # NULL => Read(f, u)' = content[m[f][u].frame]
  BY <1>1, <1>2, SetPtEffect
<1> QED BY <1>2, <1>3 DEF Read

-----------------------------------------------------------------------------
(* Sharing *)

(* A page of e's that it may write is mapped elsewhere too, and the code   *)
(* means it: the two parts of Isolated.                                    *)
Shares(e, va, f, u) ==
    /\ Writable(e, va) /\ pt[f][u] # NULL
    /\ pt[f][u].frame = pt[e][va].frame /\ (f # e \/ u # va)

Meant(e, va, f, u) ==
    \/ pc[e] = "dup_self" /\ f = child[e] /\ u = va /\ va = Loop[pn[e]]
    \/ /\ f = e /\ fault[e] # NULL /\ fault[e].at = "unmap"
       /\ \/ u = "pftemp" /\ va = fault[e].va
          \/ va = "pftemp" /\ u = fault[e].va

(* Isolated, put in these words, before a step.                            *)
LEMMA UseIsolated ==
    ASSUME Isolated, NEW e \in Env, NEW f \in Env, NEW va \in Va, NEW u \in Va, Shares(e, va, f, u)
    PROVE  Meant(e, va, f, u)
<1>1. <<f, u>> # <<e, va>>
  BY DEF Shares
<1>2. \/ pc[e] = "dup_self" /\ f = child[e] /\ u = va /\ va = Loop[pn[e]]
      \/ f = e /\ fault[e] # NULL /\ fault[e].at = "unmap" /\ {u, va} = {"pftemp", fault[e].va}
  BY <1>1 DEF Isolated, Shares
<1> QED BY <1>1, <1>2 DEF Meant

(* And after it.                                                           *)
LEMMA ShowIsolated ==
    ASSUME \A e, f \in Env, va, u \in Va : Shares(e, va, f, u)' => Meant(e, va, f, u)'
    PROVE  Isolated'
<1> SUFFICES ASSUME NEW e \in Env, NEW f \in Env, NEW va \in Va, NEW u \in Va,
                    Writable(e, va)', pt'[f][u] # NULL, pt'[f][u].frame = pt'[e][va].frame,
                    <<f, u>> # <<e, va>>
             PROVE  \/ pc'[e] = "dup_self" /\ f = child'[e] /\ u = va /\ va = Loop[pn'[e]]
                    \/ /\ f = e /\ fault'[e] # NULL /\ fault'[e].at = "unmap"
                       /\ {u, va} = {"pftemp", fault'[e].va}
  BY DEF Isolated
<1>1. Shares(e, va, f, u)'
  BY DEF Shares
<1>2. Meant(e, va, f, u)'
  BY <1>1
<1> QED BY <1>2 DEF Meant

-----------------------------------------------------------------------------
(* Steps that leave memory alone *)

(* What the page tables alone decide, while they do not change.            *)
LEMMA SameTables ==
    ASSUME Inv, pt' = pt,
           \A e, f \in Env, va, u \in Va : Meant(e, va, f, u) => Meant(e, va, f, u)'
    PROVE  Kinds' /\ Isolated'
<1>1. Kinds'
  BY DEF Inv, Kinds
<1>2. ASSUME NEW e \in Env, NEW f \in Env, NEW va \in Va, NEW u \in Va, Shares(e, va, f, u)'
      PROVE  Meant(e, va, f, u)'
  <2>1. Shares(e, va, f, u)
    BY <1>2 DEF Shares, Writable
  <2> QED BY <2>1, UseIsolated DEF Inv
<1> QED BY <1>1, <1>2, ShowIsolated

(* fork's child is there and does not run.                                 *)
LEMMA ChildThere ==
    ASSUME Inv, NEW e \in Env
    PROVE  /\ pc[e] \in DupPcs =>
                /\ child[e] \in Env /\ status[child[e]] = "NOT_RUNNABLE" /\ pc[child[e]] = "child"
                /\ fault[child[e]] = NULL /\ child[e] # e
           /\ pc[e] \in {"child_upcall", "wake"} => child[e] \in Env
  BY DEF Inv, Lives, DupPcs

(* A handler that is ready stays ready while its program does not move.    *)
LEMMA HandlerKept ==
    ASSUME Inv, NEW g \in Env,
           \A x \in Env : status[x] # "FREE" =>
              /\ Writable(x, "uxstack") => Writable(x, "uxstack")'
              /\ Ready(x) => Ready(x)',
           pc'[g] = pc[g], child'[g] = child[g],
           status'[g] = "RUNNABLE" =>
             /\ status[g] = "RUNNABLE"
             /\ pt'[g]["data"] # NULL => pt[g]["data"] # NULL /\ Read(g, "data")' = Read(g, "data")
    PROVE  HandlerOk(g)'
<1>1. HandlerOk(g)
  BY DEF Inv, Handlers
<1>2. status[g] = "FREE" => pc[g] = "user"
  BY DEF Inv, Lives
<1>3. pc[g] \in {"child_upcall", "wake"} => child[g] \in Env /\ status[child[g]] = "NOT_RUNNABLE"
  BY ChildThere DEF DupPcs
<1>4. \/ pc'[g] \in ReadyPcs
      \/ status'[g] = "RUNNABLE" /\ pc'[g] = "child"
      \/ status'[g] = "RUNNABLE" /\ pt'[g]["data"] # NULL /\ Read(g, "data")'.handler
      => Ready(g)'
  BY <1>1, <1>2 DEF HandlerOk, ReadyPcs, DupPcs
<1>5. pc'[g] = "set_upcall" => Writable(g, "uxstack")'
  BY <1>1, <1>2 DEF HandlerOk
<1>6. /\ pc'[g] = "child_upcall" => Writable(child[g], "uxstack")'
      /\ pc'[g] = "wake" => Ready(child[g])'
  BY <1>1, <1>3 DEF HandlerOk, Ready, Writable
<1> QED BY <1>4, <1>5, <1>6 DEF HandlerOk

(* A panic stops every program and changes nothing else.                   *)
LEMMA PanicKeeps ==
    ASSUME Inv, NEW e \in Env, _panic(e)
    PROVE  Inv'
<1>1. UNCHANGED <<status, upcall, pt, content, pc, pn, cow, child, fault>> /\ panic' = TRUE
  BY DEF _panic, forkVars
<1>2. TypeOK'
  BY <1>1 DEF Inv, TypeOK
<1>3. Lives' /\ Kinds' /\ Handlers' /\ DataThere'
  BY <1>1 DEF Inv, Lives, Kinds, Handlers, HandlerOk, DataThere, Ready, Writable, Read
<1>4. Copying' /\ Duplicating' /\ HandlerReady' /\ ThisenvOwn'
  BY <1>1 DEF Inv, Copying, Duplicating, Isolated, HandlerReady, ThisenvOwn, Writable, Read
<1>5. Isolated'
  BY <1>1 DEF Inv, Isolated, Writable
<1> QED BY <1>2, <1>3, <1>4, <1>5 DEF Inv

(* A program moves on, outside fork's loop.                                *)
LEMMA ForkKeeps ==
    ASSUME Inv, NEW e \in Env, Fork(e)
    PROVE  Inv'
<1>1. /\ status[e] = "RUNNABLE" /\ pc[e] = "user" /\ fault[e] = NULL
      /\ UNCHANGED <<status, upcall, pt, content, pn, cow, child, fault, panic>>
  BY DEF Fork, At, forkVars
<1>2. PICK l \in {"save_handler", "set_handler"} :
         pc' = [pc EXCEPT ![e] = l] /\ (l = "save_handler" => Read(e, "data").handler)
  BY DEF Fork, Goto
<1>3. pt[e]["data"] # NULL
  BY <1>1 DEF Inv, DataThere
<1>4. TypeOK'
  BY <1>1, <1>2 DEF Inv, TypeOK, Pcs, ForkPcs
<1>5. pc \in [Env -> Pcs]
  BY DEF Inv, TypeOK
<1>6. Lives'
  BY <1>1, <1>2, <1>5 DEF Inv, Lives, DupPcs
<1>7. Kinds' /\ Isolated'
  <2>1. \A g, f \in Env, va, u \in Va : Meant(g, va, f, u) => Meant(g, va, f, u)'
    BY <1>1, <1>2, <1>5 DEF Meant
  <2> QED BY <1>1, <2>1, SameTables
<1>8. Handlers'
  BY <1>1, <1>2, <1>3, <1>5 DEF Inv, Handlers, HandlerOk, ReadyPcs, DupPcs, Ready, Writable, Read
<1>9. DataThere' /\ ThisenvOwn' /\ HandlerReady'
  BY <1>1, <1>2, <1>5 DEF Inv, DataThere, ThisenvOwn, HandlerReady, Writable, Read
<1>10. Copying' /\ Duplicating'
  BY <1>1, <1>2, <1>5 DEF Inv, Copying, Duplicating, Read
<1> QED BY <1>4, <1>6, <1>7, <1>8, <1>9, <1>10 DEF Inv

(* set_pgfault_handler: the upcall comes after its stack.                  *)
LEMMA UpcallKeeps ==
    ASSUME Inv, NEW e \in Env, handler_upcall(e)
    PROVE  Inv'
<1>1. /\ status[e] = "RUNNABLE" /\ pc[e] = "set_upcall" /\ fault[e] = NULL
      /\ upcall' = [upcall EXCEPT ![e] = TRUE] /\ pc' = [pc EXCEPT ![e] = "save_handler"]
      /\ UNCHANGED <<status, pt, content, pn, cow, child, fault, panic>>
  BY DEF handler_upcall, At, Goto, forkVars
<1>2. pc \in [Env -> Pcs] /\ upcall \in [Env -> BOOLEAN]
  BY DEF Inv, TypeOK
<1>3. TypeOK'
  BY <1>1 DEF Inv, TypeOK, Pcs, ForkPcs
<1>4. Lives'
  BY <1>1, <1>2 DEF Inv, Lives, DupPcs
<1>5. Kinds' /\ Isolated'
  <2>1. \A g, f \in Env, va, u \in Va : Meant(g, va, f, u) => Meant(g, va, f, u)'
    BY <1>1, <1>2 DEF Meant
  <2> QED BY <1>1, <2>1, SameTables
<1>6. Copying' /\ Duplicating'
  BY <1>1, <1>2 DEF Inv, Copying, Duplicating, Read
<1>7. Handlers'
  <2>1. \A f \in Env : /\ Writable(f, "uxstack") => Writable(f, "uxstack")'
                       /\ Ready(f) => Ready(f)'
    BY <1>1, <1>2 DEF Ready, Writable
  <2>2. HandlerOk(e)'
    BY <1>1, <1>2 DEF Inv, Handlers, HandlerOk, Ready, Writable
  <2>3. ASSUME NEW g \in Env, g # e
        PROVE  HandlerOk(g)'
    BY <1>1, <1>2, <2>1, <2>3, HandlerKept DEF Read
  <2> QED BY <2>2, <2>3 DEF Handlers
<1>8. DataThere' /\ ThisenvOwn' /\ HandlerReady'
  BY <1>1, <1>2 DEF Inv, DataThere, ThisenvOwn, HandlerReady, Writable, Read
<1> QED BY <1>3, <1>4, <1>5, <1>6, <1>7, <1>8 DEF Inv

(* sys_exofork: a new environment, empty, that does not run.               *)
LEMMA ExoforkKeeps ==
    ASSUME Inv, NEW e \in Env, sys_exofork(e)
    PROVE  Inv'
<1>0. CASE _panic(e)
  BY <1>0, PanicKeeps
<1>1. CASE ~_panic(e)
  <2>1. /\ status[e] = "RUNNABLE" /\ pc[e] = "exofork" /\ fault[e] = NULL
        /\ UNCHANGED <<pt, content, cow, fault, panic>>
    BY <1>1 DEF sys_exofork, At
  <2>2. PICK f \in Env :
           /\ status[f] = "FREE" /\ status' = [status EXCEPT ![f] = "NOT_RUNNABLE"]
           /\ upcall' = [upcall EXCEPT ![f] = FALSE]
           /\ child' = [child EXCEPT ![e] = f] /\ pn' = [pn EXCEPT ![e] = 1]
           /\ pc' = [pc EXCEPT ![e] = "dup_read", ![f] = "child"]
    BY <1>1 DEF sys_exofork
  <2>3. /\ pc \in [Env -> Pcs] /\ upcall \in [Env -> BOOLEAN] /\ pn \in [Env -> 1..4]
        /\ status \in [Env -> {"FREE", "NOT_RUNNABLE", "RUNNABLE"}]
        /\ child \in [Env -> Env \cup {NULL}]
    BY LoopFacts DEF Inv, TypeOK
  <2>4. /\ f # e /\ pc[f] = "user" /\ child[e] = NULL /\ child[f] = NULL /\ fault[f] = NULL
        /\ \A va \in Va : pt[f][va] = NULL
    BY <2>1, <2>2, <2>3 DEF Inv, Lives, DupPcs
  <2>5. \A g \in Env : child[g] # f
    BY <2>2, <2>3, Nulls DEF Inv, Lives
  <2>6. TypeOK'
    <3>1. pc' \in [Env -> Pcs]
      BY <2>2, <2>3 DEF Pcs, ForkPcs
    <3>2. pn' \in [Env -> 1..Len(Loop)]
      BY <2>2, <2>3, LoopFacts
    <3> QED BY <2>1, <2>2, <2>3, <3>1, <3>2 DEF Inv, TypeOK
  <2>7. Lives'
    BY <2>1, <2>2, <2>3, <2>4, <2>5, Nulls DEF Inv, Lives, DupPcs
  <2>8. Kinds' /\ Isolated'
    <3>1. \A g, h \in Env, va, u \in Va : Meant(g, va, h, u) => Meant(g, va, h, u)'
      BY <2>1, <2>2, <2>3, <2>4 DEF Meant
    <3> QED BY <2>1, <3>1, SameTables
  <2>9. Copying' /\ Duplicating'
    BY <2>1, <2>2, <2>3, <2>4 DEF Inv, Copying, Duplicating, Read
  <2>10. Handlers'
    <3>1. \A x \in Env : status[x] # "FREE" =>
             /\ Writable(x, "uxstack") => Writable(x, "uxstack")'
             /\ Ready(x) => Ready(x)'
      BY <2>1, <2>2, <2>3 DEF Ready, Writable
    <3>2. HandlerOk(f)'
      BY <2>2, <2>3, <2>4 DEF HandlerOk, ReadyPcs, DupPcs
    <3>3. HandlerOk(e)'
      <4>1. Ready(e)
        BY <2>1 DEF Inv, Handlers, HandlerOk, ReadyPcs
      <4> QED BY <2>1, <2>2, <2>3, <2>4, <3>1, <4>1 DEF HandlerOk
    <3>4. ASSUME NEW g \in Env, g # e, g # f
          PROVE  HandlerOk(g)'
      BY <2>1, <2>2, <2>3, <3>1, <3>4, HandlerKept DEF Read
    <3> QED BY <3>2, <3>3, <3>4 DEF Handlers
  <2>11. DataThere' /\ ThisenvOwn' /\ HandlerReady'
    BY <2>1, <2>2, <2>3, <2>4 DEF Inv, DataThere, ThisenvOwn, HandlerReady, Writable, Read
  <2> QED BY <2>6, <2>7, <2>8, <2>9, <2>10, <2>11 DEF Inv
<1> QED BY <1>0, <1>1

(* The next page of fork's loop, or its end.                               *)
LEMMA NextPageEffect ==
    ASSUME TypeOK, NEW e \in Env, NextPage(e)
    PROVE  \E l \in {"alloc_ux", "dup_read"}, k \in 1..4 :
              pc' = [pc EXCEPT ![e] = l] /\ pn' = [pn EXCEPT ![e] = k]
<1>1. pn \in [Env -> 1..4] /\ pn[e] \in 1..4
  BY LoopFacts DEF TypeOK
<1>2. CASE pn[e] = 4
  BY <1>1, <1>2, LoopFacts DEF NextPage, Goto
<1>3. CASE pn[e] # 4
  <2>1. pn[e] + 1 \in 1..4
    BY <1>1, <1>3
  <2> QED BY <1>1, <1>3, <2>1, LoopFacts DEF NextPage, Goto
<1> QED BY <1>2, <1>3

(* fork looks at a page: what it finds stays true until duppage is done.   *)
LEMMA DupReadKeeps ==
    ASSUME Inv, NEW e \in Env, dup_read(e)
    PROVE  Inv'
<1>1. /\ status[e] = "RUNNABLE" /\ pc[e] = "dup_read" /\ fault[e] = NULL
      /\ UNCHANGED <<status, upcall, pt, content, child, fault, panic>>
  BY DEF dup_read, At
<1>2. /\ pc \in [Env -> Pcs] /\ pn \in [Env -> 1..4] /\ cow \in [Env -> BOOLEAN]
      /\ pt \in PageTables
  BY LoopFacts DEF Inv, TypeOK, PageTables
<1>3. PICK l \in {"alloc_ux", "dup_read", "dup_child"}, k \in 1..4, c \in BOOLEAN :
         /\ pc' = [pc EXCEPT ![e] = l] /\ pn' = [pn EXCEPT ![e] = k]
         /\ cow' = [cow EXCEPT ![e] = c]
         /\ l = "dup_child" => /\ k = pn[e] /\ pt[e][Loop[k]] # NULL
                               /\ c <=> pt[e][Loop[k]].perm \in {"w", "cow"}
  <2>1. CASE pt[e][Loop[pn[e]]] = NULL
    <3>1. NextPage(e) /\ cow' = [cow EXCEPT ![e] = cow[e]] /\ cow[e] \in BOOLEAN
      BY <1>2, <2>1 DEF dup_read
    <3>2. PICK l \in {"alloc_ux", "dup_read"}, k \in 1..4 :
             pc' = [pc EXCEPT ![e] = l] /\ pn' = [pn EXCEPT ![e] = k]
      BY <3>1, NextPageEffect DEF Inv
    <3>3. l # "dup_child" /\ l \in {"alloc_ux", "dup_read", "dup_child"}
      OBVIOUS
    <3> QED BY <3>1, <3>2, <3>3, Zenon
  <2>2. CASE pt[e][Loop[pn[e]]] # NULL
    <3> DEFINE l == "dup_child"
               k == pn[e]
               c == pt[e][Loop[k]].perm \in {"w", "cow"}
    <3>1. l \in {"alloc_ux", "dup_read", "dup_child"} /\ k \in 1..4 /\ c \in BOOLEAN
      BY <1>2
    <3>2. /\ pc' = [pc EXCEPT ![e] = l] /\ pn' = [pn EXCEPT ![e] = k]
          /\ cow' = [cow EXCEPT ![e] = c]
      BY <1>2, <2>2 DEF dup_read, Goto
    <3>3. k = pn[e] /\ pt[e][Loop[k]] # NULL /\ (c <=> pt[e][Loop[k]].perm \in {"w", "cow"})
      BY <2>2
    <3> HIDE DEF l, k, c
    <3> QED BY <3>1, <3>2, <3>3, Zenon
  <2> QED BY <2>1, <2>2
<1>4. TypeOK'
  BY <1>1, <1>2, <1>3, LoopFacts DEF Inv, TypeOK, Pcs, ForkPcs
<1>5. Lives'
  BY <1>1, <1>2, <1>3 DEF Inv, Lives, DupPcs
<1>6. Kinds' /\ Isolated'
  <2>1. \A g, f \in Env, va, u \in Va : Meant(g, va, f, u) => Meant(g, va, f, u)'
    BY <1>1, <1>2, <1>3 DEF Meant
  <2> QED BY <1>1, <2>1, SameTables
<1>7. Copying'
  BY <1>1 DEF Inv, Copying, Read
<1>8. Duplicating'
  <2>1. ASSUME l = "dup_child"
        PROVE  Loop[k] \in UserVa /\ (c <=> Loop[k] \in CowVa)
    <3>1. Loop[k] # "pftemp"
      BY <1>1, <1>3, <2>1 DEF Inv, Copying
    <3>2. Loop[k] \in UserVa
      BY <3>1, LoopFacts DEF UserVa
    <3>3. Loop[k] \in Va /\ pt[e][Loop[k]] # NULL
      BY <1>3, <2>1, LoopFacts
    <3>4. pt[e][Loop[k]].perm \in {"w", "cow"} <=> Loop[k] \in CowVa
      BY <3>2, <3>3 DEF Inv, Kinds, CowVa, UserVa
    <3> QED BY <1>3, <2>1, <3>2, <3>4
  <2> QED BY <1>1, <1>2, <1>3, <2>1 DEF Inv, Duplicating
<1>9. Handlers'
  <2>1. \A f \in Env : /\ Writable(f, "uxstack") => Writable(f, "uxstack")'
                       /\ Ready(f) => Ready(f)'
    BY <1>1 DEF Ready, Writable
  <2>2. HandlerOk(e)'
    BY <1>1, <1>2, <1>3, <2>1 DEF Inv, Handlers, HandlerOk, ReadyPcs, DupPcs
  <2>3. ASSUME NEW g \in Env, g # e
        PROVE  HandlerOk(g)'
    BY <1>1, <1>2, <1>3, <2>1, <2>3, HandlerKept DEF Read
  <2> QED BY <2>2, <2>3 DEF Handlers
<1>10. DataThere' /\ ThisenvOwn' /\ HandlerReady'
  BY <1>1, <1>2, <1>3 DEF Inv, DataThere, ThisenvOwn, HandlerReady, Writable, Read
<1> QED BY <1>4, <1>5, <1>6, <1>7, <1>8, <1>9, <1>10 DEF Inv

(* fork gives the child its upcall: thisenv is the parent, whose upcall is *)
(* set.                                                                    *)
LEMMA ChildUpcallKeeps ==
    ASSUME Inv, NEW e \in Env, child_upcall(e)
    PROVE  Inv'
<1>1. /\ status[e] = "RUNNABLE" /\ pc[e] = "child_upcall" /\ fault[e] = NULL
      /\ pc' = [pc EXCEPT ![e] = "wake"]
      /\ UNCHANGED <<status, pt, content, pn, cow, child, fault, panic>>
  BY DEF child_upcall, At, Goto, forkVars
<1>2. pc \in [Env -> Pcs] /\ upcall \in [Env -> BOOLEAN]
  BY DEF Inv, TypeOK
<1>3. Ready(e) /\ Writable(child[e], "uxstack") /\ child[e] \in Env /\ child[e] # e
  BY <1>1, ChildThere DEF Inv, Handlers, HandlerOk, ReadyPcs, DupPcs
<1>4. upcall' = [upcall EXCEPT ![child[e]] = TRUE]
  <2>1. Read(e, "data").thisenv = e
    BY <1>1 DEF Inv, ThisenvOwn
  <2> QED BY <1>2, <1>3, <2>1 DEF child_upcall, Ready
<1>5. TypeOK'
  BY <1>1, <1>2, <1>4 DEF Inv, TypeOK, Pcs, ForkPcs
<1>6. Lives'
  BY <1>1, <1>2 DEF Inv, Lives, DupPcs
<1>7. Kinds' /\ Isolated'
  <2>1. \A g, f \in Env, va, u \in Va : Meant(g, va, f, u) => Meant(g, va, f, u)'
    BY <1>1, <1>2 DEF Meant
  <2> QED BY <1>1, <2>1, SameTables
<1>8. Copying' /\ Duplicating'
  BY <1>1, <1>2 DEF Inv, Copying, Duplicating, Read
<1>9. Handlers'
  <2>1. \A f \in Env : /\ Writable(f, "uxstack") => Writable(f, "uxstack")'
                       /\ Ready(f) => Ready(f)'
    BY <1>1, <1>2, <1>4 DEF Ready, Writable
  <2>2. HandlerOk(e)'
    BY <1>1, <1>2, <1>3, <1>4, <2>1 DEF HandlerOk, Ready, Writable
  <2>3. ASSUME NEW g \in Env, g # e
        PROVE  HandlerOk(g)'
    BY <1>1, <1>2, <2>1, <2>3, HandlerKept DEF Read
  <2> QED BY <2>2, <2>3 DEF Handlers
<1>10. DataThere' /\ ThisenvOwn'
  BY <1>1, <1>2 DEF Inv, DataThere, ThisenvOwn, Read
<1>11. HandlerReady'
  BY <1>1, <1>2, <1>4 DEF Inv, HandlerReady, Writable
<1> QED BY <1>5, <1>6, <1>7, <1>8, <1>9, <1>10, <1>11 DEF Inv

(* fork wakes the child: its handler is ready by now.                      *)
LEMMA WakeKeeps ==
    ASSUME Inv, NEW e \in Env, wake(e)
    PROVE  Inv'
<1>1. /\ status[e] = "RUNNABLE" /\ pc[e] = "wake" /\ fault[e] = NULL
      /\ status' = [status EXCEPT ![child[e]] = "RUNNABLE"] /\ pc' = [pc EXCEPT ![e] = "user"]
      /\ child' = [child EXCEPT ![e] = NULL] /\ pn' = [pn EXCEPT ![e] = 1]
      /\ cow' = [cow EXCEPT ![e] = FALSE]
      /\ UNCHANGED <<upcall, pt, content, fault, panic>>
  BY DEF wake, At, Goto
<1>2. /\ pc \in [Env -> Pcs] /\ status \in [Env -> {"FREE", "NOT_RUNNABLE", "RUNNABLE"}]
      /\ pn \in [Env -> 1..4] /\ cow \in [Env -> BOOLEAN] /\ child \in [Env -> Env \cup {NULL}]
  BY LoopFacts DEF Inv, TypeOK
<1>3. PICK c \in Env : c = child[e]
  BY <1>1, ChildThere
<1>4. /\ status[c] = "NOT_RUNNABLE" /\ pc[c] = "child" /\ fault[c] = NULL /\ c # e /\ Ready(c)
      /\ \A f \in Env : f # e => child[f] # c
  BY <1>1, <1>3, ChildThere, Nulls DEF Inv, Lives, DupPcs, Handlers, HandlerOk
<1>5. TypeOK'
  <2>1. pc' \in [Env -> Pcs] /\ pn' \in [Env -> 1..Len(Loop)]
    BY <1>1, <1>2, LoopFacts DEF Pcs
  <2> QED BY <1>1, <1>2, <1>3, <2>1 DEF Inv, TypeOK
<1>6. Lives'
  BY <1>1, <1>2, <1>3, <1>4, Nulls DEF Inv, Lives, DupPcs
<1>7. Kinds' /\ Isolated'
  <2>1. \A g, f \in Env, va, u \in Va : Meant(g, va, f, u) => Meant(g, va, f, u)'
    BY <1>1, <1>2 DEF Meant
  <2> QED BY <1>1, <2>1, SameTables
<1>8. Copying' /\ Duplicating'
  BY <1>1, <1>2 DEF Inv, Copying, Duplicating, Read
<1>9. Handlers'
  <2>1. \A f \in Env : /\ Writable(f, "uxstack") => Writable(f, "uxstack")'
                       /\ Ready(f) => Ready(f)'
    BY <1>1 DEF Ready, Writable
  <2>2. HandlerOk(e)'
    BY <1>1, <1>2, <1>3, <1>4, <2>1 DEF Inv, Handlers, HandlerOk, ReadyPcs, DupPcs
  <2>3. HandlerOk(c)'
    BY <1>1, <1>2, <1>3, <1>4, <2>1 DEF Inv, HandlerOk
  <2>4. ASSUME NEW g \in Env, g # e, g # c
        PROVE  HandlerOk(g)'
    BY <1>1, <1>2, <1>3, <2>1, <2>4, HandlerKept DEF Read
  <2> QED BY <2>2, <2>3, <2>4 DEF Handlers
<1>10. DataThere' /\ ThisenvOwn' /\ HandlerReady'
  BY <1>1, <1>2, <1>3, <1>4 DEF Inv, DataThere, ThisenvOwn, HandlerReady, Ready, Writable, Read
<1> QED BY <1>5, <1>6, <1>7, <1>8, <1>9, <1>10 DEF Inv

-----------------------------------------------------------------------------
(* Page faults, and the end of an environment *)

(* An environment that is not in the middle of a fork ends.                *)
LEMMA EndKeeps ==
    ASSUME Inv, NEW e \in Env, status[e] = "RUNNABLE", fault[e] = NULL, pc[e] \notin DupPcs,
           status' = [status EXCEPT ![e] = "FREE"], pc' = [pc EXCEPT ![e] = "user"],
           SetPt([pt EXCEPT ![e] = Gone(e)], content),
           UNCHANGED <<upcall, forkVars, fault, panic>>
    PROVE  Inv'
<1>1. /\ pc \in [Env -> Pcs] /\ status \in [Env -> {"FREE", "NOT_RUNNABLE", "RUNNABLE"}]
      /\ child[e] = NULL /\ UNCHANGED <<pn, cow, child>>
  BY DEF Inv, TypeOK, forkVars, Lives
<1>2. /\ pt' \in PageTables /\ content' \in [Frame -> Content]
      /\ \A va \in Va : pt'[e][va] = NULL
      /\ \A f \in Env : f # e => pt'[f] = pt[f]
      /\ \A f \in Env, u \in Va : pt[f][u] # NULL /\ f # e => Read(f, u)' = Read(f, u)
  BY GoneEffect DEF Inv
<1>3. \A f \in Env : child[f] # e
  BY Nulls, SMTT(20) DEF Inv, Lives, TypeOK
<1>4. {"data", "pftemp", "uxstack"} \subseteq Va /\ CowVa \subseteq Va
  BY DEF Va, UserVa, CowVa
<1>5. TypeOK'
  BY <1>1, <1>2 DEF Inv, TypeOK, PageTables, Pcs
<1>6. Lives'
  BY <1>1, <1>2, <1>3, Nulls DEF Inv, Lives, DupPcs
<1>7. Kinds'
  BY <1>2 DEF Inv, Kinds
<1>8. Copying'
  <2>1. ASSUME NEW g \in Env, g # e, fault[g] # NULL
        PROVE  /\ fault[g].at = "map" => Read(g, "pftemp")' = Read(g, "pftemp")
               /\ Read(g, fault[g].va)' = Read(g, fault[g].va)
    BY <1>2, <1>4, <2>1 DEF Inv, Copying
  <2> QED BY <1>2, <1>4, <2>1 DEF Inv, Copying, Read
<1>9. Duplicating'
  <2>1. \A g \in Env : pc'[g] \in {"dup_child", "dup_self"} => g # e /\ pc'[g] = pc[g]
    BY <1>1
  <2> QED BY <1>1, <1>2, <2>1 DEF Inv, Duplicating
<1>10. Handlers'
  <2>1. \A g \in Env : g # e => /\ Writable(g, "uxstack") => Writable(g, "uxstack")'
                                /\ Ready(g) => Ready(g)'
    BY <1>1, <1>2 DEF Writable, Ready
  <2>2. HandlerOk(e)'
    BY <1>1 DEF HandlerOk, ReadyPcs, DupPcs
  <2>3. ASSUME NEW g \in Env, g # e
        PROVE  HandlerOk(g)'
    <3>1. HandlerOk(g)
      BY DEF Inv, Handlers
    <3>2. /\ pc'[g] = pc[g] /\ status'[g] = status[g] /\ child'[g] = child[g] /\ pt'[g] = pt[g]
          /\ pt[g]["data"] # NULL => Read(g, "data")' = Read(g, "data")
      BY <1>1, <1>2, <1>4, <2>3
    <3>3. /\ pc'[g] = "child_upcall" => Writable(child[g], "uxstack")'
          /\ pc'[g] = "wake" => Ready(child[g])'
      BY <1>1, <1>3, <2>1, <3>1, <3>2, ChildThere DEF HandlerOk, Ready, Writable
    <3> QED BY <2>1, <2>3, <3>1, <3>2, <3>3 DEF HandlerOk
  <2> QED BY <2>2, <2>3 DEF Handlers
<1>11. DataThere' /\ ThisenvOwn'
  BY <1>1, <1>2, <1>4 DEF Inv, DataThere, ThisenvOwn
<1>12. HandlerReady'
  BY <1>1, <1>2, <1>4 DEF Inv, HandlerReady, Writable
<1>13. Isolated'
  <2>1. ASSUME NEW g \in Env, NEW f \in Env, NEW va \in Va, NEW u \in Va, Shares(g, va, f, u)'
        PROVE  Meant(g, va, f, u)'
    <3>1. g # e /\ f # e
      BY <1>2, <2>1 DEF Shares, Writable
    <3>2. Shares(g, va, f, u)
      BY <1>2, <2>1, <3>1 DEF Shares, Writable
    <3>3. Meant(g, va, f, u)
      BY <3>2, UseIsolated DEF Inv
    <3> QED BY <1>1, <3>1, <3>3 DEF Meant
  <2> QED BY <2>1, ShowIsolated
<1> QED BY <1>5, <1>6, <1>7, <1>8, <1>9, <1>10, <1>11, <1>12, <1>13 DEF Inv

(* exit.                                                                   *)
LEMMA ExitKeeps ==
    ASSUME Inv, NEW e \in Env, exit(e)
    PROVE  Inv'
<1>1. pc[e] = "user" /\ pc' = pc /\ pc \in [Env -> Pcs]
  BY DEF exit, At, Inv, TypeOK
<1>2. pc' = [pc EXCEPT ![e] = "user"] /\ pc[e] \notin DupPcs
  BY <1>1 DEF DupPcs
<1> QED BY <1>2, EndKeeps DEF exit, At

(* page_fault_handler enters pgfault; or destroys e, which is not in the   *)
(* middle of a fork then, since fork begins with a handler that is ready.  *)
LEMMA FaultKeeps ==
    ASSUME Inv, NEW e \in Env, NEW va \in CowVa, status[e] = "RUNNABLE", fault[e] = NULL,
           page_fault_handler(e, va)
    PROVE  Inv'
<1>1. CASE Ready(e) /\ pt[e][va] # NULL /\ pt[e][va].perm = "cow"
  <2>1. /\ fault' = [fault EXCEPT ![e] = [at |-> "alloc", va |-> va]]
        /\ UNCHANGED <<status, upcall, pt, content, pc, pn, cow, child, panic>>
    BY <1>1 DEF page_fault_handler, Ready, forkVars
  <2> DEFINE x == [at |-> "alloc", va |-> va]
  <2>2. /\ x \in [at : FaultPcs, va : UserVa] /\ x # NULL /\ x.at = "alloc" /\ x.va = va
        /\ fault \in [Env -> [at : FaultPcs, va : UserVa] \cup {NULL}] /\ va \in Va
    BY Nulls DEF FaultPcs, UserVa, CowVa, Inv, TypeOK, Va
  <2>3. fault' = [fault EXCEPT ![e] = x]
    BY <2>1
  <2> HIDE DEF x
  <2>4. TypeOK'
    BY <2>1, <2>2, <2>3 DEF Inv, TypeOK
  <2>5. Lives' /\ Duplicating'
    BY <2>1, <2>2, <2>3 DEF Inv, Lives, Duplicating
  <2>6. Kinds' /\ Isolated'
    <3>1. \A g, f \in Env, v, u \in Va : Meant(g, v, f, u) => Meant(g, v, f, u)'
      BY <2>1, <2>2, <2>3 DEF Meant
    <3> QED BY <2>1, <3>1, SameTables
  <2>7. Copying'
    BY <1>1, <2>1, <2>2, <2>3 DEF Inv, Copying, Read
  <2>8. Handlers'
    <3>1. \A f \in Env : /\ Writable(f, "uxstack") => Writable(f, "uxstack")'
                         /\ Ready(f) => Ready(f)'
      BY <2>1 DEF Ready, Writable
    <3>2. ASSUME NEW g \in Env
          PROVE  HandlerOk(g)'
      BY <2>1, <3>1, HandlerKept DEF Read
    <3> QED BY <3>2 DEF Handlers
  <2>9. DataThere' /\ ThisenvOwn' /\ HandlerReady'
    BY <2>1 DEF Inv, DataThere, ThisenvOwn, HandlerReady, Writable, Read
  <2> QED BY <2>4, <2>5, <2>6, <2>7, <2>8, <2>9 DEF Inv
<1>2. CASE Ready(e) /\ ~(pt[e][va] # NULL /\ pt[e][va].perm = "cow")
  <2>1. _panic(e)
    BY <1>2 DEF page_fault_handler, Ready
  <2> QED BY <2>1, PanicKeeps
<1>3. CASE ~Ready(e)
  <2>1. pc[e] \notin DupPcs
    BY <1>3 DEF Inv, Handlers, HandlerOk, ReadyPcs
  <2> QED BY <1>3, <2>1, EndKeeps DEF page_fault_handler, Ready, Goto
<1> QED BY <1>1, <1>2, <1>3

-----------------------------------------------------------------------------
(* Steps that write memory *)

(* What a program writes is read back by it at that address, and by no     *)
(* program that runs anywhere else.                                        *)
LEMMA StoreEffect ==
    ASSUME Inv, NEW e \in Env, NEW va \in Va, NEW c \in Content, status[e] = "RUNNABLE",
           fault[e] # NULL => fault[e].at # "unmap", Store(e, va, c), pt' = pt
    PROVE  /\ content' \in [Frame -> Content] /\ Read(e, va)' = c
           /\ \A f \in Env, u \in Va :
                 status[f] = "RUNNABLE" /\ pt[f][u] # NULL /\ (f # e \/ u # va) =>
                    Read(f, u)' = Read(f, u)
<1> DEFINE x == pt[e][va]
<1>1. content \in [Frame -> Content] /\ x \in Pte /\ x # NULL
  BY DEF Inv, TypeOK, Store, Writable
<1>2. x.frame \in Frame
  BY <1>1, Nulls
<1>3. content' = [content EXCEPT ![x.frame] = c]
  BY DEF Store
<1>4. ASSUME NEW f \in Env, NEW u \in Va, status[f] = "RUNNABLE", pt[f][u] # NULL, f # e \/ u # va
      PROVE  Read(f, u)' = Read(f, u)
  <2>1. pt[f][u].frame \in Frame
    BY <1>4, Nulls DEF Inv, TypeOK
  <2>2. pt[f][u].frame # x.frame
    <3>1. ASSUME pt[f][u].frame = x.frame
          PROVE  FALSE
      <4>1. Shares(e, va, f, u)
        BY <1>4, <3>1 DEF Shares, Store
      <4>2. Meant(e, va, f, u)
        BY <4>1, UseIsolated DEF Inv
      <4>3. pc[e] = "dup_self" => status[child[e]] = "NOT_RUNNABLE"
        BY ChildThere DEF DupPcs
      <4> QED BY <1>4, <4>2, <4>3 DEF Meant
    <3> QED BY <3>1
  <2> QED BY <1>1, <1>2, <1>3, <2>1, <2>2 DEF Read
<1>5. content' \in [Frame -> Content] /\ Read(e, va)' = c
  BY <1>1, <1>2, <1>3 DEF Read
<1> QED BY <1>4, <1>5

(* A page's contents, with one of its variables written.                   *)
LEMMA Written ==
    ASSUME Inv, NEW e \in Env, NEW va \in Va, pt[e][va] # NULL
    PROVE  /\ Read(e, va) \in Content
           /\ [Read(e, va) EXCEPT !.writer = e] \in Content
           /\ [Read(e, va) EXCEPT !.handler = TRUE] \in Content
           /\ [Read(e, va) EXCEPT !.handler = TRUE].thisenv = Read(e, va).thisenv
           /\ [Read(e, va) EXCEPT !.thisenv = e] \in Content
           /\ [Read(e, va) EXCEPT !.thisenv = e].thisenv = e
<1>1. pt[e][va].frame \in Frame /\ content \in [Frame -> Content]
  BY Nulls DEF Inv, TypeOK
<1>2. Read(e, va) \in Content
  BY <1>1 DEF Read
<1>3. e \in 0..NENV
  BY CowForkAssumption DEF Env
<1> QED BY <1>2, <1>3 DEF Content

(* pgfault's program runs, and what it copies is mapped.                   *)
LEMMA CopySource ==
    ASSUME Inv, NEW g \in Env, fault[g] # NULL
    PROVE  /\ status[g] = "RUNNABLE" /\ fault[g].va \in CowVa /\ pt[g][fault[g].va] # NULL
           /\ fault[g].at # "alloc" => pt[g]["pftemp"] # NULL
  BY DEF Inv, Copying, Lives

(* The stack is written.                                                   *)
LEMMA StackKeeps ==
    ASSUME Inv, NEW e \in Env, StackWrite(e)
    PROVE  Inv'
<1>1. status[e] = "RUNNABLE" /\ fault[e] = NULL
  BY DEF StackWrite, At
<1>2. CASE page_fault_handler(e, "stack")
  <2>1. "stack" \in CowVa
    BY DEF CowVa
  <2> QED BY <1>1, <1>2, <2>1, FaultKeeps
<1>3. CASE ~page_fault_handler(e, "stack")
  <2> DEFINE c == [Read(e, "stack") EXCEPT !.writer = e]
  <2>1. /\ Store(e, "stack", c)
        /\ UNCHANGED <<status, upcall, pt, pc, pn, cow, child, fault, panic>>
    BY <1>3 DEF StackWrite, forkVars
  <2>2. {"stack", "data"} \subseteq Va /\ CowVa \subseteq Va /\ "pftemp" \in Va
    BY DEF Va, UserVa, CowVa
  <2>3. pt[e]["stack"] # NULL
    BY <2>1 DEF Store, Writable
  <2>4. c \in Content
    BY <2>2, <2>3, Written
  <2> HIDE DEF c
  <2>5. /\ content' \in [Frame -> Content]
        /\ \A f \in Env, u \in Va :
              status[f] = "RUNNABLE" /\ pt[f][u] # NULL /\ (f # e \/ u # "stack") =>
                 Read(f, u)' = Read(f, u)
    BY <1>1, <2>1, <2>2, <2>4, StoreEffect
  <2>6. TypeOK'
    BY <2>1, <2>5 DEF Inv, TypeOK
  <2>7. Lives' /\ Duplicating' /\ DataThere'
    BY <2>1 DEF Inv, Lives, Duplicating, DataThere
  <2>8. Kinds' /\ Isolated'
    <3>1. \A g, f \in Env, va, u \in Va : Meant(g, va, f, u) => Meant(g, va, f, u)'
      BY <2>1 DEF Meant
    <3> QED BY <2>1, <3>1, SameTables
  <2>9. Copying'
    <3>1. ASSUME NEW g \in Env, fault[g] # NULL, fault[g].at = "map"
          PROVE  /\ Read(g, "pftemp")' = Read(g, "pftemp")
                 /\ \A u \in CowVa : u = fault[g].va => Read(g, u)' = Read(g, u)
      BY <1>1, <2>2, <2>5, <3>1, CopySource
    <3> QED BY <2>1, <3>1 DEF Inv, Copying, Read
  <2>10. Handlers'
    <3>1. \A f \in Env : /\ Writable(f, "uxstack") => Writable(f, "uxstack")'
                         /\ Ready(f) => Ready(f)'
      BY <2>1 DEF Ready, Writable
    <3>2. ASSUME NEW g \in Env
          PROVE  HandlerOk(g)'
      BY <2>1, <2>2, <2>5, <3>1, HandlerKept
    <3> QED BY <3>2 DEF Handlers
  <2>11. ThisenvOwn'
    BY <2>1, <2>2, <2>5 DEF Inv, DataThere, ThisenvOwn
  <2>12. HandlerReady'
    BY <2>1 DEF Inv, HandlerReady, Writable
  <2> QED BY <2>6, <2>7, <2>8, <2>9, <2>10, <2>11, <2>12 DEF Inv
<1> QED BY <1>2, <1>3

(* set_pgfault_handler writes _pgfault_handler, once the handler is ready. *)
LEMMA SaveKeeps ==
    ASSUME Inv, NEW e \in Env, handler_save(e)
    PROVE  Inv'
<1>1. status[e] = "RUNNABLE" /\ fault[e] = NULL /\ pc[e] = "save_handler"
  BY DEF handler_save, At
<1>2. CASE page_fault_handler(e, "data")
  <2>1. "data" \in CowVa
    BY DEF CowVa
  <2> QED BY <1>1, <1>2, <2>1, FaultKeeps
<1>3. CASE ~page_fault_handler(e, "data")
  <2> DEFINE c == [Read(e, "data") EXCEPT !.handler = TRUE]
  <2>1. /\ Store(e, "data", c) /\ pc' = [pc EXCEPT ![e] = "exofork"]
        /\ UNCHANGED <<status, upcall, pt, pn, cow, child, fault, panic>>
    BY <1>3 DEF handler_save, forkVars, Goto
  <2>2. {"stack", "data"} \subseteq Va /\ CowVa \subseteq Va /\ "pftemp" \in Va
    BY DEF Va, UserVa, CowVa
  <2>3. pt[e]["data"] # NULL /\ pc \in [Env -> Pcs]
    BY <2>1 DEF Store, Writable, Inv, TypeOK
  <2>4. c \in Content /\ c.thisenv = Read(e, "data").thisenv
    BY <2>2, <2>3, Written
  <2> HIDE DEF c
  <2>5. /\ content' \in [Frame -> Content] /\ Read(e, "data")' = c
        /\ \A f \in Env, u \in Va :
              status[f] = "RUNNABLE" /\ pt[f][u] # NULL /\ (f # e \/ u # "data") =>
                 Read(f, u)' = Read(f, u)
    BY <1>1, <2>1, <2>2, <2>4, StoreEffect
  <2>6. TypeOK'
    BY <2>1, <2>5 DEF Inv, TypeOK, Pcs, ForkPcs
  <2>7. Lives' /\ Duplicating' /\ DataThere'
    BY <1>1, <2>1, <2>3 DEF Inv, Lives, Duplicating, DataThere, DupPcs
  <2>8. Kinds' /\ Isolated'
    <3>1. \A g, f \in Env, va, u \in Va : Meant(g, va, f, u) => Meant(g, va, f, u)'
      BY <1>1, <2>1, <2>3 DEF Meant
    <3> QED BY <2>1, <3>1, SameTables
  <2>9. Copying'
    <3>1. ASSUME NEW g \in Env, fault[g] # NULL, fault[g].at = "map"
          PROVE  /\ Read(g, "pftemp")' = Read(g, "pftemp")
                 /\ \A u \in CowVa : u = fault[g].va => Read(g, u)' = Read(g, u)
      BY <1>1, <2>2, <2>5, <3>1, CopySource
    <3> QED BY <2>1, <3>1 DEF Inv, Copying, Read
  <2>10. Handlers'
    <3>1. \A f \in Env : /\ Writable(f, "uxstack") => Writable(f, "uxstack")'
                         /\ Ready(f) => Ready(f)'
      BY <2>1 DEF Ready, Writable
    <3>2. HandlerOk(e)'
      BY <1>1, <2>1, <2>3, <3>1 DEF Inv, Handlers, HandlerOk, ReadyPcs
    <3>3. ASSUME NEW g \in Env, g # e
          PROVE  HandlerOk(g)'
      BY <2>1, <2>2, <2>3, <2>5, <3>1, <3>3, HandlerKept
    <3> QED BY <3>2, <3>3 DEF Handlers
  <2>11. ThisenvOwn'
    BY <1>1, <2>1, <2>2, <2>3, <2>4, <2>5 DEF Inv, DataThere, ThisenvOwn
  <2>12. HandlerReady'
    BY <2>1 DEF Inv, HandlerReady, Writable
  <2> QED BY <2>6, <2>7, <2>8, <2>9, <2>10, <2>11, <2>12 DEF Inv
<1> QED BY <1>2, <1>3

(* The child finds out who it is; until then its handler had to be ready.  *)
LEMMA ChildStartKeeps ==
    ASSUME Inv, NEW e \in Env, child_start(e)
    PROVE  Inv'
<1>1. status[e] = "RUNNABLE" /\ fault[e] = NULL /\ pc[e] = "child"
  BY DEF child_start, At
<1>2. CASE page_fault_handler(e, "data")
  <2>1. "data" \in CowVa
    BY DEF CowVa
  <2> QED BY <1>1, <1>2, <2>1, FaultKeeps
<1>3. CASE ~page_fault_handler(e, "data")
  <2> DEFINE c == [Read(e, "data") EXCEPT !.thisenv = e]
  <2>1. /\ Store(e, "data", c) /\ pc' = [pc EXCEPT ![e] = "user"]
        /\ UNCHANGED <<status, upcall, pt, pn, cow, child, fault, panic>>
    BY <1>3 DEF child_start, forkVars, Goto
  <2>2. {"stack", "data"} \subseteq Va /\ CowVa \subseteq Va /\ "pftemp" \in Va
    BY DEF Va, UserVa, CowVa
  <2>3. pt[e]["data"] # NULL /\ pc \in [Env -> Pcs]
    BY <2>1 DEF Store, Writable, Inv, TypeOK
  <2>4. c \in Content /\ c.thisenv = e
    BY <2>2, <2>3, Written
  <2> HIDE DEF c
  <2>5. /\ content' \in [Frame -> Content] /\ Read(e, "data")' = c
        /\ \A f \in Env, u \in Va :
              status[f] = "RUNNABLE" /\ pt[f][u] # NULL /\ (f # e \/ u # "data") =>
                 Read(f, u)' = Read(f, u)
    BY <1>1, <2>1, <2>2, <2>4, StoreEffect
  <2>6. TypeOK'
    BY <2>1, <2>5 DEF Inv, TypeOK, Pcs, ForkPcs
  <2>7. Lives' /\ Duplicating' /\ DataThere'
    BY <1>1, <2>1, <2>3 DEF Inv, Lives, Duplicating, DataThere, DupPcs
  <2>8. Kinds' /\ Isolated'
    <3>1. \A g, f \in Env, va, u \in Va : Meant(g, va, f, u) => Meant(g, va, f, u)'
      BY <1>1, <2>1, <2>3 DEF Meant
    <3> QED BY <2>1, <3>1, SameTables
  <2>9. Copying'
    <3>1. ASSUME NEW g \in Env, fault[g] # NULL, fault[g].at = "map"
          PROVE  /\ Read(g, "pftemp")' = Read(g, "pftemp")
                 /\ \A u \in CowVa : u = fault[g].va => Read(g, u)' = Read(g, u)
      BY <1>1, <2>2, <2>5, <3>1, CopySource
    <3> QED BY <2>1, <3>1 DEF Inv, Copying, Read
  <2>10. Handlers'
    <3>1. \A f \in Env : /\ Writable(f, "uxstack") => Writable(f, "uxstack")'
                         /\ Ready(f) => Ready(f)'
      BY <2>1 DEF Ready, Writable
    <3>2. HandlerOk(e)'
      BY <1>1, <2>1, <2>3, <3>1 DEF Inv, Handlers, HandlerOk
    <3>3. ASSUME NEW g \in Env, g # e
          PROVE  HandlerOk(g)'
      BY <2>1, <2>2, <2>3, <2>5, <3>1, <3>3, HandlerKept
    <3> QED BY <3>2, <3>3 DEF Handlers
  <2>11. ThisenvOwn'
    BY <1>1, <2>1, <2>2, <2>3, <2>4, <2>5 DEF Inv, DataThere, ThisenvOwn
  <2>12. HandlerReady'
    BY <2>1 DEF Inv, HandlerReady, Writable
  <2> QED BY <2>6, <2>7, <2>8, <2>9, <2>10, <2>11, <2>12 DEF Inv
<1> QED BY <1>2, <1>3

(* pgfault copies the page, which nobody writes, to PFTEMP.                *)
LEMMA CopyKeeps ==
    ASSUME Inv, NEW e \in Env, pgfault_copy(e)
    PROVE  Inv'
<1> DEFINE va == fault[e].va
           c == Read(e, va)
<1>1. /\ status[e] = "RUNNABLE" /\ fault[e] # NULL /\ fault[e].at = "copy"
      /\ Store(e, "pftemp", c) /\ fault' = [fault EXCEPT ![e].at = "map"]
      /\ UNCHANGED <<status, upcall, pt, pc, pn, cow, child, panic>>
  BY DEF pgfault_copy, Handling, HandlerAt, forkVars
<1>2. {"stack", "data"} \subseteq Va /\ CowVa \subseteq Va /\ "pftemp" \in Va \ CowVa
  BY DEF Va, UserVa, CowVa
<1>3. /\ va \in CowVa /\ pt[e][va] # NULL /\ pt[e]["pftemp"] # NULL
      /\ pt[e][va].perm = "cow"
  BY <1>1 DEF Inv, Copying
<1>4. c \in Content
  BY <1>2, <1>3, Written
<1>5. /\ fault \in [Env -> [at : FaultPcs, va : UserVa] \cup {NULL}]
      /\ fault'[e] \in [at : FaultPcs, va : UserVa] /\ fault'[e] # NULL
      /\ fault'[e].at = "map" /\ fault'[e].va = va
      /\ \A g \in Env : g # e => fault'[g] = fault[g]
  <2>1. fault \in [Env -> [at : FaultPcs, va : UserVa] \cup {NULL}]
    BY DEF Inv, TypeOK
  <2>2. fault[e] \in [at : FaultPcs, va : UserVa]
    BY <1>1, <2>1
  <2>3. /\ fault'[e] \in [at : FaultPcs, va : UserVa] /\ fault'[e].at = "map" /\ fault'[e].va = va
        /\ \A g \in Env : g # e => fault'[g] = fault[g]
    BY <1>1, <2>1, <2>2 DEF FaultPcs
  <2>4. fault'[e] # NULL
    BY <2>3, CowForkNull
  <2> QED BY <2>1, <2>3, <2>4
<1>6. fault' \in [Env -> [at : FaultPcs, va : UserVa] \cup {NULL}]
  BY <1>1, <1>5
<1> HIDE DEF c
<1>7. /\ content' \in [Frame -> Content] /\ Read(e, "pftemp")' = c
      /\ \A f \in Env, u \in Va :
            status[f] = "RUNNABLE" /\ pt[f][u] # NULL /\ (f # e \/ u # "pftemp") =>
               Read(f, u)' = Read(f, u)
  BY <1>1, <1>2, <1>4, StoreEffect
<1>8. Read(e, va)' = c
  <2>1. Read(e, va)' = Read(e, va)
    BY <1>1, <1>2, <1>3, <1>7
  <2> QED BY <2>1 DEF c
<1> HIDE DEF va
<1>9. TypeOK'
  BY <1>1, <1>6, <1>7 DEF Inv, TypeOK
<1>10. Lives' /\ Duplicating' /\ DataThere'
  BY <1>1, <1>5 DEF Inv, Lives, Duplicating, DataThere
<1>11. Kinds' /\ Isolated'
  <2>1. \A g, f \in Env, v, u \in Va : Meant(g, v, f, u) => Meant(g, v, f, u)'
    BY <1>1, <1>5 DEF Meant
  <2> QED BY <1>1, <2>1, SameTables
<1>12. Copying'
  <2>1. ASSUME NEW g \in Env, g # e, fault[g] # NULL, fault[g].at = "map"
        PROVE  /\ Read(g, "pftemp")' = Read(g, "pftemp")
               /\ \A u \in CowVa : u = fault[g].va => Read(g, u)' = Read(g, u)
    BY <1>2, <1>7, <2>1, CopySource
  <2>2. Read(e, "pftemp")' = Read(e, fault[e].va)'
    BY <1>5, <1>7, <1>8 DEF Read, va
  <2>3. Copying /\ pt' = pt
    BY <1>1 DEF Inv
  <2>4. ASSUME NEW g \in Env, g # e
        PROVE  /\ pt'[g]["pftemp"] # NULL => fault'[g] # NULL /\ fault'[g].at # "alloc"
               /\ fault'[g] # NULL =>
                    /\ fault'[g].va \in CowVa /\ pt'[g][fault'[g].va] # NULL
                    /\ fault'[g].at # "unmap" => pt'[g][fault'[g].va].perm = "cow"
                    /\ fault'[g].at # "alloc" => pt'[g]["pftemp"] # NULL
                    /\ fault'[g].at = "map" => Read(g, "pftemp")' = Read(g, fault[g].va)'
                    /\ fault'[g].at = "unmap" => pt'[g]["pftemp"] = pt'[g][fault'[g].va]
    <3>1. fault'[g] = fault[g]
      BY <1>5, <2>4
    <3>2. fault[g] # NULL /\ fault[g].at = "map" =>
            Read(g, "pftemp")' = Read(g, fault[g].va)'
      <4> SUFFICES ASSUME fault[g] # NULL, fault[g].at = "map"
                   PROVE  Read(g, "pftemp")' = Read(g, fault[g].va)'
        OBVIOUS
      <4>1. PICK u \in CowVa : u = fault[g].va
        BY <2>3, <2>4 DEF Copying
      <4>2. Read(g, "pftemp") = Read(g, u)
        BY <2>3, <2>4, <4>1 DEF Copying
      <4>3. Read(g, "pftemp")' = Read(g, u)'
        BY <2>1, <2>4, <4>1, <4>2
      <4> QED BY <3>1, <4>1, <4>3 DEF Read
    <3> QED BY ONLY <2>3, <2>4, <3>1, <3>2 DEF Copying
  <2>5. /\ pt'[e]["pftemp"] # NULL => fault'[e] # NULL /\ fault'[e].at # "alloc"
        /\ fault'[e].va \in CowVa /\ pt'[e][fault'[e].va] # NULL
        /\ pt'[e][fault'[e].va].perm = "cow" /\ pt'[e]["pftemp"] # NULL
    BY <1>1, <1>3, <1>5, <2>3 DEF Copying, va
  <2> QED BY <1>5, <2>1, <2>2, <2>3, <2>4, <2>5 DEF Copying, Read
<1>13. Handlers'
  <2>1. \A f \in Env : /\ Writable(f, "uxstack") => Writable(f, "uxstack")'
                       /\ Ready(f) => Ready(f)'
    BY <1>1 DEF Ready, Writable
  <2>2. ASSUME NEW g \in Env
        PROVE  HandlerOk(g)'
    BY <1>1, <1>2, <1>7, <2>1, HandlerKept
  <2> QED BY <2>2 DEF Handlers
<1>14. ThisenvOwn'
  BY <1>1, <1>2, <1>7 DEF Inv, DataThere, ThisenvOwn
<1>15. HandlerReady'
  BY <1>1 DEF Inv, HandlerReady, Writable
<1> QED BY <1>9, <1>10, <1>11, <1>12, <1>13, <1>14, <1>15 DEF Inv

-----------------------------------------------------------------------------
(* Steps that map pages *)

(* pt' is pt but for one entry.                                            *)
LEMMA Edited ==
    ASSUME pt \in PageTables, NEW e \in Env, NEW va \in Va, NEW x, pt' = [pt EXCEPT ![e][va] = x]
    PROVE  /\ pt'[e][va] = x
           /\ \A f \in Env, u \in Va : f # e \/ u # va => pt'[f][u] = pt[f][u]
  BY DEF PageTables

(* A page that nobody maps can be mapped without making anybody share.     *)
LEMMA AllocIsolated ==
    ASSUME Inv, NEW e \in Env, NEW va \in Va, NEW x \in Pte,
           \A f \in Env, u \in Va : pt[f][u] # NULL => pt[f][u].frame # x.frame,
           pt'[e][va] = x, \A f \in Env, u \in Va : f # e \/ u # va => pt'[f][u] = pt[f][u],
           \A g, f \in Env, v, u \in Va : Meant(g, v, f, u) => Meant(g, v, f, u)'
    PROVE  Isolated'
<1>1. ASSUME NEW g \in Env, NEW f \in Env, NEW v \in Va, NEW u \in Va, Shares(g, v, f, u)'
      PROVE  Meant(g, v, f, u)'
  <2>1. (g # e \/ v # va) /\ (f # e \/ u # va)
    BY <1>1 DEF Shares, Writable
  <2>2. pt'[g][v] = pt[g][v] /\ pt'[f][u] = pt[f][u]
    BY <2>1
  <2>3. Shares(g, v, f, u)
    BY <1>1, <2>2 DEF Shares, Writable
  <2> QED BY <2>3, UseIsolated DEF Inv
<1> QED BY <1>1, ShowIsolated

(* pgfault gets a page for its copy.                                       *)
LEMMA PgAllocKeeps ==
    ASSUME Inv, NEW e \in Env, pgfault_alloc(e)
    PROVE  Inv'
<1>0. CASE _panic(e)
  BY <1>0, PanicKeeps
<1>1. CASE ~_panic(e)
  <2>1. /\ status[e] = "RUNNABLE" /\ fault[e] # NULL /\ fault[e].at = "alloc"
        /\ sys_page_alloc(e, "pftemp") /\ fault' = [fault EXCEPT ![e].at = "copy"]
        /\ UNCHANGED <<status, upcall, pc, pn, cow, child, panic>>
    BY <1>1 DEF pgfault_alloc, Handling, HandlerAt, forkVars
  <2>2. {"stack", "data", "uxstack"} \subseteq Va /\ CowVa \subseteq Va /\ "pftemp" \in Va \ CowVa
        /\ UserVa \subseteq Va /\ "pftemp" \notin UserVa
    BY DEF Va, UserVa, CowVa
  <2>3. PICK x \in Pte :
           /\ x.perm = "w"
           /\ \A f \in Env, u \in Va : pt[f][u] # NULL => pt[f][u].frame # x.frame
           /\ pt' = [pt EXCEPT ![e]["pftemp"] = x] /\ pt' \in PageTables
           /\ content' \in [Frame -> Content]
           /\ \A f \in Env, u \in Va : pt[f][u] # NULL /\ <<f, u>> # <<e, "pftemp">> =>
                 Read(f, u)' = Read(f, u)
    BY <2>1, <2>2, AllocEffect DEF Inv
  <2>4. /\ pt'[e]["pftemp"] = x
        /\ \A f \in Env, u \in Va : f # e \/ u # "pftemp" => pt'[f][u] = pt[f][u]
    BY <2>2, <2>3, Edited DEF Inv, TypeOK, PageTables
  <2>5. /\ fault' \in [Env -> [at : FaultPcs, va : UserVa] \cup {NULL}]
        /\ fault'[e] # NULL /\ fault'[e].at = "copy" /\ fault'[e].va = fault[e].va
        /\ \A g \in Env : g # e => fault'[g] = fault[g]
    <3>1. fault \in [Env -> [at : FaultPcs, va : UserVa] \cup {NULL}]
      BY DEF Inv, TypeOK
    <3>2. fault[e] \in [at : FaultPcs, va : UserVa]
      BY <2>1, <3>1
    <3>3. /\ fault'[e] \in [at : FaultPcs, va : UserVa] /\ fault'[e].at = "copy"
          /\ fault'[e].va = fault[e].va /\ \A g \in Env : g # e => fault'[g] = fault[g]
      BY <2>1, <3>1, <3>2 DEF FaultPcs
    <3>4. fault'[e] # NULL
      BY <3>3, CowForkNull
    <3> QED BY <2>1, <3>1, <3>3, <3>4
  <2>6. TypeOK'
    BY <2>1, <2>3, <2>5 DEF Inv, TypeOK, PageTables
  <2>7. Lives' /\ DataThere'
    BY <2>1, <2>2, <2>4, <2>5 DEF Inv, Lives, DataThere
  <2>8. Duplicating'
    BY <2>1, <2>2, <2>4 DEF Inv, Duplicating
  <2>9. Kinds'
    BY <2>2, <2>3, <2>4 DEF Inv, Kinds
  <2>10. Isolated'
    <3>1. \A g, f \in Env, v, u \in Va : Meant(g, v, f, u) => Meant(g, v, f, u)'
      BY <2>1, <2>5 DEF Meant
    <3> QED BY <2>2, <2>3, <2>4, <3>1, AllocIsolated
  <2>11. Copying'
    <3>1. ASSUME NEW g \in Env, g # e, fault[g] # NULL, fault[g].at = "map"
          PROVE  /\ Read(g, "pftemp")' = Read(g, "pftemp")
                 /\ \A u \in CowVa : u = fault[g].va => Read(g, u)' = Read(g, u)
      BY <2>2, <2>3, <3>1, CopySource
    <3>2. fault[e].va \in CowVa /\ pt[e][fault[e].va] # NULL /\ pt[e][fault[e].va].perm = "cow"
      BY <2>1 DEF Inv, Copying
    <3>3. x # NULL
      BY Nulls
    <3> QED BY <2>1, <2>2, <2>4, <2>5, <3>1, <3>2, <3>3 DEF Inv, Copying, Read
  <2>12. Handlers'
    <3>1. \A f \in Env : /\ Writable(f, "uxstack") => Writable(f, "uxstack")'
                         /\ Ready(f) => Ready(f)'
      BY <2>1, <2>2, <2>4 DEF Ready, Writable
    <3>2. ASSUME NEW g \in Env
          PROVE  HandlerOk(g)'
      BY <2>1, <2>2, <2>3, <2>4, <3>1, HandlerKept
    <3> QED BY <3>2 DEF Handlers
  <2>13. ThisenvOwn'
    BY <2>1, <2>2, <2>3 DEF Inv, DataThere, ThisenvOwn
  <2>14. HandlerReady'
    BY <2>1, <2>2, <2>3, <2>4 DEF Inv, HandlerReady, Writable
  <2> QED BY <2>6, <2>7, <2>8, <2>9, <2>10, <2>11, <2>12, <2>13, <2>14 DEF Inv
<1> QED BY <1>0, <1>1

(* An exception stack: set_pgfault_handler's own, or the child's in fork.  *)
LEMMA UxAllocKeeps ==
    ASSUME Inv, NEW e \in Env, NEW t \in Env, NEW l \in Pcs,
           sys_page_alloc(t, "uxstack"), pc' = [pc EXCEPT ![e] = l],
           status[e] = "RUNNABLE", status[t] # "FREE",
           \/ pc[e] = "set_handler" /\ l = "set_upcall" /\ t = e
           \/ pc[e] = "alloc_ux" /\ l = "child_upcall" /\ t = child[e],
           UNCHANGED <<status, upcall, forkVars, fault, panic>>
    PROVE  Inv'
<1>1. UNCHANGED <<status, upcall, pn, cow, child, fault, panic>> /\ pc \in [Env -> Pcs]
  BY DEF forkVars, Inv, TypeOK
<1>2. {"stack", "data", "uxstack"} \subseteq Va /\ CowVa \subseteq Va /\ "pftemp" \in Va \ CowVa
      /\ UserVa \subseteq Va /\ "uxstack" \notin UserVa \cup CowVa
  BY DEF Va, UserVa, CowVa
<1>3. PICK x \in Pte :
         /\ x.perm = "w"
         /\ \A f \in Env, u \in Va : pt[f][u] # NULL => pt[f][u].frame # x.frame
         /\ pt' = [pt EXCEPT ![t]["uxstack"] = x] /\ pt' \in PageTables
         /\ content' \in [Frame -> Content]
         /\ \A f \in Env, u \in Va : pt[f][u] # NULL /\ <<f, u>> # <<t, "uxstack">> =>
               Read(f, u)' = Read(f, u)
  BY <1>2, AllocEffect DEF Inv
<1>4. /\ pt'[t]["uxstack"] = x
      /\ \A f \in Env, u \in Va : f # t \/ u # "uxstack" => pt'[f][u] = pt[f][u]
  BY <1>2, <1>3, Edited DEF Inv, TypeOK, PageTables
<1>5. x # NULL
  BY Nulls
<1>6. TypeOK'
  BY <1>1, <1>3 DEF Inv, TypeOK, PageTables
<1>7. Lives'
  BY <1>1, <1>2, <1>4 DEF Inv, Lives, DupPcs
<1>8. DataThere' /\ Duplicating'
  BY <1>1, <1>2, <1>4 DEF Inv, DataThere, Duplicating
<1>9. Kinds'
  BY <1>2, <1>3, <1>4 DEF Inv, Kinds
<1>10. Isolated'
  <2>1. \A g, f \in Env, v, u \in Va : Meant(g, v, f, u) => Meant(g, v, f, u)'
    BY <1>1 DEF Meant
  <2> QED BY <1>2, <1>3, <1>4, <2>1, AllocIsolated
<1>11. Copying'
  <2>1. ASSUME NEW g \in Env, fault[g] # NULL, fault[g].at = "map"
        PROVE  /\ Read(g, "pftemp")' = Read(g, "pftemp")
               /\ \A u \in CowVa : u = fault[g].va => Read(g, u)' = Read(g, u)
    BY <1>2, <1>3, <2>1, CopySource
  <2> QED BY <1>1, <1>2, <1>4, <2>1 DEF Inv, Copying, Read
<1>12. Handlers'
  <2>1. \A f \in Env : /\ Writable(f, "uxstack") => Writable(f, "uxstack")'
                       /\ Ready(f) => Ready(f)'
    BY <1>1, <1>2, <1>3, <1>4, <1>5 DEF Ready, Writable
  <2>2. Writable(t, "uxstack")'
    BY <1>3, <1>4, <1>5 DEF Writable
  <2>3. HandlerOk(e)'
    <3>1. HandlerOk(e)
      BY DEF Inv, Handlers
    <3>2. /\ pt'[e]["data"] = pt[e]["data"] /\ pc'[e] = l
          /\ pt[e]["data"] # NULL => Read(e, "data")' = Read(e, "data")
      BY <1>1, <1>2, <1>3, <1>4
    <3>3. \/ pc'[e] \in ReadyPcs
          \/ status'[e] = "RUNNABLE" /\ pc'[e] = "child"
          \/ status'[e] = "RUNNABLE" /\ pt'[e]["data"] # NULL /\ Read(e, "data")'.handler
          => Ready(e)'
      BY <1>1, <2>1, <3>1, <3>2 DEF HandlerOk, ReadyPcs, DupPcs
    <3>4. pc'[e] = "set_upcall" => Writable(e, "uxstack")'
      BY <2>2, <3>2
    <3>5. pc'[e] = "child_upcall" => Writable(child[e], "uxstack")'
      BY <1>1, <2>2, <3>2 DEF Writable
    <3>6. pc'[e] # "wake"
      BY <3>2
    <3> QED BY <3>3, <3>4, <3>5, <3>6 DEF HandlerOk
  <2>4. ASSUME NEW g \in Env, g # e
        PROVE  HandlerOk(g)'
    BY <1>1, <1>2, <1>3, <1>4, <2>1, <2>4, HandlerKept
  <2> QED BY <2>3, <2>4 DEF Handlers
<1>13. ThisenvOwn'
  BY <1>1, <1>2, <1>3 DEF Inv, DataThere, ThisenvOwn
<1>14. HandlerReady'
  BY <1>1, <1>2, <1>3, <1>4, <1>5 DEF Inv, HandlerReady, Writable
<1> QED BY <1>6, <1>7, <1>8, <1>9, <1>10, <1>11, <1>12, <1>13, <1>14 DEF Inv

(* set_pgfault_handler's stack.                                            *)
LEMMA HandlerStackKeeps ==
    ASSUME Inv, NEW e \in Env, handler_stack(e)
    PROVE  Inv'
<1>0. CASE _panic(e)
  BY <1>0, PanicKeeps
<1>1. CASE ~_panic(e)
  <2> DEFINE l == "set_upcall"
  <2>1. /\ status[e] = "RUNNABLE" /\ pc[e] = "set_handler" /\ sys_page_alloc(e, "uxstack")
        /\ pc' = [pc EXCEPT ![e] = l] /\ UNCHANGED <<status, upcall, forkVars, fault, panic>>
    BY <1>1 DEF handler_stack, At, Goto
  <2>2. l \in Pcs /\ l = "set_upcall"
    BY DEF Pcs, ForkPcs
  <2> HIDE DEF l
  <2> QED BY <2>1, <2>2, UxAllocKeeps
<1> QED BY <1>0, <1>1

(* The child's.                                                            *)
LEMMA AllocUxKeeps ==
    ASSUME Inv, NEW e \in Env, alloc_ux(e)
    PROVE  Inv'
<1>0. CASE _panic(e)
  BY <1>0, PanicKeeps
<1>1. CASE ~_panic(e)
  <2> DEFINE l == "child_upcall"
             t == child[e]
  <2>1. /\ status[e] = "RUNNABLE" /\ pc[e] = "alloc_ux" /\ sys_page_alloc(t, "uxstack")
        /\ pc' = [pc EXCEPT ![e] = l] /\ UNCHANGED <<status, upcall, forkVars, fault, panic>>
    BY <1>1 DEF alloc_ux, At, Goto
  <2>2. l \in Pcs /\ l = "child_upcall"
    BY DEF Pcs, ForkPcs
  <2>3. t \in Env /\ status[t] # "FREE" /\ t = child[e]
    BY <2>1, ChildThere DEF DupPcs
  <2> HIDE DEF l, t
  <2> QED BY <2>1, <2>2, <2>3, UxAllocKeeps
<1> QED BY <1>0, <1>1

(* Before it is moved, pgfault's copy is mapped at PFTEMP and nowhere      *)
(* else.                                                                   *)
LEMMA CopyPrivate ==
    ASSUME Inv, NEW e \in Env, fault[e] # NULL, fault[e].at # "unmap", pt[e]["pftemp"] # NULL,
           NEW f \in Env, NEW u \in Va, pt[f][u] # NULL,
           pt[f][u].frame = pt[e]["pftemp"].frame
    PROVE  f = e /\ u = "pftemp"
<1>1. Writable(e, "pftemp") /\ "pftemp" \in Va
  BY DEF Inv, Kinds, Writable, Va
<1>2. f # e \/ u # "pftemp" => Shares(e, "pftemp", f, u)
  BY <1>1 DEF Shares
<1>3. ~Meant(e, "pftemp", f, u)
  BY DEF Meant, Inv, Duplicating, UserVa
<1> QED BY <1>1, <1>2, <1>3, UseIsolated DEF Inv

(* pgfault puts the copy in the page's place: same contents, own page.     *)
LEMMA PgMapKeeps ==
    ASSUME Inv, NEW e \in Env, pgfault_map(e)
    PROVE  Inv'
<1>a. status[e] = "RUNNABLE" /\ fault[e] # NULL /\ fault[e].at = "map"
  BY DEF pgfault_map, Handling
<1>b. PICK va \in CowVa : va = fault[e].va
  BY <1>a, CopySource
<1> DEFINE x == [frame |-> pt[e]["pftemp"].frame, perm |-> "w"]
<1>1. /\ status[e] = "RUNNABLE" /\ fault[e] # NULL /\ fault[e].at = "map"
      /\ SetPt([pt EXCEPT ![e][va] = x], content) /\ fault' = [fault EXCEPT ![e].at = "unmap"]
      /\ UNCHANGED <<status, upcall, pc, pn, cow, child, panic>>
  BY <1>b DEF pgfault_map, sys_page_map, Handling, HandlerAt, forkVars
<1>2. /\ {"stack", "data", "uxstack"} \subseteq Va /\ CowVa \subseteq Va /\ "pftemp" \in Va \ CowVa
      /\ UserVa \subseteq Va /\ "pftemp" \notin UserVa /\ "uxstack" \notin CowVa /\ "text" \notin CowVa
  BY DEF Va, UserVa, CowVa
<1>3. /\ va \in CowVa /\ pt[e][va] # NULL /\ pt[e][va].perm = "cow" /\ pt[e]["pftemp"] # NULL
      /\ Read(e, "pftemp") = Read(e, va)
  BY <1>1, <1>b DEF Inv, Copying
<1>4. /\ x \in Pte /\ x # NULL /\ x.perm = "w" /\ x.frame = pt[e]["pftemp"].frame
      /\ pt[e]["pftemp"] = x
  <2>1. pt[e]["pftemp"] \in Pte /\ pt[e]["pftemp"].perm = "w"
    BY <1>2, <1>3 DEF Inv, TypeOK, Kinds
  <2>2. x = pt[e]["pftemp"]
    BY <2>1 DEF Pte
  <2> QED BY <2>1, <2>2, Nulls
<1>5. /\ fault' \in [Env -> [at : FaultPcs, va : UserVa] \cup {NULL}]
      /\ fault'[e] # NULL /\ fault'[e].at = "unmap" /\ fault'[e].va = va
      /\ \A g \in Env : g # e => fault'[g] = fault[g]
  <2>1. fault \in [Env -> [at : FaultPcs, va : UserVa] \cup {NULL}]
    BY DEF Inv, TypeOK
  <2>2. fault[e] \in [at : FaultPcs, va : UserVa]
    BY <1>1, <2>1
  <2>3. /\ fault'[e] \in [at : FaultPcs, va : UserVa] /\ fault'[e].at = "unmap"
        /\ fault'[e].va = va /\ \A g \in Env : g # e => fault'[g] = fault[g]
    BY <1>1, <1>b, <2>1, <2>2 DEF FaultPcs
  <2>4. fault'[e] # NULL
    BY <2>3, CowForkNull
  <2> QED BY <1>1, <2>1, <2>3, <2>4
<1> HIDE DEF x
<1>6. /\ pt' = [pt EXCEPT ![e][va] = x] /\ pt' \in PageTables
      /\ content' \in [Frame -> Content] /\ Read(e, va)' = content[x.frame]
      /\ \A f \in Env, u \in Va : pt[f][u] # NULL /\ <<f, u>> # <<e, va>> =>
            Read(f, u)' = Read(f, u)
  <2>1. va \in Va /\ x \in Pte \cup {NULL} /\ x # NULL
    BY <1>2, <1>3, <1>4
  <2>2. /\ pt' = [pt EXCEPT ![e][va] = x] /\ pt' \in PageTables
        /\ content' \in [Frame -> Content]
        /\ x # NULL => Read(e, va)' = content[x.frame]
        /\ \A f \in Env, u \in Va : pt[f][u] # NULL /\ <<f, u>> # <<e, va>> =>
              Read(f, u)' = Read(f, u)
    BY <1>1, <2>1, EditEffect DEF Inv
  <2> QED BY <2>1, <2>2
<1>7. \A f \in Env, u \in Va : pt[f][u] # NULL => Read(f, u)' = Read(f, u)
  <2>1. Read(e, va)' = Read(e, va)
    BY <1>3, <1>4, <1>6 DEF Read
  <2> QED BY <1>6, <2>1
<1>8. /\ pt'[e][va] = x
      /\ \A f \in Env, u \in Va : f # e \/ u # va => pt'[f][u] = pt[f][u]
  BY <1>2, <1>3, <1>6, Edited DEF Inv, TypeOK, PageTables
<1>9. TypeOK'
  BY <1>1, <1>5, <1>6 DEF Inv, TypeOK, PageTables
<1>10. Lives' /\ DataThere'
  BY <1>1, <1>2, <1>3, <1>4, <1>5, <1>8 DEF Inv, Lives, DataThere
<1>11. Duplicating'
  BY <1>1, <1>2, <1>4, <1>8 DEF Inv, Duplicating
<1>12. Kinds'
  BY <1>2, <1>3, <1>4, <1>8 DEF Inv, Kinds
<1>13. Isolated'
  <2>1. ASSUME NEW g \in Env, NEW f \in Env, NEW v \in Va, NEW u \in Va, Shares(g, v, f, u)'
        PROVE  Meant(g, v, f, u)'
    <3>1. CASE g = e /\ v = va
      <4>1. pt'[f][u] = pt[f][u] /\ pt[f][u] # NULL /\ pt[f][u].frame = pt[e]["pftemp"].frame
        BY <1>4, <1>8, <2>1, <3>1 DEF Shares, Writable
      <4>2. f = e /\ u = "pftemp"
        BY <1>1, <1>3, <4>1, CopyPrivate
      <4> QED BY <1>5, <3>1, <4>2 DEF Meant
    <3>2. CASE f = e /\ u = va
      <4>1. pt'[g][v] = pt[g][v] /\ pt[g][v] # NULL /\ pt[g][v].frame = pt[e]["pftemp"].frame
        BY <1>4, <1>8, <2>1, <3>2 DEF Shares, Writable
      <4>2. g = e /\ v = "pftemp"
        BY <1>1, <1>3, <4>1, CopyPrivate
      <4> QED BY <1>5, <3>2, <4>2 DEF Meant
    <3>3. CASE (g # e \/ v # va) /\ (f # e \/ u # va)
      <4>1. pt'[g][v] = pt[g][v] /\ pt'[f][u] = pt[f][u]
        BY <1>8, <3>3
      <4>2. Shares(g, v, f, u)
        BY <2>1, <4>1 DEF Shares, Writable
      <4>3. Meant(g, v, f, u)
        BY <4>2, UseIsolated DEF Inv
      <4> QED BY <1>1, <1>5, <4>3 DEF Meant
    <3> QED BY <3>1, <3>2, <3>3
  <2> QED BY <2>1, ShowIsolated
<1>14. Copying'
  <2>1. pt'[e]["pftemp"] = x
    BY <1>2, <1>3, <1>4, <1>8
  <2>2. ASSUME NEW g \in Env, g # e, fault[g] # NULL, fault[g].at = "map"
        PROVE  /\ Read(g, "pftemp")' = Read(g, "pftemp")
               /\ \A u \in CowVa : u = fault[g].va => Read(g, u)' = Read(g, u)
    BY <1>2, <1>7, <2>2, CopySource
  <2> QED BY <1>1, <1>2, <1>3, <1>4, <1>5, <1>8, <2>1, <2>2 DEF Inv, Copying, Read
<1>15. Handlers'
  <2>1. \A f \in Env : /\ Writable(f, "uxstack") => Writable(f, "uxstack")'
                       /\ Ready(f) => Ready(f)'
    BY <1>1, <1>2, <1>3, <1>8 DEF Ready, Writable
  <2>2. ASSUME NEW g \in Env
        PROVE  HandlerOk(g)'
    <3>1. pt'[g]["data"] # NULL => pt[g]["data"] # NULL
      BY <1>2, <1>3, <1>8
    <3> QED BY <1>1, <1>2, <1>7, <2>1, <3>1, HandlerKept
  <2> QED BY <2>2 DEF Handlers
<1>16. ThisenvOwn'
  BY <1>1, <1>2, <1>7 DEF Inv, DataThere, ThisenvOwn
<1>17. HandlerReady'
  BY <1>1, <1>2, <1>3, <1>4, <1>8 DEF Inv, HandlerReady, Writable
<1> QED BY <1>9, <1>10, <1>11, <1>12, <1>13, <1>14, <1>15, <1>16, <1>17 DEF Inv

(* pgfault unmaps PFTEMP; what it moved is now the program's alone.        *)
LEMMA PgUnmapKeeps ==
    ASSUME Inv, NEW e \in Env, pgfault_unmap(e)
    PROVE  Inv'
<1>1. /\ status[e] = "RUNNABLE" /\ fault[e] # NULL /\ fault[e].at = "unmap"
      /\ SetPt([pt EXCEPT ![e]["pftemp"] = NULL], content)
      /\ fault' = [fault EXCEPT ![e] = NULL]
      /\ UNCHANGED <<status, upcall, pc, pn, cow, child, panic>>
  BY DEF pgfault_unmap, Handling, forkVars
<1>2. /\ {"stack", "data", "uxstack"} \subseteq Va /\ CowVa \subseteq Va /\ "pftemp" \in Va \ CowVa
      /\ UserVa \subseteq Va /\ "pftemp" \notin UserVa
  BY DEF Va, UserVa, CowVa
<1>3. /\ fault' \in [Env -> [at : FaultPcs, va : UserVa] \cup {NULL}] /\ fault'[e] = NULL
      /\ \A g \in Env : g # e => fault'[g] = fault[g]
  BY <1>1 DEF Inv, TypeOK
<1>4. /\ pt' = [pt EXCEPT ![e]["pftemp"] = NULL] /\ pt' \in PageTables
      /\ content' \in [Frame -> Content]
      /\ \A f \in Env, u \in Va : pt[f][u] # NULL /\ <<f, u>> # <<e, "pftemp">> =>
            Read(f, u)' = Read(f, u)
  BY <1>1, <1>2, EditEffect DEF Inv
<1>5. /\ pt'[e]["pftemp"] = NULL
      /\ \A f \in Env, u \in Va : f # e \/ u # "pftemp" => pt'[f][u] = pt[f][u]
  BY <1>2, <1>4, Edited DEF Inv, TypeOK, PageTables
<1>6. TypeOK'
  BY <1>1, <1>3, <1>4 DEF Inv, TypeOK, PageTables
<1>7. Lives' /\ DataThere'
  BY <1>1, <1>2, <1>3, <1>5 DEF Inv, Lives, DataThere
<1>8. Duplicating'
  BY <1>1, <1>2, <1>5 DEF Inv, Duplicating
<1>9. Kinds'
  BY <1>2, <1>5 DEF Inv, Kinds
<1>10. Isolated'
  <2>1. ASSUME NEW g \in Env, NEW f \in Env, NEW v \in Va, NEW u \in Va, Shares(g, v, f, u)'
        PROVE  Meant(g, v, f, u)'
    <3>1. (g # e \/ v # "pftemp") /\ (f # e \/ u # "pftemp")
      BY <1>5, <2>1 DEF Shares, Writable
    <3>2. pt'[g][v] = pt[g][v] /\ pt'[f][u] = pt[f][u]
      BY <1>5, <3>1
    <3>3. Shares(g, v, f, u)
      BY <2>1, <3>2 DEF Shares, Writable
    <3>4. Meant(g, v, f, u)
      BY <3>3, UseIsolated DEF Inv
    <3> QED BY <1>1, <1>3, <3>1, <3>4 DEF Meant
  <2> QED BY <2>1, ShowIsolated
<1>11. Copying'
  <2>1. ASSUME NEW g \in Env, g # e, fault[g] # NULL, fault[g].at = "map"
        PROVE  /\ Read(g, "pftemp")' = Read(g, "pftemp")
               /\ \A u \in CowVa : u = fault[g].va => Read(g, u)' = Read(g, u)
    BY <1>2, <1>4, <2>1, CopySource
  <2> QED BY <1>1, <1>2, <1>3, <1>5, <2>1 DEF Inv, Copying, Read
<1>12. Handlers'
  <2>1. \A f \in Env : /\ Writable(f, "uxstack") => Writable(f, "uxstack")'
                       /\ Ready(f) => Ready(f)'
    BY <1>1, <1>2, <1>5 DEF Ready, Writable
  <2>2. ASSUME NEW g \in Env
        PROVE  HandlerOk(g)'
    BY <1>1, <1>2, <1>4, <1>5, <2>1, HandlerKept
  <2> QED BY <2>2 DEF Handlers
<1>13. ThisenvOwn'
  BY <1>1, <1>2, <1>4 DEF Inv, DataThere, ThisenvOwn
<1>14. HandlerReady'
  BY <1>1, <1>2, <1>5 DEF Inv, HandlerReady, Writable
<1> QED BY <1>6, <1>7, <1>8, <1>9, <1>10, <1>11, <1>12, <1>13, <1>14 DEF Inv

(* duppage fails in the child: fork goes on to the next page.              *)
LEMMA DupSkipKeeps ==
    ASSUME Inv, NEW e \in Env, status[e] = "RUNNABLE", fault[e] = NULL, pc[e] = "dup_child",
           NextPage(e), UNCHANGED <<status, upcall, pt, content, cow, child, fault, panic>>
    PROVE  Inv'
<1>1. PICK l \in {"alloc_ux", "dup_read"}, k \in 1..4 :
         pc' = [pc EXCEPT ![e] = l] /\ pn' = [pn EXCEPT ![e] = k]
  BY NextPageEffect DEF Inv
<1>2. pc \in [Env -> Pcs] /\ pn \in [Env -> 1..4]
  BY LoopFacts DEF Inv, TypeOK
<1>3. TypeOK'
  BY <1>1, <1>2, LoopFacts DEF Inv, TypeOK, Pcs, ForkPcs
<1>4. Lives'
  BY <1>1, <1>2 DEF Inv, Lives, DupPcs
<1>5. Kinds' /\ Isolated'
  <2>1. \A g, f \in Env, va, u \in Va : Meant(g, va, f, u) => Meant(g, va, f, u)'
    BY <1>1, <1>2 DEF Meant
  <2> QED BY <2>1, SameTables
<1>6. Copying' /\ Duplicating'
  BY <1>1, <1>2 DEF Inv, Copying, Duplicating, Read
<1>7. Handlers'
  <2>1. \A f \in Env : /\ Writable(f, "uxstack") => Writable(f, "uxstack")'
                       /\ Ready(f) => Ready(f)'
    BY DEF Ready, Writable
  <2>2. HandlerOk(e)'
    BY <1>1, <1>2, <2>1 DEF Inv, Handlers, HandlerOk, ReadyPcs, DupPcs
  <2>3. ASSUME NEW g \in Env, g # e
        PROVE  HandlerOk(g)'
    BY <1>1, <1>2, <2>1, <2>3, HandlerKept DEF Read
  <2> QED BY <2>2, <2>3 DEF Handlers
<1>8. DataThere' /\ ThisenvOwn' /\ HandlerReady'
  BY <1>1, <1>2 DEF Inv, DataThere, ThisenvOwn, HandlerReady, Writable, Read
<1> QED BY <1>3, <1>4, <1>5, <1>6, <1>7, <1>8 DEF Inv

(* Where duppage's calls lead: to the second one if the page can be        *)
(* written, or to the next page.                                           *)
LEMMA DupGoesOn ==
    ASSUME TypeOK, NEW e \in Env, NEW c \in BOOLEAN,
           IF c THEN Goto(e, "dup_self") /\ UNCHANGED pn ELSE NextPage(e)
    PROVE  \E l \in {"alloc_ux", "dup_read", "dup_self"}, k \in 1..4 :
              /\ pc' = [pc EXCEPT ![e] = l] /\ pn' = [pn EXCEPT ![e] = k]
              /\ (l = "dup_self") <=> c
              /\ c => k = pn[e]
<1>1. CASE ~c
  <2>1. PICK l \in {"alloc_ux", "dup_read"}, k \in 1..4 :
           pc' = [pc EXCEPT ![e] = l] /\ pn' = [pn EXCEPT ![e] = k]
    BY <1>1, NextPageEffect
  <2>2. l # "dup_self" /\ l \in {"alloc_ux", "dup_read", "dup_self"}
    OBVIOUS
  <2> QED BY <1>1, <2>1, <2>2, Zenon
<1>2. CASE c
  <2> DEFINE l == "dup_self"
             k == pn[e]
  <2>1. pn \in [Env -> 1..4]
    BY LoopFacts DEF TypeOK
  <2>2. /\ k \in 1..4 /\ l \in {"alloc_ux", "dup_read", "dup_self"} /\ l = "dup_self" /\ k = pn[e]
        /\ pc' = [pc EXCEPT ![e] = l] /\ pn' = [pn EXCEPT ![e] = k]
    BY <1>2, <2>1 DEF Goto
  <2> HIDE DEF l, k
  <2> QED BY <1>2, <2>2, Zenon
<1> QED BY <1>1, <1>2

(* duppage of va in the child t, with permission p, by e.                  *)
DupOf(e, t, va, p) ==
    /\ status[e] = "RUNNABLE" /\ fault[e] = NULL /\ pc[e] = "dup_child"
    /\ t = child[e] /\ va = Loop[pn[e]] /\ p = (IF cow[e] THEN "cow" ELSE "r")
    /\ SetPt([pt EXCEPT ![t][va] = [frame |-> pt[e][va].frame, perm |-> p]], content)
    /\ IF cow[e] THEN Goto(e, "dup_self") /\ UNCHANGED pn ELSE NextPage(e)

(* duppage shares the page with the child, which may not write it.         *)
LEMMA DupShareKeeps ==
    ASSUME Inv, NEW e \in Env, NEW t \in Env, NEW va \in Va, NEW p \in {"cow", "r"},
           DupOf(e, t, va, p),
           UNCHANGED <<status, upcall, cow, child, fault, panic>>
    PROVE  Inv'
<1> DEFINE x == [frame |-> pt[e][va].frame, perm |-> p]
<1>1. /\ pc \in [Env -> Pcs] /\ pn \in [Env -> 1..4] /\ cow \in [Env -> BOOLEAN]
      /\ pt \in PageTables
  BY LoopFacts DEF Inv, TypeOK, PageTables
<1>2. PICK l \in {"alloc_ux", "dup_read", "dup_self"}, k \in 1..4 :
         /\ pc' = [pc EXCEPT ![e] = l] /\ pn' = [pn EXCEPT ![e] = k]
         /\ (l = "dup_self") <=> cow[e]
         /\ cow[e] => k = pn[e]
  BY <1>1, DupGoesOn DEF DupOf, Inv
<1>3. /\ {"stack", "data", "uxstack"} \subseteq Va /\ CowVa \subseteq Va /\ "pftemp" \in Va \ CowVa
      /\ UserVa \subseteq Va /\ "pftemp" \notin UserVa /\ "uxstack" \notin UserVa
      /\ "text" \notin CowVa
  BY DEF Va, UserVa, CowVa
<1>4. /\ va \in UserVa /\ pt[e][va] # NULL /\ (cow[e] <=> va \in CowVa)
      /\ pt[e][va].perm = "w" => cow[e]
  BY DEF DupOf, Inv, Duplicating, Kinds, UserVa, CowVa
<1>5. status[t] = "NOT_RUNNABLE" /\ fault[t] = NULL /\ t # e /\ pc[t] = "child"
  BY ChildThere DEF DupOf, DupPcs
<1>6. x \in Pte /\ x # NULL /\ x.perm = p /\ x.frame = pt[e][va].frame
  <2>1. pt[e][va].frame \in Frame /\ p \in Perm
    BY <1>1, <1>4, Nulls DEF PageTables, Perm
  <2> QED BY <2>1, Nulls
<1>7. /\ pt' = [pt EXCEPT ![t][va] = x] /\ pt' \in PageTables /\ content' \in [Frame -> Content]
      /\ \A f \in Env, u \in Va : pt[f][u] # NULL /\ <<f, u>> # <<t, va>> =>
            Read(f, u)' = Read(f, u)
  <2>1. SetPt([pt EXCEPT ![t][va] = x], content) /\ x \in Pte \cup {NULL}
    BY <1>6 DEF DupOf
  <2> HIDE DEF x
  <2> QED BY <2>1, EditEffect DEF Inv
<1> HIDE DEF x
<1>8. /\ pt'[t][va] = x
      /\ \A f \in Env, u \in Va : f # t \/ u # va => pt'[f][u] = pt[f][u]
  BY <1>1, <1>7 DEF PageTables
<1>9. TypeOK'
  BY <1>1, <1>2, <1>7, LoopFacts DEF Inv, TypeOK, PageTables, Pcs, ForkPcs
<1>10. Lives'
  BY <1>1, <1>2, <1>5, <1>8 DEF DupOf, Inv, Lives, DupPcs
<1>11. DataThere' /\ ThisenvOwn'
  BY <1>1, <1>2, <1>3, <1>5, <1>7, <1>8 DEF DupOf, Inv, DataThere, ThisenvOwn
<1>12. Duplicating'
  <2>1. \A g \in Env : g # e /\ pc[g] \in {"dup_child", "dup_self"} =>
           pt[g][Loop[pn[g]]] # NULL /\ pt'[g][Loop[pn[g]]] # NULL
    BY <1>3, <1>6, <1>8 DEF Inv, Duplicating
  <2>2. pt'[e][va] # NULL
    BY <1>4, <1>5, <1>8
  <2> QED BY <1>1, <1>2, <1>4, <2>1, <2>2 DEF DupOf, Inv, Duplicating
<1>13. Kinds'
  BY <1>3, <1>4, <1>6, <1>8 DEF DupOf, Inv, Kinds, UserVa, CowVa
<1>14. Isolated'
  <2>1. ASSUME NEW g \in Env, NEW f \in Env, NEW v \in Va, NEW u \in Va, Shares(g, v, f, u)'
        PROVE  Meant(g, v, f, u)'
    <3>1. (g # t \/ v # va) /\ pt'[g][v] = pt[g][v]
      BY <1>6, <1>8, <2>1 DEF Shares, Writable
    <3>2. CASE f = t /\ u = va /\ g = e /\ v = va
      <4>1. cow[e]
        BY <1>4, <2>1, <3>1, <3>2 DEF Shares, Writable
      <4> QED BY <1>1, <1>2, <3>2, <4>1 DEF DupOf, Meant
    <3>3. CASE f = t /\ u = va /\ (g # e \/ v # va)
      <4>1. Shares(g, v, e, va)
        BY <1>4, <1>6, <1>8, <2>1, <3>1, <3>3 DEF Shares, Writable
      <4>2. Meant(g, v, e, va)
        BY <4>1, UseIsolated DEF Inv
      <4>3. pc[g] = "dup_self" => status[child[g]] = "NOT_RUNNABLE"
        BY ChildThere DEF DupPcs
      <4> QED BY <4>2, <4>3 DEF DupOf, Meant
    <3>4. CASE f # t \/ u # va
      <4>1. pt'[f][u] = pt[f][u]
        BY <1>8, <3>4
      <4>2. Shares(g, v, f, u)
        BY <2>1, <3>1, <4>1 DEF Shares, Writable
      <4>3. Meant(g, v, f, u)
        BY <4>2, UseIsolated DEF Inv
      <4> QED BY <1>1, <1>2, <4>3 DEF DupOf, Meant
    <3> QED BY <3>2, <3>3, <3>4
  <2> QED BY <2>1, ShowIsolated
<1>15. Copying'
  <2>1. ASSUME NEW g \in Env, fault[g] # NULL
        PROVE  /\ fault[g].at = "map" => Read(g, "pftemp")' = Read(g, "pftemp")
               /\ \A u \in CowVa : u = fault[g].va => Read(g, u)' = Read(g, u)
               /\ g # t
    BY <1>3, <1>5, <1>7, <2>1, CopySource
  <2> QED BY <1>3, <1>4, <1>8, <2>1 DEF Inv, Copying, Read
<1>16. Handlers'
  <2>1. \A f \in Env : /\ Writable(f, "uxstack") => Writable(f, "uxstack")'
                       /\ Ready(f) => Ready(f)'
    BY <1>3, <1>4, <1>8 DEF Ready, Writable
  <2>2. HandlerOk(e)'
    BY <1>1, <1>2, <2>1 DEF DupOf, Inv, Handlers, HandlerOk, ReadyPcs, DupPcs
  <2>3. ASSUME NEW g \in Env, g # e
        PROVE  HandlerOk(g)'
    <3>1. status'[g] = "RUNNABLE" =>
             /\ status[g] = "RUNNABLE"
             /\ pt'[g]["data"] # NULL =>
                  pt[g]["data"] # NULL /\ Read(g, "data")' = Read(g, "data")
      BY <1>3, <1>5, <1>7, <1>8
    <3>2. pc'[g] = pc[g] /\ child'[g] = child[g]
      BY <1>1, <1>2, <2>3
    <3>3. \A x1 \in Env : status[x1] # "FREE" =>
             /\ Writable(x1, "uxstack") => Writable(x1, "uxstack")'
             /\ Ready(x1) => Ready(x1)'
      BY <2>1
    <3> QED BY <3>1, <3>2, <3>3, HandlerKept, Zenon
  <2> QED BY <2>2, <2>3 DEF Handlers
<1>17. HandlerReady'
  BY <1>3, <1>4, <1>5, <1>8 DEF Inv, HandlerReady, Writable
<1> QED BY <1>9, <1>10, <1>11, <1>12, <1>13, <1>14, <1>15, <1>16, <1>17 DEF Inv

(* duppage's first call.                                                   *)
LEMMA DupChildKeeps ==
    ASSUME Inv, NEW e \in Env, dup_child(e)
    PROVE  Inv'
<1> DEFINE t == child[e]
           va == Loop[pn[e]]
           p == IF cow[e] THEN "cow" ELSE "r"
<1>1. /\ status[e] = "RUNNABLE" /\ fault[e] = NULL /\ pc[e] = "dup_child"
      /\ UNCHANGED <<status, upcall, cow, child, fault, panic>>
  BY DEF dup_child, At
<1>2. \/ NextPage(e) /\ UNCHANGED <<pt, content>>
      \/ /\ SetPt([pt EXCEPT ![t][va] = [frame |-> pt[e][va].frame, perm |-> p]], content)
         /\ IF cow[e] THEN Goto(e, "dup_self") /\ UNCHANGED pn ELSE NextPage(e)
  BY DEF dup_child, sys_page_map
<1>3. t \in Env /\ t = child[e]
  BY <1>1, ChildThere DEF DupPcs
<1>4. va \in Va /\ va = Loop[pn[e]]
  BY <1>1 DEF Inv, Duplicating, Va
<1>5. p \in {"cow", "r"} /\ p = (IF cow[e] THEN "cow" ELSE "r")
  OBVIOUS
<1>6. CASE NextPage(e) /\ UNCHANGED <<pt, content>>
  BY <1>1, <1>6, DupSkipKeeps
<1> HIDE DEF t, va, p
<1>7. CASE ~(NextPage(e) /\ UNCHANGED <<pt, content>>)
  BY <1>1, <1>2, <1>3, <1>4, <1>5, <1>7, DupShareKeeps DEF DupOf
<1> QED BY <1>6, <1>7

(* duppage makes the parent's own mapping copy-on-write: from here on      *)
(* neither can write the page they share.                                  *)
LEMMA DupSelfKeeps ==
    ASSUME Inv, NEW e \in Env, dup_self(e)
    PROVE  Inv'
<1>1. /\ status[e] = "RUNNABLE" /\ fault[e] = NULL /\ pc[e] = "dup_self"
      /\ UNCHANGED <<status, upcall, cow, child, fault, panic>>
  BY DEF dup_self, At
<1>2. /\ pc \in [Env -> Pcs] /\ pn \in [Env -> 1..4] /\ pt \in PageTables
  BY LoopFacts DEF Inv, TypeOK, PageTables
<1>3. PICK l \in {"alloc_ux", "dup_read"}, k \in 1..4 :
         pc' = [pc EXCEPT ![e] = l] /\ pn' = [pn EXCEPT ![e] = k]
  BY NextPageEffect DEF Inv, dup_self
<1>4. /\ {"stack", "data", "uxstack"} \subseteq Va /\ CowVa \subseteq Va /\ "pftemp" \in Va \ CowVa
      /\ UserVa \subseteq Va /\ "pftemp" \notin UserVa /\ "uxstack" \notin UserVa
      /\ "text" \notin CowVa
  BY DEF Va, UserVa, CowVa
<1>5. PICK va \in CowVa : va = Loop[pn[e]] /\ va \in UserVa /\ pt[e][va] # NULL
  BY <1>1 DEF Inv, Duplicating
<1> DEFINE x == [frame |-> pt[e][va].frame, perm |-> "cow"]
<1>6. x \in Pte /\ x # NULL /\ x.perm = "cow" /\ x.frame = pt[e][va].frame
  <2>1. pt[e][va].frame \in Frame /\ "cow" \in Perm
    BY <1>2, <1>4, <1>5, Nulls DEF PageTables, Perm
  <2> QED BY <2>1, Nulls
<1>7. SetPt([pt EXCEPT ![e][va] = x], content) /\ x \in Pte \cup {NULL} /\ va \in Va
  BY <1>4, <1>5, <1>6 DEF dup_self, sys_page_map
<1> HIDE DEF x
<1>8. /\ pt' = [pt EXCEPT ![e][va] = x] /\ pt' \in PageTables /\ content' \in [Frame -> Content]
      /\ x # NULL => Read(e, va)' = content[x.frame]
      /\ \A f \in Env, u \in Va : pt[f][u] # NULL /\ <<f, u>> # <<e, va>> =>
            Read(f, u)' = Read(f, u)
  BY <1>7, EditEffect DEF Inv
<1>9. \A f \in Env, u \in Va : pt[f][u] # NULL => Read(f, u)' = Read(f, u)
  <2>1. Read(e, va)' = Read(e, va)
    BY <1>6, <1>8 DEF Read
  <2> QED BY <1>8, <2>1
<1>10. /\ pt'[e][va] = x
       /\ \A f \in Env, u \in Va : f # e \/ u # va => pt'[f][u] = pt[f][u]
  BY <1>2, <1>7, <1>8 DEF PageTables
<1>11. \A f \in Env, u \in Va : pt'[f][u] # NULL <=> pt[f][u] # NULL
  BY <1>5, <1>6, <1>10
<1>12. TypeOK'
  BY <1>1, <1>2, <1>3, <1>8, LoopFacts DEF Inv, TypeOK, PageTables, Pcs, ForkPcs
<1>13. Lives'
  BY <1>1, <1>2, <1>3, <1>11 DEF Inv, Lives, DupPcs
<1>14. DataThere' /\ ThisenvOwn'
  BY <1>1, <1>2, <1>3, <1>4, <1>9, <1>11 DEF Inv, DataThere, ThisenvOwn
<1>15. Duplicating'
  <2>1. \A g \in Env : g # e => pc'[g] = pc[g] /\ pn'[g] = pn[g] /\ cow'[g] = cow[g]
    BY <1>1, <1>2, <1>3
  <2>2. pc'[e] \notin {"dup_child", "dup_self"}
    BY <1>2, <1>3
  <2> QED BY <1>4, <1>11, <2>1, <2>2 DEF Inv, Duplicating
<1>16. Kinds'
  BY <1>4, <1>5, <1>6, <1>10 DEF Inv, Kinds
<1>17. Isolated'
  <2>1. ASSUME NEW g \in Env, NEW f \in Env, NEW v \in Va, NEW u \in Va, Shares(g, v, f, u)'
        PROVE  Meant(g, v, f, u)'
    <3>1. (g # e \/ v # va) /\ pt'[g][v] = pt[g][v]
      BY <1>6, <1>10, <2>1 DEF Shares, Writable
    <3>2. pt[f][u] # NULL /\ pt'[f][u].frame = pt[f][u].frame
      BY <1>5, <1>6, <1>10, <2>1 DEF Shares
    <3>3. Shares(g, v, f, u)
      BY <2>1, <3>1, <3>2 DEF Shares, Writable
    <3>4. Meant(g, v, f, u)
      BY <3>3, UseIsolated DEF Inv
    <3>5. CASE g = e
      BY <1>1, <1>5, <3>1, <3>4, <3>5 DEF Meant
    <3>6. CASE g # e
      BY <1>1, <1>2, <1>3, <3>4, <3>6 DEF Meant
    <3> QED BY <3>5, <3>6
  <2> QED BY <2>1, ShowIsolated
<1>18. Copying'
  <2>1. ASSUME NEW g \in Env, fault[g] # NULL
        PROVE  /\ fault[g].at = "map" => Read(g, "pftemp")' = Read(g, "pftemp")
               /\ \A u \in CowVa : u = fault[g].va => Read(g, u)' = Read(g, u)
               /\ g # e
    BY <1>1, <1>4, <1>9, <2>1, CopySource
  <2> QED BY <1>1, <1>4, <1>10, <1>11, <2>1 DEF Inv, Copying, Read
<1>19. Handlers'
  <2>1. \A f \in Env : /\ Writable(f, "uxstack") => Writable(f, "uxstack")'
                       /\ Ready(f) => Ready(f)'
    BY <1>1, <1>4, <1>5, <1>10 DEF Ready, Writable
  <2>2. HandlerOk(e)'
    BY <1>1, <1>2, <1>3, <2>1 DEF Inv, Handlers, HandlerOk, ReadyPcs, DupPcs
  <2>3. ASSUME NEW g \in Env, g # e
        PROVE  HandlerOk(g)'
    BY <1>1, <1>2, <1>3, <1>4, <1>9, <1>11, <2>1, <2>3, HandlerKept
  <2> QED BY <2>2, <2>3 DEF Handlers
<1>20. HandlerReady'
  <2>1. Ready(e)'
    BY <1>1, <1>4, <1>5, <1>10 DEF Inv, Handlers, HandlerOk, ReadyPcs, DupPcs, Ready, Writable
  <2> QED BY <1>1, <1>4, <1>5, <1>10, <2>1 DEF Inv, HandlerReady, Ready, Writable
<1> QED BY <1>12, <1>13, <1>14, <1>15, <1>16, <1>17, <1>18, <1>19, <1>20 DEF Inv

-----------------------------------------------------------------------------
(* The theorems *)

(* One program that has been loaded, and no other.                         *)
LEMMA InitInv == Init => Inv
<1> SUFFICES ASSUME Init
             PROVE  Inv
  OBVIOUS
<1>1. /\ {1, 2, 3} \subseteq Frame /\ FirstEnv \in Env /\ FirstEnv \in 0..NENV /\ 0 \in 0..NENV
  BY CowForkAssumption DEF Frame, FirstEnv, Env
<1>2. Zero \in Content /\ [Zero EXCEPT !.thisenv = FirstEnv] \in Content
      /\ [Zero EXCEPT !.thisenv = FirstEnv].thisenv = FirstEnv
      /\ [Zero EXCEPT !.thisenv = FirstEnv].handler = FALSE
  BY <1>1 DEF Zero, Content
<1> DEFINE T == [frame |-> 1, perm |-> "r"]
           D == [frame |-> 2, perm |-> "w"]
           S == [frame |-> 3, perm |-> "w"]
<1>3. /\ T \in Pte /\ D \in Pte /\ S \in Pte /\ T # NULL /\ D # NULL /\ S # NULL
      /\ T.frame = 1 /\ D.frame = 2 /\ S.frame = 3
      /\ T.perm = "r" /\ D.perm = "w" /\ S.perm = "w"
  BY <1>1, Nulls DEF Perm
<1>4. /\ pt[FirstEnv]["text"] = T /\ pt[FirstEnv]["data"] = D /\ pt[FirstEnv]["stack"] = S
      /\ pt[FirstEnv]["pftemp"] = NULL /\ pt[FirstEnv]["uxstack"] = NULL
      /\ \A e \in Env, va \in Va : e # FirstEnv => pt[e][va] = NULL
      /\ pt \in PageTables
  BY <1>1, <1>3 DEF Init, Gone, Va, UserVa, PageTables
<1> HIDE DEF T, D, S
<1>5. content \in [Frame -> Content] /\ Read(FirstEnv, "data") = [Zero EXCEPT !.thisenv = FirstEnv]
  BY <1>1, <1>2, <1>3, <1>4 DEF Init, Read
<1>6. /\ status = [e \in Env |-> IF e = FirstEnv THEN "RUNNABLE" ELSE "FREE"]
      /\ \A e \in Env : /\ pc[e] = "user" /\ pn[e] = 1 /\ child[e] = NULL /\ fault[e] = NULL
  BY DEF Init
<1>7. TypeOK
  <2>1. 1 \in 1..Len(Loop)
    BY LoopFacts
  <2> QED BY <1>4, <1>5, <2>1 DEF Init, TypeOK, PageTables, Pcs
<1>8. Lives
  BY <1>1, <1>4, <1>6 DEF Lives, DupPcs
<1>9. Kinds
  BY <1>3, <1>4 DEF Kinds, Va, UserVa, CowVa
<1>10. Copying /\ Duplicating
  BY <1>4, <1>6 DEF Copying, Duplicating, Va
<1>11. Handlers
  BY <1>2, <1>5, <1>6 DEF Handlers, HandlerOk, ReadyPcs, DupPcs
<1>12. DataThere /\ ThisenvOwn
  BY <1>1, <1>2, <1>3, <1>4, <1>5, <1>6 DEF DataThere, ThisenvOwn
<1>13. HandlerReady
  BY <1>3, <1>4, <1>6 DEF HandlerReady, Va, UserVa
<1>14. Isolated
  <2> SUFFICES ASSUME NEW e \in Env, NEW f \in Env, NEW va \in Va, NEW u \in Va,
                      Writable(e, va), pt[f][u] # NULL, pt[f][u].frame = pt[e][va].frame
               PROVE  f = e /\ u = va
    BY DEF Isolated
  <2>1. e = FirstEnv /\ f = FirstEnv
    BY <1>4 DEF Writable
  <2> QED BY <1>3, <1>4, <2>1 DEF Writable, Va, UserVa
<1> QED BY <1>7, <1>8, <1>9, <1>10, <1>11, <1>12, <1>13, <1>14 DEF Inv

(* Every step keeps the invariant.                                         *)
LEMMA StepInv ==
    ASSUME Inv, [Next]_vars
    PROVE  Inv'
<1>1. ASSUME NEW e \in Env, Step(e)
      PROVE  Inv'
  <2>1. CASE StackWrite(e) \/ Fork(e) \/ exit(e)
    BY <2>1, StackKeeps, ForkKeeps, ExitKeeps
  <2>2. CASE pgfault_alloc(e) \/ pgfault_copy(e) \/ pgfault_map(e) \/ pgfault_unmap(e)
    BY <2>2, PgAllocKeeps, CopyKeeps, PgMapKeeps, PgUnmapKeeps
  <2>3. CASE handler_stack(e) \/ handler_upcall(e) \/ handler_save(e)
    BY <2>3, HandlerStackKeeps, UpcallKeeps, SaveKeeps
  <2>4. CASE sys_exofork(e) \/ dup_read(e) \/ dup_child(e) \/ dup_self(e)
    BY <2>4, ExoforkKeeps, DupReadKeeps, DupChildKeeps, DupSelfKeeps
  <2>5. CASE alloc_ux(e) \/ child_upcall(e) \/ wake(e) \/ child_start(e)
    BY <2>5, AllocUxKeeps, ChildUpcallKeeps, WakeKeeps, ChildStartKeeps
  <2> QED BY <1>1, <2>1, <2>2, <2>3, <2>4, <2>5 DEF Step
<1>2. CASE UNCHANGED vars
  <2>1. UNCHANGED <<status, upcall, pt, content, pc, pn, cow, child, fault, panic>>
    BY <1>2 DEF vars
  <2>2. TypeOK' /\ Lives' /\ Kinds' /\ Handlers' /\ DataThere'
    BY <2>1 DEF Inv, TypeOK, Lives, Kinds, Handlers, HandlerOk, DataThere, Ready, Writable, Read
  <2>3. Copying' /\ Duplicating' /\ HandlerReady' /\ ThisenvOwn'
    BY <2>1 DEF Inv, Copying, Duplicating, HandlerReady, ThisenvOwn, Writable, Read
  <2>4. Isolated'
    BY <2>1 DEF Inv, Isolated, Writable
  <2> QED BY <2>2, <2>3, <2>4 DEF Inv
<1> QED BY <1>1, <1>2 DEF Next

(* The inductive invariant holds of fork, whatever the interleaving.       *)
THEOREM InvKept == Spec => []Inv
  BY InitInv, StepInv, PTL DEF Spec

(* Every variable keeps its form: fork's loop never runs past USTACKTOP,   *)
(* and no system call is given an environment or a page that is not there. *)
THEOREM ForkTypeCorrect == Spec => []TypeOK
<1>1. Inv => TypeOK
  BY DEF Inv
<1> QED BY <1>1, InvKept, PTL

(* Copy-on-write isolates: a page that one environment may write is mapped *)
(* by no other, except in a child that does not run yet, however many      *)
(* environments fork, fault and end at the same time and whichever calls   *)
(* run out of memory.                                                      *)
THEOREM ForkIsolates == Spec => []Isolated
<1>1. Inv => Isolated
  BY DEF Inv
<1> QED BY <1>1, InvKept, PTL

(* Whoever runs with copy-on-write pages can take the fault.               *)
THEOREM ForkHandlerReady == Spec => []HandlerReady
<1>1. Inv => HandlerReady
  BY DEF Inv
<1> QED BY <1>1, InvKept, PTL

(* thisenv is a program's own, although it is copied from the parent.      *)
THEOREM ForkThisenv == Spec => []ThisenvOwn
<1>1. Inv => ThisenvOwn
  BY DEF Inv
<1> QED BY <1>1, InvKept, PTL

-----------------------------------------------------------------------------
(* fork implements private memory.  From here on sys_page_map does not run *)
(* out of memory: fork does not look at duppage's result, and if it failed *)
(* the child would lack a page.                                            *)

(* A program that runs has all its pages.                                  *)
Complete == \A e \in Env, va \in UserVa : status[e] = "RUNNABLE" => pt[e][va] # NULL

(* The pages that the child has been given when fork's loop is at its l of *)
(* page k.                                                                 *)
CopiedAt(l, k) ==
    {va \in UserVa :
       \/ l \in {"alloc_ux", "child_upcall", "wake"}
       \/ /\ l \in {"dup_read", "dup_child", "dup_self"}
          /\ \E j \in 1..4 : va = Loop[j] /\ (j < k \/ (j = k /\ l = "dup_self"))}

Copied(e) == CopiedAt(pc[e], pn[e])

(* They hold what the parent's hold; the parent may have written its stack *)
(* since.                                                                  *)
Alike(c, d, va) ==
    c.handler = d.handler /\ c.thisenv = d.thisenv /\ (va # "stack" => c.writer = d.writer)

PassedOf(e) ==
    \A va \in Copied(e) :
        pt[child[e]][va] # NULL /\ Alike(Read(child[e], va), Read(e, va), va)

Passed == \A e \in Env : PassedOf(e)

Inv2 == Inv /\ Complete /\ Passed

(* What the programs see: the refinement mapping.                          *)
Memory == [e \in Env |-> IF status[e] = "RUNNABLE" THEN [va \in UserVa |-> Read(e, va)] ELSE NULL]

(* Copied, along fork's loop.                                              *)
LEMMA CopiedFacts ==
    /\ \A l, k : l \notin DupPcs => CopiedAt(l, k) = {}
    /\ \A l, k : CopiedAt(l, k) \subseteq UserVa
    /\ CopiedAt("dup_read", 1) = {}
    /\ \A k \in 1..4 : CopiedAt("dup_child", k) = CopiedAt("dup_read", k)
    /\ \A k \in 1..4 : CopiedAt("dup_self", k) \subseteq CopiedAt("dup_read", k) \cup {Loop[k]}
    /\ \A k \in 1..3 : CopiedAt("dup_read", k + 1) \subseteq CopiedAt("dup_read", k) \cup {Loop[k]}
    /\ \A k \in 1..4 : CopiedAt("alloc_ux", k) \subseteq CopiedAt("dup_read", 4) \cup {Loop[4]}
    /\ \A k, j : CopiedAt("alloc_ux", k) = CopiedAt("child_upcall", j)
    /\ \A k, j : CopiedAt("child_upcall", k) = CopiedAt("wake", j)
    /\ \A k : CopiedAt("wake", k) = UserVa
    /\ \A k \in 1..4 : CopiedAt("dup_read", k) \subseteq CopiedAt("dup_self", k)
    /\ \A k \in 1..4 : Loop[k] \in UserVa => Loop[k] \in CopiedAt("dup_self", k)
<1>1. /\ \A l, k : l \notin DupPcs => CopiedAt(l, k) = {}
      /\ \A l, k : CopiedAt(l, k) \subseteq UserVa
  BY DEF CopiedAt, DupPcs
<1>2. /\ \A k, j : CopiedAt("alloc_ux", k) = CopiedAt("child_upcall", j)
      /\ \A k, j : CopiedAt("child_upcall", k) = CopiedAt("wake", j)
      /\ \A k : CopiedAt("wake", k) = UserVa
  BY DEF CopiedAt
<1>3. /\ CopiedAt("dup_read", 1) = {}
      /\ \A k \in 1..4 : CopiedAt("dup_child", k) = CopiedAt("dup_read", k)
      /\ \A k \in 1..4 : CopiedAt("dup_read", k) \subseteq CopiedAt("dup_self", k)
  BY DEF CopiedAt
<1>4. ASSUME NEW k \in 1..4
      PROVE  /\ CopiedAt("dup_self", k) \subseteq CopiedAt("dup_read", k) \cup {Loop[k]}
             /\ Loop[k] \in UserVa => Loop[k] \in CopiedAt("dup_self", k)
  BY DEF CopiedAt
<1>5. ASSUME NEW k \in 1..3
      PROVE  CopiedAt("dup_read", k + 1) \subseteq CopiedAt("dup_read", k) \cup {Loop[k]}
  BY DEF CopiedAt
<1>6. UserVa \subseteq CopiedAt("dup_read", 4) \cup {Loop[4]}
  BY LoopFacts DEF CopiedAt, UserVa
<1> QED BY <1>1, <1>2, <1>3, <1>4, <1>5, <1>6

(* The end of an iteration gives the child the page at hand.               *)
LEMMA NextCopied ==
    ASSUME TypeOK, NEW e \in Env, NextPage(e)
    PROVE  Copied(e)' \subseteq CopiedAt("dup_read", pn[e]) \cup {Loop[pn[e]]}
<1>1. pn \in [Env -> 1..4] /\ pn[e] \in 1..4 /\ pc \in [Env -> Pcs]
  BY LoopFacts DEF TypeOK
<1>2. CASE pn[e] = 4
  <2>1. pc'[e] = "alloc_ux" /\ pn'[e] = 4
    BY <1>1, <1>2, LoopFacts DEF NextPage, Goto
  <2> QED BY <1>2, <2>1, CopiedFacts DEF Copied
<1>3. CASE pn[e] # 4
  <2>1. pc'[e] = "dup_read" /\ pn'[e] = pn[e] + 1 /\ pn[e] \in 1..3
    BY <1>1, <1>3, LoopFacts DEF NextPage, Goto
  <2> QED BY <2>1, CopiedFacts DEF Copied
<1> QED BY <1>2, <1>3

(* Page u of f stays mapped and keeps its contents.                        *)
KeptPage(f, u) == pt[f][u] # NULL => pt'[f][u] # NULL /\ Read(f, u)' = Read(f, u)

(* What the child has been given stays like the parent's.                  *)
LEMMA PassedKept ==
    ASSUME Inv2, NEW g \in Env, Copied(g)' = {} \/ child'[g] = child[g],
           Copied(g)' \subseteq Copied(g),
           \A u \in UserVa : KeptPage(g, u),
           \A f \in Env, u \in UserVa : f = child[g] => KeptPage(f, u)
    PROVE  PassedOf(g)'
<1> SUFFICES ASSUME NEW va \in UserVa, va \in Copied(g), child'[g] = child[g]
             PROVE  (pt[child[g]][va] # NULL)' /\ Alike(Read(child[g], va), Read(g, va), va)'
  BY CopiedFacts DEF PassedOf, Copied
<1>1. pc[g] \in DupPcs
  BY CopiedFacts DEF Copied
<1>2. PICK c \in Env : c = child[g]
  BY <1>1, ChildThere DEF Inv2
<1>3. status[g] = "RUNNABLE"
  <2>1. status[g] \in {"FREE", "NOT_RUNNABLE", "RUNNABLE"}
    BY DEF Inv2, Inv, TypeOK
  <2>2. pc[g] # "user" /\ pc[g] # "child"
    BY <1>1 DEF DupPcs
  <2> QED BY <2>1, <2>2 DEF Inv2, Inv, Lives
<1>4. pt[g][va] # NULL /\ pt[c][va] # NULL /\ Alike(Read(c, va), Read(g, va), va)
  BY <1>2, <1>3 DEF Inv2, Complete, Passed, PassedOf
<1>5. pt'[c][va] # NULL /\ Read(c, va)' = Read(c, va) /\ Read(g, va)' = Read(g, va)
  BY <1>2, <1>4 DEF KeptPage
<1>6. Read(child[g], va)' = Read(c, va)'
  BY <1>2 DEF Read
<1> QED BY <1>2, <1>4, <1>5, <1>6 DEF Alike

(* The programs' memory stays as it is.                                    *)
LEMMA MemoryKept ==
    ASSUME \A f \in Env : status'[f] = "RUNNABLE" <=> status[f] = "RUNNABLE",
           \A f \in Env, u \in UserVa : status[f] = "RUNNABLE" => Read(f, u)' = Read(f, u)
    PROVE  Memory' = Memory
  BY DEF Memory

(* A step that keeps every page: nothing happens to memory.                *)
LEMMA QuietStep ==
    ASSUME Inv2,
           \A f \in Env : status'[f] = "RUNNABLE" <=> status[f] = "RUNNABLE",
           \A f \in Env, u \in UserVa : KeptPage(f, u),
           \A g \in Env : Copied(g)' = {} \/ (child'[g] = child[g] /\ Copied(g)' \subseteq Copied(g))
    PROVE  Complete' /\ Passed' /\ Memory' = Memory
<1>1. \A f \in Env, u \in UserVa : status[f] = "RUNNABLE" =>
         pt[f][u] # NULL /\ pt'[f][u] # NULL /\ Read(f, u)' = Read(f, u)
  BY DEF Inv2, Complete, KeptPage
<1>2. Complete'
  BY <1>1 DEF Complete
<1>3. ASSUME NEW g \in Env
      PROVE  PassedOf(g)'
  BY PassedKept
<1>4. Memory' = Memory
  BY <1>1, MemoryKept
<1> QED BY <1>2, <1>3, <1>4 DEF Passed

-----------------------------------------------------------------------------
(* Which steps keep every page *)

(* Those that leave memory alone,                                          *)
LEMMA SamePages ==
    ASSUME pt' = pt, content' = content
    PROVE  \A f \in Env, u \in UserVa : KeptPage(f, u)
  BY DEF KeptPage, Read

(* those that allocate a page elsewhere than among the program's,          *)
LEMMA AllocPages ==
    ASSUME Inv, NEW e \in Env, NEW va \in Va \ UserVa, sys_page_alloc(e, va)
    PROVE  \A f \in Env, u \in UserVa : KeptPage(f, u)
<1>1. PICK x \in Pte :
         /\ pt' = [pt EXCEPT ![e][va] = x]
         /\ \A f \in Env, u \in Va : pt[f][u] # NULL /\ <<f, u>> # <<e, va>> =>
               Read(f, u)' = Read(f, u)
  BY AllocEffect DEF Inv
<1>2. \A f \in Env, u \in Va : f # e \/ u # va => pt'[f][u] = pt[f][u]
  BY <1>1, Edited DEF Inv, TypeOK, PageTables
<1>3. UserVa \subseteq Va
  BY DEF Va
<1> QED BY <1>1, <1>2, <1>3 DEF KeptPage

(* and those that replace an entry by one with the same contents.          *)
LEMMA EditPages ==
    ASSUME Inv, NEW e \in Env, NEW va \in Va, NEW x \in Pte \cup {NULL},
           SetPt([pt EXCEPT ![e][va] = x], content)
    PROVE  \A f \in Env, u \in UserVa :
              \/ f # e
              \/ u # va
              \/ x # NULL /\ content[x.frame] = Read(e, va)
              => KeptPage(f, u)
<1>1. /\ pt' = [pt EXCEPT ![e][va] = x]
      /\ x # NULL => Read(e, va)' = content[x.frame]
      /\ \A f \in Env, u \in Va : pt[f][u] # NULL /\ <<f, u>> # <<e, va>> =>
            Read(f, u)' = Read(f, u)
  BY EditEffect DEF Inv
<1>2. pt \in PageTables
  BY DEF Inv, TypeOK, PageTables
<1>3. /\ pt'[e][va] = x
      /\ \A f \in Env, u \in Va : f # e \/ u # va => pt'[f][u] = pt[f][u]
  BY <1>1, <1>2 DEF PageTables
<1>4. UserVa \subseteq Va
  BY DEF Va
<1>5. ASSUME NEW f \in Env, NEW u \in UserVa, f # e \/ u # va
      PROVE  KeptPage(f, u)
  BY <1>1, <1>3, <1>4, <1>5 DEF KeptPage
<1>6. x # NULL /\ content[x.frame] = Read(e, va) => KeptPage(e, va)
  BY <1>1, <1>3 DEF KeptPage
<1> QED BY <1>5, <1>6

(* Where fork is does not change, or changes only outside its loop.        *)
LEMMA SamePlace ==
    ASSUME pc' = pc, pn' = pn, child' = child
    PROVE  \A g \in Env : child'[g] = child[g] /\ Copied(g)' \subseteq Copied(g)
  BY DEF Copied

(* One program moves on; the child is given nothing more.                  *)
LEMMA OneMoves ==
    ASSUME Inv, NEW e \in Env, NEW l \in Pcs, pc' = [pc EXCEPT ![e] = l], pn' = pn, child' = child,
           \/ l \notin DupPcs
           \/ pc[e] = "alloc_ux" /\ l = "child_upcall"
           \/ pc[e] = "child_upcall" /\ l = "wake"
    PROVE  \A g \in Env : child'[g] = child[g] /\ Copied(g)' \subseteq Copied(g)
<1>1. pc \in [Env -> Pcs]
  BY DEF Inv, TypeOK
<1>2. Copied(e)' \subseteq Copied(e)
  BY <1>1, CopiedFacts DEF Copied
<1>3. \A g \in Env : g # e => Copied(g)' = Copied(g)
  BY <1>1 DEF Copied
<1> QED BY <1>2, <1>3

(* All the steps during which memory, as programs see it, stays the same.  *)
LEMMA QuietSteps ==
    ASSUME Inv2, NEW e \in Env,
           \/ _panic(e) \/ Fork(e) \/ handler_stack(e) \/ handler_upcall(e) \/ sys_exofork(e)
           \/ dup_read(e) \/ dup_self(e) \/ alloc_ux(e) \/ child_upcall(e)
           \/ pgfault_alloc(e) \/ pgfault_copy(e) \/ pgfault_map(e) \/ pgfault_unmap(e)
    PROVE  Complete' /\ Passed' /\ Memory' = Memory
<1>1. Inv /\ TypeOK /\ pc \in [Env -> Pcs] /\ pn \in [Env -> 1..4]
  BY LoopFacts DEF Inv2, Inv, TypeOK
<1>2. UserVa \subseteq Va /\ "pftemp" \in Va \ UserVa /\ "uxstack" \in Va \ UserVa
  BY DEF Va, UserVa
<1>3. CASE _panic(e)
  <2>1. UNCHANGED <<status, pt, content, pc, pn, child>>
    BY <1>3 DEF _panic, forkVars
  <2> QED BY <2>1, SamePages, SamePlace, QuietStep
<1>4. CASE Fork(e)
  <2>1. PICK l \in {"save_handler", "set_handler"} :
           pc' = [pc EXCEPT ![e] = l] /\ UNCHANGED <<status, pt, content, pn, child>>
    BY <1>4 DEF Fork, Goto, forkVars
  <2>2. l \in Pcs /\ l \notin DupPcs
    BY DEF Pcs, ForkPcs, DupPcs
  <2> QED BY <1>1, <2>1, <2>2, SamePages, OneMoves, QuietStep
<1>5. CASE ~_panic(e) /\ handler_stack(e)
  <2> DEFINE l == "set_upcall"
  <2>1. /\ sys_page_alloc(e, "uxstack") /\ pc' = [pc EXCEPT ![e] = l]
        /\ UNCHANGED <<status, pn, child>>
    BY <1>5 DEF handler_stack, Goto, forkVars
  <2>2. l \in Pcs /\ l \notin DupPcs
    BY DEF Pcs, ForkPcs, DupPcs
  <2> HIDE DEF l
  <2> QED BY <1>1, <1>2, <2>1, <2>2, AllocPages, OneMoves, QuietStep
<1>6. CASE handler_upcall(e)
  <2> DEFINE l == "save_handler"
  <2>1. pc' = [pc EXCEPT ![e] = l] /\ UNCHANGED <<status, pt, content, pn, child>>
    BY <1>6 DEF handler_upcall, Goto, forkVars
  <2>2. l \in Pcs /\ l \notin DupPcs
    BY DEF Pcs, ForkPcs, DupPcs
  <2> HIDE DEF l
  <2> QED BY <1>1, <2>1, <2>2, SamePages, OneMoves, QuietStep
<1>7. CASE ~_panic(e) /\ sys_exofork(e)
  <2>1. PICK f \in Env :
           /\ status[f] = "FREE" /\ status' = [status EXCEPT ![f] = "NOT_RUNNABLE"]
           /\ child' = [child EXCEPT ![e] = f] /\ pn' = [pn EXCEPT ![e] = 1]
           /\ pc' = [pc EXCEPT ![e] = "dup_read", ![f] = "child"]
           /\ UNCHANGED <<pt, content>>
    BY <1>7 DEF sys_exofork
  <2>2. f # e
    BY <1>7, <2>1 DEF sys_exofork, At
  <2>3. status \in [Env -> {"FREE", "NOT_RUNNABLE", "RUNNABLE"}] /\ child \in [Env -> Env \cup {NULL}]
    BY <1>1 DEF TypeOK
  <2>4. Copied(e)' = {} /\ Copied(f)' = {}
    BY <1>1, <2>1, <2>2, CopiedFacts DEF Copied, DupPcs
  <2>5. \A g \in Env : g # e /\ g # f => child'[g] = child[g] /\ Copied(g)' = Copied(g)
    BY <1>1, <2>1, <2>3 DEF Copied
  <2>6. \A g \in Env : Copied(g)' = {} \/ (child'[g] = child[g] /\ Copied(g)' \subseteq Copied(g))
    BY <2>4, <2>5
  <2>7. \A g \in Env : status'[g] = "RUNNABLE" <=> status[g] = "RUNNABLE"
    BY <2>1, <2>3
  <2> QED BY <2>1, <2>6, <2>7, SamePages, QuietStep
<1>8. CASE dup_read(e)
  <2>1. /\ UNCHANGED <<status, pt, content, child>> /\ status[e] = "RUNNABLE"
        /\ pc[e] = "dup_read" /\ fault[e] = NULL
    BY <1>8 DEF dup_read, At
  <2>2. Copied(e)' \subseteq Copied(e)
    <3>1. CASE pt[e][Loop[pn[e]]] = NULL
      <4>1. NextPage(e)
        BY <1>8, <3>1 DEF dup_read
      <4>2. Loop[pn[e]] \notin UserVa
        BY <2>1, <3>1 DEF Inv2, Complete
      <4>3. Copied(e)' \subseteq CopiedAt("dup_read", pn[e]) \cup {Loop[pn[e]]}
        BY <1>1, <4>1, NextCopied
      <4>4. Copied(e)' \subseteq UserVa
        BY CopiedFacts DEF Copied
      <4> QED BY <2>1, <4>2, <4>3, <4>4 DEF Copied
    <3>2. CASE pt[e][Loop[pn[e]]] # NULL
      <4>1. pc'[e] = "dup_child" /\ pn'[e] = pn[e] /\ pn[e] \in 1..4
        BY <1>1, <1>8, <3>2 DEF dup_read, Goto
      <4> QED BY <2>1, <4>1, CopiedFacts DEF Copied
    <3> QED BY <3>1, <3>2
  <2>3. \A g \in Env : g # e => pc'[g] = pc[g] /\ pn'[g] = pn[g]
    BY <1>1, <1>8, NextPageEffect DEF dup_read, Goto
  <2>4. \A g \in Env : child'[g] = child[g] /\ Copied(g)' \subseteq Copied(g)
    BY <2>1, <2>2, <2>3 DEF Copied
  <2> QED BY <2>1, <2>4, SamePages, QuietStep
<1>9. CASE dup_self(e)
  <2>1. /\ UNCHANGED <<status, child>> /\ pc[e] = "dup_self" /\ NextPage(e)
    BY <1>9 DEF dup_self, At
  <2>2. Copied(e)' \subseteq Copied(e)
    <3>1. Copied(e)' \subseteq CopiedAt("dup_read", pn[e]) \cup {Loop[pn[e]]}
      BY <1>1, <2>1, NextCopied
    <3>2. pn[e] \in 1..4 /\ Loop[pn[e]] \in UserVa
      BY <1>1, <2>1 DEF Inv, Duplicating
    <3> QED BY <2>1, <3>1, <3>2, CopiedFacts DEF Copied
  <2>3. \A g \in Env : g # e => pc'[g] = pc[g] /\ pn'[g] = pn[g]
    BY <1>1, <2>1, NextPageEffect
  <2>4. \A g \in Env : child'[g] = child[g] /\ Copied(g)' \subseteq Copied(g)
    BY <2>1, <2>2, <2>3 DEF Copied
  <2>5. PICK va \in Va : va = Loop[pn[e]] /\ pt[e][va] # NULL
    BY <1>1, <1>2, <2>1 DEF Inv, Duplicating
  <2> DEFINE x == [frame |-> pt[e][va].frame, perm |-> "cow"]
  <2>6. x \in Pte /\ x # NULL /\ x.frame = pt[e][va].frame
    <3>1. pt[e][va].frame \in Frame /\ "cow" \in Perm
      BY <1>1, <2>5, Nulls DEF TypeOK, Perm
    <3> QED BY <3>1, Nulls
  <2>7. SetPt([pt EXCEPT ![e][va] = x], content)
    BY <1>9, <2>5 DEF dup_self, sys_page_map
  <2>8. x # NULL /\ content[x.frame] = Read(e, va) /\ x \in Pte \cup {NULL}
    BY <2>6 DEF Read
  <2> HIDE DEF x
  <2>9. \A f \in Env, u \in UserVa : KeptPage(f, u)
    BY <1>1, <2>7, <2>8, EditPages
  <2> QED BY <2>1, <2>4, <2>9, QuietStep
<1>10. CASE ~_panic(e) /\ alloc_ux(e)
  <2> DEFINE l == "child_upcall"
             t == child[e]
  <2>1. /\ sys_page_alloc(t, "uxstack") /\ pc' = [pc EXCEPT ![e] = l] /\ pc[e] = "alloc_ux"
        /\ UNCHANGED <<status, pn, child>>
    BY <1>10 DEF alloc_ux, Goto, forkVars, At
  <2>2. l \in Pcs /\ l = "child_upcall" /\ t \in Env
    BY <1>1, <2>1, ChildThere DEF Pcs, ForkPcs, DupPcs
  <2> HIDE DEF l, t
  <2> QED BY <1>1, <1>2, <2>1, <2>2, AllocPages, OneMoves, QuietStep
<1>11. CASE child_upcall(e)
  <2> DEFINE l == "wake"
  <2>1. /\ pc' = [pc EXCEPT ![e] = l] /\ UNCHANGED <<status, pt, content, pn, child>>
        /\ pc[e] = "child_upcall"
    BY <1>11 DEF child_upcall, Goto, forkVars, At
  <2>2. l \in Pcs /\ l = "wake"
    BY DEF Pcs, ForkPcs
  <2> HIDE DEF l
  <2> QED BY <1>1, <2>1, <2>2, SamePages, OneMoves, QuietStep
<1>12. CASE ~_panic(e) /\ pgfault_alloc(e)
  <2>1. sys_page_alloc(e, "pftemp") /\ UNCHANGED <<status, pc, pn, child>>
    BY <1>12 DEF pgfault_alloc, forkVars
  <2>2. \A f \in Env, u \in UserVa : KeptPage(f, u)
    BY <1>1, <1>2, <2>1, AllocPages
  <2> QED BY <2>1, <2>2, SamePlace, QuietStep
<1>13. CASE pgfault_copy(e)
  <2>1. /\ status[e] = "RUNNABLE" /\ fault[e] # NULL /\ fault[e].at = "copy"
        /\ Store(e, "pftemp", Read(e, fault[e].va)) /\ UNCHANGED <<status, pt, pc, pn, child>>
    BY <1>13 DEF pgfault_copy, Handling, forkVars
  <2> DEFINE n == pt[e]["pftemp"].frame
             c == Read(e, fault[e].va)
  <2>2. content' = [content EXCEPT ![n] = c] /\ pt[e]["pftemp"] # NULL
    BY <2>1 DEF Store, Writable
  <2>3. \A f \in Env, u \in UserVa : pt[f][u] # NULL => pt[f][u].frame # n
    BY <1>1, <1>2, <2>1, <2>2, CopyPrivate
  <2>4. content \in [Frame -> Content] /\ \A f \in Env, u \in UserVa : pt[f][u] # NULL => pt[f][u].frame \in Frame
    BY <1>1, <1>2, Nulls DEF TypeOK
  <2> HIDE DEF n, c
  <2>5. \A f \in Env, u \in UserVa : KeptPage(f, u)
    BY <2>1, <2>2, <2>3, <2>4 DEF KeptPage, Read
  <2> QED BY <2>1, <2>5, SamePlace, QuietStep
<1>14. CASE pgfault_map(e)
  <2>1. fault[e] # NULL /\ fault[e].at = "map" /\ UNCHANGED <<status, pc, pn, child>>
    BY <1>14 DEF pgfault_map, Handling, forkVars
  <2>2. PICK va \in CowVa : va = fault[e].va
    BY <1>1, <2>1, CopySource
  <2>3. va \in Va /\ pt[e]["pftemp"] # NULL /\ Read(e, "pftemp") = Read(e, va)
    BY <1>1, <2>1, <2>2 DEF Inv, Copying, CowVa, Va, UserVa
  <2> DEFINE x == [frame |-> pt[e]["pftemp"].frame, perm |-> "w"]
  <2>4. SetPt([pt EXCEPT ![e][va] = x], content)
    BY <1>14, <2>2 DEF pgfault_map, sys_page_map
  <2>5. x \in Pte /\ x # NULL /\ x.frame = pt[e]["pftemp"].frame
    <3>1. pt[e]["pftemp"].frame \in Frame /\ "w" \in Perm
      BY <1>1, <1>2, <2>3, Nulls DEF TypeOK, Perm
    <3> QED BY <3>1, Nulls
  <2>6. x # NULL /\ content[x.frame] = Read(e, va) /\ x \in Pte \cup {NULL}
    BY <2>3, <2>5 DEF Read
  <2> HIDE DEF x
  <2>7. \A f \in Env, u \in UserVa : KeptPage(f, u)
    BY <1>1, <2>3, <2>4, <2>6, EditPages
  <2> QED BY <2>1, <2>7, SamePlace, QuietStep
<1>15. CASE pgfault_unmap(e)
  <2>1. /\ SetPt([pt EXCEPT ![e]["pftemp"] = NULL], content) /\ UNCHANGED <<status, pc, pn, child>>
    BY <1>15 DEF pgfault_unmap, forkVars
  <2>2. \A f \in Env, u \in UserVa : KeptPage(f, u)
    BY <1>1, <1>2, <2>1, EditPages
  <2> QED BY <2>1, <2>2, SamePlace, QuietStep
<1> QED BY <1>3, <1>4, <1>5, <1>6, <1>7, <1>8, <1>9, <1>10, <1>11, <1>12, <1>13, <1>14, <1>15

-----------------------------------------------------------------------------
(* Steps that programs see *)

(* A program ends.                                                         *)
LEMMA EndStep ==
    ASSUME Inv2, NEW e \in Env, status[e] = "RUNNABLE", pc[e] \notin DupPcs,
           status' = [status EXCEPT ![e] = "FREE"], pc' = [pc EXCEPT ![e] = "user"],
           SetPt([pt EXCEPT ![e] = Gone(e)], content), UNCHANGED <<pn, child>>
    PROVE  Complete' /\ Passed' /\ Memory' = [Memory EXCEPT ![e] = NULL]
<1>1. Inv /\ pc \in [Env -> Pcs] /\ status \in [Env -> {"FREE", "NOT_RUNNABLE", "RUNNABLE"}]
  BY DEF Inv2, Inv, TypeOK
<1>2. /\ \A f \in Env : f # e => pt'[f] = pt[f]
      /\ \A f \in Env, u \in Va : pt[f][u] # NULL /\ f # e => Read(f, u)' = Read(f, u)
  BY GoneEffect DEF Inv2, Inv
<1>3. UserVa \subseteq Va
  BY DEF Va
<1>4. \A f \in Env, u \in UserVa : f # e => KeptPage(f, u)
  BY <1>2, <1>3 DEF KeptPage
<1>5. \A f \in Env, u \in UserVa : f # e /\ status[f] = "RUNNABLE" =>
         pt[f][u] # NULL /\ pt'[f][u] # NULL /\ Read(f, u)' = Read(f, u)
  BY <1>4 DEF Inv2, Complete, KeptPage
<1>6. Complete'
  BY <1>1, <1>5 DEF Complete
<1>7. ASSUME NEW g \in Env
      PROVE  PassedOf(g)'
  <2>1. CASE g = e
    <3>1. Copied(e)' = {}
      BY <1>1, CopiedFacts DEF Copied, DupPcs
    <3> QED BY <2>1, <3>1 DEF PassedOf
  <2>2. CASE g # e
    <3>1. Copied(g)' = Copied(g) /\ child'[g] = child[g]
      BY <1>1, <2>2 DEF Copied
    <3>2. child[g] # e
      BY <1>1, Nulls DEF Inv, Lives
    <3> QED BY <1>4, <2>2, <3>1, <3>2, PassedKept
  <2> QED BY <2>1, <2>2
<1>8. Memory' = [Memory EXCEPT ![e] = NULL]
  BY <1>1, <1>5 DEF Memory
<1> QED BY <1>6, <1>7, <1>8 DEF Passed

(* A page fault: the program sees nothing of it, or ends.                  *)
LEMMA FaultStep ==
    ASSUME Inv2, NEW e \in Env, NEW va \in CowVa, status[e] = "RUNNABLE", fault[e] = NULL,
           page_fault_handler(e, va)
    PROVE  /\ Complete' /\ Passed'
           /\ Memory' = Memory \/ Memory' = [Memory EXCEPT ![e] = NULL]
<1>1. CASE Ready(e) /\ pt[e][va] # NULL /\ pt[e][va].perm = "cow"
  <2>1. UNCHANGED <<status, pt, content, pc, pn, child>>
    BY <1>1 DEF page_fault_handler, Ready, forkVars
  <2> QED BY <2>1, SamePages, SamePlace, QuietStep
<1>2. CASE Ready(e) /\ ~(pt[e][va] # NULL /\ pt[e][va].perm = "cow")
  <2>1. _panic(e)
    BY <1>2 DEF page_fault_handler, Ready
  <2> QED BY <2>1, QuietSteps
<1>3. CASE ~Ready(e)
  <2>1. pc[e] \notin DupPcs
    BY <1>3 DEF Inv2, Inv, Handlers, HandlerOk, ReadyPcs
  <2> QED BY <1>3, <2>1, EndStep DEF page_fault_handler, Ready, Goto, forkVars
<1> QED BY <1>1, <1>2, <1>3

(* Who reads what a program has written: itself, and between duppage's two *)
(* calls its child.                                                        *)
LEMMA WriteEffect ==
    ASSUME Inv, NEW e \in Env, NEW va \in UserVa, NEW c, fault[e] = NULL,
           Store(e, va, c), pt' = pt
    PROVE  /\ Read(e, va)' = c
           /\ \A f \in Env, u \in UserVa : pt[f][u] # NULL /\ (f # e \/ u # va) =>
                 \/ Read(f, u)' = Read(f, u)
                 \/ f = child[e] /\ u = va /\ pc[e] = "dup_self" /\ Read(f, u)' = c
<1> DEFINE n == pt[e][va].frame
<1>1. content' = [content EXCEPT ![n] = c] /\ Writable(e, va) /\ pt[e][va] # NULL
  BY DEF Store, Writable
<1>2. UserVa \subseteq Va
  BY DEF Va
<1>3. content \in [Frame -> Content] /\ \A f \in Env, u \in UserVa : pt[f][u] # NULL => pt[f][u].frame \in Frame
  BY <1>2, Nulls DEF Inv, TypeOK
<1>4. ASSUME NEW f \in Env, NEW u \in UserVa, pt[f][u] # NULL, f # e \/ u # va,
             pt[f][u].frame = n
      PROVE  f = child[e] /\ u = va /\ pc[e] = "dup_self"
  <2>1. Shares(e, va, f, u)
    BY <1>1, <1>4 DEF Shares
  <2>2. Meant(e, va, f, u)
    BY <1>2, <2>1, UseIsolated DEF Inv
  <2> QED BY <2>2 DEF Meant
<1>5. n \in Frame
  BY <1>1, <1>3
<1>6. Read(e, va)' = c
  BY <1>1, <1>3, <1>5 DEF Read
<1>7. ASSUME NEW f \in Env, NEW u \in UserVa, pt[f][u] # NULL, f # e \/ u # va
      PROVE  \/ Read(f, u)' = Read(f, u)
             \/ f = child[e] /\ u = va /\ pc[e] = "dup_self" /\ Read(f, u)' = c
  <2>1. pt[f][u].frame \in Frame
    BY <1>3, <1>7
  <2>2. CASE pt[f][u].frame = n
    BY <1>1, <1>3, <1>4, <1>5, <1>7, <2>2 DEF Read
  <2>3. CASE pt[f][u].frame # n
    BY <1>1, <1>3, <1>5, <2>1, <2>3 DEF Read
  <2> QED BY <2>2, <2>3
<1> QED BY <1>6, <1>7

(* A program writes a page: the others, and the children being made, have  *)
(* what they had.                                                          *)
LEMMA WriteStep ==
    ASSUME Inv2, NEW e \in Env, NEW va \in UserVa, NEW c, status[e] = "RUNNABLE", fault[e] = NULL,
           Store(e, va, c), UNCHANGED <<status, pt, pn, child>>,
           \A g \in Env : g # e => pc'[g] = pc[g],
           Copied(e)' \subseteq Copied(e),
           Copied(e) = {} \/ (/\ va = "stack" /\ c.handler = Read(e, va).handler
                              /\ c.thisenv = Read(e, va).thisenv)
    PROVE  Complete' /\ Passed' /\ Memory' = [Memory EXCEPT ![e][va] = c]
<1>1. Inv
  BY DEF Inv2
<1>2. /\ Read(e, va)' = c
      /\ \A f \in Env, u \in UserVa : pt[f][u] # NULL /\ (f # e \/ u # va) =>
            \/ Read(f, u)' = Read(f, u)
            \/ f = child[e] /\ u = va /\ pc[e] = "dup_self" /\ Read(f, u)' = c
  BY <1>1, WriteEffect
<1>3. pc[e] = "dup_self" => child[e] \in Env /\ status[child[e]] = "NOT_RUNNABLE"
  BY <1>1, ChildThere DEF DupPcs
<1>4. Complete'
  BY DEF Inv2, Complete
<1>5. \A f \in Env, u \in UserVa : status[f] = "RUNNABLE" /\ (f # e \/ u # va) =>
         Read(f, u)' = Read(f, u)
  BY <1>2, <1>3 DEF Inv2, Complete
<1>6. Memory' = [Memory EXCEPT ![e][va] = c]
  <2> DEFINE M(f) == [u \in UserVa |-> Read(f, u)]
             N == [u \in UserVa |-> Read(e, u)']
  <2>1. N = [M(e) EXCEPT ![va] = c]
    BY <1>2, <1>5
  <2>2. \A f \in Env : f # e /\ status[f] = "RUNNABLE" => [u \in UserVa |-> Read(f, u)'] = M(f)
    BY <1>5
  <2>3. Memory[e] = M(e) /\ Memory'[e] = N
    BY DEF Memory
  <2>4. \A f \in Env : f # e => Memory'[f] = Memory[f]
    BY <2>2 DEF Memory
  <2> HIDE DEF M, N
  <2>5. DOMAIN Memory = Env /\ DOMAIN Memory' = Env
        /\ Memory = [f \in Env |-> Memory[f]] /\ Memory' = [f \in Env |-> Memory'[f]]
    BY DEF Memory
  <2>6. Memory'[e] = [Memory[e] EXCEPT ![va] = c]
    BY <2>1, <2>3
  <2> QED BY <2>4, <2>5, <2>6
<1>7. ASSUME NEW g \in Env, g # e
      PROVE  PassedOf(g)'
  <2>1. Copied(g)' = Copied(g) /\ child'[g] = child[g]
    BY <1>7 DEF Copied
  <2>2. CASE Copied(g) = {}
    BY <2>1, <2>2 DEF PassedOf
  <2>3. CASE Copied(g) # {}
    <3>1. pc[g] \in DupPcs
      BY <2>3, CopiedFacts DEF Copied
    <3>2. pc[g] # "child" /\ child[g] \in Env
      BY <1>1, <3>1, ChildThere DEF DupPcs
    <3>3. pc[e] = "dup_self" => child[e] # g
      BY <1>1, <3>2, ChildThere DEF DupPcs
    <3>4. pc[e] = "dup_self" => child[e] # child[g]
      BY <1>1, <1>3, <1>7, Nulls DEF Inv, Lives
    <3>5. child[g] # e
      BY <1>1, <3>1, ChildThere
    <3>6. \A u \in UserVa : KeptPage(g, u)
      BY <1>2, <1>7, <3>3 DEF KeptPage
    <3>7. \A f \in Env, u \in UserVa : f = child[g] => KeptPage(f, u)
      BY <1>2, <3>4, <3>5 DEF KeptPage
    <3> QED BY <2>1, <3>6, <3>7, PassedKept
  <2> QED BY <2>2, <2>3
<1>8. PassedOf(e)'
  <2>1. ASSUME NEW u \in Copied(e)'
        PROVE  (pt[child[e]][u] # NULL)' /\ Alike(Read(child[e], u), Read(e, u), u)'
    <3>1. u \in Copied(e) /\ u \in UserVa /\ va = "stack"
          /\ c.handler = Read(e, va).handler /\ c.thisenv = Read(e, va).thisenv
      BY <2>1, CopiedFacts DEF Copied
    <3>2. pc[e] \in DupPcs
      BY <3>1, CopiedFacts DEF Copied
    <3>3. PICK t \in Env : t = child[e] /\ t # e
      BY <1>1, <3>2, ChildThere
    <3>4. pt[t][u] # NULL /\ Alike(Read(t, u), Read(e, u), u) /\ pt[e][u] # NULL
      BY <3>1, <3>3 DEF Inv2, Passed, PassedOf, Complete
    <3>5. Read(child[e], u)' = Read(t, u)'
      BY <3>3 DEF Read
    <3>6. CASE u # va
      <4>1. Read(t, u)' = Read(t, u) /\ Read(e, u)' = Read(e, u)
        BY <1>2, <3>1, <3>3, <3>4, <3>6
      <4> QED BY <3>3, <3>4, <3>5, <4>1 DEF Alike
    <3>7. CASE u = va
      <4>1. Read(e, u)' = c /\ (Read(t, u)' = Read(t, u) \/ Read(t, u)' = c)
        BY <1>2, <3>1, <3>3, <3>4, <3>7
      <4> QED BY <3>1, <3>3, <3>4, <3>5, <3>7, <4>1 DEF Alike
    <3> QED BY <3>6, <3>7
  <2> QED BY <2>1 DEF PassedOf
<1> QED BY <1>4, <1>6, <1>7, <1>8 DEF Passed

(* duppage gives the child the page as the parent has it.                  *)
LEMMA ShareStep ==
    ASSUME Inv2, NEW e \in Env, dup_child(e), "map" \notin Failures
    PROVE  Complete' /\ Passed' /\ Memory' = Memory
<1>1. /\ Inv /\ TypeOK /\ pc \in [Env -> Pcs] /\ pn \in [Env -> 1..4] /\ pn[e] \in 1..4
      /\ pt \in PageTables /\ cow \in [Env -> BOOLEAN]
  BY LoopFacts DEF Inv2, Inv, TypeOK, PageTables
<1>2. /\ status[e] = "RUNNABLE" /\ fault[e] = NULL /\ pc[e] = "dup_child"
      /\ UNCHANGED <<status, child>>
  BY DEF dup_child, At
<1>3. PICK t \in Env : t = child[e] /\ t # e /\ status[t] = "NOT_RUNNABLE" /\ pc[t] = "child"
  BY <1>1, <1>2, ChildThere DEF DupPcs
<1>4. PICK va \in UserVa : va = Loop[pn[e]] /\ va \in Va /\ pt[e][va] # NULL
  BY <1>1, <1>2 DEF Inv, Duplicating, Va
<1>5. PICK p \in Perm : p = (IF cow[e] THEN "cow" ELSE "r")
  BY DEF Perm
<1> DEFINE x == [frame |-> pt[e][va].frame, perm |-> p]
<1>6. /\ SetPt([pt EXCEPT ![t][va] = x], content)
      /\ IF cow[e] THEN Goto(e, "dup_self") /\ UNCHANGED pn ELSE NextPage(e)
  BY <1>3, <1>4, <1>5 DEF dup_child, sys_page_map, MapResults
<1>7. x \in Pte /\ x # NULL /\ x.frame = pt[e][va].frame /\ x \in Pte \cup {NULL}
  <2>1. pt[e][va].frame \in Frame
    BY <1>1, <1>4, Nulls DEF PageTables
  <2> QED BY <2>1, Nulls
<1> HIDE DEF x
<1>8. SetPt([pt EXCEPT ![t][va] = x], content)
  BY <1>6
<1>9. \A f \in Env, u \in UserVa : f # t \/ u # va => KeptPage(f, u)
  BY <1>1, <1>4, <1>7, <1>8, EditPages
<1>10. /\ pt' = [pt EXCEPT ![t][va] = x] /\ (x # NULL => Read(t, va)' = content[x.frame])
  BY <1>1, <1>4, <1>7, <1>8, EditEffect
<1>11. pt'[t][va] # NULL /\ Read(t, va)' = Read(e, va)
  <2>1. pt'[t][va] = x
    BY <1>1, <1>4, <1>10 DEF PageTables
  <2> QED BY <1>7, <1>10, <2>1 DEF Read
<1>12. Copied(e)' \subseteq Copied(e) \cup {va}
  <2>1. Copied(e) = CopiedAt("dup_read", pn[e])
    BY <1>1, <1>2, CopiedFacts DEF Copied
  <2>2. CASE cow[e]
    <3>1. pc'[e] = "dup_self" /\ pn'[e] = pn[e]
      BY <1>1, <1>6, <2>2 DEF Goto
    <3> QED BY <1>1, <1>4, <2>1, <3>1, CopiedFacts DEF Copied
  <2>3. CASE ~cow[e]
    BY <1>1, <1>4, <1>6, <2>1, <2>3, NextCopied
  <2> QED BY <2>2, <2>3
<1>13. \A g \in Env : g # e => pc'[g] = pc[g] /\ pn'[g] = pn[g]
  <2>1. CASE cow[e]
    BY <1>1, <1>6, <2>1 DEF Goto
  <2>2. CASE ~cow[e]
    BY <1>1, <1>6, <2>2, NextPageEffect
  <2> QED BY <2>1, <2>2
<1>14. \A f \in Env, u \in UserVa : status[f] = "RUNNABLE" =>
          pt[f][u] # NULL /\ pt'[f][u] # NULL /\ Read(f, u)' = Read(f, u)
  BY <1>3, <1>9 DEF Inv2, Complete, KeptPage
<1>15. Complete'
  BY <1>2, <1>14 DEF Complete
<1>16. Memory' = Memory
  BY <1>2, <1>14, MemoryKept
<1>17. ASSUME NEW g \in Env, g # e
       PROVE  PassedOf(g)'
  <2>1. Copied(g)' = Copied(g) /\ child'[g] = child[g]
    BY <1>2, <1>13, <1>17 DEF Copied
  <2>2. CASE Copied(g) = {}
    BY <2>1, <2>2 DEF PassedOf
  <2>3. CASE Copied(g) # {}
    <3>1. pc[g] \in DupPcs
      BY <2>3, CopiedFacts DEF Copied
    <3>2. g # t
      BY <1>3, <3>1 DEF DupPcs
    <3>3. child[g] # t
      BY <1>1, <1>3, <1>17, Nulls DEF Inv, Lives
    <3> QED BY <1>9, <2>1, <3>2, <3>3, PassedKept
  <2> QED BY <2>2, <2>3
<1>18. PassedOf(e)'
  <2>1. ASSUME NEW u \in Copied(e)'
        PROVE  (pt[child[e]][u] # NULL)' /\ Alike(Read(child[e], u), Read(e, u), u)'
    <3>1. u \in UserVa /\ (u = va \/ u \in Copied(e))
      BY <1>12, <2>1, CopiedFacts DEF Copied
    <3>2. Read(child[e], u)' = Read(t, u)' /\ child'[e] = t
      BY <1>2, <1>3 DEF Read
    <3>3. Read(e, u)' = Read(e, u)
      BY <1>2, <1>14, <3>1
    <3>4. CASE u = va
      BY <1>11, <3>2, <3>3, <3>4 DEF Alike
    <3>5. CASE u # va
      <4>1. pt[t][u] # NULL /\ Alike(Read(t, u), Read(e, u), u)
        BY <1>3, <3>1, <3>5 DEF Inv2, Passed, PassedOf
      <4>2. pt'[t][u] # NULL /\ Read(t, u)' = Read(t, u)
        BY <1>9, <3>1, <3>5, <4>1 DEF KeptPage
      <4> QED BY <3>2, <3>3, <4>1, <4>2 DEF Alike
    <3> QED BY <3>4, <3>5
  <2> QED BY <2>1 DEF PassedOf
<1> QED BY <1>15, <1>16, <1>17, <1>18 DEF Passed

(* The child wakes up with a copy of its parent's memory.                  *)
LEMMA WakeStep ==
    ASSUME Inv2, NEW e \in Env, wake(e)
    PROVE  /\ Complete' /\ Passed'
           /\ \E c \in Env, w \in Env \cup {0} :
                 /\ Memory[e] # NULL /\ Memory[c] = NULL
                 /\ Memory' = [Memory EXCEPT ![c] = [Memory[e] EXCEPT !["stack"].writer = w]]
<1>1. /\ Inv /\ TypeOK /\ pc \in [Env -> Pcs] /\ pn \in [Env -> 1..4]
      /\ status \in [Env -> {"FREE", "NOT_RUNNABLE", "RUNNABLE"}]
      /\ child \in [Env -> Env \cup {NULL}]
  BY LoopFacts DEF Inv2, Inv, TypeOK
<1>2. /\ status[e] = "RUNNABLE" /\ pc[e] = "wake"
      /\ status' = [status EXCEPT ![child[e]] = "RUNNABLE"] /\ pc' = [pc EXCEPT ![e] = "user"]
      /\ child' = [child EXCEPT ![e] = NULL] /\ pn' = [pn EXCEPT ![e] = 1]
      /\ UNCHANGED <<pt, content>>
  BY DEF wake, At, Goto
<1>3. PICK c \in Env : c = child[e] /\ c # e /\ status[c] = "NOT_RUNNABLE"
  BY <1>1, <1>2, ChildThere DEF DupPcs
<1>4. Copied(e) = UserVa
  BY <1>2, CopiedFacts DEF Copied
<1>5. \A va \in UserVa : /\ pt[c][va] # NULL /\ pt[e][va] # NULL
                         /\ Alike(Read(c, va), Read(e, va), va)
  BY <1>2, <1>3, <1>4 DEF Inv2, Passed, PassedOf, Complete
<1>6. Complete'
  BY <1>1, <1>2, <1>3, <1>5 DEF Inv2, Complete
<1>7. \A f \in Env, u \in Va : Read(f, u)' = Read(f, u)
  BY <1>2 DEF Read
<1>8. ASSUME NEW g \in Env
      PROVE  PassedOf(g)'
  <2>1. CASE g = e
    <3>1. Copied(e)' = {}
      BY <1>1, <1>2, CopiedFacts DEF Copied, DupPcs
    <3> QED BY <2>1, <3>1 DEF PassedOf
  <2>2. CASE g # e
    <3>1. Copied(g)' = Copied(g) /\ child'[g] = child[g]
      BY <1>1, <1>2, <2>2 DEF Copied
    <3>2. \A f \in Env, u \in UserVa : KeptPage(f, u)
      BY <1>2, SamePages
    <3> QED BY <3>1, <3>2, PassedKept
  <2> QED BY <2>1, <2>2
<1>9. UserVa \subseteq Va /\ "stack" \in UserVa
  BY DEF Va, UserVa
<1>10. \A va \in UserVa : Read(c, va) \in Content /\ Read(e, va) \in Content
  BY <1>1, <1>5, <1>9, Written
<1> DEFINE w == Read(c, "stack").writer
           C == [va \in UserVa |-> Read(c, va)]
           P == [va \in UserVa |-> Read(e, va)]
<1>11. w \in Env \cup {0}
  BY <1>9, <1>10, CowForkAssumption DEF Content, Env
<1>12. ASSUME NEW va \in UserVa, va # "stack"
       PROVE  Read(c, va) = Read(e, va)
  <2>1. Read(c, va) \in Content /\ Read(e, va) \in Content /\ Alike(Read(c, va), Read(e, va), va)
    BY <1>5, <1>10
  <2> DEFINE a == Read(c, va)
             b == Read(e, va)
  <2>2. a \in Content /\ b \in Content /\ Alike(a, b, va)
    BY <2>1
  <2> HIDE DEF a, b
  <2>3. a = b
    BY <1>12, <2>2 DEF Alike, Content
  <2> QED BY <2>3 DEF a, b
<1>13. Read(c, "stack") = [Read(e, "stack") EXCEPT !.writer = w]
  <2> DEFINE a == Read(c, "stack")
             b == Read(e, "stack")
  <2>1. a \in Content /\ b \in Content /\ Alike(a, b, "stack")
    BY <1>5, <1>9, <1>10
  <2> HIDE DEF a, b
  <2>2. a = [b EXCEPT !.writer = a.writer]
    BY <2>1 DEF Alike, Content
  <2> QED BY <2>2 DEF a, b
<1>14. C = [P EXCEPT !["stack"].writer = w]
  BY <1>9, <1>12, <1>13
<1>15. P \in [UserVa -> Content]
  BY <1>10
<1>16. P # NULL
  BY <1>15, CowForkNull
<1>17. Memory[e] = P /\ Memory[c] = NULL
  BY <1>2, <1>3 DEF Memory
<1>18. Memory' = [Memory EXCEPT ![c] = C]
  <2>1. \A f \in Env : f # c => (status'[f] = "RUNNABLE" <=> status[f] = "RUNNABLE")
    BY <1>1, <1>2, <1>3
  <2>2. status'[c] = "RUNNABLE"
    BY <1>1, <1>2, <1>3
  <2>3. \A f \in Env : [va \in UserVa |-> Read(f, va)'] = [va \in UserVa |-> Read(f, va)]
    BY <1>7, <1>9
  <2>4. Memory'[c] = C
    BY <2>2, <2>3 DEF Memory
  <2>5. \A f \in Env : f # c => Memory'[f] = Memory[f]
    BY <2>1, <2>3 DEF Memory
  <2>6. Memory = [f \in Env |-> Memory[f]] /\ Memory' = [f \in Env |-> Memory'[f]]
    BY DEF Memory
  <2> HIDE DEF C
  <2> QED BY <2>4, <2>5, <2>6
<1> HIDE DEF w, C, P
<1>19. Memory' = [Memory EXCEPT ![c] = [Memory[e] EXCEPT !["stack"].writer = w]]
  BY <1>14, <1>17, <1>18
<1> QED BY <1>6, <1>8, <1>11, <1>16, <1>17, <1>19 DEF Passed

(* A program that runs has a memory.                                       *)
LEMMA HasMemory ==
    ASSUME Inv2, NEW e \in Env, status[e] = "RUNNABLE"
    PROVE  Memory[e] # NULL /\ Memory[e] = [va \in UserVa |-> Read(e, va)]
<1>1. UserVa \subseteq Va
  BY DEF Va
<1>2. \A va \in UserVa : Read(e, va) \in Content
  BY <1>1, Written DEF Inv2, Complete
<1>3. [va \in UserVa |-> Read(e, va)] \in [UserVa -> Content]
  BY <1>2
<1>4. [va \in UserVa |-> Read(e, va)] # NULL
  BY <1>3, CowForkNull
<1> QED BY <1>4 DEF Memory

(* PrivateMemory's steps, of the memory that programs see.                 *)
LEMMA SeenSteps ==
    ASSUME NEW e \in Env
    PROVE  /\ Memory[e] # NULL =>
                /\ Memory' = [Memory EXCEPT ![e] = NULL] => PM!Next
                /\ Memory' = [Memory EXCEPT ![e]["stack"].writer = e] => PM!Next
                /\ Memory' = [Memory EXCEPT ![e]["data"].handler = TRUE] => PM!Next
                /\ Memory' = [Memory EXCEPT ![e]["data"].thisenv = e] => PM!Next
           /\ \A c \in Env, w \in Env \cup {0} :
                /\ Memory[e] # NULL /\ Memory[c] = NULL
                /\ Memory' = [Memory EXCEPT ![c] = [Memory[e] EXCEPT !["stack"].writer = w]]
                => PM!Next
<1>1. Memory[e] # NULL /\ Memory' = [Memory EXCEPT ![e] = NULL] => PM!Next
  BY DEF Memory, PM!Next, PM!Exit
<1>2. Memory[e] # NULL /\ Memory' = [Memory EXCEPT ![e]["stack"].writer = e] => PM!Next
  BY DEF Memory, PM!Next, PM!Push
<1>3. Memory[e] # NULL /\ Memory' = [Memory EXCEPT ![e]["data"].handler = TRUE] => PM!Next
  BY DEF Memory, PM!Next, PM!SetHandler
<1>4. Memory[e] # NULL /\ Memory' = [Memory EXCEPT ![e]["data"].thisenv = e] => PM!Next
  BY DEF Memory, PM!Next, PM!SetThisenv
<1>5. ASSUME NEW c \in Env, NEW w \in Env \cup {0}, Memory[e] # NULL, Memory[c] = NULL,
             Memory' = [Memory EXCEPT ![c] = [Memory[e] EXCEPT !["stack"].writer = w]]
      PROVE  PM!Next
  <2>1. PM!Fork(e, c)
    BY <1>5 DEF Memory, PM!Fork
  <2> QED BY <2>1 DEF PM!Next
<1> QED BY <1>1, <1>2, <1>3, <1>4, <1>5

(* A page fault in a write.                                                *)
LEMMA FaultSeen ==
    ASSUME Inv2, NEW e \in Env, NEW va \in CowVa, status[e] = "RUNNABLE", fault[e] = NULL,
           page_fault_handler(e, va)
    PROVE  Complete' /\ Passed' /\ (PM!Next \/ Memory' = Memory)
  BY FaultStep, HasMemory, SeenSteps

(* The stack is written, which the parent may do while it makes a child.   *)
LEMMA StackSeen ==
    ASSUME Inv2, NEW e \in Env, StackWrite(e)
    PROVE  Complete' /\ Passed' /\ (PM!Next \/ Memory' = Memory)
<1>1. status[e] = "RUNNABLE" /\ fault[e] = NULL /\ "stack" \in CowVa /\ "stack" \in UserVa
  BY DEF StackWrite, At, CowVa, UserVa
<1>2. CASE page_fault_handler(e, "stack")
  BY <1>1, <1>2, FaultSeen
<1>3. CASE ~page_fault_handler(e, "stack")
  <2> DEFINE c == [Read(e, "stack") EXCEPT !.writer = e]
             va == "stack"
  <2>1. Store(e, va, c) /\ UNCHANGED <<status, pt, pc, pn, child>>
    BY <1>3 DEF StackWrite, forkVars
  <2>2. Copied(e)' \subseteq Copied(e) /\ \A g \in Env : pc'[g] = pc[g]
    BY <2>1 DEF Copied
  <2>3. Read(e, "stack") \in Content
    BY <1>1, Written DEF Inv2, Complete, Va
  <2>4. c.handler = Read(e, va).handler /\ c.thisenv = Read(e, va).thisenv
    BY <2>3 DEF Content
  <2>5. va \in UserVa /\ va = "stack"
    BY <1>1
  <2>6. [Memory EXCEPT ![e]["stack"].writer = e] = [Memory EXCEPT ![e][va] = c]
    BY <1>1, HasMemory
  <2> HIDE DEF c, va
  <2>7. Complete' /\ Passed' /\ Memory' = [Memory EXCEPT ![e][va] = c]
    BY <1>1, <2>1, <2>2, <2>4, <2>5, WriteStep
  <2> QED BY <1>1, <2>6, <2>7, HasMemory, SeenSteps
<1> QED BY <1>2, <1>3

(* _pgfault_handler and thisenv are written, when there is no child.       *)
LEMMA DataSeen ==
    ASSUME Inv2, NEW e \in Env, handler_save(e) \/ child_start(e)
    PROVE  Complete' /\ Passed' /\ (PM!Next \/ Memory' = Memory)
<1>1. /\ status[e] = "RUNNABLE" /\ fault[e] = NULL /\ "data" \in CowVa /\ "data" \in UserVa
      /\ pc[e] \in {"save_handler", "child"} /\ pc \in [Env -> Pcs]
  BY DEF handler_save, child_start, At, CowVa, UserVa, Inv2, Inv, TypeOK
<1>2. CASE page_fault_handler(e, "data")
  BY <1>1, <1>2, FaultSeen
<1>3. Copied(e) = {}
  BY <1>1, CopiedFacts DEF Copied, DupPcs
<1>4. CASE ~page_fault_handler(e, "data") /\ handler_save(e)
  <2> DEFINE c == [Read(e, "data") EXCEPT !.handler = TRUE]
             va == "data"
  <2>1. /\ Store(e, va, c) /\ UNCHANGED <<status, pt, pn, child>>
        /\ pc' = [pc EXCEPT ![e] = "exofork"]
    BY <1>4 DEF handler_save, forkVars, Goto
  <2>2. Copied(e)' = {} /\ \A g \in Env : g # e => pc'[g] = pc[g]
    BY <1>1, <2>1, CopiedFacts DEF Copied, DupPcs
  <2>3. va \in UserVa /\ va = "data"
    BY <1>1
  <2>4. [Memory EXCEPT ![e]["data"].handler = TRUE] = [Memory EXCEPT ![e][va] = c]
    BY <1>1, HasMemory
  <2> HIDE DEF c, va
  <2>5. Complete' /\ Passed' /\ Memory' = [Memory EXCEPT ![e][va] = c]
    BY <1>1, <1>3, <2>1, <2>2, <2>3, WriteStep
  <2> QED BY <1>1, <2>4, <2>5, HasMemory, SeenSteps
<1>5. CASE ~page_fault_handler(e, "data") /\ child_start(e)
  <2> DEFINE c == [Read(e, "data") EXCEPT !.thisenv = e]
             va == "data"
  <2>1. /\ Store(e, va, c) /\ UNCHANGED <<status, pt, pn, child>>
        /\ pc' = [pc EXCEPT ![e] = "user"]
    BY <1>5 DEF child_start, forkVars, Goto
  <2>2. Copied(e)' = {} /\ \A g \in Env : g # e => pc'[g] = pc[g]
    BY <1>1, <2>1, CopiedFacts DEF Copied, DupPcs
  <2>3. va \in UserVa /\ va = "data"
    BY <1>1
  <2>4. [Memory EXCEPT ![e]["data"].thisenv = e] = [Memory EXCEPT ![e][va] = c]
    BY <1>1, HasMemory
  <2> HIDE DEF c, va
  <2>5. Complete' /\ Passed' /\ Memory' = [Memory EXCEPT ![e][va] = c]
    BY <1>1, <1>3, <2>1, <2>2, <2>3, WriteStep
  <2> QED BY <1>1, <2>4, <2>5, HasMemory, SeenSteps
<1> QED BY <1>2, <1>4, <1>5

(* Every step keeps Inv2 and is a step of PrivateMemory, or changes none   *)
(* of the memory that programs see.                                        *)
LEMMA RefinesStep ==
    ASSUME Inv2, [Next]_vars, "map" \notin Failures
    PROVE  Inv2' /\ (PM!Next \/ Memory' = Memory)
<1>1. Inv'
  BY StepInv DEF Inv2
<1>2. CASE UNCHANGED vars
  <2>1. UNCHANGED <<status, pt, content, pc, pn, child>>
    BY <1>2 DEF vars
  <2>2. Complete' /\ Passed' /\ Memory' = Memory
    BY <2>1, SamePages, SamePlace, QuietStep
  <2> QED BY <1>1, <2>2 DEF Inv2
<1>3. ASSUME NEW e \in Env, Step(e)
      PROVE  Inv2' /\ (PM!Next \/ Memory' = Memory)
  <2>1. CASE StackWrite(e)
    BY <1>1, <2>1, StackSeen DEF Inv2
  <2>2. CASE handler_save(e) \/ child_start(e)
    BY <1>1, <2>2, DataSeen DEF Inv2
  <2>3. CASE exit(e)
    <3>1. /\ status[e] = "RUNNABLE" /\ pc[e] = "user" /\ pc' = pc /\ pc \in [Env -> Pcs]
          /\ status' = [status EXCEPT ![e] = "FREE"] /\ UNCHANGED <<pn, child>>
          /\ SetPt([pt EXCEPT ![e] = Gone(e)], content)
      BY <2>3 DEF exit, At, forkVars, Inv2, Inv, TypeOK
    <3>2. pc' = [pc EXCEPT ![e] = "user"] /\ pc[e] \notin DupPcs
      BY <3>1 DEF DupPcs
    <3>3. Complete' /\ Passed' /\ Memory' = [Memory EXCEPT ![e] = NULL]
      BY <3>1, <3>2, EndStep
    <3> QED BY <1>1, <3>1, <3>3, HasMemory, SeenSteps DEF Inv2
  <2>4. CASE wake(e)
    BY <1>1, <2>4, WakeStep, SeenSteps DEF Inv2
  <2>5. CASE dup_child(e)
    BY <1>1, <2>5, ShareStep DEF Inv2
  <2>6. CASE \/ Fork(e) \/ handler_stack(e) \/ handler_upcall(e) \/ sys_exofork(e)
             \/ dup_read(e) \/ dup_self(e) \/ alloc_ux(e) \/ child_upcall(e)
             \/ pgfault_alloc(e) \/ pgfault_copy(e) \/ pgfault_map(e) \/ pgfault_unmap(e)
    BY <1>1, <2>6, QuietSteps DEF Inv2
  <2> QED BY <1>3, <2>1, <2>2, <2>3, <2>4, <2>5, <2>6 DEF Step
<1> QED BY <1>2, <1>3 DEF Next

(* The first program has all its pages, and no child.                      *)
LEMMA InitMemory ==
    ASSUME Init
    PROVE  Inv2 /\ PM!Init
<1>1. Inv /\ FirstEnv \in Env
  BY InitInv, CowForkAssumption DEF Env, FirstEnv
<1>2. /\ status = [e \in Env |-> IF e = FirstEnv THEN "RUNNABLE" ELSE "FREE"]
      /\ pc = [e \in Env |-> "user"]
  BY DEF Init
<1>3. Complete
  <2>0. 1 \in Frame /\ 2 \in Frame /\ 3 \in Frame /\ "r" \in Perm /\ "w" \in Perm
    BY CowForkAssumption DEF Frame, Perm
  <2>1. /\ [frame |-> 1, perm |-> "r"] # NULL /\ [frame |-> 2, perm |-> "w"] # NULL
        /\ [frame |-> 3, perm |-> "w"] # NULL
    BY <2>0, Nulls
  <2>2. /\ pt[FirstEnv]["text"] = [frame |-> 1, perm |-> "r"]
        /\ pt[FirstEnv]["data"] = [frame |-> 2, perm |-> "w"]
        /\ pt[FirstEnv]["stack"] = [frame |-> 3, perm |-> "w"]
    BY <1>1 DEF Init, Va, UserVa
  <2> QED BY <1>2, <2>1, <2>2 DEF Complete, UserVa
<1>4. Passed
  <2>1. \A e \in Env : Copied(e) = {}
    BY <1>2, CopiedFacts DEF Copied, DupPcs
  <2> QED BY <2>1 DEF Passed, PassedOf
<1>5. Inv2
  BY <1>1, <1>3, <1>4 DEF Inv2
<1>6. DOMAIN Memory = Env /\ \A e \in Env : Memory[e] = NULL <=> e # FirstEnv
  <2>1. Memory[FirstEnv] # NULL
    BY <1>1, <1>2, <1>5, HasMemory
  <2>2. \A e \in Env : e # FirstEnv => Memory[e] = NULL
    BY <1>2 DEF Memory
  <2>3. DOMAIN Memory = Env
    BY DEF Memory
  <2> QED BY <2>1, <2>2, <2>3
<1>7. PM!Init
  BY <1>6 DEF PM!Init, Memory
<1> QED BY <1>5, <1>7

(* fork implements private memory, for any number of environments that     *)
(* fork, fault, write their stacks and end at the same time, as long as    *)
(* duppage's calls do not run out of memory: every write is seen by its    *)
(* writer and by nobody else, and a child starts with a copy of its        *)
(* parent's memory.                                                        *)
THEOREM ForkCopies ==
    ASSUME "map" \notin Failures
    PROVE  Spec => ImplementsPrivateMemory
<1>1. Init => Inv2 /\ PM!Init
  BY InitMemory
<1>2. Inv2 /\ [Next]_vars => Inv2'
  BY RefinesStep
<1>3. Inv2 /\ [Next]_vars => [PM!Next]_Memory
  BY RefinesStep
<1>4. [PM!Next]_Memory =>
         [PM!Next]_([e \in Env |-> IF status[e] = "RUNNABLE"
                                   THEN [va \in UserVa |-> Read(e, va)] ELSE NULL])
  BY DEF Memory
<1> QED BY <1>1, <1>2, <1>3, <1>4, PTL DEF Spec, ImplementsPrivateMemory, PM!Spec

(* What fork.c says of the child, that it has its parent's pages when it   *)
(* runs, holds as long as duppage's calls do not run out of memory; the    *)
(* run CowForkNoMem shows that it does not hold otherwise.                 *)
THEOREM ForkComplete ==
    ASSUME "map" \notin Failures
    PROVE  Spec => []ChildComplete
<1>1. Init => Inv2
  BY InitMemory
<1>2. Inv2 /\ [Next]_vars => Inv2'
  BY RefinesStep
<1>3. Inv2 => ChildComplete
  BY DEF Inv2, Complete, ChildComplete
<1> QED BY <1>1, <1>2, <1>3, PTL DEF Spec

=============================================================================
