----------------------------- MODULE Pmap_proofs -----------------------------
(***************************************************************************)
(* Proofs about Pmap, for any number of pages, environments and CPUs and   *)
(* any layout of page tables.                                              *)
(***************************************************************************)
EXTENDS Pmap, FiniteSetTheorems, TLAPS

-----------------------------------------------------------------------------
(* Counts, lists and types *)

(* The counter pp_ref: one more and one less, when it does not wrap.       *)
LEMMA CountArithmetic ==
    /\ RefMod \in Nat /\ RefMod > 1
    /\ \A n \in 0..RefMod-1 : (n + 1) % RefMod \in 0..RefMod-1
    /\ \A n \in 0..RefMod-1 : (n + RefMod - 1) % RefMod \in 0..RefMod-1
    /\ \A n \in Nat : n + 1 < RefMod => (n + 1) % RefMod = n + 1
    /\ \A n \in 1..RefMod-1 : (n + RefMod - 1) % RefMod = n - 1
<1>1. RefMod \in Nat /\ RefMod > 1
  BY PmapAssumption
<1>2. \A n \in Nat : n % RefMod \in 0..RefMod-1
  BY <1>1, Z3
<1>3. \A n \in Nat : n < RefMod => n % RefMod = n
  BY <1>1, Z3
<1>4. \A n \in Nat : RefMod <= n /\ n < RefMod + RefMod => n % RefMod = n - RefMod
  BY <1>1, Z3
<1>5. ASSUME NEW n \in 1..RefMod-1 PROVE (n + RefMod - 1) % RefMod = n - 1
  <2>1. n + RefMod - 1 \in Nat /\ RefMod <= n + RefMod - 1 /\ n + RefMod - 1 < RefMod + RefMod
    BY <1>1
  <2> QED BY <2>1, <1>1, <1>4
<1>6. \A n \in 0..RefMod-1 : n + 1 \in Nat /\ n + RefMod - 1 \in Nat
  BY <1>1
<1> QED BY <1>1, <1>2, <1>3, <1>5, <1>6

(* A page taken from, or put in front of, the list of free pages.          *)
LEMMA ListPop ==
    ASSUME NEW S, NEW s \in Seq(S), s # << >>
    PROVE  /\ Head(s) \in S /\ Head(s) = s[1]
           /\ Tail(s) \in Seq(S)
           /\ Len(s) \in Nat \ {0} /\ Len(Tail(s)) = Len(s) - 1
           /\ \A k \in 1..Len(s) - 1 : Tail(s)[k] = s[k + 1]
  OBVIOUS

(* A list with a new head.                                                 *)
LEMMA ListPush ==
    ASSUME NEW S, NEW s \in Seq(S), NEW x \in S
    PROVE  /\ <<x>> \o s \in Seq(S)
           /\ Len(<<x>> \o s) = Len(s) + 1
           /\ (<<x>> \o s)[1] = x
           /\ \A k \in 1..Len(s) : (<<x>> \o s)[k + 1] = s[k]
  OBVIOUS

(* A list that has a length is not empty.                                  *)
LEMMA NotEmpty == ASSUME NEW s, Len(s) >= 1 PROVE s # << >>
<1>1. Len(<< >>) = 0
  OBVIOUS
<1> QED BY <1>1

(* Entries are records, so none is the null pointer.                       *)
LEMMA NullFacts ==
    /\ NULL \notin Page /\ NULL \notin Pte /\ NULL \notin Env
    /\ \A p \in Page, w \in BOOLEAN :
          [page |-> p, w |-> w] \in Pte /\ [page |-> p, w |-> w] # NULL
    /\ \A x \in Pte : x.page \in Page /\ x.w \in BOOLEAN
    /\ \A va \in Va : PDX(va) \in Table
  BY PmapAssumption DEF Pte, Table

(* page_alloc takes the first page and nothing else changes.               *)
LEMMA AllocEffect ==
    ASSUME NEW m \in Mem, m.free # << >>
    PROVE  /\ Head(m.free) \in Page
           /\ page_alloc(m) \in Mem
           /\ page_alloc(m).free = Tail(m.free)
           /\ page_alloc(m).ref = m.ref /\ page_alloc(m).pgdir = m.pgdir
           /\ page_alloc(m).pde = m.pde /\ page_alloc(m).pte = m.pte
           /\ page_alloc(m).panic = m.panic
<1>1. m.free \in Seq(Page)
  BY DEF Mem
<1>2. Head(m.free) \in Page /\ Tail(m.free) \in Seq(Page)
  BY <1>1, ListPop
<1> QED BY <1>2 DEF Mem, page_alloc

(* incref, page_free and page_decref touch counts and the free list only.  *)
LEMMA IncrefEffect ==
    ASSUME NEW m \in Mem, NEW p \in Page
    PROVE  /\ incref(m, p) \in Mem
           /\ incref(m, p).free = m.free /\ incref(m, p).pgdir = m.pgdir
           /\ incref(m, p).pde = m.pde /\ incref(m, p).pte = m.pte
           /\ incref(m, p).panic = m.panic
           /\ incref(m, p).ref = [m.ref EXCEPT ![p] = (@ + 1) % RefMod]
<1>1. (m.ref[p] + 1) % RefMod \in 0..RefMod-1
  BY CountArithmetic DEF Mem
<1> QED BY <1>1 DEF Mem, incref

(* page_free changes the free list only.                                   *)
LEMMA FreeEffect ==
    ASSUME NEW m \in Mem, NEW p \in Page
    PROVE  /\ page_free(m, p) \in Mem
           /\ page_free(m, p).ref = m.ref /\ page_free(m, p).pgdir = m.pgdir
           /\ page_free(m, p).pde = m.pde /\ page_free(m, p).pte = m.pte
<1>1. m.free \in Seq(Page)
  BY DEF Mem
<1>2. <<p>> \o m.free \in Seq(Page)
  BY <1>1, ListPush
<1> QED BY <1>2 DEF Mem, page_free

(* page_decref leaves the page tables alone.                               *)
LEMMA DecrefEffect ==
    ASSUME NEW m \in Mem, NEW p \in Page
    PROVE  /\ page_decref(m, p) \in Mem
           /\ page_decref(m, p).pgdir = m.pgdir
           /\ page_decref(m, p).pde = m.pde /\ page_decref(m, p).pte = m.pte
<1> DEFINE n == [m EXCEPT !.ref[p] = (@ + RefMod - 1) % RefMod]
<1>1. (m.ref[p] + RefMod - 1) % RefMod \in 0..RefMod-1
  BY CountArithmetic DEF Mem
<1>2. n \in Mem /\ n.pgdir = m.pgdir /\ n.pde = m.pde /\ n.pte = m.pte
  BY <1>1 DEF Mem
<1>3. page_decref(m, p) \in {n, page_free(n, p)}
  BY DEF page_decref
<1> HIDE DEF n
<1> QED BY <1>2, <1>3, FreeEffect

(* A page that the kernel takes for its own use, as a table or directory.  *)
LEMMA AllocIncrefEffect ==
    ASSUME NEW m \in Mem, m.free # << >>
    PROVE  LET h == Head(m.free)
               a == incref(page_alloc(m), h) IN
           /\ h \in Page /\ a \in Mem
           /\ a.pgdir = m.pgdir /\ a.pde = m.pde /\ a.pte = m.pte /\ a.panic = m.panic
           /\ a.free = Tail(m.free)
           /\ a.ref = [m.ref EXCEPT ![h] = (@ + 1) % RefMod]
<1> DEFINE b == page_alloc(m)
           h == Head(m.free)
<1>1. /\ h \in Page /\ b \in Mem /\ b.free = Tail(m.free) /\ b.ref = m.ref
      /\ b.pgdir = m.pgdir /\ b.pde = m.pde /\ b.pte = m.pte /\ b.panic = m.panic
  BY AllocEffect
<1> HIDE DEF b, h
<1>2. /\ incref(b, h) \in Mem
      /\ incref(b, h).free = b.free /\ incref(b, h).pgdir = b.pgdir
      /\ incref(b, h).pde = b.pde /\ incref(b, h).pte = b.pte
      /\ incref(b, h).panic = b.panic
      /\ incref(b, h).ref = [b.ref EXCEPT ![h] = (@ + 1) % RefMod]
  BY <1>1, IncrefEffect
<1> QED BY <1>1, <1>2 DEF b, h

(* pgdir_walk adds a page table if there is none.  The entries it clears   *)
(* are those of a table that was not there, so no mapping is lost.         *)
LEMMA WalkEffect ==
    ASSUME NEW m \in Mem, Nested(m), NEW e \in Env, NEW va \in Va, CanWalk(m, e, va)
    PROVE  LET n == pgdir_walk(m, e, va) IN
           /\ n \in Mem
           /\ n.pte = m.pte /\ n.pgdir = m.pgdir /\ n.panic = m.panic
           /\ n.pde[e][PDX(va)] # NULL
           /\ \A f \in Env, t \in Table : m.pde[f][t] # NULL => n.pde[f][t] = m.pde[f][t]
           /\ \A f \in Env, t \in Table : <<f, t>> # <<e, PDX(va)>> => n.pde[f][t] = m.pde[f][t]
<1>1. CASE m.pde[e][PDX(va)] # NULL
  BY <1>1 DEF pgdir_walk
<1>2. CASE m.pde[e][PDX(va)] = NULL
  <2> DEFINE h == Head(m.free)
             a == incref(page_alloc(m), h)
             n == pgdir_walk(m, e, va)
  <2>1. m.free # << >>
    BY <1>2 DEF CanWalk
  <2>2. h \in Page /\ a \in Mem /\ a.pgdir = m.pgdir /\ a.pde = m.pde /\ a.pte = m.pte
        /\ a.panic = m.panic
    BY <2>1, AllocIncrefEffect
  <2>3. n = [a EXCEPT !.pde[e][PDX(va)] = h,
                      !.pte[e] = [v \in Va |-> IF PDX(v) = PDX(va) THEN NULL ELSE @[v]]]
    BY <1>2 DEF pgdir_walk
  <2>4. \A v \in Va : PDX(v) = PDX(va) => m.pte[e][v] = NULL
    BY <1>2 DEF Nested
  <2> HIDE DEF a, h, n
  <2>5. n.pte = m.pte
    BY <2>2, <2>3, <2>4 DEF Mem
  <2>6. n.pde = [m.pde EXCEPT ![e][PDX(va)] = h]
    BY <2>2, <2>3 DEF Mem
  <2>7. n.free = a.free /\ n.ref = a.ref /\ n.pgdir = m.pgdir /\ n.panic = m.panic
    BY <2>2, <2>3 DEF Mem
  <2>8. n \in Mem
    BY <2>2, <2>3, <2>5, <2>6, <2>7 DEF Mem
  <2> QED BY <1>2, <2>2, <2>5, <2>6, <2>7, <2>8, NullFacts DEF Mem, n
<1> QED BY <1>1, <1>2

(* page_remove clears one entry, page_insert sets one.                     *)
LEMMA RemoveEffect ==
    ASSUME NEW m \in Mem, NEW e \in Env, NEW va \in Va
    PROVE  LET n == page_remove(m, e, va) IN
           /\ n \in Mem
           /\ n.pte = [m.pte EXCEPT ![e][va] = NULL]
           /\ n.pgdir = m.pgdir /\ n.pde = m.pde
<1>1. CASE m.pte[e][va] = NULL
  BY <1>1 DEF page_remove, page_lookup, Mem
<1>2. CASE m.pte[e][va] # NULL
  <2> DEFINE d == page_decref(m, m.pte[e][va].page)
             n == page_remove(m, e, va)
  <2>1. m.pte[e][va].page \in Page
    BY <1>2, NullFacts DEF Mem
  <2>2. d \in Mem /\ d.pgdir = m.pgdir /\ d.pde = m.pde /\ d.pte = m.pte
    BY <2>1, DecrefEffect
  <2>3. n = [d EXCEPT !.pte[e][va] = NULL]
    BY <1>2 DEF page_remove, page_lookup
  <2> HIDE DEF d, n
  <2>4. n.pte = [m.pte EXCEPT ![e][va] = NULL] /\ n.pgdir = m.pgdir /\ n.pde = m.pde
    BY <2>2, <2>3 DEF Mem
  <2>5. n \in Mem
    BY <2>2, <2>3 DEF Mem
  <2> QED BY <2>4, <2>5 DEF n
<1> QED BY <1>1, <1>2

(* What page_insert leaves in the page tables: the new entry and no other  *)
(* change, whatever it removed.                                            *)
LEMMA InsertEffect ==
    ASSUME NEW m \in Mem, Nested(m), NEW e \in Env, NEW va \in Va, CanWalk(m, e, va),
           m.pgdir[e] # NULL, NEW p \in Page, NEW w \in BOOLEAN
    PROVE  LET n == page_insert(m, e, p, va, w) IN
           /\ n \in Mem /\ Nested(n)
           /\ n.pte = [m.pte EXCEPT ![e][va] = [page |-> p, w |-> w]]
           /\ n.pgdir = m.pgdir
<1> DEFINE k == pgdir_walk(m, e, va)
           m1 == incref(k, p)
           m2 == IF m1.pte[e][va] # NULL THEN page_remove(m1, e, va) ELSE m1
           n == page_insert(m, e, p, va, w)
<1>1. /\ k \in Mem
      /\ k.pte = m.pte /\ k.pgdir = m.pgdir
      /\ k.pde[e][PDX(va)] # NULL
      /\ \A f \in Env, t \in Table : m.pde[f][t] # NULL => k.pde[f][t] = m.pde[f][t]
      /\ \A f \in Env, t \in Table : <<f, t>> # <<e, PDX(va)>> => k.pde[f][t] = m.pde[f][t]
  BY WalkEffect
<1>2. m1 \in Mem /\ m1.pte = m.pte /\ m1.pgdir = m.pgdir /\ m1.pde = k.pde
  BY <1>1, IncrefEffect
<1>3. m2 \in Mem /\ m2.pgdir = m.pgdir /\ m2.pde = k.pde
      /\ [m2.pte EXCEPT ![e][va] = NULL] = [m.pte EXCEPT ![e][va] = NULL]
  <2> HIDE DEF m1
  <2>1. m1.pte[e][va] # NULL =>
            /\ m2 \in Mem /\ m2.pgdir = m1.pgdir /\ m2.pde = m1.pde
            /\ m2.pte = [m1.pte EXCEPT ![e][va] = NULL]
    BY <1>2, RemoveEffect
  <2>2. [[m.pte EXCEPT ![e][va] = NULL] EXCEPT ![e][va] = NULL] = [m.pte EXCEPT ![e][va] = NULL]
    BY DEF Mem
  <2> QED BY <1>2, <2>1, <2>2
<1>4. n = [m2 EXCEPT !.pte[e][va] = [page |-> p, w |-> w]]
  BY DEF page_insert
<1> HIDE DEF k, m1, m2, n
<1>5. n.pte = [m.pte EXCEPT ![e][va] = [page |-> p, w |-> w]]
  BY <1>3, <1>4 DEF Mem
<1>6. n \in Mem
  BY <1>3, <1>4, NullFacts DEF Mem
<1>7. n.pgdir = m.pgdir /\ n.pde = k.pde
  BY <1>3, <1>4 DEF Mem
<1>8. Nested(n)
  <2>1. ASSUME NEW f \in Env, NEW v \in Va, n.pte[f][v] # NULL PROVE n.pde[f][PDX(v)] # NULL
    <3>1. CASE <<f, v>> = <<e, va>>
      BY <1>1, <1>7, <3>1
    <3>2. CASE <<f, v>> # <<e, va>>
      <4>1. n.pte[f][v] = m.pte[f][v]
        BY <1>5, <3>2 DEF Mem
      <4>2. m.pde[f][PDX(v)] # NULL /\ PDX(v) \in Table
        BY <2>1, <4>1, NullFacts DEF Nested
      <4> QED BY <1>1, <1>7, <4>2
    <3> QED BY <3>1, <3>2
  <2>2. ASSUME NEW f \in Env, NEW t \in Table, n.pde[f][t] # NULL PROVE n.pgdir[f] # NULL
    <3>1. CASE <<f, t>> = <<e, PDX(va)>>
      BY <1>7, <3>1
    <3>2. CASE <<f, t>> # <<e, PDX(va)>>
      <4>1. m.pde[f][t] # NULL
        BY <1>1, <1>7, <2>2, <3>2
      <4> QED BY <1>7, <4>1 DEF Nested
    <3> QED BY <3>1, <3>2
  <2> QED BY <2>1, <2>2 DEF Nested
<1> QED BY <1>5, <1>6, <1>7, <1>8 DEF n

(* env_setup_vm gives a free environment an empty page directory.          *)
LEMMA SetupEffect ==
    ASSUME NEW m \in Mem, Nested(m), NEW e \in Env, m.free # << >>, m.pgdir[e] = NULL
    PROVE  LET n == env_setup_vm(m, e) IN
           /\ n \in Mem /\ Nested(n)
           /\ n.pte = m.pte /\ n.pde = m.pde /\ n.panic = m.panic
           /\ n.pgdir = [m.pgdir EXCEPT ![e] = Head(m.free)] /\ Head(m.free) \in Page
           /\ n.free = Tail(m.free)
           /\ n.ref = [m.ref EXCEPT ![Head(m.free)] = (@ + 1) % RefMod]
<1> DEFINE h == Head(m.free)
           a == incref(page_alloc(m), h)
           n == env_setup_vm(m, e)
<1>1. h \in Page
  BY AllocEffect
<1>2. /\ a \in Mem /\ a.pgdir = m.pgdir /\ a.pde = m.pde /\ a.pte = m.pte
      /\ a.panic = m.panic /\ a.free = Tail(m.free)
      /\ a.ref = [m.ref EXCEPT ![h] = (@ + 1) % RefMod]
  BY AllocIncrefEffect
<1>3. n = [a EXCEPT !.pgdir[e] = h, !.pde[e] = [t \in Table |-> NULL]]
  BY DEF env_setup_vm
<1>4. \A t \in Table : m.pde[e][t] = NULL
  BY DEF Nested
<1> HIDE DEF h, a, n
<1>5. n.pde = m.pde
  BY <1>2, <1>3, <1>4 DEF Mem
<1>6. n.pgdir = [m.pgdir EXCEPT ![e] = h]
  BY <1>2, <1>3 DEF Mem
<1>7. n.pte = m.pte /\ n.panic = m.panic /\ n.free = a.free /\ n.ref = a.ref
  BY <1>2, <1>3 DEF Mem
<1>8. n \in Mem
  BY <1>1, <1>2, <1>3, <1>5, <1>6, <1>7 DEF Mem
<1>9. Nested(n)
  BY <1>1, <1>5, <1>6, <1>7, NullFacts DEF Nested, Mem
<1> QED BY <1>1, <1>2, <1>5, <1>6, <1>7, <1>8, <1>9 DEF n, h

-----------------------------------------------------------------------------
(* The shape of memory, whatever the counts do *)

(* Memory after page_init, and the pages that are left for FirstEnv.       *)
LEMMA PageInitEffect ==
    ASSUME NEW list \in FreeLists
    PROVE  /\ list \in Seq(Page) /\ Len(list) >= 3
           /\ page_init(list) \in Mem /\ Nested(page_init(list))
<1> DEFINE n == Cardinality(Page \ Reserved)
<1>1. n \in Nat /\ n >= 3
  BY PmapAssumption, FS_Difference, FS_CardinalityType
<1>2. list \in [1..n -> Page \ Reserved]
  BY DEF FreeLists
<1> HIDE DEF n
<1>3. list \in Seq(Page) /\ Len(list) = n
  BY <1>1, <1>2
<1>4. page_init(list) \in Mem
  BY <1>3, PmapAssumption DEF page_init, Mem, NoPtes
<1>5. Nested(page_init(list))
  BY NullFacts DEF page_init, Nested, NoPtes
<1> QED BY <1>1, <1>3, <1>4, <1>5

(* The steps by which i386_init makes the memory of FirstEnv: a directory, *)
(* a page, and the page table that maps it.                                *)
LEMMA FirstEnvEffect ==
    ASSUME NEW list \in FreeLists
    PROVE  LET m0 == page_init(list)
               m1 == env_setup_vm(m0, FirstEnv)
               m2 == page_alloc(m1) IN
           /\ FirstEnv \in Env /\ 0 \in Va
           /\ m0 \in Mem /\ Nested(m0) /\ m0.free # << >> /\ m0.pgdir[FirstEnv] = NULL
           /\ m1 \in Mem /\ Nested(m1) /\ m1.free # << >> /\ m1.pgdir[FirstEnv] # NULL
           /\ Head(m1.free) \in Page
           /\ m2 \in Mem /\ Nested(m2) /\ CanWalk(m2, FirstEnv, 0) /\ m2.pgdir = m1.pgdir
           /\ m1.pte = m0.pte /\ m2.pte = m0.pte
<1> DEFINE m0 == page_init(list)
           m1 == env_setup_vm(m0, FirstEnv)
           m2 == page_alloc(m1)
<1>1. FirstEnv \in Env /\ 0 \in Va
  BY PmapAssumption DEF Va
<1>2. m0 \in Mem /\ Nested(m0) /\ m0.free = list /\ m0.pgdir[FirstEnv] = NULL
  BY <1>1, PageInitEffect DEF page_init
<1>3. list \in Seq(Page) /\ Len(list) >= 3 /\ list # << >>
  BY PageInitEffect
<1> HIDE DEF m0
<1>4. /\ m1 \in Mem /\ Nested(m1) /\ m1.free = Tail(list) /\ m1.pte = m0.pte
      /\ m1.pgdir = [m0.pgdir EXCEPT ![FirstEnv] = Head(m0.free)] /\ Head(m0.free) \in Page
  BY <1>1, <1>2, <1>3, SetupEffect
<1>5. m1.pgdir[FirstEnv] # NULL
  BY <1>1, <1>2, <1>4, NullFacts DEF Mem
<1> HIDE DEF m1
<1>6. m1.free \in Seq(Page) /\ m1.free # << >> /\ Len(m1.free) >= 2
  <2>1. Tail(list) \in Seq(Page) /\ Len(Tail(list)) = Len(list) - 1 /\ Len(list) \in Nat
    BY <1>3, ListPop
  <2>2. Len(Tail(list)) >= 2 /\ Len(Tail(list)) >= 1
    BY <1>3, <2>1
  <2>3. Tail(list) # << >>
    BY <2>2, NotEmpty
  <2> QED BY <1>4, <2>1, <2>2, <2>3
<1>7. /\ Head(m1.free) \in Page
      /\ m2 \in Mem /\ m2.free = Tail(m1.free) /\ m2.pgdir = m1.pgdir /\ m2.pde = m1.pde
      /\ m2.pte = m1.pte
  BY <1>4, <1>6, AllocEffect
<1> HIDE DEF m2
<1>8. Nested(m2)
  BY <1>4, <1>7 DEF Nested
<1>9. m2.free # << >>
  <2> DEFINE s == m1.free
  <2>1. s \in Seq(Page) /\ s # << >> /\ Len(s) >= 2
    BY <1>6
  <2> HIDE DEF s
  <2>2. Len(Tail(s)) = Len(s) - 1 /\ Len(s) \in Nat
    BY <2>1, ListPop
  <2>3. Len(Tail(s)) >= 1
    BY <2>1, <2>2
  <2>4. Tail(s) # << >>
    BY <2>3, NotEmpty
  <2> QED BY <1>7, <2>4 DEF s
<1>10. CanWalk(m2, FirstEnv, 0)
  BY <1>9 DEF CanWalk
<1> QED BY <1>1, <1>2, <1>3, <1>4, <1>5, <1>6, <1>7, <1>8, <1>10 DEF m0, m1, m2

(* The types and the nesting hold when the first environment is loaded.    *)
LEMMA InitShape == Init => Shape
<1> SUFFICES ASSUME Init PROVE Shape
  OBVIOUS
<1>1. PICK list \in FreeLists :
         mem = region_alloc(env_setup_vm(page_init(list), FirstEnv), FirstEnv, 0)
  BY DEF Init
<1> DEFINE m1 == env_setup_vm(page_init(list), FirstEnv)
           m2 == page_alloc(m1)
<1>2. /\ FirstEnv \in Env /\ 0 \in Va /\ m2 \in Mem /\ Nested(m2) /\ CanWalk(m2, FirstEnv, 0)
      /\ m2.pgdir[FirstEnv] # NULL /\ Head(m1.free) \in Page
  BY FirstEnvEffect
<1>3. mem = page_insert(m2, FirstEnv, Head(m1.free), 0, TRUE)
  BY <1>1 DEF region_alloc
<1> HIDE DEF m1, m2
<1>4. mem \in Mem /\ Nested(mem)
  BY <1>2, <1>3, InsertEffect
<1>5. NoPtes \in [Va -> Pte \cup {NULL}]
  BY DEF NoPtes
<1> QED BY <1>4, <1>5 DEF Init, Shape, TypeOK, FreeingExists

(* What a TLB holds after an entry was dropped.                            *)
LEMMA FlushType ==
    ASSUME TypeOK, NEW c \in Cpu, NEW e \in Env, NEW va \in Va,
           FlushIfMapped(c, e, va) \/ tlb_invalidate(c, e, va)
    PROVE  tlb' \in [Cpu -> [Va -> Pte \cup {NULL}]]
<1>1. tlb' = tlb \/ tlb' = [tlb EXCEPT ![c][va] = NULL]
  BY DEF FlushIfMapped, tlb_invalidate
<1>2. tlb \in [Cpu -> [Va -> Pte \cup {NULL}]]
  BY DEF TypeOK
<1> QED BY <1>1, <1>2

(* page_insert on the kernel's memory, by a call that found its            *)
(* environment.                                                            *)
LEMMA InsertShape ==
    ASSUME Shape, NEW e \in Env, NEW va \in Va, NEW w \in BOOLEAN, NEW p \in Page,
           Exists(e), CanWalk(mem, e, va)
    PROVE  LET n == page_insert(mem, e, p, va, w) IN
           /\ n \in Mem /\ Nested(n) /\ n.pgdir = mem.pgdir
           /\ n.pte = [mem.pte EXCEPT ![e][va] = [page |-> p, w |-> w]]
<1> DEFINE m == mem
           n == page_insert(m, e, p, va, w)
<1>1. m \in Mem /\ Nested(m) /\ m.pgdir[e] # NULL /\ CanWalk(m, e, va)
  BY DEF Shape, TypeOK, Exists
<1> HIDE DEF m
<1>2. /\ n \in Mem /\ Nested(n)
           /\ n.pte = [m.pte EXCEPT ![e][va] = [page |-> p, w |-> w]]
           /\ n.pgdir = m.pgdir
  BY <1>1, InsertEffect
<1> QED BY <1>2 DEF m

(* Mapping a page keeps the shape, whether it succeeds or not.             *)
LEMMA MapFromShape ==
    ASSUME Shape, NEW c \in Cpu, NEW x \in Pte, NEW dst \in Env, NEW dstva \in Va,
           NEW w \in BOOLEAN, Exists(dst), MapFrom(c, x, dst, dstva, w)
    PROVE  /\ mem' \in Mem /\ Nested(mem') /\ mem'.pgdir = mem.pgdir
           /\ tlb' \in [Cpu -> [Va -> Pte \cup {NULL}]]
           /\ ret' \in {"ok", "E_NO_MEM", "E_INVAL"}
<1>1. CASE UNCHANGED <<mem, tlb>>
  BY <1>1 DEF Shape, TypeOK, MapFrom
<1>2. CASE /\ CanWalk(mem, dst, dstva)
           /\ mem' = page_insert(mem, dst, x.page, dstva, w)
           /\ ret' = "ok" /\ FlushIfMapped(c, dst, dstva)
  <2>1. x.page \in Page
    BY NullFacts
  <2>2. /\ mem' \in Mem /\ Nested(mem') /\ mem'.pgdir = mem.pgdir
        /\ mem'.pte = [mem.pte EXCEPT ![dst][dstva] = [page |-> x.page, w |-> w]]
    BY <1>2, <2>1, InsertShape
  <2>3. tlb' \in [Cpu -> [Va -> Pte \cup {NULL}]]
    BY <1>2, FlushType DEF Shape
  <2> QED BY <1>2, <2>2, <2>3
<1> QED BY <1>1, <1>2 DEF MapFrom

(* Every handler, and every page of env_free's loop, keeps types and       *)
(* nesting.                                                                *)
LEMMA ShapeStep ==
    ASSUME Shape, NEW c \in Cpu, Step(c) PROVE Shape'
<1> USE DEF Shape
<1>0. mem \in Mem /\ Nested(mem) /\ NoPtes \in [Va -> Pte \cup {NULL}]
  BY DEF TypeOK, NoPtes
<1>1. CASE env_run(c)
  BY <1>0, <1>1 DEF env_run, Unlocked, TypeOK, FreeingExists, Exists
<1>2. CASE sched_halt(c)
  BY <1>0, <1>2 DEF sched_halt, Unlocked, TypeOK, FreeingExists, Exists
<1>3. CASE Access(c)
  BY <1>0, <1>3 DEF Access, TypeOK, FreeingExists, Exists, Mem
<1>4. CASE sys_exofork(c)
  <2>0. PICK e \in Env :
          /\ ~Exists(e)
          /\ IF mem.free = << >>
             THEN ret' = "E_NO_MEM" /\ UNCHANGED <<mem, parent>>
             ELSE /\ ret' = "ok"
                  /\ mem' = env_setup_vm(mem, e)
                  /\ parent' = [parent EXCEPT ![e] = cr3[c]]
    BY <1>4 DEF sys_exofork
  <2>1. CASE mem.free = << >>
    BY <1>4, <2>0, <2>1 DEF sys_exofork, TypeOK, FreeingExists, Exists
  <2>2. CASE mem.free # << >>
    <3>1. mem' \in Mem /\ Nested(mem')
      BY <1>0, <2>0, <2>2, SetupEffect DEF Exists
    <3> QED BY <1>4, <2>0, <2>2, <3>1 DEF sys_exofork, Unlocked, TypeOK, FreeingExists
  <2> QED BY <2>1, <2>2
<1>5. CASE env_free(c)
  <2>1. PICK e \in Env : Exists(e) /\ freeing' = [cpu |-> c, env |-> e]
    BY <1>5 DEF env_free, MayChange
  <2>2. mem' = mem /\ freeing' \in [cpu : Cpu, env : Env] /\ freeing'.env = e
    BY <1>5, <2>1 DEF env_free
  <2>3. FreeingExists'
    BY <2>1, <2>2 DEF FreeingExists, Exists
  <2>4. tlb' \in [Cpu -> [Va -> Pte \cup {NULL}]] /\ cr3' \in [Cpu -> Env \cup {NULL}]
    BY <1>0, <1>5 DEF env_free, TypeOK
  <2> QED BY <1>0, <1>5, <2>2, <2>3, <2>4 DEF env_free, TypeOK
<1>6. CASE env_free_page(c)
  <2>0. freeing # NULL /\ freeing.env \in Env
    BY <1>6 DEF env_free_page, TypeOK
  <2>1. PICK va \in Va : mem' = page_remove(mem, freeing.env, va) /\ tlb_invalidate(c, freeing.env, va)
    BY <1>6 DEF env_free_page
  <2>2. /\ mem' \in Mem /\ mem'.pgdir = mem.pgdir /\ mem'.pde = mem.pde
        /\ mem'.pte = [mem.pte EXCEPT ![freeing.env][va] = NULL]
    BY <1>0, <2>0, <2>1, RemoveEffect
  <2>3. Nested(mem')
    BY <1>0, <2>2 DEF Nested, Mem
  <2>4. tlb' \in [Cpu -> [Va -> Pte \cup {NULL}]]
    BY <2>0, <2>1, FlushType
  <2> QED BY <1>6, <2>2, <2>3, <2>4 DEF env_free_page, TypeOK, FreeingExists, Exists
<1>7. CASE env_free_table(c)
  <2>0. freeing # NULL /\ freeing.env \in Env
    BY <1>7 DEF env_free_table, TypeOK
  <2> DEFINE e == freeing.env
  <2>1. PICK t \in Table :
          /\ AtTable(e, t) /\ MappedIn(e, t) = {}
          /\ mem' = page_decref([mem EXCEPT !.pde[e][t] = NULL], mem.pde[e][t])
    BY <1>7 DEF env_free_table
  <2> DEFINE k == [mem EXCEPT !.pde[e][t] = NULL]
  <2> HIDE DEF e
  <2>a. e \in Env /\ mem.pde[e][t] # NULL
    BY <2>0, <2>1 DEF AtTable, e
  <2>b. mem.pde[e][t] \in Page
    BY <1>0, <2>a DEF Mem
  <2>2. /\ k \in Mem /\ k.pgdir = mem.pgdir /\ k.pte = mem.pte
        /\ k.pde = [mem.pde EXCEPT ![e][t] = NULL] /\ mem.pde[e][t] \in Page
    BY <1>0, <2>a, <2>b DEF Mem
  <2> HIDE DEF k
  <2>3. /\ mem' \in Mem /\ mem'.pgdir = mem.pgdir /\ mem'.pte = mem.pte
        /\ mem'.pde = [mem.pde EXCEPT ![e][t] = NULL]
    BY <2>1, <2>2, DecrefEffect DEF k
  <2>4. \A va \in Va : PDX(va) = t => mem.pte[e][va] = NULL
    BY <2>1 DEF MappedIn
  <2>5. Nested(mem')
    BY <1>0, <2>3, <2>4 DEF Nested, Mem
  <2> QED BY <1>7, <2>3, <2>5 DEF env_free_table, TypeOK, FreeingExists, Exists
<1>8. CASE env_free_pgdir(c)
  <2>0. freeing # NULL /\ freeing.env \in Env
    BY <1>8 DEF env_free_pgdir, TypeOK
  <2> DEFINE e == freeing.env
             k == [mem EXCEPT !.pgdir[e] = NULL]
  <2>1. mem' = page_decref(k, mem.pgdir[e]) /\ \A t \in Table : mem.pde[e][t] = NULL
    BY <1>8 DEF env_free_pgdir
  <2> HIDE DEF e
  <2>2. /\ k \in Mem /\ k.pde = mem.pde /\ k.pte = mem.pte
        /\ k.pgdir = [mem.pgdir EXCEPT ![e] = NULL] /\ mem.pgdir[e] \in Page
    BY <1>0, <2>0 DEF Mem, FreeingExists, Exists, e
  <2> HIDE DEF k
  <2>3. /\ mem' \in Mem /\ mem'.pde = mem.pde /\ mem'.pte = mem.pte
        /\ mem'.pgdir = [mem.pgdir EXCEPT ![e] = NULL]
    BY <2>1, <2>2, DecrefEffect
  <2>5. Nested(mem')
    BY <1>0, <2>1, <2>3 DEF Nested, Mem
  <2> QED BY <1>8, <2>3, <2>5 DEF env_free_pgdir, TypeOK, FreeingExists
<1>9. ASSUME NEW e \in Env, NEW va \in Va, sys_page_unmap(c, e, va) PROVE Shape'
  <2>1. mem' = page_remove(mem, e, va) /\ FlushIfMapped(c, e, va) /\ freeing = NULL
    BY <1>9 DEF sys_page_unmap, CallOn, Unlocked
  <2>2. /\ mem' \in Mem /\ mem'.pgdir = mem.pgdir /\ mem'.pde = mem.pde
        /\ mem'.pte = [mem.pte EXCEPT ![e][va] = NULL]
    BY <1>0, <2>1, RemoveEffect
  <2>3. Nested(mem')
    BY <1>0, <2>2 DEF Nested, Mem
  <2>4. tlb' \in [Cpu -> [Va -> Pte \cup {NULL}]]
    BY <2>1, FlushType
  <2> QED BY <1>9, <2>1, <2>2, <2>3, <2>4 DEF sys_page_unmap, TypeOK, FreeingExists
<1>10. ASSUME NEW e \in Env, NEW va \in Va, NEW w \in BOOLEAN, sys_page_alloc(c, e, va, w)
       PROVE  Shape'
  <2>0. Exists(e) /\ freeing = NULL
    BY <1>10 DEF sys_page_alloc, CallOn, Unlocked, MayChange
  <2>1. mem' \in Mem /\ Nested(mem') /\ tlb' \in [Cpu -> [Va -> Pte \cup {NULL}]]
    <3>1. CASE mem.free = << >>
      BY <1>0, <1>10, <3>1 DEF sys_page_alloc, TypeOK
    <3>2. CASE mem.free # << >>
      <4> DEFINE p == Head(mem.free)
                 m1 == page_alloc(mem)
      <4>1. p \in Page /\ m1 \in Mem /\ m1.pgdir = mem.pgdir /\ m1.pde = mem.pde /\ m1.pte = mem.pte
        BY <1>0, <3>2, AllocEffect
      <4>2. IF CanWalk(m1, e, va)
            THEN mem' = page_insert(m1, e, p, va, w) /\ FlushIfMapped(c, e, va)
            ELSE mem' = page_free(m1, p) /\ UNCHANGED tlb
        BY <1>10, <3>2 DEF sys_page_alloc
      <4> HIDE DEF p, m1
      <4>3. Nested(m1)
        BY <1>0, <4>1 DEF Nested
      <4>4. CASE CanWalk(m1, e, va)
        <5>1. m1.pgdir[e] # NULL
          BY <2>0, <4>1 DEF Exists
        <5> DEFINE n == page_insert(m1, e, p, va, w)
        <5>a. n \in Mem /\ Nested(n)
          BY <4>1, <4>3, <4>4, <5>1, InsertEffect
        <5> HIDE DEF n
        <5>b. mem' = n
          BY <4>2, <4>4 DEF n
        <5>2. mem' \in Mem /\ Nested(mem')
          BY <5>a, <5>b
        <5>3. tlb' \in [Cpu -> [Va -> Pte \cup {NULL}]]
          BY <4>2, <4>4, FlushType
        <5> QED BY <5>2, <5>3
      <4>5. CASE ~CanWalk(m1, e, va)
        <5>1. mem' \in Mem /\ mem'.pgdir = m1.pgdir /\ mem'.pde = m1.pde /\ mem'.pte = m1.pte
          BY <4>1, <4>2, <4>5, FreeEffect
        <5> QED BY <4>2, <4>3, <4>5, <5>1 DEF Nested, TypeOK
      <4> QED BY <4>4, <4>5
    <3> QED BY <3>1, <3>2
  <2>2. ret' \in {"ok", "E_NO_MEM"} /\ UNCHANGED <<parent, cr3, freeing>>
    BY <1>10 DEF sys_page_alloc
  <2> QED BY <2>0, <2>1, <2>2 DEF TypeOK, FreeingExists
<1>11. ASSUME NEW src \in Env, NEW dst \in Env, NEW srcva \in Va, NEW dstva \in Va,
              NEW w \in BOOLEAN, sys_page_map(c, src, srcva, dst, dstva, w)
       PROVE  Shape'
  <2>1. Exists(dst) /\ freeing = NULL /\ UNCHANGED <<parent, cr3, freeing>>
    BY <1>11 DEF sys_page_map, CallOn, Unlocked, MayChange
  <2>2. CASE mem.pte[src][srcva] = NULL
    BY <1>11, <2>1, <2>2 DEF sys_page_map, page_lookup, TypeOK, FreeingExists
  <2>3. CASE mem.pte[src][srcva] # NULL
    <3>1. mem.pte[src][srcva] \in Pte
      BY <1>0, <2>3 DEF Mem
    <3>2. MapFrom(c, mem.pte[src][srcva], dst, dstva, w)
      BY <1>11, <2>3 DEF sys_page_map, page_lookup
    <3> QED BY <2>1, <3>1, <3>2, MapFromShape DEF TypeOK, FreeingExists
  <2> QED BY <2>2, <2>3
<1>12. ASSUME NEW dst \in Env, NEW srcva \in Va, NEW dstva \in Va,
              NEW w \in BOOLEAN, sys_ipc_try_send(c, srcva, dst, dstva, w)
       PROVE  Shape'
  <2>1. Exists(dst) /\ freeing = NULL /\ UNCHANGED <<parent, cr3, freeing>> /\ cr3[c] \in Env
    BY <1>12 DEF sys_ipc_try_send, Unlocked, TypeOK
  <2>2. CASE mem.pte[cr3[c]][srcva] = NULL
    BY <1>12, <2>1, <2>2 DEF sys_ipc_try_send, page_lookup, TypeOK, FreeingExists
  <2>3. CASE mem.pte[cr3[c]][srcva] # NULL
    <3>1. mem.pte[cr3[c]][srcva] \in Pte
      BY <1>0, <2>1, <2>3 DEF Mem
    <3>2. MapFrom(c, mem.pte[cr3[c]][srcva], dst, dstva, w)
      BY <1>12, <2>3 DEF sys_ipc_try_send, page_lookup
    <3> QED BY <2>1, <3>1, <3>2, MapFromShape DEF TypeOK, FreeingExists
  <2> QED BY <2>2, <2>3
<1> QED
  BY <1>1, <1>2, <1>3, <1>4, <1>5, <1>6, <1>7, <1>8, <1>9, <1>10, <1>11, <1>12 DEF Step

(* The kernel's data structures keep their types and their nesting,        *)
(* whatever programs do and even if a count wraps.                         *)
THEOREM ShapeKept == Spec => []Shape
<1>1. Shape /\ [Next]_vars => Shape'
  <2> SUFFICES ASSUME Shape, [Next]_vars PROVE Shape'
    OBVIOUS
  <2>1. CASE UNCHANGED vars
    BY <2>1 DEF vars, Shape, TypeOK, FreeingExists, Exists
  <2> QED BY <2>1, ShapeStep DEF Next
<1> QED BY <1>1, InitShape, PTL DEF Spec

(* Page table entries, counts, TLBs and registers keep the form their C    *)
(* types give them; a new page table is empty.                             *)
THEOREM TypeCorrect == Spec => []TypeOK
<1>1. Shape => TypeOK
  BY DEF Shape
<1> QED BY <1>1, ShapeKept, PTL

-----------------------------------------------------------------------------
(* TLBs, when nobody edits an address space that another CPU runs *)

(* The TLB invariant is inductive with the shape of memory and with the    *)
(* exclusive use of address spaces.                                        *)
TlbInv == Shape /\ OneCpuEach /\ TlbSafe

(* An entry of e is changed by CPU c while no other CPU runs e: what       *)
(* page_remove and page_insert flush is enough.                            *)
LEMMA TlbEdit ==
    ASSUME TlbInv, NEW c \in Cpu, NEW e \in Env, NEW va \in Va, NEW x \in Pte \cup {NULL},
           \A d \in Cpu \ {c} : cr3[d] # e,
           mem'.pte = [mem.pte EXCEPT ![e][va] = x], mem'.pgdir = mem.pgdir,
           UNCHANGED <<cr3, freeing>>,
           FlushIfMapped(c, e, va) \/ tlb_invalidate(c, e, va)
    PROVE  OneCpuEach' /\ TlbSafe'
<1>1. /\ mem.pte \in [Env -> [Va -> Pte \cup {NULL}]]
      /\ tlb \in [Cpu -> [Va -> Pte \cup {NULL}]]
      /\ cr3 \in [Cpu -> Env \cup {NULL}]
  BY DEF TlbInv, Shape, TypeOK, Mem
<1>2. OneCpuEach' /\ Cr3Exists'
  BY DEF TlbInv, OneCpuEach, TlbSafe, Cr3Exists, Exists
<1>3. \/ tlb' = tlb /\ (mem.pte[e][va] = NULL \/ cr3[c] \notin {e, NULL})
      \/ tlb' = [tlb EXCEPT ![c][va] = NULL]
  BY DEF FlushIfMapped, tlb_invalidate, page_lookup
<1>4. ASSUME NEW d \in Cpu, NEW v \in Va, tlb'[d][v] # NULL
      PROVE  cr3'[d] # NULL /\ tlb'[d][v] = mem'.pte[cr3'[d]][v]
  <2>1. tlb'[d][v] = tlb[d][v]
    BY <1>1, <1>3, <1>4
  <2>2. cr3[d] # NULL /\ tlb[d][v] = mem.pte[cr3[d]][v]
    BY <1>4, <2>1 DEF TlbInv, TlbSafe, TlbCoherent
  <2>3. cr3[d] \in Env
    BY <1>1, <2>2
  <2>4. ~(cr3[d] = e /\ v = va)
    <3> SUFFICES ASSUME cr3[d] = e, v = va PROVE FALSE
      OBVIOUS
    <3>1. d = c
      OBVIOUS
    <3>2. tlb' = [tlb EXCEPT ![c][va] = NULL]
      BY <1>3, <1>4, <2>1, <2>2, <3>1
    <3> QED BY <1>1, <1>4, <3>1, <3>2
  <2>5. mem'.pte[cr3[d]][v] = mem.pte[cr3[d]][v]
    BY <1>1, <2>3, <2>4
  <2> QED BY <2>1, <2>2, <2>5
<1> QED BY <1>2, <1>4 DEF TlbSafe, TlbCoherent

(* sys_page_map and sys_ipc_try_send leave no stale translation: no other  *)
(* CPU uses the destination.                                               *)
LEMMA MapFromTlb ==
    ASSUME TlbInv, NEW c \in Cpu, NEW x \in Pte, NEW dst \in Env, NEW dstva \in Va,
           NEW w \in BOOLEAN, Exists(dst), MapFrom(c, x, dst, dstva, w),
           \A d \in Cpu \ {c} : cr3[d] # dst, UNCHANGED <<cr3, freeing>>
    PROVE  OneCpuEach' /\ TlbSafe'
<1>1. CASE UNCHANGED <<mem, tlb>>
  BY <1>1 DEF TlbInv, OneCpuEach, TlbSafe, TlbCoherent, Cr3Exists, Exists
<1>2. CASE /\ CanWalk(mem, dst, dstva)
           /\ mem' = page_insert(mem, dst, x.page, dstva, w)
           /\ FlushIfMapped(c, dst, dstva)
  <2>1. x.page \in Page /\ Shape /\ [page |-> x.page, w |-> w] \in Pte
    BY NullFacts DEF TlbInv
  <2>2. /\ mem'.pgdir = mem.pgdir
        /\ mem'.pte = [mem.pte EXCEPT ![dst][dstva] = [page |-> x.page, w |-> w]]
    BY <1>2, <2>1, InsertShape
  <2> QED BY <1>2, <2>1, <2>2, TlbEdit
<1> QED BY <1>1, <1>2 DEF MapFrom

(* Every step keeps the TLBs coherent and each address space on one CPU.   *)
LEMMA TlbStep ==
    ASSUME Remote = FALSE, TlbInv, NEW c \in Cpu, Step(c) PROVE OneCpuEach' /\ TlbSafe'
<1>0. /\ mem \in Mem /\ Nested(mem) /\ Shape /\ TypeOK /\ OneCpuEach /\ TlbCoherent /\ Cr3Exists
      /\ tlb \in [Cpu -> [Va -> Pte \cup {NULL}]] /\ cr3 \in [Cpu -> Env \cup {NULL}]
  BY DEF TlbInv, Shape, TypeOK, TlbSafe
<1> USE DEF TlbSafe
<1>1. CASE env_run(c)
  <2>1. PICK e \in Env : /\ Exists(e) /\ \A d \in Cpu : cr3[d] # e
                         /\ cr3' = [cr3 EXCEPT ![c] = e]
    BY <1>1 DEF env_run
  <2>2. tlb' = [tlb EXCEPT ![c] = NoPtes] /\ mem' = mem /\ freeing' = NULL
    BY <1>1 DEF env_run, Unlocked
  <2> QED BY <1>0, <2>1, <2>2, NullFacts DEF OneCpuEach, TlbCoherent, Cr3Exists, Exists, NoPtes
<1>2. CASE sched_halt(c)
  BY <1>0, <1>2 DEF sched_halt, Unlocked, OneCpuEach, TlbCoherent, Cr3Exists, Exists, NoPtes
<1>3. CASE Access(c)
  <2>1. PICK va \in Va : tlb' = [tlb EXCEPT ![c][va] = mem.pte[cr3[c]][va]]
    BY <1>3 DEF Access
  <2> QED BY <1>0, <1>3, <2>1 DEF Access, OneCpuEach, TlbCoherent, Cr3Exists, Exists
<1>4. CASE sys_exofork(c)
  <2>1. /\ UNCHANGED <<cr3, tlb, freeing>>
        /\ mem'.pte = mem.pte /\ \A f \in Env : mem.pgdir[f] # NULL => mem'.pgdir[f] # NULL
    <3>0. PICK e \in Env :
            /\ ~Exists(e)
            /\ IF mem.free = << >> THEN mem' = mem ELSE mem' = env_setup_vm(mem, e)
      BY <1>4 DEF sys_exofork
    <3>1. CASE mem.free = << >>
      BY <1>4, <3>0, <3>1 DEF sys_exofork
    <3>2. CASE mem.free # << >>
      <4>1. /\ mem'.pte = mem.pte /\ Head(mem.free) \in Page
            /\ mem'.pgdir = [mem.pgdir EXCEPT ![e] = Head(mem.free)]
        BY <1>0, <3>0, <3>2, SetupEffect, ZenonT(30) DEF Exists
      <4> QED BY <1>0, <1>4, <4>1, NullFacts DEF sys_exofork, Mem
    <3> QED BY <3>1, <3>2
  <2> QED BY <1>0, <2>1 DEF OneCpuEach, TlbCoherent, Cr3Exists, Exists
<1>5. CASE env_free(c)
  <2>1. PICK e \in Env :
          /\ \A d \in Cpu \ {c} : cr3[d] # e
          /\ freeing' = [cpu |-> c, env |-> e]
          /\ IF cr3[c] = e
             THEN cr3' = [cr3 EXCEPT ![c] = NULL] /\ tlb' = [tlb EXCEPT ![c] = NoPtes]
             ELSE UNCHANGED <<cr3, tlb>>
    BY <1>5 DEF env_free
  <2>2. mem' = mem /\ freeing'.env = e
    BY <1>5, <2>1 DEF env_free
  <2>3. \A d \in Cpu : cr3'[d] # e /\ (cr3'[d] = NULL \/ cr3'[d] = cr3[d])
    BY <1>0, <2>1, NullFacts
  <2>4. \A d \in Cpu : (cr3'[d] = cr3[d] /\ tlb'[d] = tlb[d]) \/ tlb'[d] = NoPtes
    BY <1>0, <2>1
  <2>5. OneCpuEach' /\ Cr3Exists'
    BY <1>0, <2>2, <2>3 DEF OneCpuEach, Cr3Exists, Exists
  <2>6. TlbCoherent'
    BY <1>0, <2>2, <2>4 DEF TlbCoherent, NoPtes
  <2> QED BY <2>5, <2>6
<1>6. CASE env_free_page(c)
  <2>0. freeing # NULL /\ freeing.env \in Env
    BY <1>0, <1>6 DEF env_free_page, TypeOK
  <2>a. \A d \in Cpu : cr3[d] # freeing.env
    BY <1>0, <2>0 DEF OneCpuEach
  <2>1. PICK va \in Va : mem' = page_remove(mem, freeing.env, va) /\ tlb_invalidate(c, freeing.env, va)
    BY <1>6 DEF env_free_page
  <2>2. /\ mem' \in Mem /\ mem'.pgdir = mem.pgdir /\ mem'.pde = mem.pde
        /\ mem'.pte = [mem.pte EXCEPT ![freeing.env][va] = NULL]
    <3>1. mem \in Mem
      BY <1>0
    <3> QED BY <2>0, <2>1, <3>1, RemoveEffect
  <2>3. UNCHANGED <<cr3, freeing>>
    BY <1>6 DEF env_free_page
  <2> QED BY <2>0, <2>a, <2>1, <2>2, <2>3, TlbEdit
<1>7. CASE env_free_table(c)
  <2>0. freeing # NULL /\ freeing.env \in Env
    BY <1>0, <1>7 DEF env_free_table, TypeOK
  <2> DEFINE e == freeing.env
  <2>1. PICK t \in Table :
          /\ mem.pde[e][t] # NULL
          /\ mem' = page_decref([mem EXCEPT !.pde[e][t] = NULL], mem.pde[e][t])
    BY <1>7 DEF env_free_table, AtTable
  <2> DEFINE k == [mem EXCEPT !.pde[e][t] = NULL]
  <2>2. e \in Env
    BY <2>0
  <2> HIDE DEF e
  <2>b. mem.pde[e][t] \in Page
    BY <1>0, <2>1, <2>2 DEF Mem
  <2>3. k \in Mem /\ k.pgdir = mem.pgdir /\ k.pte = mem.pte /\ mem.pde[e][t] \in Page
    BY <1>0, <2>2, <2>b DEF Mem
  <2> HIDE DEF k
  <2>4. mem'.pgdir = mem.pgdir /\ mem'.pte = mem.pte
    BY <2>1, <2>3, DecrefEffect DEF k
  <2>5. UNCHANGED <<cr3, tlb, freeing>>
    BY <1>7 DEF env_free_table
  <2>6. OneCpuEach' /\ Cr3Exists'
    BY <1>0, <2>4, <2>5 DEF OneCpuEach, Cr3Exists, Exists
  <2>7. TlbCoherent'
    BY <1>0, <2>4, <2>5 DEF TlbCoherent
  <2> QED BY <2>6, <2>7
<1>8. CASE env_free_pgdir(c)
  <2>0. freeing # NULL /\ freeing.env \in Env /\ Exists(freeing.env)
    BY <1>0, <1>8 DEF env_free_pgdir, TypeOK, Shape, FreeingExists
  <2> DEFINE e == freeing.env
             k == [mem EXCEPT !.pgdir[e] = NULL]
  <2>1. mem' = page_decref(k, mem.pgdir[e])
    BY <1>8 DEF env_free_pgdir
  <2>2. e \in Env /\ mem.pgdir[e] # NULL /\ \A d \in Cpu : cr3[d] # e
    BY <1>0, <2>0 DEF Exists, OneCpuEach
  <2> HIDE DEF e
  <2>3. /\ k \in Mem /\ k.pte = mem.pte
        /\ k.pgdir = [mem.pgdir EXCEPT ![e] = NULL] /\ mem.pgdir[e] \in Page
    BY <1>0, <2>2 DEF Mem
  <2> HIDE DEF k
  <2>4. mem'.pte = mem.pte /\ mem'.pgdir = [mem.pgdir EXCEPT ![e] = NULL]
    BY <2>1, <2>3, DecrefEffect
  <2>5. UNCHANGED <<cr3, tlb>> /\ freeing' = NULL
    BY <1>8 DEF env_free_pgdir
  <2>6. OneCpuEach' /\ TlbCoherent'
    BY <1>0, <2>4, <2>5 DEF OneCpuEach, TlbCoherent
  <2>7. Cr3Exists'
    BY <1>0, <2>2, <2>4, <2>5 DEF Cr3Exists, Exists, Mem
  <2> QED BY <2>6, <2>7
<1>9. ASSUME NEW e \in Env, NEW va \in Va, sys_page_unmap(c, e, va)
      PROVE  OneCpuEach' /\ TlbSafe'
  <2>1. /\ mem' = page_remove(mem, e, va) /\ FlushIfMapped(c, e, va)
        /\ UNCHANGED <<cr3, freeing>> /\ \A d \in Cpu \ {c} : cr3[d] # e
    BY <1>9 DEF sys_page_unmap, CallOn
  <2>2. mem'.pgdir = mem.pgdir /\ mem'.pte = [mem.pte EXCEPT ![e][va] = NULL]
    BY <1>0, <2>1, RemoveEffect, ZenonT(30)
  <2> QED BY <2>1, <2>2, TlbEdit
<1>10. ASSUME NEW e \in Env, NEW va \in Va, NEW w \in BOOLEAN, sys_page_alloc(c, e, va, w)
       PROVE  OneCpuEach' /\ TlbSafe'
  <2>0. /\ Exists(e) /\ UNCHANGED <<cr3, freeing>> /\ \A d \in Cpu \ {c} : cr3[d] # e
    BY <1>10 DEF sys_page_alloc, CallOn, MayChange
  <2>1. CASE UNCHANGED <<mem, tlb>>
    BY <1>0, <2>0, <2>1 DEF OneCpuEach, TlbCoherent, Cr3Exists, Exists
  <2>2. CASE mem.free # << >>
    <3> DEFINE p == Head(mem.free)
               m1 == page_alloc(mem)
    <3>1. p \in Page /\ m1 \in Mem /\ m1.pgdir = mem.pgdir /\ m1.pde = mem.pde /\ m1.pte = mem.pte
      BY <1>0, <2>2, AllocEffect
    <3>2. IF CanWalk(m1, e, va)
          THEN mem' = page_insert(m1, e, p, va, w) /\ FlushIfMapped(c, e, va)
          ELSE mem' = page_free(m1, p) /\ UNCHANGED tlb
      BY <1>10, <2>2 DEF sys_page_alloc
    <3> HIDE DEF p, m1
    <3>3. Nested(m1) /\ m1.pgdir[e] # NULL
      BY <1>0, <2>0, <3>1 DEF Nested, Exists
    <3>4. CASE CanWalk(m1, e, va)
      <4> DEFINE n == page_insert(m1, e, p, va, w)
      <4>1. /\ n \in Mem /\ Nested(n)
            /\ n.pte = [m1.pte EXCEPT ![e][va] = [page |-> p, w |-> w]]
            /\ n.pgdir = m1.pgdir
        BY <3>1, <3>3, <3>4, InsertEffect
      <4>2. [page |-> p, w |-> w] \in Pte
        BY <3>1, NullFacts
      <4> HIDE DEF n
      <4>3. mem' = n /\ FlushIfMapped(c, e, va)
        BY <3>2, <3>4 DEF n
      <4> QED BY <2>0, <3>1, <4>1, <4>2, <4>3, TlbEdit
    <3>5. CASE ~CanWalk(m1, e, va)
      <4>1. mem'.pgdir = mem.pgdir /\ mem'.pte = mem.pte /\ tlb' = tlb
        BY <3>1, <3>2, <3>5, FreeEffect
      <4> QED BY <1>0, <2>0, <4>1 DEF OneCpuEach, TlbCoherent, Cr3Exists, Exists
    <3> QED BY <3>4, <3>5
  <2> QED BY <1>10, <2>1, <2>2 DEF sys_page_alloc
<1>11. ASSUME NEW src \in Env, NEW dst \in Env, NEW srcva \in Va, NEW dstva \in Va,
              NEW w \in BOOLEAN, sys_page_map(c, src, srcva, dst, dstva, w)
       PROVE  OneCpuEach' /\ TlbSafe'
  <2>1. Exists(dst) /\ UNCHANGED <<cr3, freeing>> /\ \A d \in Cpu \ {c} : cr3[d] # dst
    BY <1>11 DEF sys_page_map, CallOn, MayChange
  <2>2. CASE UNCHANGED <<mem, tlb>>
    BY <1>0, <2>1, <2>2 DEF OneCpuEach, TlbCoherent, Cr3Exists, Exists
  <2>3. CASE mem.pte[src][srcva] # NULL
    <3>1. mem.pte[src][srcva] \in Pte
      BY <1>0, <2>3 DEF Mem
    <3>2. MapFrom(c, mem.pte[src][srcva], dst, dstva, w)
      BY <1>11, <2>3 DEF sys_page_map, page_lookup
    <3> QED BY <2>1, <3>1, <3>2, MapFromTlb
  <2> QED BY <1>11, <2>2, <2>3 DEF sys_page_map, page_lookup
<1>12. ASSUME NEW dst \in Env, NEW srcva \in Va, NEW dstva \in Va,
              NEW w \in BOOLEAN, sys_ipc_try_send(c, srcva, dst, dstva, w)
       PROVE  OneCpuEach' /\ TlbSafe'
  <2>1. /\ Exists(dst) /\ UNCHANGED <<cr3, freeing>> /\ cr3[c] \in Env
        /\ \A d \in Cpu \ {c} : cr3[d] # dst
    BY <1>0, <1>12 DEF sys_ipc_try_send
  <2>2. CASE UNCHANGED <<mem, tlb>>
    BY <1>0, <2>1, <2>2 DEF OneCpuEach, TlbCoherent, Cr3Exists, Exists
  <2>3. CASE mem.pte[cr3[c]][srcva] # NULL
    <3>1. mem.pte[cr3[c]][srcva] \in Pte
      BY <1>0, <2>1, <2>3 DEF Mem
    <3>2. MapFrom(c, mem.pte[cr3[c]][srcva], dst, dstva, w)
      BY <1>12, <2>3 DEF sys_ipc_try_send, page_lookup
    <3> QED BY <2>1, <3>1, <3>2, MapFromTlb
  <2> QED BY <1>12, <2>2, <2>3 DEF sys_ipc_try_send, page_lookup
<1> QED
  BY <1>1, <1>2, <1>3, <1>4, <1>5, <1>6, <1>7, <1>8, <1>9, <1>10, <1>11, <1>12 DEF Step

(* If no program edits an address space that another CPU is using, every   *)
(* translation a CPU has cached is the one in the page tables, however     *)
(* calls, context switches and env_free's loop interleave, and no CPU uses *)
(* a page directory that is gone.                                          *)
THEOREM TlbCorrect ==
    ASSUME Remote = FALSE
    PROVE  Spec => []TlbSafe
<1>1. Init => TlbInv
  BY InitShape DEF Init, TlbInv, OneCpuEach, TlbSafe, TlbCoherent, Cr3Exists, NoPtes
<1>2. TlbInv /\ [Next]_vars => TlbInv'
  <2> SUFFICES ASSUME TlbInv, [Next]_vars PROVE TlbInv'
    OBVIOUS
  <2>1. CASE UNCHANGED vars
    BY <2>1 DEF vars, TlbInv, Shape, TypeOK, FreeingExists, Exists, OneCpuEach, TlbSafe,
                TlbCoherent, Cr3Exists
  <2> QED BY <2>1, ShapeStep, TlbStep DEF Next, TlbInv
<1>3. TlbInv => TlbSafe
  BY DEF TlbInv
<1> QED BY <1>1, <1>2, <1>3, PTL DEF Spec

-----------------------------------------------------------------------------
(* The places that point to a page, and their number *)

(* The places that can point to a page are finitely many.                  *)
LEMMA LayoutFinite == IsFiniteSet(Env) /\ IsFiniteSet(Env \X Table) /\ IsFiniteSet(Env \X Va)
<1>1. IsFiniteSet(Va)
  BY PmapAssumption, FS_Interval DEF Va
<1>2. IsFiniteSet(Table)
  <2> DEFINE f == [va \in Va |-> PDX(va)]
  <2>1. f \in Surjection(Va, Table)
    BY DEF Surjection, Table
  <2> QED BY <1>1, <2>1, FS_Surjection
<1> QED BY <1>1, <1>2, PmapAssumption, FS_Product

(* The number of places that point to a page is a number, and it is 0 if   *)
(* there is none.                                                          *)
LEMMA PlacesFinite ==
    ASSUME NEW m, NEW p
    PROVE  /\ IsFiniteSet(Dirs(m, p)) /\ Cardinality(Dirs(m, p)) \in Nat
           /\ IsFiniteSet(Tables(m, p)) /\ Cardinality(Tables(m, p)) \in Nat
           /\ IsFiniteSet(Mappings(m, p)) /\ Cardinality(Mappings(m, p)) \in Nat
           /\ Cardinality(Dirs(m, p)) = 0 <=> Dirs(m, p) = {}
           /\ Cardinality(Tables(m, p)) = 0 <=> Tables(m, p) = {}
           /\ Cardinality(Mappings(m, p)) = 0 <=> Mappings(m, p) = {}
           /\ Boot(p) \in {0, 1} /\ (Boot(p) = 1 <=> p \in Reserved)
           /\ Refs(m, p) \in Nat
<1>1. Dirs(m, p) \in SUBSET Env /\ Tables(m, p) \in SUBSET (Env \X Table)
      /\ Mappings(m, p) \in SUBSET (Env \X Va)
  BY DEF Dirs, Tables, Mappings
<1>2. IsFiniteSet(Dirs(m, p)) /\ IsFiniteSet(Tables(m, p)) /\ IsFiniteSet(Mappings(m, p))
  BY <1>1, LayoutFinite, FS_Subset
<1>3. /\ Cardinality(Dirs(m, p)) \in Nat /\ Cardinality(Tables(m, p)) \in Nat
      /\ Cardinality(Mappings(m, p)) \in Nat
  BY <1>2, FS_CardinalityType
<1>4. /\ Cardinality(Dirs(m, p)) = 0 <=> Dirs(m, p) = {}
      /\ Cardinality(Tables(m, p)) = 0 <=> Tables(m, p) = {}
      /\ Cardinality(Mappings(m, p)) = 0 <=> Mappings(m, p) = {}
  BY <1>2, FS_EmptySet
<1>5. Boot(p) \in {0, 1} /\ (Boot(p) = 1 <=> p \in Reserved)
  BY DEF Boot
<1> QED BY <1>2, <1>3, <1>4, <1>5 DEF Refs

(* One element more.                                                       *)
LEMMA OneMore ==
    ASSUME NEW S, IsFiniteSet(S), NEW x, x \notin S
    PROVE  Cardinality(S \cup {x}) = Cardinality(S) + 1
  BY FS_AddElement

(* Refs counts what the page tables say, nothing else.                     *)
LEMMA SameRefs ==
    ASSUME NEW m, NEW n, n.pgdir = m.pgdir, n.pde = m.pde, n.pte = m.pte
    PROVE  \A p : /\ Dirs(n, p) = Dirs(m, p) /\ Tables(n, p) = Tables(m, p)
                  /\ Mappings(n, p) = Mappings(m, p) /\ Refs(n, p) = Refs(m, p)
<1>1. \A p : /\ Dirs(n, p) = Dirs(m, p) /\ Tables(n, p) = Tables(m, p)
             /\ Mappings(n, p) = Mappings(m, p)
  BY DEF Dirs, Tables, Mappings
<1> QED BY <1>1 DEF Refs

(* From m to n, one entry of a page table, or one of a page directory, or  *)
(* one env_pgdir becomes x.                                                *)
PteEdit(m, n, e, va, x) ==
    n.pte = [m.pte EXCEPT ![e][va] = x] /\ n.pgdir = m.pgdir /\ n.pde = m.pde
PdeEdit(m, n, e, t, x) ==
    n.pde = [m.pde EXCEPT ![e][t] = x] /\ n.pgdir = m.pgdir /\ n.pte = m.pte
DirEdit(m, n, e, x) ==
    n.pgdir = [m.pgdir EXCEPT ![e] = x] /\ n.pde = m.pde /\ n.pte = m.pte

(* A page table entry, a directory entry or env_pgdir is set that was null *)
(* in m: one pointer more to the page it now names.                        *)
LEMMA PteSet ==
    ASSUME NEW m \in Mem, NEW n, NEW e \in Env, NEW va \in Va, NEW x \in Pte,
           m.pte[e][va] = NULL, PteEdit(m, n, e, va, x)
    PROVE  \A p \in Page :
              /\ Dirs(n, p) = Dirs(m, p) /\ Tables(n, p) = Tables(m, p)
              /\ Mappings(n, p) = Mappings(m, p) \cup (IF p = x.page THEN {<<e, va>>} ELSE {})
              /\ Refs(n, p) = Refs(m, p) + (IF p = x.page THEN 1 ELSE 0)
<1> SUFFICES ASSUME NEW p \in Page
             PROVE  /\ Dirs(n, p) = Dirs(m, p) /\ Tables(n, p) = Tables(m, p)
                    /\ Mappings(n, p) = Mappings(m, p) \cup (IF p = x.page THEN {<<e, va>>} ELSE {})
                    /\ Refs(n, p) = Refs(m, p) + (IF p = x.page THEN 1 ELSE 0)
  OBVIOUS
<1>1. Dirs(n, p) = Dirs(m, p) /\ Tables(n, p) = Tables(m, p)
  BY DEF Dirs, Tables, PteEdit
<1>2. m.pte \in [Env -> [Va -> Pte \cup {NULL}]] /\ x # NULL
  BY NullFacts DEF Mem
<1>3. ASSUME NEW f \in Env, NEW v \in Va
      PROVE  n.pte[f][v] = IF f = e /\ v = va THEN x ELSE m.pte[f][v]
  BY <1>2 DEF PteEdit
<1>4. Mappings(n, p) = Mappings(m, p) \cup (IF p = x.page THEN {<<e, va>>} ELSE {})
  BY <1>2, <1>3 DEF Mappings
<1>5. <<e, va>> \notin Mappings(m, p)
  BY DEF Mappings
<1>6. Cardinality(Mappings(n, p)) = Cardinality(Mappings(m, p)) + (IF p = x.page THEN 1 ELSE 0)
  <2>1. CASE p = x.page
    BY <1>4, <1>5, <2>1, PlacesFinite, OneMore
  <2>2. CASE p # x.page
    BY <1>4, <2>2, PlacesFinite
  <2> QED BY <2>1, <2>2
<1>7. /\ Cardinality(Dirs(m, p)) \in Nat /\ Cardinality(Tables(m, p)) \in Nat
      /\ Cardinality(Mappings(m, p)) \in Nat /\ Boot(p) \in {0, 1}
  BY PlacesFinite
<1> QED BY <1>1, <1>4, <1>6, <1>7 DEF Refs

(* A page directory entry that is set counts once, for its page table.     *)
LEMMA PdeSet ==
    ASSUME NEW m \in Mem, NEW n, NEW e \in Env, NEW t \in Table, NEW q \in Page,
           m.pde[e][t] = NULL, PdeEdit(m, n, e, t, q)
    PROVE  \A p \in Page :
              /\ Dirs(n, p) = Dirs(m, p) /\ Mappings(n, p) = Mappings(m, p)
              /\ Tables(n, p) = Tables(m, p) \cup (IF p = q THEN {<<e, t>>} ELSE {})
              /\ Refs(n, p) = Refs(m, p) + (IF p = q THEN 1 ELSE 0)
<1> SUFFICES ASSUME NEW p \in Page
             PROVE  /\ Dirs(n, p) = Dirs(m, p) /\ Mappings(n, p) = Mappings(m, p)
                    /\ Tables(n, p) = Tables(m, p) \cup (IF p = q THEN {<<e, t>>} ELSE {})
                    /\ Refs(n, p) = Refs(m, p) + (IF p = q THEN 1 ELSE 0)
  OBVIOUS
<1>1. Dirs(n, p) = Dirs(m, p) /\ Mappings(n, p) = Mappings(m, p)
  BY DEF Dirs, Mappings, PdeEdit
<1>2. m.pde \in [Env -> [Table -> Page \cup {NULL}]] /\ p # NULL
  BY NullFacts DEF Mem
<1>3. ASSUME NEW f \in Env, NEW u \in Table
      PROVE  n.pde[f][u] = IF f = e /\ u = t THEN q ELSE m.pde[f][u]
  BY <1>2 DEF PdeEdit
<1>4. Tables(n, p) = Tables(m, p) \cup (IF p = q THEN {<<e, t>>} ELSE {})
  BY <1>2, <1>3 DEF Tables
<1>5. <<e, t>> \notin Tables(m, p)
  BY <1>2 DEF Tables
<1>6. Cardinality(Tables(n, p)) = Cardinality(Tables(m, p)) + (IF p = q THEN 1 ELSE 0)
  <2>1. CASE p = q
    BY <1>4, <1>5, <2>1, PlacesFinite, OneMore
  <2>2. CASE p # q
    BY <1>4, <2>2, PlacesFinite
  <2> QED BY <2>1, <2>2
<1>7. /\ Cardinality(Dirs(m, p)) \in Nat /\ Cardinality(Tables(m, p)) \in Nat
      /\ Cardinality(Mappings(m, p)) \in Nat /\ Boot(p) \in {0, 1}
  BY PlacesFinite
<1> QED BY <1>1, <1>4, <1>6, <1>7 DEF Refs

(* A page directory counts once.                                           *)
LEMMA DirSet ==
    ASSUME NEW m \in Mem, NEW n, NEW e \in Env, NEW q \in Page,
           m.pgdir[e] = NULL, DirEdit(m, n, e, q)
    PROVE  \A p \in Page :
              /\ Tables(n, p) = Tables(m, p) /\ Mappings(n, p) = Mappings(m, p)
              /\ Dirs(n, p) = Dirs(m, p) \cup (IF p = q THEN {e} ELSE {})
              /\ Refs(n, p) = Refs(m, p) + (IF p = q THEN 1 ELSE 0)
<1> SUFFICES ASSUME NEW p \in Page
             PROVE  /\ Tables(n, p) = Tables(m, p) /\ Mappings(n, p) = Mappings(m, p)
                    /\ Dirs(n, p) = Dirs(m, p) \cup (IF p = q THEN {e} ELSE {})
                    /\ Refs(n, p) = Refs(m, p) + (IF p = q THEN 1 ELSE 0)
  OBVIOUS
<1>1. Tables(n, p) = Tables(m, p) /\ Mappings(n, p) = Mappings(m, p)
  BY DEF Tables, Mappings, DirEdit
<1>2. m.pgdir \in [Env -> Page \cup {NULL}] /\ p # NULL
  BY NullFacts DEF Mem
<1>3. ASSUME NEW f \in Env PROVE n.pgdir[f] = IF f = e THEN q ELSE m.pgdir[f]
  BY <1>2 DEF DirEdit
<1>4. Dirs(n, p) = Dirs(m, p) \cup (IF p = q THEN {e} ELSE {})
  BY <1>2, <1>3 DEF Dirs
<1>5. e \notin Dirs(m, p)
  BY <1>2 DEF Dirs
<1>6. Cardinality(Dirs(n, p)) = Cardinality(Dirs(m, p)) + (IF p = q THEN 1 ELSE 0)
  <2>1. CASE p = q
    BY <1>4, <1>5, <2>1, PlacesFinite, OneMore
  <2>2. CASE p # q
    BY <1>4, <2>2, PlacesFinite
  <2> QED BY <2>1, <2>2
<1>7. /\ Cardinality(Dirs(m, p)) \in Nat /\ Cardinality(Tables(m, p)) \in Nat
      /\ Cardinality(Mappings(m, p)) \in Nat /\ Boot(p) \in {0, 1}
  BY PlacesFinite
<1> QED BY <1>1, <1>4, <1>6, <1>7 DEF Refs

(* Setting an entry can be undone.                                         *)
LEMMA Undo ==
    ASSUME NEW S, NEW T, NEW V, NEW f \in [S -> [T -> V]], NEW a \in S, NEW b \in T, NEW z,
           NEW g, g = [f EXCEPT ![a][b] = z]
    PROVE  /\ g[a][b] = z
           /\ f = [g EXCEPT ![a][b] = f[a][b]]
<1>1. /\ f[a] \in [T -> V] /\ g[a] = [f[a] EXCEPT ![b] = z]
      /\ g = [f EXCEPT ![a] = g[a]]
  OBVIOUS
<1>2. f[a] = [g[a] EXCEPT ![b] = f[a][b]]
  BY <1>1
<1> DEFINE h == [g EXCEPT ![a] = f[a]]
<1>3. DOMAIN h = S /\ \A s \in S : h[s] = f[s]
  BY <1>1
<1>4. h = f
  BY <1>3
<1>5. [g EXCEPT ![a][b] = f[a][b]] = [g EXCEPT ![a] = [g[a] EXCEPT ![b] = f[a][b]]]
  OBVIOUS
<1>6. g[a][b] = z
  BY <1>1
<1> QED BY <1>2, <1>4, <1>5, <1>6

(* An entry is cleared: the same, seen backwards.                          *)
LEMMA PteClear ==
    ASSUME NEW m \in Mem, NEW n \in Mem, NEW e \in Env, NEW va \in Va, m.pte[e][va] # NULL,
           PteEdit(m, n, e, va, NULL)
    PROVE  /\ m.pte[e][va].page \in Page
           /\ \A p \in Page :
                /\ Dirs(n, p) = Dirs(m, p) /\ Tables(n, p) = Tables(m, p)
                /\ Refs(m, p) = Refs(n, p) + (IF p = m.pte[e][va].page THEN 1 ELSE 0)
<1> DEFINE x == m.pte[e][va]
<1>0. m.pte \in [Env -> [Va -> Pte \cup {NULL}]]
  BY DEF Mem
<1>1. x \in Pte /\ n.pte[e][va] = NULL /\ PteEdit(n, m, e, va, x)
  BY <1>0, Undo DEF PteEdit
<1>2. x.page \in Page
  BY <1>1, NullFacts
<1> HIDE DEF x
<1>3. \A p \in Page :
          /\ Dirs(m, p) = Dirs(n, p) /\ Tables(m, p) = Tables(n, p)
          /\ Mappings(m, p) = Mappings(n, p) \cup (IF p = x.page THEN {<<e, va>>} ELSE {})
          /\ Refs(m, p) = Refs(n, p) + (IF p = x.page THEN 1 ELSE 0)
  BY <1>1, PteSet
<1> QED BY <1>2, <1>3 DEF x

(* A page directory entry that is cleared no longer counts.                *)
LEMMA PdeClear ==
    ASSUME NEW m \in Mem, NEW n \in Mem, NEW e \in Env, NEW t \in Table, m.pde[e][t] # NULL,
           PdeEdit(m, n, e, t, NULL)
    PROVE  /\ m.pde[e][t] \in Page
           /\ \A p \in Page :
                /\ Dirs(n, p) = Dirs(m, p)
                /\ Tables(m, p) = Tables(n, p) \cup (IF p = m.pde[e][t] THEN {<<e, t>>} ELSE {})
                /\ Refs(m, p) = Refs(n, p) + (IF p = m.pde[e][t] THEN 1 ELSE 0)
<1> DEFINE q == m.pde[e][t]
<1>0. m.pde \in [Env -> [Table -> Page \cup {NULL}]]
  BY DEF Mem
<1>1. q \in Page /\ n.pde[e][t] = NULL /\ PdeEdit(n, m, e, t, q)
  BY <1>0, Undo DEF PdeEdit
<1> HIDE DEF q
<1>3. \A p \in Page :
          /\ Dirs(m, p) = Dirs(n, p) /\ Mappings(m, p) = Mappings(n, p)
          /\ Tables(m, p) = Tables(n, p) \cup (IF p = q THEN {<<e, t>>} ELSE {})
          /\ Refs(m, p) = Refs(n, p) + (IF p = q THEN 1 ELSE 0)
  BY <1>1, PdeSet
<1> QED BY <1>1, <1>3 DEF q

(* A page directory that is given up no longer counts.                     *)
LEMMA DirClear ==
    ASSUME NEW m \in Mem, NEW n \in Mem, NEW e \in Env, m.pgdir[e] # NULL,
           DirEdit(m, n, e, NULL)
    PROVE  /\ m.pgdir[e] \in Page
           /\ \A p \in Page :
                /\ Tables(n, p) = Tables(m, p)
                /\ Dirs(m, p) = Dirs(n, p) \cup (IF p = m.pgdir[e] THEN {e} ELSE {})
                /\ Refs(m, p) = Refs(n, p) + (IF p = m.pgdir[e] THEN 1 ELSE 0)
<1> DEFINE q == m.pgdir[e]
<1>1. q \in Page /\ n.pgdir[e] = NULL /\ DirEdit(n, m, e, q)
  BY DEF Mem, DirEdit
<1> HIDE DEF q
<1>3. \A p \in Page :
          /\ Tables(m, p) = Tables(n, p) /\ Mappings(m, p) = Mappings(n, p)
          /\ Dirs(m, p) = Dirs(n, p) \cup (IF p = q THEN {e} ELSE {})
          /\ Refs(m, p) = Refs(n, p) + (IF p = q THEN 1 ELSE 0)
  BY <1>1, DirSet
<1> QED BY <1>1, <1>3 DEF q

-----------------------------------------------------------------------------
(* The list of free pages *)

(* The list holds, once each, the pages whose count is 0, without those in *)
(* H, which a system call has taken and not yet used.                      *)
Distinct(s) == \A j, k \in 1..Len(s) : s[j] = s[k] => j = k

ListExact(m, H) ==
    /\ Distinct(m.free) /\ ~m.panic
    /\ \A p \in Page : OnFreeList(m, p) <=> m.ref[p] = 0 /\ p \notin H

(* The free list is exact as long as neither it nor a count changes.       *)
LEMMA ListSame ==
    ASSUME NEW m, NEW n, NEW H, ListExact(m, H),
           n.free = m.free, n.ref = m.ref, n.panic = m.panic
    PROVE  ListExact(n, H)
  BY DEF ListExact, Distinct, OnFreeList

(* Taking and returning the head, on the list itself.                      *)
LEMMA PopDistinct ==
    ASSUME NEW s \in Seq(Page), s # << >>, Distinct(s)
    PROVE  /\ Distinct(Tail(s))
           /\ \A p : (\E k \in 1..Len(Tail(s)) : Tail(s)[k] = p)
                        <=> (\E k \in 1..Len(s) : s[k] = p) /\ p # Head(s)
           /\ \E k \in 1..Len(s) : s[k] = Head(s)
<1>1. /\ Head(s) = s[1] /\ Len(s) \in Nat \ {0} /\ Len(Tail(s)) = Len(s) - 1
      /\ \A k \in 1..Len(s) - 1 : Tail(s)[k] = s[k + 1]
  BY ListPop
<1> DEFINE t == Tail(s)
           N == Len(s)
<1>2. N \in Nat \ {0} /\ Len(t) = N - 1 /\ (\A k \in 1..N - 1 : t[k] = s[k + 1])
  BY <1>1
<1>3. \A j, k \in 1..N : s[j] = s[k] => j = k
  BY DEF Distinct
<1> HIDE DEF t, N
<1>4. \A j, k \in 1..N-1 : t[j] = t[k] => j = k
  <2> SUFFICES ASSUME NEW j \in 1..N-1, NEW k \in 1..N-1, t[j] = t[k] PROVE j = k
    OBVIOUS
  <2>1. s[j + 1] = s[k + 1] /\ j + 1 \in 1..N /\ k + 1 \in 1..N
    BY <1>2
  <2>2. j + 1 = k + 1
    BY <1>3, <2>1
  <2> QED BY <2>2
<1>5. ASSUME NEW p, NEW k \in 1..N-1, t[k] = p PROVE (\E j \in 1..N : s[j] = p) /\ p # s[1]
  <2>1. s[k + 1] = p /\ k + 1 \in 1..N /\ 1 \in 1..N /\ k + 1 # 1
    BY <1>2, <1>5
  <2> QED BY <1>3, <2>1
<1>6. ASSUME NEW p, NEW k \in 1..N, s[k] = p, p # s[1] PROVE \E j \in 1..N-1 : t[j] = p
  <2>1. k # 1
    BY <1>6
  <2>2. k - 1 \in 1..N-1 /\ (k - 1) + 1 = k
    BY <1>2, <2>1
  <2>3. t[k - 1] = s[k]
    BY <1>2, <2>2
  <2> QED BY <1>6, <2>2, <2>3
<1>7. 1 \in 1..N /\ Len(t) = N - 1
  BY <1>2
<1>8. Distinct(t)
  BY <1>4, <1>7 DEF Distinct
<1> QED BY <1>1, <1>5, <1>6, <1>7, <1>8 DEF t, N

(* A page that was not on the free list may become its head.               *)
LEMMA PushDistinct ==
    ASSUME NEW s \in Seq(Page), Distinct(s), NEW q \in Page, \A k \in 1..Len(s) : s[k] # q
    PROVE  /\ Distinct(<<q>> \o s)
           /\ \A p : (\E k \in 1..Len(<<q>> \o s) : (<<q>> \o s)[k] = p)
                        <=> (\E k \in 1..Len(s) : s[k] = p) \/ p = q
<1> DEFINE t == <<q>> \o s
           N == Len(s)
<1>1. N \in Nat /\ Len(t) = N + 1 /\ t[1] = q /\ \A k \in 1..N : t[k + 1] = s[k]
  BY ListPush
<1>2. (\A j, k \in 1..N : s[j] = s[k] => j = k) /\ \A k \in 1..N : s[k] # q
  BY DEF Distinct
<1> HIDE DEF t, N
<1>3. ASSUME NEW k \in 1..N+1 PROVE k = 1 \/ (k - 1 \in 1..N /\ t[k] = s[k - 1])
  <2> SUFFICES ASSUME k # 1 PROVE k - 1 \in 1..N /\ t[k] = s[k - 1]
    OBVIOUS
  <2>1. k - 1 \in 1..N /\ (k - 1) + 1 = k
    BY <1>1
  <2> QED BY <1>1, <2>1
<1>4. \A j, k \in 1..N+1 : t[j] = t[k] => j = k
  <2> SUFFICES ASSUME NEW j \in 1..N+1, NEW k \in 1..N+1, t[j] = t[k] PROVE j = k
    OBVIOUS
  <2>1. CASE j = 1 \/ k = 1
    BY <1>1, <1>2, <1>3, <2>1
  <2>2. CASE j # 1 /\ k # 1
    <3>1. j - 1 = k - 1
      BY <1>2, <1>3, <2>2
    <3> QED BY <3>1, <1>1
  <2> QED BY <2>1, <2>2
<1>5. ASSUME NEW p, NEW k \in 1..N+1, t[k] = p PROVE (\E j \in 1..N : s[j] = p) \/ p = q
  BY <1>1, <1>3, <1>5
<1>6. ASSUME NEW k \in 1..N PROVE \E j \in 1..N+1 : t[j] = s[k]
  <2>1. k + 1 \in 1..N+1
    BY <1>1
  <2> QED BY <1>1, <2>1
<1>7. 1 \in 1..N+1
  BY <1>1
<1>8. Distinct(t)
  BY <1>1, <1>4 DEF Distinct
<1> QED BY <1>1, <1>5, <1>6, <1>7, <1>8 DEF t, N

(* page_alloc hands out a page that nothing counts.                        *)
LEMMA AllocList ==
    ASSUME NEW m \in Mem, NEW H, ListExact(m, H), m.free # << >>
    PROVE  /\ Head(m.free) \in Page /\ Head(m.free) \notin H /\ m.ref[Head(m.free)] = 0
           /\ ListExact(page_alloc(m), H \cup {Head(m.free)})
<1> DEFINE s == m.free
           h == Head(s)
           n == page_alloc(m)
<1>1. s \in Seq(Page) /\ s # << >> /\ Distinct(s)
  BY DEF ListExact, Mem
<1>2. n.free = Tail(s) /\ n.ref = m.ref /\ n.panic = m.panic /\ h \in Page
  BY AllocEffect
<1>3. \A p \in Page : (\E k \in 1..Len(s) : s[k] = p) <=> m.ref[p] = 0 /\ p \notin H
  BY DEF ListExact, OnFreeList
<1> HIDE DEF s, n
<1>4. /\ Distinct(Tail(s))
      /\ \A p : (\E k \in 1..Len(Tail(s)) : Tail(s)[k] = p)
                   <=> (\E k \in 1..Len(s) : s[k] = p) /\ p # Head(s)
      /\ \E k \in 1..Len(s) : s[k] = Head(s)
  BY <1>1, PopDistinct
<1>5. m.ref[h] = 0 /\ h \notin H
  BY <1>2, <1>3, <1>4
<1>6. \A p \in Page : OnFreeList(n, p) <=> n.ref[p] = 0 /\ p \notin H \cup {h}
  BY <1>2, <1>3, <1>4 DEF OnFreeList
<1>7. ListExact(n, H \cup {h})
  BY <1>2, <1>4, <1>6 DEF ListExact
<1> QED BY <1>2, <1>5, <1>7 DEF s, n

(* pp_ref++ of a page that is in use or was just taken.                    *)
LEMMA IncrefList ==
    ASSUME NEW m \in Mem, NEW H, ListExact(m, H), NEW p \in Page,
           p \in H \/ m.ref[p] # 0, m.ref[p] + 1 < RefMod
    PROVE  /\ ListExact(incref(m, p), H \ {p})
           /\ \A q \in Page : incref(m, p).ref[q] = m.ref[q] + (IF q = p THEN 1 ELSE 0)
<1> DEFINE n == incref(m, p)
<1>1. /\ n.free = m.free /\ n.panic = m.panic
      /\ n.ref = [m.ref EXCEPT ![p] = (@ + 1) % RefMod]
  BY IncrefEffect
<1>2. m.ref \in [Page -> 0..RefMod-1] /\ m.ref[p] \in Nat
  BY CountArithmetic DEF Mem
<1> HIDE DEF n
<1>3. (m.ref[p] + 1) % RefMod = m.ref[p] + 1
  BY <1>2, CountArithmetic
<1>4. \A q \in Page : n.ref[q] = m.ref[q] + (IF q = p THEN 1 ELSE 0)
  <2> SUFFICES ASSUME NEW q \in Page PROVE n.ref[q] = m.ref[q] + (IF q = p THEN 1 ELSE 0)
    OBVIOUS
  <2>1. m.ref[q] \in Nat
    BY <1>2, CountArithmetic
  <2>2. n.ref[q] = IF q = p THEN m.ref[p] + 1 ELSE m.ref[q]
    BY <1>1, <1>2, <1>3
  <2> QED BY <2>1, <2>2
<1>5. ASSUME NEW q \in Page PROVE OnFreeList(n, q) <=> n.ref[q] = 0 /\ q \notin H \ {p}
  <2>1. OnFreeList(n, q) <=> m.ref[q] = 0 /\ q \notin H
    BY <1>1 DEF ListExact, OnFreeList
  <2>2. n.ref[q] = IF q = p THEN m.ref[p] + 1 ELSE m.ref[q]
    BY <1>1, <1>2, <1>3
  <2>3. m.ref[p] + 1 # 0
    BY <1>2
  <2>4. CASE q = p
    BY <2>1, <2>2, <2>3, <2>4
  <2>5. CASE q # p
    BY <2>1, <2>2, <2>5
  <2> QED BY <2>4, <2>5
<1>6. ListExact(n, H \ {p})
  BY <1>1, <1>5 DEF ListExact
<1> QED BY <1>4, <1>6 DEF n

(* page_decref gives a page back exactly when its last pointer goes, and   *)
(* page_free does not panic.                                               *)
LEMMA DecrefList ==
    ASSUME NEW m \in Mem, ListExact(m, {}), NEW p \in Page, m.ref[p] # 0
    PROVE  /\ ListExact(page_decref(m, p), {})
           /\ \A q \in Page : m.ref[q] = page_decref(m, p).ref[q] + (IF q = p THEN 1 ELSE 0)
<1> DEFINE n == [m EXCEPT !.ref[p] = (@ + RefMod - 1) % RefMod]
           s == m.free
<1>1. m.ref \in [Page -> 0..RefMod-1] /\ m.ref[p] \in 1..RefMod-1 /\ s \in Seq(Page)
  BY CountArithmetic DEF Mem
<1>2. (m.ref[p] + RefMod - 1) % RefMod = m.ref[p] - 1 /\ m.ref[p] - 1 \in 0..RefMod-1
  BY <1>1, CountArithmetic
<1>3. n.free = m.free /\ n.panic = m.panic /\ n.ref = [m.ref EXCEPT ![p] = m.ref[p] - 1]
  BY <1>2 DEF Mem
<1>4. page_decref(m, p) = IF n.ref[p] = 0 THEN page_free(n, p) ELSE n
  BY DEF page_decref
<1>5. n \in Mem
  BY <1>2 DEF Mem
<1>6. /\ Distinct(s) /\ ~m.panic
      /\ \A q \in Page : (\E k \in 1..Len(s) : s[k] = q) <=> m.ref[q] = 0
  BY DEF ListExact, OnFreeList
<1> HIDE DEF n, s
<1>7. \A q \in Page : n.ref[q] = IF q = p THEN m.ref[p] - 1 ELSE m.ref[q]
  BY <1>1, <1>3
<1>8. \A q \in Page : m.ref[q] = n.ref[q] + (IF q = p THEN 1 ELSE 0)
  <2> SUFFICES ASSUME NEW q \in Page PROVE m.ref[q] = n.ref[q] + (IF q = p THEN 1 ELSE 0)
    OBVIOUS
  <2>1. m.ref[q] \in Int
    BY <1>1, CountArithmetic
  <2> QED BY <1>7, <2>1
<1>9. CASE n.ref[p] # 0
  <2>1. \A q \in Page : OnFreeList(n, q) <=> n.ref[q] = 0 /\ q \notin {}
    BY <1>3, <1>6, <1>7, <1>9 DEF OnFreeList, s
  <2>2. ListExact(n, {})
    BY <1>3, <1>6, <2>1 DEF ListExact, s
  <2> QED BY <1>4, <1>8, <1>9, <2>2
<1>10. CASE n.ref[p] = 0
  <2> DEFINE r == page_free(n, p)
  <2>1. \A k \in 1..Len(s) : s[k] # p
    BY <1>1, <1>6
  <2>2. ~\E k \in 1..Len(s)-1 : s[k] = p
    <3>1. Len(s) \in Nat
      BY <1>1
    <3>2. \A k \in 1..Len(s)-1 : k \in 1..Len(s)
      BY <3>1
    <3> QED BY <2>1, <3>2
  <2>3. r = [n EXCEPT !.free = <<p>> \o s]
    BY <1>3, <1>10, <2>2 DEF page_free, s
  <2>4. r.free = <<p>> \o s /\ r.ref = n.ref /\ r.panic = m.panic
    BY <1>3, <1>5, <2>3 DEF Mem
  <2> HIDE DEF r
  <2>5. /\ Distinct(<<p>> \o s)
        /\ \A q : (\E k \in 1..Len(<<p>> \o s) : (<<p>> \o s)[k] = q)
                     <=> (\E k \in 1..Len(s) : s[k] = q) \/ q = p
    BY <1>1, <1>6, <2>1, PushDistinct
  <2>6. \A q \in Page : OnFreeList(r, q) <=> r.ref[q] = 0 /\ q \notin {}
    <3> SUFFICES ASSUME NEW q \in Page PROVE OnFreeList(r, q) <=> r.ref[q] = 0
      OBVIOUS
    <3>1. OnFreeList(r, q) <=> m.ref[q] = 0 \/ q = p
      BY <1>6, <2>4, <2>5 DEF OnFreeList
    <3> QED BY <1>7, <1>10, <2>4, <3>1
  <2>7. ListExact(r, {})
    BY <1>6, <2>4, <2>5, <2>6 DEF ListExact
  <2> QED BY <1>4, <1>8, <1>10, <2>4, <2>7 DEF r
<1> QED BY <1>9, <1>10

(* A page that is freed at once leaves memory as it was.                   *)
LEMMA FreeBack ==
    ASSUME NEW m \in Mem, ListExact(m, {}), m.free # << >>
    PROVE  page_free(page_alloc(m), Head(m.free)) = m
<1> DEFINE n == page_alloc(m)
           s == m.free
           h == Head(s)
           t == Tail(s)
<1>1. n \in Mem /\ n.free = Tail(s) /\ n.ref = m.ref
  BY AllocEffect
<1>2. m.ref[h] = 0 /\ h \in Page
  BY AllocList
<1>3. s \in Seq(Page) /\ s # << >> /\ Distinct(s)
  BY DEF ListExact, Mem
<1> HIDE DEF s
<1>4. (\A p : (\E k \in 1..Len(t) : t[k] = p)
                 <=> (\E k \in 1..Len(s) : s[k] = p) /\ p # Head(s))
      /\ t \in Seq(Page) /\ Len(t) \in Nat
  BY <1>3, PopDistinct, ListPop
<1>5. <<h>> \o t = s
  BY <1>3
<1> HIDE DEF t
<1>6. \A k \in 1..Len(t)-1 : k \in 1..Len(t)
  BY <1>4
<1>7. ~\E k \in 1..Len(t)-1 : t[k] = h
  BY <1>4, <1>6
<1>8. n.free = t
  BY <1>1 DEF t
<1> HIDE DEF n, h
<1>9. page_free(n, h) = [n EXCEPT !.free = <<h>> \o t]
  BY <1>1, <1>2, <1>7, <1>8 DEF page_free
<1>10. page_free(n, h) = [n EXCEPT !.free = s]
  BY <1>5, <1>9
<1> QED BY <1>10 DEF n, h, s, page_alloc, Mem

-----------------------------------------------------------------------------
(* Counts and pointers together *)

Exact(m) == \A p \in Page : m.ref[p] = Refs(m, p)

(* The kernel's own pages, and that they have no second use.               *)
Special(m, p) == Dirs(m, p) # {} \/ Tables(m, p) # {} \/ p \in Reserved
Isolated(m) == \A p \in Page : Special(m, p) => Refs(m, p) = 1

(* Memory between two functions of pmap.c, with the pages of H taken.      *)
Counted(m, H) == m \in Mem /\ Nested(m) /\ Exact(m) /\ Isolated(m) /\ ListExact(m, H)

(* A page nobody points to is not the kernel's; a page a program has       *)
(* mapped is not either.                                                   *)
LEMMA SpecialRefs ==
    ASSUME NEW m, NEW p
    PROVE  /\ Special(m, p) => Refs(m, p) >= 1
           /\ Special(m, p) /\ Mappings(m, p) # {} => Refs(m, p) >= 2
           /\ Mappings(m, p) # {} => Refs(m, p) >= 1
<1> DEFINE a == Cardinality(Dirs(m, p))
           b == Cardinality(Tables(m, p))
           d == Cardinality(Mappings(m, p))
<1>1. /\ a \in Nat /\ b \in Nat /\ d \in Nat /\ Boot(p) \in {0, 1}
      /\ (a = 0 <=> Dirs(m, p) = {}) /\ (b = 0 <=> Tables(m, p) = {})
      /\ (d = 0 <=> Mappings(m, p) = {}) /\ (Boot(p) = 1 <=> p \in Reserved)
  BY PlacesFinite
<1>2. Refs(m, p) = a + b + d + Boot(p)
  BY DEF Refs
<1>3. Special(m, p) => a # 0 \/ b # 0 \/ Boot(p) = 1
  BY <1>1 DEF Special
<1>4. Mappings(m, p) # {} => d # 0
  BY <1>1
<1> HIDE DEF a, b, d
<1> QED BY <1>1, <1>2, <1>3, <1>4

(* A page that is mapped is no page table and has a count.                 *)
LEMMA MappedPage ==
    ASSUME NEW m \in Mem, Isolated(m), NEW e \in Env, NEW va \in Va, m.pte[e][va] # NULL
    PROVE  /\ m.pte[e][va].page \in Page
           /\ ~Special(m, m.pte[e][va].page)
           /\ Refs(m, m.pte[e][va].page) # 0
<1> DEFINE p == m.pte[e][va].page
<1>1. p \in Page
  BY NullFacts DEF Mem
<1>2. <<e, va>> \in Mappings(m, p)
  BY DEF Mappings
<1> HIDE DEF p
<1>3. Refs(m, p) \in Nat
  BY PlacesFinite
<1>4. Refs(m, p) # 0
  BY <1>2, <1>3, SpecialRefs
<1>5. ~Special(m, p)
  BY <1>1, <1>2, <1>3, SpecialRefs DEF Isolated
<1> QED BY <1>1, <1>4, <1>5 DEF p

(* A page nobody pointed to becomes a page table or a page directory.      *)
LEMMA NewPointer ==
    ASSUME NEW m, NEW n, NEW h \in Page, Exact(m), Isolated(m), m.ref[h] = 0,
           \A q \in Page : n.ref[q] = m.ref[q] + (IF q = h THEN 1 ELSE 0),
           \A q \in Page : Refs(n, q) = Refs(m, q) + (IF q = h THEN 1 ELSE 0),
           \A q \in Page \ {h} : Special(n, q) <=> Special(m, q)
    PROVE  Exact(n) /\ Isolated(n)
<1>1. \A q \in Page : Refs(m, q) \in Nat /\ m.ref[q] = Refs(m, q)
  BY PlacesFinite DEF Exact
<1>2. Exact(n)
  BY DEF Exact
<1>3. ASSUME NEW q \in Page, Special(n, q) PROVE Refs(n, q) = 1
  <2>1. CASE q = h
    BY <1>1, <2>1
  <2>2. CASE q # h
    <3>1. Special(m, q)
      BY <1>3, <2>2
    <3>2. Refs(m, q) = 1 /\ Refs(n, q) = Refs(m, q) + 0
      BY <2>2, <3>1 DEF Isolated
    <3> QED BY <3>2
  <2> QED BY <2>1, <2>2
<1> QED BY <1>2, <1>3 DEF Isolated

(* The last pointer to one of the kernel's pages is taken away.            *)
LEMMA DropPointer ==
    ASSUME NEW m, NEW n, NEW h \in Page, Exact(m), Isolated(m), Special(m, h),
           \A q \in Page : m.ref[q] = n.ref[q] + (IF q = h THEN 1 ELSE 0),
           \A q \in Page : Refs(m, q) = Refs(n, q) + (IF q = h THEN 1 ELSE 0),
           \A q \in Page : n.ref[q] \in Int,
           \A q \in Page \ {h} : Special(n, q) => Special(m, q)
    PROVE  Exact(n) /\ Isolated(n)
<1>1. \A q \in Page : Refs(m, q) \in Nat /\ Refs(n, q) \in Nat /\ m.ref[q] = Refs(m, q)
  BY PlacesFinite DEF Exact
<1>2. Exact(n)
  <2> SUFFICES ASSUME NEW q \in Page PROVE n.ref[q] = Refs(n, q)
    BY DEF Exact
  <2>1. n.ref[q] + (IF q = h THEN 1 ELSE 0) = Refs(n, q) + (IF q = h THEN 1 ELSE 0)
    BY <1>1
  <2> QED BY <1>1, <2>1
<1>3. ASSUME NEW q \in Page, Special(n, q) PROVE Refs(n, q) = 1
  <2>1. CASE q = h
    <3>1. Refs(m, h) = 1
      BY DEF Isolated
    <3>2. Refs(n, h) = 0
      BY <1>1, <3>1
    <3> QED BY <1>3, <2>1, <3>2, SpecialRefs
  <2>2. CASE q # h
    <3>1. Special(m, q)
      BY <1>3, <2>2
    <3>2. Refs(m, q) = 1 /\ Refs(m, q) = Refs(n, q) + 0
      BY <2>2, <3>1 DEF Isolated
    <3> QED BY <1>1, <3>2
  <2> QED BY <2>1, <2>2
<1> QED BY <1>2, <1>3 DEF Isolated

(* A page the kernel takes for itself: off the list, counted once.         *)
LEMMA TakeList ==
    ASSUME NEW m, NEW H, Counted(m, H), m.free # << >>
    PROVE  LET h == Head(m.free)
               a == incref(page_alloc(m), h) IN
           /\ h \in Page /\ h \notin H /\ m.ref[h] = 0
           /\ ListExact(a, H)
           /\ \A q \in Page : a.ref[q] = m.ref[q] + (IF q = h THEN 1 ELSE 0)
<1> DEFINE h == Head(m.free)
           b == page_alloc(m)
<1>0. m \in Mem /\ ListExact(m, H)
  BY DEF Counted
<1>1. h \in Page /\ h \notin H /\ m.ref[h] = 0 /\ ListExact(b, H \cup {h})
  BY <1>0, AllocList
<1>2. b \in Mem /\ b.ref = m.ref
  BY <1>0, AllocEffect
<1> HIDE DEF h, b
<1>3. b.ref[h] + 1 < RefMod /\ h \in H \cup {h}
  BY <1>1, <1>2, CountArithmetic
<1>4. /\ ListExact(incref(b, h), (H \cup {h}) \ {h})
      /\ \A q \in Page : incref(b, h).ref[q] = b.ref[q] + (IF q = h THEN 1 ELSE 0)
  BY <1>1, <1>2, <1>3, IncrefList
<1>5. (H \cup {h}) \ {h} = H
  BY <1>1
<1> QED BY <1>1, <1>2, <1>4, <1>5 DEF h, b

(* pgdir_walk: a new page table is counted, and no other page is touched.  *)
LEMMA WalkCount ==
    ASSUME NEW m, NEW H, Counted(m, H), NEW e \in Env, NEW va \in Va, CanWalk(m, e, va),
           m.pgdir[e] # NULL
    PROVE  LET n == pgdir_walk(m, e, va) IN
           /\ Counted(n, H)
           /\ \A q \in Page : q \in H \/ m.ref[q] # 0 =>
                 Refs(n, q) = Refs(m, q) /\ (Special(n, q) <=> Special(m, q))
<1>0. m \in Mem /\ Nested(m) /\ Exact(m) /\ Isolated(m) /\ ListExact(m, H)
  BY DEF Counted
<1>1. CASE m.pde[e][PDX(va)] # NULL
  BY <1>1 DEF pgdir_walk
<1>2. CASE m.pde[e][PDX(va)] = NULL
  <2> DEFINE h == Head(m.free)
             a == incref(page_alloc(m), h)
             n == pgdir_walk(m, e, va)
             t == PDX(va)
  <2>1. m.free # << >> /\ t \in Table
    BY <1>2, NullFacts DEF CanWalk
  <2>2. /\ h \in Page /\ a \in Mem
        /\ a.pgdir = m.pgdir /\ a.pde = m.pde /\ a.pte = m.pte /\ a.panic = m.panic
        /\ a.free = Tail(m.free)
        /\ a.ref = [m.ref EXCEPT ![h] = (@ + 1) % RefMod]
    BY <1>0, <2>1, AllocIncrefEffect
  <2>3. /\ h \in Page /\ h \notin H /\ m.ref[h] = 0
        /\ ListExact(a, H)
        /\ \A q \in Page : a.ref[q] = m.ref[q] + (IF q = h THEN 1 ELSE 0)
    BY <2>1, TakeList
  <2>4. n = [a EXCEPT !.pde[e][t] = h,
                      !.pte[e] = [v \in Va |-> IF PDX(v) = t THEN NULL ELSE @[v]]]
    BY <1>2 DEF pgdir_walk
  <2>5. /\ n \in Mem /\ n.pte = m.pte /\ n.pgdir = m.pgdir
        /\ n.pde[e][PDX(va)] # NULL
        /\ \A f \in Env, u \in Table : m.pde[f][u] # NULL => n.pde[f][u] = m.pde[f][u]
        /\ \A f \in Env, u \in Table : <<f, u>> # <<e, PDX(va)>> => n.pde[f][u] = m.pde[f][u]
    BY <1>0, WalkEffect
  <2>6. n.free = a.free /\ n.ref = a.ref /\ n.panic = a.panic
        /\ n.pde = [m.pde EXCEPT ![e][t] = h]
    <3> HIDE DEF a, h, n, t
    <3> QED BY <2>2, <2>4 DEF Mem
  <2>a. m.pde[e][t] = NULL
    BY <1>2
  <2> HIDE DEF a, h, n
  <2>7. ListExact(n, H)
    BY <2>3, <2>6, ListSame
  <2>b. PdeEdit(m, n, e, t, h)
    BY <2>5, <2>6 DEF PdeEdit
  <2>c. Nested(n)
    <3>1. \A f \in Env, u \in Table : n.pde[f][u] # NULL => n.pgdir[f] # NULL
      BY <1>0, <2>5 DEF Nested
    <3>2. \A f \in Env, v \in Va : n.pte[f][v] # NULL => n.pde[f][PDX(v)] # NULL
      BY <1>0, <2>5, NullFacts DEF Nested
    <3> QED BY <3>1, <3>2 DEF Nested
  <2> HIDE DEF t
  <2>8. \A p \in Page :
            /\ Dirs(n, p) = Dirs(m, p) /\ Mappings(n, p) = Mappings(m, p)
            /\ Tables(n, p) = Tables(m, p) \cup (IF p = h THEN {<<e, t>>} ELSE {})
            /\ Refs(n, p) = Refs(m, p) + (IF p = h THEN 1 ELSE 0)
    BY <1>0, <2>1, <2>a, <2>3, <2>b, PdeSet
  <2>9. \A q \in Page \ {h} : Special(n, q) <=> Special(m, q)
    BY <2>8 DEF Special
  <2>10. \A q \in Page : n.ref[q] = m.ref[q] + (IF q = h THEN 1 ELSE 0)
    BY <2>3, <2>6
  <2>11. Exact(n) /\ Isolated(n)
    BY <1>0, <2>3, <2>8, <2>9, <2>10, NewPointer
  <2>12. Counted(n, H)
    BY <2>5, <2>7, <2>c, <2>11 DEF Counted
  <2>13. ASSUME NEW q \in Page, q \in H \/ m.ref[q] # 0
         PROVE  Refs(n, q) = Refs(m, q) /\ (Special(n, q) <=> Special(m, q))
    <3>1. q # h /\ Refs(m, q) \in Nat
      BY <2>3, <2>13, PlacesFinite
    <3> QED BY <2>8, <2>9, <3>1
  <2> QED BY <2>12, <2>13 DEF n
<1> QED BY <1>1, <1>2

(* env_setup_vm: the new page directory is counted.                        *)
LEMMA SetupCount ==
    ASSUME NEW m, Counted(m, {}), NEW e \in Env, m.free # << >>, m.pgdir[e] = NULL
    PROVE  Counted(env_setup_vm(m, e), {})
<1>0. m \in Mem /\ Nested(m) /\ Exact(m) /\ Isolated(m) /\ ListExact(m, {})
  BY DEF Counted
<1> DEFINE h == Head(m.free)
           a == incref(page_alloc(m), h)
           n == env_setup_vm(m, e)
<1>1. /\ n \in Mem /\ Nested(n)
      /\ n.pte = m.pte /\ n.pde = m.pde /\ n.panic = m.panic
      /\ n.pgdir = [m.pgdir EXCEPT ![e] = Head(m.free)] /\ Head(m.free) \in Page
      /\ n.free = Tail(m.free)
      /\ n.ref = [m.ref EXCEPT ![Head(m.free)] = (@ + 1) % RefMod]
  BY <1>0, SetupEffect
<1>2. /\ h \in Page /\ a \in Mem
      /\ a.pgdir = m.pgdir /\ a.pde = m.pde /\ a.pte = m.pte /\ a.panic = m.panic
      /\ a.free = Tail(m.free)
      /\ a.ref = [m.ref EXCEPT ![h] = (@ + 1) % RefMod]
  BY <1>0, AllocIncrefEffect
<1>3. /\ h \in Page /\ h \notin {} /\ m.ref[h] = 0
      /\ ListExact(a, {})
      /\ \A q \in Page : a.ref[q] = m.ref[q] + (IF q = h THEN 1 ELSE 0)
  BY TakeList
<1>4. n.free = a.free /\ n.ref = a.ref /\ n.panic = a.panic /\ DirEdit(m, n, e, h)
  BY <1>1, <1>2 DEF DirEdit
<1> HIDE DEF h, a, n
<1>5. ListExact(n, {})
  BY <1>3, <1>4, ListSame
<1>6. \A p \in Page :
          /\ Tables(n, p) = Tables(m, p) /\ Mappings(n, p) = Mappings(m, p)
          /\ Dirs(n, p) = Dirs(m, p) \cup (IF p = h THEN {e} ELSE {})
          /\ Refs(n, p) = Refs(m, p) + (IF p = h THEN 1 ELSE 0)
  BY <1>0, <1>3, <1>4, DirSet
<1>7. \A q \in Page \ {h} : Special(n, q) <=> Special(m, q)
  BY <1>6 DEF Special
<1>8. \A q \in Page : n.ref[q] = m.ref[q] + (IF q = h THEN 1 ELSE 0)
  BY <1>3, <1>4
<1>9. Exact(n) /\ Isolated(n)
  <2>1. \A q \in Page : Refs(n, q) = Refs(m, q) + (IF q = h THEN 1 ELSE 0)
    BY <1>6
  <2>2. h \in Page /\ m.ref[h] = 0 /\ Exact(m) /\ Isolated(m)
    BY <1>0, <1>3
  <2> QED BY <1>7, <1>8, <2>1, <2>2, NewPointer
<1> QED BY <1>1, <1>5, <1>9 DEF Counted, n

(* page_remove: a count goes with its pointer, and the page goes back to   *)
(* the list with the last one.                                             *)
LEMMA RemoveCount ==
    ASSUME NEW m \in Mem, ListExact(m, {}), NEW e \in Env, NEW va \in Va, m.pte[e][va] # NULL,
           m.ref[m.pte[e][va].page] # 0
    PROVE  LET n == page_remove(m, e, va) IN
           /\ n \in Mem /\ ListExact(n, {}) /\ PteEdit(m, n, e, va, NULL)
           /\ m.pte[e][va].page \in Page
           /\ \A q \in Page : m.ref[q] = n.ref[q] + (IF q = m.pte[e][va].page THEN 1 ELSE 0)
           /\ \A q \in Page : Refs(m, q) = Refs(n, q) + (IF q = m.pte[e][va].page THEN 1 ELSE 0)
           /\ \A q \in Page : Special(n, q) <=> Special(m, q)
<1> DEFINE y == m.pte[e][va].page
           d == page_decref(m, y)
           n == page_remove(m, e, va)
<1>1. y \in Page /\ m.ref[y] # 0
  BY NullFacts DEF Mem
<1>2. n \in Mem /\ n.pte = [m.pte EXCEPT ![e][va] = NULL] /\ n.pgdir = m.pgdir /\ n.pde = m.pde
  BY RemoveEffect
<1>3. n = [d EXCEPT !.pte[e][va] = NULL]
  BY DEF page_remove, page_lookup
<1> HIDE DEF y, n
<1>4. d \in Mem
  BY <1>1, DecrefEffect
<1>5. /\ ListExact(d, {})
      /\ \A q \in Page : m.ref[q] = d.ref[q] + (IF q = y THEN 1 ELSE 0)
  BY <1>1, DecrefList
<1> HIDE DEF d
<1>6. n.free = d.free /\ n.ref = d.ref /\ n.panic = d.panic
  BY <1>3, <1>4 DEF Mem
<1>7. ListExact(n, {})
  BY <1>5, <1>6, ListSame
<1>8. PteEdit(m, n, e, va, NULL)
  BY <1>2 DEF PteEdit
<1>9. \A p \in Page :
          /\ Dirs(n, p) = Dirs(m, p) /\ Tables(n, p) = Tables(m, p)
          /\ Refs(m, p) = Refs(n, p) + (IF p = m.pte[e][va].page THEN 1 ELSE 0)
  BY <1>2, <1>8, PteClear
<1>10. \A q \in Page : Special(n, q) <=> Special(m, q)
  BY <1>9 DEF Special
<1>11. \A q \in Page : m.ref[q] = n.ref[q] + (IF q = y THEN 1 ELSE 0)
  BY <1>5, <1>6
<1> QED BY <1>1, <1>2, <1>7, <1>8, <1>9, <1>10, <1>11 DEF n, y

(* page_remove keeps the accounts: the count goes down with the entry, and *)
(* the page is freed with the last.                                        *)
LEMMA RemoveKeeps ==
    ASSUME NEW m, Counted(m, {}), NEW e \in Env, NEW va \in Va
    PROVE  Counted(page_remove(m, e, va), {})
<1>0. m \in Mem /\ Nested(m) /\ Exact(m) /\ Isolated(m) /\ ListExact(m, {})
  BY DEF Counted
<1>1. CASE m.pte[e][va] = NULL
  BY <1>1 DEF page_remove, page_lookup
<1>2. CASE m.pte[e][va] # NULL
  <2> DEFINE y == m.pte[e][va].page
             n == page_remove(m, e, va)
  <2>1. y \in Page /\ ~Special(m, y) /\ Refs(m, y) # 0
    BY <1>0, <1>2, MappedPage
  <2>2. m.ref[y] # 0
    BY <1>0, <2>1 DEF Exact
  <2>3. /\ n \in Mem /\ ListExact(n, {}) /\ PteEdit(m, n, e, va, NULL)
        /\ m.pte[e][va].page \in Page
        /\ \A q \in Page : m.ref[q] = n.ref[q] + (IF q = m.pte[e][va].page THEN 1 ELSE 0)
        /\ \A q \in Page : Refs(m, q) = Refs(n, q) + (IF q = m.pte[e][va].page THEN 1 ELSE 0)
        /\ \A q \in Page : Special(n, q) <=> Special(m, q)
    BY <1>0, <1>2, <2>2, RemoveCount
  <2> HIDE DEF n
  <2>4. Nested(n)
    <3>1. \A f \in Env, v \in Va : n.pte[f][v] # NULL => n.pte[f][v] = m.pte[f][v]
      BY <1>0, <2>3 DEF PteEdit, Mem
    <3> QED BY <1>0, <2>3, <3>1 DEF Nested, PteEdit
  <2>5. ASSUME NEW q \in Page PROVE n.ref[q] = Refs(n, q) /\ (Special(n, q) => Refs(n, q) = 1)
    <3>1. n.ref[q] \in Int /\ Refs(n, q) \in Nat
      BY <2>3, PlacesFinite DEF Mem
    <3>2. m.ref[q] = Refs(m, q)
      BY <1>0 DEF Exact
    <3>3. n.ref[q] = Refs(n, q)
      BY <2>3, <3>1, <3>2
    <3>4. Special(n, q) => Refs(m, q) = 1 /\ q # y
      BY <1>0, <2>1, <2>3 DEF Isolated
    <3>5. Special(n, q) => 1 = Refs(n, q) + 0
      BY <2>3, <3>4
    <3> QED BY <3>1, <3>3, <3>5
  <2> QED BY <2>3, <2>4, <2>5 DEF Counted, Exact, Isolated, n
<1> QED BY <1>1, <1>2

(* page_insert of a page that was just allocated, or that is mapped        *)
(* somewhere already: even if it replaces the last mapping of that very    *)
(* page, the page is not freed on the way.                                 *)
LEMMA InsertKeeps ==
    ASSUME NEW m, NEW H, Counted(m, H), NEW e \in Env, NEW va \in Va, CanWalk(m, e, va),
           m.pgdir[e] # NULL, NEW p \in Page, NEW w \in BOOLEAN,
           H = {p} \/ (H = {} /\ m.ref[p] # 0), ~Special(m, p), Refs(m, p) + 1 < RefMod
    PROVE  Counted(page_insert(m, e, p, va, w), {})
<1> DEFINE k == pgdir_walk(m, e, va)
           m1 == incref(k, p)
           m2 == IF m1.pte[e][va] # NULL THEN page_remove(m1, e, va) ELSE m1
           n == page_insert(m, e, p, va, w)
           x == [page |-> p, w |-> w]
<1>0. m \in Mem /\ Nested(m)
  BY DEF Counted
<1>1. /\ n \in Mem /\ Nested(n)
      /\ n.pte = [m.pte EXCEPT ![e][va] = [page |-> p, w |-> w]]
      /\ n.pgdir = m.pgdir
  BY <1>0, InsertEffect
<1>2. /\ Counted(k, H)
      /\ \A q \in Page : q \in H \/ m.ref[q] # 0 =>
            Refs(k, q) = Refs(m, q) /\ (Special(k, q) <=> Special(m, q))
  BY WalkCount
<1>3. n = [m2 EXCEPT !.pte[e][va] = x]
  BY DEF page_insert
<1>4. x \in Pte /\ x.page = p
  BY NullFacts
<1> HIDE DEF k, x, n
<1>5. k \in Mem /\ Exact(k) /\ Isolated(k) /\ ListExact(k, H)
  BY <1>2 DEF Counted
<1>6. Refs(k, p) = Refs(m, p) /\ ~Special(k, p)
  BY <1>2
<1>7. k.ref[p] + 1 < RefMod /\ (p \in H \/ k.ref[p] # 0) /\ H \ {p} = {}
  <2>1. k.ref[p] = Refs(m, p)
    BY <1>5, <1>6 DEF Exact
  <2>2. m.ref[p] = Refs(m, p)
    BY DEF Counted, Exact
  <2> QED BY <2>1, <2>2
<1>8. /\ ListExact(m1, {})
      /\ \A q \in Page : m1.ref[q] = k.ref[q] + (IF q = p THEN 1 ELSE 0)
  BY <1>5, <1>7, IncrefList
<1>9. m1 \in Mem /\ m1.pte = k.pte /\ m1.pgdir = k.pgdir /\ m1.pde = k.pde
  BY <1>5, IncrefEffect
<1> HIDE DEF m1
<1>10. \A q \in Page : /\ m1.ref[q] = Refs(m1, q) + (IF q = p THEN 1 ELSE 0)
                       /\ Refs(m1, q) = Refs(k, q) /\ (Special(m1, q) <=> Special(k, q))
  <2>1. \A q : /\ Dirs(m1, q) = Dirs(k, q) /\ Tables(m1, q) = Tables(k, q)
               /\ Mappings(m1, q) = Mappings(k, q) /\ Refs(m1, q) = Refs(k, q)
    BY <1>9, SameRefs
  <2> QED BY <1>5, <1>8, <2>1 DEF Exact, Special
<1>11. Isolated(m1) /\ ~Special(m1, p)
  BY <1>5, <1>6, <1>10 DEF Isolated
<1>12. /\ m2 \in Mem /\ ListExact(m2, {}) /\ m2.pte[e][va] = NULL
       /\ \A q \in Page : m2.ref[q] = Refs(m2, q) + (IF q = p THEN 1 ELSE 0)
       /\ \A q \in Page : Special(m2, q) <=> Special(m1, q)
       /\ \A q \in Page : Special(m1, q) => Refs(m2, q) = 1
  <2>1. CASE m1.pte[e][va] = NULL
    BY <1>8, <1>9, <1>10, <1>11, <2>1 DEF Isolated
  <2>2. CASE m1.pte[e][va] # NULL
    <3> DEFINE y == m1.pte[e][va].page
               r == page_remove(m1, e, va)
    <3>1. y \in Page /\ ~Special(m1, y) /\ Refs(m1, y) # 0
      BY <1>9, <1>11, <2>2, MappedPage
    <3>2. m1.ref[y] # 0
      <4> HIDE DEF y
      <4>1. Refs(m1, y) \in Nat
        BY PlacesFinite
      <4> QED BY <1>10, <3>1, <4>1
    <3>3. /\ r \in Mem /\ ListExact(r, {}) /\ PteEdit(m1, r, e, va, NULL)
          /\ m1.pte[e][va].page \in Page
          /\ \A q \in Page : m1.ref[q] = r.ref[q] + (IF q = m1.pte[e][va].page THEN 1 ELSE 0)
          /\ \A q \in Page : Refs(m1, q) = Refs(r, q) + (IF q = m1.pte[e][va].page THEN 1 ELSE 0)
          /\ \A q \in Page : Special(r, q) <=> Special(m1, q)
      BY <1>8, <1>9, <2>2, <3>2, RemoveCount
    <3>4. m2 = r
      BY <2>2
    <3> HIDE DEF r, y, m2
    <3>5. r.pte[e][va] = NULL
      BY <1>9, <3>3 DEF PteEdit, Mem
    <3>6. ASSUME NEW q \in Page
          PROVE  /\ r.ref[q] = Refs(r, q) + (IF q = p THEN 1 ELSE 0)
                 /\ Special(m1, q) => Refs(r, q) = 1
      <4>1. r.ref[q] \in Int /\ Refs(r, q) \in Nat
        BY <3>3, PlacesFinite, SMTT(20) DEF Mem
      <4>2. /\ m1.ref[q] = r.ref[q] + (IF q = y THEN 1 ELSE 0)
            /\ Refs(m1, q) = Refs(r, q) + (IF q = y THEN 1 ELSE 0)
            /\ m1.ref[q] = Refs(m1, q) + (IF q = p THEN 1 ELSE 0)
        BY <1>10, <3>3 DEF y
      <4>3. r.ref[q] = Refs(r, q) + (IF q = p THEN 1 ELSE 0)
        BY <4>1, <4>2
      <4>4. Special(m1, q) => Refs(m1, q) = 1 /\ q # y
        BY <1>11, <3>1 DEF Isolated
      <4> QED BY <4>1, <4>2, <4>3, <4>4
    <3> QED BY <3>3, <3>4, <3>5, <3>6
  <2> QED BY <2>1, <2>2
<1> HIDE DEF m2
<1>13. PteEdit(m2, n, e, va, x) /\ n.free = m2.free /\ n.ref = m2.ref /\ n.panic = m2.panic
  BY <1>3, <1>12 DEF Mem, PteEdit
<1>14. ListExact(n, {})
  BY <1>12, <1>13, ListSame
<1>15. \A q \in Page :
          /\ Dirs(n, q) = Dirs(m2, q) /\ Tables(n, q) = Tables(m2, q)
          /\ Mappings(n, q) = Mappings(m2, q) \cup (IF q = x.page THEN {<<e, va>>} ELSE {})
          /\ Refs(n, q) = Refs(m2, q) + (IF q = x.page THEN 1 ELSE 0)
  <2>1. x \in Pte /\ m2 \in Mem /\ m2.pte[e][va] = NULL
    BY <1>4, <1>12
  <2>2. PteEdit(m2, n, e, va, x)
    BY <1>13
  <2> QED BY <2>1, <2>2, PteSet
<1>16. Exact(n)
  BY <1>4, <1>12, <1>13, <1>15 DEF Exact
<1>17. Isolated(n)
  <2> SUFFICES ASSUME NEW q \in Page, Special(n, q) PROVE Refs(n, q) = 1
    BY DEF Isolated
  <2>1. Special(m2, q)
    BY <1>15 DEF Special
  <2>2. Special(m1, q) /\ q # p /\ Refs(m2, q) = 1
    BY <1>11, <1>12, <2>1
  <2> QED BY <1>4, <1>15, <2>2
<1> QED BY <1>1, <1>14, <1>16, <1>17 DEF Counted, n

(* env_free gives back a page table, and at the end the page directory.    *)
LEMMA TableFreeKeeps ==
    ASSUME NEW m, Counted(m, {}), NEW e \in Env, NEW t \in Table, m.pde[e][t] # NULL,
           \A va \in Va : PDX(va) = t => m.pte[e][va] = NULL
    PROVE  Counted(page_decref([m EXCEPT !.pde[e][t] = NULL], m.pde[e][t]), {})
<1>0. m \in Mem /\ Nested(m) /\ Exact(m) /\ Isolated(m) /\ ListExact(m, {})
  BY DEF Counted
<1> DEFINE h == m.pde[e][t]
           k == [m EXCEPT !.pde[e][t] = NULL]
           n == page_decref(k, h)
<1>1. h \in Page /\ h # NULL
  BY <1>0 DEF Mem
<1>2. /\ k \in Mem /\ k.pde = [m.pde EXCEPT ![e][t] = NULL] /\ k.pgdir = m.pgdir
      /\ k.pte = m.pte /\ k.ref = m.ref /\ k.free = m.free /\ k.panic = m.panic
  BY <1>0 DEF Mem
<1> HIDE DEF k
<1>3. PdeEdit(m, k, e, t, NULL) /\ ListExact(k, {})
  <2>1. ListExact(k, {})
    BY <1>0, <1>2, ListSame
  <2> QED BY <1>2, <2>1 DEF PdeEdit
<1>4. \A q \in Page :
          /\ Dirs(k, q) = Dirs(m, q)
          /\ Tables(m, q) = Tables(k, q) \cup (IF q = m.pde[e][t] THEN {<<e, t>>} ELSE {})
          /\ Refs(m, q) = Refs(k, q) + (IF q = m.pde[e][t] THEN 1 ELSE 0)
  BY <1>0, <1>2, <1>3, PdeClear
<1> HIDE DEF h
<1>5. \A q \in Page :
          /\ Dirs(k, q) = Dirs(m, q)
          /\ Tables(m, q) = Tables(k, q) \cup (IF q = h THEN {<<e, t>>} ELSE {})
          /\ Refs(m, q) = Refs(k, q) + (IF q = h THEN 1 ELSE 0)
  BY <1>4 DEF h
<1>6. Special(m, h) /\ m.ref[h] # 0
  <2>1. Special(m, h)
    BY <1>1, <1>5 DEF Special
  <2>2. m.ref[h] = 1
    BY <1>0, <1>1, <2>1 DEF Exact, Isolated
  <2> QED BY <2>1, <2>2
<1>7. /\ ListExact(n, {})
      /\ \A q \in Page : k.ref[q] = n.ref[q] + (IF q = h THEN 1 ELSE 0)
  BY <1>1, <1>2, <1>3, <1>6, DecrefList
<1>8. n \in Mem /\ n.pgdir = k.pgdir /\ n.pde = k.pde /\ n.pte = k.pte
  BY <1>1, <1>2, DecrefEffect
<1> HIDE DEF n
<1>9. \A q : /\ Dirs(n, q) = Dirs(k, q) /\ Tables(n, q) = Tables(k, q)
             /\ Mappings(n, q) = Mappings(k, q) /\ Refs(n, q) = Refs(k, q)
  BY <1>8, SameRefs
<1>10. Exact(n) /\ Isolated(n)
  <2>1. \A q \in Page : m.ref[q] = n.ref[q] + (IF q = h THEN 1 ELSE 0)
    BY <1>2, <1>7
  <2>2. \A q \in Page : Refs(m, q) = Refs(n, q) + (IF q = h THEN 1 ELSE 0)
    BY <1>5, <1>9
  <2>3. \A q \in Page : n.ref[q] \in Int
    BY <1>8 DEF Mem
  <2>4. \A q \in Page \ {h} : Special(n, q) => Special(m, q)
    BY <1>5, <1>9 DEF Special
  <2>5. h \in Page /\ Exact(m) /\ Isolated(m) /\ Special(m, h)
    BY <1>0, <1>1, <1>6
  <2> QED BY <2>1, <2>2, <2>3, <2>4, <2>5, DropPointer
<1>11. Nested(n)
  <2>1. n.pgdir = m.pgdir /\ n.pte = m.pte /\ n.pde = [m.pde EXCEPT ![e][t] = NULL]
    BY <1>2, <1>8
  <2> QED BY <1>0, <2>1 DEF Nested, Mem
<1> QED BY <1>7, <1>8, <1>10, <1>11 DEF Counted, n, k, h

(* env_free's last page_decref, of an empty page directory, keeps the      *)
(* accounts.                                                               *)
LEMMA DirFreeKeeps ==
    ASSUME NEW m, Counted(m, {}), NEW e \in Env, m.pgdir[e] # NULL,
           \A t \in Table : m.pde[e][t] = NULL
    PROVE  Counted(page_decref([m EXCEPT !.pgdir[e] = NULL], m.pgdir[e]), {})
<1>0. m \in Mem /\ Nested(m) /\ Exact(m) /\ Isolated(m) /\ ListExact(m, {})
  BY DEF Counted
<1> DEFINE h == m.pgdir[e]
           k == [m EXCEPT !.pgdir[e] = NULL]
           n == page_decref(k, h)
<1>1. h \in Page /\ h # NULL
  BY <1>0 DEF Mem
<1>2. /\ k \in Mem /\ k.pgdir = [m.pgdir EXCEPT ![e] = NULL] /\ k.pde = m.pde
      /\ k.pte = m.pte /\ k.ref = m.ref /\ k.free = m.free /\ k.panic = m.panic
  BY <1>0 DEF Mem
<1> HIDE DEF k
<1>3. DirEdit(m, k, e, NULL) /\ ListExact(k, {})
  <2>1. ListExact(k, {})
    BY <1>0, <1>2, ListSame
  <2> QED BY <1>2, <2>1 DEF DirEdit
<1>4. \A q \in Page :
          /\ Tables(k, q) = Tables(m, q)
          /\ Dirs(m, q) = Dirs(k, q) \cup (IF q = m.pgdir[e] THEN {e} ELSE {})
          /\ Refs(m, q) = Refs(k, q) + (IF q = m.pgdir[e] THEN 1 ELSE 0)
  BY <1>0, <1>2, <1>3, DirClear
<1> HIDE DEF h
<1>5. \A q \in Page :
          /\ Tables(k, q) = Tables(m, q)
          /\ Dirs(m, q) = Dirs(k, q) \cup (IF q = h THEN {e} ELSE {})
          /\ Refs(m, q) = Refs(k, q) + (IF q = h THEN 1 ELSE 0)
  BY <1>4 DEF h
<1>6. Special(m, h) /\ m.ref[h] # 0
  <2>1. Special(m, h)
    BY <1>1, <1>5 DEF Special
  <2>2. m.ref[h] = 1
    BY <1>0, <1>1, <2>1 DEF Exact, Isolated
  <2> QED BY <2>1, <2>2
<1>7. /\ ListExact(n, {})
      /\ \A q \in Page : k.ref[q] = n.ref[q] + (IF q = h THEN 1 ELSE 0)
  BY <1>1, <1>2, <1>3, <1>6, DecrefList
<1>8. n \in Mem /\ n.pgdir = k.pgdir /\ n.pde = k.pde /\ n.pte = k.pte
  BY <1>1, <1>2, DecrefEffect
<1> HIDE DEF n
<1>9. \A q : /\ Dirs(n, q) = Dirs(k, q) /\ Tables(n, q) = Tables(k, q)
             /\ Mappings(n, q) = Mappings(k, q) /\ Refs(n, q) = Refs(k, q)
  BY <1>8, SameRefs
<1>10. Exact(n) /\ Isolated(n)
  <2>1. \A q \in Page : m.ref[q] = n.ref[q] + (IF q = h THEN 1 ELSE 0)
    BY <1>2, <1>7
  <2>2. \A q \in Page : Refs(m, q) = Refs(n, q) + (IF q = h THEN 1 ELSE 0)
    BY <1>5, <1>9
  <2>3. \A q \in Page : n.ref[q] \in Int
    BY <1>8 DEF Mem
  <2>4. \A q \in Page \ {h} : Special(n, q) => Special(m, q)
    BY <1>5, <1>9 DEF Special
  <2>5. h \in Page /\ Exact(m) /\ Isolated(m) /\ Special(m, h)
    BY <1>0, <1>1, <1>6
  <2> QED BY <2>1, <2>2, <2>3, <2>4, <2>5, DropPointer
<1>11. Nested(n)
  <2>1. n.pgdir = [m.pgdir EXCEPT ![e] = NULL] /\ n.pte = m.pte /\ n.pde = m.pde
    BY <1>2, <1>8
  <2> QED BY <1>0, <2>1 DEF Nested, Mem
<1> QED BY <1>7, <1>8, <1>10, <1>11 DEF Counted, n, k, h

(* page_init: the list holds every page that is not reserved.              *)
LEMMA PageInitCounted ==
    ASSUME NEW list \in FreeLists
    PROVE  Counted(page_init(list), {})
<1> DEFINE N == Cardinality(Page \ Reserved)
           R == Page \ Reserved
           m == page_init(list)
<1>1. IsFiniteSet(R) /\ N \in Nat
  BY PmapAssumption, FS_Difference, FS_CardinalityType
<1>2. list \in [1..N -> R] /\ \A j, k \in 1..N : list[j] = list[k] => j = k
  BY DEF FreeLists
<1>3. m \in Mem /\ Nested(m)
  BY PageInitEffect
<1>4. IsFiniteSet(1..N) /\ Cardinality(1..N) = N
  BY <1>1, FS_Interval
<1>5. list \in Injection(1..N, R)
  BY <1>2 DEF Injection, IsInjective
<1>6. N = Cardinality(R)
  OBVIOUS
<1> HIDE DEF N, R
<1>7. list \in Surjection(1..N, R)
  BY <1>1, <1>4, <1>5, <1>6, FS_Injection
<1>8. \A p \in R : \E k \in 1..N : list[k] = p
  BY <1>7 DEF Surjection
<1>9. Len(list) = N
  BY <1>1, <1>2
<1>10. \A p \in Page : /\ m.ref[p] = Boot(p) /\ Dirs(m, p) = {} /\ Tables(m, p) = {}
                       /\ Mappings(m, p) = {}
  BY NullFacts DEF page_init, NoPtes, Boot, Dirs, Tables, Mappings
<1>11. \A p \in Page : Refs(m, p) = Boot(p)
  <2> SUFFICES ASSUME NEW p \in Page PROVE Refs(m, p) = Boot(p)
    OBVIOUS
  <2>1. Refs(m, p) = 0 + 0 + 0 + Boot(p)
    BY <1>10, FS_EmptySet DEF Refs
  <2>2. Boot(p) \in {0, 1}
    BY DEF Boot
  <2> QED BY <2>1, <2>2
<1>12. Exact(m) /\ Isolated(m)
  BY <1>10, <1>11 DEF Exact, Isolated, Special, Boot
<1>13. m.free = list /\ ~m.panic
  BY DEF page_init
<1> HIDE DEF m
<1>14. Distinct(m.free)
  BY <1>2, <1>9, <1>13 DEF Distinct
<1>15. ASSUME NEW p \in Page PROVE OnFreeList(m, p) <=> m.ref[p] = 0 /\ p \notin {}
  <2>1. OnFreeList(m, p) <=> \E k \in 1..N : list[k] = p
    BY <1>9, <1>13 DEF OnFreeList
  <2>2. m.ref[p] = 0 <=> p \in R
    BY <1>10 DEF Boot, R
  <2> QED BY <1>2, <1>8, <2>1, <2>2
<1>16. ListExact(m, {})
  BY <1>13, <1>14, <1>15 DEF ListExact
<1> QED BY <1>3, <1>12, <1>16 DEF Counted, m

(* page_alloc followed by page_insert, as in region_alloc and              *)
(* sys_page_alloc.                                                         *)
LEMMA AllocCounted ==
    ASSUME NEW m, Counted(m, {}), m.free # << >>
    PROVE  LET h == Head(m.free)
               a == page_alloc(m) IN
           /\ h \in Page /\ Counted(a, {h}) /\ a.pgdir = m.pgdir /\ a.pte = m.pte
           /\ Refs(m, h) = 0 /\ Refs(a, h) = 0 /\ ~Special(a, h) /\ Mappings(m, h) = {}
<1> DEFINE h == Head(m.free)
           a == page_alloc(m)
<1>0. m \in Mem /\ Nested(m) /\ Exact(m) /\ Isolated(m) /\ ListExact(m, {})
  BY DEF Counted
<1>1. h \in Page /\ m.ref[h] = 0 /\ ListExact(a, {} \cup {h})
  BY <1>0, AllocList
<1>2. a \in Mem /\ a.ref = m.ref /\ a.pgdir = m.pgdir /\ a.pde = m.pde /\ a.pte = m.pte
  BY <1>0, AllocEffect
<1> HIDE DEF h, a
<1>3. \A q : /\ Dirs(a, q) = Dirs(m, q) /\ Tables(a, q) = Tables(m, q)
             /\ Mappings(a, q) = Mappings(m, q) /\ Refs(a, q) = Refs(m, q)
  BY <1>2, SameRefs
<1>4. Exact(a) /\ Isolated(a)
  BY <1>0, <1>2, <1>3 DEF Exact, Isolated, Special
<1>5. Nested(a)
  BY <1>0, <1>2 DEF Nested
<1>6. {} \cup {h} = {h}
  OBVIOUS
<1>7. Refs(m, h) = 0 /\ Refs(a, h) = 0
  BY <1>0, <1>1, <1>3 DEF Exact
<1>8. ~Special(a, h) /\ Mappings(m, h) = {}
  BY <1>7, SpecialRefs
<1>9. Counted(a, {h})
  BY <1>1, <1>2, <1>4, <1>5, <1>6 DEF Counted
<1> QED BY <1>1, <1>2, <1>7, <1>8, <1>9 DEF h, a

(* page_alloc followed by page_insert keeps the accounts.                  *)
LEMMA AllocInsertKeeps ==
    ASSUME NEW m, Counted(m, {}), m.free # << >>, NEW e \in Env, NEW va \in Va,
           m.pgdir[e] # NULL, NEW w \in BOOLEAN, CanWalk(page_alloc(m), e, va)
    PROVE  Counted(page_insert(page_alloc(m), e, Head(m.free), va, w), {})
<1> DEFINE h == Head(m.free)
           a == page_alloc(m)
<1>1. /\ h \in Page /\ Counted(a, {h}) /\ a.pgdir = m.pgdir
      /\ Refs(a, h) = 0 /\ ~Special(a, h)
  BY AllocCounted
<1>2. CanWalk(a, e, va) /\ a.pgdir[e] # NULL
  BY <1>1
<1> HIDE DEF h, a
<1>3. Refs(a, h) + 1 < RefMod
  BY <1>1, CountArithmetic
<1>4. Counted(page_insert(a, e, h, va, w), {})
  BY <1>1, <1>2, <1>3, InsertKeeps
<1> QED BY <1>4 DEF h, a

-----------------------------------------------------------------------------
(* Reference counts and the free list, through every sequence of calls *)

(* The inductive invariant: every pointer is counted, the free list is     *)
(* exactly the pages without one, and the kernel's pages are its own.      *)
CountInv == Shape /\ Counted(mem, {})

(* The accounts are right when the first environment is loaded.            *)
LEMMA InitCounted == Init => CountInv
<1> SUFFICES ASSUME Init PROVE Counted(mem, {})
  BY InitShape DEF CountInv
<1>1. PICK list \in FreeLists :
         mem = region_alloc(env_setup_vm(page_init(list), FirstEnv), FirstEnv, 0)
  BY DEF Init
<1> DEFINE m0 == page_init(list)
           m1 == env_setup_vm(m0, FirstEnv)
           m2 == page_alloc(m1)
<1>2. /\ FirstEnv \in Env /\ 0 \in Va /\ m0.free # << >> /\ m0.pgdir[FirstEnv] = NULL
      /\ m1.free # << >> /\ m1.pgdir[FirstEnv] # NULL /\ CanWalk(m2, FirstEnv, 0)
  BY FirstEnvEffect
<1>3. Counted(m0, {})
  BY PageInitCounted
<1>4. mem = page_insert(m2, FirstEnv, Head(m1.free), 0, TRUE)
  BY <1>1 DEF region_alloc
<1> HIDE DEF m0
<1>5. Counted(m1, {})
  BY <1>2, <1>3, SetupCount
<1> HIDE DEF m1
<1> QED BY <1>2, <1>4, <1>5, AllocInsertKeeps

(* What sys_page_map and sys_ipc_try_send do at the end.                   *)
LEMMA MapFromCounted ==
    ASSUME CountInv, CountsFit, NEW c \in Cpu, NEW f \in Env, NEW v \in Va, mem.pte[f][v] # NULL,
           NEW dst \in Env, NEW dstva \in Va, NEW w \in BOOLEAN, Exists(dst),
           MapFrom(c, mem.pte[f][v], dst, dstva, w)
    PROVE  Counted(mem', {})
<1>1. CASE UNCHANGED mem
  BY <1>1 DEF CountInv
<1>2. CASE /\ CanWalk(mem, dst, dstva)
           /\ mem' = page_insert(mem, dst, mem.pte[f][v].page, dstva, w)
  <2> DEFINE m == mem
             p == m.pte[f][v].page
             n == page_insert(m, dst, p, dstva, w)
  <2>1. m \in Mem /\ Exact(m) /\ Isolated(m) /\ Counted(m, {})
    BY DEF CountInv, Counted
  <2>2. /\ CanWalk(m, dst, dstva) /\ m.pgdir[dst] # NULL /\ m.pte[f][v] # NULL
        /\ \A q \in Page : Refs(m, q) + 1 < RefMod
    BY <1>2 DEF Exists, CountsFit
  <2>3. mem' = n
    BY <1>2
  <2> HIDE DEF m
  <2>4. p \in Page /\ ~Special(m, p) /\ Refs(m, p) # 0
    BY <2>1, <2>2, MappedPage
  <2> HIDE DEF p
  <2>5. m.ref[p] # 0 /\ Refs(m, p) + 1 < RefMod
    BY <2>1, <2>2, <2>4 DEF Exact
  <2>6. Counted(n, {})
    BY <2>1, <2>2, <2>4, <2>5, InsertKeeps
  <2> QED BY <2>3, <2>6
<1> QED BY <1>1, <1>2 DEF MapFrom

(* Every step keeps the accounts.                                          *)
LEMMA CountedStep ==
    ASSUME CountInv, CountsFit, NEW c \in Cpu, Step(c) PROVE Counted(mem', {})
<1>0. Counted(mem, {}) /\ mem \in Mem /\ ListExact(mem, {}) /\ TypeOK
  BY DEF CountInv, Counted, Shape
<1>1. CASE UNCHANGED mem
  BY <1>0, <1>1
<1>2. CASE env_run(c) \/ sched_halt(c) \/ Access(c) \/ env_free(c)
  BY <1>1, <1>2 DEF env_run, sched_halt, Access, env_free
<1>4. CASE sys_exofork(c)
  <2>0. PICK e \in Env :
          ~Exists(e) /\ IF mem.free = << >> THEN mem' = mem ELSE mem' = env_setup_vm(mem, e)
    BY <1>4 DEF sys_exofork
  <2> DEFINE m == mem
  <2>1. m.pgdir[e] = NULL /\ Counted(m, {})
    BY <1>0, <2>0 DEF Exists
  <2> HIDE DEF m
  <2>2. m.free # << >> => Counted(env_setup_vm(m, e), {})
    BY <2>1, SetupCount
  <2> QED BY <1>1, <2>0, <2>2 DEF m
<1>6. CASE env_free_page(c)
  <2>0. freeing # NULL /\ freeing.env \in Env
    BY <1>0, <1>6 DEF env_free_page, TypeOK
  <2>1. PICK va \in Va : mem' = page_remove(mem, freeing.env, va)
    BY <1>6 DEF env_free_page
  <2> QED BY <1>0, <2>0, <2>1, RemoveKeeps
<1>7. CASE env_free_table(c)
  <2>0. freeing # NULL /\ freeing.env \in Env
    BY <1>0, <1>7 DEF env_free_table, TypeOK
  <2> DEFINE e == freeing.env
             m == mem
  <2>1. PICK t \in Table :
          /\ AtTable(e, t) /\ MappedIn(e, t) = {}
          /\ mem' = page_decref([mem EXCEPT !.pde[e][t] = NULL], mem.pde[e][t])
    BY <1>7 DEF env_free_table
  <2>2. /\ e \in Env /\ Counted(m, {}) /\ m.pde[e][t] # NULL
        /\ \A va \in Va : PDX(va) = t => m.pte[e][va] = NULL
    BY <1>0, <2>0, <2>1 DEF AtTable, MappedIn
  <2>3. mem' = page_decref([m EXCEPT !.pde[e][t] = NULL], m.pde[e][t])
    BY <2>1
  <2> HIDE DEF e, m
  <2>4. Counted(page_decref([m EXCEPT !.pde[e][t] = NULL], m.pde[e][t]), {})
    BY <2>2, TableFreeKeeps
  <2> QED BY <2>3, <2>4
<1>8. CASE env_free_pgdir(c)
  <2>0. freeing # NULL /\ freeing.env \in Env
    BY <1>0, <1>8 DEF env_free_pgdir, TypeOK
  <2> DEFINE e == freeing.env
             m == mem
  <2>1. mem' = page_decref([m EXCEPT !.pgdir[e] = NULL], m.pgdir[e])
    BY <1>8 DEF env_free_pgdir
  <2>2. /\ e \in Env /\ Counted(m, {}) /\ m.pgdir[e] # NULL
        /\ \A t \in Table : m.pde[e][t] = NULL
    BY <1>0, <1>8, <2>0 DEF env_free_pgdir, CountInv, Shape, FreeingExists, Exists
  <2> HIDE DEF e, m
  <2>4. Counted(page_decref([m EXCEPT !.pgdir[e] = NULL], m.pgdir[e]), {})
    BY <2>2, DirFreeKeeps
  <2> QED BY <2>1, <2>4
<1>9. ASSUME NEW e \in Env, NEW va \in Va, sys_page_unmap(c, e, va) PROVE Counted(mem', {})
  <2>1. mem' = page_remove(mem, e, va)
    BY <1>9 DEF sys_page_unmap
  <2> QED BY <1>0, <2>1, RemoveKeeps
<1>10. ASSUME NEW e \in Env, NEW va \in Va, NEW w \in BOOLEAN, sys_page_alloc(c, e, va, w)
       PROVE  Counted(mem', {})
  <2>1. CASE mem.free = << >>
    BY <1>1, <1>10, <2>1 DEF sys_page_alloc
  <2>2. CASE mem.free # << >>
    <3> DEFINE m == mem
               a == page_alloc(m)
               h == Head(m.free)
    <3>1. Counted(m, {}) /\ m \in Mem /\ ListExact(m, {}) /\ m.free # << >> /\ m.pgdir[e] # NULL
      BY <1>0, <1>10, <2>2 DEF sys_page_alloc, CallOn, MayChange, Exists
    <3>2. IF CanWalk(a, e, va) THEN mem' = page_insert(a, e, h, va, w)
          ELSE mem' = page_free(a, h)
      BY <1>10, <2>2 DEF sys_page_alloc
    <3> HIDE DEF m
    <3>3. CASE CanWalk(a, e, va)
      BY <3>1, <3>2, <3>3, AllocInsertKeeps
    <3>4. CASE ~CanWalk(a, e, va)
      BY <3>1, <3>2, <3>4, FreeBack
    <3> QED BY <3>3, <3>4
  <2> QED BY <2>1, <2>2
<1>11. ASSUME NEW src \in Env, NEW dst \in Env, NEW srcva \in Va, NEW dstva \in Va,
              NEW w \in BOOLEAN, sys_page_map(c, src, srcva, dst, dstva, w)
       PROVE  Counted(mem', {})
  <2>1. Exists(dst)
    BY <1>11 DEF sys_page_map, CallOn, MayChange
  <2>2. mem.pte[src][srcva] # NULL => MapFrom(c, mem.pte[src][srcva], dst, dstva, w)
    BY <1>11 DEF sys_page_map, page_lookup
  <2>3. mem.pte[src][srcva] = NULL => mem' = mem
    BY <1>11 DEF sys_page_map, page_lookup
  <2> QED BY <1>1, <2>1, <2>2, <2>3, MapFromCounted
<1>12. ASSUME NEW dst \in Env, NEW srcva \in Va, NEW dstva \in Va,
              NEW w \in BOOLEAN, sys_ipc_try_send(c, srcva, dst, dstva, w)
       PROVE  Counted(mem', {})
  <2>1. Exists(dst) /\ cr3[c] \in Env
    BY <1>0, <1>12 DEF sys_ipc_try_send, TypeOK
  <2>2. mem.pte[cr3[c]][srcva] # NULL => MapFrom(c, mem.pte[cr3[c]][srcva], dst, dstva, w)
    BY <1>12 DEF sys_ipc_try_send, page_lookup
  <2>3. mem.pte[cr3[c]][srcva] = NULL => mem' = mem
    BY <1>12 DEF sys_ipc_try_send, page_lookup
  <2> QED BY <1>1, <2>1, <2>2, <2>3, MapFromCounted
<1> QED
  BY <1>2, <1>4, <1>6, <1>7, <1>8, <1>9, <1>10, <1>11, <1>12 DEF Step

(* The accounting of memory holds in every state, as long as no count      *)
(* outgrows the 16 bits of pp_ref.                                         *)
THEOREM CountingKept == Spec /\ []CountsFit => []CountInv
<1>1. CountInv /\ CountsFit /\ [Next]_vars => CountInv'
  <2> SUFFICES ASSUME CountInv, CountsFit, [Next]_vars PROVE CountInv'
    OBVIOUS
  <2>0. Shape /\ Counted(mem, {})
    BY DEF CountInv
  <2>1. CASE UNCHANGED vars
    BY <2>0, <2>1 DEF vars, CountInv, Shape, TypeOK, FreeingExists, Exists
  <2>2. CASE Next
    <3>1. PICK c \in Cpu : Step(c)
      BY <2>2 DEF Next
    <3>2. Shape' /\ Counted(mem', {})
      BY <2>0, <3>1, ShapeStep, CountedStep
    <3> QED BY <3>2 DEF CountInv
  <2> QED BY <2>1, <2>2
<1> QED BY <1>1, InitCounted, PTL DEF Spec

(* "pp_ref is the count of pointers (usually in page table entries) to     *)
(* this page" (inc/memlayout.h): for every number of pages, environments   *)
(* and CPUs, after every sequence of calls and in the middle of env_free.  *)
THEOREM RefsExact == Spec /\ []CountsFit => []RefExact
<1>1. CountInv => RefExact
  BY DEF CountInv, Counted, Exact, RefExact
<1> QED BY <1>1, CountingKept, PTL

(* No page leaks, none that is in use is handed out, page_free never       *)
(* panics, and page tables are never mapped or shared.                     *)
THEOREM PagesKept == Spec /\ []CountsFit => []PagesSafe
<1>1. CountInv => PagesSafe
  <2> SUFFICES ASSUME CountInv PROVE PagesSafe
    OBVIOUS
  <2>1. Exact(mem) /\ Isolated(mem) /\ ListExact(mem, {})
    BY DEF CountInv, Counted
  <2>2. NoLeakNoDangling
    BY <2>1 DEF ListExact, Distinct, Exact, NoLeakNoDangling
  <2>3. TablesIsolated
    BY <2>1 DEF Isolated, Special, TablesIsolated
  <2> QED BY <2>2, <2>3 DEF PagesSafe
<1> QED BY <1>1, CountingKept, PTL

-----------------------------------------------------------------------------
(* Pmap implements AddrSpace *)

(* What the end of sys_page_map and sys_ipc_try_send is to programs.       *)
LEMMA MapFromShares ==
    ASSUME CountInv, NEW c \in Cpu, NEW f \in Env, NEW v \in Va, mem.pte[f][v] # NULL,
           NEW dst \in Env, NEW dstva \in Va, NEW w \in BOOLEAN, Exists(dst),
           MapFrom(c, mem.pte[f][v], dst, dstva, w)
    PROVE  mem' = mem \/ AS!Share(f, v, dst, dstva)
<1>1. CASE UNCHANGED mem
  BY <1>1
<1>2. CASE /\ CanWalk(mem, dst, dstva) /\ (w => mem.pte[f][v].w)
           /\ mem' = page_insert(mem, dst, mem.pte[f][v].page, dstva, w)
  <2>1. Shape /\ Nested(mem) /\ mem \in Mem
    BY DEF CountInv, Shape, TypeOK
  <2>2. mem.pte[f][v].page \in Page
    BY <2>1, NullFacts DEF Mem
  <2>3. /\ mem'.pgdir = mem.pgdir
        /\ mem'.pte = [mem.pte EXCEPT ![dst][dstva] = [page |-> mem.pte[f][v].page, w |-> w]]
    <3> DEFINE p == mem.pte[f][v].page
               n == page_insert(mem, dst, p, dstva, w)
    <3>1. mem' = n /\ p \in Page /\ CanWalk(mem, dst, dstva)
      BY <1>2, <2>2
    <3> HIDE DEF p
    <3>2. /\ n \in Mem /\ Nested(n) /\ n.pgdir = mem.pgdir
          /\ n.pte = [mem.pte EXCEPT ![dst][dstva] = [page |-> p, w |-> w]]
      BY <2>1, <3>1, InsertShape
    <3> QED BY <3>1, <3>2 DEF p
  <2>4. Exists(f)
    BY <2>1, NullFacts DEF Nested, Exists
  <2> QED BY <1>2, <2>3, <2>4 DEF AS!Share, Exists
<1> QED BY <1>1, <1>2 DEF MapFrom

(* Every step of the kernel is to programs one of the steps of AddrSpace,  *)
(* or nothing: in particular a page that is handed out is mapped nowhere.  *)
LEMMA StepSeen ==
    ASSUME CountInv, NEW c \in Cpu, Step(c)
    PROVE  \/ mem'.pte = mem.pte /\ mem'.pgdir = mem.pgdir
           \/ \E e \in Env : AS!Create(e) \/ AS!Destroy(e)
           \/ \E e \in Env, va \in Va : AS!Alloc(e, va) \/ AS!Unmap(e, va)
           \/ \E src, dst \in Env, srcva, dstva \in Va : AS!Share(src, srcva, dst, dstva)
<1>0. Counted(mem, {}) /\ mem \in Mem /\ Nested(mem) /\ ListExact(mem, {}) /\ TypeOK /\ Shape
  BY DEF CountInv, Counted, Shape
<1>2. CASE env_run(c) \/ sched_halt(c) \/ Access(c) \/ env_free(c)
  BY <1>2 DEF env_run, sched_halt, Access, env_free
<1>4. CASE sys_exofork(c)
  <2>0. PICK e \in Env :
          ~Exists(e) /\ IF mem.free = << >> THEN mem' = mem ELSE mem' = env_setup_vm(mem, e)
    BY <1>4 DEF sys_exofork
  <2>1. CASE mem.free = << >>
    BY <2>0, <2>1
  <2>2. CASE mem.free # << >>
    <3> DEFINE m == mem
               n == env_setup_vm(m, e)
    <3>1. m \in Mem /\ Nested(m) /\ m.free # << >> /\ m.pgdir[e] = NULL
      BY <1>0, <2>0, <2>2 DEF Exists
    <3> HIDE DEF m
    <3>2. /\ n \in Mem /\ Nested(n)
          /\ n.pte = m.pte /\ n.pde = m.pde /\ n.panic = m.panic
          /\ n.pgdir = [m.pgdir EXCEPT ![e] = Head(m.free)] /\ Head(m.free) \in Page
          /\ n.free = Tail(m.free)
          /\ n.ref = [m.ref EXCEPT ![Head(m.free)] = (@ + 1) % RefMod]
      BY <3>1, SetupEffect
    <3> HIDE DEF n
    <3>3. mem' = n
      BY <2>0, <2>2 DEF n, m
    <3>4. mem'.pte = mem.pte /\ mem'.pgdir = [mem.pgdir EXCEPT ![e] = Head(m.free)]
      BY <3>2, <3>3 DEF m
    <3>5. \A f \in Env : Exists(f)' <=> Exists(f) \/ f = e
      BY <1>0, <3>2, <3>4, NullFacts DEF Exists, Mem
    <3> QED BY <2>0, <3>4, <3>5 DEF AS!Create
  <2> QED BY <2>1, <2>2
<1>6. CASE env_free_page(c)
  <2>0. freeing # NULL /\ freeing.env \in Env
    BY <1>0, <1>6 DEF env_free_page, TypeOK
  <2>1. PICK va \in Va : mem' = page_remove(mem, freeing.env, va)
    BY <1>6 DEF env_free_page
  <2> DEFINE m == mem
             e == freeing.env
             n == page_remove(m, e, va)
  <2>2. m \in Mem /\ e \in Env /\ Exists(e) /\ mem' = n
    BY <1>0, <2>0, <2>1 DEF Shape, FreeingExists
  <2> HIDE DEF m, e
  <2>3. /\ n \in Mem /\ n.pte = [m.pte EXCEPT ![e][va] = NULL]
        /\ n.pgdir = m.pgdir /\ n.pde = m.pde
    BY <2>2, RemoveEffect
  <2> HIDE DEF n
  <2>4. mem'.pte = [mem.pte EXCEPT ![e][va] = NULL] /\ mem'.pgdir = mem.pgdir
    BY <2>2, <2>3 DEF m
  <2> QED BY <2>2, <2>4 DEF AS!Unmap, Exists
<1>7. CASE env_free_table(c)
  <2>0. freeing # NULL /\ freeing.env \in Env
    BY <1>0, <1>7 DEF env_free_table, TypeOK
  <2> DEFINE e == freeing.env
             m == mem
  <2>1. PICK t \in Table :
          mem.pde[e][t] # NULL
          /\ mem' = page_decref([mem EXCEPT !.pde[e][t] = NULL], mem.pde[e][t])
    BY <1>7 DEF env_free_table, AtTable
  <2> DEFINE k == [m EXCEPT !.pde[e][t] = NULL]
             h == m.pde[e][t]
  <2>2. e \in Env /\ m \in Mem /\ mem' = page_decref(k, h) /\ h # NULL
    BY <1>0, <2>0, <2>1
  <2> HIDE DEF e, m
  <2>3. h \in Page
    BY <2>2 DEF Mem
  <2>4. k \in Mem /\ k.pte = m.pte /\ k.pgdir = m.pgdir
    BY <2>2 DEF Mem
  <2> HIDE DEF h, k
  <2>5. /\ page_decref(k, h) \in Mem
        /\ page_decref(k, h).pgdir = k.pgdir
        /\ page_decref(k, h).pde = k.pde /\ page_decref(k, h).pte = k.pte
    BY <2>3, <2>4, DecrefEffect
  <2> QED BY <2>2, <2>4, <2>5 DEF m
<1>8. CASE env_free_pgdir(c)
  <2>0. freeing # NULL /\ freeing.env \in Env
    BY <1>0, <1>8 DEF env_free_pgdir, TypeOK
  <2> DEFINE e == freeing.env
             m == mem
             k == [m EXCEPT !.pgdir[e] = NULL]
             h == m.pgdir[e]
  <2>1. mem' = page_decref(k, h) /\ \A t \in Table : mem.pde[e][t] = NULL
    BY <1>8 DEF env_free_pgdir
  <2>2. e \in Env /\ m \in Mem /\ h # NULL /\ Exists(e)
    BY <1>0, <2>0 DEF Shape, FreeingExists, Exists
  <2>3. \A va \in Va : mem.pte[e][va] = NULL
    BY <1>0, <2>1, <2>2, NullFacts DEF Nested
  <2> HIDE DEF e, m
  <2>4. h \in Page /\ k \in Mem /\ k.pte = m.pte /\ k.pgdir = [m.pgdir EXCEPT ![e] = NULL]
    BY <2>2 DEF Mem
  <2> HIDE DEF h, k
  <2>5. /\ page_decref(k, h) \in Mem
        /\ page_decref(k, h).pgdir = k.pgdir
        /\ page_decref(k, h).pde = k.pde /\ page_decref(k, h).pte = k.pte
    BY <2>4, DecrefEffect
  <2>6. mem'.pte = mem.pte /\ mem'.pgdir = [mem.pgdir EXCEPT ![e] = NULL]
    BY <2>1, <2>4, <2>5 DEF m
  <2>7. \A f \in Env : Exists(f)' <=> Exists(f) /\ f # e
    BY <1>0, <2>2, <2>6 DEF Exists, Mem
  <2> QED BY <2>2, <2>3, <2>6, <2>7 DEF AS!Destroy
<1>9. ASSUME NEW e \in Env, NEW va \in Va, sys_page_unmap(c, e, va)
      PROVE  AS!Unmap(e, va)
  <2> DEFINE m == mem
             n == page_remove(m, e, va)
  <2>1. mem' = n /\ Exists(e) /\ m \in Mem
    BY <1>0, <1>9 DEF sys_page_unmap, CallOn, MayChange
  <2> HIDE DEF m
  <2>2. /\ n \in Mem /\ n.pte = [m.pte EXCEPT ![e][va] = NULL]
        /\ n.pgdir = m.pgdir /\ n.pde = m.pde
    BY <2>1, RemoveEffect
  <2> HIDE DEF n
  <2>3. mem'.pte = [mem.pte EXCEPT ![e][va] = NULL] /\ mem'.pgdir = mem.pgdir
    BY <2>1, <2>2 DEF m
  <2> QED BY <2>1, <2>3 DEF AS!Unmap, Exists
<1>10. ASSUME NEW e \in Env, NEW va \in Va, NEW w \in BOOLEAN, sys_page_alloc(c, e, va, w)
       PROVE  mem' = mem \/ AS!Alloc(e, va)
  <2>1. CASE mem.free = << >>
    BY <1>10, <2>1 DEF sys_page_alloc
  <2>2. CASE mem.free # << >>
    <3> DEFINE m == mem
               a == page_alloc(m)
               h == Head(m.free)
               n == page_insert(a, e, h, va, w)
    <3>1. Counted(m, {}) /\ m \in Mem /\ ListExact(m, {}) /\ m.free # << >> /\ m.pgdir[e] # NULL
      BY <1>0, <1>10, <2>2 DEF sys_page_alloc, CallOn, MayChange, Exists
    <3>2. IF CanWalk(a, e, va) THEN mem' = n ELSE mem' = page_free(a, h)
      BY <1>10, <2>2 DEF sys_page_alloc
    <3> HIDE DEF m
    <3>3. /\ h \in Page /\ Counted(a, {h}) /\ a.pgdir = m.pgdir /\ a.pte = m.pte
          /\ Refs(m, h) = 0 /\ Refs(a, h) = 0 /\ ~Special(a, h) /\ Mappings(m, h) = {}
      BY <3>1, AllocCounted
    <3>4. CASE CanWalk(a, e, va)
      <4>1. a \in Mem /\ Nested(a) /\ a.pgdir[e] # NULL
        BY <3>1, <3>3 DEF Counted
      <4> HIDE DEF a, h
      <4>2. /\ n \in Mem /\ Nested(n)
            /\ n.pte = [a.pte EXCEPT ![e][va] = [page |-> h, w |-> w]]
            /\ n.pgdir = a.pgdir
        BY <3>3, <3>4, <4>1, InsertEffect
      <4> HIDE DEF n
      <4>3. mem' = n
        BY <3>2, <3>4
      <4>4. /\ mem'.pte = [mem.pte EXCEPT ![e][va] = [page |-> h, w |-> w]]
            /\ mem'.pgdir = mem.pgdir /\ mem.pgdir[e] # NULL
        BY <3>1, <3>3, <4>2, <4>3 DEF m
      <4>5. ~AS!Mapped(h)
        <5>1. Mappings(mem, h) = {}
          BY <3>3 DEF m
        <5>2. ASSUME NEW f \in Env, NEW v \in Va, mem.pte[f][v] # NULL, mem.pte[f][v].page = h
              PROVE  <<f, v>> \in Mappings(mem, h)
          BY <5>2 DEF Mappings
        <5> QED BY <5>1, <5>2 DEF AS!Mapped
      <4> QED BY <3>3, <4>4, <4>5 DEF AS!Alloc, Exists
    <3>5. CASE ~CanWalk(a, e, va)
      BY <3>1, <3>2, <3>5, FreeBack DEF m
    <3> QED BY <3>4, <3>5
  <2> QED BY <2>1, <2>2
<1>11. ASSUME NEW src \in Env, NEW dst \in Env, NEW srcva \in Va, NEW dstva \in Va,
              NEW w \in BOOLEAN, sys_page_map(c, src, srcva, dst, dstva, w)
       PROVE  mem' = mem \/ AS!Share(src, srcva, dst, dstva)
  <2>1. Exists(dst)
    BY <1>11 DEF sys_page_map, CallOn, MayChange
  <2>2. mem.pte[src][srcva] # NULL => MapFrom(c, mem.pte[src][srcva], dst, dstva, w)
    BY <1>11 DEF sys_page_map, page_lookup
  <2>3. mem.pte[src][srcva] = NULL => mem' = mem
    BY <1>11 DEF sys_page_map, page_lookup
  <2> QED BY <2>1, <2>2, <2>3, MapFromShares
<1>12. ASSUME NEW dst \in Env, NEW srcva \in Va, NEW dstva \in Va,
              NEW w \in BOOLEAN, sys_ipc_try_send(c, srcva, dst, dstva, w)
       PROVE  cr3[c] \in Env /\ (mem' = mem \/ AS!Share(cr3[c], srcva, dst, dstva))
  <2>1. Exists(dst) /\ cr3[c] \in Env
    BY <1>0, <1>12 DEF sys_ipc_try_send, TypeOK
  <2>2. mem.pte[cr3[c]][srcva] # NULL => MapFrom(c, mem.pte[cr3[c]][srcva], dst, dstva, w)
    BY <1>12 DEF sys_ipc_try_send, page_lookup
  <2>3. mem.pte[cr3[c]][srcva] = NULL => mem' = mem
    BY <1>12 DEF sys_ipc_try_send, page_lookup
  <2> QED BY <2>1, <2>2, <2>3, MapFromShares
<1> QED
  BY <1>2, <1>4, <1>6, <1>7, <1>8, <1>9, <1>10, <1>11, <1>12 DEF Step

(* Booting gives FirstEnv one page, as AddrSpace starts.                   *)
LEMMA InitSeen == Init => AS!Init
<1> SUFFICES ASSUME Init PROVE AS!Init
  OBVIOUS
<1>1. PICK list \in FreeLists :
         mem = region_alloc(env_setup_vm(page_init(list), FirstEnv), FirstEnv, 0)
  BY DEF Init
<1> DEFINE m0 == page_init(list)
           m1 == env_setup_vm(m0, FirstEnv)
           m2 == page_alloc(m1)
           h == Head(m1.free)
<1>2. /\ FirstEnv \in Env /\ 0 \in Va
      /\ m0 \in Mem /\ Nested(m0) /\ m0.free # << >> /\ m0.pgdir[FirstEnv] = NULL
      /\ m1 \in Mem /\ Nested(m1) /\ m1.free # << >> /\ m1.pgdir[FirstEnv] # NULL
      /\ h \in Page
      /\ m2 \in Mem /\ Nested(m2) /\ CanWalk(m2, FirstEnv, 0) /\ m2.pgdir = m1.pgdir
      /\ m1.pte = m0.pte /\ m2.pte = m0.pte
  BY FirstEnvEffect
<1>3. mem = page_insert(m2, FirstEnv, h, 0, TRUE)
  BY <1>1 DEF region_alloc
<1>4. m0.pte = [e \in Env |-> NoPtes] /\ m0.pgdir = [e \in Env |-> NULL]
  BY DEF page_init
<1> HIDE DEF m0
<1>5. m1.pgdir = [m0.pgdir EXCEPT ![FirstEnv] = Head(m0.free)]
  BY <1>2, SetupEffect
<1> HIDE DEF m1, m2, h
<1>6. /\ mem.pte = [m2.pte EXCEPT ![FirstEnv][0] = [page |-> h, w |-> TRUE]]
      /\ mem.pgdir = m2.pgdir
  <2> DEFINE b == TRUE
             n == page_insert(m2, FirstEnv, h, 0, b)
  <2>0. b \in BOOLEAN /\ mem = n
    BY <1>3
  <2>1. /\ FirstEnv \in Env /\ 0 \in Va /\ h \in Page
        /\ m2 \in Mem /\ Nested(m2) /\ CanWalk(m2, FirstEnv, 0) /\ m2.pgdir[FirstEnv] # NULL
    BY <1>2
  <2> HIDE DEF b
  <2>2. /\ n \in Mem /\ Nested(n)
        /\ n.pte = [m2.pte EXCEPT ![FirstEnv][0] = [page |-> h, w |-> b]]
        /\ n.pgdir = m2.pgdir
    BY <2>0, <2>1, InsertEffect
  <2> QED BY <2>0, <2>2 DEF b
<1>7. \A e \in Env : Exists(e) <=> e = FirstEnv
  <2>1. mem.pgdir = m1.pgdir
    BY ONLY <1>2, <1>6
  <2>2. mem.pgdir[FirstEnv] # NULL
    BY ONLY <1>2, <2>1
  <2>3. \A e \in Env : e # FirstEnv => mem.pgdir[e] = NULL
    BY ONLY <1>4, <1>5, <2>1
  <2> QED BY ONLY <1>2, <2>2, <2>3, Zenon DEF Exists
<1>8. mem.pte = [e \in Env |-> [va \in Va |->
          IF e = FirstEnv /\ va = 0 THEN [page |-> h, w |-> TRUE] ELSE NULL]]
  <2> DEFINE x == [page |-> h, w |-> TRUE]
  <2>1. mem.pte = [[e \in Env |-> [va \in Va |-> NULL]] EXCEPT ![FirstEnv][0] = x]
    BY <1>2, <1>4, <1>6 DEF NoPtes
  <2> HIDE DEF x
  <2>2. mem.pte = [e \in Env |-> [va \in Va |-> IF e = FirstEnv /\ va = 0 THEN x ELSE NULL]]
    BY <1>2, <2>1
  <2> QED BY <2>2 DEF x
<1>9. {e \in Env : Exists(e)} = {FirstEnv}
  BY <1>2, <1>7
<1> QED BY <1>2, <1>8, <1>9 DEF AS!Init

(* The page calls keep their promise to programs: seen through the page    *)
(* tables, every run is a run of AddrSpace, in which a page that is handed *)
(* out is one nobody has and sharing never adds the right to write.        *)
THEOREM ImplementsAS == Spec /\ []CountsFit => ImplementsAddrSpace
<1>1. CountInv /\ [Next]_vars => [AS!Next]_AS!vars
  <2> SUFFICES ASSUME CountInv, [Next]_vars PROVE [AS!Next]_AS!vars
    OBVIOUS
  <2>1. CASE mem'.pte = mem.pte /\ mem'.pgdir = mem.pgdir
    BY <2>1 DEF AS!vars, Exists
  <2>2. CASE ~(mem'.pte = mem.pte /\ mem'.pgdir = mem.pgdir)
    <3>1. PICK c \in Cpu : Step(c)
      BY <2>2 DEF Next, vars
    <3>2. CASE \E e \in Env : AS!Create(e) \/ AS!Destroy(e)
      BY <3>2 DEF AS!Next
    <3>3. CASE \/ \E e \in Env, va \in Va : AS!Alloc(e, va) \/ AS!Unmap(e, va)
               \/ \E src, dst \in Env, srcva, dstva \in Va : AS!Share(src, srcva, dst, dstva)
      <4>1. CASE mem'.pte = mem.pte
        <5>1. {e \in Env : Exists(e)}' = {e \in Env : Exists(e)}
          BY <3>3 DEF AS!Alloc, AS!Unmap, AS!Share
        <5> QED BY <4>1, <5>1 DEF AS!vars
      <4>2. CASE mem'.pte # mem.pte
        BY <3>3, <4>2 DEF AS!Next
      <4> QED BY <4>1, <4>2
    <3> QED BY <2>2, <3>1, <3>2, <3>3, StepSeen
  <2> QED BY <2>1, <2>2
<1> QED BY <1>1, InitSeen, CountingKept, PTL DEF Spec, ImplementsAddrSpace, AS!Spec

(* No call makes a page writable that is mapped read-only everywhere.      *)
THEOREM ReadOnlyKept == Spec /\ []CountsFit => NoWriteToReadOnly
<1> DEFINE A == \A p \in Page : Mappings(mem, p) # {} /\ ~Writable(mem, p) => ~Writable(mem', p)
<1>1. CountInv /\ [Next]_vars => [A]_vars
  <2> SUFFICES ASSUME CountInv, Next, NEW p \in Page, Mappings(mem, p) # {}, Writable(mem', p)
               PROVE  Writable(mem, p)
    BY DEF A
  <2>0. mem.pte \in [Env -> [Va -> Pte \cup {NULL}]]
    BY DEF CountInv, Shape, TypeOK, Mem
  <2>1. PICK f \in Env, v \in Va : /\ mem'.pte[f][v] # NULL
                                   /\ mem'.pte[f][v].page = p /\ mem'.pte[f][v].w
    BY DEF Writable
  <2>2. CASE mem'.pte[f][v] = mem.pte[f][v]
    BY <2>1, <2>2 DEF Writable
  <2>3. ASSUME NEW e \in Env, NEW va \in Va, AS!Alloc(e, va), mem'.pte[f][v] # mem.pte[f][v]
        PROVE  FALSE
    <3>1. PICK q \in Page, w \in BOOLEAN :
            ~AS!Mapped(q) /\ mem'.pte = [mem.pte EXCEPT ![e][va] = [page |-> q, w |-> w]]
      BY <2>3 DEF AS!Alloc
    <3>2. mem'.pte[f][v] = [page |-> q, w |-> w]
      BY <2>0, <2>3, <3>1
    <3>3. q = p
      BY <2>1, <3>2
    <3>4. PICK x \in Env \X Va : x \in Mappings(mem, p)
      BY DEF Mappings
    <3>5. AS!Mapped(p)
      BY <3>4 DEF Mappings, AS!Mapped
    <3> QED BY <3>1, <3>3, <3>5
  <2>4. ASSUME NEW e \in Env, NEW va \in Va, AS!Unmap(e, va), mem'.pte[f][v] # mem.pte[f][v]
        PROVE  FALSE
    BY <2>0, <2>1, <2>4 DEF AS!Unmap
  <2>5. ASSUME NEW src \in Env, NEW dst \in Env, NEW srcva \in Va, NEW dstva \in Va,
               AS!Share(src, srcva, dst, dstva), mem'.pte[f][v] # mem.pte[f][v]
        PROVE  Writable(mem, p)
    <3>1. PICK w \in BOOLEAN :
            /\ w => mem.pte[src][srcva].w
            /\ mem'.pte = [mem.pte EXCEPT
                             ![dst][dstva] = [page |-> mem.pte[src][srcva].page, w |-> w]]
      BY <2>5 DEF AS!Share
    <3>2. mem'.pte[f][v] = [page |-> mem.pte[src][srcva].page, w |-> w]
      BY <2>0, <2>5, <3>1
    <3>3. mem.pte[src][srcva].page = p /\ w
      BY <2>1, <3>2
    <3>4. mem.pte[src][srcva] # NULL
      BY <2>5 DEF AS!Share
    <3> QED BY <3>1, <3>3, <3>4 DEF Writable
  <2>6. PICK c \in Cpu : Step(c)
    BY DEF Next
  <2>7. (\E e \in Env : AS!Create(e) \/ AS!Destroy(e)) => mem'.pte = mem.pte
    BY DEF AS!Create, AS!Destroy
  <2> QED BY <2>2, <2>3, <2>4, <2>5, <2>6, <2>7, StepSeen
<1>2. CountInv /\ [Next]_vars => [\A p \in Page :
          Mappings(mem, p) # {} /\ ~Writable(mem, p) => ~Writable(mem', p)]_vars
  BY <1>1
<1> QED BY <1>2, CountingKept, PTL DEF Spec, NoWriteToReadOnly

(* A system call that fails has changed nothing.                           *)
THEOREM ErrorsUndone == Spec /\ []CountsFit => ErrorsChangeNothing
<1>1. CountInv /\ [Next]_vars => [ret' \in {"E_NO_MEM", "E_INVAL"} => mem' = mem]_vars
  <2> SUFFICES ASSUME CountInv, NEW c \in Cpu, Step(c), ret' \in {"E_NO_MEM", "E_INVAL"}
               PROVE  mem' = mem
    BY DEF Next
  <2>1. ~(\/ env_run(c) \/ sched_halt(c) \/ Access(c) \/ env_free(c) \/ env_free_page(c)
          \/ env_free_table(c) \/ env_free_pgdir(c))
    BY DEF env_run, sched_halt, Access, env_free, env_free_page, env_free_table, env_free_pgdir
  <2>2. \A e \in Env, va \in Va : ~sys_page_unmap(c, e, va)
    BY DEF sys_page_unmap
  <2>3. sys_exofork(c) => mem' = mem
    BY DEF sys_exofork
  <2>4. ASSUME NEW e \in Env, NEW va \in Va, NEW w \in BOOLEAN, sys_page_alloc(c, e, va, w)
        PROVE  mem' = mem
    <3> DEFINE m == mem
    <3>1. \/ mem' = m
          \/ mem' = page_free(page_alloc(m), Head(m.free)) /\ m.free # << >>
      BY <2>4 DEF sys_page_alloc
    <3>2. m \in Mem /\ ListExact(m, {})
      BY DEF CountInv, Counted
    <3> HIDE DEF m
    <3>3. mem' = m
      BY <3>1, <3>2, FreeBack
    <3> QED BY <3>3 DEF m
  <2>5. \A src, dst \in Env, srcva, dstva \in Va, w \in BOOLEAN :
            sys_page_map(c, src, srcva, dst, dstva, w) => mem' = mem
    BY DEF sys_page_map, MapFrom
  <2>6. \A dst \in Env, srcva, dstva \in Va, w \in BOOLEAN :
            sys_ipc_try_send(c, srcva, dst, dstva, w) => mem' = mem
    BY DEF sys_ipc_try_send, MapFrom
  <2> QED BY <2>1, <2>2, <2>3, <2>4, <2>5, <2>6 DEF Step
<1> QED BY <1>1, CountingKept, PTL DEF Spec, ErrorsChangeNothing

=============================================================================
