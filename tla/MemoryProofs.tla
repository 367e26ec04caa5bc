---------------------------- MODULE MemoryProofs ----------------------------
(***************************************************************************)
(* Proofs about Memory, for every number of pages, processes and calls,    *)
(* every size of the heap and every set of programs: PageInv says whose a  *)
(* page is, ViewInv what it holds, KnownInv that none is forgotten.  The   *)
(* heap's blocks are in HeapProofs.                                        *)
(***************************************************************************)
EXTENDS Memory, WellFoundedInduction, TLAPS

-----------------------------------------------------------------------------
(* The operators.                                                          *)

\* A set of naturals has a least element.
LEMMA MinIs ==
    ASSUME NEW S \in SUBSET Nat, S # {}
    PROVE  Min(S) \in S /\ \A y \in S : Min(S) <= y
<1>. DEFINE R == OpToRel(<, Nat)
<1>1. IsWellFoundedOn(R, Nat)
  BY NatLessThanWellFounded, Zenon
<1>2. \E x \in S : \A y \in S : ~(<<y, x>> \in R)
  <2>. HIDE DEF R
  <2>. QED BY <1>1, WFMin, Zenon
<1>3. PICK x \in S : \A y \in S : ~(<<y, x>> \in R)
  BY <1>2, Zenon
<1>4. \A y \in S : x <= y
  <2>. SUFFICES ASSUME NEW y \in S, ~(x <= y) PROVE FALSE
    OBVIOUS
  <2>1. <<y, x>> \in Nat \X Nat /\ y < x
    OBVIOUS
  <2>2. <<y, x>>[1] < <<y, x>>[2]
    BY <2>1
  <2>3. <<y, x>> \in R
    BY <2>1, <2>2, Zenon DEF OpToRel
  <2>. QED BY <1>3, <2>3, Zenon
<1>. QED BY <1>4, Zenon DEF Min

\* A bounded one has a greatest.
LEMMA MaxIs ==
    ASSUME NEW n \in Nat, NEW S \in SUBSET (0 .. n), S # {}
    PROVE  Max(S) \in S /\ \A y \in S : Max(S) >= y
<1>. DEFINE T == {n - y : y \in S}
<1>1. T \in SUBSET Nat /\ T # {}
  <2>1. \A y \in S : n - y \in Nat
    OBVIOUS
  <2>. QED BY <2>1, Zenon
<1>2. Min(T) \in T /\ \A y \in T : Min(T) <= y
  BY <1>1, MinIs, Zenon
<1>3. PICK x \in S : Min(T) = n - x
  BY <1>2, Zenon
<1>4. \A y \in S : x >= y
  BY <1>2, <1>3
<1>. QED BY <1>4, Zenon DEF Max

LEMMA Sizes ==
    /\ Total \in Nat /\ PageSize \in Nat /\ Header \in Nat /\ HeapPages \in Nat /\ HEAP_MAX \in Nat
    /\ 1 <= HeapPages /\ 1 + HeapPages <= HEAP_MAX /\ HEAP_MAX <= Total
    /\ 0 < Header /\ Header < PageSize
BY MemoryAssumption

\* pmm_alloc_page returns 0 or a page that was free.
LEMMA AllocIs ==
    ASSUME NEW u
    PROVE  /\ pmm_alloc_page(u) \in Nat
           /\ pmm_alloc_page(u) # 0 => pmm_alloc_page(u) \in Pages \ u
<1>1. CASE Pages \subseteq u
  BY <1>1 DEF pmm_alloc_page
<1>2. CASE ~(Pages \subseteq u)
  <2>1. Pages \ u \in SUBSET Nat /\ Pages \ u # {}
    BY <1>2, Sizes DEF Pages
  <2>2. Min(Pages \ u) \in Pages \ u
    BY <2>1, MinIs
  <2>. QED BY <1>2, <2>1, <2>2 DEF pmm_alloc_page
<1>. QED BY <1>1, <1>2

\* heap_expand takes the free pages right after the heap, as far as they go.
Wanted(size) == (size + PageSize - 1) \div PageSize
Expanded(got, size) ==
    [blocks |-> blocks, end |-> heap_end + got, used |-> used \cup (heap_end .. heap_end + got - 1),
     ok |-> (got = Wanted(size)), ptr |-> 0]

LEMMA ExpandIs ==
    ASSUME heap_end \in Nat, NEW size \in Nat
    PROVE  \E got \in 0 .. Wanted(size) :
              /\ heap_expand(Heap, size) = Expanded(got, size)
              /\ \A p \in heap_end .. heap_end + got - 1 : p < HEAP_MAX /\ p \notin used
<1>. DEFINE n == Wanted(size)
            S == {k \in 0 .. n : \A p \in heap_end .. heap_end + k - 1 : p < HEAP_MAX /\ p \notin used}
<1>1. n \in Nat
  BY Sizes DEF Wanted
<1>. HIDE DEF n
<1>2. S \in SUBSET (0 .. n) /\ 0 \in S
  BY <1>1
<1>3. Max(S) \in S
  BY <1>1, <1>2, MaxIs, Zenon
<1>4. heap_expand(Heap, size) = Expanded(Max(S), size)
  <2>1. Heap.end = heap_end /\ Heap.used = used
    BY DEF Heap
  <2>2. heap_expand(Heap, size)
          = [Heap EXCEPT !.end = heap_end + Max(S),
                         !.used = used \cup (heap_end .. heap_end + Max(S) - 1),
                         !.ok = (Max(S) = n)]
    BY <2>1, Zenon DEF heap_expand, n, Wanted
  <2>. HIDE DEF S
  <2>. QED BY <2>2, Zenon DEF Heap, Expanded, n
<1>. QED BY <1>1, <1>3, <1>4, Zenon DEF n

\* The pages kmalloc takes.
LEMMA KmallocPages ==
    ASSUME heap_end \in Nat, NEW size \in Nat
    PROVE  \E got \in Nat :
              /\ kmalloc(Heap, size).end = heap_end + got
              /\ kmalloc(Heap, size).used = used \cup (heap_end .. heap_end + got - 1)
              /\ \A p \in heap_end .. heap_end + got - 1 : p < HEAP_MAX /\ p \notin used
<1>. DEFINE grown == heap_expand(Heap, size + Header)
            bs == Grow(grown.blocks, heap_end * PageSize, ((grown.end - heap_end) * PageSize) - Header)
            more == [grown EXCEPT !.blocks = bs]
<1>0. Heap.end = heap_end /\ Heap.used = used /\ Heap.blocks = blocks
  BY DEF Heap
<1>1. size + Header \in Nat
  BY Sizes
<1>2. PICK got \in 0 .. Wanted(size + Header) :
          /\ grown = Expanded(got, size + Header)
          /\ \A p \in heap_end .. heap_end + got - 1 : p < HEAP_MAX /\ p \notin used
  BY <1>1, ExpandIs
<1>3. got \in Nat /\ grown.end = heap_end + got
      /\ grown.used = used \cup (heap_end .. heap_end + got - 1)
  BY <1>2, Sizes DEF Expanded
<1>4. more.end = grown.end /\ more.used = grown.used
  <2>. HIDE DEF bs
  <2>. QED BY <1>2 DEF Expanded
<1>5. CASE FirstFit(blocks, size) # {}
  <2>1. kmalloc(Heap, size) = Fit(Heap, size)
    BY <1>0, <1>5, Zenon DEF kmalloc
  <2>2. Fit(Heap, size).end = heap_end /\ Fit(Heap, size).used = used
    BY DEF Fit, Heap
  <2>3. heap_end .. heap_end + 0 - 1 = {} /\ heap_end + 0 = heap_end
    OBVIOUS
  <2>. QED BY <2>1, <2>2, <2>3
<1>6. CASE FirstFit(blocks, size) = {} /\ ~grown.ok
  <2>1. kmalloc(Heap, size) = grown
    BY <1>0, <1>6, Zenon DEF kmalloc
  <2>. QED BY <1>2, <1>3, <2>1
<1>7. CASE FirstFit(blocks, size) = {} /\ grown.ok
  <2>1. kmalloc(Heap, size) = Fit(more, size)
    BY <1>0, <1>7, Zenon DEF kmalloc
  <2>2. Fit(more, size).end = more.end /\ Fit(more, size).used = more.used
    <3>. HIDE DEF bs
    <3>. QED BY <1>2 DEF Fit, Expanded
  <2>. QED BY <1>2, <1>3, <1>4, <2>1, <2>2
<1>. QED BY <1>5, <1>6, <1>7, Zenon

-----------------------------------------------------------------------------
(* Address spaces.                                                         *)

SpaceType == [dir : Nat, pt : [Pdes -> Nat], map : [Virt -> Nat]]

LEMMA NoSpacePages == NoSpace \in SpaceType /\ PagesOf(NoSpace) = {}
BY DEF NoSpace, SpaceType, PagesOf, DataPages, Tables

\* The pages of a space, one by one.
LEMMA PagesAre ==
    ASSUME NEW as \in SpaceType, NEW p
    PROVE  p \in PagesOf(as) <=> /\ p # 0
                                 /\ \/ p = as.dir
                                    \/ \E x \in Virt : p = as.map[x]
                                    \/ \E e \in Pdes : p = as.pt[e]
BY Zenon DEF PagesOf, DataPages, Tables

LEMMA NoSharingIs ==
    ASSUME NEW as \in SpaceType
    PROVE  NoSharing(as) <=>
             /\ as.dir # 0
             /\ \A x \in Virt : as.map[x] # as.dir
             /\ \A e \in Pdes : as.pt[e] # as.dir
             /\ \A x \in Virt, e \in Pdes : as.map[x] # 0 => as.map[x] # as.pt[e]
             /\ \A x, y \in Virt : x # y /\ as.map[x] # 0 => as.map[x] # as.map[y]
             /\ \A d, e \in Pdes : d # e /\ as.pt[d] # 0 => as.pt[d] # as.pt[e]
BY Zenon DEF NoSharing, DataPages, Tables

\* Space b is the space as with page phys mapped at v, through table pt of entry d.
Extends(b, as, v, d, phys, pt) ==
    /\ as \in SpaceType /\ b \in SpaceType /\ NoSharing(as) /\ v \in Virt /\ d \in Pdes
    /\ phys \in Nat \ {0} /\ pt \in Nat \ {0} /\ pt # phys /\ phys \notin PagesOf(as)
    /\ as.pt[d] # 0 => pt = as.pt[d]
    /\ as.pt[d] = 0 => pt \notin PagesOf(as)
    /\ b.dir = as.dir
    /\ \A x \in Virt : b.map[x] = IF x = v THEN phys ELSE as.map[x]
    /\ \A e \in Pdes : b.pt[e] = IF e = d THEN pt ELSE as.pt[e]

LEMMA SpacePlus ==
    ASSUME NEW as, NEW b, NEW v, NEW d, NEW phys, NEW pt, Extends(b, as, v, d, phys, pt)
    PROVE  /\ NoSharing(b)
           /\ PagesOf(b) \subseteq PagesOf(as) \cup {phys, pt}
<1>. USE DEF Extends
<1>0. /\ as.dir # 0
      /\ \A x \in Virt : as.map[x] # as.dir
      /\ \A e \in Pdes : as.pt[e] # as.dir
      /\ \A x \in Virt, e \in Pdes : as.map[x] # 0 => as.map[x] # as.pt[e]
      /\ \A x, y \in Virt : x # y /\ as.map[x] # 0 => as.map[x] # as.map[y]
      /\ \A e, c \in Pdes : e # c /\ as.pt[e] # 0 => as.pt[e] # as.pt[c]
  BY NoSharingIs, Zenon
<1>1. /\ phys # as.dir
      /\ \A x \in Virt : as.map[x] # phys
      /\ \A e \in Pdes : as.pt[e] # phys
  BY PagesAre, Zenon
<1>2. /\ pt # as.dir
      /\ \A x \in Virt : as.map[x] # pt
      /\ \A e \in Pdes : e # d => as.pt[e] # pt
  <2>1. CASE as.pt[d] # 0
    <3>1. pt = as.pt[d]
      BY <2>1, Zenon
    <3>2. ASSUME NEW x \in Virt PROVE as.map[x] # pt
      BY <1>0, <3>1, Zenon
    <3>3. ASSUME NEW e \in Pdes, e # d PROVE as.pt[e] # pt
      BY <1>0, <2>1, <3>1, <3>3, Zenon
    <3>. QED BY <1>0, <3>1, <3>2, <3>3, Zenon
  <2>2. CASE as.pt[d] = 0
    <3>1. pt # as.dir
      BY <2>2, Zenon DEF PagesOf
    <3>2. ASSUME NEW x \in Virt PROVE as.map[x] # pt
      BY <2>2, Zenon DEF PagesOf, DataPages
    <3>3. ASSUME NEW e \in Pdes PROVE as.pt[e] # pt
      BY <2>2, Zenon DEF PagesOf, Tables
    <3>. QED BY <3>1, <3>2, <3>3, Zenon
  <2>. QED BY <2>1, <2>2, Zenon
<1>3. NoSharing(b)
  <2>1. /\ b.dir # 0
        /\ \A x \in Virt : b.map[x] # b.dir
        /\ \A e \in Pdes : b.pt[e] # b.dir
    BY <1>0, <1>1, <1>2, Zenon
  <2>2. ASSUME NEW x \in Virt, NEW e \in Pdes, b.map[x] # 0 PROVE b.map[x] # b.pt[e]
    <3>1. CASE x = v
      BY <1>1, <3>1, Zenon
    <3>2. CASE x # v
      <4>1. b.map[x] = as.map[x] /\ as.map[x] # 0
        BY <2>2, <3>2, Zenon
      <4>2. CASE e = d
        BY <1>2, <4>1, <4>2, Zenon
      <4>3. CASE e # d
        BY <1>0, <4>1, <4>3, ZenonT(60)
      <4>. QED BY <4>2, <4>3
    <3>. QED BY <3>1, <3>2
  <2>3. ASSUME NEW x \in Virt, NEW y \in Virt, x # y, b.map[x] # 0 PROVE b.map[x] # b.map[y]
    BY <1>0, <1>1, <2>3, ZenonT(60)
  <2>4. ASSUME NEW e \in Pdes, NEW c \in Pdes, e # c, b.pt[e] # 0 PROVE b.pt[e] # b.pt[c]
    BY <1>0, <1>2, <2>4, ZenonT(60)
  <2>. QED BY <2>1, <2>2, <2>3, <2>4, NoSharingIs, ZenonT(60)
<1>4. ASSUME NEW p \in PagesOf(b), p # phys, p # pt PROVE p \in PagesOf(as)
  <2>1. p # 0 /\ (p = b.dir \/ (\E x \in Virt : p = b.map[x]) \/ \E e \in Pdes : p = b.pt[e])
    BY Zenon DEF PagesOf, DataPages, Tables
  <2>2. p = as.dir \/ (\E x \in Virt : p = as.map[x]) \/ \E e \in Pdes : p = as.pt[e]
    BY <1>4, <2>1, Zenon
  <2>. QED BY <2>1, <2>2, PagesAre, Zenon
<1>. QED BY <1>3, <1>4, Zenon

\* Nothing of it is lost when v was not mapped before.
LEMMA SpaceKeeps ==
    ASSUME NEW as, NEW b, NEW v, NEW d, NEW phys, NEW pt, Extends(b, as, v, d, phys, pt),
           as.map[v] = 0
    PROVE  PagesOf(as) \cup {phys, pt} \subseteq PagesOf(b)
<1>. USE DEF Extends
<1>1. ASSUME NEW p \in PagesOf(as) PROVE p \in PagesOf(b)
  <2>1. p # 0 /\ (p = as.dir \/ (\E x \in Virt : p = as.map[x]) \/ \E e \in Pdes : p = as.pt[e])
    BY PagesAre, ZenonT(60)
  <2>2. p = b.dir \/ (\E x \in Virt : p = b.map[x]) \/ \E e \in Pdes : p = b.pt[e]
    BY <2>1, Zenon
  <2>. QED BY <2>1, <2>2, PagesAre, Zenon
<1>2. phys \in PagesOf(b) /\ pt \in PagesOf(b)
  <2>1. b.map[v] = phys /\ b.pt[d] = pt
    BY Zenon
  <2>. QED BY <2>1, PagesAre
<1>. QED BY <1>1, <1>2, Zenon

\* vmm_map_user_page maps a page that was free; what the space owns on top of
\* what it had is that page and perhaps a table that was free too.
LEMMA MapIs ==
    ASSUME NEW u, NEW as \in SpaceType, NoSharing(as), PagesOf(as) \subseteq u, 0 \in u,
           NEW v \in Virt, NEW phys \in Pages \ u,
           vmm_map_user_page(u \cup {phys}, as, v, phys).ok
    PROVE  LET m == vmm_map_user_page(u \cup {phys}, as, v, phys)
           IN  /\ m.as \in SpaceType /\ NoSharing(m.as)
               /\ u \subseteq m.used /\ m.used \subseteq u \cup Pages
               /\ PagesOf(m.as) \subseteq PagesOf(as) \cup (m.used \ u)
               /\ PagesOf(m.as) \subseteq m.used
               /\ as.map[v] = 0 => m.used \ u \subseteq PagesOf(m.as) /\ PagesOf(as) \subseteq PagesOf(m.as)
<1>. DEFINE m == vmm_map_user_page(u \cup {phys}, as, v, phys)
            d == Pde[v]
            pt == IF as.pt[d] # 0 THEN as.pt[d] ELSE pmm_alloc_page(u \cup {phys})
<1>0. /\ d \in Pdes /\ phys \in Nat /\ phys # 0
      /\ as.pt \in [Pdes -> Nat] /\ as.map \in [Virt -> Nat] /\ as.dir \in Nat
  <2>1. d \in Pdes
    BY DEF Pdes
  <2>2. phys \in Nat /\ phys # 0
    BY Sizes DEF Pages
  <2>. QED BY <2>1, <2>2, Zenon DEF SpaceType
<1>1. pt # 0 /\ m.used = u \cup {phys} \cup {pt}
      /\ m.as = [as EXCEPT !.pt[d] = pt, !.map[v] = phys]
  BY Zenon DEF vmm_map_user_page
<1>2. pt \in Nat /\ (as.pt[d] # 0 => pt = as.pt[d])
      /\ (as.pt[d] = 0 => pt \in Pages \ (u \cup {phys}))
  BY <1>0, <1>1, AllocIs, Zenon
<1>. HIDE DEF m, pt, d
<1>3. /\ m.as.dir = as.dir /\ m.as.pt = [as.pt EXCEPT ![d] = pt]
      /\ m.as.map = [as.map EXCEPT ![v] = phys] /\ m.as \in SpaceType
  <2>. DEFINE f == [as.pt EXCEPT ![d] = pt]  g == [as.map EXCEPT ![v] = phys]
  <2>1. f \in [Pdes -> Nat] /\ g \in [Virt -> Nat]
    BY <1>0, <1>2, Zenon
  <2>2. m.as = [[as EXCEPT !.pt = f] EXCEPT !.map = g]
    BY <1>0, <1>1 DEF SpaceType
  <2>. HIDE DEF f, g
  <2>3. m.as.dir = as.dir /\ m.as.pt = f /\ m.as.map = g /\ m.as \in SpaceType
    BY <2>1, <2>2, Zenon DEF SpaceType
  <2>. QED BY <2>3 DEF f, g
<1>4. /\ \A x \in Virt : as.map[x] # 0 => as.map[x] \in u
      /\ \A e \in Pdes : as.pt[e] # 0 => as.pt[e] \in u
      /\ as.dir # 0 /\ as.dir \in u
  BY Zenon DEF PagesOf, DataPages, Tables, NoSharing
<1>5. /\ phys \notin PagesOf(as) /\ pt # phys
      /\ as.pt[d] = 0 => pt \notin PagesOf(as)
      /\ as.pt[d] # 0 => pt = as.pt[d] /\ pt \in u
  BY <1>0, <1>2, <1>4, Zenon
<1>6. Extends(m.as, as, v, d, phys, pt)
  <2>1. /\ \A x \in Virt : m.as.map[x] = IF x = v THEN phys ELSE as.map[x]
        /\ \A e \in Pdes : m.as.pt[e] = IF e = d THEN pt ELSE as.pt[e]
    BY <1>0, <1>3, ZenonT(60)
  <2>. QED BY <1>0, <1>1, <1>2, <1>3, <1>5, <2>1, Zenon DEF Extends
<1>7. /\ NoSharing(m.as)
      /\ PagesOf(m.as) \subseteq PagesOf(as) \cup {phys, pt}
      /\ as.map[v] = 0 => PagesOf(as) \cup {phys, pt} \subseteq PagesOf(m.as)
  <2>. DEFINE b == m.as  k == d  q == pt
  <2>1. Extends(b, as, v, k, phys, q)
    BY <1>6
  <2>. HIDE DEF b, k, q
  <2>2. NoSharing(b)
    BY <2>1, SpacePlus, Zenon
  <2>3. PagesOf(b) \subseteq PagesOf(as) \cup {phys, q}
    BY <2>1, SpacePlus, Zenon
  <2>4. as.map[v] = 0 => PagesOf(as) \cup {phys, q} \subseteq PagesOf(b)
    BY <2>1, SpaceKeeps, Zenon
  <2>. QED BY <2>2, <2>3, <2>4, Zenon DEF b, k, q
<1>8. pt \in u => pt \in PagesOf(as)
  BY <1>0, <1>1, <1>2, PagesAre, Zenon
<1>9. pt \in u \cup Pages
  BY <1>2, <1>5, Zenon
<1>. QED BY <1>1, <1>3, <1>7, <1>8, <1>9, ZenonT(60) DEF m

-----------------------------------------------------------------------------
(* The inductive invariant.                                                *)

\* Where a call has a space of its own.
Mapping == {"map", "stack", "publish"}

\* The fields of a call that the proofs look at have types, the others are
\* there.
CallType(c) ==
    [op : {"none", "exec", "fork", "write_file"},
     pc : {"boot", "idle", "read", "dir", "buffer"} \cup Mapping,
     as : SpaceType, todo : Seq(Virt), buf : {c.buf}, len : {c.len}, prog : Programs,
     slot : Procs \cup {0}, see : [Virt -> {c.see[v] : v \in Virt}]]

ProcType == [state : {"unused", "claimed", "live"}, as : SpaceType]

Types ==
    /\ used \subseteq Pages /\ 0 \in used /\ heap_end \in Nat \ {0}
    /\ procs \in [Procs -> ProcType]
    /\ work = [w \in Workers |-> work[w]]
    /\ \A w \in Workers : work[w] \in CallType(work[w])

\* Only a live process and a call that maps pages have a space.
SpacesSound ==
    /\ \A p \in Procs : IF procs[p].state = "live" THEN NoSharing(procs[p].as)
                                                   ELSE procs[p].as = NoSpace
    /\ \A w \in Workers : IF work[w].pc \in Mapping THEN NoSharing(work[w].as)
                                                    ELSE work[w].as = NoSpace

\* A process in a call is live.  A fork, and an exec about to fill in its
\* process, has a slot that is not its own: of what else may by now have become
\* of that slot nothing is said, because sys_kill frees it under the call.
Claims(c) == c.op = "fork" \/ c.pc = "publish"
CallsSound ==
    /\ \A p \in Procs : work[p].pc # "idle" => procs[p].state = "live"
    /\ \A w \in Workers : work[w].op = "fork" => w \in Procs /\ work[w].pc \in {"dir", "map"}
    /\ \A w \in Workers : Claims(work[w]) => work[w].slot \in Procs \ {w}

\* No page is in two spaces.
Apart ==
    /\ \A p, q \in Procs : p # q => PagesOf(procs[p].as) \cap PagesOf(procs[q].as) = {}
    /\ \A v, w \in Workers : v # w => PagesOf(work[v].as) \cap PagesOf(work[w].as) = {}
    /\ \A p \in Procs, w \in Workers : PagesOf(procs[p].as) \cap PagesOf(work[w].as) = {}

\* Pages in use by a space are neither free nor the heap's nor given up.
Owned == used \ (HeapRange \cup leaked)
Inside ==
    /\ HeapRange \subseteq used \ leaked /\ leaked \subseteq used
    /\ \A p \in Procs : PagesOf(procs[p].as) \subseteq Owned
    /\ \A w \in Workers : PagesOf(work[w].as) \subseteq Owned

PageInv == Types /\ SpacesSound /\ CallsSound /\ Apart /\ Inside

\* What a space maps holds, in memory d, what must be found there.
Holds(d, as, see) ==
    \A v \in Virt : /\ as.map[v] # 0 <=> see[v] # Nothing
                    /\ as.map[v] # 0 => d[as.map[v]] = see[v]

ViewInv ==
    /\ data = [p \in Pages |-> data[p]] /\ \A p \in Pages : data[p] # Nothing
    /\ view = [p \in Procs |-> view[p]]
    /\ \A p \in Procs : view[p] = [v \in Virt |-> view[p][v]]
    /\ \A p \in Procs : procs[p].state = "live" => Holds(data, procs[p].as, view[p])
    /\ \A w \in Workers : Holds(data, work[w].as, work[w].see)

\* One call changes.
LEMMA WorkIs ==
    ASSUME Types, NEW w \in Workers, NEW c, c \in CallType(c), work' = [work EXCEPT ![w] = c]
    PROVE  /\ work'[w] = c /\ \A x \in Workers : x # w => work'[x] = work[x]
           /\ work' = [x \in Workers |-> work'[x]]
           /\ \A x \in Workers : work'[x] \in CallType(work'[x])
<1>1. work = [x \in Workers |-> work[x]]
  BY DEF Types
<1>2. work'[w] = c /\ \A x \in Workers : x # w => work'[x] = work[x]
  BY <1>1
<1>3. work' = [x \in Workers |-> work'[x]]
  BY <1>1
<1>4. ASSUME NEW x \in Workers PROVE work'[x] \in CallType(work'[x])
  BY <1>2, Zenon DEF Types
<1>. QED BY <1>2, <1>3, <1>4

\* Spaces that lose pages, or gain pages that were free, stay apart.
LEMMA StillApart ==
    ASSUME Apart, Inside, NEW w \in Workers, NEW new, new \cap used = {},
           \A p \in Procs : PagesOf(procs'[p].as) \subseteq PagesOf(procs[p].as),
           \A x \in Workers : x # w => PagesOf(work'[x].as) \subseteq PagesOf(work[x].as),
           PagesOf(work'[w].as) \subseteq PagesOf(work[w].as) \cup new
    PROVE  Apart'
<1>0. /\ \A p \in Procs : PagesOf(procs[p].as) \cap new = {}
      /\ \A x \in Workers : PagesOf(work[x].as) \cap new = {}
  BY DEF Inside, Owned
<1>1. ASSUME NEW p \in Procs, NEW q \in Procs, p # q
      PROVE  PagesOf(procs'[p].as) \cap PagesOf(procs'[q].as) = {}
  <2>1. PagesOf(procs[p].as) \cap PagesOf(procs[q].as) = {}
    BY <1>1 DEF Apart
  <2>2. /\ PagesOf(procs'[p].as) \subseteq PagesOf(procs[p].as)
        /\ PagesOf(procs'[q].as) \subseteq PagesOf(procs[q].as)
    OBVIOUS
  <2>. QED BY <2>1, <2>2
<1>2. ASSUME NEW v \in Workers, NEW x \in Workers, v # x
      PROVE  PagesOf(work'[v].as) \cap PagesOf(work'[x].as) = {}
  <2>1. PagesOf(work[v].as) \cap PagesOf(work[x].as) = {}
    BY <1>2 DEF Apart
  <2>2. \/ PagesOf(work'[v].as) \subseteq PagesOf(work[v].as)
        \/ PagesOf(work'[x].as) \subseteq PagesOf(work[x].as)
    BY <1>2
  <2>3. /\ PagesOf(work'[v].as) \subseteq PagesOf(work[v].as) \cup new
        /\ PagesOf(work'[x].as) \subseteq PagesOf(work[x].as) \cup new
    OBVIOUS
  <2>. QED BY <1>0, <2>1, <2>2, <2>3
<1>3. ASSUME NEW p \in Procs, NEW x \in Workers
      PROVE  PagesOf(procs'[p].as) \cap PagesOf(work'[x].as) = {}
  <2>1. PagesOf(procs[p].as) \cap PagesOf(work[x].as) = {}
    BY DEF Apart
  <2>2. /\ PagesOf(procs'[p].as) \subseteq PagesOf(procs[p].as)
        /\ PagesOf(work'[x].as) \subseteq PagesOf(work[x].as) \cup new
    OBVIOUS
  <2>. QED BY <1>0, <2>1, <2>2
<1>. QED BY <1>1, <1>2, <1>3, Zenon DEF Apart

\* Steps that leave the spaces alone; the heap may take free pages.
LEMMA HeapStep ==
    ASSUME PageInv, NEW got \in Nat, heap_end' = heap_end + got,
           used' = used \cup (heap_end .. heap_end + got - 1),
           \A p \in heap_end .. heap_end + got - 1 : p < HEAP_MAX /\ p \notin used,
           procs' = procs, leaked' = leaked,
           NEW w \in Workers, NEW c, c \in CallType(c), work' = [work EXCEPT ![w] = c],
           c.as = work[w].as, c.pc \notin Mapping, work[w].pc \notin Mapping, c.op # "fork",
           w \in Procs /\ c.pc # "idle" => procs[w].state = "live"
    PROVE  PageInv'
<1>. DEFINE R == heap_end .. heap_end + got - 1
<1>0. Types /\ SpacesSound /\ CallsSound /\ Apart /\ Inside
  BY DEF PageInv
<1>1. /\ work'[w] = c /\ \A x \in Workers : x # w => work'[x] = work[x]
      /\ work' = [x \in Workers |-> work'[x]]
      /\ \A x \in Workers : work'[x] \in CallType(work'[x])
  BY <1>0, WorkIs, Zenon
<1>2. /\ R \subseteq Pages /\ R \cap used = {} /\ heap_end' \in Nat \ {0}
      /\ HeapRange' = HeapRange \cup R
  <2>1. heap_end \in Nat \ {0}
    BY <1>0 DEF Types
  <2>2. R \subseteq Pages
    BY <2>1, Sizes DEF Pages
  <2>3. HeapRange' = HeapRange \cup R
    BY <2>1 DEF HeapRange
  <2>. QED BY <2>1, <2>2, <2>3
<1>3. Types'
  BY <1>0, <1>1, <1>2 DEF Types
<1>4. \A x \in Workers : work'[x].as = work[x].as /\ (work'[x].pc \in Mapping <=> work[x].pc \in Mapping)
  BY <1>1
<1>5. SpacesSound'
  BY <1>0, <1>4 DEF SpacesSound
<1>6. CallsSound'
  BY <1>0, <1>1 DEF CallsSound, Claims, Mapping, Workers
<1>7. Apart'
  BY <1>0, <1>4, Zenon DEF Apart
<1>8. Inside'
  <2>. HIDE DEF R
  <2>1. used' = used \cup R
    BY DEF R
  <2>. QED BY <1>0, <1>2, <1>4, <2>1 DEF Inside, Owned
<1>. QED BY <1>3, <1>5, <1>6, <1>7, <1>8 DEF PageInv

-----------------------------------------------------------------------------
(* Calls as records.                                                       *)

LEMMA CallIs ==
    ASSUME NEW o \in {"none", "exec", "fork", "write_file"},
           NEW k \in {"boot", "idle", "dir", "read", "buffer"},
           NEW g \in Programs, NEW b, NEW l, NEW s \in Procs \cup {0}
    PROVE  LET c == Call(o, k, g, b, l, s)
           IN  /\ c \in CallType(c) /\ c.as = NoSpace /\ c.pc \notin Mapping
               /\ c.op = o /\ c.pc = k /\ c.slot = s /\ c.see = NoView
<1>1. NoSpace \in SpaceType
  BY NoSpacePages
<1>. QED BY <1>1 DEF Call, CallType, NoView, Mapping

LEMMA NoCallIs ==
    /\ NoCall \in CallType(NoCall) /\ NoCall.as = NoSpace /\ NoCall.pc \notin Mapping
    /\ NoCall.op = "none" /\ NoCall.pc = "idle" /\ NoCall.see = NoView
<1>1. Shell \in Programs
  BY MemoryAssumption
<1>. QED BY <1>1, CallIs DEF NoCall

\* What a call is before it starts.
LEMMA Starts ==
    ASSUME PageInv, NEW p \in Procs, InRing3(p)
    PROVE  /\ p \in Workers /\ procs[p].state = "live" /\ work[p].pc = "idle"
           /\ work[p].as = NoSpace /\ work[p].pc \notin Mapping /\ work[p].op # "fork"
           /\ work[p] \in CallType(work[p]) /\ work = [work EXCEPT ![p] = work[p]]
<1>1. p \in Workers
  BY DEF Workers
<1>2. work = [work EXCEPT ![p] = work[p]]
  BY <1>1 DEF PageInv, Types
<1>3. work[p].pc = "idle" /\ procs[p].state = "live"
  BY DEF InRing3
<1>4. work[p].op # "fork"
  BY <1>1, <1>3 DEF PageInv, CallsSound
<1>5. work[p].pc \notin Mapping
  BY <1>3 DEF Mapping
<1>6. work[p].as = NoSpace
  BY <1>1, <1>5 DEF PageInv, SpacesSound
<1>7. work[p] \in CallType(work[p])
  BY <1>1 DEF PageInv, Types
<1>. QED BY <1>1, <1>2, <1>3, <1>4, <1>5, <1>6, <1>7, ZenonT(30)


\* A call that starts, or fails before it does.
LEMMA StartStep ==
    ASSUME PageInv, NEW got \in Nat, heap_end' = heap_end + got,
           used' = used \cup (heap_end .. heap_end + got - 1),
           \A q \in heap_end .. heap_end + got - 1 : q < HEAP_MAX /\ q \notin used,
           procs' = procs, leaked' = leaked, NEW p \in Procs, InRing3(p),
           NEW o \in {"exec", "write_file"}, NEW k \in {"dir", "read", "buffer"},
           NEW g \in Programs, NEW b, NEW l,
           work' = work \/ work' = [work EXCEPT ![p] = Call(o, k, g, b, l, 0)]
    PROVE  PageInv'
<1>. DEFINE c == Call(o, k, g, b, l, 0)
<1>0. /\ p \in Workers /\ procs[p].state = "live" /\ work[p].pc = "idle"
      /\ work[p].as = NoSpace /\ work[p].pc \notin Mapping /\ work[p].op # "fork"
      /\ work[p] \in CallType(work[p]) /\ work = [work EXCEPT ![p] = work[p]]
  BY Starts, Zenon
<1>1. /\ c \in CallType(c) /\ c.as = NoSpace /\ c.op # "fork" /\ c.pc \notin Mapping
  BY CallIs
<1>2. CASE work' = work
  <2>1. work' = [work EXCEPT ![p] = work[p]]
    BY <1>0, <1>2
  <2>. DEFINE d == work[p]
  <2>2. /\ d \in CallType(d) /\ work' = [work EXCEPT ![p] = d] /\ d.as = work[p].as
        /\ d.pc \notin Mapping /\ work[p].pc \notin Mapping /\ d.op # "fork"
        /\ procs[p].state = "live" /\ p \in Workers
    BY <1>0, <2>1
  <2>. HIDE DEF d
  <2>. QED BY <2>2, HeapStep, Zenon
<1>3. CASE work' = [work EXCEPT ![p] = c]
  <2>. HIDE DEF c
  <2>1. c.as = work[p].as
    BY <1>0, <1>1
  <2>. QED BY <1>0, <1>1, <1>3, <2>1, HeapStep, ZenonT(60)
<1>. QED BY <1>2, <1>3

-----------------------------------------------------------------------------
(* The pages, action by action.                                            *)

\* Nothing is taken by the heap.
LEMMA NoGrowth ==
    ASSUME PageInv, heap_end' = heap_end, used' = used
    PROVE  /\ 0 \in Nat /\ heap_end' = heap_end + 0
           /\ used' = used \cup (heap_end .. heap_end + 0 - 1)
           /\ \A p \in heap_end .. heap_end + 0 - 1 : p < HEAP_MAX /\ p \notin used
<1>1. heap_end \in Nat
  BY DEF PageInv, Types
<1>. QED BY <1>1

LEMMA HeapEnd == PageInv => heap_end \in Nat
BY DEF PageInv, Types

LEMMA ExecPages ==
    ASSUME PageInv, NEW p \in Procs, NEW g \in Programs, Exec(p, g)
    PROVE  PageInv'
<1>0. /\ InRing3(p) /\ procs' = procs /\ leaked' = leaked /\ heap_end \in Nat /\ g.size \in Nat
  BY HeapEnd, MemoryAssumption DEF Exec, Enter
<1>1. CASE UNCHANGED <<used, heap>> /\ work' = [work EXCEPT ![p] = Call("exec", "dir", g, 0, 0, 0)]
  <2>1. heap_end' = heap_end /\ used' = used
    BY <1>1 DEF heap
  <2>. QED BY <1>0, <1>1, <2>1, NoGrowth, StartStep, Zenon
<1>2. ASSUME NEW h, h = kmalloc(Heap, g.size), used' = h.used, heap_end' = h.end,
             work' = IF h.ptr = 0 THEN work
                     ELSE [work EXCEPT ![p] = Call("exec", "read", g, h.ptr, g.size, 0)]
      PROVE  PageInv'
  <2>1. PICK got \in Nat :
              /\ heap_end' = heap_end + got
              /\ used' = used \cup (heap_end .. heap_end + got - 1)
              /\ \A q \in heap_end .. heap_end + got - 1 : q < HEAP_MAX /\ q \notin used
    BY <1>0, <1>2, KmallocPages, Zenon
  <2>2. work' = work \/ work' = [work EXCEPT ![p] = Call("exec", "read", g, h.ptr, g.size, 0)]
    BY <1>2, Zenon
  <2>. QED BY <1>0, <2>1, <2>2, StartStep
<1>. QED BY <1>1, <1>2, Zenon DEF Exec

LEMMA WriteFilePages ==
    ASSUME PageInv, NEW p \in Procs, NEW len \in Lens, WriteFile(p, len)
    PROVE  PageInv'
<1>0. /\ InRing3(p) /\ procs' = procs /\ leaked' = leaked /\ heap_end \in Nat /\ len \in Nat
      /\ Shell \in Programs
  BY HeapEnd, MemoryAssumption DEF WriteFile, Enter
<1>. DEFINE h == kmalloc(Heap, len)
<1>1. PICK got \in Nat :
            /\ heap_end' = heap_end + got
            /\ used' = used \cup (heap_end .. heap_end + got - 1)
            /\ \A q \in heap_end .. heap_end + got - 1 : q < HEAP_MAX /\ q \notin used
  <2>1. used' = h.used /\ heap_end' = h.end
    BY Zenon DEF WriteFile
  <2>. QED BY <1>0, <2>1, KmallocPages, Zenon
<1>2. work' = work \/ work' = [work EXCEPT ![p] = Call("write_file", "buffer", Shell, h.ptr, len, 0)]
  BY Zenon DEF WriteFile
<1>. HIDE DEF h
<1>. QED BY <1>0, <1>1, <1>2, StartStep, Zenon

LEMMA MountPages ==
    ASSUME PageInv, NEW size \in FatSizes, MountFat(size)
    PROVE  PageInv'
<1>0. /\ kmain \in Workers /\ kmain \notin Procs /\ work[kmain].pc = "boot" /\ procs' = procs
      /\ leaked' = leaked /\ heap_end \in Nat /\ size \in Nat /\ Shell \in Programs
  BY HeapEnd, MemoryAssumption DEF MountFat, Workers, kmain
<1>. DEFINE h == kmalloc(Heap, size)
            c == Call("exec", "dir", Shell, 0, 0, 0)
<1>1. PICK got \in Nat :
            /\ heap_end' = heap_end + got
            /\ used' = used \cup (heap_end .. heap_end + got - 1)
            /\ \A q \in heap_end .. heap_end + got - 1 : q < HEAP_MAX /\ q \notin used
  <2>1. used' = h.used /\ heap_end' = h.end
    BY Zenon DEF MountFat
  <2>. QED BY <1>0, <2>1, KmallocPages, Zenon
<1>2. work' = [work EXCEPT ![kmain] = c]
  BY Zenon DEF MountFat
<1>3. /\ c \in CallType(c) /\ c.as = NoSpace /\ c.op # "fork" /\ c.pc \notin Mapping
  BY <1>0, CallIs, SMTT(30)
<1>4. work[kmain].as = NoSpace /\ work[kmain].pc \notin Mapping
  BY <1>0 DEF PageInv, SpacesSound, Mapping
<1>. HIDE DEF h, c
<1>5. c.as = work[kmain].as
  BY <1>3, <1>4
<1>. QED BY <1>0, <1>1, <1>2, <1>3, <1>4, <1>5, HeapStep, Zenon

\* The end of a call that has no space.
LEMMA EndPages ==
    ASSUME PageInv, NEW p \in Workers, work[p].pc \notin Mapping,
           work' = [work EXCEPT ![p] = NoCall],
           heap_end' = heap_end, used' = used, procs' = procs, leaked' = leaked
    PROVE  PageInv'
<1>1. NoCall.as = work[p].as /\ NoCall.pc \notin Mapping
  BY NoCallIs DEF PageInv, SpacesSound, Mapping
<1>2. NoCall \in CallType(NoCall) /\ NoCall.op # "fork" /\ NoCall.pc = "idle"
  BY NoCallIs
<1>. QED BY <1>1, <1>2, NoGrowth, HeapStep, Zenon

LEMMA WriteDonePages ==
    ASSUME PageInv, NEW p \in Procs, WriteFileDone(p)
    PROVE  PageInv'
<1>1. p \in Workers /\ work[p].pc \notin Mapping
  BY DEF WriteFileDone, Workers, Mapping
<1>. QED BY <1>1, EndPages, Zenon DEF WriteFileDone

LEMMA ExecReadPages ==
    ASSUME PageInv, NEW p \in Procs, ExecRead(p)
    PROVE  PageInv'
<1>1. /\ p \in Workers /\ work[p].pc = "read" /\ work[p].pc \notin Mapping
      /\ heap_end' = heap_end /\ used' = used /\ procs' = procs /\ leaked' = leaked
  BY DEF ExecRead, Workers, Mapping
<1>2. CASE work' = [work EXCEPT ![p] = NoCall]
  BY <1>1, <1>2, EndPages, Zenon
<1>3. CASE work' = [work EXCEPT ![p].pc = "dir"]
  <2>. DEFINE c == [work[p] EXCEPT !.pc = "dir"]
  <2>1. work' = [work EXCEPT ![p] = c]
    BY <1>3
  <2>2. work[p] \in CallType(work[p]) /\ work[p].op # "fork" /\ procs[p].state = "live"
    BY <1>1, Zenon DEF PageInv, Types, CallsSound
  <2>3. /\ c \in CallType(c) /\ c.as = work[p].as /\ c.pc = "dir" /\ c.op = work[p].op
    BY <2>2 DEF CallType, Mapping
  <2>4. c.pc \notin Mapping
    BY <2>3 DEF Mapping
  <2>. HIDE DEF c
  <2>. QED BY <1>1, <2>1, <2>2, <2>3, <2>4, NoGrowth, HeapStep, Zenon
<1>. QED BY <1>2, <1>3 DEF ExecRead

LEMMA CopyPages ==
    ASSUME PageInv, NEW p \in Procs, NEW vs, copy_to_user(p, vs)
    PROVE  PageInv'
<1>1. /\ used' = used /\ heap_end' = heap_end /\ procs' = procs /\ work' = work /\ leaked' = leaked
  BY DEF copy_to_user, heap
<1>. QED BY <1>1, ZenonT(60) DEF PageInv, Types, SpacesSound, CallsSound, Apart, Inside, Owned, HeapRange

\* The first unused slot.
LEMMA FreeSlot ==
    ASSUME {s \in Procs : procs[s].state = "unused"} # {}
    PROVE  LET s == Min({x \in Procs : procs[x].state = "unused"})
           IN  s \in Procs /\ procs[s].state = "unused"
<1>. DEFINE F == {x \in Procs : procs[x].state = "unused"}
<1>1. F \in SUBSET Nat /\ F # {}
  BY MemoryAssumption, Zenon
<1>2. Min(F) \in F
  <2>. HIDE DEF F
  <2>. QED BY <1>1, MinIs, Zenon
<1>. QED BY <1>2

\* A call claims the first unused slot and keeps the space it has, if any.
LEMMA ClaimStep ==
    ASSUME PageInv, NEW s \in Procs, procs[s].state = "unused",
           procs' = [procs EXCEPT ![s].state = "claimed"],
           used' = used, heap_end' = heap_end, leaked' = leaked,
           NEW w \in Workers, NEW c, c \in CallType(c), work' = [work EXCEPT ![w] = c],
           c.as = work[w].as, c.pc \in Mapping <=> work[w].pc \in Mapping, c.slot = s,
           c.op = "fork" => w \in Procs /\ c.pc \in {"dir", "map"},
           w \in Procs => procs[w].state = "live"
    PROVE  PageInv'
<1>0. Types /\ SpacesSound /\ CallsSound /\ Apart /\ Inside
  BY DEF PageInv
<1>1. /\ work'[w] = c /\ \A x \in Workers : x # w => work'[x] = work[x]
      /\ work' = [x \in Workers |-> work'[x]]
      /\ \A x \in Workers : work'[x] \in CallType(work'[x])
  BY <1>0, WorkIs, Zenon
<1>2. /\ procs' \in [Procs -> ProcType]
      /\ \A q \in Procs : procs'[q].as = procs[q].as /\ (q # s => procs'[q] = procs[q])
      /\ procs'[s].state = "claimed"
  BY <1>0 DEF Types, ProcType
<1>3. Types'
  BY <1>0, <1>1, <1>2, ZenonT(30) DEF Types
<1>4. \A x \in Workers : work'[x].as = work[x].as /\ (work'[x].pc \in Mapping <=> work[x].pc \in Mapping)
  BY <1>1, Zenon
<1>5. SpacesSound'
  BY <1>0, <1>2, <1>4, SMTT(30) DEF SpacesSound
<1>6. CallsSound'
  <2>1. ASSUME NEW q \in Procs, work'[q].pc # "idle" PROVE procs'[q].state = "live"
    BY <1>0, <1>1, <1>2, <2>1, SMTT(30) DEF CallsSound, Workers
  <2>2. ASSUME NEW x \in Workers, work'[x].op = "fork" PROVE x \in Procs /\ work'[x].pc \in {"dir", "map"}
    BY <1>0, <1>1, <2>2, SMTT(30) DEF CallsSound
  <2>3. ASSUME NEW x \in Workers, Claims(work'[x]) PROVE work'[x].slot \in Procs \ {x}
    BY <1>0, <1>1, <2>3, SMTT(30) DEF CallsSound
  <2>. QED BY <2>1, <2>2, <2>3, ZenonT(30) DEF CallsSound
<1>7. Apart'
  BY <1>0, <1>2, <1>4, ZenonT(60) DEF Apart
<1>8. Inside'
  BY <1>0, <1>2, <1>4 DEF Inside, Owned, HeapRange
<1>. QED BY <1>3, <1>5, <1>6, <1>7, <1>8, ZenonT(30) DEF PageInv

LEMMA ForkPages ==
    ASSUME PageInv, NEW p \in Procs, Fork(p)
    PROVE  PageInv'
<1>. DEFINE s == Min({x \in Procs : procs[x].state = "unused"})
            c == Call("fork", "dir", Shell, 0, 0, s)
<1>1. /\ s \in Procs /\ procs[s].state = "unused"
      /\ procs' = [procs EXCEPT ![s].state = "claimed"]
      /\ work' = [work EXCEPT ![p] = c]
      /\ used' = used /\ heap_end' = heap_end /\ leaked' = leaked
  <2>1. {x \in Procs : procs[x].state = "unused"} # {}
    BY Zenon DEF Fork
  <2>2. s \in Procs /\ procs[s].state = "unused"
    BY <2>1, FreeSlot
  <2>3. procs' = [procs EXCEPT ![s].state = "claimed"] /\ work' = [work EXCEPT ![p] = c]
    BY Zenon DEF Fork
  <2>. QED BY <2>2, <2>3 DEF Fork, heap
<1>2. /\ p \in Workers /\ procs[p].state = "live" /\ work[p].as = NoSpace /\ work[p].pc \notin Mapping
  <2>1. InRing3(p)
    BY DEF Fork, Enter
  <2>. QED BY <2>1, Starts
<1>. HIDE DEF s
<1>3. /\ c \in CallType(c) /\ c.as = NoSpace /\ c.pc \notin Mapping /\ c.pc = "dir" /\ c.slot = s
  BY <1>1, CallIs, MemoryAssumption, SMTT(30)
<1>. HIDE DEF c
<1>4. c.as = work[p].as /\ (c.pc \in Mapping <=> work[p].pc \in Mapping) /\ c.pc \in {"dir", "map"}
  BY <1>2, <1>3, Zenon
<1>. QED BY <1>1, <1>2, <1>3, <1>4, ClaimStep, ZenonT(60)

\* What call w leaves behind when it fills in or frees slot s: the process that
\* is there by then, and the call that process is in, are gone, their pages with
\* them.  Of the space of w, the pages back are free again and the pages left
\* are in use for nobody.
Replaced(w, s, P, see, back, left) ==
    /\ procs' = [procs EXCEPT ![s] = P]
    /\ view' = [view EXCEPT ![s] = see]
    /\ work' = [work EXCEPT ![w] = NoCall, ![s] = NoCall]
    /\ used' = used \ back /\ leaked' = leaked \cup left \cup HeldPages(s)
    /\ heap_end' = heap_end /\ data' = data

\* What takes the slot is nothing, or a process with the space of w; a process
\* that ends is its own w and gives nothing back.
Replacement(w, s, P, back, left) ==
    /\ P \in ProcType
    /\ IF P.state = "live" THEN NoSharing(P.as) ELSE P.as = NoSpace
    /\ PagesOf(P.as) \cup back \cup left \subseteq PagesOf(work[w].as)
    /\ back \cap left = {} /\ PagesOf(P.as) \cap (back \cup left) = {}
    /\ s = w => PagesOf(P.as) = {} /\ back = {}

LEMMA NoZero == \A as : 0 \notin PagesOf(as)
BY DEF PagesOf, DataPages, Tables

LEMMA ReplacedIs ==
    ASSUME PageInv, NEW w \in Workers, NEW s \in Procs, NEW P, NEW see, NEW back, NEW left,
           Replaced(w, s, P, see, back, left), P \in ProcType
    PROVE  /\ procs' \in [Procs -> ProcType]
           /\ procs'[s] = P /\ \A q \in Procs : q # s => procs'[q] = procs[q]
           /\ s \in Workers
           /\ work'[w] = NoCall /\ work'[s] = NoCall
           /\ \A x \in Workers : x # w /\ x # s => work'[x] = work[x]
           /\ work' = [x \in Workers |-> work'[x]]
           /\ \A x \in Workers : work'[x] \in CallType(work'[x])
<1>1. /\ procs \in [Procs -> ProcType] /\ work = [x \in Workers |-> work[x]]
      /\ \A x \in Workers : work[x] \in CallType(work[x])
  BY DEF PageInv, Types
<1>2. /\ procs' = [procs EXCEPT ![s] = P] /\ work' = [work EXCEPT ![w] = NoCall, ![s] = NoCall]
      /\ s \in Workers
  BY DEF Replaced, Workers
<1>3. procs' \in [Procs -> ProcType] /\ procs'[s] = P /\ \A q \in Procs : q # s => procs'[q] = procs[q]
  BY <1>1, <1>2, ZenonT(30)
<1>4. /\ work'[w] = NoCall /\ work'[s] = NoCall
      /\ \A x \in Workers : x # w /\ x # s => work'[x] = work[x]
      /\ work' = [x \in Workers |-> work'[x]]
  BY <1>1, <1>2, Zenon
<1>5. ASSUME NEW x \in Workers PROVE work'[x] \in CallType(work'[x])
  BY <1>1, <1>4, NoCallIs, ZenonT(30)
<1>. QED BY <1>2, <1>3, <1>4, <1>5, Zenon

LEMMA ReplacePages ==
    ASSUME PageInv, NEW w \in Workers, NEW s \in Procs, NEW P, NEW see, NEW back, NEW left,
           Replaced(w, s, P, see, back, left), Replacement(w, s, P, back, left)
    PROVE  PageInv'
<1>. DEFINE mine == PagesOf(work[w].as)
            held == HeldPages(s)
            ours == PagesOf(P.as)
<1>0. Types /\ SpacesSound /\ CallsSound /\ Apart /\ Inside
  BY DEF PageInv
<1>1. /\ P \in ProcType /\ (IF P.state = "live" THEN NoSharing(P.as) ELSE P.as = NoSpace)
      /\ ours \cup back \cup left \subseteq mine /\ back \cap left = {} /\ ours \cap (back \cup left) = {}
      /\ s = w => ours = {} /\ back = {}
  BY DEF Replacement
<1>2. used' = used \ back /\ leaked' = leaked \cup left \cup held /\ heap_end' = heap_end
  BY DEF Replaced
<1>3. /\ procs' \in [Procs -> ProcType]
      /\ procs'[s] = P /\ \A q \in Procs : q # s => procs'[q] = procs[q]
      /\ s \in Workers
      /\ work'[w] = NoCall /\ work'[s] = NoCall
      /\ \A x \in Workers : x # w /\ x # s => work'[x] = work[x]
      /\ work' = [x \in Workers |-> work'[x]]
      /\ \A x \in Workers : work'[x] \in CallType(work'[x])
  BY <1>1, ReplacedIs, ZenonT(60)
<1>4. /\ mine \subseteq Owned /\ held \subseteq Owned /\ 0 \notin mine
      /\ HeapRange' = HeapRange /\ PagesOf(NoCall.as) = {}
  <2>1. held \subseteq Owned
    BY <1>0, <1>3, Zenon DEF Inside, HeldPages
  <2>2. mine \subseteq Owned
    BY <1>0, Zenon DEF Inside
  <2>3. HeapRange' = HeapRange
    BY <1>2, Zenon DEF HeapRange
  <2>4. PagesOf(NoCall.as) = {}
    BY NoCallIs, NoSpacePages, Zenon
  <2>. QED BY <2>1, <2>2, <2>3, <2>4, NoZero, Zenon
<1>5. /\ \A q \in Procs : PagesOf(procs[q].as) \cap mine = {}
      /\ \A q \in Procs : q # s => PagesOf(procs[q].as) \cap held = {}
      /\ \A x \in Workers : x # w => PagesOf(work[x].as) \cap mine = {}
      /\ \A x \in Workers : x # s => PagesOf(work[x].as) \cap held = {}
      /\ s # w => mine \cap held = {}
  <2>1. /\ \A q \in Procs : PagesOf(procs[q].as) \cap mine = {}
        /\ \A x \in Workers : x # w => PagesOf(work[x].as) \cap mine = {}
    BY <1>0, Zenon DEF Apart
  <2>2. ASSUME NEW q \in Procs, q # s PROVE PagesOf(procs[q].as) \cap held = {}
    <3>1. PagesOf(procs[q].as) \cap PagesOf(procs[s].as) = {} /\ PagesOf(procs[q].as) \cap PagesOf(work[s].as) = {}
      BY <1>0, <1>3, <2>2, Zenon DEF Apart
    <3>. QED BY <3>1, Zenon DEF HeldPages
  <2>3. ASSUME NEW x \in Workers, x # s PROVE PagesOf(work[x].as) \cap held = {}
    <3>1. PagesOf(procs[s].as) \cap PagesOf(work[x].as) = {} /\ PagesOf(work[x].as) \cap PagesOf(work[s].as) = {}
      BY <1>0, <1>3, <2>3, Zenon DEF Apart
    <3>. QED BY <3>1, Zenon DEF HeldPages
  <2>. QED BY <2>1, <2>2, <2>3, Zenon
<1>. HIDE DEF mine, held, ours
<1>6. Types'
  BY <1>0, <1>1, <1>2, <1>3, <1>4, ZenonT(60) DEF Types
<1>7. SpacesSound'
  BY <1>0, <1>1, <1>3, NoCallIs, ZenonT(60) DEF SpacesSound
<1>8. CallsSound'
  <2>1. ASSUME NEW x \in Workers, x = w \/ x = s
        PROVE  work'[x].pc = "idle" /\ work'[x].op # "fork" /\ ~Claims(work'[x])
    BY <1>3, <2>1, NoCallIs, ZenonT(30) DEF Claims
  <2>2. ASSUME NEW q \in Procs, work'[q].pc # "idle" PROVE procs'[q].state = "live"
    <3>1. q \in Workers
      BY DEF Workers
    <3>. QED BY <1>0, <1>3, <2>1, <2>2, <3>1, ZenonT(30) DEF CallsSound
  <2>3. ASSUME NEW x \in Workers, work'[x].op = "fork" PROVE x \in Procs /\ work'[x].pc \in {"dir", "map"}
    BY <1>0, <1>3, <2>1, <2>3, ZenonT(30) DEF CallsSound
  <2>4. ASSUME NEW x \in Workers, Claims(work'[x]) PROVE work'[x].slot \in Procs \ {x}
    BY <1>0, <1>3, <2>1, <2>4, ZenonT(30) DEF CallsSound
  <2>. QED BY <2>2, <2>3, <2>4, ZenonT(30) DEF CallsSound
<1>9. /\ PagesOf(procs'[s].as) = ours /\ PagesOf(work'[w].as) = {} /\ PagesOf(work'[s].as) = {}
      /\ \A q \in Procs : q # s => PagesOf(procs'[q].as) = PagesOf(procs[q].as)
      /\ \A x \in Workers : x # w /\ x # s => PagesOf(work'[x].as) = PagesOf(work[x].as)
  BY <1>3, <1>4, ZenonT(30) DEF ours
<1>10. Apart'
  <2>1. ASSUME NEW q \in Procs, q # s PROVE PagesOf(procs'[q].as) \cap PagesOf(procs'[s].as) = {}
    BY <1>1, <1>5, <1>9, <2>1, ZenonT(60)
  <2>2. ASSUME NEW p \in Procs, NEW q \in Procs, p # q
        PROVE  PagesOf(procs'[p].as) \cap PagesOf(procs'[q].as) = {}
    <3>1. CASE p # s /\ q # s
      BY <1>0, <1>9, <2>2, <3>1, ZenonT(30) DEF Apart
    <3>2. CASE p = s \/ q = s
      BY <2>1, <2>2, <3>2, ZenonT(30)
    <3>. QED BY <3>1, <3>2
  <2>3. ASSUME NEW v \in Workers, NEW x \in Workers, v # x
        PROVE  PagesOf(work'[v].as) \cap PagesOf(work'[x].as) = {}
    <3>1. CASE v = w \/ v = s \/ x = w \/ x = s
      BY <1>9, <3>1, ZenonT(30)
    <3>2. CASE ~(v = w \/ v = s \/ x = w \/ x = s)
      BY <1>0, <1>9, <2>3, <3>2, ZenonT(30) DEF Apart
    <3>. QED BY <3>1, <3>2, Zenon
  <2>4. ASSUME NEW p \in Procs, NEW x \in Workers
        PROVE  PagesOf(procs'[p].as) \cap PagesOf(work'[x].as) = {}
    <3>1. CASE x = w \/ x = s
      BY <1>9, <3>1, ZenonT(30)
    <3>2. CASE x # w /\ x # s /\ p = s
      BY <1>1, <1>5, <1>9, <3>2, ZenonT(60)
    <3>3. CASE x # w /\ x # s /\ p # s
      BY <1>0, <1>9, <3>3, ZenonT(30) DEF Apart
    <3>. QED BY <3>1, <3>2, <3>3, Zenon
  <2>. QED BY <2>2, <2>3, <2>4, Zenon DEF Apart
<1>11. Inside'
  <2>0. back \cap held = {}
    BY <1>1, <1>5, ZenonT(30)
  <2>1. HeapRange' \subseteq used' \ leaked' /\ leaked' \subseteq used'
    <3>1. HeapRange \subseteq used \ leaked /\ leaked \subseteq used
      BY <1>0 DEF Inside
    <3>. QED BY <1>1, <1>2, <1>4, <2>0, <3>1, ZenonT(60) DEF Owned
  <2>2. ASSUME NEW q \in Procs PROVE PagesOf(procs'[q].as) \subseteq used' \ (HeapRange' \cup leaked')
    <3>1. CASE q = s
      <4>1. ours \subseteq Owned /\ ours \cap held = {}
        BY <1>1, <1>4, <1>5, ZenonT(30)
      <4>. QED BY <1>1, <1>2, <1>4, <1>9, <3>1, <4>1, ZenonT(60) DEF Owned
    <3>2. CASE q # s
      <4>1. PagesOf(procs[q].as) \subseteq Owned
        BY <1>0, Zenon DEF Inside
      <4>. QED BY <1>1, <1>2, <1>4, <1>5, <1>9, <3>2, <4>1, ZenonT(60) DEF Owned
    <3>. QED BY <3>1, <3>2
  <2>3. ASSUME NEW x \in Workers PROVE PagesOf(work'[x].as) \subseteq used' \ (HeapRange' \cup leaked')
    <3>1. CASE x = w \/ x = s
      BY <1>9, <3>1, ZenonT(30)
    <3>2. CASE x # w /\ x # s
      <4>1. PagesOf(work[x].as) \subseteq Owned
        BY <1>0, Zenon DEF Inside
      <4>. QED BY <1>1, <1>2, <1>4, <1>5, <1>9, <3>2, <4>1, ZenonT(60) DEF Owned
    <3>. QED BY <3>1, <3>2
  <2>. QED BY <2>1, <2>2, <2>3, ZenonT(30) DEF Inside, Owned
<1>. QED BY <1>6, <1>7, <1>8, <1>10, <1>11, ZenonT(30) DEF PageInv

\* A slot is freed and nothing of the space of w is given back or left.
LEMMA GoneIs ==
    /\ Gone \in ProcType /\ Gone.as = NoSpace /\ Gone.state = "unused"
    /\ \A w, s : Replacement(w, s, Gone, {}, {})
<1>1. Gone \in ProcType /\ Gone.as = NoSpace /\ Gone.state = "unused"
  BY NoSpacePages DEF Gone, ProcType
<1>2. PagesOf(Gone.as) = {}
  BY <1>1, NoSpacePages
<1>. QED BY <1>1, <1>2, Zenon DEF Replacement

\* A process ends, wherever it is, whatever it was in the middle of.
LEMMA ExitIs ==
    ASSUME PageInv, NEW q, NEW p \in Procs, Exit(q, p)
    PROVE  p \in Workers /\ Replaced(p, p, Gone, NoView, {}, {})
<1>1. /\ procs' = [procs EXCEPT ![p] = Gone] /\ view' = [view EXCEPT ![p] = NoView]
      /\ work' = [work EXCEPT ![p] = NoCall] /\ leaked' = leaked \cup HeldPages(p)
      /\ used' = used /\ heap_end' = heap_end /\ data' = data
  BY DEF Exit, Replace, heap
<1>2. work' = [work EXCEPT ![p] = NoCall, ![p] = NoCall]
  BY <1>1, Zenon DEF PageInv, Types
<1>3. used \ {} = used /\ leaked \cup {} \cup HeldPages(p) = leaked \cup HeldPages(p)
  OBVIOUS
<1>. QED BY <1>1, <1>2, <1>3, Zenon DEF Replaced, Workers

LEMMA ExitPages ==
    ASSUME PageInv, NEW q, NEW p \in Procs, Exit(q, p)
    PROVE  PageInv'
BY ExitIs, GoneIs, ReplacePages, ZenonT(60)

\* A fork gives up.
LEMMA ForkUndone ==
    ASSUME PageInv, NEW w \in Workers, work[w].pc \in Mapping, work[w].op = "fork",
           GiveUp(w), heap_end' = heap_end
    PROVE  LET as == work[w].as
               back == fork_free_address_space(as)
           IN  /\ work[w].slot \in Procs \ {w}
               /\ Replaced(w, work[w].slot, Gone, NoView, back, Tables(as))
               /\ Replacement(w, work[w].slot, Gone, back, Tables(as))
               /\ back \cup Tables(as) = PagesOf(as)
<1>. DEFINE c == work[w]
            back == fork_free_address_space(c.as)
            left == Tables(c.as)
<1>1. c.slot \in Procs \ {w}
  BY DEF PageInv, CallsSound, Claims
<1>2. Replaced(w, c.slot, Gone, NoView, back, left)
  <2>1. /\ procs' = [procs EXCEPT ![c.slot] = Gone] /\ view' = [view EXCEPT ![c.slot] = NoView]
        /\ work' = [work EXCEPT ![w] = NoCall, ![c.slot] = NoCall]
        /\ used' = used \ back /\ leaked' = leaked \cup left \cup HeldPages(c.slot)
        /\ data' = data
    BY ZenonT(30) DEF GiveUp, Replace
  <2>. QED BY <2>1, Zenon DEF Replaced
<1>3. NoSharing(c.as)
  BY DEF PageInv, SpacesSound
<1>4. back \cup left = PagesOf(c.as) /\ back \cap left = {}
  <2>1. /\ c.as.dir # 0 /\ c.as.dir \notin Tables(c.as) /\ DataPages(c.as) \cap Tables(c.as) = {}
    BY <1>3 DEF NoSharing
  <2>. QED BY <2>1, Zenon DEF fork_free_address_space, PagesOf
<1>. HIDE DEF back, left
<1>5. Replacement(w, c.slot, Gone, back, left)
  <2>1. PagesOf(Gone.as) = {}
    BY GoneIs, NoSpacePages
  <2>. QED BY <1>1, <1>4, <2>1, GoneIs, ZenonT(30) DEF Replacement
<1>. QED BY <1>1, <1>2, <1>4, <1>5, Zenon DEF back, left

\* An exec gives up, and all of its space is left.
ExecUndone(w) ==
    /\ work' = [work EXCEPT ![w] = NoCall] /\ leaked' = leaked \cup PagesOf(work[w].as)
    /\ used' = used /\ heap_end' = heap_end /\ data' = data /\ procs' = procs /\ view' = view

LEMMA GiveUpIs ==
    ASSUME NEW w \in Workers, work[w].op # "fork", GiveUp(w), heap_end' = heap_end
    PROVE  ExecUndone(w)
BY ZenonT(30) DEF GiveUp, ExecUndone

LEMMA GiveUpPages ==
    ASSUME PageInv, NEW w \in Workers, work[w].pc \in Mapping, GiveUp(w), heap_end' = heap_end
    PROVE  PageInv'
<1>1. CASE work[w].op = "fork"
  BY <1>1, ForkUndone, ReplacePages, ZenonT(60)
<1>2. CASE work[w].op # "fork"
  <2>. DEFINE mine == PagesOf(work[w].as)
  <2>0. /\ Types /\ SpacesSound /\ CallsSound /\ Apart /\ Inside
        /\ work' = [work EXCEPT ![w] = NoCall] /\ leaked' = leaked \cup mine
        /\ used' = used /\ procs' = procs
    BY <1>2, GiveUpIs, Zenon DEF PageInv, ExecUndone
  <2>1. /\ work'[w] = NoCall /\ \A x \in Workers : x # w => work'[x] = work[x]
        /\ work' = [x \in Workers |-> work'[x]]
        /\ \A x \in Workers : work'[x] \in CallType(work'[x])
    BY <2>0, NoCallIs, WorkIs, Zenon
  <2>2. /\ PagesOf(work'[w].as) = {} /\ HeapRange' = HeapRange /\ mine \subseteq Owned
        /\ \A p \in Procs : PagesOf(procs[p].as) \cap mine = {}
        /\ \A x \in Workers : x # w => PagesOf(work[x].as) \cap mine = {}
    <3>1. PagesOf(work'[w].as) = {}
      BY <2>1, NoCallIs, NoSpacePages, Zenon
    <3>. QED BY <2>0, <3>1, Zenon DEF Apart, Inside, HeapRange
  <2>. HIDE DEF mine
  <2>3. Types'
    BY <2>0, <2>1, Zenon DEF Types
  <2>4. SpacesSound'
    BY <2>0, <2>1, NoCallIs, ZenonT(60) DEF SpacesSound
  <2>5. CallsSound'
    BY <2>0, <2>1, NoCallIs, SMTT(30) DEF CallsSound, Claims
  <2>6. Apart'
    <3>1. /\ {} \cap used = {} /\ PagesOf(work'[w].as) \subseteq PagesOf(work[w].as) \cup {}
          /\ \A q \in Procs : PagesOf(procs'[q].as) \subseteq PagesOf(procs[q].as)
          /\ \A x \in Workers : x # w => PagesOf(work'[x].as) \subseteq PagesOf(work[x].as)
      BY <2>0, <2>1, <2>2, ZenonT(30)
    <3>. QED BY <2>0, <3>1, StillApart, ZenonT(30)
  <2>7. Inside'
    <3>1. HeapRange' \subseteq used' \ leaked' /\ leaked' \subseteq used'
      BY <2>0, <2>2, ZenonT(30) DEF Inside, Owned
    <3>2. ASSUME NEW q \in Procs PROVE PagesOf(procs'[q].as) \subseteq used' \ (HeapRange' \cup leaked')
      BY <2>0, <2>2, ZenonT(30) DEF Inside, Owned
    <3>3. ASSUME NEW x \in Workers PROVE PagesOf(work'[x].as) \subseteq used' \ (HeapRange' \cup leaked')
      <4>1. CASE x = w
        BY <2>2, <4>1, ZenonT(30)
      <4>2. CASE x # w
        BY <2>0, <2>1, <2>2, <4>2, ZenonT(30) DEF Inside, Owned
      <4>. QED BY <4>1, <4>2
    <3>. QED BY <3>1, <3>2, <3>3, ZenonT(30) DEF Inside, Owned
  <2>. QED BY <2>3, <2>4, <2>5, <2>6, <2>7, ZenonT(30) DEF PageInv
<1>. QED BY <1>1, <1>2

\* A call gets on with its space: it may take pages that were free.
LEMMA BuildStep ==
    ASSUME PageInv, NEW new, new \subseteq Pages, new \cap used = {}, used' = used \cup new,
           heap_end' = heap_end, procs' = procs, leaked' = leaked,
           NEW w \in Workers, NEW c, c \in CallType(c), work' = [work EXCEPT ![w] = c],
           c.op = work[w].op, c.slot = work[w].slot, c.pc \in {"map", "stack"}, work[w].pc # "idle",
           c.op = "fork" => c.pc = "map",
           NoSharing(c.as), PagesOf(c.as) \subseteq PagesOf(work[w].as) \cup new
    PROVE  PageInv'
<1>0. Types /\ SpacesSound /\ CallsSound /\ Apart /\ Inside
  BY DEF PageInv
<1>1. /\ work'[w] = c /\ \A x \in Workers : x # w => work'[x] = work[x]
      /\ work' = [x \in Workers |-> work'[x]]
      /\ \A x \in Workers : work'[x] \in CallType(work'[x])
  BY <1>0, WorkIs, Zenon
<1>2. Types'
  BY <1>0, <1>1, Zenon DEF Types
<1>3. SpacesSound'
  <2>1. c.pc \in Mapping
    BY DEF Mapping
  <2>. QED BY <1>0, <1>1, <2>1, ZenonT(60) DEF SpacesSound
<1>4. CallsSound'
  <2>1. Claims(c) => Claims(work[w])
    BY DEF Claims
  <2>. QED BY <1>0, <1>1, <2>1, SMTT(30) DEF CallsSound
<1>5. Apart'
  BY <1>0, <1>1, StillApart, ZenonT(60)
<1>6. HeapRange' = HeapRange
  BY Zenon DEF HeapRange
<1>7. Inside'
  <2>1. HeapRange' \subseteq used' \ leaked' /\ leaked' \subseteq used'
    BY <1>0, <1>6, Zenon DEF Inside
  <2>2. \A q \in Procs : PagesOf(procs'[q].as) \subseteq used' \ (HeapRange' \cup leaked')
    BY <1>0, <1>6, Zenon DEF Inside, Owned
  <2>3. new \cap (HeapRange' \cup leaked') = {}
    BY <1>0, <1>6, Zenon DEF Inside
  <2>4. ASSUME NEW x \in Workers PROVE PagesOf(work'[x].as) \subseteq used' \ (HeapRange' \cup leaked')
    <3>1. PagesOf(work[x].as) \subseteq Owned
      BY <1>0, Zenon DEF Inside
    <3>2. PagesOf(work'[x].as) \subseteq PagesOf(work[x].as) \cup new
      BY <1>1
    <3>. QED BY <1>6, <2>3, <3>1, <3>2, Zenon DEF Owned
  <2>. QED BY <2>1, <2>2, <2>4, Zenon DEF Inside, Owned
<1>. QED BY <1>2, <1>3, <1>4, <1>5, <1>7, ZenonT(30) DEF PageInv

\* A call with one field changed.
Same(d, c, fs) == \A f \in {"op", "pc", "as", "todo", "buf", "len", "prog", "slot", "see"} \ fs : d[f] = c[f]

LEMMA WithSpace ==
    ASSUME NEW c, c \in CallType(c), NEW as \in SpaceType
    PROVE  LET d == [c EXCEPT !.as = as]
           IN  d \in CallType(d) /\ d.as = as /\ Same(d, c, {"as"})
BY ZenonT(60) DEF CallType, Same

LEMMA WithPc ==
    ASSUME NEW c, c \in CallType(c), NEW pc \in {"dir"} \cup Mapping
    PROVE  LET d == [c EXCEPT !.pc = pc]
           IN  d \in CallType(d) /\ d.pc = pc /\ Same(d, c, {"pc"})
BY DEF CallType, Same

LEMMA WithSlot ==
    ASSUME NEW c, c \in CallType(c), NEW s \in Procs
    PROVE  LET d == [c EXCEPT !.slot = s]
           IN  d \in CallType(d) /\ d.slot = s /\ Same(d, c, {"slot"})
BY ZenonT(60) DEF CallType, Same

LEMMA WithTodo ==
    ASSUME NEW c, c \in CallType(c), NEW todo \in Seq(Virt)
    PROVE  LET d == [c EXCEPT !.todo = todo]
           IN  d \in CallType(d) /\ d.todo = todo /\ Same(d, c, {"todo"})
BY ZenonT(60) DEF CallType, Same

LEMMA WithBuf ==
    ASSUME NEW c, c \in CallType(c), NEW buf
    PROVE  LET d == [c EXCEPT !.buf = buf]
           IN  d \in CallType(d) /\ d.buf = buf /\ Same(d, c, {"buf"})
BY DEF CallType, Same

LEMMA WithSee ==
    ASSUME NEW c, c \in CallType(c), NEW see, see = [v \in Virt |-> see[v]]
    PROVE  LET d == [c EXCEPT !.see = see]
           IN  d \in CallType(d) /\ d.see = see /\ Same(d, c, {"see"})
BY DEF CallType, Same

\* A space that is only a directory.
LEMMA DirectoryIs ==
    ASSUME NEW dir \in Nat \ {0}
    PROVE  LET as == [NoSpace EXCEPT !.dir = dir]
           IN  as \in SpaceType /\ NoSharing(as) /\ PagesOf(as) = {dir}
<1>. DEFINE as == [NoSpace EXCEPT !.dir = dir]
<1>1. /\ as \in SpaceType /\ as.dir = dir
      /\ \A x \in Virt : as.map[x] = 0
      /\ \A e \in Pdes : as.pt[e] = 0
  BY DEF NoSpace, SpaceType
<1>. HIDE DEF as
<1>2. NoSharing(as)
  BY <1>1, NoSharingIs, Zenon
<1>3. PagesOf(as) = {dir}
  BY <1>1, Zenon DEF PagesOf, DataPages, Tables
<1>. QED BY <1>1, <1>2, <1>3 DEF as

\* A fork finds no page for the directory.
LEMMA DirectoryUndone ==
    ASSUME PageInv, NEW w \in Workers, CreateDirectory(w), pmm_alloc_page(used) = 0, work[w].op = "fork"
    PROVE  work[w].slot \in Procs \ {w} /\ Replaced(w, work[w].slot, Gone, NoView, {}, {})
<1>1. work[w].slot \in Procs \ {w}
  BY DEF PageInv, CallsSound, Claims
<1>. DEFINE s == work[w].slot
<1>2. /\ procs' = [procs EXCEPT ![s] = Gone] /\ view' = [view EXCEPT ![s] = NoView]
      /\ work' = [work EXCEPT ![w] = NoCall, ![s] = NoCall] /\ leaked' = leaked \cup HeldPages(s)
      /\ used' = used /\ heap_end' = heap_end /\ data' = data
  BY ZenonT(30) DEF CreateDirectory, Replace, heap
<1>3. used \ {} = used /\ leaked \cup {} \cup HeldPages(s) = leaked \cup HeldPages(s)
  OBVIOUS
<1>. QED BY <1>1, <1>2, <1>3, Zenon DEF Replaced

LEMMA CreateDirectoryPages ==
    ASSUME PageInv, NEW w \in Workers, CreateDirectory(w)
    PROVE  PageInv'
<1>. DEFINE c == work[w]
            dir == pmm_alloc_page(used)
<1>0. /\ c.pc = "dir" /\ heap_end' = heap_end
      /\ Types /\ SpacesSound /\ CallsSound /\ Apart /\ Inside
      /\ c \in CallType(c) /\ c.as = NoSpace
  <2>1. c.pc = "dir" /\ heap_end' = heap_end
    BY DEF CreateDirectory, heap
  <2>. QED BY <2>1, Zenon DEF PageInv, Types, SpacesSound, Mapping
<1>1. ASSUME dir # 0, used' = used \cup {dir}, procs' = procs, leaked' = leaked,
             work' = [work EXCEPT ![w].as = [NoSpace EXCEPT !.dir = dir], ![w].pc = "map",
                           ![w].todo = IF c.op = "fork" THEN <<>> ELSE Segments(c.prog)]
      PROVE  PageInv'
  <2>. DEFINE as == [NoSpace EXCEPT !.dir = dir]
              todo == IF c.op = "fork" THEN <<>> ELSE Segments(c.prog)
              d == [[[c EXCEPT !.as = as] EXCEPT !.pc = "map"] EXCEPT !.todo = todo]
  <2>1. dir \in Pages \ used /\ dir \in Nat \ {0}
    BY <1>1, AllocIs, Sizes, ZenonT(30) DEF Pages
  <2>2. as \in SpaceType /\ NoSharing(as) /\ PagesOf(as) = {dir}
    BY <2>1, DirectoryIs, ZenonT(60)
  <2>3. todo \in Seq(Virt)
    BY <1>0, MemoryAssumption DEF Segments, CallType
  <2>4. work' = [work EXCEPT ![w] = d]
    BY <1>0, <1>1, Zenon DEF Types
  <2>. HIDE DEF as, todo, dir
  <2>5. /\ d \in CallType(d) /\ d.as = as /\ d.pc = "map" /\ d.op = c.op /\ d.slot = c.slot
    <3>. DEFINE d1 == [c EXCEPT !.as = as]  d2 == [d1 EXCEPT !.pc = "map"]
    <3>1. d1 \in CallType(d1) /\ d1.as = as /\ Same(d1, c, {"as"})
      BY <1>0, <2>2, WithSpace, Zenon
    <3>. HIDE DEF d1
    <3>2. d2 \in CallType(d2) /\ d2.pc = "map" /\ Same(d2, d1, {"pc"})
      BY <3>1, WithPc, Zenon DEF Mapping
    <3>. HIDE DEF d2
    <3>3. d \in CallType(d) /\ Same(d, d2, {"todo"})
      BY <2>3, <3>2, WithTodo, Zenon DEF d1, d2
    <3>. QED BY <3>1, <3>2, <3>3, ZenonT(30) DEF Same
  <2>. HIDE DEF d
  <2>6. /\ {dir} \subseteq Pages /\ {dir} \cap used = {} /\ d.pc \in {"map", "stack"}
        /\ NoSharing(d.as) /\ PagesOf(d.as) \subseteq PagesOf(work[w].as) \cup {dir}
    BY <2>1, <2>2, <2>5, Zenon DEF Mapping
  <2>. QED BY <1>0, <1>1, <2>4, <2>5, <2>6, BuildStep, Zenon
<1>2. ASSUME work' = [work EXCEPT ![w] = NoCall], used' = used, procs' = procs, leaked' = leaked
      PROVE  PageInv'
  <2>1. c.pc \notin Mapping
    BY <1>0 DEF Mapping
  <2>. QED BY <1>0, <1>2, <2>1, EndPages, Zenon
<1>3. CASE dir = 0 /\ c.op = "fork"
  BY <1>3, DirectoryUndone, GoneIs, ReplacePages, ZenonT(60)
<1>. QED BY <1>1, <1>2, <1>3, Zenon DEF CreateDirectory

\* The page that is mapped next is one of the program's or the parent's.
LEMMA NextIs ==
    ASSUME PageInv, NEW w \in Workers, ~AllMapped(w)
    PROVE  /\ NextPage(w) \in Virt
           /\ work[w].op = "fork" => NextPage(w) \in Uncopied(w)
           /\ work[w].op # "fork" => Tail(work[w].todo) \in Seq(Virt)
<1>1. CASE work[w].op = "fork"
  <2>1. Uncopied(w) \subseteq Virt /\ Uncopied(w) # {} /\ Uncopied(w) \in SUBSET Nat
    BY <1>1, MemoryAssumption, Zenon DEF AllMapped, Uncopied
  <2>2. Min(Uncopied(w)) \in Uncopied(w)
    <3>. DEFINE U == Uncopied(w)
    <3>1. U \in SUBSET Nat /\ U # {}
      BY <2>1
    <3>. HIDE DEF U
    <3>2. Min(U) \in U
      BY <3>1, MinIs, Zenon
    <3>. QED BY <3>2 DEF U
  <2>. QED BY <1>1, <2>1, <2>2 DEF NextPage
<1>2. CASE work[w].op # "fork"
  <2>1. work[w].todo \in Seq(Virt) /\ work[w].todo # <<>>
    BY <1>2 DEF AllMapped, PageInv, Types, CallType
  <2>2. Head(work[w].todo) \in Virt /\ Tail(work[w].todo) \in Seq(Virt)
    BY <2>1
  <2>. QED BY <1>2, <2>2, Zenon DEF NextPage
<1>. QED BY <1>1, <1>2, Zenon

\* A page that MapPage maps.
Mapped(w) ==
    LET c == work[w]
        d == work'[w]
        v == NextPage(w)
        phys == pmm_alloc_page(used)
        m == vmm_map_user_page(used \cup {phys}, c.as, v, phys)
    IN  /\ phys \in Pages \ used /\ v \in Virt /\ m.ok
        /\ used' = m.used /\ d.as = m.as
        /\ work' = [work EXCEPT ![w] = d] /\ d \in CallType(d)
        /\ d.see = [c.see EXCEPT ![v] = IF c.op = "fork" THEN view[w][v] ELSE Fill(w, v, phys)]
        /\ d.op = c.op /\ d.pc = c.pc /\ d.slot = c.slot
        /\ d.todo = IF c.op = "fork" THEN c.todo ELSE Tail(c.todo)
        /\ data' = [data EXCEPT ![phys] = Fill(w, v, phys)]
        /\ procs' = procs /\ leaked' = leaked /\ heap_end' = heap_end /\ view' = view

LEMMA MapPageIs ==
    ASSUME PageInv, NEW w \in Workers, MapPage(w)
    PROVE  /\ work[w].pc \in {"map", "stack"} /\ work[w].pc \in Mapping
           /\ Mapped(w) \/ (GiveUp(w) /\ heap_end' = heap_end)
<1>. DEFINE c == work[w]
            v == NextPage(w)
            phys == pmm_alloc_page(used)
            m == vmm_map_user_page(used \cup {phys}, c.as, v, phys)
            must == IF c.op = "fork" THEN view[w][v] ELSE Fill(w, v, phys)
<1>0. /\ c.pc \in Mapping /\ heap_end' = heap_end /\ ~AllMapped(w)
      /\ c \in CallType(c) /\ NoSharing(c.as) /\ c.as \in SpaceType
  <2>1. c.pc \in Mapping /\ heap_end' = heap_end /\ ~AllMapped(w)
    BY DEF MapPage, Mapping
  <2>. QED BY <2>1, Zenon DEF PageInv, Types, SpacesSound, CallType
<1>1. ASSUME phys # 0, m.ok, used' = m.used, data' = [data EXCEPT ![phys] = Fill(w, v, phys)],
             work' = [work EXCEPT ![w].as = m.as, ![w].see[v] = must,
                                   ![w].todo = IF c.op = "fork" THEN @ ELSE Tail(@)],
             UNCHANGED <<procs, blocks, leaked, lost, view>>
      PROVE  Mapped(w)
  <2>. DEFINE todo == IF c.op = "fork" THEN c.todo ELSE Tail(c.todo)
              see == [c.see EXCEPT ![v] = must]
              as == m.as
              d1 == [c EXCEPT !.as = as]
              d2 == [d1 EXCEPT !.see = see]
              d == [d2 EXCEPT !.todo = todo]
  <2>1. phys \in Pages \ used /\ v \in Virt
    BY <1>0, <1>1, NextIs, AllocIs, ZenonT(40)
  <2>2. todo \in Seq(Virt)
    BY <1>0, NextIs, Zenon DEF CallType
  <2>3. PagesOf(c.as) \subseteq used /\ 0 \in used
    BY DEF PageInv, Inside, Owned, Types
  <2>4. as \in SpaceType
    <3>. DEFINE f == phys  sp == c.as  x == v
    <3>1. /\ sp \in SpaceType /\ NoSharing(sp) /\ PagesOf(sp) \subseteq used /\ 0 \in used
          /\ x \in Virt /\ f \in Pages \ used /\ vmm_map_user_page(used \cup {f}, sp, x, f).ok
      BY <1>0, <1>1, <2>1, <2>3, ZenonT(30)
    <3>. HIDE DEF f, sp, x
    <3>2. vmm_map_user_page(used \cup {f}, sp, x, f).as \in SpaceType
      BY <3>1, MapIs, ZenonT(30)
    <3>. QED BY <3>2, Zenon DEF f, sp, x
  <2>5. c.see = [y \in Virt |-> c.see[y]]
    BY <1>0, Zenon DEF CallType
  <2>6. see = [y \in Virt |-> see[y]]
    BY <2>5
  <2>7. work = [x \in Workers |-> work[x]]
    BY DEF PageInv, Types
  <2>8. work' = [work EXCEPT ![w] = d]
    <3>. HIDE DEF m, phys, v, must
    <3>. QED BY <1>0, <1>1, <2>7, Zenon DEF CallType
  <2>. HIDE DEF as, see, todo
  <2>9. d1 \in CallType(d1) /\ d1.as = as /\ Same(d1, c, {"as"})
    BY <1>0, <2>4, WithSpace, Zenon
  <2>. HIDE DEF d1
  <2>10. d2 \in CallType(d2) /\ d2.see = see /\ Same(d2, d1, {"see"})
    BY <2>6, <2>9, WithSee
  <2>. HIDE DEF d2
  <2>11. d \in CallType(d) /\ d.todo = todo /\ Same(d, d2, {"todo"})
    BY <2>2, <2>10, WithTodo
  <2>. HIDE DEF d
  <2>12. /\ d.as = as /\ d.see = see /\ d.op = c.op /\ d.pc = c.pc /\ d.slot = c.slot
    BY <2>9, <2>10, <2>11, Zenon DEF Same
  <2>13. work'[w] = d
    BY <2>7, <2>8
  <2>. QED BY <1>0, <1>1, <2>1, <2>8, <2>11, <2>12, <2>13, ZenonT(60) DEF Mapped, as, see, todo
<1>2. Mapped(w) \/ GiveUp(w)
  BY <1>1, Zenon DEF MapPage
<1>3. c.pc \in {"map", "stack"}
  BY Zenon DEF MapPage
<1>. QED BY <1>0, <1>2, <1>3, Zenon

LEMMA MapPagePages ==
    ASSUME PageInv, NEW w \in Workers, MapPage(w)
    PROVE  PageInv'
<1>1. CASE GiveUp(w) /\ heap_end' = heap_end
  BY <1>1, MapPageIs, GiveUpPages
<1>2. CASE Mapped(w)
  <2>. DEFINE as == work[w].as
              v == NextPage(w)
              phys == pmm_alloc_page(used)
              m == vmm_map_user_page(used \cup {phys}, as, v, phys)
              d == work'[w]
              new == m.used \ used
  <2>1. /\ phys \in Pages \ used /\ v \in Virt /\ m.ok
        /\ used' = m.used /\ d.as = m.as
        /\ work' = [work EXCEPT ![w] = d] /\ d \in CallType(d)
        /\ d.op = work[w].op /\ d.pc = work[w].pc /\ d.slot = work[w].slot
        /\ procs' = procs /\ leaked' = leaked /\ heap_end' = heap_end
    BY <1>2, Zenon DEF Mapped
  <2>2. /\ as \in SpaceType /\ NoSharing(as) /\ PagesOf(as) \subseteq used /\ 0 \in used
        /\ work[w].pc \in Mapping /\ (work[w].op = "fork" => work[w].pc = "map")
        /\ used \subseteq Pages
    <3>1. work[w].pc \in Mapping
      BY MapPageIs
    <3>. QED BY <3>1 DEF PageInv, Types, CallType, SpacesSound, CallsSound, Inside, Owned, Mapping
  <2>. HIDE DEF as, v, phys
  <2>3. /\ NoSharing(m.as) /\ used \subseteq m.used /\ m.used \subseteq used \cup Pages
        /\ PagesOf(m.as) \subseteq PagesOf(as) \cup (m.used \ used)
    <3>1. NoSharing(m.as)
      BY <2>1, <2>2, MapIs, ZenonT(30)
    <3>2. used \subseteq m.used /\ m.used \subseteq used \cup Pages
      BY <2>1, <2>2, MapIs, ZenonT(60)
    <3>3. PagesOf(m.as) \subseteq PagesOf(as) \cup (m.used \ used)
      BY <2>1, <2>2, MapIs, ZenonT(60)
    <3>. QED BY <3>1, <3>2, <3>3, Zenon
  <2>. HIDE DEF m, d
  <2>4. /\ new \subseteq Pages /\ new \cap used = {} /\ used' = used \cup new
    BY <2>1, <2>2, <2>3, ZenonT(30)
  <2>5. NoSharing(d.as) /\ PagesOf(d.as) \subseteq PagesOf(work[w].as) \cup new
    BY <2>1, <2>3, Zenon DEF as
  <2>6. work[w].pc # "idle" /\ d.pc \in {"map", "stack"} /\ (d.op = "fork" => d.pc = "map")
    BY <2>1, <2>2, MapPageIs, Zenon DEF Mapping
  <2>. HIDE DEF new
  <2>. QED BY <2>1, <2>4, <2>5, <2>6, BuildStep, ZenonT(40)
<1>. QED BY <1>1, <1>2, MapPageIs, ZenonT(30)

\* elf_load has returned and the stack comes next.
LoadedOk(w) ==
    LET c == work[w]
        d == work'[w]
    IN  /\ work' = [work EXCEPT ![w] = d] /\ d \in CallType(d)
        /\ d.pc = "stack" /\ d.todo = Stack
        /\ d.op = c.op /\ d.slot = c.slot /\ d.as = c.as /\ d.see = c.see
        /\ used' = used /\ data' = data /\ procs' = procs /\ leaked' = leaked /\ view' = view

LEMMA LoadedIs ==
    ASSUME PageInv, NEW w \in Workers, Loaded(w)
    PROVE  /\ work[w].pc = "map" /\ work[w].op = "exec" /\ heap_end' = heap_end
           /\ LoadedOk(w) \/ GiveUp(w)
<1>. DEFINE c == work[w]
            d1 == [c EXCEPT !.buf = 0]
            d2 == [d1 EXCEPT !.pc = "stack"]
            d == [d2 EXCEPT !.todo = Stack]
<1>0. /\ c.pc = "map" /\ c.op = "exec" /\ heap_end' = heap_end
      /\ c \in CallType(c) /\ Stack \in Seq(Virt) /\ work = [x \in Workers |-> work[x]]
  BY MemoryAssumption DEF Loaded, PageInv, Types
<1>1. d1 \in CallType(d1) /\ Same(d1, c, {"buf"})
  BY <1>0, WithBuf, Zenon
<1>. HIDE DEF d1
<1>2. d2 \in CallType(d2) /\ d2.pc = "stack" /\ Same(d2, d1, {"pc"})
  BY <1>1, WithPc, Zenon DEF Mapping
<1>. HIDE DEF d2
<1>3. d \in CallType(d) /\ d.todo = Stack /\ Same(d, d2, {"todo"})
  BY <1>0, <1>2, WithTodo, Zenon
<1>. HIDE DEF d
<1>4. d.pc = "stack" /\ d.op = c.op /\ d.slot = c.slot /\ d.as = c.as /\ d.see = c.see
  BY <1>1, <1>2, <1>3, ZenonT(30) DEF Same
<1>5. ASSUME work' = [work EXCEPT ![w].buf = 0, ![w].pc = "stack", ![w].todo = Stack],
             UNCHANGED <<used, data, procs, leaked, lost, view>>
      PROVE  LoadedOk(w)
  <2>1. work' = [work EXCEPT ![w] = d]
    BY <1>0, <1>5, Zenon DEF d, d1, d2
  <2>2. work'[w] = d
    BY <1>0, <2>1
  <2>. QED BY <1>3, <1>4, <1>5, <2>1, <2>2, Zenon DEF LoadedOk
<1>6. LoadedOk(w) \/ GiveUp(w)
  BY <1>5, Zenon DEF Loaded
<1>. QED BY <1>0, <1>6, Zenon

LEMMA LoadedPages ==
    ASSUME PageInv, NEW w \in Workers, Loaded(w)
    PROVE  PageInv'
<1>0. /\ work[w].pc = "map" /\ work[w].op = "exec" /\ heap_end' = heap_end
      /\ work[w].pc \in Mapping
  BY LoadedIs, Zenon DEF Mapping
<1>1. CASE GiveUp(w)
  BY <1>0, <1>1, GiveUpPages
<1>2. CASE LoadedOk(w)
  <2>. DEFINE d == work'[w]
  <2>1. /\ d \in CallType(d) /\ work' = [work EXCEPT ![w] = d]
        /\ d.op = work[w].op /\ d.slot = work[w].slot /\ d.pc \in {"map", "stack"} /\ work[w].pc # "idle"
        /\ d.op # "fork" /\ used' = used \cup {} /\ procs' = procs /\ leaked' = leaked
        /\ d.as = work[w].as
    BY <1>0, <1>2, Zenon DEF LoadedOk, Mapping
  <2>2. NoSharing(d.as) /\ PagesOf(d.as) \subseteq PagesOf(work[w].as) \cup {}
    BY <1>0, <2>1 DEF PageInv, SpacesSound
  <2>3. {} \subseteq Pages /\ {} \cap used = {}
    OBVIOUS
  <2>. HIDE DEF d
  <2>. QED BY <1>0, <2>1, <2>2, <2>3, BuildStep, ZenonT(40)
<1>. QED BY <1>1, <1>2, LoadedIs, Zenon

\* process_spawn_user has claimed slot s.
Claimed(w, s) ==
    LET c == work[w]
        d == work'[w]
    IN  /\ procs[s].state = "unused" /\ procs' = [procs EXCEPT ![s].state = "claimed"]
        /\ work' = [work EXCEPT ![w] = d] /\ d \in CallType(d)
        /\ d.pc = "publish" /\ d.slot = s
        /\ d.op = c.op /\ d.as = c.as /\ d.see = c.see /\ d.todo = c.todo
        /\ used' = used /\ data' = data /\ leaked' = leaked /\ view' = view

LEMMA ClaimIs ==
    ASSUME PageInv, NEW w \in Workers, Claim(w)
    PROVE  /\ work[w].pc = "stack" /\ work[w].pc \in Mapping /\ work[w].op # "fork"
           /\ heap_end' = heap_end
           /\ (\E s \in Procs : Claimed(w, s)) \/ GiveUp(w)
<1>. DEFINE c == work[w]
            free == {x \in Procs : procs[x].state = "unused"}
            s == Min(free)
            d1 == [c EXCEPT !.pc = "publish"]
            d == [d1 EXCEPT !.slot = s]
<1>0. /\ c.pc = "stack" /\ heap_end' = heap_end
      /\ c \in CallType(c) /\ work = [x \in Workers |-> work[x]]
  BY DEF Claim, PageInv, Types
<1>1. c.pc \in Mapping /\ c.op # "fork"
  BY <1>0 DEF PageInv, CallsSound, Mapping
<1>2. ASSUME free # {}, procs' = [procs EXCEPT ![s].state = "claimed"],
             work' = [work EXCEPT ![w].pc = "publish", ![w].slot = s],
             UNCHANGED <<used, data, blocks, leaked, lost, view>>
      PROVE  \E x \in Procs : Claimed(w, x)
  <2>1. s \in Procs /\ procs[s].state = "unused"
    BY <1>2, FreeSlot, Zenon
  <2>2. work' = [work EXCEPT ![w] = d]
    BY <1>0, <1>2, Zenon
  <2>. HIDE DEF s
  <2>3. d1 \in CallType(d1) /\ d1.pc = "publish" /\ Same(d1, c, {"pc"})
    BY <1>0, WithPc, Zenon DEF Mapping
  <2>. HIDE DEF d1
  <2>4. d \in CallType(d) /\ d.slot = s /\ Same(d, d1, {"slot"})
    BY <2>1, <2>3, WithSlot, Zenon
  <2>. HIDE DEF d
  <2>5. d.pc = "publish" /\ d.op = c.op /\ d.as = c.as /\ d.see = c.see /\ d.todo = c.todo
    BY <2>3, <2>4, ZenonT(30) DEF Same
  <2>6. work'[w] = d
    BY <1>0, <2>2
  <2>7. Claimed(w, s)
    BY <1>2, <2>1, <2>2, <2>4, <2>5, <2>6, ZenonT(30) DEF Claimed
  <2>. QED BY <2>1, <2>7
<1>3. (\E x \in Procs : Claimed(w, x)) \/ GiveUp(w)
  <2>. HIDE DEF s
  <2>. QED BY <1>2, Zenon DEF Claim, s
<1>. QED BY <1>0, <1>1, <1>3, Zenon

LEMMA ClaimPages ==
    ASSUME PageInv, NEW w \in Workers, Claim(w)
    PROVE  PageInv'
<1>0. /\ work[w].pc = "stack" /\ work[w].pc \in Mapping /\ work[w].op # "fork" /\ heap_end' = heap_end
  BY ClaimIs, Zenon
<1>1. CASE GiveUp(w)
  BY <1>0, <1>1, GiveUpPages
<1>2. ASSUME NEW s \in Procs, Claimed(w, s) PROVE PageInv'
  <2>. DEFINE d == work'[w]
  <2>1. /\ procs[s].state = "unused" /\ procs' = [procs EXCEPT ![s].state = "claimed"]
        /\ work' = [work EXCEPT ![w] = d] /\ d \in CallType(d)
        /\ d.slot = s /\ d.op # "fork" /\ d.as = work[w].as
        /\ used' = used /\ leaked' = leaked
    BY <1>0, <1>2, Zenon DEF Claimed
  <2>2. d.pc \in Mapping
    BY <1>2 DEF Claimed, Mapping
  <2>3. w \in Procs => procs[w].state = "live"
    BY <1>0 DEF PageInv, CallsSound
  <2>. HIDE DEF d
  <2>. QED BY <1>0, <2>1, <2>2, <2>3, ClaimStep, ZenonT(60)
<1>. QED BY <1>1, <1>2, ClaimIs, Zenon

\* The space of a call becomes that of the process in the slot it had claimed.
LEMMA PublishIs ==
    ASSUME PageInv, NEW w \in Workers, Publish(w)
    PROVE  LET P == [state |-> "live", as |-> work[w].as]
           IN  /\ work[w].slot \in Procs \ {w} /\ work[w].pc \in Mapping
               /\ P \in ProcType /\ P.state = "live" /\ P.as = work[w].as
               /\ Replaced(w, work[w].slot, P, work[w].see, {}, {})
               /\ Replacement(w, work[w].slot, P, {}, {})
<1>. DEFINE c == work[w]
            P == [state |-> "live", as |-> c.as]
            s == c.slot
<1>1. c.slot \in Procs \ {w} /\ c.pc \in Mapping
  BY DEF Publish, PageInv, CallsSound, Claims, Mapping
<1>2. NoSharing(c.as) /\ c.as \in SpaceType
  BY <1>1, Zenon DEF PageInv, SpacesSound, Types, CallType
<1>3. P \in ProcType /\ P.state = "live" /\ P.as = c.as
  BY <1>2 DEF ProcType
<1>4. Replaced(w, s, P, c.see, {}, {})
  <2>1. /\ procs' = [procs EXCEPT ![s] = P] /\ view' = [view EXCEPT ![s] = c.see]
        /\ work' = [work EXCEPT ![w] = NoCall, ![s] = NoCall] /\ leaked' = leaked \cup HeldPages(s)
        /\ used' = used /\ heap_end' = heap_end /\ data' = data
    BY ZenonT(30) DEF Publish, Replace, heap
  <2>2. used \ {} = used /\ leaked \cup {} \cup HeldPages(s) = leaked \cup HeldPages(s)
    OBVIOUS
  <2>. HIDE DEF P, s
  <2>. QED BY <2>1, <2>2, Zenon DEF Replaced
<1>. HIDE DEF P
<1>5. Replacement(w, s, P, {}, {})
  BY <1>1, <1>2, <1>3, ZenonT(30) DEF Replacement
<1>. QED BY <1>1, <1>3, <1>4, <1>5, Zenon DEF P

LEMMA PublishPages ==
    ASSUME PageInv, NEW w \in Workers, Publish(w)
    PROVE  PageInv'
BY PublishIs, ReplacePages, ZenonT(60)

LEMMA PagesInit == Init => PageInv
<1>. SUFFICES ASSUME Init PROVE PageInv
  OBVIOUS
<1>. DEFINE B == Call("none", "boot", Shell, 0, 0, 0)
<1>1. /\ used = 0 .. HeapPages /\ heap_end = 1 + HeapPages /\ procs = [p \in Procs |-> Gone]
      /\ work = [w \in Workers |-> IF w = kmain THEN B ELSE NoCall] /\ leaked = {}
  BY ZenonT(60) DEF Init
<1>2. /\ B \in CallType(B) /\ B.as = NoSpace /\ B.pc \notin Mapping /\ B.op = "none"
  BY MemoryAssumption, CallIs, SMTT(30)
<1>. HIDE DEF B
<1>3. /\ \A w \in Workers : /\ work[w] \in CallType(work[w]) /\ work[w].as = NoSpace
                            /\ work[w].pc \notin Mapping /\ work[w].op = "none"
      /\ work = [w \in Workers |-> work[w]]
  BY <1>1, <1>2, NoCallIs, ZenonT(30)
<1>4. \A p \in Procs : work[p].pc = "idle"
  <2>1. kmain \notin Procs
    BY MemoryAssumption, Zenon DEF kmain
  <2>. QED BY <1>1, <2>1, NoCallIs, ZenonT(30) DEF Workers
<1>5. /\ procs \in [Procs -> ProcType]
      /\ \A p \in Procs : procs[p].state = "unused" /\ procs[p].as = NoSpace
  BY <1>1, GoneIs, Zenon
<1>6. /\ used \subseteq Pages /\ 0 \in used /\ heap_end \in Nat \ {0} /\ HeapRange \subseteq used
  BY <1>1, Sizes DEF Pages, HeapRange
<1>7. Types /\ SpacesSound /\ CallsSound
  <2>1. CallsSound
    <3>1. \A w \in Workers : work[w].op # "fork" /\ ~Claims(work[w])
      BY <1>3 DEF Claims, Mapping
    <3>. QED BY <1>4, <3>1, Zenon DEF CallsSound
  <2>. QED BY <1>3, <1>5, <1>6, <2>1, Zenon DEF Types, SpacesSound
<1>8. Apart /\ Inside
  BY <1>1, <1>3, <1>5, <1>6, NoSpacePages, Zenon DEF Apart, Inside, Owned
<1>. QED BY <1>7, <1>8 DEF PageInv

LEMMA PagesStep == PageInv /\ [Next]_vars => PageInv'
<1>. SUFFICES ASSUME PageInv, [Next]_vars PROVE PageInv'
  OBVIOUS
<1>1. ASSUME NEW size \in FatSizes, MountFat(size) PROVE PageInv'
  BY <1>1, MountPages
<1>2. ASSUME NEW w \in Workers, CreateDirectory(w) PROVE PageInv'
  BY <1>2, CreateDirectoryPages
<1>3. ASSUME NEW w \in Workers, MapPage(w) PROVE PageInv'
  BY <1>3, MapPagePages, ZenonT(60)
<1>4. ASSUME NEW w \in Workers, Loaded(w) PROVE PageInv'
  BY <1>4, LoadedPages
<1>5. ASSUME NEW w \in Workers, Claim(w) \/ Publish(w) PROVE PageInv'
  BY <1>5, ClaimPages, PublishPages
<1>6. ASSUME NEW p \in Procs, Fork(p) PROVE PageInv'
  BY <1>6, ForkPages
<1>7. ASSUME NEW q \in Procs, NEW p \in Procs, Exit(q, p) PROVE PageInv'
  BY <1>7, ExitPages
<1>8. ASSUME NEW p \in Procs, ExecRead(p) PROVE PageInv'
  BY <1>8, ExecReadPages
<1>9. ASSUME NEW p \in Procs, WriteFileDone(p) PROVE PageInv'
  BY <1>9, WriteDonePages
<1>10. ASSUME NEW p \in Procs, NEW g \in Programs, Exec(p, g) PROVE PageInv'
  BY <1>10, ExecPages, Zenon
<1>11. ASSUME NEW p \in Procs, NEW len \in Lens, WriteFile(p, len) PROVE PageInv'
  BY <1>11, WriteFilePages
<1>12. ASSUME NEW p \in Procs, NEW vs, copy_to_user(p, vs) PROVE PageInv'
  BY <1>12, CopyPages, Zenon
<1>13. CASE UNCHANGED vars
  <2>1. used' = used /\ heap_end' = heap_end /\ procs' = procs /\ work' = work /\ leaked' = leaked
    BY <1>13 DEF vars, heap
  <2>. QED BY <2>1, ZenonT(60) DEF PageInv, Types, SpacesSound, CallsSound, Apart, Inside, Owned, HeapRange
<1>. QED
  BY <1>1, <1>2, <1>3, <1>4, <1>5, <1>6, <1>7, <1>8, <1>9, <1>10, <1>11, <1>12, <1>13, ZenonT(60) DEF Next

\* The inductive invariant of the pages: types, who has a space, that a call
\* never fills in its own slot, and that no page is in two spaces, free, or the
\* heap's.  It does not need the slot that process_fork or process_spawn_user
\* has claimed to be left alone: sys_kill may free it, and another call may put
\* a process in it, before the first one is done.
THEOREM PageInvariant == Spec => []PageInv
BY PagesInit, PagesStep, PTL DEF Spec

\* Whatever order pmm_alloc_page, heap_expand and the undo of a fork hand pages
\* out and take them back in, a page has one owner.
THEOREM PagesHaveOneOwner == Spec => []OneOwner
<1>1. ASSUME PageInv PROVE OneOwner
  <2>0. Types /\ SpacesSound /\ Apart /\ Inside
    BY <1>1, Zenon DEF PageInv
  <2>1. \A p \in Running : p \in Procs /\ NoSharing(procs[p].as)
    BY <2>0, ZenonT(60) DEF Running, SpacesSound
  <2>2. \A w \in Building : w \in Workers /\ NoSharing(work[w].as)
    BY <2>0, SMTT(30) DEF Building, SpacesSound, NoSpace
  <2>3. ASSUME NEW a \in Spaces
        PROVE  \/ \E p \in Running : a = <<"of", p, procs[p].as>>
               \/ \E w \in Building : a = <<"in", w, work[w].as>>
    BY DEF Spaces
  <2>4. ASSUME NEW a \in Spaces
        PROVE  NoSharing(a[3]) /\ PagesOf(a[3]) \subseteq used \ (HeapRange \cup leaked)
    <3>1. CASE \E p \in Running : a = <<"of", p, procs[p].as>>
      BY <2>0, <2>1, <3>1, SMTT(30) DEF Inside, Owned
    <3>2. CASE \E w \in Building : a = <<"in", w, work[w].as>>
      BY <2>0, <2>2, <3>2, SMTT(30) DEF Inside, Owned
    <3>. QED BY <2>3, <3>1, <3>2, ZenonT(30)
  <2>5. ASSUME NEW a \in Spaces, NEW b \in Spaces, a # b
        PROVE  PagesOf(a[3]) \cap PagesOf(b[3]) = {}
    <3>1. ASSUME NEW p \in Running, NEW q \in Running, a = <<"of", p, procs[p].as>>, b = <<"of", q, procs[q].as>>
          PROVE  PagesOf(a[3]) \cap PagesOf(b[3]) = {}
      <4>1. p # q /\ p \in Procs /\ q \in Procs
        BY <2>1, <2>5, <3>1, ZenonT(30)
      <4>2. PagesOf(procs[p].as) \cap PagesOf(procs[q].as) = {}
        BY <2>0, <4>1, Zenon DEF Apart
      <4>. QED BY <3>1, <4>2, Zenon
    <3>2. ASSUME NEW v \in Building, NEW w \in Building, a = <<"in", v, work[v].as>>, b = <<"in", w, work[w].as>>
          PROVE  PagesOf(a[3]) \cap PagesOf(b[3]) = {}
      <4>1. v # w /\ v \in Workers /\ w \in Workers
        BY <2>2, <2>5, <3>2, Zenon
      <4>2. PagesOf(work[v].as) \cap PagesOf(work[w].as) = {}
        BY <2>0, <4>1, Zenon DEF Apart
      <4>. QED BY <3>2, <4>2, Zenon
    <3>3. ASSUME NEW p \in Running, NEW w \in Building
          PROVE  PagesOf(procs[p].as) \cap PagesOf(work[w].as) = {}
      BY <2>0, <2>1, <2>2, Zenon DEF Apart
    <3>4. ASSUME NEW p \in Running, NEW w \in Building, a = <<"of", p, procs[p].as>>, b = <<"in", w, work[w].as>>
          PROVE  PagesOf(a[3]) \cap PagesOf(b[3]) = {}
      BY <3>3, <3>4, Zenon
    <3>5. ASSUME NEW p \in Running, NEW w \in Building, b = <<"of", p, procs[p].as>>, a = <<"in", w, work[w].as>>
          PROVE  PagesOf(a[3]) \cap PagesOf(b[3]) = {}
      <4>1. PagesOf(work[w].as) \cap PagesOf(procs[p].as) = {}
        BY <3>3, Zenon
      <4>. QED BY <3>5, <4>1, Zenon
    <3>. QED BY <2>3, <3>1, <3>2, <3>4, <3>5, ZenonT(30)
  <2>. QED BY <2>0, <2>4, <2>5, Zenon DEF OneOwner, Inside
<1>. QED BY <1>1, PageInvariant, PTL

-----------------------------------------------------------------------------
(* What the pages hold.                                                    *)

LEMMA NothingThere == \A d : Holds(d, NoSpace, NoView)
BY DEF Holds, NoSpace, NoView

LEMMA NotNothing == \A a, b : <<a, b>> # Nothing
<1>1. ASSUME NEW a, NEW b PROVE <<a, b>> # Nothing
  <2>1. Len(<<a, b>>) = 2 /\ Len(<<>>) = 0
    OBVIOUS
  <2>. QED BY <2>1 DEF Nothing
<1>. QED BY <1>1

\* No page is written, and no space appears that is not in order.
LEMMA ViewStep ==
    ASSUME ViewInv, data' = data, view' = view,
           \A q \in Procs : procs'[q].state = "live" =>
             procs[q].state = "live" /\ procs'[q].as = procs[q].as,
           \A w \in Workers : work'[w] = work[w] \/ Holds(data, work'[w].as, work'[w].see)
    PROVE  ViewInv'
<1>1. \A q \in Procs : procs'[q].state = "live" => Holds(data, procs'[q].as, view'[q])
  BY DEF ViewInv
<1>2. \A w \in Workers : Holds(data, work'[w].as, work'[w].see)
  BY ZenonT(40) DEF ViewInv
<1>. QED BY <1>1, <1>2, Zenon DEF ViewInv

\* A call starts, ends or gets on without touching a page.
LEMMA ViewCall ==
    ASSUME PageInv, ViewInv, data' = data, view' = view,
           \A q \in Procs : procs'[q].state = "live" =>
             procs[q].state = "live" /\ procs'[q].as = procs[q].as,
           NEW w \in Workers, NEW c, c \in CallType(c), work' = [work EXCEPT ![w] = c],
           Holds(data, c.as, c.see)
    PROVE  ViewInv'
<1>1. work'[w] = c /\ \A x \in Workers : x # w => work'[x] = work[x]
  BY WorkIs, Zenon DEF PageInv
<1>. QED BY <1>1, ViewStep

LEMMA ViewNoCall ==
    ASSUME PageInv, ViewInv, data' = data, view' = view,
           \A q \in Procs : procs'[q].state = "live" =>
             procs[q].state = "live" /\ procs'[q].as = procs[q].as,
           NEW w \in Workers, work' = [work EXCEPT ![w] = NoCall]
    PROVE  ViewInv'
<1>1. Holds(data, NoCall.as, NoCall.see) /\ NoCall \in CallType(NoCall)
  BY NoCallIs, NothingThere
<1>2. work'[w] = NoCall /\ \A x \in Workers : x # w => work'[x] = work[x]
  BY <1>1, WorkIs, Zenon DEF PageInv
<1>. QED BY <1>1, <1>2, ViewStep, ZenonT(40)

LEMMA ViewStart ==
    ASSUME PageInv, ViewInv, data' = data, view' = view,
           \A q \in Procs : procs'[q].state = "live" =>
             procs[q].state = "live" /\ procs'[q].as = procs[q].as,
           NEW w \in Workers, NEW o \in {"none", "exec", "fork", "write_file"},
           NEW k \in {"boot", "idle", "dir", "read", "buffer"},
           NEW g \in Programs, NEW b, NEW l, NEW s \in Procs \cup {0},
           work' = work \/ work' = [work EXCEPT ![w] = Call(o, k, g, b, l, s)]
    PROVE  ViewInv'
<1>. DEFINE c == Call(o, k, g, b, l, s)
<1>0. c \in CallType(c) /\ c.as = NoSpace /\ c.see = NoView
  <2>1. c \in CallType(c)
    BY CallIs, SMTT(40)
  <2>2. c.as = NoSpace /\ c.see = NoView
    BY Zenon DEF Call
  <2>. QED BY <2>1, <2>2, ZenonT(60)
<1>1. c \in CallType(c) /\ Holds(data, c.as, c.see)
  <2>. HIDE DEF c
  <2>. QED BY <1>0, NothingThere, Zenon
<1>2. CASE work' = work
  BY <1>2, ViewStep, ZenonT(60)
<1>3. CASE work' = [work EXCEPT ![w] = c]
  <2>. HIDE DEF c
  <2>1. work'[w] = c /\ \A x \in Workers : x # w => work'[x] = work[x]
    BY <1>1, <1>3, WorkIs, ZenonT(30) DEF PageInv
  <2>. QED BY <1>1, <2>1, ViewStep
<1>. QED BY <1>2, <1>3, Zenon

LEMMA ExecView ==
    ASSUME PageInv, ViewInv, NEW p \in Procs, NEW g \in Programs, Exec(p, g)
    PROVE  ViewInv'
<1>1. p \in Workers /\ data' = data /\ view' = view /\ procs' = procs
  BY DEF Exec, Workers
<1>2. PICK b, l : \/ work' = work
                  \/ work' = [work EXCEPT ![p] = Call("exec", "dir", g, b, l, 0)]
                  \/ work' = [work EXCEPT ![p] = Call("exec", "read", g, b, l, 0)]
  BY ZenonT(40) DEF Exec
<1>3. CASE work' = work \/ work' = [work EXCEPT ![p] = Call("exec", "dir", g, b, l, 0)]
  BY <1>1, <1>3, ViewStart, SMTT(30)
<1>4. CASE work' = [work EXCEPT ![p] = Call("exec", "read", g, b, l, 0)]
  BY <1>1, <1>4, ViewStart, ZenonT(60)
<1>. QED BY <1>2, <1>3, <1>4, Zenon

LEMMA WriteFileView ==
    ASSUME PageInv, ViewInv, NEW p \in Procs, NEW len \in Lens, WriteFile(p, len)
    PROVE  ViewInv'
<1>1. p \in Workers /\ data' = data /\ view' = view /\ procs' = procs /\ Shell \in Programs
  BY MemoryAssumption DEF WriteFile, Workers
<1>2. PICK b : work' = work \/ work' = [work EXCEPT ![p] = Call("write_file", "buffer", Shell, b, len, 0)]
  BY Zenon DEF WriteFile
<1>. QED BY <1>1, <1>2, ViewStart, SMTT(30)

LEMMA MountView ==
    ASSUME PageInv, ViewInv, NEW size \in FatSizes, MountFat(size)
    PROVE  ViewInv'
<1>1. kmain \in Workers /\ data' = data /\ view' = view /\ procs' = procs /\ Shell \in Programs
  BY MemoryAssumption DEF MountFat, Workers
<1>2. work' = [work EXCEPT ![kmain] = Call("exec", "dir", Shell, 0, 0, 0)]
  BY Zenon DEF MountFat
<1>. QED BY <1>1, <1>2, ViewStart, ZenonT(40)

LEMMA WriteDoneView ==
    ASSUME PageInv, ViewInv, NEW p \in Procs, WriteFileDone(p)
    PROVE  ViewInv'
<1>1. p \in Workers /\ data' = data /\ view' = view /\ procs' = procs
      /\ work' = [work EXCEPT ![p] = NoCall]
  BY DEF WriteFileDone, Workers
<1>. QED BY <1>1, ViewNoCall, Zenon

LEMMA ExecReadView ==
    ASSUME PageInv, ViewInv, NEW p \in Procs, ExecRead(p)
    PROVE  ViewInv'
<1>1. p \in Workers /\ data' = data /\ view' = view /\ procs' = procs
  BY DEF ExecRead, Workers
<1>2. CASE work' = [work EXCEPT ![p] = NoCall]
  BY <1>1, <1>2, ViewNoCall, Zenon
<1>3. CASE work' = [work EXCEPT ![p].pc = "dir"]
  <2>. DEFINE c == work[p]
              d == [c EXCEPT !.pc = "dir"]
  <2>1. c \in CallType(c) /\ Holds(data, c.as, c.see) /\ work = [x \in Workers |-> work[x]]
    BY <1>1, Zenon DEF PageInv, Types, ViewInv
  <2>2. work' = [work EXCEPT ![p] = d]
    BY <1>1, <1>3, <2>1, ZenonT(30)
  <2>. HIDE DEF c
  <2>3. d \in CallType(d) /\ Same(d, c, {"pc"})
    BY <2>1, WithPc, ZenonT(30)
  <2>. HIDE DEF d
  <2>4. Holds(data, d.as, d.see)
    BY <2>1, <2>3, SMTT(30) DEF Same
  <2>. QED BY <1>1, <2>2, <2>3, <2>4, ViewCall, ZenonT(40)
<1>. QED BY <1>2, <1>3, ZenonT(30) DEF ExecRead

LEMMA ForkView ==
    ASSUME PageInv, ViewInv, NEW p \in Procs, Fork(p)
    PROVE  ViewInv'
<1>. DEFINE s == Min({x \in Procs : procs[x].state = "unused"})
<1>1. p \in Workers /\ data' = data /\ view' = view /\ Shell \in Programs
  BY MemoryAssumption DEF Fork, Workers
<1>2. /\ s \in Procs /\ procs' = [procs EXCEPT ![s].state = "claimed"]
      /\ work' = [work EXCEPT ![p] = Call("fork", "dir", Shell, 0, 0, s)]
  <2>1. {x \in Procs : procs[x].state = "unused"} # {}
    BY Zenon DEF Fork
  <2>2. s \in Procs
    BY <2>1, FreeSlot
  <2>3. procs' = [procs EXCEPT ![s].state = "claimed"] /\ work' = [work EXCEPT ![p] = Call("fork", "dir", Shell, 0, 0, s)]
    BY Zenon DEF Fork
  <2>. QED BY <2>2, <2>3
<1>. HIDE DEF s
<1>3. \A q \in Procs : procs'[q].state = "live" => procs[q].state = "live" /\ procs'[q].as = procs[q].as
  BY <1>2 DEF PageInv, Types
<1>. QED BY <1>1, <1>2, <1>3, ViewStart, Zenon

\* A slot is filled in or freed.  What takes it finds in the space what must be
\* there.
LEMMA ReplaceView ==
    ASSUME PageInv, ViewInv, NEW w \in Workers, NEW s \in Procs, NEW P, NEW see, NEW back, NEW left,
           Replaced(w, s, P, see, back, left), P \in ProcType,
           P.state = "live" => Holds(data, P.as, see), see = [v \in Virt |-> see[v]]
    PROVE  ViewInv'
<1>1. /\ procs'[s] = P /\ \A q \in Procs : q # s => procs'[q] = procs[q]
      /\ work'[w] = NoCall /\ work'[s] = NoCall
      /\ \A x \in Workers : x # w /\ x # s => work'[x] = work[x]
  BY ReplacedIs, ZenonT(60)
<1>2. /\ data' = data /\ view = [q \in Procs |-> view[q]] /\ view' = [view EXCEPT ![s] = see]
  BY Zenon DEF Replaced, ViewInv
<1>3. \A x \in Workers : Holds(data, work'[x].as, work'[x].see)
  BY <1>1, NoCallIs, NothingThere, ZenonT(40) DEF ViewInv
<1>4. view'[s] = see /\ \A q \in Procs : q # s => view'[q] = view[q]
  BY <1>2, Zenon
<1>5. ASSUME NEW q \in Procs, procs'[q].state = "live" PROVE Holds(data, procs'[q].as, view'[q])
  <2>1. CASE q = s
    BY <1>1, <1>4, <1>5, <2>1, ZenonT(30)
  <2>2. CASE q # s
    BY <1>1, <1>4, <1>5, <2>2, ZenonT(30) DEF ViewInv
  <2>. QED BY <2>1, <2>2
<1>6. view' = [q \in Procs |-> view'[q]]
  BY <1>2, Zenon
<1>7. ASSUME NEW q \in Procs PROVE view'[q] = [v \in Virt |-> view'[q][v]]
  <2>1. view'[q] = see \/ view'[q] = view[q]
    BY <1>4, Zenon
  <2>. QED BY <2>1, ZenonT(30) DEF ViewInv
<1>. QED BY <1>2, <1>3, <1>5, <1>6, <1>7, ZenonT(40) DEF ViewInv

\* A slot is freed.
LEMMA FreedView ==
    ASSUME PageInv, ViewInv, NEW w \in Workers, NEW s \in Procs, NEW back, NEW left,
           Replaced(w, s, Gone, NoView, back, left)
    PROVE  ViewInv'
<1>1. Gone \in ProcType /\ Gone.state # "live"
  BY GoneIs
<1>2. NoView = [v \in Virt |-> NoView[v]]
  BY Zenon DEF NoView
<1>. QED BY <1>1, <1>2, ReplaceView, ZenonT(60)

LEMMA GiveUpView ==
    ASSUME PageInv, ViewInv, NEW w \in Workers, work[w].pc \in Mapping, GiveUp(w), heap_end' = heap_end
    PROVE  ViewInv'
<1>1. CASE work[w].op = "fork"
  BY <1>1, ForkUndone, FreedView, ZenonT(60)
<1>2. CASE work[w].op # "fork"
  <2>1. data' = data /\ view' = view /\ procs' = procs /\ work' = [work EXCEPT ![w] = NoCall]
    BY <1>2, GiveUpIs, Zenon DEF ExecUndone
  <2>. QED BY <2>1, ViewNoCall, ZenonT(40)
<1>. QED BY <1>1, <1>2

LEMMA CreateDirectoryView ==
    ASSUME PageInv, ViewInv, NEW w \in Workers, CreateDirectory(w)
    PROVE  ViewInv'
<1>. DEFINE c == work[w]
            dir == pmm_alloc_page(used)
<1>0. /\ c.pc = "dir" /\ data' = data
      /\ c \in CallType(c) /\ c.as = NoSpace /\ Holds(data, c.as, c.see)
      /\ work = [x \in Workers |-> work[x]]
  BY DEF CreateDirectory, PageInv, Types, SpacesSound, Mapping, ViewInv
<1>1. ASSUME procs' = procs, view' = view,
             work' = [work EXCEPT ![w].as = [NoSpace EXCEPT !.dir = dir], ![w].pc = "map",
                           ![w].todo = IF c.op = "fork" THEN <<>> ELSE Segments(c.prog)]
      PROVE  ViewInv'
  <2>. DEFINE as == [NoSpace EXCEPT !.dir = dir]
  <2>1. work'[w].as = as /\ work'[w].see = c.see /\ \A x \in Workers : x # w => work'[x] = work[x]
    BY <1>0, <1>1 DEF CallType
  <2>2. as.map = NoSpace.map
    BY Zenon DEF NoSpace
  <2>3. Holds(data, as, c.see)
    <3>. HIDE DEF as, c
    <3>. QED BY <1>0, <2>2 DEF Holds
  <2>4. \A x \in Workers : work'[x] = work[x] \/ Holds(data, work'[x].as, work'[x].see)
    <3>. HIDE DEF as
    <3>. QED BY <2>1, <2>3, ZenonT(30)
  <2>. QED BY <1>0, <1>1, <2>4, ViewStep, ZenonT(30)
<1>2. ASSUME work' = [work EXCEPT ![w] = NoCall], procs' = procs, view' = view
      PROVE  ViewInv'
  BY <1>0, <1>2, ViewNoCall, ZenonT(30)
<1>3. CASE dir = 0 /\ c.op = "fork"
  BY <1>3, DirectoryUndone, FreedView, ZenonT(60)
<1>. QED BY <1>1, <1>2, <1>3, Zenon DEF CreateDirectory

LEMMA LoadedView ==
    ASSUME PageInv, ViewInv, NEW w \in Workers, Loaded(w)
    PROVE  ViewInv'
<1>1. CASE GiveUp(w)
  BY <1>1, LoadedIs, GiveUpView, Zenon DEF Mapping
<1>2. CASE LoadedOk(w)
  <2>. DEFINE d == work'[w]
  <2>1. /\ d \in CallType(d) /\ work' = [work EXCEPT ![w] = d]
        /\ d.as = work[w].as /\ d.see = work[w].see
        /\ data' = data /\ view' = view /\ procs' = procs
    BY <1>2, Zenon DEF LoadedOk
  <2>2. Holds(data, d.as, d.see)
    BY <2>1 DEF ViewInv
  <2>. HIDE DEF d
  <2>. QED BY <2>1, <2>2, ViewCall, ZenonT(40)
<1>. QED BY <1>1, <1>2, LoadedIs, ZenonT(30)

LEMMA ExitView ==
    ASSUME PageInv, ViewInv, NEW q, NEW p \in Procs, Exit(q, p)
    PROVE  ViewInv'
BY ExitIs, FreedView, ZenonT(60)

LEMMA ClaimView ==
    ASSUME PageInv, ViewInv, NEW w \in Workers, Claim(w)
    PROVE  ViewInv'
<1>1. CASE GiveUp(w)
  BY <1>1, ClaimIs, GiveUpView, Zenon
<1>2. ASSUME NEW s \in Procs, Claimed(w, s) PROVE ViewInv'
  <2>. DEFINE d == work'[w]
  <2>1. /\ d \in CallType(d) /\ work' = [work EXCEPT ![w] = d]
        /\ d.as = work[w].as /\ d.see = work[w].see
        /\ data' = data /\ view' = view /\ procs' = [procs EXCEPT ![s].state = "claimed"]
    BY <1>2, Zenon DEF Claimed
  <2>2. Holds(data, d.as, d.see)
    BY <2>1 DEF ViewInv
  <2>. HIDE DEF d
  <2>3. \A q \in Procs : procs'[q].state = "live" => procs[q].state = "live" /\ procs'[q].as = procs[q].as
    BY <2>1 DEF PageInv, Types, ProcType
  <2>. QED BY <2>1, <2>2, <2>3, ViewCall, ZenonT(40)
<1>. QED BY <1>1, <1>2, ClaimIs, Zenon

\* The process finds what its call put into the space.
LEMMA PublishView ==
    ASSUME PageInv, ViewInv, NEW w \in Workers, Publish(w)
    PROVE  ViewInv'
<1>. DEFINE P == [state |-> "live", as |-> work[w].as]
<1>1. /\ work[w].slot \in Procs /\ P \in ProcType /\ P.as = work[w].as
      /\ Replaced(w, work[w].slot, P, work[w].see, {}, {})
  BY PublishIs, Zenon
<1>2. work[w].see = [v \in Virt |-> work[w].see[v]] /\ Holds(data, work[w].as, work[w].see)
  BY Zenon DEF PageInv, Types, CallType, ViewInv
<1>. HIDE DEF P
<1>. QED BY <1>1, <1>2, ReplaceView, ZenonT(60)

\* Writing elsewhere does not touch a space.
LEMMA HoldsKept ==
    ASSUME NEW d, NEW e, NEW as, NEW see, Holds(d, as, see), NEW written,
           \A q \in Pages : q \notin written => e[q] = d[q],
           PagesOf(as) \subseteq Pages, PagesOf(as) \cap written = {}
    PROVE  Holds(e, as, see)
<1>1. \A v \in Virt : as.map[v] # 0 => as.map[v] \in PagesOf(as)
  BY Zenon DEF PagesOf, DataPages
<1>. QED BY <1>1, Zenon DEF Holds

LEMMA MapPageView ==
    ASSUME PageInv, ViewInv, NEW w \in Workers, MapPage(w)
    PROVE  ViewInv'
<1>1. CASE GiveUp(w) /\ heap_end' = heap_end
  BY <1>1, MapPageIs, GiveUpView, Zenon
<1>2. CASE Mapped(w)
  <2>. DEFINE c == work[w]
              d == work'[w]
              v == NextPage(w)
              phys == pmm_alloc_page(used)
              m == vmm_map_user_page(used \cup {phys}, c.as, v, phys)
              fill == Fill(w, v, phys)
              must == IF c.op = "fork" THEN view[w][v] ELSE fill
  <2>1. /\ phys \in Pages \ used /\ v \in Virt /\ m.ok /\ d.as = m.as
        /\ work' = [work EXCEPT ![w] = d] /\ d \in CallType(d)
        /\ d.see = [c.see EXCEPT ![v] = must]
        /\ data' = [data EXCEPT ![phys] = fill]
        /\ procs' = procs /\ view' = view
    BY <1>2, ZenonT(40) DEF Mapped
  <2>2. /\ c.as \in SpaceType /\ NoSharing(c.as) /\ PagesOf(c.as) \subseteq used /\ 0 \in used
        /\ used \subseteq Pages /\ c.see = [y \in Virt |-> c.see[y]] /\ c.pc \in Mapping
        /\ Holds(data, c.as, c.see)
    <3>1. c.pc \in Mapping
      BY MapPageIs, Zenon
    <3>. QED BY <3>1, Zenon DEF PageInv, Types, CallType, SpacesSound, Inside, Owned, ViewInv
  <2>3. m.as.map = [c.as.map EXCEPT ![v] = phys]
    <3>. DEFINE sp == c.as  f == phys  x == v
    <3>1. sp \in SpaceType /\ vmm_map_user_page(used \cup {f}, sp, x, f).ok
      BY <2>1, <2>2, Zenon
    <3>. HIDE DEF sp, f, x
    <3>2. vmm_map_user_page(used \cup {f}, sp, x, f).as.map = [sp.map EXCEPT ![x] = f]
      BY <3>1, Zenon DEF vmm_map_user_page, SpaceType
    <3>. QED BY <3>2, Zenon DEF sp, f, x
  <2>4. fill = must /\ must # Nothing
    <3>1. CASE c.op = "fork"
      <4>1. w \in Procs /\ procs[w].state = "live"
        BY <2>2, <3>1, ZenonT(30) DEF PageInv, CallsSound, Mapping
      <4>2. v \in Uncopied(w)
        <5>1. ~AllMapped(w)
          BY SMTT(30) DEF MapPage
        <5>. QED BY <3>1, <5>1, NextIs, ZenonT(40)
      <4>3. procs[w].as.map[v] # 0
        BY <4>2, Zenon DEF Uncopied
      <4>4. data[procs[w].as.map[v]] = view[w][v] /\ view[w][v] # Nothing
        <5>1. Holds(data, procs[w].as, view[w])
          BY <4>1 DEF ViewInv
        <5>. QED BY <2>1, <4>3, <5>1, ZenonT(30) DEF Holds
      <4>5. c.pc # "stack"
        BY <3>1, ZenonT(40) DEF PageInv, CallsSound
      <4>. QED BY <3>1, <4>4, <4>5, Zenon DEF Fill
    <3>2. CASE c.op # "fork" /\ c.pc = "stack"
      <4>1. fill = data[phys]
        BY <3>2, ZenonT(40) DEF Fill
      <4>. QED BY <2>1, <3>2, <4>1, ZenonT(30) DEF ViewInv
    <3>3. CASE c.op # "fork" /\ c.pc # "stack"
      <4>1. fill = <<c.prog.name, v>>
        BY <3>3, Zenon DEF Fill
      <4>. QED BY <3>3, <4>1, NotNothing, ZenonT(30)
    <3>. QED BY <3>1, <3>2, <3>3, Zenon
  <2>. HIDE DEF c, d, v, phys, m, fill, must
  <2>5. data = [q \in Pages |-> data[q]] /\ \A q \in Pages : data[q] # Nothing
    BY Zenon DEF ViewInv
  <2>6. /\ data' = [q \in Pages |-> data'[q]] /\ \A q \in Pages : data'[q] # Nothing
        /\ data'[phys] = fill /\ \A q \in Pages : q \notin {phys} => data'[q] = data[q]
    BY <2>1, <2>4, <2>5, ZenonT(30)
  <2>7. ASSUME NEW q \in Procs, procs[q].state = "live" PROVE Holds(data', procs[q].as, view[q])
    <3>1. PagesOf(procs[q].as) \subseteq Pages /\ PagesOf(procs[q].as) \cap {phys} = {}
      BY <2>1, <2>2, Zenon DEF PageInv, Inside, Owned
    <3>2. Holds(data, procs[q].as, view[q])
      BY <2>7, Zenon DEF ViewInv
    <3>. QED BY <2>6, <3>1, <3>2, HoldsKept, ZenonT(60)
  <2>8. ASSUME NEW x \in Workers, x # w PROVE Holds(data', work'[x].as, work'[x].see)
    <3>1. work'[x] = work[x]
      BY <2>1, <2>8, WorkIs, ZenonT(40) DEF PageInv
    <3>2. PagesOf(work[x].as) \subseteq Pages /\ PagesOf(work[x].as) \cap {phys} = {}
      BY <2>1, <2>2, ZenonT(30) DEF PageInv, Inside, Owned
    <3>3. Holds(data, work[x].as, work[x].see)
      BY DEF ViewInv
    <3>4. Holds(data', work[x].as, work[x].see)
      BY <2>6, <3>2, <3>3, HoldsKept, ZenonT(60)
    <3>. QED BY <3>1, <3>4, Zenon
  <2>9. Holds(data', d.as, d.see)
    <3>1. phys # 0
      BY <2>1, <2>2, Zenon
    <3>2. /\ d.as.map = [c.as.map EXCEPT ![v] = phys] /\ c.as.map \in [Virt -> Nat]
      BY <2>1, <2>2, <2>3, Zenon DEF SpaceType
    <3>3. ASSUME NEW x \in Virt
          PROVE  /\ d.as.map[x] # 0 <=> d.see[x] # Nothing
                 /\ d.as.map[x] # 0 => data'[d.as.map[x]] = d.see[x]
      <4>1. CASE x = v
        BY <2>1, <2>2, <2>4, <2>6, <3>1, <3>2, <4>1, ZenonT(60)
      <4>2. CASE x # v
        <5>1. d.as.map[x] = c.as.map[x] /\ d.see[x] = c.see[x]
          BY <2>1, <2>2, <3>2, <4>2, ZenonT(40)
        <5>2. /\ c.as.map[x] # 0 <=> c.see[x] # Nothing
              /\ c.as.map[x] # 0 => data[c.as.map[x]] = c.see[x]
          BY <2>2, Zenon DEF Holds
        <5>3. c.as.map[x] # 0 => c.as.map[x] \in PagesOf(c.as)
          BY Zenon DEF PagesOf, DataPages
        <5>4. c.as.map[x] # 0 => data'[c.as.map[x]] = data[c.as.map[x]]
          BY <2>1, <2>2, <2>6, <5>3, ZenonT(30)
        <5>. QED BY <5>1, <5>2, <5>4, Zenon
      <4>. QED BY <4>1, <4>2, Zenon
    <3>. QED BY <3>3 DEF Holds
  <2>10. \A x \in Workers : Holds(data', work'[x].as, work'[x].see)
    BY <2>8, <2>9, ZenonT(30) DEF d
  <2>. QED BY <2>1, <2>6, <2>7, <2>10, ZenonT(30) DEF ViewInv
<1>. QED BY <1>1, <1>2, MapPageIs, Zenon

\* A store, or a copy the kernel makes for the process.
LEMMA CopyView ==
    ASSUME PageInv, ViewInv, NEW p \in Procs, NEW vs \in SUBSET Virt, copy_to_user(p, vs)
    PROVE  ViewInv'
<1>. DEFINE as == procs[p].as
            written == {as.map[v] : v \in vs}
            mine == <<"of", p>>
<1>1. /\ procs[p].state = "live" /\ \A v \in vs : as.map[v] # 0
      /\ data' = [q \in Pages |-> IF \E v \in vs : as.map[v] = q THEN mine ELSE data[q]]
      /\ view' = [view EXCEPT ![p] = [v \in Virt |-> IF v \in vs THEN mine ELSE view[p][v]]]
      /\ procs' = procs /\ work' = work
  BY ZenonT(40) DEF copy_to_user, InRing3
<1>2. /\ as \in SpaceType /\ NoSharing(as) /\ PagesOf(as) \subseteq Pages
      /\ Holds(data, as, view[p]) /\ view = [q \in Procs |-> view[q]]
  <2>1. as \in SpaceType /\ NoSharing(as)
    BY <1>1, ZenonT(30) DEF PageInv, Types, ProcType, SpacesSound, Inside
  <2>2. PagesOf(as) \subseteq Pages
    BY <1>1, Zenon DEF PageInv, Types, Inside, Owned
  <2>3. Holds(data, as, view[p]) /\ view = [q \in Procs |-> view[q]]
    BY <1>1, Zenon DEF ViewInv
  <2>. QED BY <2>1, <2>2, <2>3, Zenon
<1>3. written \subseteq PagesOf(as)
  BY <1>1, Zenon DEF PagesOf, DataPages
<1>4. mine # Nothing
  BY NotNothing, Zenon
<1>. HIDE DEF mine
<1>5. /\ data' = [q \in Pages |-> data'[q]]
      /\ \A q \in Pages : q \notin written => data'[q] = data[q]
      /\ \A q \in Pages : q \in written => data'[q] = mine
      /\ \A q \in Pages : data'[q] # Nothing
  BY <1>1, <1>4, Zenon DEF ViewInv
<1>6. /\ view' = [q \in Procs |-> view'[q]]
      /\ view'[p] = [v \in Virt |-> IF v \in vs THEN mine ELSE view[p][v]]
      /\ \A q \in Procs : q # p => view'[q] = view[q]
  BY <1>1, <1>2, Zenon
<1>7. \A q \in Procs : view'[q] = [v \in Virt |-> view'[q][v]]
  <2>1. view'[p] = [v \in Virt |-> view'[p][v]]
    BY <1>6
  <2>. QED BY <1>6, <2>1, Zenon DEF ViewInv
<1>8. ASSUME NEW q \in Procs, q # p, procs[q].state = "live" PROVE Holds(data', procs[q].as, view'[q])
  <2>1. PagesOf(procs[q].as) \cap PagesOf(as) = {} /\ PagesOf(procs[q].as) \subseteq Pages
    BY <1>8, Zenon DEF PageInv, Apart, Inside, Owned, Types
  <2>2. Holds(data, procs[q].as, view[q]) /\ view'[q] = view[q]
    BY <1>6, <1>8, Zenon DEF ViewInv
  <2>3. PagesOf(procs[q].as) \cap written = {}
    BY <1>3, <2>1, Zenon
  <2>. HIDE DEF written, as
  <2>. QED BY <1>5, <2>1, <2>2, <2>3, HoldsKept, ZenonT(40)
<1>9. ASSUME NEW x \in Workers PROVE Holds(data', work[x].as, work[x].see)
  <2>1. PagesOf(work[x].as) \cap PagesOf(as) = {} /\ PagesOf(work[x].as) \subseteq Pages
    <3>1. PagesOf(as) \cap PagesOf(work[x].as) = {}
      BY Zenon DEF PageInv, Apart
    <3>. QED BY <3>1, ZenonT(40) DEF PageInv, Inside, Owned, Types
  <2>2. Holds(data, work[x].as, work[x].see)
    BY DEF ViewInv
  <2>3. PagesOf(work[x].as) \cap written = {}
    BY <1>3, <2>1, Zenon
  <2>. HIDE DEF written, as
  <2>. QED BY <1>5, <2>1, <2>2, <2>3, HoldsKept, Zenon
<1>10. Holds(data', as, view'[p])
  <2>1. ASSUME NEW v \in Virt
        PROVE  /\ as.map[v] # 0 <=> view'[p][v] # Nothing
               /\ as.map[v] # 0 => data'[as.map[v]] = view'[p][v]
    <3>0. as.map[v] # 0 => as.map[v] \in Pages
      BY <1>2 DEF PagesOf, DataPages
    <3>1. CASE v \in vs
      <4>1. as.map[v] # 0 /\ as.map[v] \in written /\ view'[p][v] = mine
        BY <1>1, <1>6, <3>1, ZenonT(30)
      <4>. HIDE DEF as, written
      <4>. QED BY <1>4, <1>5, <3>0, <4>1, ZenonT(40)
    <3>2. CASE v \notin vs
      <4>1. view'[p][v] = view[p][v]
        BY <1>6, <3>2, Zenon
      <4>2. /\ as.map[v] # 0 <=> view[p][v] # Nothing
            /\ as.map[v] # 0 => data[as.map[v]] = view[p][v]
        BY <1>2, Zenon DEF Holds
      <4>3. as.map[v] # 0 => as.map[v] \notin written
        BY <1>2, <3>2, Zenon DEF NoSharing
      <4>. HIDE DEF as, written
      <4>. QED BY <1>5, <3>0, <4>1, <4>2, <4>3, ZenonT(60)
    <3>. QED BY <3>1, <3>2, Zenon
  <2>. QED BY <2>1, ZenonT(40) DEF Holds
<1>. QED BY <1>1, <1>5, <1>6, <1>7, <1>8, <1>9, <1>10, ZenonT(60) DEF ViewInv

LEMMA ViewInit == Init => ViewInv
<1>. SUFFICES ASSUME Init PROVE ViewInv
  OBVIOUS
<1>. DEFINE B == Call("none", "boot", Shell, 0, 0, 0)
<1>1. /\ data = [p \in Pages |-> <<"junk", p>>] /\ view = [p \in Procs |-> NoView]
      /\ procs = [p \in Procs |-> Gone]
      /\ work = [w \in Workers |-> IF w = kmain THEN B ELSE NoCall]
  BY ZenonT(40) DEF Init
<1>2. B.as = NoSpace /\ B.see = NoView
  BY Zenon DEF Call
<1>. HIDE DEF B
<1>3. \A w \in Workers : work[w].as = NoSpace /\ work[w].see = NoView
  BY <1>1, <1>2, NoCallIs, Zenon
<1>4. \A w \in Workers : Holds(data, work[w].as, work[w].see)
  BY <1>3, NothingThere, Zenon
<1>5. \A p \in Procs : procs[p].state # "live" /\ view[p] = [v \in Virt |-> view[p][v]]
  BY <1>1 DEF Gone, NoView
<1>6. data = [p \in Pages |-> data[p]] /\ \A p \in Pages : data[p] # Nothing
  BY <1>1, NotNothing, Zenon
<1>. QED BY <1>1, <1>4, <1>5, <1>6, ZenonT(60) DEF ViewInv

LEMMA ViewsStep == PageInv /\ ViewInv /\ [Next]_vars => ViewInv'
<1>. SUFFICES ASSUME PageInv, ViewInv, [Next]_vars PROVE ViewInv'
  OBVIOUS
<1>1. ASSUME NEW size \in FatSizes, MountFat(size) PROVE ViewInv'
  BY <1>1, MountView, Zenon
<1>2. ASSUME NEW w \in Workers, CreateDirectory(w) PROVE ViewInv'
  BY <1>2, CreateDirectoryView
<1>3. ASSUME NEW w \in Workers, MapPage(w) PROVE ViewInv'
  BY <1>3, MapPageView, ZenonT(60)
<1>4. ASSUME NEW w \in Workers, Loaded(w) PROVE ViewInv'
  BY <1>4, LoadedView
<1>5. ASSUME NEW w \in Workers, Claim(w) \/ Publish(w) PROVE ViewInv'
  BY <1>5, ClaimView, PublishView
<1>6. ASSUME NEW p \in Procs, Fork(p) PROVE ViewInv'
  BY <1>6, ForkView
<1>7. ASSUME NEW q \in Procs, NEW p \in Procs, Exit(q, p) PROVE ViewInv'
  BY <1>7, ExitView
<1>8. ASSUME NEW p \in Procs, ExecRead(p) PROVE ViewInv'
  BY <1>8, ExecReadView
<1>9. ASSUME NEW p \in Procs, WriteFileDone(p) PROVE ViewInv'
  BY <1>9, WriteDoneView
<1>10. ASSUME NEW p \in Procs, NEW g \in Programs, Exec(p, g) PROVE ViewInv'
  BY <1>10, ExecView, Zenon
<1>11. ASSUME NEW p \in Procs, NEW len \in Lens, WriteFile(p, len) PROVE ViewInv'
  BY <1>11, WriteFileView, Zenon
<1>12. ASSUME NEW p \in Procs, NEW vs \in Stores, copy_to_user(p, vs) PROVE ViewInv'
  <2>1. vs \in SUBSET Virt
    BY MemoryAssumption
  <2>. QED BY <1>12, <2>1, CopyView, Zenon
<1>13. CASE UNCHANGED vars
  BY <1>13 DEF vars, ViewInv
<1>. QED
  BY <1>1, <1>2, <1>3, <1>4, <1>5, <1>6, <1>7, <1>8, <1>9, <1>10, <1>11, <1>12, <1>13, ZenonT(60) DEF Next

\* A process finds in each page what its program file, its parent at the fork
\* or its own last store left there, whatever other processes load, copy or
\* store between two of its steps.
THEOREM ProcessesKeepTheirMemory == Spec => []OwnMemory
<1>1. ASSUME ViewInv PROVE OwnMemory
  BY <1>1 DEF ViewInv, Holds, OwnMemory, Running
<1>2. Spec => [](PageInv /\ ViewInv)
  BY PagesInit, PagesStep, ViewInit, ViewsStep, PTL DEF Spec
<1>. QED BY <1>1, <1>2, PTL

-----------------------------------------------------------------------------
(* Where every page is.                                                    *)

\* No page of a program's segments or of the stack is mapped twice by one
\* exec: the linker script starts every section on a page of its own, far
\* below the stack.  elf_load forgets the first page of one mapped twice.
Separate ==
    /\ \A i, j \in 1 .. Len(Stack) : i # j => Stack[i] # Stack[j]
    /\ \A g \in Programs :
         /\ \A i, j \in 1 .. Len(Segments(g)) : i # j => Segments(g)[i] # Segments(g)[j]
         /\ \A i \in 1 .. Len(Segments(g)), j \in 1 .. Len(Stack) : Segments(g)[i] # Stack[j]

InSpace(x) ==
    \/ \E p \in Procs : x \in PagesOf(procs[p].as)
    \/ \E w \in Workers : x \in PagesOf(work[w].as)

Known == \A x \in used : x = 0 \/ x \in HeapRange \/ x \in leaked \/ InSpace(x)

\* What an exec has still to map is not mapped, its stack included.
Ready(c) ==
    c.pc \in Mapping /\ c.op # "fork" =>
      /\ \A i, j \in 1 .. Len(c.todo) : i # j => c.todo[i] # c.todo[j]
      /\ \A i \in 1 .. Len(c.todo) : c.as.map[c.todo[i]] = 0
      /\ c.pc = "map" =>
           /\ \A j \in 1 .. Len(Stack) : c.as.map[Stack[j]] = 0
           /\ \A i \in 1 .. Len(c.todo), j \in 1 .. Len(Stack) : c.todo[i] # Stack[j]

KnownInv == Known /\ \A w \in Workers : Ready(work[w])

\* One call changes, the spaces do not; only the heap takes pages.
LEMMA KnownCall ==
    ASSUME PageInv, KnownInv, leaked' = leaked,
           \A x \in used' : x \in used \/ x \in HeapRange', HeapRange \subseteq HeapRange',
           \A q \in Procs : procs'[q].as = procs[q].as,
           NEW w \in Workers, NEW c, c \in CallType(c), work' = [work EXCEPT ![w] = c],
           c.as = work[w].as, Ready(c)
    PROVE  KnownInv'
<1>1. work'[w] = c /\ \A x \in Workers : x # w => work'[x] = work[x]
  BY WorkIs, Zenon DEF PageInv
<1>2. \A x \in Workers : work'[x].as = work[x].as
  BY <1>1, Zenon
<1>3. ASSUME NEW x, InSpace(x) PROVE InSpace(x)'
  BY <1>2, <1>3, Zenon DEF InSpace
<1>4. Known'
  BY <1>3, Zenon DEF KnownInv, Known
<1>5. \A x \in Workers : Ready(work'[x])
  BY <1>1, Zenon DEF KnownInv
<1>. QED BY <1>4, <1>5, Zenon DEF KnownInv, Ready

\* A call that maps nothing starts or ends.
LEMMA KnownStart ==
    ASSUME PageInv, KnownInv, leaked' = leaked,
           \A x \in used' : x \in used \/ x \in HeapRange', HeapRange \subseteq HeapRange',
           \A q \in Procs : procs'[q].as = procs[q].as,
           NEW w \in Workers, work[w].pc \notin Mapping,
           NEW c, c \in CallType(c), c.as = NoSpace, c.pc \notin Mapping,
           work' = work \/ work' = [work EXCEPT ![w] = c]
    PROVE  KnownInv'
<1>1. /\ work[w].as = NoSpace /\ work[w] \in CallType(work[w])
      /\ work = [work EXCEPT ![w] = work[w]]
  BY ZenonT(40) DEF PageInv, SpacesSound, Types
<1>2. Ready(c) /\ Ready(work[w])
  BY Zenon DEF Ready
<1>3. CASE work' = [work EXCEPT ![w] = c]
  BY <1>1, <1>2, <1>3, KnownCall, Zenon
<1>4. CASE work' = work
  <2>. DEFINE d == work[w]
  <2>1. /\ work' = [work EXCEPT ![w] = d] /\ d.as = work[w].as
        /\ Ready(d) /\ d \in CallType(d)
    BY <1>1, <1>2, <1>4, Zenon
  <2>. HIDE DEF d
  <2>. QED BY <2>1, KnownCall, Zenon
<1>. QED BY <1>3, <1>4, Zenon

\* kmalloc takes only pages that become the heap's.
LEMMA KnownHeap ==
    ASSUME heap_end \in Nat \ {0}, NEW size \in Nat,
           used' = kmalloc(Heap, size).used, heap_end' = kmalloc(Heap, size).end
    PROVE  /\ \A x \in used' : x \in used \/ x \in HeapRange'
           /\ HeapRange \subseteq HeapRange'
<1>1. PICK got \in Nat :
              /\ heap_end' = heap_end + got
              /\ used' = used \cup (heap_end .. heap_end + got - 1)
  BY KmallocPages, Zenon
<1>2. HeapRange' = 1 .. heap_end + got - 1 /\ HeapRange = 1 .. heap_end - 1
  BY <1>1, SMTT(30) DEF HeapRange
<1>. QED BY <1>1, <1>2, SMTT(30)

LEMMA ExecKnown ==
    ASSUME PageInv, KnownInv, NEW p \in Procs, NEW g \in Programs, Exec(p, g)
    PROVE  KnownInv'
<1>0. /\ InRing3(p) /\ procs' = procs /\ leaked' = leaked /\ heap_end \in Nat \ {0} /\ g.size \in Nat
  BY MemoryAssumption, Zenon DEF Exec, Enter, PageInv, Types
<1>1. p \in Workers /\ work[p].pc \notin Mapping
  BY <1>0, Starts
<1>2. /\ \A x \in used' : x \in used \/ x \in HeapRange'
      /\ HeapRange \subseteq HeapRange'
  <2>1. CASE UNCHANGED <<used, heap>>
    BY <2>1, Zenon DEF heap, HeapRange
  <2>2. CASE used' = kmalloc(Heap, g.size).used /\ heap_end' = kmalloc(Heap, g.size).end
    BY <1>0, <2>2, KnownHeap, ZenonT(30)
  <2>. QED BY <2>1, <2>2, Zenon DEF Exec
<1>3. ASSUME NEW k \in {"dir", "read"}, NEW b, NEW l,
             work' = work \/ work' = [work EXCEPT ![p] = Call("exec", k, g, b, l, 0)]
      PROVE  KnownInv'
  <2>. DEFINE c == Call("exec", k, g, b, l, 0)
  <2>1. c \in CallType(c) /\ c.as = NoSpace /\ c.pc \notin Mapping
    BY CallIs, SMTT(30)
  <2>2. work' = work \/ work' = [work EXCEPT ![p] = c]
    BY <1>3
  <2>. HIDE DEF c
  <2>. QED BY <1>0, <1>1, <1>2, <2>1, <2>2, KnownStart, ZenonT(60)
<1>4. \/ work' = work
      \/ \E b, l : work' = [work EXCEPT ![p] = Call("exec", "dir", g, b, l, 0)]
      \/ \E b, l : work' = [work EXCEPT ![p] = Call("exec", "read", g, b, l, 0)]
  BY Zenon DEF Exec
<1>. QED BY <1>3, <1>4, Zenon

LEMMA WriteFileKnown ==
    ASSUME PageInv, KnownInv, NEW p \in Procs, NEW len \in Lens, WriteFile(p, len)
    PROVE  KnownInv'
<1>0. /\ InRing3(p) /\ procs' = procs /\ leaked' = leaked /\ heap_end \in Nat \ {0} /\ len \in Nat
      /\ Shell \in Programs
  BY MemoryAssumption, Zenon DEF WriteFile, Enter, PageInv, Types
<1>1. p \in Workers /\ work[p].pc \notin Mapping
  BY <1>0, Starts, ZenonT(30)
<1>2. /\ \A x \in used' : x \in used \/ x \in HeapRange'
      /\ HeapRange \subseteq HeapRange'
  <2>1. used' = kmalloc(Heap, len).used /\ heap_end' = kmalloc(Heap, len).end
    BY ZenonT(60) DEF WriteFile
  <2>. QED BY <1>0, <2>1, KnownHeap, ZenonT(30)
<1>3. PICK b : work' = work \/ work' = [work EXCEPT ![p] = Call("write_file", "buffer", Shell, b, len, 0)]
  BY Zenon DEF WriteFile
<1>. DEFINE c == Call("write_file", "buffer", Shell, b, len, 0)
<1>4. c \in CallType(c) /\ c.as = NoSpace /\ c.pc \notin Mapping
  BY <1>0, CallIs, SMTT(30)
<1>5. work' = work \/ work' = [work EXCEPT ![p] = c]
  BY <1>3
<1>. HIDE DEF c
<1>. QED BY <1>0, <1>1, <1>2, <1>4, <1>5, KnownStart, ZenonT(60)

LEMMA MountKnown ==
    ASSUME PageInv, KnownInv, NEW size \in FatSizes, MountFat(size)
    PROVE  KnownInv'
<1>0. /\ kmain \in Workers /\ work[kmain].pc \notin Mapping /\ procs' = procs
      /\ leaked' = leaked /\ heap_end \in Nat \ {0} /\ size \in Nat /\ Shell \in Programs
  BY MemoryAssumption, ZenonT(30) DEF MountFat, Workers, Mapping, PageInv, Types
<1>1. /\ \A x \in used' : x \in used \/ x \in HeapRange'
      /\ HeapRange \subseteq HeapRange'
  <2>1. used' = kmalloc(Heap, size).used /\ heap_end' = kmalloc(Heap, size).end
    BY Zenon DEF MountFat
  <2>. QED BY <1>0, <2>1, KnownHeap, ZenonT(30)
<1>. DEFINE c == Call("exec", "dir", Shell, 0, 0, 0)
<1>2. work' = [work EXCEPT ![kmain] = c]
  BY ZenonT(60) DEF MountFat
<1>3. c \in CallType(c) /\ c.as = NoSpace /\ c.pc \notin Mapping
  BY <1>0, CallIs
<1>. HIDE DEF c
<1>. QED BY <1>0, <1>1, <1>2, <1>3, KnownStart, ZenonT(60)

\* A call without a space ends.
LEMMA EndKnown ==
    ASSUME PageInv, KnownInv, NEW p \in Workers, work[p].pc \notin Mapping,
           work' = [work EXCEPT ![p] = NoCall],
           heap_end' = heap_end, used' = used, leaked' = leaked,
           \A q \in Procs : procs'[q].as = procs[q].as
    PROVE  KnownInv'
<1>1. /\ \A x \in used' : x \in used \/ x \in HeapRange'
      /\ HeapRange \subseteq HeapRange'
  BY DEF HeapRange
<1>2. NoCall \in CallType(NoCall) /\ NoCall.as = NoSpace /\ NoCall.pc \notin Mapping
  BY NoCallIs, ZenonT(30)
<1>. QED BY <1>1, <1>2, KnownStart, ZenonT(40)

LEMMA WriteDoneKnown ==
    ASSUME PageInv, KnownInv, NEW p \in Procs, WriteFileDone(p)
    PROVE  KnownInv'
<1>1. p \in Workers /\ work[p].pc \notin Mapping
  BY Zenon DEF WriteFileDone, Workers, Mapping
<1>. QED BY <1>1, EndKnown, Zenon DEF WriteFileDone

LEMMA ExecReadKnown ==
    ASSUME PageInv, KnownInv, NEW p \in Procs, ExecRead(p)
    PROVE  KnownInv'
<1>1. /\ p \in Workers /\ work[p].pc \notin Mapping
      /\ heap_end' = heap_end /\ used' = used /\ procs' = procs /\ leaked' = leaked
  BY DEF ExecRead, Workers, Mapping
<1>2. CASE work' = [work EXCEPT ![p] = NoCall]
  BY <1>1, <1>2, EndKnown, Zenon
<1>3. CASE work' = [work EXCEPT ![p].pc = "dir"]
  <2>. DEFINE c == work[p]
              d == [c EXCEPT !.pc = "dir"]
  <2>1. c \in CallType(c) /\ c.as = NoSpace /\ work = [x \in Workers |-> work[x]]
    BY <1>1 DEF PageInv, Types, SpacesSound
  <2>2. work' = [work EXCEPT ![p] = d]
    BY <1>1, <1>3, <2>1, ZenonT(30)
  <2>. HIDE DEF c
  <2>3. d \in CallType(d) /\ d.pc = "dir" /\ Same(d, c, {"pc"})
    BY <2>1, WithPc, ZenonT(30)
  <2>. HIDE DEF d
  <2>4. d.as = NoSpace /\ d.pc \notin Mapping
    BY <2>1, <2>3, ZenonT(30) DEF Same, Mapping
  <2>5. /\ \A x \in used' : x \in used \/ x \in HeapRange'
        /\ HeapRange \subseteq HeapRange'
    BY <1>1 DEF HeapRange
  <2>. QED BY <1>1, <2>2, <2>3, <2>4, <2>5, KnownStart, ZenonT(60)
<1>. QED BY <1>2, <1>3 DEF ExecRead

LEMMA ForkKnown ==
    ASSUME PageInv, KnownInv, NEW p \in Procs, Fork(p)
    PROVE  KnownInv'
<1>. DEFINE s == Min({x \in Procs : procs[x].state = "unused"})
            c == Call("fork", "dir", Shell, 0, 0, s)
<1>1. p \in Workers /\ work[p].pc \notin Mapping /\ leaked' = leaked /\ Shell \in Programs
  <2>1. InRing3(p) /\ leaked' = leaked /\ Shell \in Programs
    BY MemoryAssumption DEF Fork, Enter
  <2>. QED BY <2>1, Starts, ZenonT(30)
<1>2. s \in Procs /\ procs' = [procs EXCEPT ![s].state = "claimed"] /\ work' = [work EXCEPT ![p] = c]
  <2>1. {x \in Procs : procs[x].state = "unused"} # {}
    BY Zenon DEF Fork
  <2>2. s \in Procs
    BY <2>1, FreeSlot, ZenonT(30)
  <2>3. procs' = [procs EXCEPT ![s].state = "claimed"] /\ work' = [work EXCEPT ![p] = c]
    BY Zenon DEF Fork
  <2>. QED BY <2>2, <2>3, Zenon
<1>3. /\ \A x \in used' : x \in used \/ x \in HeapRange'
      /\ HeapRange \subseteq HeapRange'
  BY DEF Fork, heap, HeapRange
<1>. HIDE DEF s
<1>4. \A q \in Procs : procs'[q].as = procs[q].as
  BY <1>2, SMTT(30) DEF PageInv, Types, ProcType
<1>5. c \in CallType(c) /\ c.as = NoSpace /\ c.pc \notin Mapping
  BY <1>1, <1>2, CallIs, SMTT(30)
<1>. HIDE DEF c
<1>. QED BY <1>1, <1>2, <1>3, <1>4, <1>5, KnownStart, ZenonT(60)

\* Spaces change: a page that leaves one is free, leaked or in another.
LEMMA KnownSpaces ==
    ASSUME PageInv, KnownInv, heap_end' = heap_end, leaked \subseteq leaked',
           \A x \in used' : x \in used \/ InSpace(x)',
           \A q \in Procs : \A x \in PagesOf(procs[q].as) : x \in used' => x \in leaked' \/ InSpace(x)',
           \A y \in Workers : \A x \in PagesOf(work[y].as) : x \in used' => x \in leaked' \/ InSpace(x)',
           \A y \in Workers : Ready(work'[y])
    PROVE  KnownInv'
<1>1. HeapRange' = HeapRange
  BY DEF HeapRange
<1>2. ASSUME NEW x \in used', ~InSpace(x)' PROVE x = 0 \/ x \in HeapRange' \/ x \in leaked'
  <2>1. x \in used
    BY <1>2, Zenon
  <2>2. x = 0 \/ x \in HeapRange \/ x \in leaked \/ InSpace(x)
    BY <2>1 DEF KnownInv, Known
  <2>3. CASE InSpace(x)
    BY <1>2, <2>3, Zenon DEF InSpace
  <2>. QED BY <1>1, <2>2, <2>3, ZenonT(40)
<1>3. Known'
  BY <1>2, Zenon DEF Known
<1>. QED BY <1>3, Zenon DEF KnownInv, Ready

LEMMA StepReady ==
    ASSUME PageInv, KnownInv, NEW w \in Workers, NEW c, c \in CallType(c),
           work' = [work EXCEPT ![w] = c], Ready(c)
    PROVE  \A y \in Workers : Ready(work'[y])
<1>1. work'[w] = c /\ \A x \in Workers : x # w => work'[x] = work[x]
  BY WorkIs, Zenon DEF PageInv
<1>. QED BY <1>1, Zenon DEF KnownInv

LEMMA NoCallReady == Ready(NoCall) /\ NoCall \in CallType(NoCall) /\ PagesOf(NoCall.as) = {}
BY NoCallIs, NoSpacePages, ZenonT(30) DEF Ready

\* A slot is filled in or freed: of the space of the call a page is now the new
\* process's, free, or left.
LEMMA ReplaceKnown ==
    ASSUME PageInv, KnownInv, NEW w \in Workers, NEW s \in Procs, NEW P, NEW see, NEW back, NEW left,
           Replaced(w, s, P, see, back, left), P \in ProcType,
           PagesOf(work[w].as) \subseteq PagesOf(P.as) \cup back \cup left \cup HeldPages(s)
    PROVE  KnownInv'
<1>1. used' = used \ back /\ leaked' = leaked \cup left \cup HeldPages(s) /\ heap_end' = heap_end
  BY DEF Replaced
<1>2. /\ procs'[s] = P /\ \A q \in Procs : q # s => procs'[q] = procs[q]
      /\ s \in Workers /\ work'[w] = NoCall /\ work'[s] = NoCall
      /\ \A x \in Workers : x # w /\ x # s => work'[x] = work[x]
  BY ReplacedIs, ZenonT(60)
<1>3. ASSUME NEW q \in Procs, NEW x \in PagesOf(procs[q].as) PROVE x \in leaked' \/ InSpace(x)'
  <2>1. CASE q = s
    BY <1>1, <2>1, Zenon DEF HeldPages
  <2>2. CASE q # s
    BY <1>2, <2>2, ZenonT(30) DEF InSpace
  <2>. QED BY <2>1, <2>2, Zenon
<1>4. ASSUME NEW y \in Workers, NEW x \in PagesOf(work[y].as), x \in used' PROVE x \in leaked' \/ InSpace(x)'
  <2>1. CASE y = w
    <3>1. x \in PagesOf(P.as) => InSpace(x)'
      BY <1>2, Zenon DEF InSpace
    <3>. QED BY <1>1, <1>4, <2>1, <3>1, ZenonT(40)
  <2>2. CASE y = s
    BY <1>1, <2>2, Zenon DEF HeldPages
  <2>3. CASE y # w /\ y # s
    BY <1>2, <2>3, ZenonT(30) DEF InSpace
  <2>. QED BY <2>1, <2>2, <2>3, Zenon
<1>5. leaked \subseteq leaked' /\ used' \subseteq used
  BY <1>1, Zenon
<1>6. \A y \in Workers : Ready(work'[y])
  BY <1>2, NoCallReady, ZenonT(30) DEF KnownInv
<1>. QED BY <1>1, <1>3, <1>4, <1>5, <1>6, KnownSpaces, ZenonT(60)

LEMMA GiveUpKnown ==
    ASSUME PageInv, KnownInv, NEW w \in Workers, work[w].pc \in Mapping, GiveUp(w), heap_end' = heap_end
    PROVE  KnownInv'
<1>1. CASE work[w].op = "fork"
  <2>. DEFINE as == work[w].as
              back == fork_free_address_space(as)
              left == Tables(as)
              s == work[w].slot
  <2>1. s \in Procs /\ Replaced(w, s, Gone, NoView, back, left) /\ back \cup left = PagesOf(as)
    BY <1>1, ForkUndone, ZenonT(60)
  <2>. HIDE DEF back, left, s
  <2>2. Gone \in ProcType /\ PagesOf(work[w].as) \subseteq PagesOf(Gone.as) \cup back \cup left \cup HeldPages(s)
    BY <2>1, GoneIs, ZenonT(60)
  <2>. QED BY <2>1, <2>2, ReplaceKnown, ZenonT(60)
<1>2. CASE work[w].op # "fork"
  <2>1. /\ work' = [work EXCEPT ![w] = NoCall] /\ leaked' = leaked \cup PagesOf(work[w].as)
        /\ used' = used /\ procs' = procs
    BY <1>2, GiveUpIs, Zenon DEF ExecUndone
  <2>2. \A x \in Workers : x # w => work'[x] = work[x]
    BY <2>1, NoCallIs, WorkIs, Zenon DEF PageInv
  <2>3. ASSUME NEW q \in Procs, NEW x \in PagesOf(procs[q].as) PROVE InSpace(x)'
    BY <2>1, Zenon DEF InSpace
  <2>4. ASSUME NEW y \in Workers, NEW x \in PagesOf(work[y].as) PROVE x \in leaked' \/ InSpace(x)'
    <3>1. CASE y = w
      BY <2>1, <3>1, Zenon
    <3>2. CASE y # w
      BY <2>2, <3>2, ZenonT(30) DEF InSpace
    <3>. QED BY <3>1, <3>2, Zenon
  <2>5. leaked \subseteq leaked'
    BY <2>1, Zenon
  <2>6. \A y \in Workers : Ready(work'[y])
    BY <2>1, NoCallReady, StepReady, ZenonT(30)
  <2>. QED BY <2>1, <2>3, <2>4, <2>5, <2>6, KnownSpaces, ZenonT(60)
<1>. QED BY <1>1, <1>2

LEMMA ExitKnown ==
    ASSUME PageInv, KnownInv, NEW q, NEW p \in Procs, Exit(q, p)
    PROVE  KnownInv'
<1>1. PagesOf(work[p].as) \subseteq PagesOf(Gone.as) \cup {} \cup {} \cup HeldPages(p)
  BY Zenon DEF HeldPages
<1>. QED BY <1>1, ExitIs, GoneIs, ReplaceKnown, ZenonT(60)

LEMMA ClaimKnown ==
    ASSUME PageInv, KnownInv, NEW w \in Workers, Claim(w)
    PROVE  KnownInv'
<1>0. work[w].pc = "stack" /\ work[w].pc \in Mapping /\ work[w].op # "fork" /\ heap_end' = heap_end
  BY ClaimIs, Zenon
<1>1. CASE GiveUp(w)
  BY <1>0, <1>1, GiveUpKnown, ZenonT(30)
<1>2. ASSUME NEW s \in Procs, Claimed(w, s) PROVE KnownInv'
  <2>. DEFINE c == work[w]
              d == work'[w]
  <2>1. /\ procs' = [procs EXCEPT ![s].state = "claimed"] /\ used' = used /\ leaked' = leaked
        /\ work' = [work EXCEPT ![w] = d] /\ d \in CallType(d)
        /\ d.pc = "publish" /\ d.op = c.op /\ d.as = c.as /\ d.todo = c.todo
    BY <1>2, Zenon DEF Claimed
  <2>2. Ready(d)
    <3>1. Ready(c)
      BY Zenon DEF KnownInv
    <3>. HIDE DEF c, d
    <3>2. d.pc # "map" /\ c.pc \in Mapping /\ c.op # "fork"
      BY <1>0, <2>1 DEF c
    <3>. QED BY <2>1, <3>1, <3>2, ZenonT(40) DEF Ready
  <2>3. \A q \in Procs : procs'[q].as = procs[q].as
    BY <2>1, ZenonT(30) DEF PageInv, Types, ProcType
  <2>4. (\A x \in used' : x \in used \/ x \in HeapRange') /\ HeapRange \subseteq HeapRange'
    BY <1>0, <2>1 DEF HeapRange
  <2>. HIDE DEF d
  <2>. QED BY <2>1, <2>2, <2>3, <2>4, KnownCall, ZenonT(60)
<1>. QED BY <1>1, <1>2, ClaimIs, ZenonT(30)

LEMMA PublishKnown ==
    ASSUME PageInv, KnownInv, NEW w \in Workers, Publish(w)
    PROVE  KnownInv'
<1>. DEFINE P == [state |-> "live", as |-> work[w].as]
            s == work[w].slot
<1>1. s \in Procs /\ P \in ProcType /\ P.as = work[w].as /\ Replaced(w, s, P, work[w].see, {}, {})
  BY PublishIs, Zenon
<1>. HIDE DEF P, s
<1>2. PagesOf(work[w].as) \subseteq PagesOf(P.as) \cup {} \cup {} \cup HeldPages(s)
  BY <1>1, Zenon
<1>. QED BY <1>1, <1>2, ReplaceKnown, ZenonT(60)

LEMMA CreateDirectoryKnown ==
    ASSUME Separate, PageInv, KnownInv, NEW w \in Workers, CreateDirectory(w)
    PROVE  KnownInv'
<1>. DEFINE c == work[w]
            dir == pmm_alloc_page(used)
<1>0. /\ c.pc = "dir" /\ c.pc \notin Mapping /\ heap_end' = heap_end
      /\ c \in CallType(c) /\ c.as = NoSpace /\ PagesOf(c.as) = {}
      /\ work = [x \in Workers |-> work[x]]
  <2>1. c.pc = "dir" /\ heap_end' = heap_end
    BY DEF CreateDirectory, heap
  <2>. QED BY <2>1, NoSpacePages, ZenonT(60) DEF PageInv, Types, SpacesSound, Mapping
<1>1. ASSUME dir # 0, used' = used \cup {dir}, procs' = procs, leaked' = leaked,
             work' = [work EXCEPT ![w].as = [NoSpace EXCEPT !.dir = dir], ![w].pc = "map",
                           ![w].todo = IF c.op = "fork" THEN <<>> ELSE Segments(c.prog)]
      PROVE  KnownInv'
  <2>. DEFINE as == [NoSpace EXCEPT !.dir = dir]
              todo == IF c.op = "fork" THEN <<>> ELSE Segments(c.prog)
              d1 == [c EXCEPT !.as = as]
              d2 == [d1 EXCEPT !.pc = "map"]
              d == [d2 EXCEPT !.todo = todo]
  <2>1. dir \in Nat \ {0} /\ c.prog \in Programs
    BY <1>0, <1>1, AllocIs, Sizes, ZenonT(60) DEF Pages, CallType
  <2>2. as \in SpaceType /\ PagesOf(as) = {dir} /\ as.map = NoSpace.map
    BY <2>1, DirectoryIs, ZenonT(60) DEF NoSpace
  <2>3. todo \in Seq(Virt)
    BY <2>1, MemoryAssumption, SMTT(30) DEF Segments
  <2>4. work' = [work EXCEPT ![w] = d]
    BY <1>0, <1>1, Zenon
  <2>. HIDE DEF as, dir
  <2>5. d1 \in CallType(d1) /\ d1.as = as /\ Same(d1, c, {"as"})
    BY <1>0, <2>2, WithSpace, ZenonT(60)
  <2>. HIDE DEF d1
  <2>6. d2 \in CallType(d2) /\ d2.pc = "map" /\ Same(d2, d1, {"pc"})
    BY <2>5, WithPc, Zenon DEF Mapping
  <2>. HIDE DEF d2, todo
  <2>7. d \in CallType(d) /\ d.todo = todo /\ Same(d, d2, {"todo"})
    BY <2>3, <2>6, WithTodo, ZenonT(40)
  <2>. HIDE DEF d
  <2>8. d.as = as /\ d.pc = "map" /\ d.op = c.op
    BY <2>5, <2>6, <2>7, ZenonT(60) DEF Same
  <2>9. \A v \in Virt : as.map[v] = 0
    BY <2>2, Zenon DEF NoSpace
  <2>10. Ready(d)
    <3>. SUFFICES ASSUME c.op # "fork" PROVE Ready(d)
      BY <2>8, ZenonT(40) DEF Ready
    <3>1. d.todo = Segments(c.prog) /\ d.todo \in Seq(Virt) /\ Stack \in Seq(Virt)
      BY <2>3, <2>7, MemoryAssumption, ZenonT(60) DEF todo
    <3>2. /\ \A i \in 1 .. Len(d.todo) : d.as.map[d.todo[i]] = 0
          /\ \A j \in 1 .. Len(Stack) : d.as.map[Stack[j]] = 0
      <4>1. /\ \A i \in 1 .. Len(d.todo) : d.todo[i] \in Virt
            /\ \A j \in 1 .. Len(Stack) : Stack[j] \in Virt
        BY <3>1, SMTT(30)
      <4>. QED BY <2>8, <2>9, <4>1, ZenonT(60)
    <3>3. /\ \A i, j \in 1 .. Len(d.todo) : i # j => d.todo[i] # d.todo[j]
          /\ \A i \in 1 .. Len(d.todo), j \in 1 .. Len(Stack) : d.todo[i] # Stack[j]
      <4>. DEFINE T == Segments(c.prog)
      <4>1. /\ \A i, j \in 1 .. Len(T) : i # j => T[i] # T[j]
            /\ \A i \in 1 .. Len(T), j \in 1 .. Len(Stack) : T[i] # Stack[j]
        BY <2>1, Zenon DEF Separate
      <4>2. d.todo = T
        BY <3>1, Zenon
      <4>. HIDE DEF T
      <4>. QED BY <4>1, <4>2, ZenonT(40)
    <3>. QED BY <3>2, <3>3, Zenon DEF Ready
  <2>11. work'[w] = d /\ \A x \in Workers : x # w => work'[x] = work[x]
    BY <1>0, <2>4, ZenonT(30)
  <2>12. \A x \in used' : x \in used \/ InSpace(x)'
    BY <1>1, <2>2, <2>8, <2>11, ZenonT(60) DEF InSpace
  <2>13. ASSUME NEW q \in Procs, NEW x \in PagesOf(procs[q].as) PROVE InSpace(x)'
    BY <1>1 DEF InSpace
  <2>14. ASSUME NEW y \in Workers, NEW x \in PagesOf(work[y].as) PROVE InSpace(x)'
    <3>1. y # w
      BY <1>0
    <3>. QED BY <2>11, <3>1, ZenonT(60) DEF InSpace
  <2>15. leaked \subseteq leaked'
    BY <1>1
  <2>16. \A y \in Workers : Ready(work'[y])
    BY <2>4, <2>7, <2>10, StepReady, ZenonT(60)
  <2>. QED BY <1>0, <2>12, <2>13, <2>14, <2>15, <2>16, KnownSpaces, ZenonT(60)
<1>2. ASSUME work' = [work EXCEPT ![w] = NoCall], used' = used, procs' = procs, leaked' = leaked
      PROVE  KnownInv'
  BY <1>0, <1>2, EndKnown, ZenonT(60)
<1>3. CASE dir = 0 /\ c.op = "fork"
  <2>. DEFINE s == work[w].slot
  <2>1. s \in Procs /\ Replaced(w, s, Gone, NoView, {}, {})
    BY <1>3, DirectoryUndone, ZenonT(60)
  <2>. HIDE DEF s
  <2>2. PagesOf(work[w].as) \subseteq PagesOf(Gone.as) \cup {} \cup {} \cup HeldPages(s)
    BY <1>0, Zenon
  <2>. QED BY <2>1, <2>2, GoneIs, ReplaceKnown, ZenonT(60)
<1>. QED BY <1>1, <1>2, <1>3, ZenonT(60) DEF CreateDirectory

LEMMA LoadedKnown ==
    ASSUME PageInv, KnownInv, NEW w \in Workers, Loaded(w), Separate
    PROVE  KnownInv'
<1>0. /\ work[w].pc = "map" /\ work[w].op = "exec" /\ heap_end' = heap_end
      /\ work[w].pc \in Mapping
  BY LoadedIs, Zenon DEF Mapping
<1>1. CASE GiveUp(w)
  BY <1>0, <1>1, GiveUpKnown, ZenonT(30)
<1>2. CASE LoadedOk(w)
  <2>. DEFINE d == work'[w]
  <2>1. /\ d \in CallType(d) /\ work' = [work EXCEPT ![w] = d]
        /\ d.as = work[w].as /\ d.todo = Stack /\ d.pc = "stack"
        /\ used' = used /\ procs' = procs /\ leaked' = leaked
    BY <1>2 DEF LoadedOk
  <2>. HIDE DEF d
  <2>2. Ready(work[w])
    BY Zenon DEF KnownInv
  <2>3. \A j \in 1 .. Len(Stack) : d.as.map[Stack[j]] = 0
    BY <1>0, <2>1, <2>2, ZenonT(40) DEF Ready
  <2>4. Ready(d)
    BY <2>1, <2>3, ZenonT(40) DEF Ready, Separate
  <2>5. /\ \A x \in used' : x \in used \/ x \in HeapRange'
        /\ HeapRange \subseteq HeapRange'
    BY <1>0, <2>1, ZenonT(30) DEF HeapRange
  <2>. QED BY <2>1, <2>4, <2>5, KnownCall, ZenonT(60)
<1>. QED BY <1>1, <1>2, LoadedIs, Zenon

LEMMA TailIs ==
    ASSUME NEW S, NEW s \in Seq(S), s # <<>>
    PROVE  /\ Head(s) = s[1] /\ 1 \in 1 .. Len(s) /\ Len(Tail(s)) = Len(s) - 1
           /\ \A i \in 1 .. Len(Tail(s)) : Tail(s)[i] = s[i + 1] /\ i + 1 \in 1 .. Len(s)
OBVIOUS

\* A page mapped, and the rest of the list is ready still.
LEMMA StillReady ==
    ASSUME NEW c, NEW d, c.todo \in Seq(Virt), c.todo # <<>>, c.as \in SpaceType, NEW phys,
           Ready(c), c.pc \in Mapping, c.op # "fork", d.pc = c.pc, d.op = c.op,
           d.todo = Tail(c.todo), d.as.map = [c.as.map EXCEPT ![Head(c.todo)] = phys]
    PROVE  Ready(d)
<1>. DEFINE n == Len(d.todo)
<1>1. /\ Head(c.todo) = c.todo[1] /\ 1 \in 1 .. Len(c.todo)
      /\ n \in Nat
      /\ \A i \in 1 .. n : d.todo[i] = c.todo[i + 1] /\ i + 1 \in 1 .. Len(c.todo) /\ i + 1 # 1
      /\ \A i, j \in 1 .. n : i # j => i + 1 # j + 1
  <2>1. /\ Head(c.todo) = c.todo[1] /\ 1 \in 1 .. Len(c.todo)
        /\ \A i \in 1 .. n : d.todo[i] = c.todo[i + 1] /\ i + 1 \in 1 .. Len(c.todo)
    BY TailIs, SMTT(30)
  <2>2. n \in Nat
    <3>1. Tail(c.todo) \in Seq(Virt)
      OBVIOUS
    <3>. QED BY <3>1, SMTT(30)
  <2>. HIDE DEF n
  <2>3. ASSUME NEW i \in 1 .. n, NEW j \in 1 .. n, i # j PROVE i + 1 # 1 /\ i + 1 # j + 1
    BY <2>2, <2>3, SMTT(30)
  <2>4. ASSUME NEW i \in 1 .. n PROVE i + 1 # 1
    BY <2>2, SMTT(30)
  <2>. QED BY <2>1, <2>2, <2>3, <2>4, ZenonT(60)
<1>2. /\ \A i, j \in 1 .. Len(c.todo) : i # j => c.todo[i] # c.todo[j]
      /\ \A i \in 1 .. Len(c.todo) : c.as.map[c.todo[i]] = 0
      /\ c.pc = "map" =>
           /\ \A j \in 1 .. Len(Stack) : c.as.map[Stack[j]] = 0
           /\ \A i \in 1 .. Len(c.todo), j \in 1 .. Len(Stack) : c.todo[i] # Stack[j]
  BY DEF Ready
<1>3. c.as.map = [v \in Virt |-> c.as.map[v]]
  BY Zenon DEF SpaceType
<1>4. ASSUME NEW v \in Virt, v # c.todo[1] PROVE d.as.map[v] = c.as.map[v]
  BY <1>1, <1>3, <1>4, ZenonT(60)
<1>5. ASSUME NEW i \in 1 .. n, NEW j \in 1 .. n, i # j PROVE d.todo[i] # d.todo[j]
  <2>1. /\ d.todo[i] = c.todo[i + 1] /\ i + 1 \in 1 .. Len(c.todo) /\ i + 1 # j + 1
        /\ d.todo[j] = c.todo[j + 1] /\ j + 1 \in 1 .. Len(c.todo)
    BY <1>1, <1>5, ZenonT(40)
  <2>. QED BY <1>2, <2>1, ZenonT(60)
<1>6. ASSUME NEW i \in 1 .. n PROVE d.as.map[d.todo[i]] = 0
  <2>1. d.todo[i] = c.todo[i + 1] /\ i + 1 \in 1 .. Len(c.todo) /\ i + 1 # 1
    BY <1>1, ZenonT(60)
  <2>2. c.todo[i + 1] \in Virt /\ c.todo[i + 1] # c.todo[1] /\ c.as.map[c.todo[i + 1]] = 0
    BY <1>1, <1>2, <2>1, SMTT(30)
  <2>. QED BY <1>4, <2>1, <2>2, ZenonT(60)
<1>7. ASSUME c.pc = "map", NEW j \in 1 .. Len(Stack) PROVE d.as.map[Stack[j]] = 0
  <2>1. Stack[j] \in Virt
    BY MemoryAssumption
  <2>2. Stack[j] # c.todo[1] /\ c.as.map[Stack[j]] = 0
    BY <1>1, <1>2, <1>7, ZenonT(60)
  <2>. QED BY <1>4, <2>1, <2>2, ZenonT(60)
<1>8. ASSUME c.pc = "map", NEW i \in 1 .. n, NEW j \in 1 .. Len(Stack) PROVE d.todo[i] # Stack[j]
  <2>1. d.todo[i] = c.todo[i + 1] /\ i + 1 \in 1 .. Len(c.todo)
    BY <1>1
  <2>. QED BY <1>2, <1>8, <2>1, ZenonT(60)
<1>. QED BY <1>5, <1>6, <1>7, <1>8, ZenonT(60) DEF Ready

LEMMA MapPageKnown ==
    ASSUME PageInv, KnownInv, NEW w \in Workers, MapPage(w)
    PROVE  KnownInv'
<1>0. work[w].pc \in Mapping /\ ~AllMapped(w)
  BY MapPageIs, Zenon DEF MapPage
<1>1. CASE GiveUp(w) /\ heap_end' = heap_end
  BY <1>0, <1>1, GiveUpKnown, ZenonT(60)
<1>2. CASE Mapped(w)
  <2>. DEFINE c == work[w]
              d == work'[w]
              as == c.as
              v == NextPage(w)
              phys == pmm_alloc_page(used)
              m == vmm_map_user_page(used \cup {phys}, as, v, phys)
  <2>1. /\ phys \in Pages \ used /\ v \in Virt /\ m.ok
        /\ used' = m.used /\ d.as = m.as
        /\ work' = [work EXCEPT ![w] = d] /\ d \in CallType(d)
        /\ d.op = c.op /\ d.pc = c.pc
        /\ d.todo = IF c.op = "fork" THEN c.todo ELSE Tail(c.todo)
        /\ procs' = procs /\ leaked' = leaked /\ heap_end' = heap_end
    BY <1>2, Zenon DEF Mapped
  <2>2. /\ as \in SpaceType /\ NoSharing(as) /\ PagesOf(as) \subseteq used /\ 0 \in used
        /\ c \in CallType(c) /\ Ready(c)
    BY <1>0, Zenon DEF PageInv, Types, CallType, SpacesSound, Inside, Owned, KnownInv
  <2>3. c.op # "fork" => c.todo \in Seq(Virt) /\ c.todo # <<>> /\ v = Head(c.todo)
    BY <1>0, <2>2, Zenon DEF AllMapped, NextPage, CallType
  <2>4. as.map[v] = 0
    <3>1. CASE c.op = "fork"
      <4>1. v \in Uncopied(w)
        BY <1>0, <3>1, NextIs, ZenonT(60)
      <4>. QED BY <4>1, Zenon DEF Uncopied
    <3>2. CASE c.op # "fork"
      <4>1. v = c.todo[1] /\ 1 \in 1 .. Len(c.todo)
        BY <2>3, <3>2, TailIs, ZenonT(60)
      <4>. QED BY <1>0, <2>2, <3>2, <4>1, ZenonT(60) DEF Ready
    <3>. QED BY <3>1, <3>2, Zenon
  <2>. HIDE DEF as, v, phys
  <2>5. used \subseteq m.used
    BY <2>1, <2>2, MapIs, ZenonT(60)
  <2>6. m.used \ used \subseteq PagesOf(m.as) /\ PagesOf(as) \subseteq PagesOf(m.as)
    BY <2>1, <2>2, <2>4, MapIs, ZenonT(60)
  <2>7. m.as.map = [as.map EXCEPT ![v] = phys]
    BY <2>1, <2>2, ZenonT(60) DEF vmm_map_user_page, SpaceType
  <2>. HIDE DEF m
  <2>8. Ready(d)
    <3>1. CASE c.op = "fork"
      BY <2>1, <3>1 DEF Ready
    <3>2. CASE c.op # "fork"
      <4>1. /\ d.todo = Tail(c.todo) /\ d.as.map = [c.as.map EXCEPT ![Head(c.todo)] = phys]
            /\ c.as \in SpaceType /\ c.todo \in Seq(Virt) /\ c.todo # <<>>
        BY <2>1, <2>2, <2>3, <2>7, <3>2, ZenonT(60) DEF as
      <4>. HIDE DEF c, d
      <4>2. c.pc \in Mapping
        BY <1>0 DEF c
      <4>. QED BY <2>1, <2>2, <3>2, <4>1, <4>2, StillReady, ZenonT(60)
    <3>. QED BY <3>1, <3>2, ZenonT(60)
  <2>9. \A x \in Workers : x # w => work'[x] = work[x]
    <3>. HIDE DEF d
    <3>. QED BY <2>1, WorkIs, ZenonT(60) DEF PageInv
  <2>10. ASSUME NEW x \in PagesOf(m.as) PROVE InSpace(x)'
    BY <2>1 DEF InSpace
  <2>11. ASSUME NEW x \in used' PROVE x \in used \/ InSpace(x)'
    BY <2>1, <2>6, <2>10, ZenonT(60)
  <2>12. ASSUME NEW q \in Procs, NEW x \in PagesOf(procs[q].as) PROVE InSpace(x)'
    BY <2>1 DEF InSpace
  <2>13. ASSUME NEW y \in Workers, NEW x \in PagesOf(work[y].as) PROVE InSpace(x)'
    <3>1. CASE y = w
      BY <2>6, <2>10, <3>1, ZenonT(60) DEF as
    <3>2. CASE y # w
      BY <2>9, <3>2, ZenonT(60) DEF InSpace
    <3>. QED BY <3>1, <3>2
  <2>14. leaked \subseteq leaked'
    BY <2>1
  <2>. HIDE DEF d
  <2>15. \A y \in Workers : Ready(work'[y])
    BY <2>1, <2>8, StepReady, ZenonT(60)
  <2>. QED BY <2>1, <2>11, <2>12, <2>13, <2>14, <2>15, KnownSpaces, ZenonT(60)
<1>. QED BY <1>1, <1>2, MapPageIs, ZenonT(60)

LEMMA KnownInit == Init => KnownInv
<1>. SUFFICES ASSUME Init PROVE KnownInv
  OBVIOUS
<1>. DEFINE B == Call("none", "boot", Shell, 0, 0, 0)
<1>1. /\ used = 0 .. HeapPages /\ heap_end = 1 + HeapPages
      /\ work = [w \in Workers |-> IF w = kmain THEN B ELSE NoCall]
  BY Zenon DEF Init
<1>2. B.pc \notin Mapping /\ NoCall.pc \notin Mapping
  BY NoCallIs, Zenon DEF Call, Mapping
<1>. HIDE DEF B
<1>3. \A w \in Workers : Ready(work[w])
  BY <1>1, <1>2, ZenonT(60) DEF Ready
<1>4. \A x \in used : x = 0 \/ x \in HeapRange
  BY <1>1, Sizes DEF HeapRange
<1>. QED BY <1>3, <1>4, Zenon DEF KnownInv, Known

LEMMA KnownStep == Separate /\ PageInv /\ KnownInv /\ [Next]_vars => KnownInv'
<1>. SUFFICES ASSUME Separate, PageInv, KnownInv, [Next]_vars PROVE KnownInv'
  OBVIOUS
<1>1. ASSUME NEW size \in FatSizes, MountFat(size) PROVE KnownInv'
  BY <1>1, MountKnown, ZenonT(60)
<1>2. ASSUME NEW w \in Workers, CreateDirectory(w) PROVE KnownInv'
  BY <1>2, CreateDirectoryKnown, ZenonT(30)
<1>3. ASSUME NEW w \in Workers, MapPage(w) PROVE KnownInv'
  BY <1>3, MapPageKnown
<1>4. ASSUME NEW w \in Workers, Loaded(w) PROVE KnownInv'
  BY <1>4, LoadedKnown, ZenonT(60)
<1>5. ASSUME NEW w \in Workers, Claim(w) \/ Publish(w) PROVE KnownInv'
  BY <1>5, ClaimKnown, PublishKnown
<1>6. ASSUME NEW p \in Procs, Fork(p) PROVE KnownInv'
  BY <1>6, ForkKnown
<1>7. ASSUME NEW q \in Procs, NEW p \in Procs, Exit(q, p) PROVE KnownInv'
  BY <1>7, ExitKnown
<1>8. ASSUME NEW p \in Procs, ExecRead(p) PROVE KnownInv'
  BY <1>8, ExecReadKnown
<1>9. ASSUME NEW p \in Procs, WriteFileDone(p) PROVE KnownInv'
  BY <1>9, WriteDoneKnown
<1>10. ASSUME NEW p \in Procs, NEW g \in Programs, Exec(p, g) PROVE KnownInv'
  BY <1>10, ExecKnown, ZenonT(60)
<1>11. ASSUME NEW p \in Procs, NEW len \in Lens, WriteFile(p, len) PROVE KnownInv'
  BY <1>11, WriteFileKnown, ZenonT(30)
<1>12. CASE \/ UNCHANGED vars
            \/ \E p \in Procs, vs \in Stores : copy_to_user(p, vs)
  <2>1. used' = used /\ heap_end' = heap_end /\ procs' = procs /\ work' = work /\ leaked' = leaked
    BY <1>12 DEF vars, heap, copy_to_user
  <2>. QED BY <2>1, ZenonT(60) DEF KnownInv, Known, InSpace, HeapRange, Ready
<1>. QED
  BY <1>1, <1>2, <1>3, <1>4, <1>5, <1>6, <1>7, <1>8, <1>9, <1>10, <1>11, <1>12, ZenonT(60) DEF Next

\* Every page whose bit is set is the kernel's, the heap's, in the space of a
\* process or of a call, or one of those LeaksKnown lists: nothing else is lost,
\* wherever a call fails, its process is killed, or the slot it claimed is killed
\* and taken by another.  This is the half of LeaksKnown that is about pages.
THEOREM NoPageForgotten == Separate /\ Spec => []PagesKnown
<1>1. ASSUME PageInv, KnownInv PROVE PagesKnown
  <2>0. Types /\ SpacesSound /\ Inside
    BY <1>1 DEF PageInv
  <2>. DEFINE all == UNION {PagesOf(a[3]) : a \in Spaces}
  <2>1. ASSUME NEW x, InSpace(x) PROVE x \in all
    <3>1. ASSUME NEW p \in Procs, x \in PagesOf(procs[p].as) PROVE x \in all
      <4>1. procs[p].state = "live"
        BY <2>0, <3>1, NoSpacePages, ZenonT(60) DEF SpacesSound
      <4>2. <<"of", p, procs[p].as>> \in Spaces
        BY <4>1, Zenon DEF Spaces, Running
      <4>. QED BY <3>1, <4>2
    <3>2. ASSUME NEW w \in Workers, x \in PagesOf(work[w].as) PROVE x \in all
      <4>1. work[w].as.dir # 0
        BY <2>0, <3>2, NoSpacePages, ZenonT(60) DEF SpacesSound, NoSharing
      <4>2. <<"in", w, work[w].as>> \in Spaces
        BY <4>1, Zenon DEF Spaces, Building
      <4>. QED BY <3>2, <4>2, SMTT(20)
    <3>. QED BY <2>1, <3>1, <3>2, Zenon DEF InSpace
  <2>2. ASSUME NEW x \in all PROVE x \in used
    <3>1. PICK a \in Spaces : x \in PagesOf(a[3])
      OBVIOUS
    <3>2. CASE \E p \in Running : a = <<"of", p, procs[p].as>>
      BY <2>0, <3>1, <3>2, SMTT(30) DEF Inside, Owned, Running
    <3>3. CASE \E w \in Building : a = <<"in", w, work[w].as>>
      BY <2>0, <3>1, <3>3, SMTT(30) DEF Inside, Owned, Building
    <3>. QED BY <3>2, <3>3, ZenonT(60) DEF Spaces
  <2>. HIDE DEF all
  <2>3. 0 \in used /\ HeapRange \subseteq used /\ leaked \subseteq used
    BY <2>0, ZenonT(30) DEF Types, Inside
  <2>4. used = {0} \cup HeapRange \cup leaked \cup all
    BY <1>1, <2>1, <2>2, <2>3, ZenonT(60) DEF KnownInv, Known
  <2>. QED BY <2>4 DEF PagesKnown, all
<1>2. ASSUME Separate PROVE PageInv /\ KnownInv /\ [Next]_vars => (PageInv /\ KnownInv)'
  BY <1>2, PagesStep, KnownStep, ZenonT(30)
<1>3. ASSUME Separate PROVE Spec => []PagesKnown
  BY <1>1, <1>2, <1>3, PagesInit, KnownInit, PTL DEF Spec
<1>. QED BY <1>3
=============================================================================
