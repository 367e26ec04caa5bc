----------------------------- MODULE HeapProofs -----------------------------
(***************************************************************************)
(* Proofs about the kernel heap of Memory: what kmalloc and kfree do to    *)
(* any list of blocks, for every size of page, header and heap, and the    *)
(* invariant that every block in use is the buffer of one call, the FAT or *)
(* known to be lost.                                                       *)
(***************************************************************************)
EXTENDS Memory, WellFoundedInduction, TLAPS

-----------------------------------------------------------------------------
(* Least and greatest elements, and the sizes.                             *)

\* A set of naturals has a least element.
LEMMA MinIs ==
    ASSUME NEW S \in SUBSET Nat, S # {}
    PROVE  Min(S) \in S /\ \A y \in S : Min(S) <= y
<1>. DEFINE R == OpToRel(<, Nat)
<1>1. IsWellFoundedOn(R, Nat)
  BY NatLessThanWellFounded, Zenon
<1>2. \E x \in S : \A y \in S : ~(<<y, x>> \in R)
  <2>. HIDE DEF R
  <2>. QED BY <1>1, WFMin, Zenon
<1>3. PICK x \in S : \A y \in S : ~(<<y, x>> \in R)
  BY <1>2, Zenon
<1>4. \A y \in S : x <= y
  <2>. SUFFICES ASSUME NEW y \in S, ~(x <= y) PROVE FALSE
    OBVIOUS
  <2>1. <<y, x>> \in Nat \X Nat /\ y < x
    OBVIOUS
  <2>2. <<y, x>>[1] < <<y, x>>[2]
    BY <2>1
  <2>3. <<y, x>> \in R
    BY <2>1, <2>2, Zenon DEF OpToRel
  <2>. QED BY <1>3, <2>3, Zenon
<1>. QED BY <1>4, Zenon DEF Min

\* A bounded one has a greatest.
LEMMA MaxIs ==
    ASSUME NEW n \in Nat, NEW S \in SUBSET (0 .. n), S # {}
    PROVE  Max(S) \in S /\ \A y \in S : Max(S) >= y
<1>. DEFINE T == {n - y : y \in S}
<1>1. T \in SUBSET Nat /\ T # {}
  <2>1. \A y \in S : n - y \in Nat
    OBVIOUS
  <2>. QED BY <2>1, Zenon
<1>2. Min(T) \in T /\ \A y \in T : Min(T) <= y
  BY <1>1, MinIs, Zenon
<1>3. PICK x \in S : Min(T) = n - x
  BY <1>2, Zenon
<1>4. \A y \in S : x >= y
  BY <1>2, <1>3
<1>. QED BY <1>4, Zenon DEF Max

LEMMA Sizes ==
    /\ Total \in Nat /\ PageSize \in Nat /\ Header \in Nat /\ HeapPages \in Nat /\ HEAP_MAX \in Nat
    /\ 1 <= HeapPages /\ 1 + HeapPages <= HEAP_MAX /\ HEAP_MAX <= Total
    /\ 0 < Header /\ Header < PageSize
BY MemoryAssumption

\* heap_expand takes the free pages right after the heap, as far as they go.
Wanted(size) == (size + PageSize - 1) \div PageSize
Expanded(got, size) ==
    [blocks |-> blocks, end |-> heap_end + got, used |-> used \cup (heap_end .. heap_end + got - 1),
     ok |-> (got = Wanted(size)), ptr |-> 0]

LEMMA ExpandIs ==
    ASSUME heap_end \in Nat, NEW size \in Nat
    PROVE  \E got \in 0 .. Wanted(size) :
              /\ heap_expand(Heap, size) = Expanded(got, size)
              /\ \A p \in heap_end .. heap_end + got - 1 : p < HEAP_MAX /\ p \notin used
<1>. DEFINE n == Wanted(size)
            S == {k \in 0 .. n : \A p \in heap_end .. heap_end + k - 1 : p < HEAP_MAX /\ p \notin used}
<1>1. n \in Nat
  BY Sizes DEF Wanted
<1>. HIDE DEF n
<1>2. S \in SUBSET (0 .. n) /\ 0 \in S
  BY <1>1
<1>3. Max(S) \in S
  BY <1>1, <1>2, MaxIs, Zenon
<1>4. heap_expand(Heap, size) = Expanded(Max(S), size)
  <2>1. Heap.end = heap_end /\ Heap.used = used
    BY DEF Heap
  <2>2. heap_expand(Heap, size)
          = [Heap EXCEPT !.end = heap_end + Max(S),
                         !.used = used \cup (heap_end .. heap_end + Max(S) - 1),
                         !.ok = (Max(S) = n)]
    BY <2>1, Zenon DEF heap_expand, n, Wanted
  <2>. HIDE DEF S
  <2>. QED BY <2>2, Zenon DEF Heap, Expanded, n
<1>. QED BY <1>1, <1>3, <1>4, Zenon DEF n

-----------------------------------------------------------------------------
(* Lists of blocks.                                                        *)

LEMMA ConcatIs ==
    ASSUME NEW S, NEW s \in Seq(S), NEW t \in Seq(S)
    PROVE  /\ s \o t \in Seq(S) /\ Len(s \o t) = Len(s) + Len(t)
           /\ \A i \in 1 .. Len(s) + Len(t) :
                (s \o t)[i] = IF i <= Len(s) THEN s[i] ELSE t[i - Len(s)]
OBVIOUS

BlockType == [at : Nat, size : Nat, free : BOOLEAN]
EndOf(b) == b.at + Header + b.size

\* The blocks lie one after the other between the heap's start and end.
Ordered(bs, end) ==
    /\ bs \in Seq(BlockType)
    /\ \A i \in 1 .. Len(bs) : PageSize <= bs[i].at /\ EndOf(bs[i]) <= end
    /\ \A i, j \in 1 .. Len(bs) : i < j => EndOf(bs[i]) <= bs[j].at

\* r is bs with blocks a and b in the place of block i.
SplitAt(r, bs, i, a, b) ==
    /\ r \in Seq(BlockType) /\ Len(r) = Len(bs) + 1
    /\ \A j \in 1 .. Len(r) :
         r[j] = IF j < i THEN bs[j] ELSE IF j = i THEN a ELSE IF j = i + 1 THEN b ELSE bs[j - 1]

\* r is bs with block a in the place of blocks i and i + 1.
JoinAt(r, bs, i, a) ==
    /\ r \in Seq(BlockType) /\ Len(r) = Len(bs) - 1
    /\ \A j \in 1 .. Len(r) : r[j] = IF j < i THEN bs[j] ELSE IF j = i THEN a ELSE bs[j + 1]

LEMMA SplitIs ==
    ASSUME NEW bs \in Seq(BlockType), NEW i \in 1 .. Len(bs), NEW a \in BlockType, NEW b \in BlockType
    PROVE  SplitAt(SubSeq(bs, 1, i - 1) \o <<a, b>> \o SubSeq(bs, i + 1, Len(bs)), bs, i, a, b)
<1>. DEFINE T == BlockType
<1>. HIDE DEF T
<1>0. bs \in Seq(T) /\ a \in T /\ b \in T
  BY DEF T
<1>. DEFINE x == SubSeq(bs, 1, i - 1)
            z == SubSeq(bs, i + 1, Len(bs))
            y == x \o <<a, b>>
            r == y \o z
<1>1. x \in Seq(T) /\ Len(x) = i - 1 /\ \A j \in 1 .. i - 1 : x[j] = bs[j]
  BY <1>0
<1>2. z \in Seq(T) /\ Len(z) = Len(bs) - i /\ \A j \in 1 .. Len(bs) - i : z[j] = bs[i + j]
  BY <1>0
<1>. HIDE DEF x, z
<1>3. /\ y \in Seq(T) /\ Len(y) = i + 1 /\ y[i] = a /\ y[i + 1] = b
      /\ \A j \in 1 .. i - 1 : y[j] = bs[j]
  <2>. DEFINE t == <<a, b>>
  <2>1. t \in Seq(T) /\ Len(t) = 2 /\ t[1] = a /\ t[2] = b
    BY <1>0
  <2>. HIDE DEF t
  <2>2. /\ x \o t \in Seq(T) /\ Len(x \o t) = Len(x) + Len(t)
        /\ \A j \in 1 .. Len(x) + Len(t) : (x \o t)[j] = IF j <= Len(x) THEN x[j] ELSE t[j - Len(x)]
    BY <1>1, <2>1, ConcatIs, Zenon
  <2>3. y = x \o t
    BY DEF t
  <2>. HIDE DEF y
  <2>4. y \in Seq(T) /\ Len(y) = i + 1 /\ \A j \in 1 .. i - 1 : y[j] = bs[j]
    BY <1>1, <2>1, <2>2, <2>3
  <2>5. y[i] = t[1] /\ y[i + 1] = t[2]
    <3>1. /\ i \in 1 .. Len(x) + Len(t) /\ ~(i <= Len(x)) /\ i - Len(x) = 1
          /\ i + 1 \in 1 .. Len(x) + Len(t) /\ ~(i + 1 <= Len(x)) /\ i + 1 - Len(x) = 2
      BY <1>0, <1>1, <2>1
    <3>2. y[i] = t[i - Len(x)] /\ y[i + 1] = t[i + 1 - Len(x)]
      BY <2>2, <2>3, <3>1
    <3>. QED BY <3>1, <3>2
  <2>. QED BY <2>1, <2>4, <2>5
<1>. HIDE DEF y
<1>4. /\ r \in Seq(T) /\ Len(r) = Len(bs) + 1
      /\ \A j \in 1 .. Len(r) : r[j] = IF j <= i + 1 THEN y[j] ELSE z[j - (i + 1)]
  <2>1. /\ y \o z \in Seq(T) /\ Len(y \o z) = Len(y) + Len(z)
        /\ \A j \in 1 .. Len(y) + Len(z) : (y \o z)[j] = IF j <= Len(y) THEN y[j] ELSE z[j - Len(y)]
    BY <1>2, <1>3, ConcatIs, Zenon
  <2>. QED BY <1>2, <1>3, <2>1, SMTT(30)
<1>. HIDE DEF r
<1>5. ASSUME NEW j \in 1 .. Len(r)
      PROVE  r[j] = IF j < i THEN bs[j] ELSE IF j = i THEN a ELSE IF j = i + 1 THEN b ELSE bs[j - 1]
  <2>1. CASE j <= i + 1
    BY <1>3, <1>4, <2>1
  <2>2. CASE j > i + 1
    <3>1. j - (i + 1) \in 1 .. Len(bs) - i /\ i + (j - (i + 1)) = j - 1
      BY <1>4, <2>2
    <3>2. r[j] = z[j - (i + 1)]
      BY <1>4, <2>2
    <3>3. z[j - (i + 1)] = bs[j - 1]
      BY <1>2, <3>1, ZenonT(30)
    <3>. QED BY <2>2, <3>2, <3>3
  <2>. QED BY <2>1, <2>2
<1>. QED BY <1>4, <1>5, Zenon DEF SplitAt, T, r, x, y, z

LEMMA JoinIs ==
    ASSUME NEW bs \in Seq(BlockType), NEW i \in 1 .. Len(bs) - 1, NEW a \in BlockType
    PROVE  JoinAt(SubSeq(bs, 1, i - 1) \o <<a>> \o SubSeq(bs, i + 2, Len(bs)), bs, i, a)
<1>. DEFINE T == BlockType
<1>. HIDE DEF T
<1>0. bs \in Seq(T) /\ a \in T
  BY DEF T
<1>. DEFINE x == SubSeq(bs, 1, i - 1)
            z == SubSeq(bs, i + 2, Len(bs))
            y == x \o <<a>>
            r == y \o z
<1>1. x \in Seq(T) /\ Len(x) = i - 1 /\ \A j \in 1 .. i - 1 : x[j] = bs[j]
  BY <1>0
<1>2. z \in Seq(T) /\ Len(z) = Len(bs) - i - 1 /\ \A j \in 1 .. Len(bs) - i - 1 : z[j] = bs[i + 1 + j]
  BY <1>0
<1>. HIDE DEF x, z
<1>3. /\ y \in Seq(T) /\ Len(y) = i /\ y[i] = a
      /\ \A j \in 1 .. i - 1 : y[j] = bs[j]
  BY <1>0, <1>1, SMTT(30)
<1>. HIDE DEF y
<1>4. /\ r \in Seq(T) /\ Len(r) = Len(bs) - 1
      /\ \A j \in 1 .. Len(r) : r[j] = IF j <= i THEN y[j] ELSE z[j - i]
  <2>1. /\ y \o z \in Seq(T) /\ Len(y \o z) = Len(y) + Len(z)
        /\ \A j \in 1 .. Len(y) + Len(z) : (y \o z)[j] = IF j <= Len(y) THEN y[j] ELSE z[j - Len(y)]
    BY <1>2, <1>3, ConcatIs, ZenonT(60)
  <2>. QED BY <1>2, <1>3, <2>1
<1>. HIDE DEF r
<1>5. ASSUME NEW j \in 1 .. Len(r)
      PROVE  r[j] = IF j < i THEN bs[j] ELSE IF j = i THEN a ELSE bs[j + 1]
  <2>1. CASE j <= i
    BY <1>3, <1>4, <2>1
  <2>2. CASE j > i
    <3>1. j - i \in 1 .. Len(bs) - i - 1 /\ i + 1 + (j - i) = j + 1
      BY <1>4, <2>2
    <3>2. r[j] = z[j - i]
      <4>1. ~(j <= i)
        BY <2>2
      <4>. QED BY <1>4, <4>1, Zenon
    <3>3. z[j - i] = bs[j + 1]
      BY <1>2, <3>1
    <3>. QED BY <2>2, <3>2, <3>3
  <2>. QED BY <2>1, <2>2
<1>. QED BY <1>4, <1>5, Zenon DEF JoinAt, T, r, x, y, z

\* A block in use at p with room for l; what a new list keeps of an old one.
Has(bs, p, l) == \E i \in 1 .. Len(bs) : bs[i].at = p /\ ~bs[i].free /\ bs[i].size >= l
Keeps(r, bs) == \A p, l : Has(bs, p, l) => Has(r, p, l)

LEMMA BlockIs ==
    ASSUME NEW a \in Nat, NEW s \in Nat, NEW f \in BOOLEAN
    PROVE  LET b == Block(a, s, f)
           IN  b \in BlockType /\ b.at = a /\ b.size = s /\ b.free = f /\ EndOf(b) = a + Header + s
BY DEF Block, BlockType, EndOf

LEMMA BlocksAre ==
    ASSUME NEW bs, NEW end, Ordered(bs, end), NEW i \in 1 .. Len(bs)
    PROVE  /\ bs[i] \in BlockType /\ bs[i].at \in Nat /\ bs[i].size \in Nat /\ bs[i].free \in BOOLEAN
           /\ PageSize <= bs[i].at /\ bs[i].at + Header + bs[i].size <= end
           /\ EndOf(bs[i]) = bs[i].at + Header + bs[i].size
<1>1. bs \in Seq(BlockType)
  BY DEF Ordered
<1>2. bs[i] \in BlockType
  BY <1>1
<1>3. PageSize <= bs[i].at /\ EndOf(bs[i]) <= end
  BY DEF Ordered
<1>. QED BY <1>2, <1>3 DEF BlockType, EndOf

\* A block begins where no other does.
LEMMA StartsDiffer ==
    ASSUME NEW bs, NEW end, Ordered(bs, end),
           NEW i \in 1 .. Len(bs), NEW j \in 1 .. Len(bs), bs[i].at = bs[j].at
    PROVE  i = j
<1>. DEFINE ai == bs[i].at  aj == bs[j].at  si == bs[i].size  sj == bs[j].size
<1>1. /\ ai \in Nat /\ aj \in Nat /\ si \in Nat /\ sj \in Nat
      /\ i < j => ai + Header + si <= aj
      /\ j < i => aj + Header + sj <= ai
  <2>1. bs[i].at \in Nat /\ bs[j].at \in Nat /\ bs[i].size \in Nat /\ bs[j].size \in Nat
    BY BlocksAre
  <2>2. EndOf(bs[i]) = bs[i].at + Header + bs[i].size /\ EndOf(bs[j]) = bs[j].at + Header + bs[j].size
    BY BlocksAre
  <2>. QED BY <2>1, <2>2 DEF Ordered
<1>2. ai = aj
  OBVIOUS
<1>3. i \in Nat /\ j \in Nat
  <2>1. Len(bs) \in Nat
    BY DEF Ordered
  <2>. QED BY <2>1
<1>. HIDE DEF ai, aj, si, sj
<1>4. Header \in Nat /\ Header > 0
  BY MemoryAssumption
<1>5. ~(i < j)
  BY <1>1, <1>2, <1>4, SMTT(30)
<1>6. ~(j < i)
  BY <1>1, <1>2, <1>4, SMTT(30)
<1>. QED BY <1>3, <1>5, <1>6

LEMMA BlockEnds ==
    \A b \in BlockType : b.at \in Nat /\ b.size \in Nat /\ b.free \in BOOLEAN /\ EndOf(b) \in Nat
BY MemoryAssumption, SMTT(30) DEF BlockType, EndOf

\* A list is in order when its blocks lie within stretches of an ordered list
\* that follow one another.
LEMMA WithinIs ==
    ASSUME NEW bs, NEW end \in Nat, Ordered(bs, end), NEW r \in Seq(BlockType),
           NEW lo \in [1 .. Len(r) -> 1 .. Len(bs)], NEW hi \in [1 .. Len(r) -> 1 .. Len(bs)],
           \A j \in 1 .. Len(r) : bs[lo[j]].at <= r[j].at /\ EndOf(r[j]) <= EndOf(bs[hi[j]]),
           \A j, k \in 1 .. Len(r) : j < k => hi[j] < lo[k] \/ EndOf(r[j]) <= r[k].at
    PROVE  Ordered(r, end)
<1>0. \A j \in 1 .. Len(r) : r[j] \in BlockType /\ r[j].at \in Nat /\ EndOf(r[j]) \in Nat
  <2>1. \A j \in 1 .. Len(r) : r[j] \in BlockType
    OBVIOUS
  <2>. QED BY <2>1, BlockEnds
<1>1. \A j \in 1 .. Len(bs) : /\ bs[j].at \in Nat /\ EndOf(bs[j]) \in Nat
                              /\ PageSize <= bs[j].at /\ EndOf(bs[j]) <= end
  <2>1. \A j \in 1 .. Len(bs) : bs[j] \in BlockType /\ PageSize <= bs[j].at /\ EndOf(bs[j]) <= end
    BY DEF Ordered
  <2>. QED BY <2>1, BlockEnds
<1>2. PageSize \in Nat
  BY MemoryAssumption
<1>3. ASSUME NEW j \in 1 .. Len(r) PROVE PageSize <= r[j].at /\ EndOf(r[j]) <= end
  <2>. DEFINE a == bs[lo[j]].at  e == EndOf(bs[hi[j]])  x == r[j].at  y == EndOf(r[j])
  <2>1. /\ a \in Nat /\ e \in Nat /\ x \in Nat /\ y \in Nat /\ PageSize <= a /\ e <= end
        /\ a <= x /\ y <= e
    BY <1>0, <1>1, ZenonT(30)
  <2>. HIDE DEF a, e, x, y
  <2>2. PageSize <= x /\ y <= end
    BY <1>2, <2>1
  <2>. QED BY <2>2 DEF x, y
<1>4. ASSUME NEW j \in 1 .. Len(r), NEW k \in 1 .. Len(r), j < k PROVE EndOf(r[j]) <= r[k].at
  <2>. SUFFICES ASSUME hi[j] < lo[k] PROVE EndOf(r[j]) <= r[k].at
    BY <1>4
  <2>. DEFINE e == EndOf(bs[hi[j]])  a == bs[lo[k]].at  x == r[k].at  y == EndOf(r[j])
  <2>1. /\ a \in Nat /\ e \in Nat /\ x \in Nat /\ y \in Nat /\ y <= e /\ a <= x
    BY <1>0, <1>1, Zenon
  <2>2. e <= a
    BY Zenon DEF Ordered
  <2>. HIDE DEF a, e, x, y
  <2>3. y <= x
    BY <2>1, <2>2
  <2>. QED BY <2>3 DEF x, y
<1>. QED BY <1>3, <1>4 DEF Ordered

LEMMA SplitOrdered ==
    ASSUME NEW bs, NEW end \in Nat, Ordered(bs, end), NEW i \in 1 .. Len(bs),
           NEW a \in BlockType, NEW b \in BlockType, NEW r, SplitAt(r, bs, i, a, b),
           bs[i].at <= a.at, EndOf(a) <= EndOf(bs[i]), bs[i].at <= b.at, EndOf(b) <= EndOf(bs[i]),
           EndOf(a) <= b.at
    PROVE  Ordered(r, end)
<1>. DEFINE f == [j \in 1 .. Len(r) |-> IF j <= i THEN j ELSE j - 1]
<1>0. /\ Len(bs) \in Nat /\ Len(r) = Len(bs) + 1 /\ i \in Nat /\ 1 <= i /\ i <= Len(bs)
      /\ r \in Seq(BlockType)
  BY DEF Ordered, SplitAt
<1>1. f \in [1 .. Len(r) -> 1 .. Len(bs)] /\ \A j \in 1 .. Len(r) : f[j] = IF j <= i THEN j ELSE j - 1
  BY <1>0
<1>. HIDE DEF f
<1>2. \A j \in 1 .. Len(bs) : bs[j].at \in Nat /\ EndOf(bs[j]) \in Nat
  <2>1. \A j \in 1 .. Len(bs) : bs[j] \in BlockType
    BY DEF Ordered
  <2>. QED BY <2>1, BlockEnds, ZenonT(30)
<1>3. ASSUME NEW j \in 1 .. Len(r)
      PROVE  bs[f[j]].at <= r[j].at /\ EndOf(r[j]) <= EndOf(bs[f[j]])
  <2>1. CASE j < i
    <3>1. r[j] = bs[j] /\ f[j] = j /\ j \in 1 .. Len(bs)
      BY <1>0, <1>1, <2>1 DEF SplitAt
    <3>. QED BY <1>2, <3>1, SMTT(30)
  <2>2. CASE j = i
    <3>1. r[j] = a /\ f[j] = i
      BY <1>0, <1>1, <2>2 DEF SplitAt
    <3>. QED BY <3>1
  <2>3. CASE j = i + 1
    <3>1. r[j] = b /\ f[j] = i
      BY <1>0, <1>1, <2>3 DEF SplitAt
    <3>. QED BY <3>1
  <2>4. CASE j > i + 1
    <3>1. r[j] = bs[j - 1] /\ f[j] = j - 1 /\ j - 1 \in 1 .. Len(bs)
      BY <1>0, <1>1, <2>4 DEF SplitAt
    <3>. QED BY <1>2, <3>1, SMTT(30)
  <2>. QED BY <1>0, <2>1, <2>2, <2>3, <2>4
<1>4. ASSUME NEW j \in 1 .. Len(r), NEW k \in 1 .. Len(r), j < k
      PROVE  f[j] < f[k] \/ EndOf(r[j]) <= r[k].at
  <2>1. CASE j = i /\ k = i + 1
    <3>1. r[j] = a /\ r[k] = b
      BY <1>0, <2>1 DEF SplitAt
    <3>. QED BY <3>1
  <2>2. CASE ~(j = i /\ k = i + 1)
    <3>1. f[j] < f[k]
      BY <1>0, <1>1, <1>4, <2>2
    <3>. QED BY <3>1
  <2>. QED BY <2>1, <2>2
<1>. QED BY <1>0, <1>1, <1>3, <1>4, WithinIs, Zenon

\* r is bs but for block i.
Instead(r, bs, i, a) ==
    /\ r \in Seq(BlockType) /\ Len(r) = Len(bs)
    /\ \A j \in 1 .. Len(r) : r[j] = IF j = i THEN a ELSE bs[j]

LEMMA InsteadOrdered ==
    ASSUME NEW bs, NEW end \in Nat, Ordered(bs, end), NEW i \in 1 .. Len(bs),
           NEW a \in BlockType, NEW r, Instead(r, bs, i, a),
           bs[i].at <= a.at, EndOf(a) <= EndOf(bs[i])
    PROVE  Ordered(r, end)
<1>. DEFINE f == [j \in 1 .. Len(r) |-> j]
<1>0. /\ Len(bs) \in Nat /\ Len(r) = Len(bs) /\ r \in Seq(BlockType)
  BY DEF Ordered, Instead
<1>1. f \in [1 .. Len(r) -> 1 .. Len(bs)] /\ \A j \in 1 .. Len(r) : f[j] = j
  BY <1>0
<1>. HIDE DEF f
<1>2. \A j \in 1 .. Len(bs) : bs[j].at \in Nat /\ EndOf(bs[j]) \in Nat
  <2>1. \A j \in 1 .. Len(bs) : bs[j] \in BlockType
    BY DEF Ordered
  <2>. QED BY <2>1, BlockEnds, Zenon
<1>3. ASSUME NEW j \in 1 .. Len(r)
      PROVE  bs[f[j]].at <= r[j].at /\ EndOf(r[j]) <= EndOf(bs[f[j]])
  <2>1. CASE j = i
    BY <1>1, <2>1 DEF Instead
  <2>2. CASE j # i
    <3>1. r[j] = bs[j] /\ f[j] = j /\ j \in 1 .. Len(bs)
      BY <1>0, <1>1, <2>2 DEF Instead
    <3>. QED BY <1>2, <3>1, SMTT(30)
  <2>. QED BY <2>1, <2>2
<1>4. \A j, k \in 1 .. Len(r) : j < k => f[j] < f[k] \/ EndOf(r[j]) <= r[k].at
  BY <1>1
<1>. QED BY <1>0, <1>1, <1>3, <1>4, WithinIs, Zenon

LEMMA JoinOrdered ==
    ASSUME NEW bs, NEW end \in Nat, Ordered(bs, end), NEW i \in 1 .. Len(bs) - 1,
           NEW a \in BlockType, NEW r, JoinAt(r, bs, i, a),
           bs[i].at <= a.at, EndOf(a) <= EndOf(bs[i + 1])
    PROVE  Ordered(r, end)
<1>. DEFINE f == [j \in 1 .. Len(r) |-> IF j <= i THEN j ELSE j + 1]
            g == [j \in 1 .. Len(r) |-> IF j < i THEN j ELSE j + 1]
<1>0. /\ Len(bs) \in Nat /\ Len(r) = Len(bs) - 1 /\ r \in Seq(BlockType)
      /\ i \in Nat /\ 1 <= i /\ i < Len(bs)
  BY DEF Ordered, JoinAt
<1>1. /\ f \in [1 .. Len(r) -> 1 .. Len(bs)] /\ \A j \in 1 .. Len(r) : f[j] = IF j <= i THEN j ELSE j + 1
      /\ g \in [1 .. Len(r) -> 1 .. Len(bs)] /\ \A j \in 1 .. Len(r) : g[j] = IF j < i THEN j ELSE j + 1
  BY <1>0, SMTT(30)
<1>. HIDE DEF f, g
<1>2. \A j \in 1 .. Len(bs) : bs[j].at \in Nat /\ EndOf(bs[j]) \in Nat
  <2>1. \A j \in 1 .. Len(bs) : bs[j] \in BlockType
    BY DEF Ordered
  <2>. QED BY <2>1, BlockEnds
<1>3. ASSUME NEW j \in 1 .. Len(r)
      PROVE  bs[f[j]].at <= r[j].at /\ EndOf(r[j]) <= EndOf(bs[g[j]])
  <2>1. CASE j < i
    <3>1. r[j] = bs[j] /\ f[j] = j /\ g[j] = j /\ j \in 1 .. Len(bs)
      BY <1>0, <1>1, <2>1 DEF JoinAt
    <3>. QED BY <1>2, <3>1, SMTT(30)
  <2>2. CASE j = i
    <3>1. r[j] = a /\ f[j] = i /\ g[j] = i + 1
      BY <1>0, <1>1, <2>2, SMTT(30) DEF JoinAt
    <3>. QED BY <3>1
  <2>3. CASE j > i
    <3>1. r[j] = bs[j + 1] /\ f[j] = j + 1 /\ g[j] = j + 1 /\ j + 1 \in 1 .. Len(bs)
      <4>1. ~(j < i) /\ ~(j <= i) /\ j # i /\ j + 1 \in 1 .. Len(bs)
        BY <1>0, <2>3
      <4>2. r[j] = bs[j + 1]
        BY <4>1, Zenon DEF JoinAt
      <4>. QED BY <1>1, <4>1, <4>2, Zenon
    <3>. QED BY <1>2, <3>1, SMTT(30)
  <2>. QED BY <1>0, <2>1, <2>2, <2>3, SMTT(30)
<1>4. \A j, k \in 1 .. Len(r) : j < k => g[j] < f[k] \/ EndOf(r[j]) <= r[k].at
  BY <1>0, <1>1, SMTT(30)
<1>. QED BY <1>0, <1>1, <1>3, <1>4, WithinIs, Zenon

LEMMA SplitHas ==
    ASSUME NEW bs, NEW i \in 1 .. Len(bs), Len(bs) \in Nat, NEW a, NEW b, NEW r, SplitAt(r, bs, i, a, b),
           bs[i].free, b.free, NEW p, NEW l
    PROVE  /\ Has(bs, p, l) => Has(r, p, l)
           /\ Has(r, p, l) => Has(bs, p, l) \/ p = a.at
           /\ p = a.at /\ ~a.free /\ a.size >= l => Has(r, p, l)
<1>0. i \in Nat /\ 1 <= i /\ i <= Len(bs) /\ Len(r) = Len(bs) + 1
  BY DEF SplitAt
<1>1. r[i] = a /\ r[i + 1] = b
  BY <1>0 DEF SplitAt
<1>2. ASSUME NEW j \in 1 .. Len(bs), j # i PROVE \E k \in 1 .. Len(r) : r[k] = bs[j]
  <2>1. CASE j < i
    BY <1>0, <2>1 DEF SplitAt
  <2>2. CASE j > i
    <3>1. j + 1 \in 1 .. Len(r) /\ ~(j + 1 < i) /\ j + 1 # i /\ j + 1 # i + 1 /\ (j + 1) - 1 = j
      BY <1>0, <2>2
    <3>2. r[j + 1] = bs[(j + 1) - 1]
      BY <3>1, Zenon DEF SplitAt
    <3>. QED BY <3>1, <3>2
  <2>. QED BY <1>0, <1>2, <2>1, <2>2
<1>3. ASSUME NEW j \in 1 .. Len(r), j # i, j # i + 1 PROVE \E k \in 1 .. Len(bs) : r[j] = bs[k]
  <2>1. CASE j < i
    BY <1>0, <2>1 DEF SplitAt
  <2>2. CASE j > i + 1
    <3>1. j - 1 \in 1 .. Len(bs) /\ ~(j < i) /\ j # i /\ j # i + 1
      BY <1>0, <2>2
    <3>2. r[j] = bs[j - 1]
      BY <3>1, Zenon DEF SplitAt
    <3>. QED BY <3>1, <3>2
  <2>. QED BY <1>0, <1>3, <2>1, <2>2
<1>4. i \in 1 .. Len(r)
  BY <1>0
<1>5. Has(bs, p, l) => Has(r, p, l)
  BY <1>2, Zenon DEF Has
<1>6. Has(r, p, l) => Has(bs, p, l) \/ p = a.at
  BY <1>1, <1>3, Zenon DEF Has
<1>. QED BY <1>1, <1>4, <1>5, <1>6, Zenon DEF Has

LEMMA InsteadHas ==
    ASSUME NEW bs, NEW i \in 1 .. Len(bs), NEW a, NEW r, Instead(r, bs, i, a), NEW p, NEW l
    PROVE  /\ bs[i].free /\ Has(bs, p, l) => Has(r, p, l)
           /\ p # bs[i].at /\ Has(bs, p, l) => Has(r, p, l)
           /\ Has(r, p, l) => Has(bs, p, l) \/ (p = a.at /\ ~a.free)
           /\ p = a.at /\ ~a.free /\ a.size >= l => Has(r, p, l)
<1>1. /\ Len(r) = Len(bs) /\ r[i] = a /\ \A j \in 1 .. Len(bs) : j # i => r[j] = bs[j]
  BY DEF Instead
<1>. QED BY <1>1, Zenon DEF Has

LEMMA JoinHas ==
    ASSUME NEW bs, NEW i \in 1 .. Len(bs) - 1, Len(bs) \in Nat, NEW a, NEW r, JoinAt(r, bs, i, a),
           bs[i].free, bs[i + 1].free, a.free, NEW p, NEW l
    PROVE  Has(bs, p, l) <=> Has(r, p, l)
<1>0. i \in Nat /\ 1 <= i /\ i < Len(bs) /\ Len(r) = Len(bs) - 1
  BY DEF JoinAt
<1>1. r[i] = a
  BY <1>0 DEF JoinAt
<1>2. ASSUME NEW j \in 1 .. Len(bs), j # i, j # i + 1 PROVE \E k \in 1 .. Len(r) : r[k] = bs[j]
  <2>1. CASE j < i
    BY <1>0, <2>1, SMTT(30) DEF JoinAt
  <2>2. CASE j > i + 1
    <3>1. j - 1 \in 1 .. Len(r) /\ ~(j - 1 < i) /\ j - 1 # i /\ (j - 1) + 1 = j
      BY <1>0, <2>2
    <3>2. r[j - 1] = bs[(j - 1) + 1]
      BY <3>1, Zenon DEF JoinAt
    <3>. QED BY <3>1, <3>2
  <2>. QED BY <1>0, <1>2, <2>1, <2>2
<1>3. ASSUME NEW j \in 1 .. Len(r), j # i PROVE \E k \in 1 .. Len(bs) : r[j] = bs[k]
  <2>1. CASE j < i
    BY <1>0, <2>1 DEF JoinAt
  <2>2. CASE j > i
    <3>1. j + 1 \in 1 .. Len(bs) /\ ~(j < i) /\ j # i
      BY <1>0, <2>2
    <3>2. r[j] = bs[j + 1]
      BY <3>1, Zenon DEF JoinAt
    <3>. QED BY <3>1, <3>2
  <2>. QED BY <1>0, <1>3, <2>1, <2>2
<1>4. Has(bs, p, l) => Has(r, p, l)
  BY <1>2, Zenon DEF Has
<1>5. Has(r, p, l) => Has(bs, p, l)
  BY <1>1, <1>3, Zenon DEF Has
<1>. QED BY <1>4, <1>5

\* What a list is to one that serves a request at p.
Serves(r, bs, p, size) ==
    /\ Has(r, p, size) /\ Keeps(r, bs)
    /\ \A q, l : Has(r, q, l) => Has(bs, q, l) \/ q = p
    /\ \A l : ~Has(bs, p, l)

LEMMA TakeIs ==
    ASSUME NEW bs, NEW end \in Nat, Ordered(bs, end), NEW size \in Nat, NEW i \in FirstFit(bs, size)
    PROVE  Ordered(Take(bs, i, size), end) /\ Serves(Take(bs, i, size), bs, bs[i].at, size)
<1>. DEFINE at == bs[i].at
            room == bs[i].size
            r == Take(bs, i, size)
<1>0. /\ i \in 1 .. Len(bs) /\ bs[i].free /\ room >= size /\ Len(bs) \in Nat /\ bs \in Seq(BlockType)
      /\ Header \in Nat
  BY MemoryAssumption DEF FirstFit, Ordered
<1>1. /\ bs[i] \in BlockType /\ at \in Nat /\ room \in Nat /\ EndOf(bs[i]) = at + Header + room
  BY <1>0, BlocksAre
<1>2. \A l : ~Has(bs, at, l)
  BY <1>0, StartsDiffer, Zenon DEF Has
<1>3. CASE room >= size + Header + 1
  <2>. DEFINE a == Block(at, size, FALSE)
              b == Block(at + Header + size, room - size - Header, TRUE)
  <2>1. at + Header + size \in Nat /\ room - size - Header \in Nat
    <3>. HIDE DEF at, room
    <3>. QED BY <1>0, <1>1, <1>3
  <2>2. /\ a \in BlockType /\ a.at = at /\ a.size = size /\ ~a.free /\ EndOf(a) = at + Header + size
        /\ b \in BlockType /\ b.at = at + Header + size /\ b.size = room - size - Header /\ b.free
        /\ EndOf(b) = at + Header + size + Header + (room - size - Header)
    <3>. HIDE DEF at, room
    <3>1. /\ a \in BlockType /\ a.at = at /\ a.size = size /\ a.free = FALSE /\ EndOf(a) = at + Header + size
      BY <1>1, BlockIs, Zenon
    <3>. DEFINE x == at + Header + size  y == room - size - Header
    <3>2. /\ Block(x, y, TRUE) \in BlockType /\ Block(x, y, TRUE).at = x /\ Block(x, y, TRUE).size = y
          /\ Block(x, y, TRUE).free = TRUE /\ EndOf(Block(x, y, TRUE)) = x + Header + y
      <4>1. x \in Nat /\ y \in Nat
        BY <2>1
      <4>. HIDE DEF x, y
      <4>. QED BY <4>1, BlockIs, ZenonT(60)
    <3>. QED BY <3>1, <3>2, Zenon
  <2>3. r = SubSeq(bs, 1, i - 1) \o <<a, b>> \o SubSeq(bs, i + 1, Len(bs))
    BY <1>3, Zenon DEF Take
  <2>. HIDE DEF a, b
  <2>4. SplitAt(r, bs, i, a, b)
    BY <1>0, <2>2, <2>3, SplitIs, ZenonT(30)
  <2>. HIDE DEF r
  <2>5. /\ bs[i].at <= a.at /\ EndOf(a) <= EndOf(bs[i]) /\ bs[i].at <= b.at
        /\ EndOf(b) <= EndOf(bs[i]) /\ EndOf(a) <= b.at
    <3>1. /\ at <= at /\ at + Header + size <= at + Header + room /\ at <= at + Header + size
          /\ at + Header + size + Header + (room - size - Header) <= at + Header + room
          /\ at + Header + size <= at + Header + size
      <4>. HIDE DEF at, room
      <4>. QED BY <1>0, <1>1, <1>3, SMTT(30)
    <3>. QED BY <1>1, <2>2, <3>1, ZenonT(30)
  <2>6. Ordered(r, end)
    BY <1>0, <2>2, <2>4, <2>5, SplitOrdered, ZenonT(30)
  <2>7. Serves(r, bs, a.at, size)
    <3>1. \A p, l : /\ Has(bs, p, l) => Has(r, p, l)
                    /\ Has(r, p, l) => Has(bs, p, l) \/ p = a.at
                    /\ p = a.at /\ ~a.free /\ a.size >= l => Has(r, p, l)
      BY <1>0, <2>2, <2>4, SplitHas, Zenon
    <3>2. a.size >= size
      BY <2>2, SMTT(30)
    <3>. QED BY <1>2, <2>2, <3>1, <3>2, Zenon DEF Serves, Keeps
  <2>. QED BY <2>2, <2>6, <2>7 DEF r
<1>4. CASE ~(room >= size + Header + 1)
  <2>. DEFINE a == [bs[i] EXCEPT !.free = FALSE]
  <2>1. /\ a \in BlockType /\ a.at = at /\ a.size = room /\ ~a.free /\ EndOf(a) = EndOf(bs[i])
    BY <1>1, ZenonT(30) DEF BlockType, EndOf
  <2>2. r = [bs EXCEPT ![i] = a]
    BY <1>4 DEF Take
  <2>. HIDE DEF a
  <2>3. Instead(r, bs, i, a)
    BY <1>0, <2>1, <2>2, SMTT(30) DEF Instead
  <2>. HIDE DEF r
  <2>4. bs[i].at <= a.at /\ EndOf(a) <= EndOf(bs[i])
    <3>1. at <= at /\ EndOf(bs[i]) <= EndOf(bs[i])
      BY <1>1, BlockEnds, SMTT(30)
    <3>. QED BY <2>1, <3>1, Zenon
  <2>5. Ordered(r, end)
    BY <1>0, <2>1, <2>3, <2>4, InsteadOrdered, ZenonT(30)
  <2>6. Serves(r, bs, a.at, size)
    <3>1. ASSUME NEW p, NEW l
          PROVE  /\ Has(bs, p, l) => Has(r, p, l)
                 /\ Has(r, p, l) => Has(bs, p, l) \/ p = a.at
                 /\ p = a.at /\ ~a.free /\ a.size >= l => Has(r, p, l)
      BY <1>0, <2>3, InsteadHas, SMTT(30)
    <3>2. a.size >= size
      BY <1>0, <2>1
    <3>. QED BY <1>2, <2>1, <3>1, <3>2, Zenon DEF Serves, Keeps
  <2>. QED BY <2>1, <2>5, <2>6, ZenonT(30) DEF r
<1>. QED BY <1>3, <1>4

\* Two free neighbours become one free block, and nothing in use moves.
LEMMA JoinFree ==
    ASSUME NEW bs, NEW end \in Nat, Ordered(bs, end), NEW i \in 1 .. Len(bs) - 1,
           bs[i].free, bs[i + 1].free
    PROVE  LET r == Join(bs, i)
           IN  /\ Ordered(r, end) /\ Len(r) = Len(bs) - 1 /\ r[i].free
               /\ \A j \in 1 .. i - 1 : r[j] = bs[j]
               /\ \A p, l : Has(bs, p, l) <=> Has(r, p, l)
<1>. DEFINE x == bs[i].at  s == bs[i].size  y == bs[i + 1].at  t == bs[i + 1].size
            a == Block(x, s + Header + t, bs[i].free)
            r == Join(bs, i)
<1>0. Len(bs) \in Nat /\ bs \in Seq(BlockType) /\ i \in 1 .. Len(bs) /\ i + 1 \in 1 .. Len(bs) /\ Header \in Nat
  BY MemoryAssumption, SMTT(30) DEF Ordered
<1>1. /\ x \in Nat /\ s \in Nat /\ y \in Nat /\ t \in Nat
      /\ EndOf(bs[i]) = x + Header + s /\ EndOf(bs[i + 1]) = y + Header + t
      /\ bs[i].free \in BOOLEAN
  BY <1>0, BlocksAre
<1>2. x + Header + s <= y
  BY <1>0, <1>1 DEF Ordered
<1>3. /\ a \in BlockType /\ a.at = x /\ a.free = bs[i].free /\ EndOf(a) = x + Header + (s + Header + t)
  <2>. DEFINE n == s + Header + t  f == bs[i].free
  <2>1. n \in Nat /\ f \in BOOLEAN
    <3>1. n \in Nat
      <4>. HIDE DEF s, t
      <4>. QED BY <1>0, <1>1
    <3>2. f \in BOOLEAN
      BY <1>1, Zenon
    <3>. QED BY <3>1, <3>2, Zenon
  <2>. HIDE DEF n, x, f
  <2>2. Block(x, n, f) \in BlockType /\ Block(x, n, f).at = x /\ Block(x, n, f).free = f /\ EndOf(Block(x, n, f)) = x + Header + n
    BY <1>1, <2>1, BlockIs, SMTT(30)
  <2>. QED BY <2>2, Zenon DEF n, f
<1>4. r = SubSeq(bs, 1, i - 1) \o <<a>> \o SubSeq(bs, i + 2, Len(bs))
  BY DEF Join
<1>. HIDE DEF a
<1>5. JoinAt(r, bs, i, a)
  BY <1>0, <1>3, <1>4, JoinIs, ZenonT(30)
<1>. HIDE DEF r
<1>6. bs[i].at <= a.at /\ EndOf(a) <= EndOf(bs[i + 1])
  <2>1. x <= x /\ x + Header + (s + Header + t) <= y + Header + t
    <3>1. /\ x \in Nat /\ s \in Nat /\ y \in Nat /\ t \in Nat /\ Header \in Nat
          /\ x + Header + s <= y
      BY <1>0, <1>1, <1>2, Zenon
    <3>. HIDE DEF x, s, y, t
    <3>. QED BY <3>1, SMTT(30)
  <2>. QED BY <1>1, <1>3, <2>1
<1>7. Ordered(r, end)
  BY <1>3, <1>5, <1>6, JoinOrdered
<1>8. ASSUME NEW p, NEW l PROVE Has(bs, p, l) <=> Has(r, p, l)
  BY <1>0, <1>3, <1>5, JoinHas, Zenon
<1>9. Len(r) = Len(bs) - 1 /\ r[i] = a /\ \A j \in 1 .. i - 1 : r[j] = bs[j]
  BY <1>0, <1>5, SMTT(30) DEF JoinAt
<1>. QED BY <1>3, <1>7, <1>8, <1>9, ZenonT(30) DEF r

\* What is left of a list when the block at p is freed.
Frees(r, bs, p) ==
    /\ \A q, l : q # p /\ Has(bs, q, l) => Has(r, q, l)
    /\ \A q, l : Has(r, q, l) => q # p /\ Has(bs, q, l)

LEMMA kfreeIs ==
    ASSUME NEW bs, NEW end \in Nat, Ordered(bs, end), NEW p, NEW n, Has(bs, p, n)
    PROVE  Ordered(kfree(bs, p), end) /\ Frees(kfree(bs, p), bs, p)
<1>. DEFINE i == CHOOSE k \in 1 .. Len(bs) : bs[k].at = p
            freed == [bs EXCEPT ![i].free = TRUE]
            right == IF i < Len(bs) /\ bs[i + 1].free THEN Join(freed, i) ELSE freed
            r == IF i > 1 /\ bs[i - 1].free THEN Join(right, i - 1) ELSE right
<1>0. /\ i \in 1 .. Len(bs) /\ bs[i].at = p
  BY DEF Has
<1>1. p \in Nat /\ p # 0
  <2>1. PageSize <= bs[i].at /\ bs[i].at \in Nat
    BY <1>0, BlocksAre
  <2>2. PageSize \in Nat /\ PageSize > 0
    BY MemoryAssumption
  <2>. HIDE DEF i
  <2>. QED BY <1>0, <2>1, <2>2, SMTT(30)
<1>2. kfree(bs, p) = r
  BY <1>1, Zenon DEF kfree
<1>. HIDE DEF i
<1>. DEFINE a == [bs[i] EXCEPT !.free = TRUE]
<1>3. /\ a \in BlockType /\ a.at = p /\ a.free /\ EndOf(a) = EndOf(bs[i]) /\ Len(bs) \in Nat
      /\ bs \in Seq(BlockType)
  <2>1. bs[i] \in BlockType
    BY <1>0, BlocksAre, Zenon
  <2>2. a \in BlockType /\ a.at = bs[i].at /\ a.size = bs[i].size /\ a.free
    BY <2>1, Zenon DEF BlockType
  <2>3. EndOf(a) = EndOf(bs[i])
    BY <2>2, Zenon DEF EndOf
  <2>4. bs \in Seq(BlockType) /\ Len(bs) \in Nat
    BY DEF Ordered
  <2>. HIDE DEF a
  <2>. QED BY <1>0, <2>2, <2>3, <2>4, ZenonT(30)
<1>4. freed = [bs EXCEPT ![i] = a]
  OBVIOUS
<1>. HIDE DEF a
<1>5. Instead(freed, bs, i, a)
  <2>. HIDE DEF freed
  <2>1. freed \in Seq(BlockType) /\ Len(freed) = Len(bs)
    BY <1>0, <1>3, <1>4, SMTT(30)
  <2>2. \A j \in 1 .. Len(bs) : freed[j] = IF j = i THEN a ELSE bs[j]
    BY <1>0, <1>3, <1>4
  <2>. QED BY <2>1, <2>2, ZenonT(30) DEF Instead
<1>. HIDE DEF freed
<1>6. Ordered(freed, end) /\ Len(freed) = Len(bs) /\ freed[i] = a
      /\ \A j \in 1 .. Len(bs) : j # i => freed[j] = bs[j]
  <2>1. bs[i].at <= a.at /\ EndOf(a) <= EndOf(bs[i])
    <3>1. p <= p /\ EndOf(bs[i]) <= EndOf(bs[i])
      BY <1>0, <1>1, BlocksAre, BlockEnds, SMTT(30)
    <3>. QED BY <1>0, <1>3, <3>1, ZenonT(30)
  <2>2. Ordered(freed, end)
    BY <1>0, <1>3, <1>5, <2>1, InsteadOrdered, ZenonT(30)
  <2>. QED BY <1>0, <1>5, <2>2, Zenon DEF Instead
<1>7. Frees(freed, bs, p)
  <2>1. ASSUME NEW q, NEW l, q # p, Has(bs, q, l) PROVE Has(freed, q, l)
    BY <1>0, <1>5, <2>1, InsteadHas, ZenonT(30)
  <2>2. ASSUME NEW q, NEW l, Has(freed, q, l) PROVE Has(bs, q, l)
    BY <1>0, <1>3, <1>5, <2>2, InsteadHas, ZenonT(30)
  <2>3. ASSUME NEW l PROVE ~Has(freed, p, l)
    <3>1. ASSUME NEW k \in 1 .. Len(freed), freed[k].at = p PROVE freed[k].free
      <4>1. i \in 1 .. Len(freed) /\ freed[i].at = freed[k].at
        BY <1>0, <1>3, <1>6, <3>1
      <4>2. i = k
        BY <1>6, <4>1, StartsDiffer, ZenonT(30)
      <4>. QED BY <1>3, <1>6, <4>2, ZenonT(30)
    <3>. QED BY <3>1 DEF Has
  <2>. QED BY <2>1, <2>2, <2>3, ZenonT(30) DEF Frees
<1>8. /\ Ordered(right, end) /\ right[i].free /\ \A q, l : Has(freed, q, l) <=> Has(right, q, l)
      /\ Len(right) \in Nat /\ i <= Len(right) /\ \A j \in 1 .. i - 1 : right[j] = bs[j]
  <2>0. i \in Nat /\ 1 <= i /\ i <= Len(bs)
    BY <1>0, <1>3, SMTT(30)
  <2>1. CASE i < Len(bs) /\ bs[i + 1].free
    <3>1. i \in 1 .. Len(freed) - 1 /\ freed[i].free /\ freed[i + 1].free
      BY <1>3, <1>6, <2>0, <2>1, SMTT(30)
    <3>2. right = Join(freed, i)
      BY <2>1
    <3>. HIDE DEF right
    <3>3. /\ Ordered(right, end) /\ Len(right) = Len(freed) - 1 /\ right[i].free
          /\ \A j \in 1 .. i - 1 : right[j] = freed[j]
          /\ \A q, l : Has(freed, q, l) <=> Has(right, q, l)
      BY <1>6, <3>1, <3>2, JoinFree
    <3>4. \A j \in 1 .. i - 1 : right[j] = bs[j]
      BY <1>6, <2>0, <3>3, SMTT(30)
    <3>. QED BY <1>3, <1>6, <2>0, <2>1, <3>3, <3>4, SMTT(30)
  <2>2. CASE ~(i < Len(bs) /\ bs[i + 1].free)
    <3>1. right = freed
      BY <2>2, Zenon
    <3>. HIDE DEF right
    <3>. QED BY <1>3, <1>6, <2>0, <3>1, SMTT(30)
  <2>. QED BY <2>1, <2>2, Zenon
<1>. HIDE DEF right
<1>9. /\ Ordered(r, end) /\ \A q, l : Has(right, q, l) <=> Has(r, q, l)
  <2>0. i \in Nat /\ 1 <= i
    BY <1>0, <1>3, SMTT(30)
  <2>1. CASE i > 1 /\ bs[i - 1].free
    <3>. DEFINE h == i - 1
    <3>1. /\ h \in 1 .. Len(right) - 1 /\ right[h].free /\ right[h + 1].free
      BY <1>8, <2>0, <2>1
    <3>2. r = Join(right, h)
      BY <2>1
    <3>. HIDE DEF h, r
    <3>. QED BY <1>8, <3>1, <3>2, JoinFree, ZenonT(30)
  <2>2. CASE ~(i > 1 /\ bs[i - 1].free)
    <3>1. r = right
      BY <2>2
    <3>. HIDE DEF r
    <3>. QED BY <1>8, <3>1
  <2>. QED BY <2>1, <2>2
<1>. HIDE DEF r
<1>10. Frees(r, bs, p)
  BY <1>7, <1>8, <1>9, Zenon DEF Frees
<1>. QED BY <1>2, <1>9, <1>10

\* The heap gets a stretch of its own at the end.
LEMMA GrowIs ==
    ASSUME NEW bs, NEW start \in Nat, Ordered(bs, start), PageSize <= start, NEW size \in Nat
    PROVE  LET r == Grow(bs, start, size)
           IN  /\ Ordered(r, start + Header + size)
               /\ \A p, l : Has(bs, p, l) <=> Has(r, p, l)
               /\ \A need \in Nat : need <= size => FirstFit(r, need) # {}
<1>. DEFINE r == Grow(bs, start, size)
            n == Len(bs)
            end == start + Header + size
<1>0. n \in Nat /\ bs \in Seq(BlockType) /\ Header \in Nat /\ PageSize \in Nat /\ (bs # <<>> => n \in 1 .. n)
  BY MemoryAssumption DEF Ordered
<1>1. \A i \in 1 .. n : /\ bs[i] \in BlockType /\ bs[i].at \in Nat /\ EndOf(bs[i]) \in Nat
                        /\ PageSize <= bs[i].at /\ EndOf(bs[i]) <= start
  <2>1. \A i \in 1 .. n : bs[i] \in BlockType /\ PageSize <= bs[i].at /\ EndOf(bs[i]) <= start
    BY DEF Ordered
  <2>. QED BY <2>1, BlockEnds
<1>2. CASE bs # <<>> /\ bs[n].free
  <2>. DEFINE x == bs[n].at  s == bs[n].size
              a == [bs[n] EXCEPT !.size = s + Header + size]
  <2>0. n \in 1 .. n
    BY <1>0, <1>2, ZenonT(30)
  <2>1. x \in Nat /\ s \in Nat /\ EndOf(bs[n]) = x + Header + s /\ bs[n] \in BlockType
    BY <2>0, BlocksAre
  <2>2. s + Header + size \in Nat /\ x + Header + (s + Header + size) <= end
        /\ s + Header + size >= size
    <3>1. x + Header + s <= start
      BY <1>1, <2>0, <2>1
    <3>. HIDE DEF x, s
    <3>. QED BY <1>0, <2>1, <3>1, SMTT(30)
  <2>3. /\ a \in BlockType /\ a.at = x /\ a.size = s + Header + size /\ a.free
        /\ EndOf(a) = x + Header + (s + Header + size)
    <3>. DEFINE t == s + Header + size
    <3>1. t \in Nat
      BY <2>2
    <3>. HIDE DEF t
    <3>2. [bs[n] EXCEPT !.size = t] \in BlockType /\ [bs[n] EXCEPT !.size = t].at = x
          /\ [bs[n] EXCEPT !.size = t].size = t /\ [bs[n] EXCEPT !.size = t].free
      BY <1>2, <2>1, <3>1 DEF BlockType
    <3>3. a = [bs[n] EXCEPT !.size = t]
      BY DEF t
    <3>. HIDE DEF a
    <3>. QED BY <3>2, <3>3 DEF EndOf, t
  <2>4. r = [bs EXCEPT ![n] = a]
    BY <1>2 DEF Grow
  <2>. HIDE DEF a
  <2>5. Instead(r, bs, n, a)
    <3>. HIDE DEF r
    <3>1. r \in Seq(BlockType) /\ Len(r) = Len(bs)
      BY <1>0, <2>0, <2>3, <2>4
    <3>2. \A j \in 1 .. Len(bs) : r[j] = IF j = n THEN a ELSE bs[j]
      BY <1>0, <2>4
    <3>. QED BY <3>1, <3>2 DEF Instead
  <2>. HIDE DEF r
  <2>6. r \in Seq(BlockType) /\ Len(r) = n /\ r[n] = a /\ \A j \in 1 .. n : j # n => r[j] = bs[j]
    BY <1>0, <2>0, <2>5, ZenonT(30) DEF Instead
  <2>7. ASSUME NEW j \in 1 .. n PROVE PageSize <= r[j].at /\ EndOf(r[j]) <= end
    <3>1. CASE j = n
      BY <1>1, <2>0, <2>2, <2>3, <2>6, <3>1, ZenonT(30)
    <3>2. CASE j # n
      <4>1. r[j] = bs[j] /\ EndOf(bs[j]) <= start /\ EndOf(bs[j]) \in Nat /\ PageSize <= bs[j].at
        BY <1>1, <2>6, <3>2
      <4>2. EndOf(bs[j]) <= end
        <5>. DEFINE e == EndOf(bs[j])
        <5>1. e \in Nat /\ e <= start
          BY <4>1
        <5>. HIDE DEF e
        <5>2. e <= end
          BY <1>0, <5>1
        <5>. QED BY <5>2 DEF e
      <4>. QED BY <4>1, <4>2, ZenonT(30)
    <3>. QED BY <3>1, <3>2, Zenon
  <2>8. ASSUME NEW j \in 1 .. n, NEW k \in 1 .. n, j < k PROVE EndOf(r[j]) <= r[k].at
    <3>1. j # n /\ r[j] = bs[j]
      BY <1>0, <2>6, <2>8, SMTT(30)
    <3>2. r[k].at = bs[k].at
      BY <2>3, <2>6
    <3>3. EndOf(bs[j]) <= bs[k].at
      BY <2>8 DEF Ordered
    <3>. QED BY <3>1, <3>2, <3>3
  <2>9. Ordered(r, end)
    <3>. HIDE DEF end
    <3>. QED BY <2>6, <2>7, <2>8, ZenonT(30) DEF Ordered
  <2>10. ASSUME NEW p, NEW l PROVE Has(bs, p, l) <=> Has(r, p, l)
    BY <1>2, <2>0, <2>3, <2>5, InsteadHas, ZenonT(30)
  <2>11. ASSUME NEW need \in Nat, need <= size PROVE n \in FirstFit(r, need)
    <3>1. a.size >= need
      <4>. DEFINE t == s + Header + size
      <4>1. t \in Nat /\ t >= size
        BY <2>2
      <4>. HIDE DEF t
      <4>2. t >= need
        BY <2>11, <4>1, SMTT(30)
      <4>. QED BY <2>3, <4>2, Zenon DEF t
    <3>. QED BY <2>0, <2>3, <2>6, <3>1, ZenonT(30) DEF FirstFit
  <2>. QED BY <2>9, <2>10, <2>11 DEF r
<1>3. CASE ~(bs # <<>> /\ bs[n].free)
  <2>. DEFINE a == Block(start, size, TRUE)
  <2>1. /\ a \in BlockType /\ a.at = start /\ a.size = size /\ a.free = TRUE /\ EndOf(a) = end
    BY BlockIs, Zenon
  <2>2. r = Append(bs, a)
    BY <1>3, Zenon DEF Grow
  <2>. HIDE DEF a
  <2>3. /\ r \in Seq(BlockType) /\ Len(r) = n + 1 /\ r[n + 1] = a /\ \A j \in 1 .. n : r[j] = bs[j]
    <3>. HIDE DEF r
    <3>. QED BY <1>0, <2>1, <2>2
  <2>. HIDE DEF r
  <2>4. ASSUME NEW j \in 1 .. n + 1 PROVE PageSize <= r[j].at /\ EndOf(r[j]) <= end
    <3>1. CASE j = n + 1
      <4>1. end \in Nat /\ end <= end
        BY <1>0, SMTT(30)
      <4>. QED BY <2>1, <2>3, <3>1, <4>1
    <3>2. CASE j # n + 1
      <4>0. j \in 1 .. n
        BY <1>0, <3>2, SMTT(30)
      <4>1. r[j] = bs[j] /\ EndOf(bs[j]) <= start /\ EndOf(bs[j]) \in Nat /\ PageSize <= bs[j].at
        BY <1>1, <2>3, <4>0, Zenon
      <4>2. EndOf(bs[j]) <= end
        <5>. DEFINE e == EndOf(bs[j])
        <5>1. e \in Nat /\ e <= start
          BY <4>1
        <5>. HIDE DEF e
        <5>2. e <= end
          BY <1>0, <5>1, SMTT(30)
        <5>. QED BY <5>2 DEF e
      <4>. QED BY <4>1, <4>2
    <3>. QED BY <3>1, <3>2, Zenon
  <2>5. ASSUME NEW j \in 1 .. n + 1, NEW k \in 1 .. n + 1, j < k PROVE EndOf(r[j]) <= r[k].at
    <3>0. j \in 1 .. n /\ r[j] = bs[j]
      BY <1>0, <2>3, <2>5, SMTT(30)
    <3>1. CASE k = n + 1
      BY <1>1, <2>1, <2>3, <3>0, <3>1, ZenonT(30)
    <3>2. CASE k # n + 1
      <4>1. k \in 1 .. n /\ r[k] = bs[k]
        BY <1>0, <2>3, <3>2, SMTT(30)
      <4>2. EndOf(bs[j]) <= bs[k].at
        BY <2>5, <3>0, <4>1, Zenon DEF Ordered
      <4>. QED BY <3>0, <4>1, <4>2
    <3>. QED BY <3>1, <3>2
  <2>6. Ordered(r, end)
    <3>. HIDE DEF end
    <3>. QED BY <2>3, <2>4, <2>5, ZenonT(30) DEF Ordered
  <2>7. ASSUME NEW p, NEW l PROVE Has(bs, p, l) <=> Has(r, p, l)
    <3>1. \A j \in 1 .. n : j \in 1 .. Len(r)
      BY <1>0, <2>3
    <3>2. \A j \in 1 .. Len(r) : j \in 1 .. n \/ j = n + 1
      BY <1>0, <2>3
    <3>3. Has(bs, p, l) => Has(r, p, l)
      BY <2>3, <3>1, Zenon DEF Has
    <3>4. Has(r, p, l) => Has(bs, p, l)
      BY <2>1, <2>3, <3>2, Zenon DEF Has
    <3>. QED BY <3>3, <3>4
  <2>8. ASSUME NEW need \in Nat, need <= size PROVE n + 1 \in FirstFit(r, need)
    BY <1>0, <2>1, <2>3, <2>8, SMTT(30) DEF FirstFit
  <2>. QED BY <2>6, <2>7, <2>8 DEF r
<1>. QED BY <1>2, <1>3, ZenonT(30)

\* The pages heap_expand asks for hold what was asked of it.
LEMMA WantedIs ==
    ASSUME NEW size \in Nat
    PROVE  Wanted(size) \in Nat /\ Wanted(size) * PageSize >= size
<1>. DEFINE x == size + PageSize - 1
            q == x \div PageSize
<1>1. x \in Nat /\ PageSize \in Nat /\ PageSize > 0
  BY Sizes
<1>2. q \in Nat /\ x < q * PageSize + PageSize
  <2>. HIDE DEF x
  <2>. QED BY <1>1
<1>3. q * PageSize \in Nat
  BY <1>1, <1>2, SMTT(30)
<1>4. q * PageSize >= size
  <2>. DEFINE y == q * PageSize
  <2>1. y \in Nat /\ x < y + PageSize
    BY <1>2, <1>3
  <2>. HIDE DEF y, q
  <2>2. y >= size
    BY <1>1, <2>1, SMTT(30)
  <2>. QED BY <2>2 DEF y
<1>. QED BY <1>2, <1>4 DEF Wanted

\* What the first block that fits gives.
LEMMA FitIs ==
    ASSUME NEW bs, NEW e, NEW u, NEW ok, NEW end \in Nat, Ordered(bs, end), NEW size \in Nat,
           FirstFit(bs, size) # {}
    PROVE  LET f == Fit([blocks |-> bs, end |-> e, used |-> u, ok |-> ok, ptr |-> 0], size)
           IN  Ordered(f.blocks, end) /\ Serves(f.blocks, bs, f.ptr, size) /\ f.ptr # 0 /\ f.end = e
<1>. DEFINE h == [blocks |-> bs, end |-> e, used |-> u, ok |-> ok, ptr |-> 0]
            S == FirstFit(bs, size)
            i == Min(S)
            r == Take(bs, i, size)
            f == Fit(h, size)
<1>1. S \in SUBSET Nat
  BY DEF Ordered, FirstFit
<1>2. i \in S
  BY <1>1, MinIs, Zenon
<1>3. f.blocks = r /\ f.ptr = bs[i].at /\ f.end = e
  <2>1. f = [h EXCEPT !.blocks = Take(h.blocks, Min(FirstFit(h.blocks, size)), size),
                      !.ptr = h.blocks[Min(FirstFit(h.blocks, size))].at]
    BY Zenon DEF Fit
  <2>2. h.blocks = bs
    OBVIOUS
  <2>3. f = [h EXCEPT !.blocks = r, !.ptr = bs[i].at]
    BY <2>1, <2>2, Zenon
  <2>. HIDE DEF f, r, i
  <2>. QED BY <2>3
<1>. HIDE DEF i, f
<1>4. Ordered(r, end) /\ Serves(r, bs, bs[i].at, size)
  BY <1>2, TakeIs, Zenon
<1>5. bs[i].at # 0
  <2>1. i \in 1 .. Len(bs)
    BY <1>2, Zenon DEF FirstFit
  <2>2. bs[i].at \in Nat /\ PageSize <= bs[i].at
    BY <2>1, BlocksAre, Zenon
  <2>. QED BY <2>2, Sizes, SMTT(30)
<1>. QED BY <1>3, <1>4, <1>5, Zenon DEF f

\* kmalloc serves the request from a block that was free, or nothing that is in
\* use changes and it returns 0.
Allocates(r, end, ptr, bs, size) ==
    /\ Ordered(r, end)
    /\ ptr = 0 => \A p, l : Has(r, p, l) <=> Has(bs, p, l)
    /\ ptr # 0 => Serves(r, bs, ptr, size)

LEMMA OrderedUpTo ==
    ASSUME NEW bs, NEW e \in Nat, NEW f \in Nat, e <= f, Ordered(bs, e)
    PROVE  Ordered(bs, f)
<1>1. ASSUME NEW i \in 1 .. Len(bs) PROVE EndOf(bs[i]) <= f
  <2>1. bs[i] \in BlockType /\ EndOf(bs[i]) <= e
    BY SMTT(30) DEF Ordered
  <2>2. EndOf(bs[i]) \in Nat
    BY <2>1, BlockEnds, Zenon
  <2>. QED BY <2>1, <2>2, SMTT(30)
<1>. QED BY <1>1, Zenon DEF Ordered

LEMMA kmallocIs ==
    ASSUME heap_end \in Nat \ {0}, NEW size \in Nat, Ordered(blocks, heap_end * PageSize)
    PROVE  LET h == kmalloc(Heap, size)
           IN  Allocates(h.blocks, h.end * PageSize, h.ptr, blocks, size)
<1>. DEFINE start == heap_end * PageSize
            need == size + Header
            grown == heap_expand(Heap, need)
            bs == Grow(blocks, start, ((grown.end - heap_end) * PageSize) - Header)
            more == [grown EXCEPT !.blocks = bs]
            h == kmalloc(Heap, size)
<1>0. /\ Heap.end = heap_end /\ Heap.used = used /\ Heap.blocks = blocks
      /\ Heap = [blocks |-> blocks, end |-> heap_end, used |-> used, ok |-> TRUE, ptr |-> 0]
  BY DEF Heap
<1>1. need \in Nat /\ start \in Nat /\ PageSize \in Nat /\ Header \in Nat /\ PageSize <= start
  BY Sizes
<1>2. PICK got \in 0 .. Wanted(need) : grown = Expanded(got, need)
  BY <1>1, ExpandIs, Zenon
<1>3. /\ got \in Nat /\ grown.end = heap_end + got /\ grown.blocks = blocks /\ grown.ptr = 0
      /\ grown.ok = (got = Wanted(need))
  BY <1>2, WantedIs, <1>1, SMTT(30) DEF Expanded
<1>4. /\ got * PageSize \in Nat /\ (grown.end - heap_end) * PageSize = got * PageSize
      /\ grown.end * PageSize = start + got * PageSize
  <2>1. grown.end - heap_end = got
    BY <1>3
  <2>2. (heap_end + got) * PageSize = heap_end * PageSize + got * PageSize
    BY <1>1, <1>3
  <2>. QED BY <1>1, <1>3, <2>1, <2>2, SMTT(30)
<1>5. CASE FirstFit(blocks, size) # {}
  <2>1. h = Fit(Heap, size)
    BY <1>0, <1>5, Zenon DEF kmalloc
  <2>2. Ordered(h.blocks, start) /\ Serves(h.blocks, blocks, h.ptr, size) /\ h.ptr # 0 /\ h.end = heap_end
    <3>. HIDE DEF start, h
    <3>1. Ordered(blocks, start)
      BY DEF start
    <3>2. h = Fit([blocks |-> blocks, end |-> heap_end, used |-> used, ok |-> TRUE, ptr |-> 0], size)
      BY <1>0, <2>1, ZenonT(40)
    <3>3. Ordered(h.blocks, start)
      BY <1>1, <1>5, <3>1, <3>2, FitIs, ZenonT(30)
    <3>4. Serves(h.blocks, blocks, h.ptr, size)
      BY <1>1, <1>5, <3>1, <3>2, FitIs, ZenonT(60)
    <3>5. h.ptr # 0 /\ h.end = heap_end
      BY <1>1, <1>5, <3>1, <3>2, FitIs
    <3>. QED BY <3>3, <3>4, <3>5
  <2>. HIDE DEF h
  <2>. QED BY <2>2, Zenon DEF Allocates, h
<1>6. CASE FirstFit(blocks, size) = {} /\ ~grown.ok
  <2>1. h = grown
    BY <1>0, <1>6, Zenon DEF kmalloc
  <2>2. start + got * PageSize \in Nat /\ start <= start + got * PageSize
    <3>. DEFINE g == got * PageSize
    <3>1. g \in Nat
      BY <1>4
    <3>. HIDE DEF g, start
    <3>2. start + g \in Nat /\ start <= start + g
      BY <1>1, <3>1, SMTT(30)
    <3>. QED BY <3>2 DEF g
  <2>3. Ordered(blocks, grown.end * PageSize)
    BY <1>1, <1>4, <2>2, OrderedUpTo
  <2>. QED BY <1>3, <2>1, <2>3, Zenon DEF Allocates
<1>7. CASE FirstFit(blocks, size) = {} /\ grown.ok
  <2>. DEFINE room == got * PageSize - Header
  <2>1. h = Fit(more, size)
    BY <1>0, <1>3, <1>7, Zenon DEF kmalloc
  <2>2. room \in Nat /\ size <= room /\ start + Header + room = grown.end * PageSize
        /\ grown.end * PageSize \in Nat
    <3>. DEFINE g == got * PageSize
    <3>1. g \in Nat /\ g >= need
      BY <1>1, <1>3, <1>4, <1>7, WantedIs, ZenonT(30)
    <3>2. grown.end * PageSize = start + g
      BY <1>4, Zenon
    <3>. HIDE DEF g, start, grown
    <3>3. g - Header \in Nat /\ size <= g - Header /\ start + Header + (g - Header) = start + g /\ start + g \in Nat
      BY <1>1, <3>1, SMTT(30)
    <3>. QED BY <3>2, <3>3, Zenon DEF g
  <2>3. bs = Grow(blocks, start, room)
    BY <1>4
  <2>. HIDE DEF room, start, bs, grown
  <2>4. /\ Ordered(bs, grown.end * PageSize)
        /\ \A p, l : Has(blocks, p, l) <=> Has(bs, p, l)
        /\ FirstFit(bs, size) # {}
    <3>1. Ordered(blocks, start)
      BY DEF start
    <3>2. Ordered(bs, start + Header + room)
      BY <1>1, <2>2, <2>3, <3>1, GrowIs, ZenonT(30)
    <3>3. \A p, l : Has(blocks, p, l) <=> Has(bs, p, l)
      BY <1>1, <2>2, <2>3, <3>1, GrowIs, ZenonT(30)
    <3>4. FirstFit(bs, size) # {}
      BY <1>1, <2>2, <2>3, <3>1, GrowIs, ZenonT(30)
    <3>. QED BY <2>2, <3>2, <3>3, <3>4, ZenonT(30)
  <2>5. /\ more.blocks = bs /\ more.end = grown.end
        /\ more = [blocks |-> bs, end |-> grown.end, used |-> grown.used, ok |-> grown.ok, ptr |-> 0]
    <3>1. more = [Expanded(got, need) EXCEPT !.blocks = bs]
      BY <1>2, Zenon
    <3>2. grown.used = Expanded(got, need).used /\ grown.ok = Expanded(got, need).ok
          /\ grown.end = Expanded(got, need).end
      BY <1>2, Zenon
    <3>. HIDE DEF more, need
    <3>. QED BY <3>1, <3>2 DEF Expanded
  <2>. HIDE DEF more
  <2>. HIDE DEF h
  <2>6. /\ Ordered(h.blocks, grown.end * PageSize) /\ Serves(h.blocks, bs, h.ptr, size)
        /\ h.ptr # 0 /\ h.end = grown.end
    <3>. DEFINE end == grown.end * PageSize  e == grown.end  u == grown.used  ok == grown.ok
    <3>1. end \in Nat /\ Ordered(bs, end)
      BY <2>2, <2>4
    <3>2. h = Fit([blocks |-> bs, end |-> e, used |-> u, ok |-> ok, ptr |-> 0], size)
      BY <2>1, <2>5, ZenonT(40)
    <3>. HIDE DEF end, e, u, ok
    <3>3. Ordered(h.blocks, end)
      BY <2>4, <3>1, <3>2, FitIs, Zenon
    <3>4. Serves(h.blocks, bs, h.ptr, size)
      BY <2>4, <3>1, <3>2, FitIs, ZenonT(60)
    <3>5. h.ptr # 0 /\ h.end = e
      BY <2>4, <3>1, <3>2, FitIs, SMTT(30)
    <3>. QED BY <3>3, <3>4, <3>5, Zenon DEF e, end
  <2>7. Serves(h.blocks, blocks, h.ptr, size)
    BY <2>4, <2>6, Zenon DEF Serves, Keeps
  <2>. QED BY <2>6, <2>7, Zenon DEF Allocates, h
<1>. QED BY <1>5, <1>6, <1>7, Zenon

\* A call that has not asked for a buffer, or has given it back.
Quiet(c) == c.pc \in {"idle", "boot", "stack", "publish"} \/ c.op = "fork" => c.buf = 0

\* The list bs of a heap that ends at end, with the calls wk, the FAT at fat and
\* the blocks lo lost: each block in use is the buffer of one call, the FAT or
\* lost, and a buffer has the length its call asked for.
HeapOk(bs, end, wk, fat, lo) ==
    /\ Ordered(bs, end)
    /\ \A w \in Workers : wk[w].buf # 0 =>
         /\ wk[w].len \in Nat /\ Has(bs, wk[w].buf, wk[w].len)
         /\ wk[w].buf \notin lo /\ wk[w].buf # fat
    /\ \A v, w \in Workers : v # w /\ wk[v].buf # 0 => wk[v].buf # wk[w].buf
    /\ \A w \in Workers : Quiet(wk[w])
    /\ wk[kmain].pc = "boot" => fat = 0
    /\ fat \notin lo /\ 0 \notin lo
    /\ \A p : Has(bs, p, 0) <=> p \in lo \/ (p # 0 /\ (p = fat \/ \E w \in Workers : p = wk[w].buf))

HeapInv == HeapOk(blocks, heap_end * PageSize, work, g_fat, lost)

\* A block with room for n has room for nothing.
LEMMA HasAny ==
    ASSUME NEW bs, NEW end, Ordered(bs, end), NEW p, NEW n \in Nat, Has(bs, p, n)
    PROVE  Has(bs, p, 0) /\ p # 0
<1>1. PICK i \in 1 .. Len(bs) : bs[i].at = p /\ ~bs[i].free /\ bs[i].size >= n
  BY Zenon DEF Has
<1>2. bs[i].size \in Nat /\ bs[i].at \in Nat /\ PageSize <= bs[i].at
  BY BlocksAre, Zenon
<1>3. p # 0
  BY <1>1, <1>2, Sizes, SMTT(30)
<1>4. bs[i].size >= 0
  BY <1>2
<1>. QED BY <1>1, <1>3, <1>4, Zenon DEF Has

\* One call changes.
Others(wk2, wk, p) == p \in Workers /\ \A w \in Workers : w # p => wk2[w] = wk[w]

\* It keeps its buffer.
LEMMA BufferKept ==
    ASSUME NEW bs, NEW end, NEW wk, NEW fat, NEW lo, HeapOk(bs, end, wk, fat, lo),
           NEW wk2, NEW p, Others(wk2, wk, p),
           wk2[p].buf = wk[p].buf, wk2[p].len = wk[p].len, wk2[p].pc # "boot", Quiet(wk2[p])
    PROVE  HeapOk(bs, end, wk2, fat, lo)
<1>1. \A w \in Workers : /\ wk2[w].buf = wk[w].buf /\ wk2[w].len = wk[w].len /\ Quiet(wk2[w])
                         /\ wk2[w].pc = "boot" => wk[w].pc = "boot"
  BY ZenonT(40) DEF Others, HeapOk
<1>2. kmain \in Workers
  BY DEF Workers
<1>3. \A q : (\E w \in Workers : q = wk[w].buf) <=> (\E w \in Workers : q = wk2[w].buf)
  BY <1>1, Zenon
<1>4. ASSUME NEW v \in Workers, NEW w \in Workers, v # w, wk2[v].buf # 0 PROVE wk2[v].buf # wk2[w].buf
  <2>1. wk2[v].buf = wk[v].buf /\ wk2[w].buf = wk[w].buf
    BY <1>1, Zenon
  <2>. QED BY <1>4, <2>1, Zenon DEF HeapOk
<1>5. \A w \in Workers : wk2[w].buf # 0 =>
        /\ wk2[w].len \in Nat /\ Has(bs, wk2[w].buf, wk2[w].len)
        /\ wk2[w].buf \notin lo /\ wk2[w].buf # fat
  BY <1>1, Zenon DEF HeapOk
<1>6. /\ Ordered(bs, end) /\ (wk2[kmain].pc = "boot" => fat = 0) /\ fat \notin lo /\ 0 \notin lo
  BY <1>1, <1>2, Zenon DEF HeapOk
<1>7. ASSUME NEW q
      PROVE  Has(bs, q, 0) <=> q \in lo \/ (q # 0 /\ (q = fat \/ \E w \in Workers : q = wk2[w].buf))
  <2>1. Has(bs, q, 0) <=> q \in lo \/ (q # 0 /\ (q = fat \/ \E w \in Workers : q = wk[w].buf))
    BY Zenon DEF HeapOk
  <2>. QED BY <1>3, <2>1, Zenon
<1>. QED BY <1>1, <1>4, <1>5, <1>6, <1>7, Zenon DEF HeapOk

\* It frees its buffer, if it has one.
LEMMA BufferFreed ==
    ASSUME NEW bs, NEW end \in Nat, NEW wk, NEW fat, NEW lo, HeapOk(bs, end, wk, fat, lo),
           NEW wk2, NEW p, Others(wk2, wk, p), wk2[p].buf = 0, wk2[p].pc # "boot"
    PROVE  HeapOk(kfree(bs, wk[p].buf), end, wk2, fat, lo)
<1>. DEFINE b == wk[p].buf
            r == kfree(bs, b)
<1>0. p \in Workers /\ Ordered(bs, end) /\ kmain \in Workers
  BY ZenonT(60) DEF Others, HeapOk, Workers
<1>1. Ordered(r, end) /\ \A q, l : Has(r, q, l) <=> (q # b \/ b = 0) /\ Has(bs, q, l)
  <2>1. CASE b = 0
    <3>1. r = bs
      BY <2>1, Zenon DEF kfree
    <3>. QED BY <1>0, <2>1, <3>1, Zenon
  <2>2. CASE b # 0
    <3>1. Has(bs, b, wk[p].len)
      BY <1>0, <2>2, Zenon DEF HeapOk
    <3>. HIDE DEF b
    <3>2. Ordered(r, end) /\ Frees(r, bs, b)
      BY <1>0, <3>1, kfreeIs, ZenonT(60)
    <3>. HIDE DEF r
    <3>. QED BY <2>2, <3>2, Zenon DEF Frees
  <2>. QED BY <2>1, <2>2
<1>. HIDE DEF r
<1>2. ASSUME NEW w \in Workers
      PROVE  /\ wk2[w].buf # 0 => w # p /\ wk2[w] = wk[w] /\ wk[w].buf # b
             /\ Quiet(wk2[w]) /\ (wk2[w].pc = "boot" => wk[w].pc = "boot")
  <2>1. CASE w = p
    BY <2>1, Zenon DEF Quiet
  <2>2. CASE w # p
    <3>1. wk2[w] = wk[w] /\ Quiet(wk[w])
      BY <2>2, Zenon DEF Others, HeapOk
    <3>2. wk[w].buf # 0 => wk[w].buf # b
      BY <1>0, <2>2, Zenon DEF HeapOk
    <3>. QED BY <2>2, <3>1, <3>2, Zenon
  <2>. QED BY <2>1, <2>2
<1>3. ASSUME NEW w \in Workers, wk2[w].buf # 0
      PROVE  /\ wk2[w].len \in Nat /\ Has(r, wk2[w].buf, wk2[w].len)
             /\ wk2[w].buf \notin lo /\ wk2[w].buf # fat
  <2>1. wk2[w] = wk[w] /\ wk[w].buf # b
    BY <1>2, <1>3, Zenon
  <2>2. /\ wk[w].len \in Nat /\ Has(bs, wk[w].buf, wk[w].len)
        /\ wk[w].buf \notin lo /\ wk[w].buf # fat
    BY <1>3, <2>1, Zenon DEF HeapOk
  <2>3. Has(r, wk[w].buf, wk[w].len)
    BY <1>1, <2>1, <2>2, Zenon
  <2>. QED BY <2>1, <2>2, <2>3, Zenon
<1>4. ASSUME NEW v \in Workers, NEW w \in Workers, v # w, wk2[v].buf # 0 PROVE wk2[v].buf # wk2[w].buf
  <2>1. CASE w = p
    BY <1>4, <2>1, Zenon
  <2>2. CASE w # p
    <3>1. wk2[v] = wk[v] /\ wk2[w] = wk[w]
      BY <1>2, <1>4, <2>2, Zenon DEF Others
    <3>. QED BY <1>4, <3>1, ZenonT(60) DEF HeapOk
  <2>. QED BY <2>1, <2>2
<1>5. ASSUME NEW q
      PROVE  Has(r, q, 0) <=> q \in lo \/ (q # 0 /\ (q = fat \/ \E w \in Workers : q = wk2[w].buf))
  <2>1. Has(bs, q, 0) <=> q \in lo \/ (q # 0 /\ (q = fat \/ \E w \in Workers : q = wk[w].buf))
    BY Zenon DEF HeapOk
  <2>2. b # 0 => b \notin lo /\ b # fat
    BY <1>0, Zenon DEF HeapOk
  <2>3. q # 0 => ((\E w \in Workers : q = wk2[w].buf) <=> q # b /\ \E w \in Workers : q = wk[w].buf)
    BY <1>2, Zenon DEF Others
  <2>4. q = 0 => q \notin lo
    BY Zenon DEF HeapOk
  <2>. QED BY <1>1, <2>1, <2>2, <2>3, <2>4, Zenon
<1>6. /\ wk2[kmain].pc = "boot" => fat = 0
      /\ fat \notin lo /\ 0 \notin lo
  BY <1>0, <1>2, Zenon DEF HeapOk
<1>7. \A w \in Workers : Quiet(wk2[w])
  BY <1>2, Zenon
<1>. QED BY <1>1, <1>3, <1>4, <1>5, <1>6, <1>7, Zenon DEF HeapOk, r

\* It ends and leaves its buffer behind.
LEMMA BufferLost ==
    ASSUME NEW bs, NEW end, NEW wk, NEW fat, NEW lo, HeapOk(bs, end, wk, fat, lo),
           NEW wk2, NEW p, Others(wk2, wk, p), wk2[p].buf = 0, wk2[p].pc # "boot"
    PROVE  HeapOk(bs, end, wk2, fat, lo \cup ({wk[p].buf} \ {0}))
<1>. DEFINE b == wk[p].buf
            more == lo \cup ({b} \ {0})
<1>0. p \in Workers /\ kmain \in Workers
  BY ZenonT(60) DEF Others, Workers
<1>2. ASSUME NEW w \in Workers
      PROVE  /\ wk2[w].buf # 0 => w # p /\ wk2[w] = wk[w] /\ wk[w].buf # b
             /\ Quiet(wk2[w]) /\ (wk2[w].pc = "boot" => wk[w].pc = "boot")
  <2>1. CASE w = p
    BY <2>1, Zenon DEF Quiet
  <2>2. CASE w # p
    <3>1. wk2[w] = wk[w] /\ Quiet(wk[w])
      BY <2>2, Zenon DEF Others, HeapOk
    <3>2. wk[w].buf # 0 => wk[w].buf # b
      BY <1>0, <2>2, Zenon DEF HeapOk
    <3>. QED BY <2>2, <3>1, <3>2, Zenon
  <2>. QED BY <2>1, <2>2
<1>3. ASSUME NEW w \in Workers, wk2[w].buf # 0
      PROVE  /\ wk2[w].len \in Nat /\ Has(bs, wk2[w].buf, wk2[w].len)
             /\ wk2[w].buf \notin more /\ wk2[w].buf # fat
  <2>1. wk2[w] = wk[w] /\ wk[w].buf # b
    BY <1>2, <1>3, Zenon
  <2>2. /\ wk[w].len \in Nat /\ Has(bs, wk[w].buf, wk[w].len)
        /\ wk[w].buf \notin lo /\ wk[w].buf # fat
    BY <1>3, <2>1, Zenon DEF HeapOk
  <2>. QED BY <2>1, <2>2, Zenon
<1>4. ASSUME NEW v \in Workers, NEW w \in Workers, v # w, wk2[v].buf # 0 PROVE wk2[v].buf # wk2[w].buf
  <2>1. CASE w = p
    BY <1>4, <2>1, Zenon
  <2>2. CASE w # p
    <3>1. wk2[v] = wk[v] /\ wk2[w] = wk[w]
      BY <1>2, <1>4, <2>2, Zenon DEF Others
    <3>. QED BY <1>4, <3>1, ZenonT(60) DEF HeapOk
  <2>. QED BY <2>1, <2>2
<1>5. ASSUME NEW q
      PROVE  Has(bs, q, 0) <=> q \in more \/ (q # 0 /\ (q = fat \/ \E w \in Workers : q = wk2[w].buf))
  <2>1. Has(bs, q, 0) <=> q \in lo \/ (q # 0 /\ (q = fat \/ \E w \in Workers : q = wk[w].buf))
    BY Zenon DEF HeapOk
  <2>3. q # 0 => ((\E w \in Workers : q = wk2[w].buf) <=> q # b /\ \E w \in Workers : q = wk[w].buf)
    BY <1>2, Zenon DEF Others
  <2>4. q \in more <=> q \in lo \/ (q # 0 /\ q = b)
    BY Zenon
  <2>5. \E w \in Workers : b = wk[w].buf
    BY <1>0, Zenon
  <2>. QED BY <2>1, <2>3, <2>4, <2>5, Zenon
<1>6. /\ wk2[kmain].pc = "boot" => fat = 0
      /\ fat \notin more /\ 0 \notin more
  BY <1>0, <1>2, Zenon DEF HeapOk
<1>7. \A w \in Workers : Quiet(wk2[w])
  BY <1>2, Zenon
<1>. QED BY <1>3, <1>4, <1>5, <1>6, <1>7, Zenon DEF HeapOk

\* It asks for a buffer and gets one.
LEMMA BufferTaken ==
    ASSUME NEW bs, NEW end, NEW wk, NEW fat, NEW lo, HeapOk(bs, end, wk, fat, lo),
           NEW r, NEW e, NEW ptr, NEW n \in Nat, Allocates(r, e, ptr, bs, n), ptr # 0,
           NEW wk2, NEW p, Others(wk2, wk, p), wk[p].buf = 0, wk2[p].buf = ptr, wk2[p].len = n,
           wk2[p].pc # "boot", Quiet(wk2[p])
    PROVE  HeapOk(r, e, wk2, fat, lo)
<1>0. p \in Workers /\ kmain \in Workers
  BY DEF Others, Workers
<1>1. /\ Ordered(r, e) /\ Has(r, ptr, n) /\ \A q, l : Has(bs, q, l) => Has(r, q, l)
      /\ \A q, l : Has(r, q, l) => Has(bs, q, l) \/ q = ptr
      /\ \A l : ~Has(bs, ptr, l)
  BY Zenon DEF Allocates, Serves, Keeps
<1>2. Has(r, ptr, 0)
  BY <1>1, HasAny, Zenon
<1>3. ptr \notin lo /\ ptr # fat /\ \A w \in Workers : wk[w].buf # ptr
  BY <1>1, Zenon DEF HeapOk
<1>4. ASSUME NEW w \in Workers PROVE Quiet(wk2[w]) /\ (wk2[w].pc = "boot" => wk[w].pc = "boot")
  BY Zenon DEF Others, HeapOk
<1>5. ASSUME NEW w \in Workers, wk2[w].buf # 0
      PROVE  /\ wk2[w].len \in Nat /\ Has(r, wk2[w].buf, wk2[w].len)
             /\ wk2[w].buf \notin lo /\ wk2[w].buf # fat
  <2>1. CASE w = p
    BY <1>1, <1>3, <2>1, Zenon
  <2>2. CASE w # p
    <3>1. wk2[w] = wk[w]
      BY <2>2, Zenon DEF Others
    <3>2. /\ wk[w].len \in Nat /\ Has(bs, wk[w].buf, wk[w].len)
          /\ wk[w].buf \notin lo /\ wk[w].buf # fat
      BY <1>5, <3>1, ZenonT(60) DEF HeapOk
    <3>. QED BY <1>1, <3>1, <3>2, Zenon
  <2>. QED BY <2>1, <2>2, Zenon
<1>6. ASSUME NEW v \in Workers, NEW w \in Workers, v # w, wk2[v].buf # 0 PROVE wk2[v].buf # wk2[w].buf
  <2>1. CASE v = p
    <3>1. wk2[w] = wk[w]
      BY <1>6, <2>1, Zenon DEF Others
    <3>. QED BY <1>3, <2>1, <3>1, Zenon
  <2>2. CASE v # p /\ w = p
    <3>1. wk2[v] = wk[v]
      BY <2>2, Zenon DEF Others
    <3>. QED BY <1>3, <2>2, <3>1, Zenon
  <2>3. CASE v # p /\ w # p
    <3>1. wk2[v] = wk[v] /\ wk2[w] = wk[w]
      BY <2>3, Zenon DEF Others
    <3>. QED BY <1>6, <3>1, ZenonT(60) DEF HeapOk
  <2>. QED BY <2>1, <2>2, <2>3
<1>7. ASSUME NEW q
      PROVE  Has(r, q, 0) <=> q \in lo \/ (q # 0 /\ (q = fat \/ \E w \in Workers : q = wk2[w].buf))
  <2>1. Has(bs, q, 0) <=> q \in lo \/ (q # 0 /\ (q = fat \/ \E w \in Workers : q = wk[w].buf))
    BY Zenon DEF HeapOk
  <2>2. Has(r, q, 0) <=> Has(bs, q, 0) \/ q = ptr
    BY <1>1, <1>2, Zenon
  <2>3. q # 0 => ((\E w \in Workers : q = wk2[w].buf) <=> q = ptr \/ \E w \in Workers : q = wk[w].buf)
    <3>1. ASSUME NEW w \in Workers, q = wk2[w].buf PROVE q = ptr \/ \E x \in Workers : q = wk[x].buf
      BY <3>1, Zenon DEF Others
    <3>2. ASSUME NEW w \in Workers, q = wk[w].buf, q # 0 PROVE \E x \in Workers : q = wk2[x].buf
      <4>1. w # p
        BY <3>2, Zenon
      <4>. QED BY <3>2, <4>1, Zenon DEF Others
    <3>. QED BY <1>0, <3>1, <3>2, Zenon
  <2>. QED BY <2>1, <2>2, <2>3, Zenon
<1>8. (wk2[kmain].pc = "boot" => fat = 0) /\ fat \notin lo /\ 0 \notin lo
  BY <1>0, <1>4, Zenon DEF HeapOk
<1>9. \A w \in Workers : Quiet(wk2[w])
  BY <1>4, Zenon
<1>. QED BY <1>1, <1>5, <1>6, <1>7, <1>8, <1>9, ZenonT(60) DEF HeapOk

\* The heap refuses: it may have grown, and nothing else is different.
LEMMA BufferRefused ==
    ASSUME NEW bs, NEW end, NEW wk, NEW fat, NEW lo, HeapOk(bs, end, wk, fat, lo),
           NEW r, NEW e, NEW n, Allocates(r, e, 0, bs, n)
    PROVE  HeapOk(r, e, wk, fat, lo)
<1>1. Ordered(r, e) /\ \A q, l : Has(r, q, l) <=> Has(bs, q, l)
  BY Zenon DEF Allocates
<1>2. \A w \in Workers : wk[w].buf # 0 =>
         /\ wk[w].len \in Nat /\ Has(r, wk[w].buf, wk[w].len)
         /\ wk[w].buf \notin lo /\ wk[w].buf # fat
  BY <1>1, Zenon DEF HeapOk
<1>3. \A q : Has(r, q, 0) <=> q \in lo \/ (q # 0 /\ (q = fat \/ \E w \in Workers : q = wk[w].buf))
  BY <1>1, Zenon DEF HeapOk
<1>. QED BY <1>1, <1>2, <1>3, Zenon DEF HeapOk

\* fat16_init keeps its block as the FAT, or frees it again.
LEMMA FatTaken ==
    ASSUME NEW bs, NEW end, NEW wk, NEW lo, HeapOk(bs, end, wk, 0, lo), wk[kmain].pc # "boot",
           NEW r, NEW e, NEW ptr, NEW n \in Nat, Allocates(r, e, ptr, bs, n)
    PROVE  HeapOk(r, e, wk, ptr, lo)
<1>1. CASE ptr = 0
  BY <1>1, BufferRefused, Zenon
<1>2. CASE ptr # 0
  <2>1. /\ Ordered(r, e) /\ Has(r, ptr, n) /\ \A q, l : Has(bs, q, l) => Has(r, q, l)
        /\ \A q, l : Has(r, q, l) => Has(bs, q, l) \/ q = ptr
        /\ \A l : ~Has(bs, ptr, l)
    BY <1>2, ZenonT(60) DEF Allocates, Serves, Keeps
  <2>2. Has(r, ptr, 0)
    BY <2>1, HasAny
  <2>3. ptr \notin lo /\ \A w \in Workers : wk[w].buf # ptr
    BY <1>2, <2>1, Zenon DEF HeapOk
  <2>4. ASSUME NEW w \in Workers, wk[w].buf # 0
        PROVE  /\ wk[w].len \in Nat /\ Has(r, wk[w].buf, wk[w].len)
               /\ wk[w].buf \notin lo /\ wk[w].buf # ptr
    BY <2>1, <2>3, <2>4, Zenon DEF HeapOk
  <2>5. ASSUME NEW q
        PROVE  Has(r, q, 0) <=> q \in lo \/ (q # 0 /\ (q = ptr \/ \E w \in Workers : q = wk[w].buf))
    <3>1. Has(bs, q, 0) <=> q \in lo \/ (q # 0 /\ \E w \in Workers : q = wk[w].buf)
      BY Zenon DEF HeapOk
    <3>2. Has(r, q, 0) <=> Has(bs, q, 0) \/ q = ptr
      BY <2>1, <2>2, Zenon
    <3>. QED BY <1>2, <3>1, <3>2, Zenon
  <2>. QED BY <2>1, <2>3, <2>4, <2>5, Zenon DEF HeapOk
<1>. QED BY <1>1, <1>2

LEMMA FatFreed ==
    ASSUME NEW bs, NEW end \in Nat, NEW wk, NEW fat, NEW lo, HeapOk(bs, end, wk, fat, lo)
    PROVE  HeapOk(kfree(bs, fat), end, wk, 0, lo)
<1>1. CASE fat = 0
  <2>1. kfree(bs, fat) = bs
    BY <1>1, Zenon DEF kfree
  <2>. QED BY <1>1, <2>1, Zenon
<1>2. CASE fat # 0
  <2>. DEFINE r == kfree(bs, fat)
  <2>1. Has(bs, fat, 0) /\ Ordered(bs, end)
    BY <1>2, Zenon DEF HeapOk
  <2>2. Ordered(r, end) /\ Frees(r, bs, fat)
    BY <2>1, kfreeIs, Zenon
  <2>. HIDE DEF r
  <2>3. ASSUME NEW w \in Workers, wk[w].buf # 0
        PROVE  /\ wk[w].len \in Nat /\ Has(r, wk[w].buf, wk[w].len)
               /\ wk[w].buf \notin lo /\ wk[w].buf # 0
    BY <2>2, <2>3, Zenon DEF HeapOk, Frees
  <2>4. ASSUME NEW q
        PROVE  Has(r, q, 0) <=> q \in lo \/ (q # 0 /\ (q = 0 \/ \E w \in Workers : q = wk[w].buf))
    <3>1. Has(bs, q, 0) <=> q \in lo \/ (q # 0 /\ (q = fat \/ \E w \in Workers : q = wk[w].buf))
      BY Zenon DEF HeapOk
    <3>2. Has(r, q, 0) <=> q # fat /\ Has(bs, q, 0)
      BY <2>2, Zenon DEF Frees
    <3>3. fat \notin lo /\ \A w \in Workers : wk[w].buf # fat
      BY <1>2, Zenon DEF HeapOk
    <3>. QED BY <3>1, <3>2, <3>3, Zenon
  <2>. QED BY <2>2, <2>3, <2>4, Zenon DEF HeapOk, r
<1>. QED BY <1>1, <1>2

-----------------------------------------------------------------------------
(* The steps.                                                              *)

LEMMA CallBuf ==
    ASSUME NEW o, NEW k, NEW g, NEW b, NEW l, NEW s
    PROVE  LET c == Call(o, k, g, b, l, s)
           IN  c.op = o /\ c.pc = k /\ c.buf = b /\ c.len = l /\ c.slot = s
BY DEF Call

\* Every call has the fields of a call.
IsCall(c) ==
    c \in [op : {c.op}, pc : {c.pc}, as : {c.as}, todo : {c.todo}, buf : {c.buf}, len : {c.len},
           prog : {c.prog}, slot : {c.slot}, see : {c.see}]

\* A call that has claimed a slot knows which.
Claims(c) == c.op = "fork" \/ c.pc = "publish" => c.slot \in Procs

HeapTypes ==
    /\ heap_end \in Nat \ {0}
    /\ work = [w \in Workers |-> work[w]]
    /\ \A w \in Workers : IsCall(work[w]) /\ Claims(work[w])

LEMMA HeapNat == HeapTypes => heap_end \in Nat \ {0} /\ heap_end * PageSize \in Nat
BY Sizes DEF HeapTypes

LEMMA kmallocEnd ==
    ASSUME heap_end \in Nat \ {0}, NEW size \in Nat
    PROVE  kmalloc(Heap, size).end \in Nat \ {0}
<1>. DEFINE grown == heap_expand(Heap, size + Header)
            bs == Grow(grown.blocks, heap_end * PageSize, ((grown.end - heap_end) * PageSize) - Header)
            more == [grown EXCEPT !.blocks = bs]
<1>0. Heap.end = heap_end /\ Heap.blocks = blocks
  BY Zenon DEF Heap
<1>1. PICK got \in 0 .. Wanted(size + Header) : grown = Expanded(got, size + Header)
  BY Sizes, ExpandIs, SMTT(30)
<1>2. /\ grown.end \in Nat \ {0} /\ more.end = grown.end /\ Fit(more, size).end = grown.end
      /\ Fit(Heap, size).end = heap_end
  <2>1. grown.end \in Nat \ {0}
    BY <1>1, Sizes, WantedIs DEF Expanded
  <2>. HIDE DEF bs
  <2>. QED BY <1>1, <2>1, ZenonT(30) DEF Expanded, Fit, Heap
<1>3. \/ kmalloc(Heap, size) = Fit(Heap, size) \/ kmalloc(Heap, size) = grown
      \/ kmalloc(Heap, size) = Fit(more, size)
  BY <1>0, Zenon DEF kmalloc
<1>. QED BY <1>2, <1>3, Zenon

\* A call in the place of another.
LEMMA CallStep ==
    ASSUME HeapTypes, NEW w \in Workers, NEW c, work' = [work EXCEPT ![w] = c]
    PROVE  Others(work', work, w) /\ work'[w] = c
<1>1. work = [x \in Workers |-> work[x]]
  BY DEF HeapTypes
<1>. QED BY <1>1 DEF Others

LEMMA NoCallStep ==
    ASSUME HeapTypes, NEW w \in Workers, work' = [work EXCEPT ![w] = NoCall]
    PROVE  Others(work', work, w) /\ work'[w].buf = 0 /\ work'[w].pc # "boot"
<1>1. Others(work', work, w) /\ work'[w] = NoCall
  BY CallStep, Zenon
<1>2. NoCall.buf = 0 /\ NoCall.pc = "idle"
  BY CallBuf DEF NoCall
<1>. QED BY <1>1, <1>2

\* The call of w is over and has freed its buffer, or has left it behind.
LEMMA EndFrees ==
    ASSUME HeapTypes, HeapInv, NEW w \in Workers, work' = [work EXCEPT ![w] = NoCall],
           blocks' = kfree(blocks, work[w].buf), heap_end' = heap_end, g_fat' = g_fat, lost' = lost
    PROVE  HeapInv'
<1>1. Others(work', work, w) /\ work'[w].buf = 0 /\ work'[w].pc # "boot"
  BY NoCallStep, Zenon
<1>. QED BY <1>1, HeapNat, BufferFreed, Zenon DEF HeapInv

LEMMA EndLoses ==
    ASSUME HeapTypes, HeapInv, NEW w \in Workers, work' = [work EXCEPT ![w] = NoCall],
           blocks' = blocks, heap_end' = heap_end, g_fat' = g_fat,
           lost' = lost \cup ({work[w].buf} \ {0})
    PROVE  HeapInv'
<1>1. Others(work', work, w) /\ work'[w].buf = 0 /\ work'[w].pc # "boot"
  BY NoCallStep, Zenon
<1>. QED BY <1>1, BufferLost, Zenon DEF HeapInv

\* The call of w, which has no buffer, is over, and so is that of the process
\* in the slot s it had claimed, if a kill has let another process in there.
LEMMA ReplaceHeap ==
    ASSUME HeapTypes, HeapInv, NEW w \in Workers, NEW s \in Workers, work[w].buf = 0,
           work' = [work EXCEPT ![w] = NoCall, ![s] = NoCall],
           blocks' = blocks, heap_end' = heap_end, g_fat' = g_fat, lost' = lost \cup HeldBlocks(s)
    PROVE  HeapInv'
<1>. DEFINE end == heap_end * PageSize
            one == [work EXCEPT ![w] = NoCall]
<1>1. work = [x \in Workers |-> work[x]] /\ end \in Nat
  BY HeapNat DEF HeapTypes
<1>2. NoCall.buf = 0 /\ NoCall.pc # "boot"
  <2>1. NoCall.buf = 0 /\ NoCall.pc = "idle"
    BY CallBuf DEF NoCall
  <2>. QED BY <2>1
<1>3. /\ Others(one, work, w) /\ one[w] = NoCall
      /\ Others(work', one, s) /\ work'[s] = NoCall
      /\ one[s].buf = work[s].buf
  <2>1. one[w] = NoCall /\ \A x \in Workers : x # w => one[x] = work[x]
    BY <1>1
  <2>2. work'[s] = NoCall /\ \A x \in Workers : x # s => work'[x] = one[x]
    BY <1>1
  <2>3. one[s].buf = work[s].buf
    BY <1>2, <2>1, Zenon
  <2>. HIDE DEF one
  <2>. QED BY <2>1, <2>2, <2>3, Zenon DEF Others
<1>. HIDE DEF one, end
<1>4. HeapOk(blocks, end, one, g_fat, lost)
  <2>1. HeapOk(blocks, end, work, g_fat, lost)
    BY DEF HeapInv, end
  <2>2. HeapOk(kfree(blocks, work[w].buf), end, one, g_fat, lost)
    BY <1>1, <1>2, <1>3, <2>1, BufferFreed, ZenonT(30)
  <2>3. kfree(blocks, work[w].buf) = blocks
    BY Zenon DEF kfree
  <2>. QED BY <2>2, <2>3, Zenon
<1>5. HeapOk(blocks, end, work', g_fat, lost \cup ({one[s].buf} \ {0}))
  BY <1>2, <1>3, <1>4, BufferLost, ZenonT(30)
<1>. QED BY <1>3, <1>5, Zenon DEF HeapInv, HeldBlocks, end

LEMMA GiveUpHeap ==
    ASSUME HeapTypes, HeapInv, NEW w \in Workers, GiveUp(w), heap_end' = heap_end, g_fat' = g_fat
    PROVE  HeapInv'
<1>1. CASE /\ work' = [work EXCEPT ![w] = NoCall] /\ blocks' = kfree(blocks, work[w].buf)
           /\ lost' = lost
  BY <1>1, EndFrees, ZenonT(30)
<1>2. CASE /\ work[w].op = "fork" /\ blocks' = blocks
           /\ lost' = lost \cup HeldBlocks(work[w].slot)
           /\ work' = [work EXCEPT ![w] = NoCall, ![work[w].slot] = NoCall]
  <2>1. work[w].slot \in Workers /\ work[w].buf = 0
    BY <1>2, Zenon DEF HeapTypes, Claims, Workers, HeapInv, HeapOk, Quiet
  <2>. QED BY <1>2, <2>1, ReplaceHeap, ZenonT(30)
<1>. QED BY <1>1, <1>2, Zenon DEF GiveUp, Replace

\* A system call asks for n units for its buffer, and returns or goes on.
LEMMA AskHeap ==
    ASSUME HeapTypes, HeapInv, NEW p \in Procs, InRing3(p), NEW n \in Nat,
           heap_end' = kmalloc(Heap, n).end, blocks' = kmalloc(Heap, n).blocks,
           g_fat' = g_fat, lost' = lost,
           NEW o \in {"exec", "write_file"}, NEW k \in {"read", "buffer"}, NEW g,
           work' = IF kmalloc(Heap, n).ptr = 0 THEN work
                   ELSE [work EXCEPT ![p] = Call(o, k, g, kmalloc(Heap, n).ptr, n, 0)]
    PROVE  HeapInv'
<1>. DEFINE h == kmalloc(Heap, n)
            ptr == h.ptr
            e == h.end * PageSize
<1>1. Allocates(h.blocks, e, ptr, blocks, n)
  <2>1. heap_end \in Nat \ {0} /\ Ordered(blocks, heap_end * PageSize)
    BY HeapNat, Zenon DEF HeapInv, HeapOk
  <2>. QED BY <2>1, kmallocIs, Zenon
<1>2. p \in Workers /\ work[p].buf = 0
  BY Zenon DEF Workers, InRing3, HeapInv, HeapOk, Quiet
<1>3. HeapOk(blocks, heap_end * PageSize, work, g_fat, lost)
  BY DEF HeapInv
<1>. HIDE DEF h
<1>4. CASE ptr = 0
  <2>1. HeapOk(h.blocks, e, work, g_fat, lost)
    <3>1. Allocates(h.blocks, e, 0, blocks, n)
      BY <1>1, <1>4
    <3>. QED BY <1>3, <3>1, BufferRefused, Zenon
  <2>2. work' = work
    BY <1>4, Zenon DEF h
  <2>. QED BY <2>1, <2>2, Zenon DEF HeapInv, h
<1>5. CASE ptr # 0
  <2>. DEFINE c == Call(o, k, g, ptr, n, 0)
  <2>1. work' = [work EXCEPT ![p] = c]
    BY <1>5, Zenon DEF h
  <2>2. c.op = o /\ c.pc = k /\ c.buf = ptr /\ c.len = n
    BY CallBuf
  <2>. HIDE DEF c
  <2>3. Others(work', work, p) /\ work'[p] = c
    BY <1>2, <2>1, CallStep, ZenonT(30)
  <2>4. Quiet(c) /\ c.pc # "boot"
    BY <2>2, ZenonT(60) DEF Quiet
  <2>5. HeapOk(h.blocks, e, work', g_fat, lost)
    BY <1>1, <1>2, <1>3, <1>5, <2>2, <2>3, <2>4, BufferTaken, SMTT(30)
  <2>. QED BY <2>5, Zenon DEF HeapInv, h
<1>. QED BY <1>4, <1>5, ZenonT(30)

\* A call that has no buffer begins.
LEMMA BeginHeap ==
    ASSUME HeapTypes, HeapInv, NEW w \in Workers, NEW o, NEW g, NEW s,
           work' = [work EXCEPT ![w] = Call(o, "dir", g, 0, 0, s)], work[w].buf = 0,
           blocks' = blocks, heap_end' = heap_end, g_fat' = g_fat, lost' = lost
    PROVE  HeapInv'
<1>. DEFINE c == Call(o, "dir", g, 0, 0, s)
<1>1. c.pc = "dir" /\ c.buf = 0
  BY CallBuf
<1>2. Others(work', work, w) /\ work'[w] = c
  BY CallStep, Zenon
<1>3. kfree(blocks, work[w].buf) = blocks
  BY Zenon DEF kfree
<1>4. work'[w].pc # "boot" /\ work'[w].buf = 0
  BY <1>1, <1>2
<1>. HIDE DEF c
<1>5. HeapOk(kfree(blocks, work[w].buf), heap_end * PageSize, work', g_fat, lost)
  BY <1>2, <1>4, HeapNat, BufferFreed, Zenon DEF HeapInv
<1>. QED BY <1>3, <1>5, Zenon DEF HeapInv

LEMMA ExecHeap ==
    ASSUME HeapTypes, HeapInv, NEW p \in Procs, NEW g \in Programs, Exec(p, g)
    PROVE  HeapInv'
<1>1. InRing3(p) /\ g_fat' = g_fat /\ lost' = lost /\ g.size \in Nat
  BY MemoryAssumption DEF Exec, Enter
<1>2. ASSUME work' = [work EXCEPT ![p] = Call("exec", "dir", g, 0, 0, 0)], UNCHANGED <<used, heap>>
      PROVE  HeapInv'
  <2>1. p \in Workers /\ work[p].buf = 0
    BY <1>1, Zenon DEF Workers, InRing3, HeapInv, HeapOk, Quiet
  <2>2. blocks' = blocks /\ heap_end' = heap_end
    BY <1>2 DEF heap
  <2>. QED BY <1>1, <1>2, <2>1, <2>2, BeginHeap, Zenon
<1>3. CASE /\ heap_end' = kmalloc(Heap, g.size).end /\ blocks' = kmalloc(Heap, g.size).blocks
           /\ work' = IF kmalloc(Heap, g.size).ptr = 0 THEN work
                      ELSE [work EXCEPT ![p] = Call("exec", "read", g, kmalloc(Heap, g.size).ptr, g.size, 0)]
  <2>. DEFINE n == g.size
  <2>1. n \in Nat
    BY <1>1, Zenon
  <2>. HIDE DEF n
  <2>2. /\ heap_end' = kmalloc(Heap, n).end /\ blocks' = kmalloc(Heap, n).blocks
        /\ work' = IF kmalloc(Heap, n).ptr = 0 THEN work
                   ELSE [work EXCEPT ![p] = Call("exec", "read", g, kmalloc(Heap, n).ptr, n, 0)]
    BY <1>3 DEF n
  <2>. QED BY <1>1, <2>1, <2>2, AskHeap, Zenon
<1>. QED BY <1>2, <1>3, ZenonT(60) DEF Exec

LEMMA WriteFileHeap ==
    ASSUME HeapTypes, HeapInv, NEW p \in Procs, NEW len \in Lens, WriteFile(p, len)
    PROVE  HeapInv'
<1>1. InRing3(p) /\ g_fat' = g_fat /\ lost' = lost /\ len \in Nat
  BY MemoryAssumption, Zenon DEF WriteFile, Enter
<1>2. /\ heap_end' = kmalloc(Heap, len).end /\ blocks' = kmalloc(Heap, len).blocks
      /\ work' = IF kmalloc(Heap, len).ptr = 0 THEN work
                 ELSE [work EXCEPT ![p] = Call("write_file", "buffer", Shell, kmalloc(Heap, len).ptr, len, 0)]
  BY Zenon DEF WriteFile
<1>. QED BY <1>1, <1>2, AskHeap, ZenonT(40)

LEMMA MountHeap ==
    ASSUME HeapTypes, HeapInv, NEW size \in FatSizes, MountFat(size)
    PROVE  HeapInv'
<1>. DEFINE h == kmalloc(Heap, size)
            ptr == h.ptr
            e == h.end * PageSize
            c == Call("exec", "dir", Shell, 0, 0, 0)
<1>0. size \in Nat /\ kmain \in Workers
  BY MemoryAssumption, Zenon DEF Workers
<1>1. Allocates(h.blocks, e, ptr, blocks, size)
  <2>1. heap_end \in Nat \ {0} /\ Ordered(blocks, heap_end * PageSize)
    BY HeapNat DEF HeapInv, HeapOk
  <2>. QED BY <1>0, <2>1, kmallocIs, ZenonT(60)
<1>2. /\ work[kmain].pc = "boot" /\ work' = [work EXCEPT ![kmain] = c]
      /\ heap_end' = h.end /\ lost' = lost
      /\ (blocks' = h.blocks /\ g_fat' = ptr) \/ (blocks' = kfree(h.blocks, ptr) /\ g_fat' = 0)
  BY Zenon DEF MountFat
<1>3. g_fat = 0 /\ work[kmain].buf = 0
  BY <1>0, <1>2, Zenon DEF HeapInv, HeapOk, Quiet
<1>4. HeapOk(blocks, heap_end * PageSize, work', 0, lost) /\ work'[kmain].pc # "boot"
  <2>1. c.pc = "dir" /\ c.buf = 0
    BY CallBuf
  <2>2. Others(work', work, kmain) /\ work'[kmain] = c
    BY <1>0, <1>2, CallStep, Zenon
  <2>3. kfree(blocks, work[kmain].buf) = blocks
    BY <1>3, Zenon DEF kfree
  <2>4. work'[kmain].pc # "boot" /\ work'[kmain].buf = 0
    BY <2>1, <2>2
  <2>. HIDE DEF c
  <2>5. HeapOk(kfree(blocks, work[kmain].buf), heap_end * PageSize, work', g_fat, lost)
    BY <2>2, <2>4, HeapNat, BufferFreed, Zenon DEF HeapInv
  <2>. QED BY <1>3, <2>3, <2>4, <2>5, Zenon
<1>5. e \in Nat
  <2>1. h.end \in Nat \ {0}
    BY <1>0, kmallocEnd, Zenon DEF HeapTypes
  <2>. HIDE DEF h
  <2>. QED BY <2>1, Sizes, SMTT(30)
<1>. HIDE DEF h, c
<1>6. HeapOk(h.blocks, e, work', ptr, lost)
  BY <1>0, <1>1, <1>4, FatTaken, ZenonT(30)
<1>7. HeapOk(kfree(h.blocks, ptr), e, work', 0, lost)
  BY <1>5, <1>6, FatFreed
<1>. QED BY <1>2, <1>6, <1>7, Zenon DEF HeapInv

LEMMA ExecReadHeap ==
    ASSUME HeapTypes, HeapInv, NEW p \in Procs, ExecRead(p)
    PROVE  HeapInv'
<1>1. p \in Workers /\ heap_end' = heap_end /\ g_fat' = g_fat /\ lost' = lost /\ work[p].pc = "read"
  BY DEF ExecRead, Workers
<1>2. CASE work' = [work EXCEPT ![p] = NoCall] /\ blocks' = kfree(blocks, work[p].buf)
  BY <1>1, <1>2, EndFrees, Zenon
<1>3. CASE work' = [work EXCEPT ![p].pc = "dir"] /\ UNCHANGED blocks
  <2>. DEFINE c == work[p]
              d == [c EXCEPT !.pc = "dir"]
  <2>1. IsCall(c) /\ work = [x \in Workers |-> work[x]] /\ Quiet(c)
    BY <1>1, Zenon DEF HeapTypes, HeapInv, HeapOk
  <2>2. work' = [work EXCEPT ![p] = d]
    BY <1>1, <1>3, <2>1
  <2>3. Others(work', work, p) /\ work'[p] = d
    BY <1>1, <2>2, CallStep, ZenonT(30)
  <2>. HIDE DEF c
  <2>4. d.pc = "dir" /\ d.buf = c.buf /\ d.len = c.len /\ d.op = c.op
    BY <2>1 DEF IsCall
  <2>. HIDE DEF d
  <2>5. Quiet(d) /\ d.pc # "boot"
    BY <2>1, <2>4, Zenon DEF Quiet
  <2>6. HeapOk(blocks, heap_end * PageSize, work', g_fat, lost)
    BY <2>3, <2>4, <2>5, BufferKept, ZenonT(30) DEF HeapInv, c
  <2>. QED BY <1>1, <1>3, <2>6, Zenon DEF HeapInv
<1>. QED BY <1>2, <1>3, Zenon DEF ExecRead

LEMMA WriteDoneHeap ==
    ASSUME HeapTypes, HeapInv, NEW p \in Procs, WriteFileDone(p)
    PROVE  HeapInv'
<1>1. /\ p \in Workers /\ heap_end' = heap_end /\ g_fat' = g_fat /\ lost' = lost
      /\ work' = [work EXCEPT ![p] = NoCall] /\ blocks' = kfree(blocks, work[p].buf)
  BY DEF WriteFileDone, Workers
<1>. QED BY <1>1, EndFrees, Zenon

LEMMA ForkHeap ==
    ASSUME HeapTypes, HeapInv, NEW p \in Procs, Fork(p)
    PROVE  HeapInv'
<1>. DEFINE s == Min({x \in Procs : procs[x].state = "unused"})
<1>1. /\ work' = [work EXCEPT ![p] = Call("fork", "dir", Shell, 0, 0, s)]
      /\ InRing3(p) /\ g_fat' = g_fat /\ lost' = lost
  BY Zenon DEF Fork, Enter
<1>2. blocks' = blocks /\ heap_end' = heap_end
  BY DEF Fork, heap
<1>3. p \in Workers /\ work[p].buf = 0
  BY <1>1, Zenon DEF Workers, InRing3, HeapInv, HeapOk, Quiet
<1>. HIDE DEF s
<1>. QED BY <1>1, <1>2, <1>3, BeginHeap, Zenon

LEMMA CreateDirectoryHeap ==
    ASSUME HeapTypes, HeapInv, NEW w \in Workers, CreateDirectory(w)
    PROVE  HeapInv'
<1>. DEFINE c == work[w]
            dir == pmm_alloc_page(used)
            as == [NoSpace EXCEPT !.dir = dir]
            todo == IF c.op = "fork" THEN <<>> ELSE Segments(c.prog)
<1>0. /\ c.pc = "dir" /\ blocks' = blocks /\ heap_end' = heap_end /\ g_fat' = g_fat
      /\ IsCall(c) /\ work = [x \in Workers |-> work[x]]
  BY DEF CreateDirectory, HeapTypes, heap
<1>1. ASSUME work' = [work EXCEPT ![w].as = as, ![w].pc = "map", ![w].todo = todo], lost' = lost
      PROVE  HeapInv'
  <2>. HIDE DEF as, todo
  <2>1. /\ Others(work', work, w) /\ work'[w].buf = c.buf /\ work'[w].len = c.len
        /\ work'[w].pc = "map" /\ work'[w].op = c.op
    BY <1>0, <1>1, ZenonT(40) DEF IsCall, Others
  <2>2. Quiet(work'[w])
    <3>1. Quiet(c)
      BY ZenonT(40) DEF HeapInv, HeapOk
    <3>. QED BY <2>1, <3>1 DEF Quiet
  <2>3. HeapOk(blocks, heap_end * PageSize, work', g_fat, lost)
    BY <2>1, <2>2, BufferKept, ZenonT(30) DEF HeapInv
  <2>. QED BY <1>0, <1>1, <2>3, Zenon DEF HeapInv
<1>2. ASSUME work' = [work EXCEPT ![w] = NoCall], lost' = lost \cup ({c.buf} \ {0})
      PROVE  HeapInv'
  BY <1>0, <1>2, EndLoses
<1>3. ASSUME c.op = "fork", work' = [work EXCEPT ![w] = NoCall, ![c.slot] = NoCall],
             lost' = lost \cup HeldBlocks(c.slot)
      PROVE  HeapInv'
  <2>1. c.slot \in Workers /\ c.buf = 0
    BY <1>3, Zenon DEF HeapTypes, Claims, Workers, HeapInv, HeapOk, Quiet
  <2>. QED BY <1>0, <1>3, <2>1, ReplaceHeap, ZenonT(30)
<1>. QED BY <1>1, <1>2, <1>3, ZenonT(30) DEF CreateDirectory, Replace

LEMMA MapPageHeap ==
    ASSUME HeapTypes, HeapInv, NEW w \in Workers, MapPage(w)
    PROVE  HeapInv'
<1>. DEFINE c == work[w]
            v == NextPage(w)
            phys == pmm_alloc_page(used)
            m == vmm_map_user_page(used \cup {phys}, c.as, v, phys)
            must == IF c.op = "fork" THEN view[w][v] ELSE Fill(w, v, phys)
            todo == IF c.op = "fork" THEN c.todo ELSE Tail(c.todo)
            as == m.as
<1>0. /\ heap_end' = heap_end /\ g_fat' = g_fat /\ c.pc \in {"map", "stack"}
      /\ IsCall(c) /\ work = [x \in Workers |-> work[x]]
  BY DEF MapPage, HeapTypes
<1>1. CASE GiveUp(w)
  BY <1>0, <1>1, GiveUpHeap
<1>2. ASSUME work' = [work EXCEPT ![w].as = as, ![w].see[v] = must,
                                  ![w].todo = IF c.op = "fork" THEN @ ELSE Tail(@)],
             blocks' = blocks, lost' = lost
      PROVE  HeapInv'
  <2>. HIDE DEF as, v, must
  <2>1. Others(work', work, w)
    BY <1>0, <1>2, Zenon DEF Others
  <2>2. work'[w] = [c EXCEPT !.as = as, !.see = [@ EXCEPT ![v] = must],
                             !.todo = IF c.op = "fork" THEN @ ELSE Tail(@)]
    BY <1>0, <1>2, ZenonT(30)
  <2>. HIDE DEF c
  <2>3. /\ work'[w].buf = c.buf /\ work'[w].len = c.len
        /\ work'[w].pc = c.pc /\ work'[w].op = c.op
    BY <1>0, <2>2, ZenonT(30) DEF IsCall
  <2>4. Quiet(work'[w]) /\ work'[w].pc # "boot"
    <3>1. Quiet(c)
      BY Zenon DEF HeapInv, HeapOk, c
    <3>. QED BY <1>0, <2>3, <3>1, ZenonT(60) DEF Quiet
  <2>5. HeapOk(blocks, heap_end * PageSize, work', g_fat, lost)
    BY <2>1, <2>3, <2>4, BufferKept DEF HeapInv, c
  <2>. QED BY <1>0, <1>2, <2>5, Zenon DEF HeapInv
<1>. QED BY <1>1, <1>2, Zenon DEF MapPage

LEMMA LoadedHeap ==
    ASSUME HeapTypes, HeapInv, NEW w \in Workers, Loaded(w)
    PROVE  HeapInv'
<1>0. /\ heap_end' = heap_end /\ g_fat' = g_fat
      /\ IsCall(work[w]) /\ work = [x \in Workers |-> work[x]]
  BY DEF Loaded, HeapTypes
<1>1. CASE GiveUp(w)
  BY <1>0, <1>1, GiveUpHeap
<1>2. ASSUME work' = [work EXCEPT ![w].buf = 0, ![w].pc = "stack", ![w].todo = Stack],
             blocks' = kfree(blocks, work[w].buf), lost' = lost
      PROVE  HeapInv'
  <2>1. Others(work', work, w) /\ work'[w].buf = 0 /\ work'[w].pc = "stack"
    BY <1>0, <1>2, Zenon DEF IsCall, Others
  <2>2. HeapOk(kfree(blocks, work[w].buf), heap_end * PageSize, work', g_fat, lost)
    BY <2>1, HeapNat, BufferFreed, Zenon DEF HeapInv
  <2>. QED BY <1>0, <1>2, <2>2, Zenon DEF HeapInv
<1>. QED BY <1>1, <1>2, Zenon DEF Loaded

LEMMA ClaimHeap ==
    ASSUME HeapTypes, HeapInv, NEW w \in Workers, Claim(w)
    PROVE  HeapInv'
<1>. DEFINE c == work[w]
            s == Min({x \in Procs : procs[x].state = "unused"})
            d == [c EXCEPT !.pc = "publish", !.slot = s]
<1>0. /\ heap_end' = heap_end /\ g_fat' = g_fat /\ c.pc = "stack"
      /\ IsCall(c) /\ work = [x \in Workers |-> work[x]] /\ c.buf = 0
  BY ZenonT(30) DEF Claim, HeapTypes, HeapInv, HeapOk, Quiet
<1>1. CASE GiveUp(w)
  BY <1>0, <1>1, GiveUpHeap
<1>2. ASSUME work' = [work EXCEPT ![w].pc = "publish", ![w].slot = s], blocks' = blocks, lost' = lost
      PROVE  HeapInv'
  <2>. HIDE DEF s
  <2>1. work' = [work EXCEPT ![w] = d]
    BY <1>0, <1>2, Zenon
  <2>2. Others(work', work, w) /\ work'[w] = d
    BY <1>0, <2>1, CallStep, ZenonT(30)
  <2>. HIDE DEF c
  <2>3. d.pc = "publish" /\ d.buf = c.buf /\ d.len = c.len
    BY <1>0 DEF IsCall
  <2>. HIDE DEF d
  <2>4. Quiet(d) /\ d.pc # "boot"
    BY <1>0, <2>3, Zenon DEF Quiet
  <2>5. HeapOk(blocks, heap_end * PageSize, work', g_fat, lost)
    BY <2>2, <2>3, <2>4, BufferKept, ZenonT(30) DEF HeapInv, c
  <2>. QED BY <1>0, <1>2, <2>5, Zenon DEF HeapInv
<1>. QED BY <1>1, <1>2, Zenon DEF Claim

LEMMA PublishHeap ==
    ASSUME HeapTypes, HeapInv, NEW w \in Workers, Publish(w)
    PROVE  HeapInv'
<1>. DEFINE s == work[w].slot
<1>1. s \in Workers /\ work[w].buf = 0
  BY Zenon DEF Publish, HeapTypes, Claims, Workers, HeapInv, HeapOk, Quiet
<1>2. /\ work' = [work EXCEPT ![w] = NoCall, ![s] = NoCall] /\ g_fat' = g_fat
      /\ blocks' = blocks /\ heap_end' = heap_end /\ lost' = lost \cup HeldBlocks(s)
  BY Zenon DEF Publish, Replace, heap
<1>. QED BY <1>1, <1>2, ReplaceHeap, ZenonT(30)

LEMMA ExitHeap ==
    ASSUME HeapTypes, HeapInv, NEW q \in Procs, NEW p \in Procs, Exit(q, p)
    PROVE  HeapInv'
<1>1. /\ p \in Workers /\ blocks' = blocks /\ heap_end' = heap_end /\ g_fat' = g_fat
      /\ work' = [work EXCEPT ![p] = NoCall] /\ lost' = lost \cup ({work[p].buf} \ {0})
  BY DEF Exit, Replace, HeldBlocks, Workers, heap
<1>. QED BY <1>1, EndLoses, ZenonT(60)

LEMMA HeapInit == Init => HeapInv
<1>. SUFFICES ASSUME Init PROVE HeapInv
  OBVIOUS
<1>. DEFINE n == HeapPages * PageSize
            b == Block(PageSize, n - Header, TRUE)
            B == Call("none", "boot", Shell, 0, 0, 0)
            end == heap_end * PageSize
<1>1. /\ blocks = <<b>> /\ g_fat = 0 /\ lost = {} /\ heap_end = 1 + HeapPages
      /\ work = [w \in Workers |-> IF w = kmain THEN B ELSE NoCall]
  BY DEF Init
<1>2. n \in Nat /\ n >= PageSize /\ n - Header \in Nat
  <2>1. n \in Nat /\ n >= PageSize
    BY Sizes
  <2>. HIDE DEF n
  <2>. QED BY <2>1, Sizes, SMTT(30)
<1>3. end = PageSize + n
  BY <1>1, Sizes
<1>. HIDE DEF n
<1>4. b \in BlockType /\ b.at = PageSize /\ b.free = TRUE /\ EndOf(b) = PageSize + Header + (n - Header)
  BY <1>2, Sizes, BlockIs, ZenonT(60)
<1>. HIDE DEF b
<1>5. EndOf(b) = end
  BY <1>2, <1>3, <1>4, Sizes
<1>6. Len(blocks) = 1 /\ blocks[1] = b /\ blocks \in Seq(BlockType)
  BY <1>1, <1>4
<1>7. Ordered(blocks, end)
  <2>1. PageSize <= b.at /\ EndOf(b) <= end
    BY <1>2, <1>3, <1>4, <1>5, Sizes
  <2>. HIDE DEF end
  <2>. QED BY <1>6, <2>1 DEF Ordered
<1>8. \A p, l : ~Has(blocks, p, l)
  BY <1>4, <1>6 DEF Has
<1>9. \A w \in Workers : work[w].buf = 0 /\ Quiet(work[w])
  <2>1. B.buf = 0 /\ NoCall.buf = 0
    BY CallBuf DEF NoCall
  <2>. HIDE DEF B
  <2>2. \A w \in Workers : work[w].buf = 0
    BY <1>1, <2>1, Zenon
  <2>. QED BY <2>2, Zenon DEF Quiet
<1>. HIDE DEF end, B
<1>. QED BY <1>1, <1>7, <1>8, <1>9, Zenon DEF HeapInv, HeapOk, end

LEMMA HeapsStep == HeapTypes /\ HeapInv /\ [Next]_vars => HeapInv'
<1>. SUFFICES ASSUME HeapTypes, HeapInv, [Next]_vars PROVE HeapInv'
  OBVIOUS
<1>1. ASSUME NEW size \in FatSizes, MountFat(size) PROVE HeapInv'
  BY <1>1, MountHeap, Zenon
<1>2. ASSUME NEW w \in Workers, CreateDirectory(w) PROVE HeapInv'
  BY <1>2, CreateDirectoryHeap, Zenon
<1>3. ASSUME NEW w \in Workers, MapPage(w) PROVE HeapInv'
  BY <1>3, MapPageHeap, Zenon
<1>4. ASSUME NEW w \in Workers, Loaded(w) PROVE HeapInv'
  BY <1>4, LoadedHeap
<1>5. ASSUME NEW w \in Workers, Claim(w) PROVE HeapInv'
  BY <1>5, ClaimHeap
<1>14. ASSUME NEW w \in Workers, Publish(w) PROVE HeapInv'
  BY <1>14, PublishHeap
<1>6. ASSUME NEW p \in Procs, Fork(p) PROVE HeapInv'
  BY <1>6, ForkHeap
<1>7. ASSUME NEW q \in Procs, NEW p \in Procs, Exit(q, p) PROVE HeapInv'
  BY <1>7, ExitHeap
<1>8. ASSUME NEW p \in Procs, ExecRead(p) PROVE HeapInv'
  BY <1>8, ExecReadHeap
<1>9. ASSUME NEW p \in Procs, WriteFileDone(p) PROVE HeapInv'
  BY <1>9, WriteDoneHeap
<1>10. ASSUME NEW p \in Procs, NEW g \in Programs, Exec(p, g) PROVE HeapInv'
  BY <1>10, ExecHeap, Zenon
<1>11. ASSUME NEW p \in Procs, NEW len \in Lens, WriteFile(p, len) PROVE HeapInv'
  BY <1>11, WriteFileHeap
<1>12. ASSUME NEW p \in Procs, NEW vs \in Stores, copy_to_user(p, vs) PROVE HeapInv'
  BY <1>12, Zenon DEF copy_to_user, heap, HeapInv
<1>13. CASE UNCHANGED vars
  BY <1>13, Zenon DEF vars, heap, HeapInv
<1>. QED
  BY <1>1, <1>2, <1>3, <1>4, <1>5, <1>6, <1>7, <1>8, <1>9, <1>10, <1>11, <1>12, <1>13, <1>14, ZenonT(60)
  DEF Next

\* The calls stay calls.
CallsTyped ==
    work = [w \in Workers |-> work[w]] /\ \A w \in Workers : IsCall(work[w]) /\ Claims(work[w])

LEMMA CallsAre ==
    ASSUME HeapTypes, NEW w \in Workers, NEW c, IsCall(c), Claims(c), work' = [work EXCEPT ![w] = c]
    PROVE  CallsTyped'
<1>1. work = [x \in Workers |-> work[x]]
  BY DEF HeapTypes
<1>2. work'[w] = c /\ \A x \in Workers : x # w => work'[x] = work[x]
  BY <1>1
<1>3. work' = [x \in Workers |-> work'[x]]
  BY <1>1
<1>4. ASSUME NEW x \in Workers PROVE IsCall(work'[x]) /\ Claims(work'[x])
  BY <1>2, Zenon DEF HeapTypes
<1>. QED BY <1>3, <1>4, Zenon DEF CallsTyped

LEMMA NewCall ==
    ASSUME NEW o, NEW k, NEW g, NEW b, NEW l, NEW s, (o # "fork" /\ k # "publish") \/ s \in Procs
    PROVE  IsCall(Call(o, k, g, b, l, s)) /\ Claims(Call(o, k, g, b, l, s))
<1>. DEFINE c == Call(o, k, g, b, l, s)
<1>1. IsCall(c)
  BY DEF IsCall, Call
<1>2. c.op = o /\ c.pc = k /\ c.slot = s
  BY CallBuf
<1>. HIDE DEF c
<1>3. Claims(c)
  BY <1>2, Zenon DEF Claims
<1>. QED BY <1>1, <1>3 DEF c

LEMMA IdleCall == IsCall(NoCall) /\ Claims(NoCall)
<1>1. "none" # "fork" /\ "idle" # "publish"
  OBVIOUS
<1>. QED BY <1>1, NewCall, Zenon DEF NoCall

LEMMA EndCall ==
    ASSUME HeapTypes, NEW w \in Workers, work' = [work EXCEPT ![w] = NoCall]
    PROVE  CallsTyped'
BY IdleCall, CallsAre, ZenonT(30)

LEMMA EndBoth ==
    ASSUME HeapTypes, NEW w \in Workers, NEW s, work' = [work EXCEPT ![w] = NoCall, ![s] = NoCall]
    PROVE  CallsTyped'
<1>1. work = [x \in Workers |-> work[x]]
  BY DEF HeapTypes
<1>2. \A x \in Workers : work'[x] = NoCall \/ work'[x] = work[x]
  BY <1>1
<1>3. work' = [x \in Workers |-> work'[x]]
  BY <1>1, Zenon
<1>4. ASSUME NEW x \in Workers PROVE IsCall(work'[x]) /\ Claims(work'[x])
  BY <1>2, IdleCall, Zenon DEF HeapTypes
<1>. QED BY <1>3, <1>4, Zenon DEF CallsTyped

\* The slot that fork and spawn claim.
LEMMA FreeSlot ==
    ASSUME {s \in Procs : procs[s].state = "unused"} # {}
    PROVE  Min({x \in Procs : procs[x].state = "unused"}) \in Procs
<1>. DEFINE F == {x \in Procs : procs[x].state = "unused"}
<1>1. F \in SUBSET Nat /\ F # {}
  BY MemoryAssumption, Zenon
<1>2. Min(F) \in F
  <2>. HIDE DEF F
  <2>. QED BY <1>1, MinIs, Zenon
<1>. QED BY <1>2

LEMMA CallsStep == HeapTypes /\ [Next]_vars => CallsTyped'
<1>. SUFFICES ASSUME HeapTypes, [Next]_vars PROVE CallsTyped'
  OBVIOUS
<1>0. CallsTyped /\ kmain \in Workers /\ Procs \subseteq Workers
  BY DEF CallsTyped, HeapTypes, Workers
<1>1. ASSUME work' = work PROVE CallsTyped'
  BY <1>0, <1>1 DEF CallsTyped
<1>2. ASSUME NEW size \in FatSizes, MountFat(size) PROVE CallsTyped'
  <2>. DEFINE c == Call("exec", "dir", Shell, 0, 0, 0)
  <2>1. IsCall(c) /\ Claims(c)
    BY NewCall
  <2>2. work' = [work EXCEPT ![kmain] = c]
    BY <1>2, Zenon DEF MountFat
  <2>. HIDE DEF c
  <2>. QED BY <1>0, <2>1, <2>2, CallsAre, Zenon
<1>3. ASSUME NEW w \in Workers, GiveUp(w) PROVE CallsTyped'
  BY <1>3, EndCall, EndBoth, Zenon DEF GiveUp
<1>4. ASSUME NEW w \in Workers, CreateDirectory(w) PROVE CallsTyped'
  <2>. DEFINE c == work[w]
              as == [NoSpace EXCEPT !.dir = pmm_alloc_page(used)]
              todo == IF c.op = "fork" THEN <<>> ELSE Segments(c.prog)
              d == [c EXCEPT !.as = as, !.pc = "map", !.todo = todo]
  <2>1. ASSUME work' = [work EXCEPT ![w].as = as, ![w].pc = "map", ![w].todo = todo]
        PROVE  CallsTyped'
    <3>. HIDE DEF as, todo
    <3>1. work' = [work EXCEPT ![w] = d]
      BY <1>0, <2>1, Zenon DEF CallsTyped
    <3>2. IsCall(c) /\ Claims(c)
      BY <1>0 DEF CallsTyped
    <3>. HIDE DEF c
    <3>3. IsCall(d) /\ d.op = c.op /\ d.pc = "map" /\ d.slot = c.slot
      BY <3>2, Zenon DEF IsCall
    <3>. HIDE DEF d
    <3>4. Claims(d)
      BY <3>2, <3>3 DEF Claims
    <3>. QED BY <3>1, <3>3, <3>4, CallsAre, Zenon
  <2>2. ASSUME work' = [work EXCEPT ![w] = NoCall] PROVE CallsTyped'
    BY <2>2, EndCall, Zenon
  <2>3. ASSUME work' = [work EXCEPT ![w] = NoCall, ![c.slot] = NoCall] PROVE CallsTyped'
    BY <2>3, EndBoth, Zenon
  <2>. QED BY <1>4, <2>1, <2>2, <2>3, Zenon DEF CreateDirectory
<1>5. ASSUME NEW w \in Workers, MapPage(w) PROVE CallsTyped'
  <2>. DEFINE c == work[w]
              v == NextPage(w)
              phys == pmm_alloc_page(used)
              as == vmm_map_user_page(used \cup {phys}, c.as, v, phys).as
              must == IF c.op = "fork" THEN view[w][v] ELSE Fill(w, v, phys)
              see == [c.see EXCEPT ![v] = must]
              todo == IF c.op = "fork" THEN c.todo ELSE Tail(c.todo)
              d == [c EXCEPT !.as = as, !.see = see, !.todo = todo]
  <2>1. ASSUME work' = [work EXCEPT ![w].as = as, ![w].see[v] = must,
                                    ![w].todo = IF c.op = "fork" THEN @ ELSE Tail(@)]
        PROVE  CallsTyped'
    <3>0. IsCall(c) /\ Claims(c)
      BY <1>0 DEF CallsTyped
    <3>. HIDE DEF as, v, must
    <3>1. work' = [work EXCEPT ![w] = d]
      BY <1>0, <2>1, <3>0, Zenon DEF CallsTyped, IsCall
    <3>. HIDE DEF c, see, todo
    <3>2. IsCall(d) /\ d.op = c.op /\ d.pc = c.pc /\ d.slot = c.slot
      BY <3>0, Zenon DEF IsCall
    <3>. HIDE DEF d
    <3>3. Claims(d)
      BY <3>0, <3>2, Zenon DEF Claims
    <3>. QED BY <3>1, <3>2, <3>3, CallsAre, Zenon
  <2>. QED BY <1>3, <1>5, <2>1, ZenonT(60) DEF MapPage
<1>6. ASSUME NEW w \in Workers, Loaded(w) PROVE CallsTyped'
  <2>. DEFINE c == work[w]
              d == [c EXCEPT !.buf = 0, !.pc = "stack", !.todo = Stack]
  <2>1. ASSUME work' = [work EXCEPT ![w].buf = 0, ![w].pc = "stack", ![w].todo = Stack]
        PROVE  CallsTyped'
    <3>1. work' = [work EXCEPT ![w] = d]
      BY <1>0, <2>1, Zenon DEF CallsTyped
    <3>2. IsCall(c) /\ Claims(c)
      BY <1>0 DEF CallsTyped
    <3>. HIDE DEF c
    <3>3. IsCall(d) /\ d.op = c.op /\ d.pc = "stack" /\ d.slot = c.slot
      BY <3>2, Zenon DEF IsCall
    <3>. HIDE DEF d
    <3>4. Claims(d)
      BY <3>2, <3>3 DEF Claims
    <3>. QED BY <3>1, <3>3, <3>4, CallsAre, Zenon
  <2>. QED BY <1>3, <1>6, <2>1, Zenon DEF Loaded
<1>7. ASSUME NEW w \in Workers, Claim(w) PROVE CallsTyped'
  <2>. DEFINE c == work[w]
              F == {x \in Procs : procs[x].state = "unused"}
              s == Min(F)
              d == [c EXCEPT !.pc = "publish", !.slot = s]
  <2>1. ASSUME F # {}, work' = [work EXCEPT ![w].pc = "publish", ![w].slot = s]
        PROVE  CallsTyped'
    <3>0. s \in Procs
      BY <2>1, FreeSlot
    <3>. HIDE DEF s
    <3>1. work' = [work EXCEPT ![w] = d] /\ IsCall(c)
      BY <1>0, <2>1, Zenon DEF CallsTyped
    <3>. HIDE DEF c
    <3>2. IsCall(d) /\ d.slot = s
      BY <3>1, Zenon DEF IsCall
    <3>. HIDE DEF d
    <3>3. Claims(d)
      BY <3>0, <3>2 DEF Claims
    <3>. QED BY <3>1, <3>2, <3>3, CallsAre, Zenon
  <2>. QED BY <1>3, <1>7, <2>1, Zenon DEF Claim
<1>16. ASSUME NEW w \in Workers, Publish(w) PROVE CallsTyped'
  BY <1>16, EndBoth, Zenon DEF Publish
<1>8. ASSUME NEW p \in Procs, Fork(p) PROVE CallsTyped'
  <2>. DEFINE F == {x \in Procs : procs[x].state = "unused"}
              s == Min(F)
  <2>1. F # {} /\ work' = [work EXCEPT ![p] = Call("fork", "dir", Shell, 0, 0, s)]
    BY <1>8, Zenon DEF Fork
  <2>2. s \in Procs
    BY <2>1, FreeSlot
  <2>. HIDE DEF s
  <2>. QED BY <1>0, <2>1, <2>2, NewCall, CallsAre, Zenon
<1>9. ASSUME NEW q \in Procs, NEW p \in Procs, Exit(q, p) PROVE CallsTyped'
  BY <1>0, <1>9, EndCall, Zenon DEF Exit
<1>10. ASSUME NEW p \in Procs, ExecRead(p) PROVE CallsTyped'
  <2>. DEFINE c == work[p]
              d == [c EXCEPT !.pc = "dir"]
  <2>1. ASSUME work' = [work EXCEPT ![p].pc = "dir"] PROVE CallsTyped'
    <3>1. work' = [work EXCEPT ![p] = d] /\ IsCall(c) /\ Claims(c) /\ p \in Workers
      BY <1>0, <2>1, Zenon DEF CallsTyped
    <3>. HIDE DEF c
    <3>2. IsCall(d) /\ d.op = c.op /\ d.pc = "dir" /\ d.slot = c.slot
      BY <3>1, Zenon DEF IsCall
    <3>. HIDE DEF d
    <3>3. Claims(d)
      BY <3>1, <3>2 DEF Claims
    <3>. QED BY <3>1, <3>2, <3>3, CallsAre, Zenon
  <2>. QED BY <1>0, <1>10, <2>1, EndCall, ZenonT(30) DEF ExecRead
<1>11. ASSUME NEW p \in Procs, WriteFileDone(p) PROVE CallsTyped'
  BY <1>0, <1>11, EndCall, Zenon DEF WriteFileDone
<1>12. ASSUME NEW p \in Procs, NEW g \in Programs, Exec(p, g) PROVE CallsTyped'
  <2>1. \/ work' = work \/ work' = [work EXCEPT ![p] = Call("exec", "dir", g, 0, 0, 0)]
        \/ \E b : work' = [work EXCEPT ![p] = Call("exec", "read", g, b, g.size, 0)]
    BY <1>12, Zenon DEF Exec
  <2>2. "exec" # "fork" /\ "dir" # "publish" /\ "read" # "publish"
    OBVIOUS
  <2>. QED BY <1>0, <1>1, <2>1, <2>2, NewCall, CallsAre, ZenonT(30)
<1>13. ASSUME NEW p \in Procs, NEW len \in Lens, WriteFile(p, len) PROVE CallsTyped'
  <2>1. \/ work' = work
        \/ \E b : work' = [work EXCEPT ![p] = Call("write_file", "buffer", Shell, b, len, 0)]
    BY <1>13, Zenon DEF WriteFile
  <2>2. "write_file" # "fork" /\ "buffer" # "publish"
    OBVIOUS
  <2>. QED BY <1>0, <1>1, <2>1, <2>2, NewCall, CallsAre, ZenonT(30)
<1>14. ASSUME NEW p \in Procs, NEW vs \in Stores, copy_to_user(p, vs) PROVE CallsTyped'
  BY <1>1, <1>14, Zenon DEF copy_to_user
<1>15. CASE UNCHANGED vars
  BY <1>1, <1>15, Zenon DEF vars
<1>. QED
  BY <1>2, <1>4, <1>5, <1>6, <1>7, <1>8, <1>9, <1>10, <1>11, <1>12, <1>13, <1>14, <1>15, <1>16, ZenonT(60)
  DEF Next

LEMMA TypesStep == HeapTypes /\ [Next]_vars => HeapTypes'
<1>. SUFFICES ASSUME HeapTypes, [Next]_vars PROVE heap_end' \in Nat \ {0}
  BY CallsStep DEF HeapTypes, CallsTyped
<1>0. heap_end \in Nat \ {0}
  BY DEF HeapTypes
<1>1. \A n \in Nat : heap_end' = kmalloc(Heap, n).end => heap_end' \in Nat \ {0}
  BY <1>0, kmallocEnd, Zenon
<1>2. heap_end' = heap_end \/ \E n \in Nat : heap_end' = kmalloc(Heap, n).end
  <2>1. ASSUME NEW w \in Workers,
               CreateDirectory(w) \/ MapPage(w) \/ Loaded(w) \/ Claim(w) \/ Publish(w)
        PROVE  heap_end' = heap_end
    BY <2>1, Zenon DEF CreateDirectory, MapPage, Loaded, Claim, Publish, heap
  <2>2. ASSUME NEW p \in Procs,
               Fork(p) \/ ExecRead(p) \/ WriteFileDone(p) \/ \E q \in Procs : Exit(q, p)
        PROVE  heap_end' = heap_end
    BY <2>2, ZenonT(60) DEF Fork, Exit, ExecRead, WriteFileDone, heap
  <2>3. ASSUME NEW size \in FatSizes, MountFat(size)
        PROVE  size \in Nat /\ heap_end' = kmalloc(Heap, size).end
    BY <2>3, MemoryAssumption DEF MountFat
  <2>4. ASSUME NEW p \in Procs, NEW g \in Programs, Exec(p, g)
        PROVE  heap_end' = heap_end \/ (g.size \in Nat /\ heap_end' = kmalloc(Heap, g.size).end)
    <3>1. g.size \in Nat
      BY MemoryAssumption
    <3>. QED BY <2>4, <3>1, Zenon DEF Exec, heap
  <2>5. ASSUME NEW p \in Procs, NEW len \in Lens, WriteFile(p, len)
        PROVE  len \in Nat /\ heap_end' = kmalloc(Heap, len).end
    BY <2>5, MemoryAssumption, ZenonT(30) DEF WriteFile
  <2>6. ASSUME NEW p \in Procs, NEW vs \in Stores, copy_to_user(p, vs) PROVE heap_end' = heap_end
    BY <2>6, Zenon DEF copy_to_user, heap
  <2>7. CASE UNCHANGED vars
    BY <2>7 DEF vars, heap
  <2>. QED BY <2>1, <2>2, <2>3, <2>4, <2>5, <2>6, <2>7, Zenon DEF Next
<1>. QED BY <1>0, <1>1, <1>2, Zenon

LEMMA TypesInit == Init => HeapTypes
<1>. SUFFICES ASSUME Init PROVE HeapTypes
  OBVIOUS
<1>. DEFINE B == Call("none", "boot", Shell, 0, 0, 0)
<1>1. work = [w \in Workers |-> IF w = kmain THEN B ELSE NoCall]
  BY DEF Init
<1>2. IsCall(B) /\ Claims(B)
  BY NewCall
<1>. HIDE DEF B
<1>3. \A w \in Workers : IsCall(work[w]) /\ Claims(work[w])
  BY <1>1, <1>2, IdleCall, Zenon
<1>4. heap_end \in Nat \ {0}
  BY Sizes DEF Init
<1>. QED BY <1>1, <1>3, <1>4, Zenon DEF HeapTypes

\* HeapInv, for every size of page, header, heap and request, and also when a
\* fork or an exec completes a slot that was killed and taken under it.
THEOREM HeapInvariant == Spec => [](HeapTypes /\ HeapInv)
BY TypesInit, TypesStep, HeapInit, HeapsStep, PTL DEF Spec

\* The heap's list stays in order inside the heap's pages, and the buffer of
\* every call has a block of its own that is large enough, whatever order the
\* calls ask for buffers, free them, give up and are killed in.
THEOREM HeapStaysSound == Spec => []HeapSound
<1>1. ASSUME HeapInv PROVE HeapSound
  <2>. DEFINE end == heap_end * PageSize
  <2>0. Ordered(blocks, end) /\ Len(blocks) \in Nat
    BY <1>1, SMTT(30) DEF HeapInv, HeapOk, Ordered
  <2>1. ASSUME NEW i \in 1 .. Len(blocks)
        PROVE  blocks[i].at + Header + blocks[i].size
                 <= IF i < Len(blocks) THEN blocks[i + 1].at ELSE end
    <3>. HIDE DEF end
    <3>1. /\ EndOf(blocks[i]) = blocks[i].at + Header + blocks[i].size
          /\ blocks[i].at + Header + blocks[i].size <= end
      BY <2>0, BlocksAre, Zenon
    <3>2. ASSUME i < Len(blocks) PROVE EndOf(blocks[i]) <= blocks[i + 1].at
      <4>1. i + 1 \in 1 .. Len(blocks) /\ i < i + 1
        BY <2>0, <3>2, SMTT(30)
      <4>. QED BY <2>0, <4>1, ZenonT(30) DEF Ordered
    <3>. QED BY <3>1, <3>2, Zenon
  <2>2. ASSUME NEW b \in Buffers
        PROVE  \E i \in 1 .. Len(blocks) : blocks[i].at = b[1] /\ ~blocks[i].free /\ blocks[i].size >= b[2]
    <3>1. PICK w \in Workers : work[w].buf # 0 /\ b = <<work[w].buf, work[w].len>>
      BY DEF Buffers
    <3>2. Has(blocks, work[w].buf, work[w].len)
      BY <1>1, <3>1, Zenon DEF HeapInv, HeapOk
    <3>3. b[1] = work[w].buf /\ b[2] = work[w].len
      BY <3>1
    <3>. QED BY <3>2, <3>3, Zenon DEF Has
  <2>3. \A v, w \in Workers : v # w /\ work[v].buf # 0 => work[v].buf # work[w].buf
    BY <1>1, Zenon DEF HeapInv, HeapOk
  <2>. QED BY <2>1, <2>2, <2>3, ZenonT(60) DEF HeapSound
<1>. QED BY <1>1, HeapInvariant, PTL

\* A block of the heap that is in use is the FAT, the buffer of one call, or
\* one of those the code is known to leave behind: kmalloc and kfree lose none.
THEOREM NoBlockForgotten == Spec => []BlocksKnown
<1>1. ASSUME HeapInv PROVE BlocksKnown
  <2>. DEFINE Used == {blocks[i].at : i \in {j \in 1 .. Len(blocks) : ~blocks[j].free}}
              Known == lost \cup ({g_fat} \ {0}) \cup {b[1] : b \in Buffers}
  <2>1. ASSUME NEW p PROVE p \in Used <=> Has(blocks, p, 0)
    <3>1. \A i \in 1 .. Len(blocks) : blocks[i].size >= 0
      <4>1. Ordered(blocks, heap_end * PageSize)
        BY <1>1, Zenon DEF HeapInv, HeapOk
      <4>2. \A i \in 1 .. Len(blocks) : blocks[i].size \in Nat
        BY <4>1, BlocksAre
      <4>. QED BY <4>2, SMTT(30)
    <3>. QED BY <3>1, Zenon DEF Has
  <2>2. ASSUME NEW p
        PROVE  p \in {b[1] : b \in Buffers} <=> p # 0 /\ \E w \in Workers : p = work[w].buf
    <3>1. \A w \in Workers : <<work[w].buf, work[w].len>>[1] = work[w].buf
      OBVIOUS
    <3>2. ASSUME NEW b \in Buffers, p = b[1] PROVE p # 0 /\ \E w \in Workers : p = work[w].buf
      <4>1. PICK w \in Workers : work[w].buf # 0 /\ b = <<work[w].buf, work[w].len>>
        BY Zenon DEF Buffers
      <4>. QED BY <3>1, <3>2, <4>1, Zenon
    <3>3. ASSUME NEW w \in Workers, p = work[w].buf, p # 0 PROVE \E b \in Buffers : p = b[1]
      <4>1. <<work[w].buf, work[w].len>> \in Buffers
        BY <3>3, Zenon DEF Buffers
      <4>. QED BY <3>1, <3>3, <4>1, Zenon
    <3>. QED BY <3>2, <3>3, Zenon
  <2>3. ASSUME NEW p PROVE p \in Used <=> p \in Known
    <3>1. Has(blocks, p, 0)
            <=> p \in lost \/ (p # 0 /\ (p = g_fat \/ \E w \in Workers : p = work[w].buf))
      BY <1>1, Zenon DEF HeapInv, HeapOk
    <3>2. p \in Known <=> p \in lost \/ (p = g_fat /\ p # 0) \/ p \in {b[1] : b \in Buffers}
      BY Zenon
    <3>. HIDE DEF Used, Known
    <3>. QED BY <2>1, <2>2, <3>1, <3>2, Zenon
  <2>. QED BY <2>3, Zenon DEF BlocksKnown
<1>. QED BY <1>1, HeapInvariant, PTL
=============================================================================
