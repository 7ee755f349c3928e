------------------------------ MODULE SlabProof -----------------------------
(***************************************************************************)
(* Proofs about Slab, for any pages, columns and threads: the counters     *)
(* count, every column in use has one owner, and a class hoards at most    *)
(* one empty block.                                                        *)
(***************************************************************************)
EXTENDS Slab, DataLemmas

-----------------------------------------------------------------------------
(* What a heap is like, L being pages that are taken and in no block yet.  *)

Blk == [cols : Nat \ {0}, map : SUBSET Nat, using : Nat, free : Nat, struct : Object \union {NoObj}]

\* A block of class c.
BlkOK(b, c) ==
    /\ b \in Blk /\ b.cols \in Cols(c) /\ b.map \subseteq 0 .. b.cols - 1
    /\ b.using = Cardinality(b.map) /\ b.using + b.free = b.cols

Lists(h, L) ==
    /\ DOMAIN h = {"pages", "list", "blk", "using", "free"}
    /\ h.pages \subseteq Page /\ L \subseteq Page /\ h.pages \intersect L = {}
    /\ DOMAIN h.blk = Page \ (h.pages \union L)
    /\ h.list \in [Class -> Seq(Page)] /\ h.using \in [Class -> Nat] /\ h.free \in [Class -> Nat]
    /\ \A c \in Class : IsInjective(h.list[c]) /\ h.list[c] # <<>>
    /\ ToSet(h.list["small"]) \intersect ToSet(h.list["large"]) = {}
    /\ ToSet(h.list["small"]) \union ToSet(h.list["large"]) = DOMAIN h.blk

BlocksOK(h) == \A c \in Class : \A p \in ToSet(h.list[c]) : BlkOK(h.blk[p], c)

Counted(h) ==
    \A c \in Class : h.free[c] = Cardinality(FreeCols(h, c)) /\ h.using[c] = Cardinality(UsedCols(h, c))

\* Two blocks of a class are not both empty.
Lone(h) == \A c \in Class : \A p, q \in ToSet(h.list[c]) : h.blk[p].map = {} /\ h.blk[q].map = {} => p = q

\* Structures are columns of small blocks, each of one block.
Linked(h) ==
    /\ \A p \in ToSet(h.list["small"]) : h.blk[p].struct = NoObj
    /\ \A p \in ToSet(h.list["large"]) : h.blk[p].struct # NoObj => h.blk[p].struct \in UsedCols(h, "small")
    /\ \A p, q \in DOMAIN h.blk : h.blk[p].struct # NoObj /\ h.blk[p].struct = h.blk[q].struct => p = q

Good(h, L) == Lists(h, L) /\ BlocksOK(h) /\ Counted(h) /\ Lone(h) /\ Linked(h)

Used(h) == UsedCols(h, "small") \union UsedCols(h, "large")
Structs(h) == {h.blk[p].struct : p \in DOMAIN h.blk} \ {NoObj}

\* The columns in use that are not the allocator's own.
Given(h) == Used(h) \ Structs(h)

\* The columns of blocks are objects, and no object is NoObj.
LEMMA ObjectIs ==
    /\ IsFiniteSet(Object) /\ NoObj \notin Object
    /\ \A o \in Object : o[1] \in Page /\ o[2] \in Nat /\ o = <<o[1], o[2]>>
    /\ \A p \in Page, c \in Class : \A n \in Cols(c) : \A j \in 0 .. n - 1 : <<p, j>> \in Object
<1> USE SlabAssumption
<1> DEFINE All == UNION {Cols(c) : c \in Class}
           m == Max(All)
<1>1. All = {BootCols["small"], PageCols["small"], BootCols["large"], PageCols["large"]}  BY DEF Class, Cols
<1>2. m \in All /\ \A n \in All : n <= m
  <2>1. All \in SUBSET Nat /\ All # {}  BY <1>1 DEF Class
  <2>2. PICK k \in Nat : \A n \in All : n <= k
    <3>1. /\ BootCols["small"] \in Nat /\ PageCols["small"] \in Nat
          /\ BootCols["large"] \in Nat /\ PageCols["large"] \in Nat  BY DEF Class
    <3> DEFINE k == BootCols["small"] + PageCols["small"] + BootCols["large"] + PageCols["large"]
    <3>2. k \in Nat /\ \A n \in All : n <= k  BY <1>1, <3>1
    <3> HIDE DEF k, All
    <3> QED BY <3>2
  <2> HIDE DEF All
  <2>3. \E x \in All : \A y \in All : y <= x  BY <2>1, <2>2, GreatestOf
  <2>4. \E x \in All : \A y \in All : x >= y  BY <2>1, <2>3
  <2>5. m \in All /\ \A y \in All : m >= y  BY <2>4 DEF Max
  <2> QED BY <2>1, <2>5
<1>3. m \in Nat  BY <1>1, <1>2 DEF Class
<1>4. \A c \in Class : \A n \in Cols(c) : n \in All /\ n \in Nat  BY <1>1 DEF Class, Cols
<1>5. Object = Page \X (0 .. m - 1)  BY DEF Object
<1> HIDE DEF m
<1>6. IsFiniteSet(Object)
  <2>1. IsFiniteSet(0 .. m - 1)  BY <1>3, FS_Interval
  <2> QED BY <1>5, <2>1, FS_Product
<1>7. \A p \in Page, c \in Class : \A n \in Cols(c) : \A j \in 0 .. n - 1 : <<p, j>> \in Object
  <2> HIDE DEF All
  <2> QED BY <1>2, <1>3, <1>4, <1>5
<1>8. NoObj \notin Object /\ \A o \in Object : o[1] \in Page /\ o[2] \in Nat /\ o = <<o[1], o[2]>>
  <2>1. NoObj \notin Object  BY <1>5 DEF NoObj
  <2> QED BY <1>3, <1>5, <2>1
<1> QED BY <1>6, <1>7, <1>8

\* A heap's fields.
LEMMA HeapFields ==
    ASSUME NEW h, NEW L, Lists(h, L), BlocksOK(h), NEW c \in Class
    PROVE  /\ h.list[c] \in Seq(Page) /\ h.list[c] # <<>> /\ IsInjective(h.list[c])
           /\ ToSet(h.list[c]) \subseteq DOMAIN h.blk /\ DOMAIN h.blk \subseteq Page
           /\ h.free[c] \in Nat /\ h.using[c] \in Nat
           /\ \A p \in ToSet(h.list[c]) : BlkOK(h.blk[p], c)
           /\ \A d \in Class : d # c => ToSet(h.list[c]) \intersect ToSet(h.list[d]) = {}
<1>1. Class = {"small", "large"}  BY DEF Class
<1>2. ToSet(h.list[c]) \subseteq DOMAIN h.blk  BY <1>1 DEF Lists
<1>3. \A d \in Class : d # c => ToSet(h.list[c]) \intersect ToSet(h.list[d]) = {}  BY <1>1 DEF Lists
<1> QED BY <1>2, <1>3 DEF Lists, BlocksOK

\* The columns of a class, in terms of its blocks.
LEMMA ColsAre ==
    ASSUME NEW h, NEW L, Lists(h, L), BlocksOK(h), NEW c \in Class
    PROVE  /\ IsFiniteSet(UsedCols(h, c)) /\ IsFiniteSet(FreeCols(h, c))
           /\ UsedCols(h, c) \subseteq Object /\ FreeCols(h, c) \subseteq Object
           /\ UsedCols(h, c) \intersect FreeCols(h, c) = {}
           /\ \A p, j : <<p, j>> \in UsedCols(h, c) <=> p \in ToSet(h.list[c]) /\ j \in h.blk[p].map
           /\ \A p, j : <<p, j>> \in FreeCols(h, c)
                          <=> p \in ToSet(h.list[c]) /\ j \in (0 .. h.blk[p].cols - 1) \ h.blk[p].map
<1>1. UsedCols(h, c) \subseteq Object /\ FreeCols(h, c) \subseteq Object  BY DEF UsedCols, FreeCols
<1>2. IsFiniteSet(UsedCols(h, c)) /\ IsFiniteSet(FreeCols(h, c))  BY <1>1, FS_Subset, ObjectIs
<1>3. ASSUME NEW p \in ToSet(h.list[c]), NEW j \in 0 .. h.blk[p].cols - 1 PROVE <<p, j>> \in Object
  <2>1. p \in Page /\ h.blk[p].cols \in Cols(c)  BY HeapFields DEF BlkOK
  <2> QED BY <2>1, ObjectIs
<1>4. \A p \in ToSet(h.list[c]) : h.blk[p].map \subseteq 0 .. h.blk[p].cols - 1  BY HeapFields DEF BlkOK
<1> QED BY <1>1, <1>2, <1>3, <1>4 DEF UsedCols, FreeCols

\* A block with a free column has a clear bit, and setting it.
LEMMA SetBit ==
    ASSUME NEW c, NEW b, BlkOK(b, c), b.free > 0
    PROVE  LET j == Min((0 .. b.cols - 1) \ b.map)
               n == [b EXCEPT !.map = @ \union {j}, !.using = @ + 1, !.free = @ - 1] IN
           /\ j \in (0 .. b.cols - 1) \ b.map
           /\ BlkOK(n, c) /\ n.cols = b.cols /\ n.map = b.map \union {j} /\ n.struct = b.struct
<1> DEFINE S == (0 .. b.cols - 1) \ b.map
           j == Min(S)
           n == [b EXCEPT !.map = @ \union {j}, !.using = @ + 1, !.free = @ - 1]
<1>1. /\ b \in Blk /\ b.cols \in Nat /\ b.using \in Nat /\ b.free \in Nat /\ b.map \in SUBSET Nat
      /\ b.using = Cardinality(b.map) /\ b.using + b.free = b.cols /\ b.map \subseteq 0 .. b.cols - 1
  BY DEF BlkOK, Blk
<1>2. IsFiniteSet(b.map)
  <2>1. IsFiniteSet(0 .. b.cols - 1)  BY <1>1, FS_Interval
  <2> QED BY <1>1, <2>1, FS_Subset
<1>3. S # {}
  <2> SUFFICES ASSUME S = {} PROVE FALSE  OBVIOUS
  <2>1. b.map = 0 .. b.cols - 1  BY <1>1
  <2>2. Cardinality(0 .. b.cols - 1) = b.cols
    <3>1. 0 \in Int /\ b.cols - 1 \in Int /\ b.cols # 0  BY <1>1 DEF BlkOK, Blk
    <3>2. Cardinality(0 .. b.cols - 1) = IF 0 > b.cols - 1 THEN 0 ELSE b.cols - 1 - 0 + 1  BY <3>1, FS_Interval
    <3> QED BY <1>1, <3>1, <3>2
  <2> QED BY <1>1, <2>1, <2>2
<1>4. j \in S
  <2>1. S \in SUBSET Nat  BY <1>1
  <2> HIDE DEF S
  <2> QED BY <1>3, <2>1, MinLeast
<1> HIDE DEF j
<1>5. Cardinality(b.map \union {j}) = b.using + 1  BY <1>1, <1>2, <1>4, FS_AddElement
<1>6. /\ n \in Blk /\ n.cols = b.cols /\ n.map = b.map \union {j} /\ n.using = b.using + 1 /\ n.free = b.free - 1
      /\ n.struct = b.struct
  <2>1. n = [cols |-> b.cols, map |-> b.map \union {j}, using |-> b.using + 1, free |-> b.free - 1, struct |-> b.struct]
    <3>1. b = [cols |-> b.cols, map |-> b.map, using |-> b.using, free |-> b.free, struct |-> b.struct]  BY <1>1 DEF Blk
    <3> DEFINE n1 == [b EXCEPT !.map = @ \union {j}]
               n2 == [n1 EXCEPT !.using = @ + 1]
    <3>2. n1 = [cols |-> b.cols, map |-> b.map \union {j}, using |-> b.using, free |-> b.free, struct |-> b.struct]  BY <3>1
    <3>3. n = [n2 EXCEPT !.free = @ - 1]  OBVIOUS
    <3> HIDE DEF n1, n
    <3>4. n2 = [cols |-> b.cols, map |-> b.map \union {j}, using |-> b.using + 1, free |-> b.free, struct |-> b.struct]  BY <3>2
    <3> HIDE DEF n2
    <3> QED BY <3>3, <3>4
  <2> HIDE DEF n
  <2>2. b.map \union {j} \in SUBSET Nat /\ b.using + 1 \in Nat /\ b.free - 1 \in Nat  BY <1>1, <1>4
  <2>3. b.cols \in Nat \ {0} /\ b.struct \in Object \union {NoObj}  BY <1>1 DEF Blk
  <2> QED BY <2>1, <2>2, <2>3 DEF Blk
<1> HIDE DEF n
<1>7. BlkOK(n, c)  BY <1>1, <1>4, <1>5, <1>6 DEF BlkOK
<1> QED BY <1>4, <1>6, <1>7 DEF n, j

\* Clearing a bit.
LEMMA ClearBit ==
    ASSUME NEW c, NEW b, BlkOK(b, c), NEW j \in b.map
    PROVE  LET n == [b EXCEPT !.map = @ \ {j}, !.using = @ - 1, !.free = @ + 1] IN
           /\ BlkOK(n, c) /\ n.cols = b.cols /\ n.map = b.map \ {j} /\ n.struct = b.struct
           /\ n.using = 0 <=> n.map = {}
<1> DEFINE n == [b EXCEPT !.map = @ \ {j}, !.using = @ - 1, !.free = @ + 1]
<1>1. /\ b \in Blk /\ b.cols \in Nat /\ b.using \in Nat /\ b.free \in Nat /\ b.map \in SUBSET Nat
      /\ b.using = Cardinality(b.map) /\ b.using + b.free = b.cols /\ b.map \subseteq 0 .. b.cols - 1
  BY DEF BlkOK, Blk
<1>2. IsFiniteSet(b.map)
  <2>1. IsFiniteSet(0 .. b.cols - 1)  BY <1>1, FS_Interval
  <2> QED BY <1>1, <2>1, FS_Subset
<1>3. Cardinality(b.map \ {j}) = b.using - 1 /\ IsFiniteSet(b.map \ {j})  BY <1>1, <1>2, FS_RemoveElement
<1>4. b.using - 1 \in Nat  BY <1>3, FS_CardinalityType
<1>5. /\ n \in Blk /\ n.cols = b.cols /\ n.map = b.map \ {j} /\ n.using = b.using - 1 /\ n.free = b.free + 1
      /\ n.struct = b.struct
  <2>1. n = [cols |-> b.cols, map |-> b.map \ {j}, using |-> b.using - 1, free |-> b.free + 1, struct |-> b.struct]
    <3>1. b = [cols |-> b.cols, map |-> b.map, using |-> b.using, free |-> b.free, struct |-> b.struct]  BY <1>1 DEF Blk
    <3> DEFINE n1 == [b EXCEPT !.map = @ \ {j}]
               n2 == [n1 EXCEPT !.using = @ - 1]
    <3>2. n1 = [cols |-> b.cols, map |-> b.map \ {j}, using |-> b.using, free |-> b.free, struct |-> b.struct]  BY <3>1
    <3>3. n = [n2 EXCEPT !.free = @ + 1]  OBVIOUS
    <3> HIDE DEF n1, n
    <3>4. n2 = [cols |-> b.cols, map |-> b.map \ {j}, using |-> b.using - 1, free |-> b.free, struct |-> b.struct]  BY <3>2
    <3> HIDE DEF n2
    <3> QED BY <3>3, <3>4
  <2> HIDE DEF n
  <2>2. b.map \ {j} \in SUBSET Nat /\ b.using - 1 \in Nat /\ b.free + 1 \in Nat  BY <1>1, <1>4
  <2>3. b.cols \in Nat \ {0} /\ b.struct \in Object \union {NoObj}  BY <1>1 DEF Blk
  <2> QED BY <2>1, <2>2, <2>3 DEF Blk
<1> HIDE DEF n
<1>6. BlkOK(n, c)  BY <1>1, <1>3, <1>5 DEF BlkOK
<1>7. n.using = 0 <=> n.map = {}  BY <1>3, <1>5, FS_EmptySet
<1> QED BY <1>5, <1>6, <1>7 DEF n
-----------------------------------------------------------------------------
(* Taking a column. *)

\* The first clear bit of the class' first block.
LEMMA TakeIs ==
    ASSUME NEW h, NEW L, Good(h, L), NEW c \in Class, h.blk[Head(h.list[c])].free > 0
    PROVE  LET k == TakeColumn(h, c) IN
           /\ Good(k.heap, L) /\ k.obj \in Object /\ k.obj \notin Used(h)
           /\ UsedCols(k.heap, c) = UsedCols(h, c) \union {k.obj}
           /\ \A d \in Class \ {c} : UsedCols(k.heap, d) = UsedCols(h, d) /\ k.heap.free[d] = h.free[d]
           /\ Structs(k.heap) = Structs(h) /\ k.heap.pages = h.pages
<1> DEFINE p == Head(h.list[c])
           b == h.blk[p]
           j == Min((0 .. b.cols - 1) \ b.map)
           nb == [b EXCEPT !.map = @ \union {j}, !.using = @ + 1, !.free = @ - 1]
           n == TakeColumn(h, c).heap
           o == <<p, j>>
<1>1. Lists(h, L) /\ BlocksOK(h) /\ Counted(h) /\ Lone(h) /\ Linked(h)  BY DEF Good
<1>2. p \in ToSet(h.list[c])
  <2>1. h.list[c] \in Seq(Page) /\ IsInjective(h.list[c]) /\ h.list[c] # <<>>  BY <1>1, HeapFields
  <2> QED BY <2>1, TailOne
<1>3. BlkOK(b, c) /\ p \in DOMAIN h.blk  BY <1>1, <1>2, HeapFields
<1>4. /\ j \in (0 .. b.cols - 1) \ b.map
      /\ BlkOK(nb, c) /\ nb.cols = b.cols /\ nb.map = b.map \union {j} /\ nb.struct = b.struct
  BY <1>3, SetBit
<1> HIDE DEF j
<1>5. /\ DOMAIN n = DOMAIN h /\ n.pages = h.pages /\ n.list = h.list
      /\ n.blk = [h.blk EXCEPT ![p] = nb]
      /\ n.using = [h.using EXCEPT ![c] = @ + 1] /\ n.free = [h.free EXCEPT ![c] = @ - 1]
  BY <1>1 DEF TakeColumn, Lists, j
<1>6. TakeColumn(h, c).obj = o  BY DEF TakeColumn, j
<1> HIDE DEF n, nb, b, p
<1>7. /\ DOMAIN n.blk = DOMAIN h.blk /\ n.blk[p] = nb /\ \A q \in DOMAIN h.blk : q # p => n.blk[q] = h.blk[q]
  BY <1>3, <1>5
<1>8. \A q \in DOMAIN h.blk : n.blk[q].struct = h.blk[q].struct /\ n.blk[q].cols = h.blk[q].cols
  BY <1>4, <1>7 DEF b
<1>9. \A d \in Class : ToSet(n.list[d]) = ToSet(h.list[d]) /\ ToSet(h.list[d]) \subseteq DOMAIN h.blk
  BY <1>1, <1>5, HeapFields
<1>10. \A d \in Class : p \in ToSet(h.list[d]) => d = c  BY <1>1, <1>2, HeapFields
<1>11. BlocksOK(n)
  <2> SUFFICES ASSUME NEW d \in Class, NEW q \in ToSet(h.list[d]) PROVE BlkOK(n.blk[q], d)  BY <1>9 DEF BlocksOK
  <2> QED BY <1>1, <1>4, <1>7, <1>9, <1>10, HeapFields
<1>12. \A d \in Class : IsFiniteSet(UsedCols(h, d)) /\ IsFiniteSet(FreeCols(h, d))  BY <1>1, ColsAre
<1>13. o \in Object /\ o \in FreeCols(h, c) /\ o \notin UsedCols(h, c)
  <2>1. o \in FreeCols(h, c)  BY <1>1, <1>2, <1>4, ColsAre DEF b
  <2> QED BY <1>1, <2>1, ColsAre
<1>14. UsedCols(n, c) = UsedCols(h, c) \union {o} /\ FreeCols(n, c) = FreeCols(h, c) \ {o}
  <2>1. \A x \in Object : x[1] = p /\ x[2] = j => x = o  BY ObjectIs
  <2>2. o[1] = p /\ o[2] = j  OBVIOUS
  <2> HIDE DEF o
  <2>3. ASSUME NEW x \in Object
        PROVE  /\ x \in UsedCols(n, c) <=> x \in UsedCols(h, c) \union {o}
               /\ x \in FreeCols(n, c) <=> x \in FreeCols(h, c) \ {o}
    <3>1. CASE x[1] = p  BY <1>2, <1>4, <1>7, <1>9, <2>1, <2>2, <3>1 DEF UsedCols, FreeCols, b
    <3>2. CASE x[1] # p  BY <1>7, <1>9, <2>2, <3>2 DEF UsedCols, FreeCols
    <3> QED BY <3>1, <3>2
  <2> QED BY <1>13, <2>3 DEF UsedCols, FreeCols
<1>15. \A d \in Class \ {c} : UsedCols(n, d) = UsedCols(h, d) /\ FreeCols(n, d) = FreeCols(h, d)
  <2> SUFFICES ASSUME NEW d \in Class \ {c} PROVE UsedCols(n, d) = UsedCols(h, d) /\ FreeCols(n, d) = FreeCols(h, d)
    OBVIOUS
  <2>1. \A q \in ToSet(h.list[d]) : n.blk[q] = h.blk[q]  BY <1>7, <1>9, <1>10
  <2> QED BY <1>9, <2>1 DEF UsedCols, FreeCols
<1> HIDE DEF o
<1>16. /\ h.free[c] \in Nat /\ h.using[c] \in Nat
       /\ h.using \in [Class -> Nat] /\ h.free \in [Class -> Nat]
       /\ h.free[c] = Cardinality(FreeCols(h, c)) /\ h.using[c] = Cardinality(UsedCols(h, c))
  BY <1>1, HeapFields DEF Lists, Counted
<1>17. /\ Cardinality(UsedCols(n, c)) = h.using[c] + 1 /\ Cardinality(FreeCols(n, c)) = h.free[c] - 1
       /\ h.free[c] - 1 \in Nat
  <2>1. Cardinality(UsedCols(n, c)) = h.using[c] + 1  BY <1>12, <1>13, <1>14, <1>16, FS_AddElement
  <2>2. Cardinality(FreeCols(n, c)) = h.free[c] - 1 /\ IsFiniteSet(FreeCols(n, c))
    BY <1>12, <1>13, <1>14, <1>16, FS_RemoveElement
  <2> QED BY <2>1, <2>2, FS_CardinalityType
<1>18. Counted(n) /\ n.using \in [Class -> Nat] /\ n.free \in [Class -> Nat]
  <2>1. n.using \in [Class -> Nat] /\ n.free \in [Class -> Nat]  BY <1>5, <1>16, <1>17
  <2>2. n.free[c] = h.free[c] - 1 /\ n.using[c] = h.using[c] + 1  BY <1>5, <1>16
  <2>3. \A d \in Class \ {c} : n.free[d] = h.free[d] /\ n.using[d] = h.using[d]  BY <1>5, <1>16
  <2> QED BY <1>1, <1>15, <1>17, <2>1, <2>2, <2>3 DEF Counted
<1>19. Lists(n, L) /\ \A d \in Class \ {c} : n.free[d] = h.free[d]
  <2>1. \A d \in Class \ {c} : n.free[d] = h.free[d]  BY <1>5, <1>16
  <2> QED BY <1>1, <1>5, <1>7, <1>18, <2>1 DEF Lists
<1>20. Lone(n)
  <2>1. \A q \in DOMAIN h.blk : n.blk[q].map = {} => h.blk[q].map = {}  BY <1>4, <1>7
  <2> QED BY <1>1, <1>9, <2>1 DEF Lone
<1>21. Linked(n)
  <2>1. UsedCols(h, "small") \subseteq UsedCols(n, "small")  BY <1>14, <1>15 DEF Class
  <2> QED BY <1>1, <1>7, <1>8, <1>9, <2>1 DEF Linked, Class
<1>22. Structs(n) = Structs(h)  BY <1>7, <1>8 DEF Structs
<1>23. o \notin Used(h)
  <2>1. \A d \in Class \ {c} : o \notin UsedCols(h, d)  BY <1>10, <1>2, <1>9 DEF UsedCols, o
  <2> QED BY <1>13, <2>1 DEF Used, Class
<1> QED BY <1>5, <1>6, <1>11, <1>13, <1>14, <1>15, <1>18, <1>19, <1>20, <1>21, <1>22, <1>23 DEF Good, n

\* The block with a free column comes to the front, and nothing else changes.
LEMMA FrontIs ==
    ASSUME NEW h, NEW L, Good(h, L), NEW c \in Class, h.free[c] > 0
    PROVE  LET n == ToFront(h, c) IN
           /\ Good(n, L) /\ n.blk[Head(n.list[c])].free > 0
           /\ \A d \in Class : UsedCols(n, d) = UsedCols(h, d) /\ n.free[d] = h.free[d]
           /\ Structs(n) = Structs(h) /\ n.pages = h.pages
<1> DEFINE T == {k \in DOMAIN h.list[c] : h.blk[h.list[c][k]].free > 0}
           i == Min(T)
           p == h.list[c][i]
           s == <<p>> \o List_del(h.list[c], p)
           n == ToFront(h, c)
<1>1. Lists(h, L) /\ BlocksOK(h) /\ Counted(h) /\ Lone(h) /\ Linked(h)  BY DEF Good
<1>2. h.list[c] \in Seq(Page) /\ IsInjective(h.list[c]) /\ h.list[c] # <<>>  BY <1>1, HeapFields
<1>3. i \in T
  <2>1. PICK x : x \in FreeCols(h, c)
    <3>1. Cardinality(FreeCols(h, c)) > 0 /\ IsFiniteSet(FreeCols(h, c))  BY <1>1, ColsAre DEF Counted
    <3>2. FreeCols(h, c) # {}  BY <3>1, FS_EmptySet
    <3> QED BY <3>2
  <2>2. x[1] \in ToSet(h.list[c]) /\ x[2] \in (0 .. h.blk[x[1]].cols - 1) \ h.blk[x[1]].map  BY <2>1 DEF FreeCols
  <2>3. PICK k \in DOMAIN h.list[c] : h.list[c][k] = x[1]  BY <2>2 DEF ToSet
  <2>4. h.blk[x[1]].free > 0
    <3> DEFINE b == h.blk[x[1]]
    <3>1. BlkOK(b, c)  BY <1>1, <2>2, HeapFields
    <3>2. b.cols \in Nat /\ b.free \in Nat /\ b.using \in Nat /\ b.using + b.free = b.cols /\ b.using = Cardinality(b.map)
          /\ b.map \subseteq 0 .. b.cols - 1
      BY <3>1 DEF BlkOK, Blk
    <3> HIDE DEF b
    <3>3. IsFiniteSet(0 .. b.cols - 1) /\ Cardinality(0 .. b.cols - 1) = IF 0 > b.cols - 1 THEN 0 ELSE b.cols - 1 - 0 + 1
      <4>1. 0 \in Int /\ b.cols - 1 \in Int  BY <3>2
      <4> QED BY <4>1, FS_Interval
    <3>4. b.map # 0 .. b.cols - 1  BY <2>2 DEF b
    <3>5. Cardinality(b.map) < Cardinality(0 .. b.cols - 1)
      <4>1. /\ Cardinality(b.map) <= Cardinality(0 .. b.cols - 1)
            /\ Cardinality(0 .. b.cols - 1) # Cardinality(b.map) /\ IsFiniteSet(b.map)
        BY <3>2, <3>3, <3>4, FS_Subset
      <4>2. Cardinality(b.map) \in Nat /\ Cardinality(0 .. b.cols - 1) \in Nat  BY <3>3, <4>1, FS_CardinalityType
      <4> QED BY <4>1, <4>2
    <3>6. b.free > 0  BY <3>2, <3>3, <3>5
    <3> QED BY <3>6 DEF b
  <2>5. T # {} /\ T \in SUBSET Nat
    <3>1. DOMAIN h.list[c] = 1 .. Len(h.list[c]) /\ Len(h.list[c]) \in Nat  BY <1>2, LenProperties
    <3> QED BY <2>3, <2>4, <3>1
  <2> HIDE DEF T
  <2> QED BY <2>5, MinLeast
<1>4. p \in ToSet(h.list[c]) /\ h.blk[p].free > 0 /\ p \in Page
  <2>1. i \in DOMAIN h.list[c] /\ h.blk[p].free > 0  BY <1>3
  <2> HIDE DEF i
  <2> QED BY <1>2, <2>1, ElementOfSeq DEF ToSet
<1>5. n = [h EXCEPT !.list[c] = s]  BY DEF ToFront
<1> HIDE DEF i, p
<1>6. s \in Seq(Page) /\ IsInjective(s) /\ ToSet(s) = ToSet(h.list[c]) /\ s # <<>> /\ Head(s) = p
  <2> DEFINE r == List_del(h.list[c], p)
  <2>1. r \in Seq(Page) /\ IsInjective(r) /\ ToSet(r) = ToSet(h.list[c]) \ {p}  BY <1>2, DelOne
  <2> HIDE DEF r
  <2>2. <<p>> \o r \in Seq(Page) /\ IsInjective(<<p>> \o r) /\ ToSet(<<p>> \o r) = ToSet(r) \union {p}
        /\ Len(<<p>> \o r) = Len(r) + 1
    BY <1>4, <2>1, PrependOne
  <2>3. Head(<<p>> \o r) = p /\ <<p>> \o r # <<>>  BY <1>4, <2>1
  <2> QED BY <1>4, <2>1, <2>2, <2>3 DEF r
<1> HIDE DEF s
<1>7. /\ DOMAIN n = DOMAIN h /\ n.pages = h.pages /\ n.blk = h.blk /\ n.using = h.using /\ n.free = h.free
      /\ n.list = [h.list EXCEPT ![c] = s]
  BY <1>1, <1>5 DEF Lists
<1> HIDE DEF n
<1>8. h.list \in [Class -> Seq(Page)]  BY <1>1 DEF Lists
<1>9. n.list[c] = s /\ \A d \in Class : ToSet(n.list[d]) = ToSet(h.list[d])  BY <1>6, <1>7, <1>8
<1>10. n.list \in [Class -> Seq(Page)] /\ \A d \in Class : IsInjective(n.list[d]) /\ n.list[d] # <<>>
  <2>1. \A d \in Class : IsInjective(h.list[d]) /\ h.list[d] # <<>>  BY <1>1 DEF Lists
  <2> QED BY <1>6, <1>7, <1>8, <2>1
<1>11. Lists(n, L)  BY <1>1, <1>7, <1>9, <1>10 DEF Lists, Class
<1>12. \A d \in Class : UsedCols(n, d) = UsedCols(h, d) /\ FreeCols(n, d) = FreeCols(h, d)
  BY <1>7, <1>9 DEF UsedCols, FreeCols
<1>13. BlocksOK(n) /\ Counted(n) /\ Lone(n)
  BY <1>1, <1>7, <1>9, <1>12 DEF BlocksOK, Counted, Lone
<1>14. Linked(n)  BY <1>1, <1>7, <1>9, <1>12 DEF Linked, Class
<1>15. Structs(n) = Structs(h)  BY <1>7 DEF Structs
<1> QED BY <1>4, <1>6, <1>7, <1>9, <1>11, <1>12, <1>13, <1>14, <1>15 DEF Good, n
\* A page has as many columns as its block.
LEMMA BlockSize ==
    ASSUME NEW p \in Page, NEW c \in Class, NEW m \in Cols(c)
    PROVE  Cardinality({x \in Object : x[1] = p /\ x[2] \in 0 .. m - 1}) = m
<1> DEFINE S == {x \in Object : x[1] = p /\ x[2] \in 0 .. m - 1}
           f == [j \in 0 .. m - 1 |-> <<p, j>>]
<1>1. m \in Nat \ {0}  BY SlabAssumption DEF Cols
<1>2. \A j \in 0 .. m - 1 : f[j] \in S  BY ObjectIs
<1>3. \A x \in S : x[2] \in 0 .. m - 1 /\ x = f[x[2]]  BY ObjectIs
<1>4. \A i, j \in 0 .. m - 1 : f[i] = f[j] => i = j  OBVIOUS
<1>5. DOMAIN f = 0 .. m - 1 /\ f \in [0 .. m - 1 -> S]  BY <1>2
<1> HIDE DEF f, S
<1>6. f \in Bijection(0 .. m - 1, S)  BY <1>3, <1>4, <1>5 DEF Bijection, Injection, Surjection, IsInjective
<1>7. ExistsBijection(0 .. m - 1, S)  BY <1>6 DEF ExistsBijection
<1>8. IsFiniteSet(0 .. m - 1) /\ Cardinality(0 .. m - 1) = m
  <2>1. 0 \in Int /\ m - 1 \in Int  BY <1>1
  <2>2. /\ IsFiniteSet(0 .. m - 1)
        /\ Cardinality(0 .. m - 1) = IF 0 > m - 1 THEN 0 ELSE m - 1 - 0 + 1  BY <2>1, FS_Interval
  <2> QED BY <1>1, <2>2
<1>9. Cardinality(S) = m  BY <1>7, <1>8, FS_Bijection
<1> QED BY <1>9 DEF S

\* Where the structure of a new block of class c may be.
StructFits(h, c, s) == s = NoObj \/ (c = "large" /\ s \in UsedCols(h, "small") \ Structs(h))

\* What a new block changes.
Added(h, L, c, p, s, n) ==
    /\ Good(n, L \ {p}) /\ n.blk[Head(n.list[c])].free > 0
    /\ \A d \in Class : UsedCols(n, d) = UsedCols(h, d)
    /\ \A d \in Class \ {c} : n.free[d] = h.free[d]
    /\ Structs(n) = Structs(h) \union ({s} \ {NoObj}) /\ n.pages = h.pages \ {p}

\* A new block, when the class has no free column.
LEMMA AddIs ==
    ASSUME NEW h, NEW L, Good(h, L), NEW c \in Class, h.free[c] = 0,
           NEW p, p \in h.pages \union L, NEW s, StructFits(h, c, s)
    PROVE  Added(h, L, c, p, s, AddBlk(h, c, p, s))
<1> DEFINE n == AddBlk(h, c, p, s)
           b == NewBlk(PageCols[c], s)
           t == <<p>> \o h.list[c]
<1>1. Lists(h, L) /\ BlocksOK(h) /\ Counted(h) /\ Lone(h) /\ Linked(h)  BY DEF Good
<1>2. h.list[c] \in Seq(Page) /\ IsInjective(h.list[c]) /\ h.list[c] # <<>>  BY <1>1, HeapFields
<1>3. p \in Page /\ p \notin DOMAIN h.blk  BY <1>1 DEF Lists
<1> USE DEF StructFits
<1>4. \A d \in Class : ToSet(h.list[d]) \subseteq DOMAIN h.blk  BY <1>1, HeapFields
<1>5. /\ t \in Seq(Page) /\ IsInjective(t) /\ ToSet(t) = ToSet(h.list[c]) \union {p} /\ t # <<>> /\ Head(t) = p
  <2>1. p \notin ToSet(h.list[c])  BY <1>3, <1>4
  <2>2. t \in Seq(Page) /\ IsInjective(t) /\ ToSet(t) = ToSet(h.list[c]) \union {p}  BY <1>2, <1>3, <2>1, PrependOne
  <2>3. Head(t) = p /\ t # <<>>  BY <1>2, <1>3
  <2> QED BY <2>2, <2>3
<1> HIDE DEF t
<1>6. /\ DOMAIN n = DOMAIN h /\ n.pages = h.pages \ {p} /\ n.using = h.using
      /\ n.list = [h.list EXCEPT ![c] = t]
      /\ n.blk = [q \in DOMAIN h.blk \union {p} |-> IF q = p THEN b ELSE h.blk[q]]
      /\ n.free = [h.free EXCEPT ![c] = @ + PageCols[c]]
  BY <1>1 DEF AddBlk, Lists, t
<1> HIDE DEF n
<1>7. PageCols[c] \in Nat \ {0} /\ PageCols[c] \in Cols(c)  BY SlabAssumption DEF Cols
<1>8. s \in Object \union {NoObj}
  <2>1. UsedCols(h, "small") \subseteq Object  BY DEF UsedCols
  <2> QED BY <2>1
<1>9. b.cols = PageCols[c] /\ b.map = {} /\ b.using = 0 /\ b.free = PageCols[c] /\ b.struct = s /\ BlkOK(b, c)
  <2>1. b = [cols |-> PageCols[c], map |-> {}, using |-> 0, free |-> PageCols[c], struct |-> s]  BY DEF NewBlk
  <2> HIDE DEF b
  <2>2. b \in Blk  BY <1>7, <1>8, <2>1 DEF Blk
  <2>3. Cardinality({}) = 0  BY FS_EmptySet
  <2> QED BY <1>7, <2>1, <2>2, <2>3 DEF BlkOK
<1> HIDE DEF b
<1>10. /\ DOMAIN n.blk = DOMAIN h.blk \union {p} /\ n.blk[p] = b
       /\ \A q \in DOMAIN h.blk : q # p /\ n.blk[q] = h.blk[q]
  BY <1>3, <1>6
<1>11. h.list \in [Class -> Seq(Page)] /\ h.free \in [Class -> Nat] /\ h.using \in [Class -> Nat]
  BY <1>1 DEF Lists
<1>12. /\ n.list[c] = t /\ ToSet(n.list[c]) = ToSet(h.list[c]) \union {p}
       /\ \A d \in Class \ {c} : n.list[d] = h.list[d]
       /\ n.free[c] = PageCols[c] /\ \A d \in Class \ {c} : n.free[d] = h.free[d]
  BY <1>5, <1>6, <1>7, <1>11
<1>13. n.list \in [Class -> Seq(Page)] /\ n.free \in [Class -> Nat]
  BY <1>5, <1>6, <1>7, <1>11
<1>14. Lists(n, L \ {p})
  <2>1. \A d \in Class : IsInjective(n.list[d]) /\ n.list[d] # <<>>
    <3>1. \A d \in Class : IsInjective(h.list[d]) /\ h.list[d] # <<>>  BY <1>1 DEF Lists
    <3> QED BY <1>5, <1>12, <3>1
  <2>2. DOMAIN n.blk = Page \ (n.pages \union (L \ {p}))  BY <1>1, <1>3, <1>6, <1>10 DEF Lists
  <2>3. n.pages \subseteq Page /\ L \ {p} \subseteq Page /\ n.pages \intersect (L \ {p}) = {}  BY <1>1, <1>6 DEF Lists
  <2>4. /\ ToSet(n.list["small"]) \intersect ToSet(n.list["large"]) = {}
        /\ ToSet(n.list["small"]) \union ToSet(n.list["large"]) = DOMAIN n.blk
    <3>1. /\ ToSet(h.list["small"]) \intersect ToSet(h.list["large"]) = {}
          /\ ToSet(h.list["small"]) \union ToSet(h.list["large"]) = DOMAIN h.blk
      BY <1>1 DEF Lists
    <3>2. CASE c = "small"  BY <1>3, <1>10, <1>12, <3>1, <3>2 DEF Class
    <3>3. CASE c = "large"  BY <1>3, <1>10, <1>12, <3>1, <3>3 DEF Class
    <3> QED BY <3>2, <3>3 DEF Class
  <2>5. DOMAIN n = {"pages", "list", "blk", "using", "free"} /\ n.using \in [Class -> Nat]  BY <1>1, <1>6 DEF Lists
  <2> QED BY <1>13, <2>1, <2>2, <2>3, <2>4, <2>5 DEF Lists
<1>15. BlocksOK(n)
  <2> SUFFICES ASSUME NEW d \in Class, NEW q \in ToSet(n.list[d]) PROVE BlkOK(n.blk[q], d)  BY DEF BlocksOK
  <2>1. CASE d = c /\ q = p  BY <1>9, <1>10, <2>1
  <2>2. CASE ~(d = c /\ q = p)
    <3>1. q \in ToSet(h.list[d]) /\ q \in DOMAIN h.blk  BY <1>4, <1>12, <2>2
    <3> QED BY <1>1, <1>10, <3>1, HeapFields
  <2> QED BY <2>1, <2>2
<1>16. \A d \in Class \ {c} : UsedCols(n, d) = UsedCols(h, d) /\ FreeCols(n, d) = FreeCols(h, d)
  BY <1>4, <1>10, <1>12 DEF UsedCols, FreeCols
<1>17. FreeCols(h, c) = {}
  <2>1. IsFiniteSet(FreeCols(h, c)) /\ Cardinality(FreeCols(h, c)) = 0  BY <1>1, ColsAre DEF Counted
  <2> QED BY <2>1, FS_EmptySet
<1>18. UsedCols(n, c) = UsedCols(h, c)
  <2> SUFFICES ASSUME NEW x \in Object PROVE x \in UsedCols(n, c) <=> x \in UsedCols(h, c)  BY DEF UsedCols
  <2>1. CASE x[1] = p  BY <1>3, <1>4, <1>9, <1>10, <2>1 DEF UsedCols
  <2>2. CASE x[1] # p  BY <1>4, <1>10, <1>12, <2>2 DEF UsedCols
  <2> QED BY <2>1, <2>2
<1>19. FreeCols(n, c) = {x \in Object : x[1] = p /\ x[2] \in 0 .. PageCols[c] - 1}
  <2> SUFFICES ASSUME NEW x \in Object
               PROVE  x \in FreeCols(n, c) <=> x[1] = p /\ x[2] \in 0 .. PageCols[c] - 1
    BY DEF FreeCols
  <2>1. CASE x[1] = p  BY <1>9, <1>10, <1>12, <2>1 DEF FreeCols
  <2>2. CASE x[1] # p  BY <1>4, <1>10, <1>12, <1>17, <2>2 DEF FreeCols
  <2> QED BY <2>1, <2>2
<1>20. Cardinality(FreeCols(n, c)) = PageCols[c]  BY <1>3, <1>7, <1>19, BlockSize
<1>21. Counted(n)
  <2>1. \A d \in Class : h.free[d] = Cardinality(FreeCols(h, d)) /\ h.using[d] = Cardinality(UsedCols(h, d))
    BY <1>1 DEF Counted
  <2> QED BY <1>6, <1>12, <1>16, <1>18, <1>20, <2>1 DEF Counted
<1>22. Lone(n)
  <2>1. \A q \in ToSet(h.list[c]) : h.blk[q].map # {}
    <3> SUFFICES ASSUME NEW q \in ToSet(h.list[c]), h.blk[q].map = {} PROVE FALSE  OBVIOUS
    <3>1. BlkOK(h.blk[q], c)  BY <1>1, HeapFields
    <3>2. 0 \in 0 .. h.blk[q].cols - 1  BY <3>1 DEF BlkOK, Blk
    <3>3. <<q, 0>> \in FreeCols(h, c)  BY <1>1, <3>2, ColsAre
    <3> QED BY <1>17, <3>3
  <2>2. \A d \in Class : \A x, y \in ToSet(h.list[d]) : h.blk[x].map = {} /\ h.blk[y].map = {} => x = y
    BY <1>1 DEF Lone
  <2> SUFFICES ASSUME NEW d \in Class, NEW x \in ToSet(n.list[d]), NEW y \in ToSet(n.list[d]),
                      n.blk[x].map = {}, n.blk[y].map = {}
               PROVE  x = y
    BY DEF Lone
  <2>3. CASE d = c
    <3>1. \A z \in ToSet(h.list[c]) : n.blk[z].map # {}  BY <1>4, <1>10, <2>1
    <3> QED BY <1>12, <2>3, <3>1
  <2>4. CASE d # c  BY <1>4, <1>10, <1>12, <2>2, <2>4
  <2> QED BY <2>3, <2>4
<1>23. Linked(n)
  <2>1. \A d \in Class : UsedCols(n, d) = UsedCols(h, d)  BY <1>16, <1>18
  <2>2. ASSUME NEW q \in ToSet(n.list["small"]) PROVE n.blk[q].struct = NoObj
    <3>1. CASE q = p
      <4>1. c = "small"  BY <1>3, <1>4, <1>12, <3>1 DEF Class
      <4> QED BY <1>9, <1>10, <3>1, <4>1
    <3>2. CASE q # p
      <4>1. q \in ToSet(h.list["small"])  BY <1>12, <3>2 DEF Class
      <4>2. h.blk[q].struct = NoObj  BY <1>1, <4>1 DEF Linked
      <4> QED BY <1>4, <1>10, <4>1, <4>2 DEF Class
    <3> QED BY <3>1, <3>2
  <2>3. ASSUME NEW q \in ToSet(n.list["large"]), n.blk[q].struct # NoObj
        PROVE  n.blk[q].struct \in UsedCols(n, "small")
    <3>1. CASE q = p  BY <1>9, <1>10, <2>1, <2>3, <3>1 DEF Class
    <3>2. CASE q # p
      <4>1. q \in ToSet(h.list["large"])  BY <1>12, <3>2 DEF Class
      <4>2. h.blk[q].struct # NoObj => h.blk[q].struct \in UsedCols(h, "small")  BY <1>1, <4>1 DEF Linked
      <4> QED BY <1>4, <1>10, <2>1, <2>3, <4>1, <4>2 DEF Class
    <3> QED BY <3>1, <3>2
  <2>4. ASSUME NEW x \in DOMAIN n.blk, NEW y \in DOMAIN n.blk,
               n.blk[x].struct # NoObj, n.blk[x].struct = n.blk[y].struct
        PROVE  x = y
    <3>1. \A z \in DOMAIN h.blk : h.blk[z].struct # NoObj => h.blk[z].struct \in Structs(h)  BY DEF Structs
    <3>2. \A z \in DOMAIN h.blk : n.blk[z].struct # NoObj => n.blk[z].struct # s  BY <1>10, <3>1
    <3>3. \A u, v \in DOMAIN h.blk : h.blk[u].struct # NoObj /\ h.blk[u].struct = h.blk[v].struct => u = v
      BY <1>1 DEF Linked
    <3> QED BY <1>9, <1>10, <2>4, <3>2, <3>3
  <2> QED BY <2>2, <2>3, <2>4 DEF Linked
<1>24. Structs(n) = Structs(h) \union ({s} \ {NoObj})
  <2>1. Structs(n) = ({n.blk[q].struct : q \in DOMAIN h.blk} \union {s}) \ {NoObj}  BY <1>9, <1>10 DEF Structs
  <2>2. {n.blk[q].struct : q \in DOMAIN h.blk} = {h.blk[q].struct : q \in DOMAIN h.blk}  BY <1>10
  <2> QED BY <2>1, <2>2 DEF Structs
<1>25. n.blk[Head(n.list[c])].free > 0  BY <1>5, <1>7, <1>9, <1>10, <1>12
<1> QED BY <1>6, <1>12, <1>14, <1>15, <1>16, <1>18, <1>21, <1>22, <1>23, <1>24, <1>25 DEF Good, Added, n
\* Structures are small objects.
LEMMA StructsUsed ==
    ASSUME NEW h, NEW L, Good(h, L)
    PROVE  Structs(h) \subseteq UsedCols(h, "small") /\ UsedCols(h, "small") \subseteq Object
<1>1. DOMAIN h.blk = ToSet(h.list["small"]) \union ToSet(h.list["large"])  BY DEF Good, Lists
<1>2. /\ \A p \in ToSet(h.list["small"]) : h.blk[p].struct = NoObj
      /\ \A p \in ToSet(h.list["large"]) : h.blk[p].struct # NoObj => h.blk[p].struct \in UsedCols(h, "small")
  BY DEF Good, Linked
<1> QED BY <1>1, <1>2 DEF Structs, UsedCols

\* _kmalloc of a small object, when there is a free column or a page.
LEMMA SmallIs ==
    ASSUME NEW h, NEW L, Good(h, L), h.free["small"] > 0 \/ h.pages # {}
    PROVE  LET k == Small(h) IN
           /\ Good(k.heap, L) /\ k.obj \in Object /\ k.obj \notin Used(h)
           /\ UsedCols(k.heap, "small") = UsedCols(h, "small") \union {k.obj}
           /\ UsedCols(k.heap, "large") = UsedCols(h, "large") /\ k.heap.free["large"] = h.free["large"]
           /\ Structs(k.heap) = Structs(h) /\ k.heap.pages \subseteq h.pages
<1>1. "small" \in Class /\ "large" \in Class \ {"small"}  BY DEF Class
<1>2. CASE h.free["small"] > 0
  <2> DEFINE n == ToFront(h, "small")
  <2>1. /\ Good(n, L) /\ n.blk[Head(n.list["small"])].free > 0
        /\ \A d \in Class : UsedCols(n, d) = UsedCols(h, d) /\ n.free[d] = h.free[d]
        /\ Structs(n) = Structs(h) /\ n.pages = h.pages
    BY <1>1, <1>2, FrontIs
  <2>2. Small(h) = TakeColumn(n, "small")  BY <1>2 DEF Small
  <2> HIDE DEF n
  <2>3. Used(n) = Used(h)  BY <1>1, <2>1 DEF Used
  <2>4. LET k == TakeColumn(n, "small") IN
           /\ Good(k.heap, L) /\ k.obj \in Object /\ k.obj \notin Used(n)
           /\ UsedCols(k.heap, "small") = UsedCols(n, "small") \union {k.obj}
           /\ \A d \in Class \ {"small"} : UsedCols(k.heap, d) = UsedCols(n, d) /\ k.heap.free[d] = n.free[d]
           /\ Structs(k.heap) = Structs(n) /\ k.heap.pages = n.pages
    BY <1>1, <2>1, TakeIs
  <2> QED BY <1>1, <2>1, <2>2, <2>3, <2>4
<1>3. CASE ~(h.free["small"] > 0)
  <2> DEFINE p == Min(h.pages)
             n == AddBlk(h, "small", p, NoObj)
  <2>1. p \in h.pages /\ L \ {p} = L /\ h.free["small"] = 0
    <3>1. h.pages \subseteq Page /\ h.pages \intersect L = {} /\ h.free \in [Class -> Nat]  BY DEF Good, Lists
    <3>2. p \in h.pages  BY <1>3, <3>1, MinLeast, SlabAssumption
    <3> QED BY <1>1, <1>3, <3>1, <3>2
  <2> HIDE DEF p
  <2>2. /\ Good(n, L \ {p}) /\ n.blk[Head(n.list["small"])].free > 0
        /\ \A d \in Class : UsedCols(n, d) = UsedCols(h, d)
        /\ \A d \in Class \ {"small"} : n.free[d] = h.free[d]
        /\ Structs(n) = Structs(h) \union ({NoObj} \ {NoObj}) /\ n.pages = h.pages \ {p}
    <3> DEFINE o == NoObj
    <3>1. p \in h.pages \union L /\ StructFits(h, "small", o)  BY <2>1 DEF StructFits
    <3> HIDE DEF o
    <3>2. Added(h, L, "small", p, o, AddBlk(h, "small", p, o))  BY <1>1, <2>1, <3>1, AddIs
    <3> QED BY <3>2 DEF Added, o
  <2>3. Small(h) = TakeColumn(n, "small")  BY <1>3 DEF Small, p
  <2> HIDE DEF n
  <2>4. Used(n) = Used(h)  BY <1>1, <2>2 DEF Used
  <2>5. LET k == TakeColumn(n, "small") IN
           /\ Good(k.heap, L) /\ k.obj \in Object /\ k.obj \notin Used(n)
           /\ UsedCols(k.heap, "small") = UsedCols(n, "small") \union {k.obj}
           /\ \A d \in Class \ {"small"} : UsedCols(k.heap, d) = UsedCols(n, d) /\ k.heap.free[d] = n.free[d]
           /\ Structs(k.heap) = Structs(n) /\ k.heap.pages = n.pages
    BY <1>1, <2>1, <2>2, TakeIs
  <2> QED BY <1>1, <2>1, <2>2, <2>3, <2>4, <2>5
<1> QED BY <1>2, <1>3

\* _kmalloc, when the pages it needs are there: one more column is given.
LEMMA KmallocIs ==
    ASSUME NEW h, Good(h, {}), NEW c \in Class, Needs(h, c) <= Cardinality(h.pages)
    PROVE  LET k == Kmalloc(h, c) IN
           /\ Good(k.heap, {}) /\ k.obj \in Object /\ k.obj \notin Given(h)
           /\ Given(k.heap) = Given(h) \union {k.obj}
<1>1. /\ h.pages \in SUBSET Page /\ IsFiniteSet(h.pages) /\ h.free \in [Class -> Nat] /\ Cardinality(h.pages) \in Nat
      /\ DOMAIN h = {"pages", "list", "blk", "using", "free"} /\ DOMAIN h.blk = Page \ h.pages
  <2>1. h.pages \in SUBSET Page  BY DEF Good, Lists
  <2>2. IsFiniteSet(h.pages)  BY <2>1, FS_Subset, SlabAssumption
  <2> QED BY <2>1, <2>2, FS_CardinalityType DEF Good, Lists
<1>2. "small" \in Class /\ "large" \in Class /\ "small" # "large"  BY DEF Class
<1>3. Structs(h) \subseteq UsedCols(h, "small")  BY StructsUsed
<1>4. CASE c = "small"
  <2> DEFINE k == Small(h)
  <2>1. h.free["small"] > 0 \/ h.pages # {}
    <3> SUFFICES ASSUME ~(h.free["small"] > 0), h.pages = {} PROVE FALSE  OBVIOUS
    <3>1. Needs(h, c) = 1 /\ Cardinality(h.pages) = 0  BY <1>4, FS_EmptySet DEF Needs
    <3> QED BY <3>1
  <2>2. /\ Good(k.heap, {}) /\ k.obj \in Object /\ k.obj \notin Used(h)
        /\ UsedCols(k.heap, "small") = UsedCols(h, "small") \union {k.obj}
        /\ UsedCols(k.heap, "large") = UsedCols(h, "large") /\ Structs(k.heap) = Structs(h)
    BY <2>1, SmallIs
  <2>3. Kmalloc(h, c) = k  BY <1>4 DEF Kmalloc
  <2> HIDE DEF k
  <2> QED BY <1>3, <2>2, <2>3 DEF Given, Used
<1>5. CASE c = "large" /\ h.free["large"] > 0
  <2> DEFINE n == ToFront(h, c)
  <2>1. /\ Good(n, {}) /\ n.blk[Head(n.list[c])].free > 0
        /\ \A d \in Class : UsedCols(n, d) = UsedCols(h, d)
        /\ Structs(n) = Structs(h)
    BY <1>5, FrontIs
  <2>2. Kmalloc(h, c) = TakeColumn(n, c)  BY <1>2, <1>5 DEF Kmalloc
  <2> HIDE DEF n
  <2>3. LET k == TakeColumn(n, c) IN
           /\ Good(k.heap, {}) /\ k.obj \in Object /\ k.obj \notin Used(n)
           /\ UsedCols(k.heap, c) = UsedCols(n, c) \union {k.obj}
           /\ \A d \in Class \ {c} : UsedCols(k.heap, d) = UsedCols(n, d)
           /\ Structs(k.heap) = Structs(n)
    BY <2>1, TakeIs
  <2> DEFINE k == TakeColumn(n, c)
  <2>4. UsedCols(k.heap, "small") = UsedCols(h, "small") /\ UsedCols(k.heap, "large") = UsedCols(h, "large") \union {k.obj}
    BY <1>2, <1>5, <2>1, <2>3
  <2>5. Used(n) = Used(h)  BY <1>2, <2>1 DEF Used
  <2> HIDE DEF k
  <2>6. Given(k.heap) = Given(h) \union {k.obj} /\ k.obj \notin Given(h)
    BY <1>3, <2>1, <2>3, <2>4, <2>5 DEF Given, Used, k
  <2> QED BY <2>2, <2>3, <2>6 DEF k
<1>6. CASE c = "large" /\ ~(h.free["large"] > 0)
  <2> DEFINE p == Min(h.pages)
             g == [h EXCEPT !.pages = @ \ {p}]
             s == Small(g)
             n == AddBlk(s.heap, "large", p, s.obj)
             k == TakeColumn(n, "large")
  <2>1. Kmalloc(h, c) = k  BY <1>2, <1>6 DEF Kmalloc
  <2>2. p \in h.pages /\ p \in Page
    <3>1. h.pages # {}
      <4> SUFFICES ASSUME h.pages = {} PROVE FALSE  OBVIOUS
      <4>1. Needs(h, c) \in {1, 2} /\ Cardinality(h.pages) = 0  BY <1>6, FS_EmptySet DEF Needs
      <4> QED BY <4>1
    <3> QED BY <1>1, <3>1, MinLeast, SlabAssumption
  <2> HIDE DEF p
  <2>3. /\ g.pages = h.pages \ {p} /\ g.list = h.list /\ g.blk = h.blk /\ g.using = h.using /\ g.free = h.free
        /\ DOMAIN g = DOMAIN h
    BY <1>1
  <2>4. g.free["small"] > 0 \/ g.pages # {}
    <3> SUFFICES ASSUME ~(h.free["small"] > 0), h.pages \ {p} = {} PROVE FALSE  BY <2>3
    <3>1. h.free["small"] = 0  BY <1>1, <1>2
    <3>2. Needs(h, c) = 2  BY <1>2, <1>6, <3>1 DEF Needs
    <3>3. Cardinality(h.pages) = 1  BY <2>2, FS_Singleton, h.pages = {p}
    <3> QED BY <3>2, <3>3
  <2> HIDE DEF g
  <2>5. Good(g, {p})
    <3>1. Lists(g, {p})  BY <1>1, <2>2, <2>3 DEF Good, Lists
    <3>2. \A d \in Class : UsedCols(g, d) = UsedCols(h, d) /\ FreeCols(g, d) = FreeCols(h, d)
      BY <2>3 DEF UsedCols, FreeCols
    <3>3. BlocksOK(g) /\ Counted(g) /\ Lone(g) /\ Linked(g)
      BY <1>2, <2>3, <3>2 DEF Good, BlocksOK, Counted, Lone, Linked
    <3> QED BY <3>1, <3>3 DEF Good
  <2>6. UsedCols(g, "small") = UsedCols(h, "small") /\ UsedCols(g, "large") = UsedCols(h, "large")
        /\ Structs(g) = Structs(h) /\ Used(g) = Used(h)
    BY <2>3 DEF UsedCols, Structs, Used
  <2>7. /\ Good(s.heap, {p}) /\ s.obj \in Object /\ s.obj \notin Used(g)
        /\ UsedCols(s.heap, "small") = UsedCols(g, "small") \union {s.obj}
        /\ UsedCols(s.heap, "large") = UsedCols(g, "large") /\ s.heap.free["large"] = g.free["large"]
        /\ Structs(s.heap) = Structs(g)
    BY <2>4, <2>5, SmallIs
  <2> HIDE DEF s
  <2>8. s.heap.free["large"] = 0  BY <1>1, <1>2, <1>6, <2>3, <2>7
  <2>9. s.obj \in UsedCols(s.heap, "small") \ Structs(s.heap)  BY <1>3, <2>6, <2>7 DEF Used
  <2>10. /\ Good(n, {p} \ {p}) /\ n.blk[Head(n.list["large"])].free > 0
         /\ \A d \in Class : UsedCols(n, d) = UsedCols(s.heap, d)
         /\ Structs(n) = Structs(s.heap) \union ({s.obj} \ {NoObj})
    <3> DEFINE e == s.heap
               o == s.obj
    <3>1. p \in e.pages \union {p} /\ Good(e, {p}) /\ e.free["large"] = 0 /\ StructFits(e, "large", o)
      BY <2>7, <2>8, <2>9 DEF StructFits
    <3> HIDE DEF e, o
    <3>2. Added(e, {p}, "large", p, o, AddBlk(e, "large", p, o))  BY <1>2, <3>1, AddIs
    <3> QED BY <3>2 DEF Added, e, o
  <2> HIDE DEF n
  <2>11. /\ Good(k.heap, {}) /\ k.obj \in Object /\ k.obj \notin Used(n)
         /\ UsedCols(k.heap, "large") = UsedCols(n, "large") \union {k.obj}
         /\ \A d \in Class \ {"large"} : UsedCols(k.heap, d) = UsedCols(n, d)
         /\ Structs(k.heap) = Structs(n)
    <3>1. {p} \ {p} = {}  OBVIOUS
    <3>2. Good(n, {})  BY <2>10, <3>1
    <3> QED BY ONLY <1>2, <2>10, <3>2, TakeIs
  <2> HIDE DEF k
  <2>12. s.obj # NoObj  BY <2>7, ObjectIs
  <2>13. /\ UsedCols(k.heap, "small") = UsedCols(h, "small") \union {s.obj}
         /\ UsedCols(k.heap, "large") = UsedCols(h, "large") \union {k.obj}
         /\ Structs(k.heap) = Structs(h) \union {s.obj}
         /\ s.obj \notin Used(h) /\ k.obj \notin Used(h) \union {s.obj}
    <3>1. Used(n) = Used(h) \union {s.obj}  BY <1>2, <2>6, <2>7, <2>10 DEF Used
    <3> QED BY <1>2, <2>6, <2>7, <2>10, <2>11, <2>12, <3>1
  <2>14. Given(k.heap) = Given(h) \union {k.obj} /\ k.obj \notin Given(h)
    BY <1>3, <2>13 DEF Given, Used
  <2> QED BY <2>1, <2>11, <2>14
<1> QED BY <1>4, <1>5, <1>6 DEF Class
-----------------------------------------------------------------------------
(* Giving a column back. *)

\* PutColumn before it looks at the block.
Cleared(h, c, o) ==
    [h EXCEPT !.blk[o[1]] = [h.blk[o[1]] EXCEPT !.map = @ \ {o[2]}, !.using = @ - 1, !.free = @ + 1],
              !.using[c] = @ - 1, !.free[c] = @ + 1]

\* As Lone, but for one block.
LoneBut(h, p) ==
    \A c \in Class : \A x, y \in ToSet(h.list[c]) \ {p} : h.blk[x].map = {} /\ h.blk[y].map = {} => x = y

\* What n differs in from h, after column o of class c was given back.
Gives(h, c, o, n) ==
    /\ UsedCols(n, c) = UsedCols(h, c) \ {o}
    /\ \A d \in Class \ {c} : UsedCols(n, d) = UsedCols(h, d)

\* The bit and the counters.
LEMMA ClearedIs ==
    ASSUME NEW h, NEW L, Good(h, L), NEW c \in Class, NEW o \in UsedCols(h, c), o \notin Structs(h)
    PROVE  LET n == Cleared(h, c, o) IN
           /\ Lists(n, L) /\ BlocksOK(n) /\ Counted(n) /\ Linked(n) /\ LoneBut(n, o[1]) /\ Gives(h, c, o, n)
           /\ \A q \in DOMAIN h.blk : n.blk[q].struct = h.blk[q].struct
           /\ n.list = h.list /\ n.pages = h.pages /\ o[1] \in ToSet(h.list[c])
           /\ n.blk[o[1]].using = 0 <=> n.blk[o[1]].map = {}
<1> DEFINE p == o[1]
           j == o[2]
           b == h.blk[p]
           nb == [b EXCEPT !.map = @ \ {j}, !.using = @ - 1, !.free = @ + 1]
           n == Cleared(h, c, o)
<1>1. Lists(h, L) /\ BlocksOK(h) /\ Counted(h) /\ Lone(h) /\ Linked(h)  BY DEF Good
<1>2. p \in ToSet(h.list[c]) /\ j \in b.map /\ o \in Object  BY DEF UsedCols
<1>3. BlkOK(b, c) /\ p \in DOMAIN h.blk  BY <1>1, <1>2, HeapFields
<1>4. /\ BlkOK(nb, c) /\ nb.cols = b.cols /\ nb.map = b.map \ {j} /\ nb.struct = b.struct
      /\ nb.using = 0 <=> nb.map = {}
  BY <1>2, <1>3, ClearBit
<1>5. /\ DOMAIN n = DOMAIN h /\ n.pages = h.pages /\ n.list = h.list
      /\ n.blk = [h.blk EXCEPT ![p] = nb]
      /\ n.using = [h.using EXCEPT ![c] = @ - 1] /\ n.free = [h.free EXCEPT ![c] = @ + 1]
  BY <1>1 DEF Cleared, Lists
<1> HIDE DEF n, nb, b
<1>6. /\ DOMAIN n.blk = DOMAIN h.blk /\ n.blk[p] = nb /\ \A q \in DOMAIN h.blk : q # p => n.blk[q] = h.blk[q]
  BY <1>3, <1>5
<1>7. \A q \in DOMAIN h.blk : n.blk[q].struct = h.blk[q].struct /\ n.blk[q].cols = h.blk[q].cols
  BY <1>4, <1>6 DEF b
<1>8. \A d \in Class : ToSet(n.list[d]) = ToSet(h.list[d]) /\ ToSet(h.list[d]) \subseteq DOMAIN h.blk
  BY <1>1, <1>5, HeapFields
<1>9. \A d \in Class : p \in ToSet(h.list[d]) => d = c  BY <1>1, <1>2, HeapFields
<1>10. BlocksOK(n)
  <2> SUFFICES ASSUME NEW d \in Class, NEW q \in ToSet(h.list[d]) PROVE BlkOK(n.blk[q], d)  BY <1>8 DEF BlocksOK
  <2> QED BY <1>1, <1>4, <1>6, <1>8, <1>9, HeapFields
<1>11. IsFiniteSet(UsedCols(h, c)) /\ IsFiniteSet(FreeCols(h, c)) /\ o \notin FreeCols(h, c)
  BY <1>1, ColsAre
<1>12. UsedCols(n, c) = UsedCols(h, c) \ {o} /\ FreeCols(n, c) = FreeCols(h, c) \union {o}
  <2>1. \A x \in Object : x[1] = p /\ x[2] = j => x = o  BY <1>2, ObjectIs
  <2>2. j \in 0 .. b.cols - 1  BY <1>2, <1>3 DEF BlkOK
  <2>3. ASSUME NEW x \in Object
        PROVE  /\ x \in UsedCols(n, c) <=> x \in UsedCols(h, c) \ {o}
               /\ x \in FreeCols(n, c) <=> x \in FreeCols(h, c) \union {o}
    <3>1. CASE x[1] = p
      <4>1. x \in UsedCols(h, c) <=> x[2] \in b.map  BY <1>2, <3>1 DEF UsedCols, b
      <4>2. x \in UsedCols(n, c) <=> x[2] \in b.map \ {j}  BY <1>2, <1>4, <1>6, <1>8, <3>1 DEF UsedCols
      <4>3. x \in FreeCols(h, c) <=> x[2] \in (0 .. b.cols - 1) \ b.map  BY <1>2, <3>1 DEF FreeCols, b
      <4>4. x \in FreeCols(n, c) <=> x[2] \in (0 .. b.cols - 1) \ (b.map \ {j})
        BY <1>2, <1>4, <1>6, <1>8, <3>1 DEF FreeCols
      <4> QED BY <1>2, <2>1, <2>2, <3>1, <4>1, <4>2, <4>3, <4>4
    <3>2. CASE x[1] # p  BY <1>6, <1>8, <3>2 DEF UsedCols, FreeCols
    <3> QED BY <3>1, <3>2
  <2> QED BY <1>2, <2>3 DEF UsedCols, FreeCols
<1>13. \A d \in Class \ {c} : UsedCols(n, d) = UsedCols(h, d) /\ FreeCols(n, d) = FreeCols(h, d)
  <2> SUFFICES ASSUME NEW d \in Class \ {c} PROVE UsedCols(n, d) = UsedCols(h, d) /\ FreeCols(n, d) = FreeCols(h, d)
    OBVIOUS
  <2>1. \A q \in ToSet(h.list[d]) : n.blk[q] = h.blk[q]  BY <1>6, <1>8, <1>9
  <2> QED BY <1>8, <2>1 DEF UsedCols, FreeCols
<1>14. /\ h.free[c] \in Nat /\ h.using[c] \in Nat
       /\ h.using \in [Class -> Nat] /\ h.free \in [Class -> Nat]
       /\ h.free[c] = Cardinality(FreeCols(h, c)) /\ h.using[c] = Cardinality(UsedCols(h, c))
  BY <1>1, HeapFields DEF Lists, Counted
<1>15. /\ Cardinality(UsedCols(n, c)) = h.using[c] - 1 /\ Cardinality(FreeCols(n, c)) = h.free[c] + 1
       /\ h.using[c] - 1 \in Nat
  <2>1. Cardinality(FreeCols(n, c)) = h.free[c] + 1  BY <1>11, <1>12, <1>14, FS_AddElement
  <2>2. Cardinality(UsedCols(n, c)) = h.using[c] - 1 /\ IsFiniteSet(UsedCols(n, c))
    BY <1>11, <1>12, <1>14, FS_RemoveElement
  <2> QED BY <2>1, <2>2, FS_CardinalityType
<1>16. Counted(n) /\ n.using \in [Class -> Nat] /\ n.free \in [Class -> Nat]
  <2>1. n.using \in [Class -> Nat] /\ n.free \in [Class -> Nat]  BY <1>5, <1>14, <1>15
  <2>2. n.free[c] = h.free[c] + 1 /\ n.using[c] = h.using[c] - 1  BY <1>5, <1>14
  <2>3. \A d \in Class \ {c} : n.free[d] = h.free[d] /\ n.using[d] = h.using[d]  BY <1>5, <1>14
  <2> QED BY <1>1, <1>13, <1>15, <2>1, <2>2, <2>3 DEF Counted
<1>17. Lists(n, L)  BY <1>1, <1>5, <1>6, <1>16 DEF Lists
<1>18. LoneBut(n, p)
  <2>1. \A d \in Class : \A q \in ToSet(h.list[d]) \ {p} : n.blk[q] = h.blk[q]  BY <1>6, <1>8
  <2> QED BY <1>1, <1>8, <2>1 DEF Lone, LoneBut
<1>19. Linked(n)
  <2>1. \A q \in DOMAIN h.blk : h.blk[q].struct # NoObj => h.blk[q].struct # o  BY DEF Structs
  <2>2. UsedCols(h, "small") \ {o} \subseteq UsedCols(n, "small")  BY <1>12, <1>13 DEF Class
  <2> QED BY <1>1, <1>6, <1>7, <1>8, <2>1, <2>2 DEF Linked, Class
<1>20. n.blk[p].using = 0 <=> n.blk[p].map = {}  BY <1>4, <1>6
<1>21. Gives(h, c, o, n)  BY <1>12, <1>13 DEF Gives
<1> QED BY <1>2, <1>5, <1>7, <1>10, <1>16, <1>17, <1>18, <1>19, <1>20, <1>21 DEF n

\* What n differs in from h, after block p of class c was given back.
Dropped(h, L, c, p, n) ==
    /\ Good(n, L) /\ DOMAIN n.blk = DOMAIN h.blk \ {p}
    /\ \A d \in Class : UsedCols(n, d) = UsedCols(h, d)
    /\ \A q \in DOMAIN n.blk : n.blk[q] = h.blk[q]

\* An empty block that is not the only one goes.
LEMMA DropIs ==
    ASSUME NEW h, NEW L, Lists(h, L), BlocksOK(h), Counted(h), Linked(h), NEW c \in Class,
           NEW p, p \in ToSet(h.list[c]), LoneBut(h, p), h.blk[p].map = {}, Len(h.list[c]) > 1
    PROVE  Dropped(h, L, c, p, DropBlk(h, c, p))
<1> DEFINE n == DropBlk(h, c, p)
           b == h.blk[p]
           t == List_del(h.list[c], p)
<1>1. h.list[c] \in Seq(Page) /\ IsInjective(h.list[c])  BY HeapFields
<1>2. BlkOK(b, c) /\ p \in DOMAIN h.blk /\ p \in Page  BY HeapFields
<1>3. t \in Seq(Page) /\ IsInjective(t) /\ ToSet(t) = ToSet(h.list[c]) \ {p} /\ t # <<>>
  <2> DEFINE s == h.list[c]
  <2>1. t \in Seq(Page) /\ IsInjective(t) /\ ToSet(t) = ToSet(h.list[c]) \ {p}  BY <1>1, DelOne
  <2>2. DOMAIN s = 1 .. Len(s) /\ Len(s) \in Nat  BY <1>1, LenProperties
  <2>3. 1 \in DOMAIN s /\ 2 \in DOMAIN s /\ s[1] # s[2]
    <3>1. 1 \in DOMAIN s /\ 2 \in DOMAIN s  BY <2>2
    <3> QED BY <1>1, <3>1 DEF IsInjective
  <2>4. s[1] \in ToSet(s) /\ s[2] \in ToSet(s)  BY <2>3 DEF ToSet
  <2> HIDE DEF s, t
  <2>5. ToSet(<<>>) = {}  BY DEF ToSet
  <2>6. ToSet(t) # {}  BY <2>1, <2>3, <2>4 DEF s
  <2> QED BY <2>1, <2>5, <2>6
<1> HIDE DEF t
<1>4. /\ DOMAIN n = DOMAIN h /\ n.pages = h.pages \union {p} /\ n.using = h.using
      /\ n.list = [h.list EXCEPT ![c] = t]
      /\ n.blk = [q \in DOMAIN h.blk \ {p} |-> h.blk[q]]
      /\ n.free = [h.free EXCEPT ![c] = @ - b.free]
  BY DEF DropBlk, Lists, t, Restrict
<1> HIDE DEF n
<1>5. DOMAIN n.blk = DOMAIN h.blk \ {p} /\ \A q \in DOMAIN n.blk : n.blk[q] = h.blk[q]  BY <1>4
<1>6. b.free = b.cols /\ b.cols \in Nat /\ b.cols \in Cols(c)
  <2>1. Cardinality({}) = 0  BY FS_EmptySet
  <2> QED BY <1>2, <2>1 DEF BlkOK, Blk
<1> DEFINE F == {x \in Object : x[1] = p /\ x[2] \in 0 .. b.cols - 1}
<1>7. Cardinality(F) = b.cols  BY <1>2, <1>6, BlockSize
<1>8. h.list \in [Class -> Seq(Page)] /\ h.free \in [Class -> Nat] /\ h.using \in [Class -> Nat]  BY DEF Lists
<1>9. /\ ToSet(n.list[c]) = ToSet(h.list[c]) \ {p} /\ \A d \in Class \ {c} : n.list[d] = h.list[d]
      /\ n.list \in [Class -> Seq(Page)] /\ \A d \in Class : IsInjective(n.list[d]) /\ n.list[d] # <<>>
  <2>1. \A d \in Class : IsInjective(h.list[d]) /\ h.list[d] # <<>>  BY DEF Lists
  <2> QED BY <1>3, <1>4, <1>8, <2>1
<1>10. \A d \in Class : p \in ToSet(h.list[d]) => d = c  BY HeapFields
<1>11. \A d \in Class : ToSet(n.list[d]) = ToSet(h.list[d]) \ {p} /\ ToSet(h.list[d]) \subseteq DOMAIN h.blk
  <2> SUFFICES ASSUME NEW d \in Class PROVE ToSet(n.list[d]) = ToSet(h.list[d]) \ {p}  BY HeapFields
  <2>1. CASE d = c  BY <1>9, <2>1
  <2>2. CASE d # c
    <3>1. n.list[d] = h.list[d] /\ p \notin ToSet(h.list[d])  BY <1>9, <1>10, <2>2
    <3> QED BY <3>1
  <2> QED BY <2>1, <2>2
<1>12. \A d \in Class : UsedCols(n, d) = UsedCols(h, d)
  <2> SUFFICES ASSUME NEW d \in Class, NEW x \in Object PROVE x \in UsedCols(n, d) <=> x \in UsedCols(h, d)
    BY DEF UsedCols
  <2> QED BY <1>5, <1>11 DEF UsedCols
<1>13. FreeCols(n, c) = FreeCols(h, c) \ F /\ F \subseteq FreeCols(h, c)
  <2> SUFFICES ASSUME NEW x \in Object
               PROVE  /\ x \in FreeCols(n, c) <=> x \in FreeCols(h, c) \ F
                      /\ x \in F => x \in FreeCols(h, c)
    BY DEF FreeCols
  <2>1. CASE x[1] = p  BY <1>11, <2>1 DEF FreeCols
  <2>2. CASE x[1] # p  BY <1>5, <1>11, <2>2 DEF FreeCols
  <2> QED BY <2>1, <2>2
<1>14. \A d \in Class \ {c} : FreeCols(n, d) = FreeCols(h, d)
  <2> SUFFICES ASSUME NEW d \in Class \ {c}, NEW x \in Object PROVE x \in FreeCols(n, d) <=> x \in FreeCols(h, d)
    BY DEF FreeCols
  <2> QED BY <1>5, <1>9, <1>10, <1>11 DEF FreeCols
<1> HIDE DEF F
<1>15. Cardinality(FreeCols(n, c)) = h.free[c] - b.free /\ h.free[c] - b.free \in Nat
  <2>1. IsFiniteSet(FreeCols(h, c)) /\ h.free[c] = Cardinality(FreeCols(h, c))  BY ColsAre DEF Counted
  <2>2. FreeCols(h, c) \intersect F = F  BY <1>13
  <2>3. /\ IsFiniteSet(FreeCols(h, c) \ F)
        /\ Cardinality(FreeCols(h, c) \ F) = Cardinality(FreeCols(h, c)) - Cardinality(FreeCols(h, c) \intersect F)
    BY <2>1, FS_Difference
  <2>4. Cardinality(FreeCols(h, c) \ F) \in Nat  BY <2>3, FS_CardinalityType
  <2> QED BY <1>6, <1>7, <1>13, <2>1, <2>2, <2>3, <2>4
<1>16. Counted(n) /\ n.free \in [Class -> Nat]
  <2>1. n.free[c] = h.free[c] - b.free /\ \A d \in Class \ {c} : n.free[d] = h.free[d]  BY <1>4, <1>8
  <2>2. n.free \in [Class -> Nat]  BY <1>4, <1>8, <1>15
  <2> QED BY <1>4, <1>12, <1>14, <1>15, <2>1, <2>2 DEF Counted
<1>17. Lists(n, L)
  <2>1. DOMAIN h.blk = Page \ (h.pages \union L) /\ L \subseteq Page /\ h.pages \intersect L = {} /\ h.pages \subseteq Page
    BY DEF Lists
  <2>2. DOMAIN n.blk = Page \ (n.pages \union L) /\ n.pages \subseteq Page /\ n.pages \intersect L = {}
    BY <1>2, <1>4, <1>5, <2>1
  <2>3. /\ ToSet(n.list["small"]) \intersect ToSet(n.list["large"]) = {}
        /\ ToSet(n.list["small"]) \union ToSet(n.list["large"]) = DOMAIN n.blk
    BY <1>5, <1>11 DEF Lists, Class
  <2>4. DOMAIN n = {"pages", "list", "blk", "using", "free"} /\ n.using \in [Class -> Nat]  BY <1>4 DEF Lists
  <2> QED BY <1>9, <1>16, <2>1, <2>2, <2>3, <2>4 DEF Lists
<1>18. BlocksOK(n)  BY <1>5, <1>11 DEF BlocksOK
<1>19. Lone(n)
  <2> SUFFICES ASSUME NEW d \in Class, NEW x \in ToSet(n.list[d]), NEW y \in ToSet(n.list[d]),
                      n.blk[x].map = {}, n.blk[y].map = {}
               PROVE  x = y
    BY DEF Lone
  <2>1. x \in ToSet(h.list[d]) \ {p} /\ y \in ToSet(h.list[d]) \ {p} /\ n.blk[x] = h.blk[x] /\ n.blk[y] = h.blk[y]
    BY <1>5, <1>11
  <2> QED BY <2>1 DEF LoneBut
<1>20. Linked(n)  BY <1>5, <1>11, <1>12 DEF Linked, Class
<1> QED BY <1>5, <1>12, <1>16, <1>17, <1>18, <1>19, <1>20 DEF Good, Dropped, n
\* What n differs in from h, after column o of class c was given back, and
\* its block, if it could be spared.
Put(h, c, o, n) ==
    /\ Good(n, {}) /\ Gives(h, c, o, n)
    /\ Structs(n) = Structs(h) \ (IF o[1] \in DOMAIN n.blk THEN {} ELSE {h.blk[o[1]].struct})

\* PutColumn: a class that keeps an empty block had no other.
LEMMA PutIs ==
    ASSUME NEW h, Good(h, {}), NEW c \in Class, NEW o \in UsedCols(h, c), o \notin Structs(h)
    PROVE  Put(h, c, o, PutColumn(h, c, o))
<1> DEFINE p == o[1]
           n == Cleared(h, c, o)
           m == DropBlk(n, c, p)
           Goes == n.blk[p].using = 0 /\ Spares(n, c, p) /\ Len(n.list[c]) > 1
<1>1. PutColumn(h, c, o) = IF Goes THEN m ELSE n  BY DEF PutColumn, Cleared
<1>2. /\ Lists(n, {}) /\ BlocksOK(n) /\ Counted(n) /\ Linked(n) /\ LoneBut(n, p) /\ Gives(h, c, o, n)
      /\ \A q \in DOMAIN h.blk : n.blk[q].struct = h.blk[q].struct
      /\ n.list = h.list /\ n.pages = h.pages /\ p \in ToSet(h.list[c])
      /\ n.blk[p].using = 0 <=> n.blk[p].map = {}
  BY ClearedIs
<1> HIDE DEF n
<1>3. DOMAIN n.blk = DOMAIN h.blk /\ p \in DOMAIN h.blk
  BY <1>2, HeapFields DEF Good, Lists
<1>4. CASE Goes
  <2>1. Dropped(n, {}, c, p, m)  BY <1>2, <1>4, DropIs
  <2> HIDE DEF m
  <2>2. /\ Good(m, {}) /\ DOMAIN m.blk = DOMAIN h.blk \ {p} /\ \A d \in Class : UsedCols(m, d) = UsedCols(n, d)
        /\ \A q \in DOMAIN m.blk : m.blk[q].struct = h.blk[q].struct
    BY <1>2, <1>3, <2>1 DEF Dropped
  <2>3. Gives(h, c, o, m)  BY <1>2, <2>2 DEF Gives
  <2>4. Structs(m) = Structs(h) \ {h.blk[p].struct}
    <3>1. \A x, y \in DOMAIN h.blk : h.blk[x].struct # NoObj /\ h.blk[x].struct = h.blk[y].struct => x = y
      BY DEF Good, Linked
    <3>2. ASSUME NEW s, s \in Structs(m) PROVE s \in Structs(h) \ {h.blk[p].struct}
      <4>1. PICK q \in DOMAIN m.blk : s = m.blk[q].struct  BY <3>2 DEF Structs
      <4>2. s # NoObj /\ q \in DOMAIN h.blk /\ q # p /\ s = h.blk[q].struct  BY <2>2, <3>2, <4>1 DEF Structs
      <4> QED BY <1>3, <3>1, <4>2 DEF Structs
    <3>3. ASSUME NEW s, s \in Structs(h) \ {h.blk[p].struct} PROVE s \in Structs(m)
      <4>1. PICK q \in DOMAIN h.blk : s = h.blk[q].struct  BY <3>3 DEF Structs
      <4>2. q # p  BY <3>3, <4>1
      <4>3. s = m.blk[q].struct /\ q \in DOMAIN m.blk  BY <2>2, <4>1, <4>2
      <4> QED BY <3>3, <4>3 DEF Structs
    <3> QED BY <3>2, <3>3
  <2> QED BY <1>1, <1>4, <2>2, <2>3, <2>4 DEF Put
<1>5. CASE ~Goes
  <2>1. Lone(n)
    <3> SUFFICES ASSUME NEW d \in Class, NEW x \in ToSet(n.list[d]), NEW y \in ToSet(n.list[d]),
                        n.blk[x].map = {}, n.blk[y].map = {}, x # y
                 PROVE  FALSE
      BY DEF Lone
    <3>1. PICK q : q # p /\ q \in ToSet(n.list[c]) /\ d = c /\ n.blk[p].map = {} /\ n.blk[q].map = {}
      <4>1. x = p \/ y = p  BY <1>2 DEF LoneBut
      <4>2. p \in ToSet(n.list[d]) => d = c  BY <1>2, HeapFields
      <4>3. CASE x = p  BY <4>2, <4>3
      <4>4. CASE y = p  BY <4>2, <4>4
      <4> QED BY <4>1, <4>3, <4>4
    <3>2. Len(n.list[c]) > 1
      <4> DEFINE s == n.list[c]
      <4>1. s \in Seq(Page)  BY <1>2, HeapFields
      <4>2. DOMAIN s = 1 .. Len(s) /\ Len(s) \in Nat  BY <4>1, LenProperties
      <4>3. PICK i \in DOMAIN s, k \in DOMAIN s : s[i] = p /\ s[k] = q  BY <1>2, <3>1 DEF ToSet
      <4> HIDE DEF s
      <4>4. i # k /\ i \in 1 .. Len(s) /\ k \in 1 .. Len(s)  BY <3>1, <4>2, <4>3
      <4>5. Len(s) > 1  BY <4>2, <4>4
      <4> QED BY <4>5 DEF s
    <3>3. BlkOK(n.blk[p], c) /\ BlkOK(n.blk[q], c) /\ p \in Page /\ q \in Page /\ p \in ToSet(n.list[c])
      BY <1>2, <3>1, HeapFields
    <3> DEFINE a == n.blk[p].cols
               b == n.blk[q].cols
               F == {z \in Object : z[1] = p /\ z[2] \in 0 .. a - 1}
               G == {z \in Object : z[1] = q /\ z[2] \in 0 .. b - 1}
    <3>4. a \in Cols(c) /\ b \in Cols(c) /\ a \in Nat /\ b \in Nat  BY <3>3 DEF BlkOK, Blk
    <3>5. Cardinality(F) = a /\ Cardinality(G) = b  BY <3>3, <3>4, BlockSize
    <3>6. F \subseteq FreeCols(n, c) /\ G \subseteq FreeCols(n, c)  BY <3>1, <3>3 DEF FreeCols
    <3>7. F \intersect G = {}  BY <3>1
    <3> HIDE DEF F, G
    <3>8. n.free[c] >= a + b
      <4>1. IsFiniteSet(FreeCols(n, c)) /\ n.free[c] = Cardinality(FreeCols(n, c))  BY <1>2, ColsAre DEF Counted
      <4>2. IsFiniteSet(F) /\ IsFiniteSet(G)  BY <3>6, <4>1, FS_Subset
      <4>3. Cardinality(F \union G) = a + b
        <5>1. Cardinality(F \union G) = Cardinality(F) + Cardinality(G) - Cardinality(F \intersect G)
          BY <4>2, FS_Union
        <5>2. Cardinality(F \intersect G) = 0  BY <3>7, FS_EmptySet
        <5> QED BY <3>4, <3>5, <5>1, <5>2
      <4>4. Cardinality(F \union G) <= Cardinality(FreeCols(n, c))  BY <3>6, <4>1, FS_Subset
      <4> QED BY <4>1, <4>3, <4>4
    <3>9. 2 * (a + b) >= 3 * a
      <4>1. /\ BootCols[c] \in Nat /\ PageCols[c] \in Nat /\ PageCols[c] <= BootCols[c] /\ BootCols[c] <= 2 * PageCols[c]
        BY SlabAssumption
      <4>2. a \in {BootCols[c], PageCols[c]} /\ b \in {BootCols[c], PageCols[c]}  BY <3>4 DEF Cols
      <4> HIDE DEF a, b
      <4>3. a <= 2 * b  BY <4>1, <4>2
      <4> QED BY <3>4, <4>3
    <3>10. Spares(n, c, p)
      <4>1. n.free[c] \in Nat  BY <1>2, HeapFields
      <4>2. a + b >= (a * 3) \div 2
        <5> HIDE DEF a, b
        <5> QED BY <3>4, <3>9
      <4>3. (a * 3) \div 2 \in Nat /\ a + b \in Nat
        <5> HIDE DEF a, b
        <5> QED BY <3>4
      <4> DEFINE k == (a * 3) \div 2
      <4>4. n.free[c] >= k
        <5> HIDE DEF k, a, b
        <5> QED BY <3>8, <4>1, <4>2, <4>3 DEF k
      <4> QED BY <4>4 DEF Spares
    <3> QED BY <1>2, <1>5, <3>1, <3>2, <3>10
  <2>2. Structs(n) = Structs(h)  BY <1>2, <1>3 DEF Structs
  <2>3. Good(n, {})  BY <1>2, <2>1 DEF Good
  <2> QED BY <1>1, <1>2, <1>3, <1>5, <2>2, <2>3 DEF Put
<1> QED BY <1>4, <1>5

\* _kfree of a column that was given.
LEMMA KfreeIs ==
    ASSUME NEW h, Good(h, {}), NEW o \in Given(h)
    PROVE  Good(Kfree(h, o), {}) /\ Given(Kfree(h, o)) = Given(h) \ {o}
<1> DEFINE c == ClassOf(h, o)
           n == PutColumn(h, c, o)
           s == h.blk[o[1]].struct
<1>1. Lists(h, {}) /\ BlocksOK(h)  BY DEF Good
<1>2. o \in Used(h) /\ o \notin Structs(h)  BY DEF Given
<1>3. c \in Class /\ o \in UsedCols(h, c) /\ \A d \in Class \ {c} : o \notin UsedCols(h, d)
  <2>1. PICK d \in Class : o \in UsedCols(h, d)  BY <1>2 DEF Used, Class
  <2>2. o[1] \in ToSet(h.list[d])  BY <2>1 DEF UsedCols
  <2>3. \A e \in Class : o[1] \in ToSet(h.list[e]) => e = d  BY <1>1, <2>2, HeapFields
  <2>4. c = d  BY <2>2, <2>3 DEF ClassOf
  <2> QED BY <2>1, <2>3, <2>4 DEF UsedCols
<1> HIDE DEF c
<1>4. Put(h, c, o, n)  BY <1>2, <1>3, PutIs
<1>5. Kfree(h, o) = IF c = "large" /\ o[1] \notin DOMAIN n.blk /\ s # NoObj THEN PutColumn(n, "small", s) ELSE n
  BY DEF Kfree, c
<1> HIDE DEF n
<1>6. Good(n, {}) /\ Used(n) = Used(h) \ {o}
      /\ Structs(n) = Structs(h) \ (IF o[1] \in DOMAIN n.blk THEN {} ELSE {s})
  BY <1>3, <1>4 DEF Put, Gives, Used, Class
<1>7. o[1] \in DOMAIN h.blk /\ o[1] \in ToSet(h.list[c])  BY <1>1, <1>3, HeapFields DEF UsedCols
<1>8. CASE ~(c = "large" /\ o[1] \notin DOMAIN n.blk /\ s # NoObj)
  <2>1. c = "small" => s = NoObj  BY <1>7 DEF Good, Linked
  <2>2. NoObj \notin Structs(h)  BY DEF Structs
  <2>3. Structs(n) = Structs(h)  BY <1>3, <1>6, <1>8, <2>1, <2>2 DEF Class
  <2> QED BY <1>5, <1>6, <1>8, <2>3 DEF Given
<1>9. CASE c = "large" /\ o[1] \notin DOMAIN n.blk /\ s # NoObj
  <2> DEFINE m == PutColumn(n, "small", s)
  <2>1. s \in UsedCols(h, "small") /\ s \in Structs(h)  BY <1>7, <1>9 DEF Good, Linked, Structs
  <2>2. s \in UsedCols(n, "small") /\ s \notin Structs(n) /\ "small" \in Class
    BY <1>4, <1>6, <1>9, <2>1 DEF Put, Gives, Class
  <2>3. Put(n, "small", s, m)  BY <1>6, <2>2, PutIs
  <2> HIDE DEF m
  <2>4. n.blk[s[1]].struct = NoObj  BY <1>6, <2>2 DEF Good, Linked, UsedCols
  <2>5. NoObj \notin Structs(n)  BY DEF Structs
  <2>6. Good(m, {}) /\ Structs(m) = Structs(n)  BY <2>3, <2>4, <2>5 DEF Put
  <2>7. s \notin UsedCols(n, "large")
    <3>1. s[1] \in ToSet(n.list["small"])  BY <2>2 DEF UsedCols
    <3>2. s[1] \notin ToSet(n.list["large"])  BY <1>6, <3>1 DEF Good, Lists
    <3> QED BY <3>2 DEF UsedCols
  <2>8. Used(m) = Used(n) \ {s}  BY <2>3, <2>7 DEF Put, Gives, Used, Class
  <2>9. Kfree(h, o) = m /\ Structs(m) = Structs(h) \ {s} /\ Used(m) = (Used(h) \ {o}) \ {s}
    BY <1>5, <1>6, <1>9, <2>6, <2>8 DEF m
  <2> HIDE DEF s
  <2> QED BY <2>1, <2>6, <2>9 DEF Given
<1> QED BY <1>8, <1>9
-----------------------------------------------------------------------------
(* The heap at boot. *)

\* mm_slab_init leaves blocks with no column in use.
LEMMA BootIs == Good(BootHeap, {}) /\ Given(BootHeap) = {}
<1> DEFINE h == BootHeap
           B(c) == NewBlk(BootCols[c], NoObj)
<1> USE SlabAssumption
<1>1. /\ DOMAIN h = {"pages", "list", "blk", "using", "free"} /\ h.pages = Page \ Range(Boot)
      /\ h.list = [c \in Class |-> <<Boot[c]>>]
      /\ h.blk = [p \in Range(Boot) |-> B(CHOOSE c \in Class : Boot[c] = p)]
      /\ h.using = [c \in Class |-> 0] /\ h.free = [c \in Class |-> BootCols[c]]
  BY DEF BootHeap
<1> HIDE DEF h
<1>2. /\ Boot["small"] \in Page /\ Boot["large"] \in Page /\ Range(Boot) = {Boot["small"], Boot["large"]}
      /\ \A c, d \in Class : Boot[c] = Boot[d] => c = d
  BY DEF Class, Range
<1>3. \A c \in Class : (CHOOSE d \in Class : Boot[d] = Boot[c]) = c  BY <1>2
<1>4. DOMAIN h.blk = Range(Boot) /\ \A c \in Class : Boot[c] \in Range(Boot) /\ h.blk[Boot[c]] = B(c)
  <2>1. \A c \in Class : Boot[c] \in Range(Boot)  BY DEF Range
  <2> HIDE DEF B
  <2> QED BY <1>1, <1>3, <2>1
<1>5. ASSUME NEW c \in Class
      PROVE  /\ h.list[c] = <<Boot[c]>> /\ h.list[c] \in Seq(Page) /\ ToSet(h.list[c]) = {Boot[c]}
             /\ IsInjective(h.list[c]) /\ h.list[c] # <<>>
  <2>1. h.list[c] = <<Boot[c]>> /\ Boot[c] \in Page  BY <1>1
  <2> QED BY <2>1 DEF ToSet, IsInjective
<1>6. ASSUME NEW c \in Class
      PROVE  /\ BootCols[c] \in Nat \ {0} /\ BootCols[c] \in Cols(c)
             /\ B(c).cols = BootCols[c] /\ B(c).map = {} /\ B(c).using = 0 /\ B(c).free = BootCols[c]
             /\ B(c).struct = NoObj /\ BlkOK(B(c), c)
  <2>1. B(c) = [cols |-> BootCols[c], map |-> {}, using |-> 0, free |-> BootCols[c], struct |-> NoObj]  BY DEF NewBlk
  <2>2. BootCols[c] \in Nat \ {0} /\ BootCols[c] \in Cols(c)  BY DEF Cols
  <2> HIDE DEF B
  <2>3. B(c) \in Blk  BY <2>1, <2>2 DEF Blk
  <2>4. Cardinality({}) = 0  BY FS_EmptySet
  <2> QED BY <2>1, <2>2, <2>3, <2>4 DEF BlkOK
<1> HIDE DEF B
<1>7. Lists(h, {})
  <2>1. h.list \in [Class -> Seq(Page)]  BY <1>1, <1>5
  <2>2. h.using \in [Class -> Nat] /\ h.free \in [Class -> Nat]  BY <1>1, <1>6
  <2>3. DOMAIN h.blk = Page \ (h.pages \union {}) /\ h.pages \subseteq Page  BY <1>1, <1>2, <1>4
  <2>4. /\ ToSet(h.list["small"]) \intersect ToSet(h.list["large"]) = {}
        /\ ToSet(h.list["small"]) \union ToSet(h.list["large"]) = DOMAIN h.blk
    BY <1>2, <1>4, <1>5 DEF Class
  <2> QED BY <1>1, <1>5, <2>1, <2>2, <2>3, <2>4 DEF Lists
<1>8. BlocksOK(h)
  <2> SUFFICES ASSUME NEW c \in Class, NEW p \in ToSet(h.list[c]) PROVE BlkOK(h.blk[p], c)  BY DEF BlocksOK
  <2>1. p = Boot[c] /\ h.blk[p] = B(c)  BY <1>4, <1>5
  <2> QED BY <1>6, <2>1
<1>9. \A c \in Class : UsedCols(h, c) = {}  BY <1>4, <1>5, <1>6 DEF UsedCols
<1>10. ASSUME NEW c \in Class
       PROVE  Cardinality(FreeCols(h, c)) = BootCols[c]
  <2> DEFINE m == BootCols[c]
             F == {x \in Object : x[1] = Boot[c] /\ x[2] \in 0 .. m - 1}
  <2>1. ToSet(h.list[c]) = {Boot[c]} /\ h.blk[Boot[c]].cols = m /\ h.blk[Boot[c]].map = {}
    BY <1>4, <1>5, <1>6
  <2>2. FreeCols(h, c) = F
    <3> SUFFICES ASSUME NEW x \in Object PROVE x \in FreeCols(h, c) <=> x[1] = Boot[c] /\ x[2] \in 0 .. m - 1
      BY DEF FreeCols
    <3> HIDE DEF m
    <3> QED BY <2>1 DEF FreeCols
  <2>3. m \in Cols(c) /\ Boot[c] \in Page  BY <1>6
  <2> HIDE DEF m
  <2>4. Cardinality(F) = m  BY <2>3, BlockSize
  <2> QED BY <2>2, <2>4 DEF m
<1>12. Counted(h)
  <2>1. Cardinality({}) = 0  BY FS_EmptySet
  <2> SUFFICES ASSUME NEW c \in Class
               PROVE  h.free[c] = Cardinality(FreeCols(h, c)) /\ h.using[c] = Cardinality(UsedCols(h, c))
    BY DEF Counted
  <2>2. h.free[c] = BootCols[c] /\ h.using[c] = 0  BY <1>1
  <2> QED BY <1>9, <1>10, <2>1, <2>2
<1>13. Lone(h)  BY <1>5 DEF Lone
<1>14. \A p \in DOMAIN h.blk : h.blk[p].struct = NoObj  BY <1>2, <1>4, <1>6 DEF Class
<1>15. Linked(h)  BY <1>2, <1>4, <1>5, <1>14 DEF Linked, Class
<1>16. Given(h) = {}  BY <1>9 DEF Given, Used, Class
<1> QED BY <1>7, <1>8, <1>12, <1>13, <1>15, <1>16 DEF Good, h

-----------------------------------------------------------------------------
(* Who holds the columns that are given. *)

\* Objects that a thread at r holds outside of the tree.
Holds(r) == IF r.at \in {"walk", "overtaken"} THEN {} ELSE {r.obj, r.rec} \ {NoObj}
Way == (UNION {Holds(op[t]) : t \in Caller}) \union ({clear.rec} \ {NoObj})

OpType == [at  : {"out", "addRecord", "insRecord", "walk", "overtaken", "freeRecord", "freeObject"},
           obj : Object \union {NoObj}, rec : Object \union {NoObj}]

\* What a thread at a point has, T being the private objects in the tree.
OpOK(r, T) ==
    /\ r \in OpType
    /\ r.at = "out" <=> r.obj = NoObj
    /\ r.at \in {"insRecord", "freeRecord"} <=> r.rec # NoObj
    /\ r.rec # NoObj => r.obj # r.rec
    /\ r.at \in {"walk", "overtaken"} => r.obj \in T

\* G in four parts.
Parts(G, S, T, R, W) ==
    /\ G = S \union T \union R \union W
    /\ S \intersect (T \union R \union W) = {} /\ T \intersect (R \union W) = {} /\ R \intersect W = {}

OpsOK == op \in [Caller -> OpType] /\ \A t \in Caller : OpOK(op[t], DOMAIN slabRecord)
Apart == \A t, u \in Caller : t # u => /\ Holds(op[t]) \intersect Holds(op[u]) = {}
                                       /\ op[t].obj # NoObj => op[t].obj # op[u].obj
ClearOK ==
    /\ clear \in [on : BOOLEAN, rec : Object \union {NoObj}]
    /\ clear.rec # NoObj => clear.on
    /\ clear.on => \A t \in Caller : op[t].at = "out"
Parted == Parts(Given(heap), shared, DOMAIN slabRecord, Range(slabRecord), Way)

SlabInv ==
    /\ Good(heap, {}) /\ OpsOK /\ Apart /\ ClearOK /\ Parted /\ IsInjective(slabRecord) /\ hung \in BOOLEAN

\* The objects on the way of others than t.
Others(t) == (UNION {Holds(op[u]) : u \in Caller \ {t}}) \union ({clear.rec} \ {NoObj})

\* The given columns are objects.
LEMMA GivenIs ==
    ASSUME SlabInv
    PROVE  /\ Given(heap) \subseteq Object /\ NoObj \notin Given(heap)
           /\ shared \subseteq Given(heap) /\ DOMAIN slabRecord \subseteq Given(heap)
           /\ Range(slabRecord) \subseteq Given(heap) /\ Way \subseteq Given(heap)
           /\ \A t \in Caller : Way = Others(t) \union Holds(op[t]) /\ Others(t) \intersect Holds(op[t]) = {}
<1>1. Given(heap) \subseteq Object  BY DEF Given, Used, UsedCols
<1>2. NoObj \notin Given(heap)  BY <1>1, ObjectIs
<1>3. ASSUME NEW t \in Caller PROVE Way = Others(t) \union Holds(op[t]) /\ Others(t) \intersect Holds(op[t]) = {}
  <2>1. Way = Others(t) \union Holds(op[t])  BY DEF Way, Others
  <2>2. clear.rec # NoObj => Holds(op[t]) = {}  BY DEF SlabInv, ClearOK, OpsOK, OpOK, Holds
  <2>3. \A u \in Caller \ {t} : Holds(op[u]) \intersect Holds(op[t]) = {}  BY DEF SlabInv, Apart
  <2> QED BY <2>1, <2>2, <2>3 DEF Others
<1> QED BY <1>1, <1>2, <1>3 DEF SlabInv, Parted, Parts

\* A step of thread t that leaves what the others hold.
LEMMA WayStep ==
    ASSUME SlabInv, NEW t \in Caller, clear' = clear,
           \A u \in Caller \ {t} : Holds(op'[u]) = Holds(op[u]) /\ op'[u].obj = op[u].obj,
           Holds(op'[t]) \intersect Others(t) = {},
           op'[t].obj # NoObj => \A u \in Caller \ {t} : op[u].obj # op'[t].obj
    PROVE  Way' = Others(t) \union Holds(op'[t]) /\ Apart'
<1>1. Way' = Others(t) \union Holds(op'[t])
  <2>1. Way' = (UNION {Holds(op'[u]) : u \in Caller}) \union ({clear.rec} \ {NoObj})  BY DEF Way
  <2> QED BY <2>1 DEF Others
<1>2. ASSUME NEW u \in Caller, NEW v \in Caller, u # v
      PROVE  Holds(op'[u]) \intersect Holds(op'[v]) = {} /\ (op'[u].obj # NoObj => op'[u].obj # op'[v].obj)
  <2>1. CASE u # t /\ v # t  BY <1>2, <2>1 DEF SlabInv, Apart
  <2>2. CASE u = t
    <3>1. Holds(op[v]) \subseteq Others(t)  BY <1>2, <2>2 DEF Others
    <3> QED BY <1>2, <2>2, <3>1
  <2>3. CASE v = t
    <3>1. Holds(op[u]) \subseteq Others(t)  BY <1>2, <2>3 DEF Others
    <3> QED BY <1>2, <2>3, <3>1
  <2> QED BY <2>1, <2>2, <2>3
<1> QED BY <1>1, <1>2 DEF Apart
\* Whoever a thread is after, it was given.
LEMMA OpGiven ==
    ASSUME SlabInv, NEW t \in Caller
    PROVE  /\ op[t] \in OpType /\ OpOK(op[t], DOMAIN slabRecord)
           /\ op[t].obj # NoObj => op[t].obj \in Given(heap)
           /\ op[t].at # "out" => ~clear.on /\ clear.rec = NoObj
<1>1. op[t] \in OpType /\ OpOK(op[t], DOMAIN slabRecord)  BY DEF SlabInv, OpsOK
<1>2. op[t].at # "out" => ~clear.on /\ clear.rec = NoObj  BY DEF SlabInv, ClearOK
<1>3. op[t].obj # NoObj => op[t].obj \in Given(heap)
  <2>1. CASE op[t].at \in {"walk", "overtaken"}  BY <1>1, <2>1, GivenIs DEF OpOK
  <2>2. CASE op[t].at \notin {"walk", "overtaken"}
    <3>1. op[t].obj # NoObj => op[t].obj \in Holds(op[t])  BY <2>2 DEF Holds
    <3>2. Holds(op[t]) \subseteq Given(heap)  BY GivenIs
    <3> QED BY <3>1, <3>2
  <2> QED BY <2>1, <2>2
<1> QED BY <1>1, <1>2, <1>3

\* A step of thread t, the tree being left alone.
LEMMA OpStep ==
    ASSUME SlabInv, NEW t \in Caller, clear' = clear, slabRecord' = slabRecord, ~clear.on,
           op' \in [Caller -> OpType], \A u \in Caller \ {t} : op'[u] = op[u],
           OpOK(op'[t], DOMAIN slabRecord), Holds(op'[t]) \intersect Others(t) = {},
           op'[t].obj # NoObj => \A u \in Caller \ {t} : op[u].obj # op'[t].obj
    PROVE  /\ OpsOK' /\ Apart' /\ ClearOK' /\ IsInjective(slabRecord)'
           /\ Way' = Others(t) \union Holds(op'[t])
<1>1. Way' = Others(t) \union Holds(op'[t]) /\ Apart'  BY WayStep
<1>2. OpsOK'
  <2>1. \A u \in Caller : OpOK(op'[u], DOMAIN slabRecord')  BY DEF SlabInv, OpsOK
  <2> QED BY <2>1 DEF OpsOK
<1>3. ClearOK' /\ IsInjective(slabRecord)'  BY DEF SlabInv, ClearOK
<1> QED BY <1>1, <1>2, <1>3

\* Parts that gain or lose a member.
LEMMA PartsAdd ==
    ASSUME NEW G, NEW S, NEW T, NEW R, NEW W, Parts(G, S, T, R, W), NEW o
    PROVE  /\ o \notin G => Parts(G \union {o}, S \union {o}, T, R, W) /\ Parts(G \union {o}, S, T, R, W \union {o})
           /\ o \in S => Parts(G \ {o}, S \ {o}, T, R, W)
           /\ o \in T => Parts(G \ {o}, S, T \ {o}, R, W)
           /\ o \in W => Parts(G \ {o}, S, T, R, W \ {o})
BY DEF Parts

\* Two members that go into the tree, or come from there.
LEMMA PartsMove ==
    ASSUME NEW G, NEW S, NEW T, NEW R, NEW W, Parts(G, S, T, R, W), NEW o, NEW r, o # r
    PROVE  /\ o \in W /\ r \in W => Parts(G, S, T \union {o}, R \union {r}, W \ {o, r})
           /\ o \in T /\ r \in R => Parts(G, S, T \ {o}, R \ {r}, W \union {o, r})
BY DEF Parts

\* A shared object.
LEMMA AllocSharedStep ==
    ASSUME SlabInv, NEW t \in Caller, NEW c \in Class, AllocShared(t, c)
    PROVE  SlabInv'
<1> DEFINE k == Kmalloc(heap, c)
<1>1. Good(heap, {}) /\ Needs(heap, c) <= Cardinality(heap.pages)  BY DEF SlabInv, AllocShared
<1>2. Good(k.heap, {}) /\ k.obj \notin Given(heap) /\ Given(k.heap) = Given(heap) \union {k.obj}
  BY <1>1, KmallocIs
<1> HIDE DEF k
<1>3. heap' = k.heap /\ shared' = shared \union {k.obj} /\ UNCHANGED <<slabRecord, op, clear, hung>>
  BY DEF AllocShared, k
<1>4. Given(heap') = Given(heap) \union {k.obj} /\ Good(heap', {})  BY <1>2, <1>3
<1>5. Way' = Way  BY <1>3 DEF Way
<1>6. Parted'
  <2>1. Parts(Given(heap), shared, DOMAIN slabRecord, Range(slabRecord), Way)  BY DEF SlabInv, Parted
  <2>2. Parts(Given(heap) \union {k.obj}, shared \union {k.obj}, DOMAIN slabRecord, Range(slabRecord), Way)
    BY <1>2, <2>1, PartsAdd
  <2> QED BY <1>3, <1>4, <1>5, <2>2 DEF Parted
<1> QED BY <1>3, <1>4, <1>6 DEF SlabInv, OpsOK, Apart, ClearOK

\* mm_kfree of a shared object.
LEMMA FreeSharedStep ==
    ASSUME SlabInv, NEW t \in Caller, NEW o \in shared, FreeShared(t, o)
    PROVE  SlabInv'
<1>1. Good(heap, {}) /\ o \in Given(heap)  BY GivenIs DEF SlabInv
<1>2. Good(Kfree(heap, o), {}) /\ Given(Kfree(heap, o)) = Given(heap) \ {o}  BY <1>1, KfreeIs
<1>3. heap' = Kfree(heap, o) /\ shared' = shared \ {o} /\ UNCHANGED <<slabRecord, op, clear, hung>>
  BY DEF FreeShared
<1>4. Given(heap') = Given(heap) \ {o} /\ Good(heap', {})  BY <1>2, <1>3
<1>5. Way' = Way  BY <1>3 DEF Way
<1>6. Parted'
  <2>1. Parts(Given(heap), shared, DOMAIN slabRecord, Range(slabRecord), Way)  BY DEF SlabInv, Parted
  <2>2. Parts(Given(heap) \ {o}, shared \ {o}, DOMAIN slabRecord, Range(slabRecord), Way)  BY <2>1, PartsAdd
  <2> QED BY <1>3, <1>4, <1>5, <2>2 DEF Parted
<1> QED BY <1>3, <1>4, <1>6 DEF SlabInv, OpsOK, Apart, ClearOK

\* A private object and then its record.
LEMMA AllocPrivateStep ==
    ASSUME SlabInv, NEW t \in Caller, AllocPrivate(t)
    PROVE  SlabInv'
<1> DEFINE k == Small(heap)
<1>1. Good(heap, {}) /\ Needs(heap, "small") <= Cardinality(heap.pages) /\ "small" \in Class
      /\ Kmalloc(heap, "small") = k
  BY DEF SlabInv, AllocPrivate, Class, Kmalloc
<1>2. Good(k.heap, {}) /\ k.obj \notin Given(heap) /\ Given(k.heap) = Given(heap) \union {k.obj} /\ k.obj \in Object
  <2>1. LET m == Kmalloc(heap, "small") IN
           /\ Good(m.heap, {}) /\ m.obj \in Object /\ m.obj \notin Given(heap)
           /\ Given(m.heap) = Given(heap) \union {m.obj}
    BY <1>1, KmallocIs
  <2> QED BY <1>1, <2>1
<1> HIDE DEF k
<1>3. /\ heap' = k.heap /\ UNCHANGED <<shared, slabRecord, clear, hung>> /\ ~clear.on /\ op[t].at = "out"
      /\ op' = [op EXCEPT ![t] = [at |-> "addRecord", obj |-> k.obj, rec |-> NoObj]]
  BY DEF AllocPrivate, OpGoto, OpAt, k
<1>4. k.obj # NoObj  BY <1>2, ObjectIs
<1>5. /\ op \in [Caller -> OpType] /\ op' \in [Caller -> OpType] /\ \A u \in Caller \ {t} : op'[u] = op[u]
      /\ op'[t] = [at |-> "addRecord", obj |-> k.obj, rec |-> NoObj]
  <2>1. op \in [Caller -> OpType]  BY DEF SlabInv, OpsOK
  <2>2. [at |-> "addRecord", obj |-> k.obj, rec |-> NoObj] \in OpType  BY <1>2 DEF OpType
  <2> QED BY <1>3, <2>1, <2>2
<1>6. OpOK(op'[t], DOMAIN slabRecord) /\ Holds(op'[t]) = {k.obj}  BY <1>4, <1>5 DEF OpOK, Holds
<1>7. Holds(op[t]) = {} /\ Way = Others(t) /\ Way \subseteq Given(heap)
  <2>1. Holds(op[t]) = {}  BY <1>3, OpGiven DEF OpOK, Holds
  <2> QED BY <2>1, GivenIs
<1>8. \A u \in Caller \ {t} : op[u].obj # k.obj  BY <1>2, <1>4, OpGiven
<1>9. OpsOK' /\ Apart' /\ ClearOK' /\ IsInjective(slabRecord)' /\ Way' = Way \union {k.obj}
  BY <1>2, <1>3, <1>5, <1>6, <1>7, <1>8, OpStep
<1>10. Parted'
  <2>1. Parts(Given(heap), shared, DOMAIN slabRecord, Range(slabRecord), Way)  BY DEF SlabInv, Parted
  <2>2. Parts(Given(heap) \union {k.obj}, shared, DOMAIN slabRecord, Range(slabRecord), Way \union {k.obj})
    BY <1>2, <2>1, PartsAdd
  <2> QED BY <1>2, <1>3, <1>9, <2>2 DEF Parted
<1> QED BY <1>2, <1>3, <1>9, <1>10 DEF SlabInv

\* _addRecord takes the node of the tree from the small slab.
LEMMA AllocRecordStep ==
    ASSUME SlabInv, NEW t \in Caller, AllocRecord(t)
    PROVE  SlabInv'
<1> DEFINE k == Small(heap)
           o == op[t].obj
<1>1. Good(heap, {}) /\ Needs(heap, "small") <= Cardinality(heap.pages) /\ "small" \in Class
      /\ Kmalloc(heap, "small") = k
  BY DEF SlabInv, AllocRecord, Class, Kmalloc
<1>2. Good(k.heap, {}) /\ k.obj \notin Given(heap) /\ Given(k.heap) = Given(heap) \union {k.obj} /\ k.obj \in Object
  <2>1. LET m == Kmalloc(heap, "small") IN
           /\ Good(m.heap, {}) /\ m.obj \in Object /\ m.obj \notin Given(heap)
           /\ Given(m.heap) = Given(heap) \union {m.obj}
    BY <1>1, KmallocIs
  <2> QED BY <1>1, <2>1
<1> HIDE DEF k
<1>3. /\ heap' = k.heap /\ UNCHANGED <<shared, slabRecord, clear, hung>> /\ op[t].at = "addRecord"
      /\ op' = [op EXCEPT ![t] = [at |-> "insRecord", obj |-> o, rec |-> k.obj]]
  BY DEF AllocRecord, OpGoto, OpAt, k
<1>4. k.obj # NoObj  BY <1>2, ObjectIs
<1>5. o # NoObj /\ o \in Given(heap) /\ o \in Object \union {NoObj} /\ op[t].rec = NoObj /\ ~clear.on
  BY <1>3, OpGiven DEF OpOK, OpType
<1>6. /\ op \in [Caller -> OpType] /\ op' \in [Caller -> OpType] /\ \A u \in Caller \ {t} : op'[u] = op[u]
      /\ op'[t] = [at |-> "insRecord", obj |-> o, rec |-> k.obj]
  <2>1. op \in [Caller -> OpType]  BY DEF SlabInv, OpsOK
  <2>2. [at |-> "insRecord", obj |-> o, rec |-> k.obj] \in OpType  BY <1>2, <1>5 DEF OpType
  <2> HIDE DEF o
  <2> QED BY <1>3, <2>1, <2>2
<1>7. Holds(op[t]) = {o} /\ Way = Others(t) \union {o} /\ o \notin Others(t) /\ Way \subseteq Given(heap)
  <2>1. Holds(op[t]) = {o}  BY <1>3, <1>5 DEF Holds
  <2> QED BY <2>1, GivenIs
<1>8. \A u \in Caller \ {t} : op[u].obj # o  BY <1>5 DEF SlabInv, Apart
<1> HIDE DEF o
<1>9. OpOK(op'[t], DOMAIN slabRecord) /\ Holds(op'[t]) = {o, k.obj} /\ op'[t].obj = o
  BY <1>2, <1>4, <1>5, <1>6 DEF OpOK, Holds
<1>10. OpsOK' /\ Apart' /\ ClearOK' /\ IsInjective(slabRecord)' /\ Way' = Way \union {k.obj}
  <2>1. Holds(op'[t]) \intersect Others(t) = {}  BY <1>2, <1>7, <1>9
  <2>2. OpsOK' /\ Apart' /\ ClearOK' /\ IsInjective(slabRecord)' /\ Way' = Others(t) \union Holds(op'[t])
    BY <1>3, <1>5, <1>6, <1>8, <1>9, <2>1, OpStep
  <2> QED BY <1>7, <1>9, <2>2
<1>11. Parted'
  <2>1. Parts(Given(heap), shared, DOMAIN slabRecord, Range(slabRecord), Way)  BY DEF SlabInv, Parted
  <2>2. Parts(Given(heap) \union {k.obj}, shared, DOMAIN slabRecord, Range(slabRecord), Way \union {k.obj})
    BY <1>2, <2>1, PartsAdd
  <2> QED BY <1>2, <1>3, <1>10, <2>2 DEF Parted
<1> QED BY <1>2, <1>3, <1>10, <1>11 DEF SlabInv
\* What an insertion or deletion does to the walks of the others.
LEMMA OvertakeIs ==
    ASSUME SlabInv, NEW t \in Caller, NEW o \in Object \union {NoObj}, NEW r \in Object \union {NoObj},
           Overtake(t, o, r)
    PROVE  /\ op' \in [Caller -> OpType]
           /\ op'[t] = [at |-> IF r = NoObj THEN "out" ELSE "freeRecord", obj |-> o, rec |-> r]
           /\ \A u \in Caller \ {t} : /\ Holds(op'[u]) = Holds(op[u]) /\ op'[u].obj = op[u].obj
                                      /\ \A T : OpOK(op[u], T) => OpOK(op'[u], T)
<1> DEFINE x == [at |-> IF r = NoObj THEN "out" ELSE "freeRecord", obj |-> o, rec |-> r]
           y(u) == [op[u] EXCEPT !.at = "overtaken"]
           f == [u \in Caller |-> CASE u = t -> x
                                    [] u # t /\ OpAt(u, "walk") -> y(u)
                                    [] OTHER -> op[u]]
<1>1. op' = f  BY DEF Overtake
<1>2. op'[t] = x  BY <1>1
<1>3. \A u \in Caller \ {t} : op'[u] = IF op[u].at = "walk" THEN y(u) ELSE op[u]  BY <1>1 DEF OpAt
<1>4. x \in OpType  BY DEF OpType
<1>5. ASSUME NEW u \in Caller \ {t}
      PROVE  /\ op'[u] \in OpType /\ Holds(op'[u]) = Holds(op[u]) /\ op'[u].obj = op[u].obj
             /\ \A T : OpOK(op[u], T) => OpOK(op'[u], T)
  <2>1. op[u] \in OpType  BY OpGiven
  <2>2. CASE op[u].at # "walk"
    <3>1. op'[u] = op[u]  BY <1>3, <2>2
    <3> QED BY <2>1, <3>1
  <2>3. CASE op[u].at = "walk"
    <3>1. op'[u] = y(u)  BY <1>3, <2>3
    <3>2. y(u) \in OpType /\ y(u).at = "overtaken" /\ y(u).obj = op[u].obj /\ y(u).rec = op[u].rec  BY <2>1 DEF OpType
    <3> HIDE DEF y
    <3>3. Holds(op[u]) = {} /\ Holds(op'[u]) = {}  BY <2>3, <3>1, <3>2 DEF Holds
    <3>4. \A T : OpOK(op[u], T) => OpOK(op'[u], T)  BY <2>3, <3>1, <3>2 DEF OpOK
    <3> QED BY <3>1, <3>2, <3>3, <3>4
  <2> QED BY <2>2, <2>3
<1>6. op' \in [Caller -> OpType]
  <2>1. \A u \in Caller : op'[u] \in OpType  BY <1>2, <1>4, <1>5
  <2>2. op' = [u \in Caller |-> op'[u]]  BY <1>1
  <2> QED BY <2>1, <2>2
<1> QED BY <1>2, <1>5, <1>6

\* The record goes into the tree.
LEMMA InsRecordStep ==
    ASSUME SlabInv, NEW t \in Caller, InsRecord(t)
    PROVE  SlabInv'
<1>1. PICK o, r : o = op[t].obj /\ r = op[t].rec  OBVIOUS
<1>2. /\ UNCHANGED <<heap, shared, clear, hung>> /\ op[t].at = "insRecord" /\ Overtake(t, NoObj, NoObj)
      /\ slabRecord' = [q \in DOMAIN slabRecord \union {o} |-> IF q = o THEN r ELSE slabRecord[q]]
  BY <1>1 DEF InsRecord, OpAt
<1>3. o \in Object /\ r \in Object /\ o # NoObj /\ r # NoObj /\ o # r /\ ~clear.on
  BY <1>1, <1>2, OpGiven, ObjectIs DEF OpOK, OpType
<1>4. Holds(op[t]) = {o, r}  BY <1>1, <1>2, <1>3 DEF Holds
<1>5. Way = Others(t) \union {o, r} /\ Others(t) \intersect {o, r} = {}  BY <1>4, GivenIs
<1>6. /\ op' \in [Caller -> OpType] /\ op'[t] = [at |-> "out", obj |-> NoObj, rec |-> NoObj]
      /\ \A u \in Caller \ {t} : /\ Holds(op'[u]) = Holds(op[u]) /\ op'[u].obj = op[u].obj
                                 /\ \A T : OpOK(op[u], T) => OpOK(op'[u], T)
  BY <1>2, OvertakeIs
<1>7. Holds(op'[t]) = {} /\ op'[t].obj = NoObj /\ OpOK(op'[t], DOMAIN slabRecord')
  <2>1. op'[t] \in OpType  BY <1>6
  <2> QED BY <1>6, <2>1 DEF Holds, OpOK
<1>8. Way' = Others(t) /\ Apart'  BY <1>2, <1>6, <1>7, WayStep
<1>9. Parts(Given(heap), shared, DOMAIN slabRecord, Range(slabRecord), Way)  BY DEF SlabInv, Parted
<1>10. o \notin DOMAIN slabRecord /\ r \notin Range(slabRecord)  BY <1>5, <1>9 DEF Parts
<1>11. DOMAIN slabRecord' = DOMAIN slabRecord \union {o} /\ Range(slabRecord') = Range(slabRecord) \union {r}
  <2>1. DOMAIN slabRecord' = DOMAIN slabRecord \union {o}  BY <1>2
  <2>2. slabRecord'[o] = r /\ \A q \in DOMAIN slabRecord : slabRecord'[q] = slabRecord[q]  BY <1>2, <1>10
  <2> QED BY <2>1, <2>2 DEF Range
<1>12. IsInjective(slabRecord')
  <2>1. \A q \in DOMAIN slabRecord : slabRecord[q] # r  BY <1>10 DEF Range
  <2>2. \A a, b \in DOMAIN slabRecord : slabRecord[a] = slabRecord[b] => a = b  BY DEF SlabInv, IsInjective
  <2> QED BY <1>2, <1>10, <2>1, <2>2 DEF IsInjective
<1>13. Parted'
  <2>1. Parts(Given(heap), shared, DOMAIN slabRecord \union {o}, Range(slabRecord) \union {r}, Way \ {o, r})
    BY <1>3, <1>5, <1>9, PartsMove
  <2>2. Way' = Way \ {o, r}  BY <1>5, <1>8
  <2> QED BY <1>2, <1>11, <2>1, <2>2 DEF Parted
<1>14. OpsOK'
  <2>1. \A u \in Caller : OpOK(op'[u], DOMAIN slabRecord')
    <3> SUFFICES ASSUME NEW u \in Caller \ {t} PROVE OpOK(op'[u], DOMAIN slabRecord')  BY <1>7
    <3>1. OpOK(op[u], DOMAIN slabRecord)  BY OpGiven
    <3>2. OpOK(op'[u], DOMAIN slabRecord)  BY <1>6, <3>1
    <3> QED BY <1>11, <3>2 DEF OpOK
  <2> QED BY <1>6, <2>1 DEF OpsOK
<1>15. ClearOK'  BY <1>2, <1>3 DEF SlabInv, ClearOK
<1> QED BY <1>2, <1>8, <1>12, <1>13, <1>14, <1>15 DEF SlabInv

\* A walk begins, and fails.
LEMMA WalkStep ==
    ASSUME SlabInv, NEW t \in Caller, NEW o \in DOMAIN slabRecord, Walk(t, o)
    PROVE  SlabInv'
<1>1. /\ UNCHANGED <<heap, shared, slabRecord, clear, hung>> /\ ~clear.on /\ op[t].at = "out"
      /\ \A u \in Caller : op[u].obj # o
      /\ op' = [op EXCEPT ![t] = [at |-> "walk", obj |-> o, rec |-> NoObj]]
  BY DEF Walk, OpGoto, OpAt
<1>2. o \in Object /\ o # NoObj  BY GivenIs
<1>3. /\ op \in [Caller -> OpType] /\ op' \in [Caller -> OpType] /\ \A u \in Caller \ {t} : op'[u] = op[u]
      /\ op'[t] = [at |-> "walk", obj |-> o, rec |-> NoObj]
  <2>1. op \in [Caller -> OpType]  BY DEF SlabInv, OpsOK
  <2>2. [at |-> "walk", obj |-> o, rec |-> NoObj] \in OpType  BY <1>2 DEF OpType
  <2> QED BY <1>1, <2>1, <2>2
<1>4. OpOK(op'[t], DOMAIN slabRecord) /\ Holds(op'[t]) = {}
  <2>1. op'[t] \in OpType  BY <1>3
  <2> QED BY <1>2, <1>3, <2>1 DEF OpOK, Holds
<1>5. Holds(op[t]) = {} /\ Way = Others(t)
  <2>1. Holds(op[t]) = {}  BY <1>1, OpGiven DEF OpOK, Holds
  <2> QED BY <2>1, GivenIs
<1>6. OpsOK' /\ Apart' /\ ClearOK' /\ IsInjective(slabRecord)' /\ Way' = Way
  BY <1>1, <1>3, <1>4, <1>5, OpStep
<1> QED BY <1>1, <1>6 DEF SlabInv, Parted

\* _delRecord does not find the object, which stays with its process.
LEMMA MissedStep ==
    ASSUME SlabInv, NEW t \in Caller, Missed(t)
    PROVE  SlabInv'
<1>1. /\ UNCHANGED <<heap, shared, slabRecord, clear, hung>> /\ op[t].at = "overtaken"
      /\ op' = [op EXCEPT ![t] = [at |-> "out", obj |-> NoObj, rec |-> NoObj]]
  BY DEF Missed, OpGoto, OpAt
<1>2. ~clear.on  BY <1>1, OpGiven
<1>3. /\ op \in [Caller -> OpType] /\ op' \in [Caller -> OpType] /\ \A u \in Caller \ {t} : op'[u] = op[u]
      /\ op'[t] = [at |-> "out", obj |-> NoObj, rec |-> NoObj]
  <2>1. op \in [Caller -> OpType]  BY DEF SlabInv, OpsOK
  <2>2. [at |-> "out", obj |-> NoObj, rec |-> NoObj] \in OpType  BY DEF OpType
  <2> QED BY <1>1, <2>1, <2>2
<1>4. OpOK(op'[t], DOMAIN slabRecord) /\ Holds(op'[t]) = {} /\ op'[t].obj = NoObj
  <2>1. op'[t] \in OpType  BY <1>3
  <2> QED BY <1>3, <2>1 DEF OpOK, Holds
<1>5. Holds(op[t]) = {} /\ Way = Others(t)
  <2>1. Holds(op[t]) = {}  BY <1>1 DEF Holds
  <2> QED BY <2>1, GivenIs
<1>6. OpsOK' /\ Apart' /\ ClearOK' /\ IsInjective(slabRecord)' /\ Way' = Way
  BY <1>1, <1>2, <1>3, <1>4, <1>5, OpStep
<1> QED BY <1>1, <1>6 DEF SlabInv, Parted

\* The tree without o.
LEMMA TreeLess ==
    ASSUME SlabInv, NEW o \in DOMAIN slabRecord, slabRecord' = Restrict(slabRecord, DOMAIN slabRecord \ {o})
    PROVE  /\ DOMAIN slabRecord' = DOMAIN slabRecord \ {o} /\ IsInjective(slabRecord')
           /\ Range(slabRecord') = Range(slabRecord) \ {slabRecord[o]} /\ slabRecord[o] \in Range(slabRecord)
<1>1. /\ DOMAIN slabRecord' = DOMAIN slabRecord \ {o}
      /\ \A q \in DOMAIN slabRecord' : slabRecord'[q] = slabRecord[q]
  BY DEF Restrict
<1>2. \A a, b \in DOMAIN slabRecord : slabRecord[a] = slabRecord[b] => a = b  BY DEF SlabInv, IsInjective
<1>3. IsInjective(slabRecord')  BY <1>1, <1>2 DEF IsInjective
<1>4. ASSUME NEW x PROVE x \in Range(slabRecord') <=> x \in Range(slabRecord) \ {slabRecord[o]}
  BY <1>1, <1>2 DEF Range
<1> QED BY <1>1, <1>3, <1>4 DEF Range

\* The record leaves the tree.
LEMMA DelRecordStep ==
    ASSUME SlabInv, NEW t \in Caller, DelRecord(t)
    PROVE  SlabInv'
<1>1. PICK o, r : o = op[t].obj /\ r = slabRecord[op[t].obj]  OBVIOUS
<1>2. /\ UNCHANGED <<heap, shared, clear, hung>> /\ op[t].at \in {"walk", "overtaken"} /\ Overtake(t, o, r)
      /\ slabRecord' = Restrict(slabRecord, DOMAIN slabRecord \ {o})
  BY <1>1 DEF DelRecord, OpAt
<1>3. o \in DOMAIN slabRecord /\ ~clear.on  BY <1>1, <1>2, OpGiven DEF OpOK
<1>4. /\ DOMAIN slabRecord' = DOMAIN slabRecord \ {o} /\ IsInjective(slabRecord')
      /\ Range(slabRecord') = Range(slabRecord) \ {r} /\ r \in Range(slabRecord)
  BY <1>1, <1>2, <1>3, TreeLess
<1>5. Parts(Given(heap), shared, DOMAIN slabRecord, Range(slabRecord), Way)  BY DEF SlabInv, Parted
<1>6. o \in Object /\ r \in Object /\ o # NoObj /\ r # NoObj /\ o # r /\ {o, r} \intersect Way = {}
  <2>1. o \in Given(heap) /\ r \in Given(heap)  BY <1>3, <1>4, GivenIs
  <2> QED BY <1>3, <1>4, <1>5, <2>1, GivenIs DEF Parts
<1>7. Holds(op[t]) = {} /\ Way = Others(t)
  <2>1. Holds(op[t]) = {}  BY <1>2 DEF Holds
  <2> QED BY <2>1, GivenIs
<1>8. /\ op' \in [Caller -> OpType] /\ op'[t] = [at |-> "freeRecord", obj |-> o, rec |-> r]
      /\ \A u \in Caller \ {t} : /\ Holds(op'[u]) = Holds(op[u]) /\ op'[u].obj = op[u].obj
                                 /\ \A T : OpOK(op[u], T) => OpOK(op'[u], T)
  BY <1>2, <1>6, OvertakeIs
<1>9. Holds(op'[t]) = {o, r} /\ op'[t].obj = o /\ OpOK(op'[t], DOMAIN slabRecord')
  <2>1. op'[t] \in OpType  BY <1>8
  <2> QED BY <1>6, <1>8, <2>1 DEF Holds, OpOK
<1>10. \A u \in Caller \ {t} : op[u].obj # o  BY <1>1, <1>6 DEF SlabInv, Apart
<1>11. Way' = Way \union {o, r} /\ Apart'  BY <1>2, <1>6, <1>7, <1>8, <1>9, <1>10, WayStep
<1>12. Parted'
  <2>1. Parts(Given(heap), shared, DOMAIN slabRecord \ {o}, Range(slabRecord) \ {r}, Way \union {o, r})
    BY <1>3, <1>4, <1>5, <1>6, PartsMove
  <2> QED BY <1>2, <1>4, <1>11, <2>1 DEF Parted
<1>13. OpsOK'
  <2>1. \A u \in Caller : OpOK(op'[u], DOMAIN slabRecord')
    <3> SUFFICES ASSUME NEW u \in Caller \ {t} PROVE OpOK(op'[u], DOMAIN slabRecord')  BY <1>9
    <3>1. OpOK(op[u], DOMAIN slabRecord)  BY OpGiven
    <3>2. OpOK(op'[u], DOMAIN slabRecord) /\ op'[u].obj # o  BY <1>8, <1>10, <3>1
    <3> QED BY <1>4, <3>2 DEF OpOK
  <2> QED BY <1>8, <2>1 DEF OpsOK
<1>14. ClearOK'  BY <1>2, <1>3 DEF SlabInv, ClearOK
<1> QED BY <1>2, <1>4, <1>11, <1>12, <1>13, <1>14 DEF SlabInv
\* The record and the object are freed.
LEMMA FreeRecordStep ==
    ASSUME SlabInv, NEW t \in Caller, FreeRecord(t)
    PROVE  SlabInv'
<1>1. PICK o, r : o = op[t].obj /\ r = op[t].rec  OBVIOUS
<1>2. /\ heap' = Kfree(heap, r) /\ UNCHANGED <<shared, slabRecord, clear, hung>> /\ op[t].at = "freeRecord"
      /\ op' = [op EXCEPT ![t] = [at |-> "freeObject", obj |-> o, rec |-> NoObj]]
  BY <1>1 DEF FreeRecord, OpGoto, OpAt
<1>3. o \in Object /\ r \in Object /\ o # NoObj /\ r # NoObj /\ o # r /\ ~clear.on
  BY <1>1, <1>2, OpGiven, ObjectIs DEF OpOK, OpType
<1>4. Way = Others(t) \union {o, r} /\ Others(t) \intersect {o, r} = {} /\ Way \subseteq Given(heap)
  <2>1. Holds(op[t]) = {o, r}  BY <1>1, <1>2, <1>3 DEF Holds
  <2> QED BY <2>1, GivenIs
<1>5. Good(heap', {}) /\ Given(heap') = Given(heap) \ {r}
  <2>1. Good(heap, {}) /\ r \in Given(heap)  BY <1>4 DEF SlabInv
  <2>2. Good(Kfree(heap, r), {}) /\ Given(Kfree(heap, r)) = Given(heap) \ {r}  BY <2>1, KfreeIs
  <2> QED BY <1>2, <2>2
<1>6. /\ op \in [Caller -> OpType] /\ op' \in [Caller -> OpType] /\ \A u \in Caller \ {t} : op'[u] = op[u]
      /\ op'[t] = [at |-> "freeObject", obj |-> o, rec |-> NoObj]
  <2>1. op \in [Caller -> OpType]  BY DEF SlabInv, OpsOK
  <2>2. [at |-> "freeObject", obj |-> o, rec |-> NoObj] \in OpType  BY <1>3 DEF OpType
  <2> QED BY <1>2, <2>1, <2>2
<1>7. OpOK(op'[t], DOMAIN slabRecord) /\ Holds(op'[t]) = {o} /\ op'[t].obj = o
  <2>1. op'[t] \in OpType  BY <1>6
  <2> QED BY <1>3, <1>6, <2>1 DEF OpOK, Holds
<1>8. \A u \in Caller \ {t} : op[u].obj # o  BY <1>1, <1>3 DEF SlabInv, Apart
<1>9. OpsOK' /\ Apart' /\ ClearOK' /\ IsInjective(slabRecord)' /\ Way' = Way \ {r}
  <2>1. Holds(op'[t]) \intersect Others(t) = {}  BY <1>4, <1>7
  <2>2. OpsOK' /\ Apart' /\ ClearOK' /\ IsInjective(slabRecord)' /\ Way' = Others(t) \union Holds(op'[t])
    BY <1>2, <1>3, <1>6, <1>7, <1>8, <2>1, OpStep
  <2> QED BY <1>3, <1>4, <1>7, <2>2
<1>10. Parted'
  <2>1. Parts(Given(heap), shared, DOMAIN slabRecord, Range(slabRecord), Way)  BY DEF SlabInv, Parted
  <2>2. Parts(Given(heap) \ {r}, shared, DOMAIN slabRecord, Range(slabRecord), Way \ {r})
    BY <1>4, <2>1, PartsAdd
  <2> QED BY <1>2, <1>5, <1>9, <2>2 DEF Parted
<1> QED BY <1>2, <1>5, <1>9, <1>10 DEF SlabInv

\* mm_kfree gives the object back once its record is gone.
LEMMA FreeObjectStep ==
    ASSUME SlabInv, NEW t \in Caller, FreeObject(t)
    PROVE  SlabInv'
<1>1. PICK o : o = op[t].obj  OBVIOUS
<1>2. /\ heap' = Kfree(heap, o) /\ UNCHANGED <<shared, slabRecord, clear, hung>> /\ op[t].at = "freeObject"
      /\ op' = [op EXCEPT ![t] = [at |-> "out", obj |-> NoObj, rec |-> NoObj]]
  BY <1>1 DEF FreeObject, OpGoto, OpAt
<1>3. o \in Object /\ o # NoObj /\ op[t].rec = NoObj /\ ~clear.on
  BY <1>1, <1>2, OpGiven DEF OpOK, OpType
<1>4. Way = Others(t) \union {o} /\ o \notin Others(t) /\ Way \subseteq Given(heap)
  <2>1. Holds(op[t]) = {o}  BY <1>1, <1>2, <1>3 DEF Holds
  <2> QED BY <2>1, GivenIs
<1>5. Good(heap', {}) /\ Given(heap') = Given(heap) \ {o}
  <2>1. Good(heap, {}) /\ o \in Given(heap)  BY <1>4 DEF SlabInv
  <2>2. Good(Kfree(heap, o), {}) /\ Given(Kfree(heap, o)) = Given(heap) \ {o}  BY <2>1, KfreeIs
  <2> QED BY <1>2, <2>2
<1>6. /\ op \in [Caller -> OpType] /\ op' \in [Caller -> OpType] /\ \A u \in Caller \ {t} : op'[u] = op[u]
      /\ op'[t] = [at |-> "out", obj |-> NoObj, rec |-> NoObj]
  <2>1. op \in [Caller -> OpType]  BY DEF SlabInv, OpsOK
  <2>2. [at |-> "out", obj |-> NoObj, rec |-> NoObj] \in OpType  BY DEF OpType
  <2> QED BY <1>2, <2>1, <2>2
<1>7. OpOK(op'[t], DOMAIN slabRecord) /\ Holds(op'[t]) = {} /\ op'[t].obj = NoObj
  <2>1. op'[t] \in OpType  BY <1>6
  <2> QED BY <1>6, <2>1 DEF OpOK, Holds
<1>8. OpsOK' /\ Apart' /\ ClearOK' /\ IsInjective(slabRecord)' /\ Way' = Way \ {o}
  <2>1. OpsOK' /\ Apart' /\ ClearOK' /\ IsInjective(slabRecord)' /\ Way' = Others(t) \union Holds(op'[t])
    BY <1>2, <1>3, <1>6, <1>7, OpStep
  <2> QED BY <1>4, <1>7, <2>1
<1>9. Parted'
  <2>1. Parts(Given(heap), shared, DOMAIN slabRecord, Range(slabRecord), Way)  BY DEF SlabInv, Parted
  <2>2. Parts(Given(heap) \ {o}, shared, DOMAIN slabRecord, Range(slabRecord), Way \ {o})
    BY <1>4, <2>1, PartsAdd
  <2> QED BY <1>2, <1>5, <1>8, <2>2 DEF Parted
<1> QED BY <1>2, <1>5, <1>8, <1>9 DEF SlabInv

\* The records of a process that has ended.
LEMMA StartClearStep ==
    ASSUME SlabInv, StartClear
    PROVE  SlabInv'
<1>1. /\ UNCHANGED <<heap, shared, slabRecord, op, hung>> /\ ~clear.on /\ \A t \in Caller : op[t].at = "out"
      /\ clear' = [on |-> TRUE, rec |-> NoObj]
  BY DEF StartClear, OpAt
<1>2. clear.rec = NoObj  BY <1>1 DEF SlabInv, ClearOK
<1>3. Way' = Way  BY <1>1, <1>2 DEF Way
<1>4. ClearOK'  BY <1>1 DEF ClearOK
<1>5. OpsOK' /\ Apart' /\ Parted'  BY <1>1, <1>3 DEF SlabInv, OpsOK, Apart, Parted
<1> QED BY <1>1, <1>4, <1>5 DEF SlabInv

\* No thread of the process is left.
LEMMA NobodyLeft ==
    ASSUME SlabInv, clear.on
    PROVE  /\ \A t \in Caller : op[t].at = "out" /\ op[t].obj = NoObj /\ Holds(op[t]) = {}
           /\ \A T : \A t \in Caller : OpOK(op[t], T)
           /\ Way = {clear.rec} \ {NoObj}
<1>1. ASSUME NEW t \in Caller
      PROVE  op[t].at = "out" /\ op[t].obj = NoObj /\ Holds(op[t]) = {} /\ \A T : OpOK(op[t], T)
  <2>1. op[t].at = "out"  BY DEF SlabInv, ClearOK
  <2> QED BY <2>1, OpGiven DEF OpOK, Holds
<1>2. Way = {clear.rec} \ {NoObj}
  <2> DEFINE U == UNION {Holds(op[t]) : t \in Caller}
  <2>1. U = {}  BY <1>1
  <2>2. Way = U \union ({clear.rec} \ {NoObj})  BY DEF Way
  <2> HIDE DEF U
  <2> QED BY <2>1, <2>2
<1> QED BY <1>1, <1>2

\* mm_slab_clear gives an object back and keeps its node for the next step.
LEMMA ClearObjectStep ==
    ASSUME SlabInv, NEW o \in DOMAIN slabRecord, ClearObject(o)
    PROVE  SlabInv'
<1>1. PICK r : r = slabRecord[o]  OBVIOUS
<1>2. /\ heap' = Kfree(heap, o) /\ UNCHANGED <<shared, op, hung>> /\ clear = [on |-> TRUE, rec |-> NoObj]
      /\ clear' = [clear EXCEPT !.rec = r] /\ slabRecord' = Restrict(slabRecord, DOMAIN slabRecord \ {o})
  BY <1>1 DEF ClearObject
<1>3. clear.on /\ clear.rec = NoObj /\ clear' = [on |-> TRUE, rec |-> r]  BY <1>2
<1>4. /\ \A t \in Caller : op[t].at = "out" /\ op[t].obj = NoObj /\ Holds(op[t]) = {}
      /\ \A T : \A t \in Caller : OpOK(op[t], T)
      /\ Way = {}
  BY <1>3, NobodyLeft
<1>5. /\ DOMAIN slabRecord' = DOMAIN slabRecord \ {o} /\ IsInjective(slabRecord')
      /\ Range(slabRecord') = Range(slabRecord) \ {r} /\ r \in Range(slabRecord)
  BY <1>1, <1>2, TreeLess
<1>6. Parts(Given(heap), shared, DOMAIN slabRecord, Range(slabRecord), Way)  BY DEF SlabInv, Parted
<1>7. o \in Given(heap) /\ r \in Given(heap) /\ r \in Object /\ r # NoObj /\ o # r
  BY <1>5, <1>6, GivenIs DEF Parts
<1>8. Way' = {r}
  <2> DEFINE U == UNION {Holds(op[t]) : t \in Caller}
  <2>1. Way' = U \union ({r} \ {NoObj})  BY <1>2, <1>3 DEF Way
  <2>2. U = {}  BY <1>4
  <2> HIDE DEF U
  <2> QED BY <1>7, <2>1, <2>2
<1>9. Good(heap', {}) /\ Given(heap') = Given(heap) \ {o}
  <2>1. Good(heap, {})  BY DEF SlabInv
  <2>2. Good(Kfree(heap, o), {}) /\ Given(Kfree(heap, o)) = Given(heap) \ {o}  BY <1>7, <2>1, KfreeIs
  <2> QED BY <1>2, <2>2
<1>10. Parted'
  <2>1. Parts(Given(heap) \ {o}, shared, DOMAIN slabRecord \ {o}, Range(slabRecord) \ {r}, {r})
    BY <1>4, <1>5, <1>6, <1>7 DEF Parts
  <2> QED BY <1>2, <1>5, <1>8, <1>9, <2>1 DEF Parted
<1>11. OpsOK' /\ Apart'  BY <1>2, <1>4 DEF SlabInv, OpsOK, Apart
<1>12. ClearOK'  BY <1>2, <1>3, <1>4, <1>7 DEF ClearOK
<1> QED BY <1>2, <1>5, <1>9, <1>10, <1>11, <1>12 DEF SlabInv

\* mm_slab_clear gives back the node of the object before.
LEMMA ClearRecordStep ==
    ASSUME SlabInv, ClearRecord
    PROVE  SlabInv'
<1>1. PICK r : r = clear.rec  OBVIOUS
<1>2. /\ heap' = Kfree(heap, r) /\ UNCHANGED <<shared, slabRecord, op, hung>> /\ r # NoObj
      /\ clear' = [clear EXCEPT !.rec = NoObj]
  BY <1>1 DEF ClearRecord
<1>3. clear.on /\ clear' = [on |-> TRUE, rec |-> NoObj]
  <2>1. clear \in [on : BOOLEAN, rec : Object \union {NoObj}] /\ clear.on  BY <1>1, <1>2 DEF SlabInv, ClearOK
  <2>2. clear = [on |-> clear.on, rec |-> clear.rec]  BY <2>1
  <2>3. clear.on = TRUE  BY <2>1
  <2> QED BY <1>2, <2>2, <2>3
<1>4. /\ \A t \in Caller : op[t].at = "out" /\ op[t].obj = NoObj /\ Holds(op[t]) = {}
      /\ Way = {r}
  BY <1>1, <1>2, <1>3, NobodyLeft
<1>5. r \in Given(heap)  BY <1>4, GivenIs
<1>6. Way' = {}
  <2>1. Way' = (UNION {Holds(op[t]) : t \in Caller}) \union ({NoObj} \ {NoObj})  BY <1>2, <1>3 DEF Way
  <2> QED BY <1>4, <2>1
<1>7. Good(heap', {}) /\ Given(heap') = Given(heap) \ {r}
  <2>1. Good(heap, {})  BY DEF SlabInv
  <2>2. Good(Kfree(heap, r), {}) /\ Given(Kfree(heap, r)) = Given(heap) \ {r}  BY <1>5, <2>1, KfreeIs
  <2> QED BY <1>2, <2>2
<1>8. Parted'
  <2>1. Parts(Given(heap), shared, DOMAIN slabRecord, Range(slabRecord), {r})  BY <1>4 DEF SlabInv, Parted
  <2>2. Parts(Given(heap) \ {r}, shared, DOMAIN slabRecord, Range(slabRecord), {})  BY <2>1 DEF Parts
  <2> QED BY <1>2, <1>6, <1>7, <2>2 DEF Parted
<1>9. OpsOK' /\ Apart'  BY <1>2, <1>4 DEF SlabInv, OpsOK, Apart
<1>10. ClearOK'  BY <1>2, <1>3, <1>4 DEF ClearOK
<1> QED BY <1>2, <1>7, <1>8, <1>9, <1>10 DEF SlabInv

-----------------------------------------------------------------------------
(* The invariant, and what follows from it. *)

\* The invariant holds initially.
LEMMA SlabInitInv == SlabInit => SlabInv
<1> SUFFICES ASSUME SlabInit PROVE SlabInv  OBVIOUS
<1>1. /\ heap = BootHeap /\ shared = {} /\ slabRecord = <<>> /\ hung = FALSE
      /\ op = [t \in Caller |-> [at |-> "out", obj |-> NoObj, rec |-> NoObj]]
      /\ clear = [on |-> FALSE, rec |-> NoObj]
  BY DEF SlabInit
<1>2. Good(heap, {}) /\ Given(heap) = {}  BY <1>1, BootIs
<1>3. DOMAIN slabRecord = {} /\ Range(slabRecord) = {} /\ IsInjective(slabRecord)
  BY <1>1 DEF Range, IsInjective
<1>4. ASSUME NEW t \in Caller
      PROVE  op[t] \in OpType /\ op[t].obj = NoObj /\ Holds(op[t]) = {} /\ OpOK(op[t], {})
  <2>1. op[t] = [at |-> "out", obj |-> NoObj, rec |-> NoObj]  BY <1>1
  <2>2. op[t] \in OpType  BY <2>1 DEF OpType
  <2> QED BY <2>1, <2>2 DEF Holds, OpOK
<1>5. OpsOK
  <2>1. op \in [Caller -> OpType]  BY <1>1, <1>4
  <2> QED BY <1>3, <1>4, <2>1 DEF OpsOK
<1>6. Apart  BY <1>4 DEF Apart
<1>7. ClearOK  BY <1>1 DEF ClearOK
<1>8. Way = {}  BY <1>1, <1>4 DEF Way
<1>9. Parted  BY <1>1, <1>2, <1>3, <1>8 DEF Parted, Parts
<1> QED BY <1>1, <1>2, <1>3, <1>5, <1>6, <1>7, <1>9 DEF SlabInv

\* Every step preserves it.
LEMMA SlabNextInv == SlabInv /\ [SlabNext]_slabVars => SlabInv'
<1> SUFFICES ASSUME SlabInv, [SlabNext]_slabVars PROVE SlabInv'  OBVIOUS
<1>1. ASSUME NEW t \in Caller, NEW c \in Class, AllocShared(t, c) PROVE SlabInv'  BY <1>1, AllocSharedStep
<1>2. ASSUME NEW t \in Caller, AllocPrivate(t) PROVE SlabInv'  BY <1>2, AllocPrivateStep
<1>3. ASSUME NEW t \in Caller, NEW o \in shared, FreeShared(t, o) PROVE SlabInv'  BY <1>3, FreeSharedStep
<1>4. ASSUME NEW t \in Caller, AllocRecord(t) PROVE SlabInv'  BY <1>4, AllocRecordStep
<1>5. ASSUME NEW t \in Caller, InsRecord(t) PROVE SlabInv'  BY <1>5, InsRecordStep
<1>6. ASSUME NEW t \in Caller, NEW o \in DOMAIN slabRecord, Walk(t, o) PROVE SlabInv'  BY <1>6, WalkStep
<1>7. ASSUME NEW t \in Caller, Missed(t) PROVE SlabInv'  BY <1>7, MissedStep
<1>8. ASSUME NEW t \in Caller, DelRecord(t) PROVE SlabInv'  BY <1>8, DelRecordStep
<1>9. ASSUME NEW t \in Caller, FreeRecord(t) PROVE SlabInv'  BY <1>9, FreeRecordStep
<1>10. ASSUME NEW t \in Caller, FreeObject(t) PROVE SlabInv'  BY <1>10, FreeObjectStep
<1>11. ASSUME NEW t \in Caller, Hang(t) PROVE SlabInv'
  <2>1. UNCHANGED <<heap, shared, slabRecord, op, clear>> /\ hung' = TRUE  BY <1>11 DEF Hang
  <2> QED BY <2>1 DEF SlabInv, OpsOK, Apart, ClearOK, Parted, Way
<1>12. CASE StartClear  BY <1>12, StartClearStep
<1>13. ASSUME NEW o \in DOMAIN slabRecord, ClearObject(o) PROVE SlabInv'  BY <1>13, ClearObjectStep
<1>14. CASE ClearRecord  BY <1>14, ClearRecordStep
<1>15. CASE UNCHANGED slabVars  BY <1>15 DEF slabVars, SlabInv, OpsOK, Apart, ClearOK, Parted, Way
<1> QED BY <1>1, <1>2, <1>3, <1>4, <1>5, <1>6, <1>7, <1>8, <1>9, <1>10, <1>11, <1>12, <1>13, <1>14, <1>15
        DEF SlabNext

\* The invariant holds.
LEMMA SlabInvariant == SlabSpec => []SlabInv
BY SlabInitInv, SlabNextInv, PTL DEF SlabSpec
\* Sizes of sets that share no member.
LEMMA SizesAdd ==
    ASSUME NEW A, NEW B, IsFiniteSet(A), IsFiniteSet(B), A \intersect B = {}
    PROVE  IsFiniteSet(A \union B) /\ Cardinality(A \union B) = Cardinality(A) + Cardinality(B)
           /\ Cardinality(A) \in Nat /\ Cardinality(B) \in Nat
<1>1. Cardinality(A) \in Nat /\ Cardinality(B) \in Nat  BY FS_CardinalityType
<1>2. Cardinality(A \intersect B) = 0
  <2>1. Cardinality({}) = 0  BY FS_EmptySet
  <2> QED BY ONLY A \intersect B = {}, <2>1, Zenon
<1>3. /\ IsFiniteSet(A \union B)
      /\ Cardinality(A \union B) = Cardinality(A) + Cardinality(B) - Cardinality(A \intersect B)
  BY FS_Union
<1> QED BY <1>1, <1>2, <1>3

\* A record belongs to one object.
LEMMA AsManyRecords ==
    ASSUME NEW f, IsInjective(f), IsFiniteSet(DOMAIN f)
    PROVE  IsFiniteSet(Range(f)) /\ Cardinality(Range(f)) = Cardinality(DOMAIN f)
<1> DEFINE D == DOMAIN f
           R == Range(f)
           g == [x \in D |-> f[x]]
<1>1. \A x, y \in D : f[x] = f[y] => x = y  BY DEF IsInjective
<1>2. g \in [D -> R] /\ \A x, y \in D : g[x] = g[y] => x = y  BY <1>1 DEF Range
<1>3. \A y \in R : \E x \in D : g[x] = y  BY DEF Range
<1>4. g \in Bijection(D, R)
  <2> HIDE DEF g, R
  <2> QED BY <1>2, <1>3 DEF Bijection, Injection, Surjection, IsInjective
<1>5. ExistsBijection(D, R)  BY <1>4 DEF ExistsBijection
<1> QED BY <1>5, FS_Bijection

\* What the properties are made of.
LEMMA SlabMeans == SlabInv => SlabTypeOK /\ Counters /\ Owned /\ OneSpare
<1> SUFFICES ASSUME SlabInv PROVE SlabTypeOK /\ Counters /\ Owned /\ OneSpare  OBVIOUS
<1>1. Lists(heap, {}) /\ BlocksOK(heap) /\ Counted(heap) /\ Lone(heap) /\ Good(heap, {})  BY DEF SlabInv, Good
<1>2. /\ Blocks = ToSet(heap.list["small"]) \union ToSet(heap.list["large"])
      /\ Blocks = Page \ heap.pages /\ heap.pages \subseteq Page
      /\ heap.list \in [Class -> Seq(Page)]
  BY <1>1 DEF Lists, Blocks
<1>3. \A p \in Blocks : \E c \in Class : BlkOK(heap.blk[p], c)  BY <1>1, <1>2 DEF BlocksOK, Class
<1>4. SlabTypeOK
  <2>1. heap.pages = Page \ Blocks  BY <1>2
  <2>2. \A p \in Blocks : heap.blk[p].map \subseteq 0 .. heap.blk[p].cols - 1  BY <1>3 DEF BlkOK
  <2>3. shared \subseteq Object /\ DOMAIN slabRecord \subseteq Object /\ Range(slabRecord) \subseteq Object  BY GivenIs
  <2>4. op \in [Caller -> OpType]  BY DEF SlabInv, OpsOK
  <2>5. clear \in [on : BOOLEAN, rec : Object \union {NoObj}] /\ hung \in BOOLEAN  BY DEF SlabInv, ClearOK
  <2> QED BY <1>2, <2>1, <2>2, <2>3, <2>4, <2>5 DEF SlabTypeOK, OpType
<1>5. Counters
  <2>1. \A p \in Blocks : /\ heap.blk[p].using = Cardinality(heap.blk[p].map)
                          /\ heap.blk[p].using + heap.blk[p].free = heap.blk[p].cols
    BY <1>3 DEF BlkOK
  <2> QED BY <1>1, <2>1 DEF Counters, Counted
<1>6. OneSpare
  <2> SUFFICES ASSUME NEW c \in Class
               PROVE  /\ heap.list[c] # <<>> /\ IsInjective(heap.list[c])
                      /\ Cardinality({p \in ToSet(heap.list[c]) : heap.blk[p].map = {}}) <= 1
    BY DEF OneSpare
  <2> DEFINE E == {p \in ToSet(heap.list[c]) : heap.blk[p].map = {}}
  <2>1. \A p, q \in E : p = q  BY <1>1 DEF Lone
  <2> HIDE DEF E
  <2>2. Cardinality(E) <= 1
    <3>1. E = {} => Cardinality(E) = 0  BY FS_EmptySet
    <3>2. E # {} => Cardinality(E) = 1
      <4> SUFFICES ASSUME E # {} PROVE Cardinality(E) = 1  OBVIOUS
      <4>1. PICK p : p \in E  OBVIOUS
      <4>2. E = {p}  BY <2>1, <4>1
      <4> QED BY <4>2, FS_Singleton
    <3> QED BY <3>1, <3>2
  <2>3. heap.list[c] # <<>> /\ IsInjective(heap.list[c])  BY <1>1 DEF Lists
  <2> QED BY <2>2, <2>3 DEF E
<1>7. Owned
  <2> DEFINE used    == {o \in Object : o[1] \in Blocks /\ o[2] \in heap.blk[o[1]].map}
             structs == {heap.blk[p].struct : p \in Blocks} \ {NoObj}
             holding == {t \in Caller : ~(OpAt(t, "walk") \/ OpAt(t, "overtaken"))}
             way     == ((UNION {{op[t].obj, op[t].rec} : t \in holding}) \union {clear.rec}) \ {NoObj}
             D       == DOMAIN slabRecord
             R       == Range(slabRecord)
  <2>1. used = Used(heap)  BY <1>2 DEF Used, UsedCols
  <2>2. structs = Structs(heap)  BY DEF Structs, Blocks
  <2>3. way = Way
    <3> SUFFICES ASSUME NEW x PROVE x \in way <=> x \in Way  OBVIOUS
    <3>1. x \in Way <=> (\E t \in Caller : x \in Holds(op[t])) \/ (x = clear.rec /\ x # NoObj)  BY DEF Way
    <3>2. \A t \in Caller : x \in Holds(op[t]) <=> t \in holding /\ x \in {op[t].obj, op[t].rec} /\ x # NoObj
      BY DEF Holds, OpAt
    <3>3. x \in way <=> ((\E t \in holding : x \in {op[t].obj, op[t].rec}) \/ x = clear.rec) /\ x # NoObj  OBVIOUS
    <3>4. \A t \in holding : t \in Caller  OBVIOUS
    <3> HIDE DEF way, holding
    <3> QED BY <3>1, <3>2, <3>3, <3>4
  <2>4. Owned <=> /\ used = shared \union (D \union R) \union way \union structs
                  /\ Cardinality(used) = Cardinality(shared) + 2 * Cardinality(D)
                                           + Cardinality(way) + Cardinality(structs)
    BY DEF Owned
  <2> HIDE DEF used, structs, way, D, R
  <2>5. Structs(heap) \subseteq Used(heap) /\ Used(heap) \subseteq Object
    <3>1. Structs(heap) \subseteq UsedCols(heap, "small")  BY <1>1, StructsUsed
    <3> QED BY <3>1 DEF Used, UsedCols
  <2>6. Parts(Given(heap), shared, D, R, way)  BY <2>3 DEF SlabInv, Parted, D, R
  <2>7. /\ used = shared \union (D \union R) \union way \union structs
        /\ shared \intersect (D \union R \union way) = {} /\ D \intersect (R \union way) = {} /\ R \intersect way = {}
        /\ structs \intersect (shared \union D \union R \union way) = {} /\ used \subseteq Object
    BY <2>1, <2>2, <2>5, <2>6 DEF Parts, Given
  <2>8. /\ IsFiniteSet(shared) /\ IsFiniteSet(D) /\ IsFiniteSet(R) /\ IsFiniteSet(way) /\ IsFiniteSet(structs)
    <3>1. /\ shared \subseteq Object /\ D \subseteq Object /\ R \subseteq Object /\ way \subseteq Object
          /\ structs \subseteq Object
      BY <2>7
    <3> QED BY <3>1, ObjectIs, FS_Subset
  <2>9. Cardinality(R) = Cardinality(D)  BY <2>8, AsManyRecords DEF SlabInv, D, R
  <2>10. /\ IsFiniteSet(R \union way) /\ Cardinality(R \union way) = Cardinality(R) + Cardinality(way)
         /\ Cardinality(R) \in Nat /\ Cardinality(way) \in Nat
    BY <2>7, <2>8, SizesAdd
  <2>11. /\ IsFiniteSet(D \union (R \union way))
         /\ Cardinality(D \union (R \union way)) = Cardinality(D) + Cardinality(R \union way)
    BY <2>7, <2>8, <2>10, SizesAdd
  <2>12. /\ IsFiniteSet(shared \union (D \union (R \union way)))
         /\ Cardinality(shared \union (D \union (R \union way))) = Cardinality(shared) + Cardinality(D \union (R \union way))
         /\ Cardinality(shared) \in Nat
    <3>1. shared \intersect (D \union (R \union way)) = {}  BY <2>7
    <3> QED BY <2>8, <2>11, <3>1, SizesAdd
  <2>13. /\ Cardinality(structs \union (shared \union (D \union (R \union way))))
               = Cardinality(structs) + Cardinality(shared \union (D \union (R \union way)))
         /\ Cardinality(structs) \in Nat
    <3>1. structs \intersect (shared \union (D \union (R \union way))) = {}  BY <2>7
    <3> QED BY <2>8, <2>12, <3>1, SizesAdd
  <2>14. used = structs \union (shared \union (D \union (R \union way)))  BY <2>7
  <2>15. Cardinality(used) = Cardinality(shared) + 2 * Cardinality(D) + Cardinality(way) + Cardinality(structs)
    BY <2>9, <2>10, <2>11, <2>12, <2>13, <2>14
  <2> QED BY <2>4, <2>7, <2>15
<1> QED BY <1>4, <1>5, <1>6, <1>7

(***************************************************************************)
(* The allocator's variables keep their types: the free pages are those in *)
(* no block, and a bitmap has no bit beyond its block's columns.           *)
(***************************************************************************)
THEOREM SlabTyped == SlabSpec => []SlabTypeOK
BY SlabInvariant, SlabMeans, PTL

(***************************************************************************)
(* The counters of every block and class are right, so that _kmalloc finds *)
(* the free column that slab.freeCnt promises.                             *)
(***************************************************************************)
THEOREM CountersAgree == SlabSpec => []Counters
BY SlabInvariant, SlabMeans, PTL

(***************************************************************************)
(* Every column in use has one owner, in whatever order the threads of a   *)
(* process walk, insert, delete, free and end: mm_kmalloc hands nothing    *)
(* out twice, and mm_kfree and mm_slab_clear lose nothing.                 *)
(***************************************************************************)
THEOREM ColumnsOwned == SlabSpec => []Owned
BY SlabInvariant, SlabMeans, PTL

(***************************************************************************)
(* A class keeps a block and hoards at most one empty one, for any sizes   *)
(* of blocks of which the one at boot is at most twice the others: the     *)
(* test with colCnt * 3 / 2 is enough.                                     *)
(***************************************************************************)
THEOREM HoardsOne == SlabSpec => []OneSpare
BY SlabInvariant, SlabMeans, PTL
=============================================================================
