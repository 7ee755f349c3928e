---------------------------- MODULE ResourceProof ----------------------------
(***************************************************************************)
(* Proofs about what the kernel hands out: regions of memory (MemMap), for *)
(* every size of the user's half and of a large page; interrupt vectors    *)
(* (IntrVec), for every number of CPUs, vectors and drivers, whatever each *)
(* asks for; ports and slots (XhciDevice), for every number of devices,    *)
(* slots, plugs and waiting events; and the bits of a report (HidParser),  *)
(* for every limit of the parser and descriptors of any length.            *)
(***************************************************************************)
EXTENDS MemMap, IntrVec, XhciDevice, HidParser, DataLemmas

-----------------------------------------------------------------------------
\* Align rounds up, to at least what it is given.
LEMMA AlignUp ==
    ASSUME NEW a \in Nat, NEW unit \in Nat \ {0}
    PROVE  Align(a, unit) \in Nat /\ Align(a, unit) >= a
<1> DEFINE q == (a + unit - 1) \div unit
<1>1. q \in Nat  OBVIOUS
<1>2. a + unit - 1 < (q + 1) * unit  OBVIOUS
<1> HIDE DEF q
<1>3. (q + 1) * unit = q * unit + unit  BY <1>1
<1>4. q * unit \in Nat  BY <1>1
<1>5. q * unit >= a  BY <1>2, <1>3, <1>4
<1>6. Align(a, unit) = q * unit  BY DEF Align, q
<1> QED BY <1>4, <1>5, <1>6

-----------------------------------------------------------------------------
(* The search. *)

Region == [st : 0 .. End, ed : 0 .. End]

\* A map as mm_mmap keeps it: regions in the user's half that do not overlap.
Apart(map) ==
    /\ map \subseteq Region
    /\ \A b \in map : b.st < b.ed
    /\ \A b, o \in map : b # o => b.ed <= o.st \/ o.ed <= b.st

Overlaps(b, a, size) == b.st < a + size /\ a < b.ed

\* Fits tells, from one region, whether [a, a + size) is free.
LEMMA FitsIsFree ==
    ASSUME Apart(mapTr), NEW a \in Nat, NEW size \in Nat \ {0}
    PROVE  Fits(a, size) <=> \A b \in mapTr : ~Overlaps(b, a, size)
<1> USE MemMapAssumption
<1> DEFINE above == {b \in mapTr : b.ed > a}
<1>1. \A b \in mapTr : b.st \in 0 .. End /\ b.ed \in 0 .. End /\ b.st < b.ed
  BY DEF Apart, Region
<1>2. FindMap(a) = {b \in above : \A o \in above : b.ed <= o.ed}  BY DEF FindMap
<1>3. ASSUME Fits(a, size), NEW o \in mapTr PROVE ~Overlaps(o, a, size)
  <2> SUFFICES ASSUME o.ed > a PROVE o.st >= a + size  BY <1>1 DEF Overlaps
  <2> DEFINE E == {b.ed : b \in above}
  <2>1. E \in SUBSET Nat /\ E # {}  BY <1>1
  <2>2. PICK e \in E : \A y \in E : e <= y  BY <2>1, LeastOf
  <2>3. PICK b \in above : b.ed = e  OBVIOUS
  <2>4. b \in FindMap(a)  BY <1>2, <2>2, <2>3
  <2>5. b.st >= a + size  BY <1>3, <2>4 DEF Fits
  <2>6. CASE o = b  BY <2>5, <2>6
  <2>7. CASE o # b
    <3>1. b.ed <= o.ed  BY <2>2, <2>3
    <3>2. b.ed <= o.st \/ o.ed <= b.st  BY <2>3, <2>7 DEF Apart
    <3> QED BY <1>1, <2>3, <2>5, <3>1, <3>2
  <2> QED BY <2>6, <2>7
<1>4. ASSUME \A b \in mapTr : ~Overlaps(b, a, size) PROVE Fits(a, size)
  BY <1>1, <1>2, <1>4 DEF Fits, Overlaps
<1> QED BY <1>3, <1>4

\* What mm_mmap says of the first place: none before it is free.
FirstFit(map, st, size, addr) ==
    \A a \in st .. (IF addr = Fail THEN End - size ELSE addr - 1) :
        \E b \in map : Overlaps(b, a, size)

\* The search gives the first free place, or fails when there is none.
LEMMA SearchFinds ==
    ASSUME Apart(mapTr), NEW st \in Nat, NEW size \in Nat \ {0}
    PROVE  LET addr == Search(st, size) IN
           /\ addr # Fail => /\ addr \in Nat /\ addr + size <= End
                             /\ \A b \in mapTr : ~Overlaps(b, addr, size)
           /\ addr = Fail \/ addr \in Nat
           /\ FirstFit(mapTr, st, size, addr)
<1> USE MemMapAssumption
<1> DEFINE P == {st} \union {b.ed : b \in mapTr}
           C == {a \in P : a >= st /\ Fits(a, size)}
<1>1. \A b \in mapTr : b.st \in 0 .. End /\ b.ed \in 0 .. End /\ b.st < b.ed
  BY DEF Apart, Region
<1>2. P \in SUBSET Nat /\ st \in P  BY <1>1
<1>3. C \in SUBSET Nat  BY <1>2
\* The place after the last region, or st, is free.
<1>4. C # {}
  <2>1. \A p \in P : p <= st + End  BY <1>1
  <2>2. PICK p \in P : \A y \in P : y <= p
    <3> HIDE DEF P
    <3>1. st + End \in Nat  OBVIOUS
    <3> QED BY <1>2, <2>1, <3>1, GreatestOf
  <2>3. p \in Nat /\ p >= st  BY <1>2, <2>2
  <2>4. \A b \in mapTr : b.ed <= p  BY <2>2
  <2>5. \A b \in mapTr : ~Overlaps(b, p, size)  BY <1>1, <2>3, <2>4 DEF Overlaps
  <2>6. Fits(p, size)  BY <2>3, <2>5, FitsIsFree
  <2> QED BY <2>3, <2>6
<1> DEFINE c == Min(C)
<1>5. c \in C /\ \A y \in C : c <= y  BY <1>3, <1>4, MinLeast
<1>6. Search(st, size) = IF c + size > End THEN Fail ELSE c  BY DEF Search
<1> HIDE DEF c
<1>7. c \in Nat /\ Fits(c, size)  BY <1>3, <1>5
<1>8. \A b \in mapTr : ~Overlaps(b, c, size)  BY <1>7, FitsIsFree
\* A free place begins no gap before c: the end of the region before it, or
\* st, would be free too.
<1>9. ASSUME NEW a \in Nat, a >= st, a < c PROVE \E b \in mapTr : Overlaps(b, a, size)
  <2> SUFFICES ASSUME \A b \in mapTr : ~Overlaps(b, a, size) PROVE FALSE  OBVIOUS
  <2> DEFINE Q == {p \in P : p >= st /\ p <= a}
  <2>1. Q \in SUBSET Nat /\ st \in Q  BY <1>2, <1>9
  <2>2. PICK p \in Q : \A y \in Q : y <= p  BY <2>1, GreatestOf
  <2>3. p \in Nat /\ p >= st /\ p <= a /\ p \in P  BY <2>1, <2>2
  <2>4. ASSUME NEW b \in mapTr PROVE ~Overlaps(b, p, size)
    <3>1. b.ed \in P /\ b.ed \in Nat /\ b.st \in Nat  BY <1>1
    <3>2. CASE b.ed <= p  BY <2>3, <3>1, <3>2 DEF Overlaps
    <3>3. CASE b.ed > p
      <4>1. b.ed \notin Q  BY <2>2, <2>3, <3>1, <3>3
      <4>2. b.ed > a  BY <2>3, <3>1, <3>3, <4>1
      <4>3. b.st >= a + size  BY <3>1, <4>2 DEF Overlaps
      <4> QED BY <2>3, <3>1, <4>3 DEF Overlaps
    <3> QED BY <2>3, <3>1, <3>2, <3>3
  <2>5. Fits(p, size)  BY <2>3, <2>4, FitsIsFree
  <2>6. p \in C  BY <2>3, <2>5
  <2> QED BY <1>5, <1>7, <1>9, <2>3, <2>6
<1>10. FirstFit(mapTr, st, size, Search(st, size))
  <2>1. CASE c + size > End
    <3>1. Search(st, size) = Fail  BY <1>6, <2>1
    <3>2. \A a \in st .. End - size : a \in Nat /\ a >= st /\ a < c  BY <1>7, <2>1
    <3> QED BY <1>9, <3>1, <3>2 DEF FirstFit
  <2>2. CASE ~(c + size > End)
    <3>1. Search(st, size) = c /\ c # Fail  BY <1>6, <1>7, <2>2 DEF Fail
    <3>2. \A a \in st .. c - 1 : a \in Nat /\ a >= st /\ a < c  BY <1>7
    <3> QED BY <1>9, <3>1, <3>2 DEF FirstFit
  <2> QED BY <2>1, <2>2
<1> QED BY <1>6, <1>7, <1>8, <1>10 DEF Fail

-----------------------------------------------------------------------------
(* The invariant. *)

MapInv ==
    /\ Apart(mapTr)
    /\ ret \in [st : Nat, size : Nat \ {0}, addr : {Fail} \union 0 .. End, old : SUBSET Region]
    /\ FirstFit(ret.old, ret.st, ret.size, ret.addr)

\* An empty map is apart, and the result before any request says nothing.
LEMMA MapInit == Init => MapInv
<1> SUFFICES ASSUME Init PROVE MapInv  OBVIOUS
<1> USE MemMapAssumption
<1>1. Apart(mapTr)  BY DEF Init, Apart
<1>2. ret = [st |-> 0, size |-> 1, addr |-> Fail, old |-> {[st |-> 0, ed |-> End]}]
  BY DEF Init
<1>3. ret \in [st : Nat, size : Nat \ {0}, addr : {Fail} \union 0 .. End, old : SUBSET Region]
  <2>1. [st |-> 0, ed |-> End] \in Region  BY DEF Region
  <2> QED BY <1>2, <2>1
<1>4. ASSUME NEW a \in 0 .. End - 1 PROVE \E b \in ret.old : Overlaps(b, a, 1)
  <2>1. Overlaps([st |-> 0, ed |-> End], a, 1)  BY DEF Overlaps
  <2> QED BY <1>2, <2>1
<1>5. FirstFit(ret.old, ret.st, ret.size, ret.addr)  BY <1>2, <1>4 DEF FirstFit
<1> QED BY <1>1, <1>3, <1>5 DEF MapInv

\* Taking a region out leaves the others apart.
LEMMA ApartWithout ==
    ASSUME NEW map, Apart(map), NEW gone
    PROVE  Apart(map \ gone)
BY DEF Apart

\* mm_mmap puts the new region where there is none.
LEMMA MmapHeld ==
    ASSUME MapInv, NEW hint \in 0 .. End - 1, NEW n \in Sizes, NEW unit \in {1, Large},
           Mmap(hint, n, unit)
    PROVE  MapInv'
<1> USE MemMapAssumption
<1> DEFINE st == Align(hint, unit)
           size == Align(n, unit)
           addr == Search(st, size)
           new == [st |-> addr, ed |-> addr + size]
<1>1. st \in Nat /\ size \in Nat \ {0}
  <2>1. hint \in Nat /\ n \in Nat \ {0} /\ unit \in Nat \ {0}  OBVIOUS
  <2>2. st \in Nat  BY <2>1, AlignUp
  <2>3. size \in Nat /\ size >= n  BY <2>1, AlignUp
  <2> QED BY <2>1, <2>2, <2>3
<1>2. /\ mapTr' = IF addr = Fail THEN mapTr ELSE mapTr \union {new}
      /\ ret' = [st |-> st, size |-> size, addr |-> addr, old |-> mapTr]
  BY DEF Mmap
<1> HIDE DEF st, size
<1>3. Apart(mapTr)  BY DEF MapInv
<1>4. /\ addr # Fail => /\ addr \in Nat /\ addr + size <= End
                        /\ \A b \in mapTr : ~Overlaps(b, addr, size)
      /\ addr = Fail \/ addr \in Nat
      /\ FirstFit(mapTr, st, size, addr)
  BY <1>1, <1>3, SearchFinds
<1> HIDE DEF addr
<1>5. Apart(mapTr')
  <2>1. CASE addr = Fail  BY <1>2, <1>3, <2>1
  <2>2. CASE addr # Fail
    <3>1. mapTr' = mapTr \union {new}  BY <1>2, <2>2
    <3>2. new \in Region /\ new.st < new.ed  BY <1>1, <1>4, <2>2 DEF Region
    <3>3. ASSUME NEW b \in mapTr PROVE b.ed <= new.st \/ new.ed <= b.st
      <4>1. b.st \in 0 .. End /\ b.ed \in 0 .. End  BY <1>3 DEF Apart, Region
      <4>2. ~(b.st < addr + size /\ addr < b.ed)  BY <1>4, <2>2 DEF Overlaps
      <4> QED BY <1>1, <1>4, <2>2, <4>1, <4>2
    <3> HIDE DEF new
    <3>4. \A b \in mapTr' : b.st < b.ed  BY <1>3, <3>1, <3>2 DEF Apart
    <3>5. \A b, o \in mapTr' : b # o => b.ed <= o.st \/ o.ed <= b.st
      BY <1>3, <3>1, <3>3 DEF Apart
    <3>6. mapTr' \subseteq Region  BY <1>3, <3>1, <3>2 DEF Apart
    <3> QED BY <3>4, <3>5, <3>6 DEF Apart
  <2> QED BY <2>1, <2>2
<1>6. ret' \in [st : Nat, size : Nat \ {0}, addr : {Fail} \union 0 .. End, old : SUBSET Region]
  <2>1. mapTr \in SUBSET Region  BY <1>3 DEF Apart
  <2>2. addr \in {Fail} \union 0 .. End  BY <1>1, <1>4
  <2> QED BY <1>1, <1>2, <2>1, <2>2
<1>7. FirstFit(ret'.old, ret'.st, ret'.size, ret'.addr)  BY <1>2, <1>4
<1> QED BY <1>5, <1>6, <1>7 DEF MapInv

\* The operations keep it.
LEMMA MapStep == MapInv /\ [Next]_vars => MapInv'
<1> SUFFICES ASSUME MapInv, [Next]_vars PROVE MapInv'  OBVIOUS
<1>1. ASSUME NEW hint \in 0 .. End - 1, NEW n \in Sizes, NEW unit \in {1, Large},
             Mmap(hint, n, unit)
      PROVE  MapInv'
  BY <1>1, MmapHeld
<1>2. ASSUME NEW gone, mapTr' = mapTr \ gone, UNCHANGED ret PROVE MapInv'
  <2>1. Apart(mapTr')  BY <1>2, ApartWithout DEF MapInv
  <2> QED BY <1>2, <2>1 DEF MapInv
<1>3. ASSUME NEW a \in 0 .. End - 1, NEW size \in 1 .. End, Munmap(a, size) PROVE MapInv'
  BY <1>2, <1>3 DEF Munmap
<1>4. CASE Free  BY <1>2, <1>4 DEF Free
<1>5. CASE UNCHANGED vars  BY <1>5 DEF MapInv, vars
<1> QED BY <1>1, <1>3, <1>4, <1>5 DEF Next

\* What the invariant says is what the run checks.
LEMMA MapInvShows == MapInv => TypeOK /\ Disjoint
<1> SUFFICES ASSUME MapInv PROVE TypeOK /\ Disjoint  OBVIOUS
<1> USE MemMapAssumption
<1>1. \A b \in mapTr : b.st \in 0 .. End /\ b.ed \in 0 .. End /\ b.st < b.ed
  BY DEF MapInv, Apart, Region
<1>2. TypeOK  BY DEF MapInv, Apart, Region, TypeOK
<1>3. Disjoint  BY <1>1 DEF MapInv, Apart, FirstFit, Overlaps, Disjoint
<1> QED BY <1>2, <1>3

-----------------------------------------------------------------------------
(***************************************************************************)
(* The regions are records of addresses in the user's half and mm_mmap     *)
(* gives such an address or fails (mm/mgr.c).                              *)
(***************************************************************************)
THEOREM MapTypes == Spec => []TypeOK
<1> QED BY MapInit, MapStep, MapInvShows, PTL DEF Spec

(***************************************************************************)
(* The regions of a process never overlap, whatever is mapped and unmapped *)
(* and in whichever order, and mm_mmap fails, or passes over a place, only *)
(* where a region is in the way (mm_mmap, mm_munmap, mm_mgr_free).         *)
(***************************************************************************)
THEOREM MapsDisjoint == Spec => []Disjoint
<1> QED BY MapInit, MapStep, MapInvShows, PTL DEF Spec

-----------------------------------------------------------------------------
(* The inductive invariant. *)

Entry == [cpu : Cpu, vec : Usable]
VecTypes ==
    /\ intr_msk \in [Cpu -> SUBSET Vec]
    /\ intr_freeCnt \in [Cpu -> Int] /\ intr_useCnt \in [Cpu -> Int]
    /\ desc \in [Driver -> Seq(Entry)]
    /\ at \in [Driver -> {"alloc", "set", "on", "undo", "off"}]

\* d's i-th descriptor has vector v of CPU c.
Holds(d, i, c, v) == i \in DOMAIN desc[d] /\ desc[d][i] = [cpu |-> c, vec |-> v]

\* The mask is the vectors that no driver may have and those that one has.
Taken ==
    \A c \in Cpu :
        /\ Vec \ Usable \subseteq intr_msk[c]
        /\ \A v \in Usable : v \in intr_msk[c] <=> \E d \in Driver, i \in Nat : Holds(d, i, c, v)

\* No two descriptors have one vector.
HeldOnce ==
    \A c \in Cpu, v \in Usable, d \in Driver, e \in Driver, i \in Nat, j \in Nat :
        Holds(d, i, c, v) /\ Holds(e, j, c, v) => d = e /\ i = j

Counted ==
    \A c \in Cpu : /\ intr_freeCnt[c] = Cardinality(Vec \ intr_msk[c])
                   /\ intr_useCnt[c] = Cardinality(intr_msk[c])

\* How many descriptors a driver has at each stage.
StageOf(d) ==
    /\ Len(desc[d]) <= Num[d]
    /\ at[d] = "alloc" => Len(desc[d]) + Asked(d) <= Num[d]
    /\ at[d] = "set" => Len(desc[d]) >= Asked(d)

\* The handler table has all descriptors of a driver but those that the last
\* call has taken and Set has still to store; nothing is said of one that
\* gives back what it has.
Reached(d) ==
    \A i \in DOMAIN desc[d] :
        \/ at[d] \in {"alloc", "on"}
        \/ at[d] = "set" /\ i <= Len(desc[d]) - Asked(d)
        => hal_intr_desc[desc[d][i].cpu][desc[d][i].vec] = <<d, i>>

VecInv ==
    /\ VecTypes /\ Taken /\ HeldOnce /\ Counted
    /\ \A d \in Driver : StageOf(d) /\ Reached(d)
-----------------------------------------------------------------------------
(* What intr_alloc finds. *)

\* A call asks for one vector or more.
LEMMA AskedType ==
    ASSUME NEW d \in Driver
    PROVE  Num[d] \in Nat \ {0} /\ Asked(d) \in Nat \ {0} /\ Asked(d) \in {1, Num[d]}
BY VecAssumption DEF Asked

\* Some CPU has the most free vectors, and one of those the least number.
LEMMA BestIn ==
    ASSUME VecTypes, \A c \in Cpu : intr_freeCnt[c] \in 0 .. Top
    PROVE  BestCpu \in Cpu
<1> DEFINE F == {intr_freeCnt[c] : c \in Cpu}
           Best(c) == \A o \in Cpu : \/ intr_freeCnt[c] > intr_freeCnt[o]
                                     \/ intr_freeCnt[c] = intr_freeCnt[o] /\ c <= o
<1>1. PICK m \in F : \A x \in F : x <= m
  <2>0. Top \in Nat /\ Cpu # {}  BY VecAssumption
  <2>1. F \in SUBSET Nat /\ F # {} /\ Top \in Nat /\ \A x \in F : x <= Top
    <3>1. \A x \in F : x \in 0 .. Top  OBVIOUS
    <3>2. F # {}  BY <2>0
    <3> HIDE DEF F
    <3> QED BY <2>0, <3>1, <3>2
  <2> HIDE DEF F
  <2> QED BY <2>1, GreatestOf
<1> DEFINE C == {c \in Cpu : intr_freeCnt[c] = m}
<1>2. PICK b \in C : \A c \in C : b <= c
  <2>1. C \in SUBSET Nat /\ C # {}  BY <1>1, VecAssumption
  <2> HIDE DEF C
  <2> QED BY <2>1, LeastOf
<1>3. b \in Cpu /\ Best(b)
  <2> SUFFICES ASSUME NEW o \in Cpu
               PROVE  \/ intr_freeCnt[b] > intr_freeCnt[o]
                      \/ intr_freeCnt[b] = intr_freeCnt[o] /\ b <= o
      BY <1>2
  <2>1. intr_freeCnt[b] = m /\ intr_freeCnt[o] \in F /\ intr_freeCnt[o] \in Int /\ m \in Int  BY <1>1, <1>2 DEF VecTypes
  <2>2. CASE intr_freeCnt[o] = m  BY <2>1, <2>2, <1>2
  <2>3. CASE intr_freeCnt[o] # m  BY <2>1, <2>3, <1>1
  <2> QED BY <2>2, <2>3
<1>4. BestCpu = CHOOSE c \in Cpu : Best(c)  BY DEF BestCpu
<1> QED BY <1>3, <1>4

\* A run of free vectors holds vectors of the drivers only.
LEMMA RunFree ==
    ASSUME VecTypes, Taken, NEW c \in Cpu, NEW n \in Nat \ {0}, Runs(c, n) # {}
    PROVE  LET v == Min(Runs(c, n)) IN
           /\ v \in Nat
           /\ v .. v + n - 1 \subseteq Usable
           /\ v .. v + n - 1 \cap intr_msk[c] = {}
<1> DEFINE v == Min(Runs(c, n))
<1>1. Top \in Nat  BY VecAssumption
<1>2. Runs(c, n) \in SUBSET Nat  BY <1>1 DEF Runs
<1>3. v \in Runs(c, n)  BY <1>2, MinLeast
<1>4. v \in 0 .. Top - n - 1 /\ v .. v + n - 1 \cap intr_msk[c] = {}  BY <1>3 DEF Runs
<1> HIDE DEF v
<1>5. v .. v + n - 1 \subseteq Vec  BY <1>1, <1>4 DEF Vec
<1>6. Vec \ Usable \subseteq intr_msk[c]  BY DEF Taken
<1> QED BY <1>1, <1>4, <1>5, <1>6 DEF v

-----------------------------------------------------------------------------
(* The counters. *)

\* The vectors of a CPU are finite in number.
LEMMA VecFinite ==
    ASSUME NEW S \in SUBSET Vec
    PROVE  IsFiniteSet(S) /\ Cardinality(S) \in Nat /\ Cardinality(S) <= Top
<1>1. Top \in Nat  BY VecAssumption
<1>2. IsFiniteSet(0 .. Top - 1) /\ Cardinality(0 .. Top - 1) = Top
  <2>1. 0 \in Int /\ Top - 1 \in Int  BY <1>1
  <2>2. /\ IsFiniteSet(0 .. Top - 1)
        /\ Cardinality(0 .. Top - 1) = IF 0 > Top - 1 THEN 0 ELSE Top - 1 - 0 + 1
    BY <2>1, FS_Interval
  <2> QED BY <1>1, <2>2
<1>3. IsFiniteSet(S) /\ Cardinality(S) <= Cardinality(0 .. Top - 1)  BY <1>2, FS_Subset DEF Vec
<1>4. Cardinality(S) \in Nat  BY <1>3, FS_CardinalityType
<1> QED BY <1>2, <1>3, <1>4

\* What is taken and what is free make up all vectors.
LEMMA CountTypes ==
    ASSUME VecTypes, Counted, NEW c \in Cpu
    PROVE  intr_freeCnt[c] \in 0 .. Top /\ intr_useCnt[c] \in 0 .. Top
<1>1. intr_msk[c] \in SUBSET Vec /\ Vec \ intr_msk[c] \in SUBSET Vec  BY DEF VecTypes
<1>2. Top \in Nat  BY VecAssumption
<1>3. /\ intr_freeCnt[c] \in Nat /\ intr_freeCnt[c] <= Top
      /\ intr_useCnt[c] \in Nat /\ intr_useCnt[c] <= Top
  BY <1>1, VecFinite DEF Counted
<1> QED BY <1>2, <1>3

\* A run of n vectors is n vectors.
LEMMA RunCount ==
    ASSUME NEW v \in Nat, NEW n \in Nat \ {0}
    PROVE  Cardinality(v .. v + n - 1) = n
<1>1. v \in Int /\ v + n - 1 \in Int  OBVIOUS
<1>2. Cardinality(v .. v + n - 1) = IF v > v + n - 1 THEN 0 ELSE v + n - 1 - v + 1
  BY <1>1, FS_Interval
<1> QED BY <1>2

\* Taking n vectors that are free.
LEMMA TakeCount ==
    ASSUME NEW M \in SUBSET Vec, NEW n \in Nat \ {0},
           NEW R \in SUBSET Vec, Cardinality(R) = n, R \cap M = {}
    PROVE  /\ Cardinality(M \union R) = Cardinality(M) + n
           /\ Cardinality(Vec \ (M \union R)) = Cardinality(Vec \ M) - n
<1> DEFINE N == M \union R
           A == Vec \ M
           B == Vec \ N
<1>1. IsFiniteSet(R) /\ Cardinality(R) = n  BY VecFinite
<1>2. A = B \union R /\ B \cap R = {} /\ M \cap R = {}  OBVIOUS
<1>3. N \in SUBSET Vec /\ A \in SUBSET Vec /\ B \in SUBSET Vec  OBVIOUS
<1>e. N = M \union R  OBVIOUS
<1> HIDE DEF A, B, N
<1>4. IsFiniteSet(M) /\ IsFiniteSet(B) /\ Cardinality(M) \in Nat /\ Cardinality(B) \in Nat  BY <1>3, VecFinite
<1>5. Cardinality({}) = 0  BY FS_EmptySet
<1>6. Cardinality(M \union R) = Cardinality(M) + Cardinality(R) - Cardinality(M \cap R)
  BY <1>1, <1>4, FS_Union
<1>7. Cardinality(B \union R) = Cardinality(B) + Cardinality(R) - Cardinality(B \cap R)
  BY <1>1, <1>4, FS_Union
<1>8. Cardinality(N) = Cardinality(M) + n
  <2>1. Cardinality(M \cap R) = 0  BY <1>2, <1>5
  <2> QED BY <1>1, <1>4, <1>6, <1>e, <2>1
<1>9. Cardinality(A) = Cardinality(B) + n
  <2>1. Cardinality(B \cap R) = 0 /\ Cardinality(B \union R) = Cardinality(A)  BY <1>2, <1>5

  <2> QED BY <1>1, <1>4, <1>7, <2>1
<1>10. Cardinality(B) = Cardinality(A) - n  BY <1>4, <1>9
<1> QED BY <1>8, <1>10 DEF A, B, N

\* Giving one back.
LEMMA GiveCount ==
    ASSUME NEW M \in SUBSET Vec, NEW v \in M
    PROVE  /\ Cardinality(M \ {v}) = Cardinality(M) - 1
           /\ Cardinality(Vec \ (M \ {v})) = Cardinality(Vec \ M) + 1
<1> DEFINE A == Vec \ M
<1>1. IsFiniteSet(M) /\ Cardinality(M) \in Nat  BY VecFinite
<1>2. A \in SUBSET Vec /\ v \notin A /\ Vec \ (M \ {v}) = A \union {v}  OBVIOUS
<1> HIDE DEF A
<1>3. IsFiniteSet(A)  BY <1>2, VecFinite
<1>4. Cardinality(M \ {v}) = Cardinality(M) - 1  BY <1>1, FS_RemoveElement
<1>5. Cardinality(A \union {v}) = Cardinality(A) + 1  BY <1>2, <1>3, FS_AddElement
<1> QED BY <1>2, <1>4, <1>5 DEF A
-----------------------------------------------------------------------------
(* The steps. *)

\* Before the first driver is set up.
LEMMA InitVec == IntrInit => VecInv
<1> SUFFICES ASSUME IntrInit PROVE VecInv  OBVIOUS
<1>0. /\ Low \in Nat /\ High \in Nat /\ Top \in Nat /\ Low <= High /\ High < Top
  BY VecAssumption
<1>1. Usable \in SUBSET Vec  BY <1>0 DEF Vec, Usable
<1>2. Cardinality(Usable) \in Nat /\ IsFiniteSet(Usable)  BY <1>1, VecFinite
<1>3. \A d \in Driver : desc[d] = <<>> /\ at[d] = "alloc"  BY DEF IntrInit
<1>4. VecTypes
  <2>1. desc \in [Driver -> Seq(Entry)] /\ at \in [Driver -> {"alloc", "set", "on", "undo", "off"}]
    BY DEF IntrInit
  <2>2. intr_msk \in [Cpu -> SUBSET Vec]  BY DEF IntrInit
  <2>3. intr_freeCnt \in [Cpu -> Int] /\ intr_useCnt \in [Cpu -> Int]  BY <1>0, <1>2 DEF IntrInit
  <2> QED BY <2>1, <2>2, <2>3 DEF VecTypes
<1>5. Taken
  <2>1. \A d \in Driver, i \in Nat, c \in Cpu, v \in Usable : ~Holds(d, i, c, v)  BY <1>3 DEF Holds
  <2>2. \A c \in Cpu : intr_msk[c] = Vec \ Usable  BY DEF IntrInit
  <2> QED BY <2>1, <2>2 DEF Taken
<1>6. HeldOnce  BY <1>3 DEF HeldOnce, Holds
<1>7. Counted
  <2> SUFFICES ASSUME NEW c \in Cpu
               PROVE  /\ intr_freeCnt[c] = Cardinality(Vec \ intr_msk[c])
                      /\ intr_useCnt[c] = Cardinality(intr_msk[c])
    BY DEF Counted
  <2>1. intr_msk[c] = Vec \ Usable /\ Vec \ intr_msk[c] = Usable  BY <1>1 DEF IntrInit
  <2>2. intr_freeCnt[c] = Cardinality(Usable) /\ intr_useCnt[c] = Top - Cardinality(Usable)
    BY DEF IntrInit
  <2>3. IsFiniteSet(Vec) /\ Cardinality(Vec) = Top
    <3>1. 0 \in Int /\ Top - 1 \in Int  BY <1>0
    <3>2. /\ IsFiniteSet(0 .. Top - 1)
          /\ Cardinality(0 .. Top - 1) = IF 0 > Top - 1 THEN 0 ELSE Top - 1 - 0 + 1
      BY <3>1, FS_Interval
    <3> QED BY <1>0, <3>2 DEF Vec
  <2>4. Cardinality(Vec \ Usable) = Cardinality(Vec) - Cardinality(Vec \cap Usable)
    BY <2>3, FS_Difference
  <2>5. Vec \cap Usable = Usable  BY <1>1
  <2> QED BY <2>1, <2>2, <2>3, <2>4, <2>5
<1>8. \A d \in Driver : StageOf(d) /\ Reached(d)
  <2> SUFFICES ASSUME NEW d \in Driver PROVE StageOf(d) /\ Reached(d)  OBVIOUS
  <2>1. Len(desc[d]) = 0 /\ DOMAIN desc[d] = {}  BY <1>3
  <2>2. Num[d] \in Nat \ {0} /\ Asked(d) \in Nat /\ Asked(d) <= Num[d]  BY AskedType
  <2> QED BY <1>3, <2>1, <2>2 DEF StageOf, Reached
<1> QED BY <1>4, <1>5, <1>6, <1>7, <1>8 DEF VecInv

\* d gets n descriptors more, with the vectors from v on of CPU c.
Added(d, c, v, n) ==
    /\ desc' \in [Driver -> Seq(Entry)]
    /\ Len(desc'[d]) = Len(desc[d]) + n
    /\ \A i \in DOMAIN desc[d] : i \in DOMAIN desc'[d] /\ desc'[d][i] = desc[d][i]
    /\ \A e \in Driver, i \in Nat, x \in Cpu, w \in Usable :
          Holds(e, i, x, w)' <=>
              \/ Holds(e, i, x, w)
              \/ e = d /\ x = c /\ w \in v .. v + n - 1 /\ i = Len(desc[d]) + (w - v) + 1

\* What intr_alloc adds to the descriptors of d.
LEMMA HoldsAlloc ==
    ASSUME VecTypes, NEW d \in Driver, NEW c \in Cpu, NEW v \in Nat, NEW n \in Nat \ {0},
           v .. v + n - 1 \subseteq Usable,
           NEW new \in Seq(Entry), Len(new) = n,
           \A i \in 1 .. n : new[i] = [cpu |-> c, vec |-> v + i - 1],
           desc' = [desc EXCEPT ![d] = @ \o new]
    PROVE  Added(d, c, v, n)
<1> DEFINE s == desc[d]
           t == s \o new
<1>1. s \in Seq(Entry)  BY DEF VecTypes
<1>4. new \in Seq(Entry) /\ Len(new) = n  OBVIOUS
<1>5. \A i \in 1 .. n : new[i] = [cpu |-> c, vec |-> v + i - 1]  OBVIOUS
<1>6. desc'[d] = t /\ \A e \in Driver \ {d} : desc'[e] = desc[e]  BY DEF VecTypes
<1> HIDE DEF s
<1>7. /\ t \in Seq(Entry) /\ Len(t) = Len(s) + n
      /\ \A i \in 1 .. Len(s) : t[i] = s[i]
      /\ \A i \in Len(s) + 1 .. Len(s) + n : t[i] = new[i - Len(s)]
  <2>1. /\ s \o new \in Seq(Entry)
        /\ Len(s \o new) = Len(s) + Len(new)
        /\ \A i \in 1 .. Len(s) + Len(new) :
              (s \o new)[i] = IF i <= Len(s) THEN s[i] ELSE new[i - Len(s)]
    BY <1>1, <1>4, ConcatProperties
  <2>2. Len(s) \in Nat  BY <1>1
  <2> QED BY <1>4, <2>1, <2>2
<1>8. /\ \A i \in 1 .. Len(s) : t[i] = s[i]
      /\ \A i \in Len(s) + 1 .. Len(s) + n : t[i] = new[i - Len(s)]
  BY <1>7
<1>9. desc' \in [Driver -> Seq(Entry)]
  <2> HIDE DEF t
  <2>1. desc' = [desc EXCEPT ![d] = t]  BY DEF t, s
  <2> QED BY <2>1, <1>7 DEF VecTypes
<1>10. Len(s) \in Nat /\ DOMAIN s = 1 .. Len(s) /\ DOMAIN t = 1 .. Len(s) + n
  BY <1>1, <1>7
<1> HIDE DEF t
<1>11. ASSUME NEW e \in Driver, NEW i \in Nat, NEW x \in Cpu, NEW w \in Usable
       PROVE  Holds(e, i, x, w)' <=>
                  \/ Holds(e, i, x, w)
                  \/ e = d /\ x = c /\ w \in v .. v + n - 1 /\ i = Len(s) + (w - v) + 1
  <2>0. w \in Nat /\ Low \in Nat  BY VecAssumption DEF Usable
  <2>1. CASE e # d  BY <2>1, <1>6 DEF Holds
  <2>2. CASE e = d
    <3>1. Holds(e, i, x, w)' <=> i \in DOMAIN t /\ t[i] = [cpu |-> x, vec |-> w]  BY <2>2, <1>6 DEF Holds
    <3>2. Holds(e, i, x, w) <=> i \in DOMAIN s /\ s[i] = [cpu |-> x, vec |-> w]  BY <2>2 DEF Holds, s
    <3>3. CASE i \in 1 .. Len(s)
      <4>1. ~(w \in v .. v + n - 1 /\ i = Len(s) + (w - v) + 1)  BY <3>3, <1>10, <2>0
      <4> QED BY <3>1, <3>2, <3>3, <4>1, <1>8, <1>10
    <3>4. CASE i \in Len(s) + 1 .. Len(s) + n
      <4>1. ~Holds(e, i, x, w)  BY <3>2, <3>4, <1>10
      <4>2. i \in DOMAIN t  BY <3>4, <1>10
      <4>3. i - Len(s) \in 1 .. n  BY <3>4, <1>10
      <4>4. t[i] = [cpu |-> c, vec |-> v + (i - Len(s)) - 1]  BY <3>4, <4>3, <1>5, <1>8
      <4>5. t[i] = [cpu |-> x, vec |-> w] <=> c = x /\ v + (i - Len(s)) - 1 = w  BY <4>4
      <4>6. v + (i - Len(s)) - 1 = w <=> w \in v .. v + n - 1 /\ i = Len(s) + (w - v) + 1
        BY <2>0, <3>4, <1>10
      <4> QED BY <2>2, <3>1, <4>1, <4>2, <4>5, <4>6
    <3>5. CASE i \notin 1 .. Len(s) /\ i \notin Len(s) + 1 .. Len(s) + n
      <4>1. i \notin DOMAIN t /\ i \notin DOMAIN s  BY <3>5, <1>10
      <4>2. ~(w \in v .. v + n - 1 /\ i = Len(s) + (w - v) + 1)  BY <3>5, <1>10, <2>0
      <4> QED BY <3>1, <3>2, <4>1, <4>2
    <3> QED BY <3>3, <3>4, <3>5
  <2> QED BY <2>1, <2>2
<1>12. Len(desc'[d]) = Len(desc[d]) + n  BY <1>6, <1>7 DEF s
<1>13. \A i \in DOMAIN desc[d] : i \in DOMAIN desc'[d] /\ desc'[d][i] = desc[d][i]
  <2>1. \A i \in 1 .. Len(s) : i \in 1 .. Len(s) + n  BY <1>10
  <2> QED BY <2>1, <1>6, <1>8, <1>10 DEF s
<1>14. \A e \in Driver, i \in Nat, x \in Cpu, w \in Usable :
           Holds(e, i, x, w)' <=>
               \/ Holds(e, i, x, w)
               \/ e = d /\ x = c /\ w \in v .. v + n - 1 /\ i = Len(desc[d]) + (w - v) + 1
  BY <1>11 DEF s
<1> QED BY <1>9, <1>12, <1>13, <1>14 DEF Added
\* intr_alloc keeps the invariant.
LEMMA AllocVec ==
    ASSUME VecInv, NEW d \in Driver, Alloc(d)
    PROVE  VecInv'
<1> DEFINE c == BestCpu
           n == Asked(d)
           v == Min(Runs(c, n))
           R == v .. v + n - 1
           new == [i \in 1 .. n |-> [cpu |-> c, vec |-> v + i - 1]]
<1>0. VecTypes /\ Taken /\ HeldOnce /\ Counted /\ \A e \in Driver : StageOf(e) /\ Reached(e)
  BY DEF VecInv
<1>1. n \in Nat \ {0} /\ Num[d] \in Nat \ {0}  BY AskedType
<1>2. c \in Cpu  BY <1>0, CountTypes, BestIn
<1>3. /\ at[d] = "alloc" /\ Runs(c, n) # {}
      /\ intr_msk' = [intr_msk EXCEPT ![c] = @ \union R]
      /\ intr_freeCnt' = [intr_freeCnt EXCEPT ![c] = @ - n]
      /\ intr_useCnt' = [intr_useCnt EXCEPT ![c] = @ + n]
      /\ desc' = [desc EXCEPT ![d] = @ \o new]
      /\ at' = [at EXCEPT ![d] = "set"]
      /\ hal_intr_desc' = hal_intr_desc
  BY DEF Alloc, CanAlloc
<1>4. v \in Nat /\ R \subseteq Usable /\ R \cap intr_msk[c] = {}
  <2> HIDE DEF c, n
  <2>1. LET w == Min(Runs(c, n)) IN
        w \in Nat /\ w .. w + n - 1 \subseteq Usable /\ w .. w + n - 1 \cap intr_msk[c] = {}
    BY <1>0, <1>1, <1>2, <1>3, RunFree
  <2> QED BY <2>1
<1>5. Usable \subseteq Vec
  <2>1. /\ Low \in Nat /\ High \in Nat /\ Top \in Nat /\ Low <= High /\ High < Top
    BY VecAssumption
  <2> QED BY <2>1 DEF Vec, Usable
<1>n. /\ new \in [1 .. n -> Entry]
      /\ \A i \in 1 .. n : new[i] = [cpu |-> c, vec |-> v + i - 1]
  <2> HIDE DEF c, n, v
  <2>1. \A i \in 1 .. n : v + i - 1 \in R  BY <1>1, <1>4
  <2>2. \A i \in 1 .. n : [cpu |-> c, vec |-> v + i - 1] \in Entry  BY <2>1, <1>2, <1>4 DEF Entry
  <2> QED BY <2>2
<1> HIDE DEF c, n, v, new
<1>s. new \in Seq(Entry) /\ Len(new) = n  BY <1>1, <1>n
<1>6. /\ desc' \in [Driver -> Seq(Entry)]
      /\ Len(desc'[d]) = Len(desc[d]) + n
      /\ \A i \in DOMAIN desc[d] : i \in DOMAIN desc'[d] /\ desc'[d][i] = desc[d][i]
      /\ \A e \in Driver, i \in Nat, x \in Cpu, w \in Usable :
            Holds(e, i, x, w)' <=>
                \/ Holds(e, i, x, w)
                \/ e = d /\ x = c /\ w \in v .. v + n - 1 /\ i = Len(desc[d]) + (w - v) + 1
  <2>1. VecTypes /\ c \in Cpu /\ v \in Nat /\ n \in Nat \ {0} /\ v .. v + n - 1 \subseteq Usable
    BY <1>0, <1>1, <1>2, <1>4
  <2>2. /\ new \in Seq(Entry) /\ Len(new) = n
        /\ \A i \in 1 .. n : new[i] = [cpu |-> c, vec |-> v + i - 1]
    BY <1>n, <1>s
  <2>3. desc' = [desc EXCEPT ![d] = @ \o new]  BY <1>3
  <2> HIDE DEF R
  <2>4. Added(d, c, v, n)  BY <2>1, <2>2, <2>3, HoldsAlloc
  <2> QED BY <2>4 DEF Added
<1>7. Len(desc[d]) \in Nat /\ DOMAIN desc[d] = 1 .. Len(desc[d])
  <2>1. desc[d] \in Seq(Entry)  BY <1>0 DEF VecTypes
  <2> QED BY <2>1
<1>e. \A e \in Driver \ {d} : desc'[e] = desc[e] /\ at'[e] = at[e]  BY <1>0, <1>3 DEF VecTypes
<1>8. R \subseteq Vec  BY <1>4, <1>5
<1>9. \A x \in Cpu : intr_msk'[x] = IF x = c THEN intr_msk[c] \union R ELSE intr_msk[x]
  BY <1>0, <1>2, <1>3 DEF VecTypes
<1>10. VecTypes'
  <2>1. intr_msk' \in [Cpu -> SUBSET Vec]  BY <1>0, <1>2, <1>3, <1>8 DEF VecTypes
  <2>2. intr_freeCnt' \in [Cpu -> Int] /\ intr_useCnt' \in [Cpu -> Int]
    BY <1>0, <1>1, <1>2, <1>3 DEF VecTypes
  <2>3. at' \in [Driver -> {"alloc", "set", "on", "undo", "off"}]  BY <1>0, <1>3 DEF VecTypes
  <2> QED BY <1>6, <2>1, <2>2, <2>3 DEF VecTypes
<1>11. ASSUME NEW i \in Nat, NEW x \in Cpu, NEW w \in Usable, NEW e \in Driver, Holds(e, i, x, w)
       PROVE  ~(x = c /\ w \in R)
  <2>1. w \in intr_msk[x]  BY <1>0, <1>11 DEF Taken
  <2> QED BY <1>4, <2>1
<1>12. Taken'
  <2> SUFFICES ASSUME NEW x \in Cpu
               PROVE  /\ Vec \ Usable \subseteq intr_msk'[x]
                      /\ \A w \in Usable : w \in intr_msk'[x] <=>
                             \E e \in Driver, i \in Nat : Holds(e, i, x, w)'
    BY DEF Taken
  <2>1. Vec \ Usable \subseteq intr_msk'[x]  BY <1>0, <1>9 DEF Taken
  <2>2. ASSUME NEW w \in Usable
        PROVE  w \in intr_msk'[x] <=> \E e \in Driver, i \in Nat : Holds(e, i, x, w)'
    <3>1. CASE x = c /\ w \in R
      <4>1. w \in intr_msk'[x]  BY <3>1, <1>9
      <4>0. w \in Int /\ w - v \in Nat /\ Len(desc[d]) \in Nat  BY <3>1, <1>1, <1>4, <1>7
      <4>2. PICK i \in Nat : i = Len(desc[d]) + (w - v) + 1  BY <4>0
      <4>3. Holds(d, i, x, w)'  BY <1>6, <3>1, <4>2
      <4> QED BY <4>1, <4>3
    <3>2. CASE ~(x = c /\ w \in R)
      <4>1. w \in intr_msk'[x] <=> w \in intr_msk[x]  BY <3>2, <1>9
      <4>2. \A e \in Driver, i \in Nat : Holds(e, i, x, w)' <=> Holds(e, i, x, w)  BY <3>2, <1>6
      <4> QED BY <4>1, <4>2, <1>0 DEF Taken
    <3> QED BY <3>1, <3>2
  <2> QED BY <2>1, <2>2
<1>13. HeldOnce'
  <2> SUFFICES ASSUME NEW x \in Cpu, NEW w \in Usable, NEW e \in Driver, NEW o \in Driver,
                      NEW i \in Nat, NEW j \in Nat, Holds(e, i, x, w)', Holds(o, j, x, w)'
               PROVE  e = o /\ i = j
    BY DEF HeldOnce
  <2>1. CASE x = c /\ w \in R
    <3>1. ~Holds(e, i, x, w) /\ ~Holds(o, j, x, w)  BY <2>1, <1>11
    <3> QED BY <1>6, <3>1
  <2>2. CASE ~(x = c /\ w \in R)
    <3>1. Holds(e, i, x, w) /\ Holds(o, j, x, w)  BY <2>2, <1>6
    <3> QED BY <3>1, <1>0 DEF HeldOnce
  <2> QED BY <2>1, <2>2
<1>14. Counted'
  <2> SUFFICES ASSUME NEW x \in Cpu
               PROVE  /\ intr_freeCnt'[x] = Cardinality(Vec \ intr_msk'[x])
                      /\ intr_useCnt'[x] = Cardinality(intr_msk'[x])
    BY DEF Counted
  <2>1. CASE x = c
    <3> DEFINE M == intr_msk[c]
    <3>1. M \in SUBSET Vec  BY <1>0, <1>2 DEF VecTypes
    <3>2. intr_freeCnt'[x] = intr_freeCnt[c] - n /\ intr_useCnt'[x] = intr_useCnt[c] + n
      BY <2>1, <1>0, <1>2, <1>3 DEF VecTypes
    <3>3. intr_freeCnt[c] = Cardinality(Vec \ M) /\ intr_useCnt[c] = Cardinality(M)
      BY <1>0, <1>2 DEF Counted
    <3>4. intr_msk'[x] = M \union R  BY <2>1, <1>9
    <3>m. M \cap R = {}  BY <1>4
    <3>r. R \in SUBSET Vec /\ Cardinality(R) = n  BY <1>1, <1>4, <1>8, RunCount
    <3> HIDE DEF M, R
    <3>5. /\ Cardinality(M \union R) = Cardinality(M) + n
          /\ Cardinality(Vec \ (M \union R)) = Cardinality(Vec \ M) - n
      <4>1. n \in Nat \ {0}  BY <1>1
      <4> QED BY <3>1, <3>m, <3>r, <4>1, TakeCount
    <3> QED BY <3>2, <3>3, <3>4, <3>5
  <2>2. CASE x # c
    <3>1. intr_freeCnt'[x] = intr_freeCnt[x] /\ intr_useCnt'[x] = intr_useCnt[x] /\ intr_msk'[x] = intr_msk[x]
      BY <2>2, <1>0, <1>2, <1>3 DEF VecTypes
    <3> QED BY <3>1, <1>0 DEF Counted
  <2> QED BY <2>1, <2>2
<1>15. ASSUME NEW e \in Driver PROVE StageOf(e)' /\ Reached(e)'
  <2>1. CASE e = d
    <3>1. StageOf(d) /\ Reached(d)  BY <1>0
    <3>2. at'[d] = "set"  BY <1>0, <1>3 DEF VecTypes
    <3>3. Len(desc[d]) + n <= Num[d]  BY <3>1, <1>3 DEF StageOf, n
    <3>4. Asked(d)' = n  BY DEF Asked, n
    <3>5. StageOf(d)'
      <4>1. Len(desc'[d]) >= n  BY <1>1, <1>6, <1>7
      <4> QED BY <3>2, <3>3, <3>4, <4>1, <1>6 DEF StageOf
    <3>6. Reached(d)'
      <4> SUFFICES ASSUME NEW i \in DOMAIN desc'[d], i <= Len(desc'[d]) - n
                   PROVE  hal_intr_desc[desc'[d][i].cpu][desc'[d][i].vec] = <<d, i>>
        BY <1>3, <3>2, <3>4 DEF Reached
      <4>0. desc'[d] \in Seq(Entry)  BY <1>6
      <4>1. i \in 1 .. Len(desc'[d])  BY <4>0
      <4>2. i \in DOMAIN desc[d]  BY <4>1, <1>1, <1>6, <1>7
      <4>3. desc'[d][i] = desc[d][i]  BY <4>2, <1>6
      <4> QED BY <4>2, <4>3, <3>1, <1>3 DEF Reached
    <3> QED BY <2>1, <3>5, <3>6
  <2>2. CASE e # d
    <3>1. desc'[e] = desc[e] /\ at'[e] = at[e]  BY <2>2, <1>e
    <3>2. Asked(e)' = Asked(e)  BY DEF Asked
    <3> QED BY <3>1, <3>2, <1>0, <1>3 DEF StageOf, Reached
  <2> QED BY <2>1, <2>2
<1> QED BY <1>10, <1>12, <1>13, <1>14, <1>15 DEF VecInv

\* hal_intr_setInCpuDesc keeps the invariant: it stores the descriptors of
\* the last call, and no other driver's descriptor is at their places.
LEMMA SetVec ==
    ASSUME VecInv, NEW d \in Driver, Set(d)
    PROVE  VecInv'
<1> DEFINE all == desc[d]
           new == Len(all) - Asked(d) + 1 .. Len(all)
<1>0. VecTypes /\ Taken /\ HeldOnce /\ Counted /\ \A e \in Driver : StageOf(e) /\ Reached(e)
  BY DEF VecInv
<1>1. Asked(d) \in Nat \ {0} /\ Num[d] \in Nat \ {0} /\ Asked(d) \in {1, Num[d]}  BY AskedType
<1>2. /\ at[d] = "set"
      /\ hal_intr_desc' = [c \in Cpu |-> [v \in Usable |->
             IF \E i \in new : all[i] = [cpu |-> c, vec |-> v]
             THEN <<d, CHOOSE i \in new : all[i] = [cpu |-> c, vec |-> v]>>
             ELSE hal_intr_desc[c][v]]]
      /\ at' = [at EXCEPT ![d] = IF Len(all) = Num[d] THEN "on" ELSE "alloc"]
      /\ UNCHANGED <<intr_msk, intr_freeCnt, intr_useCnt, desc>>
  BY DEF Set
<1>3. all \in Seq(Entry) /\ Len(all) \in Nat /\ DOMAIN all = 1 .. Len(all)
  <2>1. all \in Seq(Entry)  BY <1>0 DEF VecTypes
  <2> QED BY <2>1
<1>4. Len(all) >= Asked(d) /\ Len(all) <= Num[d]  BY <1>0, <1>2 DEF StageOf
<1>5. /\ at' \in [Driver -> {"alloc", "set", "on", "undo", "off"}]
      /\ at'[d] = IF Len(all) = Num[d] THEN "on" ELSE "alloc"
      /\ \A e \in Driver \ {d} : at'[e] = at[e]
  BY <1>0, <1>2 DEF VecTypes
<1>6. VecTypes'  BY <1>0, <1>2, <1>5 DEF VecTypes
<1>7. Taken' /\ HeldOnce' /\ Counted'
  <2>1. \A e, i, c, v : Holds(e, i, c, v)' <=> Holds(e, i, c, v)  BY <1>2 DEF Holds
  <2>2. Taken'  BY <1>0, <1>2, <2>1 DEF Taken
  <2>3. HeldOnce'  BY <1>0, <2>1 DEF HeldOnce
  <2>4. Counted'  BY <1>0, <1>2 DEF Counted
  <2> QED BY <2>2, <2>3, <2>4
<1>8. ASSUME NEW c \in Cpu, NEW v \in Usable
      PROVE  hal_intr_desc'[c][v] =
                 IF \E i \in new : all[i] = [cpu |-> c, vec |-> v]
                 THEN <<d, CHOOSE i \in new : all[i] = [cpu |-> c, vec |-> v]>>
                 ELSE hal_intr_desc[c][v]
  BY <1>2
<1>9. ASSUME NEW e \in Driver, NEW i \in DOMAIN desc[e]
      PROVE  LET c == desc[e][i].cpu
                 v == desc[e][i].vec
             IN  /\ i \in Nat /\ c \in Cpu /\ v \in Usable /\ Holds(e, i, c, v)
  <2>1. desc[e] \in Seq(Entry)  BY <1>0 DEF VecTypes
  <2>2. i \in Nat /\ desc[e][i] \in Entry  BY <2>1
  <2> QED BY <2>2 DEF Entry, Holds
<1>10. ASSUME NEW e \in Driver PROVE StageOf(e)' /\ Reached(e)'
  <2>0. StageOf(e) /\ Reached(e) /\ desc' = desc /\ Asked(e)' = Asked(e)  BY <1>0, <1>2 DEF Asked
  <2>1. CASE e = d
    <3>1. StageOf(d)'
      <4>1. at'[d] # "set"  BY <1>5
      <4>2. Len(all) # Num[d] => Len(all) + Asked(d) <= Num[d]  BY <1>1, <1>3, <1>4
      <4> QED BY <2>0, <2>1, <1>4, <1>5, <4>1, <4>2 DEF StageOf
    <3>2. Reached(d)'
      <4> SUFFICES ASSUME NEW i \in DOMAIN desc[d]
                   PROVE  hal_intr_desc'[desc[d][i].cpu][desc[d][i].vec] = <<d, i>>
        BY <2>0 DEF Reached
      <4> DEFINE c == desc[d][i].cpu
                 v == desc[d][i].vec
      <4>1. i \in Nat /\ c \in Cpu /\ v \in Usable /\ Holds(d, i, c, v)  BY <1>9
      <4>2. all[i] = [cpu |-> c, vec |-> v] /\ i \in 1 .. Len(all)  BY <4>1, <1>3 DEF Holds
      <4>3. ASSUME NEW j \in new, all[j] = [cpu |-> c, vec |-> v]
            PROVE  i = j
        <5>1. j \in Nat /\ j \in DOMAIN all  BY <1>1, <1>3, <1>4
        <5>2. Holds(d, j, c, v)  BY <4>3, <5>1 DEF Holds
        <5> QED BY <4>1, <5>1, <5>2, <1>0 DEF HeldOnce
      <4> HIDE DEF c, v
      <4>4. CASE i \in new
        <5>1. \E j \in new : all[j] = [cpu |-> c, vec |-> v]  BY <4>2, <4>4
        <5>2. (CHOOSE j \in new : all[j] = [cpu |-> c, vec |-> v]) = i  BY <5>1, <4>3
        <5>3. hal_intr_desc'[c][v] = <<d, i>>  BY <4>1, <5>1, <5>2, <1>8
        <5> QED BY <5>3 DEF c, v
      <4>5. CASE i \notin new
        <5>1. ~\E j \in new : all[j] = [cpu |-> c, vec |-> v]  BY <4>3, <4>5
        <5>2. hal_intr_desc'[c][v] = hal_intr_desc[c][v]  BY <4>1, <5>1, <1>8
        <5>3. i <= Len(desc[d]) - Asked(d)  BY <4>2, <4>5, <1>1, <1>3
        <5>4. hal_intr_desc[desc[d][i].cpu][desc[d][i].vec] = <<d, i>>
          BY <2>0, <2>1, <5>3, <1>2 DEF Reached
        <5> QED BY <5>2, <5>4 DEF c, v
      <4> QED BY <4>4, <4>5
    <3> QED BY <2>1, <3>1, <3>2
  <2>2. CASE e # d
    <3>1. at'[e] = at[e]  BY <2>2, <1>5
    <3>2. StageOf(e)'  BY <2>0, <3>1 DEF StageOf
    <3>3. ASSUME NEW i \in DOMAIN desc[e]
          PROVE  hal_intr_desc'[desc[e][i].cpu][desc[e][i].vec] = hal_intr_desc[desc[e][i].cpu][desc[e][i].vec]
      <4> DEFINE c == desc[e][i].cpu
                 v == desc[e][i].vec
      <4>1. i \in Nat /\ c \in Cpu /\ v \in Usable /\ Holds(e, i, c, v)  BY <1>9
      <4>2. ASSUME NEW j \in new, all[j] = [cpu |-> c, vec |-> v]
            PROVE  FALSE
        <5>1. j \in Nat /\ j \in DOMAIN all  BY <1>1, <1>3, <1>4
        <5>2. Holds(d, j, c, v)  BY <4>2, <5>1 DEF Holds
        <5> QED BY <2>2, <4>1, <5>1, <5>2, <1>0 DEF HeldOnce
      <4> HIDE DEF c, v
      <4>3. hal_intr_desc'[c][v] = hal_intr_desc[c][v]  BY <4>1, <4>2, <1>8
      <4> QED BY <4>3 DEF c, v
    <3>4. Reached(e)'  BY <2>0, <3>1, <3>3 DEF Reached
    <3> QED BY <3>2, <3>4
  <2> QED BY <2>1, <2>2
<1> QED BY <1>6, <1>7, <1>10 DEF VecInv
\* intr_free of the first descriptor.
LEMMA HoldsUndo ==
    ASSUME VecTypes, NEW d \in Driver, desc[d] # <<>>, desc' = [desc EXCEPT ![d] = Tail(@)]
    PROVE  /\ desc' \in [Driver -> Seq(Entry)]
           /\ Len(desc'[d]) = Len(desc[d]) - 1
           /\ \A i \in Nat, x \in Cpu, w \in Usable :
                 Holds(d, i, x, w)' <=> i # 0 /\ Holds(d, i + 1, x, w)
           /\ \A e \in Driver \ {d} : desc'[e] = desc[e]
<1> DEFINE s == desc[d]
           t == Tail(s)
<1>1. s \in Seq(Entry) /\ s # <<>>  BY DEF VecTypes
<1>2. desc'[d] = t /\ \A e \in Driver \ {d} : desc'[e] = desc[e]  BY DEF VecTypes
<1> HIDE DEF s
<1>3. /\ t \in Seq(Entry) /\ Len(s) \in Nat \ {0} /\ Len(t) = Len(s) - 1
      /\ \A i \in 1 .. Len(t) : t[i] = s[i + 1]
  BY <1>1
<1>4. desc' \in [Driver -> Seq(Entry)]
  <2>1. desc' = [desc EXCEPT ![d] = t]  BY DEF s
  <2> HIDE DEF t
  <2> QED BY <2>1, <1>3 DEF VecTypes
<1>5. DOMAIN s = 1 .. Len(s) /\ DOMAIN t = 1 .. Len(s) - 1  BY <1>1, <1>3
<1> HIDE DEF t
<1>6. ASSUME NEW i \in Nat, NEW x \in Cpu, NEW w \in Usable
      PROVE  Holds(d, i, x, w)' <=> i # 0 /\ Holds(d, i + 1, x, w)
  <2>1. Holds(d, i, x, w)' <=> i \in DOMAIN t /\ t[i] = [cpu |-> x, vec |-> w]  BY <1>2 DEF Holds
  <2>2. Holds(d, i + 1, x, w) <=> i + 1 \in DOMAIN s /\ s[i + 1] = [cpu |-> x, vec |-> w]
    BY DEF Holds, s
  <2>3. i \in DOMAIN t <=> i # 0 /\ i + 1 \in DOMAIN s  BY <1>3, <1>5
  <2>4. i \in DOMAIN t => t[i] = s[i + 1]  BY <1>3, <1>5
  <2> QED BY <2>1, <2>2, <2>3, <2>4
<1>7. Len(desc'[d]) = Len(desc[d]) - 1  BY <1>2, <1>3 DEF s
<1> QED BY <1>2, <1>4, <1>6, <1>7

\* intr_free keeps the invariant.
LEMMA UndoVec ==
    ASSUME VecInv, NEW d \in Driver, Undo(d)
    PROVE  VecInv'
<1> DEFINE c == desc[d][1].cpu
           v == desc[d][1].vec
<1>0. VecTypes /\ Taken /\ HeldOnce /\ Counted /\ \A e \in Driver : StageOf(e) /\ Reached(e)
  BY DEF VecInv
<1>1. desc[d] \in Seq(Entry) /\ desc[d] # <<>>  BY <1>0 DEF VecTypes, Undo
<1>2. /\ at[d] = "undo"
      /\ intr_msk' = [intr_msk EXCEPT ![c] = @ \ {v}]
      /\ intr_freeCnt' = [intr_freeCnt EXCEPT ![c] = @ + 1]
      /\ intr_useCnt' = [intr_useCnt EXCEPT ![c] = @ - 1]
      /\ desc' = [desc EXCEPT ![d] = Tail(@)]
      /\ hal_intr_desc' = hal_intr_desc /\ at' = at
  BY <1>1 DEF Undo
<1>3. c \in Cpu /\ v \in Usable /\ Holds(d, 1, c, v) /\ Len(desc[d]) \in Nat
  <2>1. 1 \in DOMAIN desc[d] /\ desc[d][1] \in Entry /\ Len(desc[d]) \in Nat  BY <1>1
  <2> QED BY <2>1 DEF Entry, Holds
<1> HIDE DEF c, v
<1>4. v \in intr_msk[c]  BY <1>0, <1>3 DEF Taken
<1>5. /\ desc' \in [Driver -> Seq(Entry)]
      /\ Len(desc'[d]) = Len(desc[d]) - 1
      /\ \A i \in Nat, x \in Cpu, w \in Usable :
            Holds(d, i, x, w)' <=> i # 0 /\ Holds(d, i + 1, x, w)
      /\ \A e \in Driver \ {d} : desc'[e] = desc[e]
  BY <1>0, <1>1, <1>2, HoldsUndo
<1>6. \A x \in Cpu : intr_msk'[x] = IF x = c THEN intr_msk[c] \ {v} ELSE intr_msk[x]
  BY <1>0, <1>2, <1>3 DEF VecTypes
<1>7. \A e \in Driver \ {d}, i \in Nat, x \in Cpu, w \in Usable :
          Holds(e, i, x, w)' <=> Holds(e, i, x, w)
  BY <1>5 DEF Holds
<1>8. VecTypes'
  <2>1. intr_msk' \in [Cpu -> SUBSET Vec]  BY <1>0, <1>2 DEF VecTypes
  <2>2. intr_freeCnt' \in [Cpu -> Int] /\ intr_useCnt' \in [Cpu -> Int]
    BY <1>0, <1>2, <1>3 DEF VecTypes
  <2> QED BY <1>0, <1>2, <1>5, <2>1, <2>2 DEF VecTypes
<1>9. ASSUME NEW e \in Driver, NEW i \in Nat, NEW x \in Cpu, NEW w \in Usable, Holds(e, i, x, w)'
      PROVE  ~(x = c /\ w = v) /\ \E j \in Nat : Holds(e, j, x, w)
  <2>1. CASE e = d
    <3>1. i # 0 /\ Holds(d, i + 1, x, w) /\ i + 1 \in Nat /\ i + 1 # 1  BY <2>1, <1>5, <1>9
    <3>2. ~(x = c /\ w = v)  BY <3>1, <1>0, <1>3 DEF HeldOnce
    <3> QED BY <2>1, <3>1, <3>2
  <2>2. CASE e # d
    <3>1. Holds(e, i, x, w)  BY <2>2, <1>7, <1>9
    <3>2. ~(x = c /\ w = v)  BY <2>2, <3>1, <1>0, <1>3 DEF HeldOnce
    <3> QED BY <3>1, <3>2
  <2> QED BY <2>1, <2>2
<1>10. ASSUME NEW e \in Driver, NEW i \in Nat, NEW x \in Cpu, NEW w \in Usable,
              Holds(e, i, x, w), ~(x = c /\ w = v)
       PROVE  \E j \in Nat : Holds(e, j, x, w)'
  <2>1. CASE e = d
    <3>1. i \in 1 .. Len(desc[d]) /\ desc[d][i] = [cpu |-> x, vec |-> w]
      BY <2>1, <1>1, <1>10 DEF Holds
    <3>2. i # 1
      <4>1. desc[d][1] = [cpu |-> c, vec |-> v]  BY <1>3 DEF Holds
      <4> QED BY <3>1, <4>1, <1>10
    <3>3. i - 1 \in Nat /\ i - 1 # 0 /\ (i - 1) + 1 = i  BY <3>1, <3>2
    <3>4. Holds(d, (i - 1) + 1, x, w)  BY <2>1, <3>3, <1>10
    <3>5. Holds(d, i - 1, x, w)'  BY <3>3, <3>4, <1>5
    <3> QED BY <2>1, <3>3, <3>5
  <2>2. CASE e # d  BY <2>2, <1>7, <1>10
  <2> QED BY <2>1, <2>2
<1>11. Taken'
  <2> SUFFICES ASSUME NEW x \in Cpu
               PROVE  /\ Vec \ Usable \subseteq intr_msk'[x]
                      /\ \A w \in Usable : w \in intr_msk'[x] <=>
                             \E e \in Driver, i \in Nat : Holds(e, i, x, w)'
    BY DEF Taken
  <2>1. Vec \ Usable \subseteq intr_msk'[x]  BY <1>0, <1>3, <1>6 DEF Taken
  <2>2. ASSUME NEW w \in Usable
        PROVE  w \in intr_msk'[x] <=> \E e \in Driver, i \in Nat : Holds(e, i, x, w)'
    <3>1. CASE x = c /\ w = v
      <4>1. w \notin intr_msk'[x]  BY <3>1, <1>6
      <4> QED BY <3>1, <4>1, <1>9
    <3>2. CASE ~(x = c /\ w = v)
      <4>1. w \in intr_msk'[x] <=> w \in intr_msk[x]  BY <3>2, <1>6
      <4>2. w \in intr_msk[x] <=> \E e \in Driver, i \in Nat : Holds(e, i, x, w)  BY <1>0 DEF Taken
      <4> QED BY <3>2, <4>1, <4>2, <1>9, <1>10
    <3> QED BY <3>1, <3>2
  <2> QED BY <2>1, <2>2
<1>12. HeldOnce'
  <2> SUFFICES ASSUME NEW x \in Cpu, NEW w \in Usable, NEW e \in Driver, NEW o \in Driver,
                      NEW i \in Nat, NEW j \in Nat, Holds(e, i, x, w)', Holds(o, j, x, w)'
               PROVE  e = o /\ i = j
    BY DEF HeldOnce
  <2>1. PICK k \in Nat : Holds(e, k, x, w) /\ k = IF e = d THEN i + 1 ELSE i
    <3>1. CASE e = d  BY <3>1, <1>5
    <3>2. CASE e # d  BY <3>2, <1>7
    <3> QED BY <3>1, <3>2
  <2>2. PICK l \in Nat : Holds(o, l, x, w) /\ l = IF o = d THEN j + 1 ELSE j
    <3>1. CASE o = d  BY <3>1, <1>5
    <3>2. CASE o # d  BY <3>2, <1>7
    <3> QED BY <3>1, <3>2
  <2>3. e = o /\ k = l  BY <2>1, <2>2, <1>0 DEF HeldOnce
  <2> QED BY <2>1, <2>2, <2>3
<1>13. Counted'
  <2> SUFFICES ASSUME NEW x \in Cpu
               PROVE  /\ intr_freeCnt'[x] = Cardinality(Vec \ intr_msk'[x])
                      /\ intr_useCnt'[x] = Cardinality(intr_msk'[x])
    BY DEF Counted
  <2>1. CASE x = c
    <3> DEFINE M == intr_msk[c]
    <3>1. M \in SUBSET Vec /\ v \in M  BY <1>0, <1>3, <1>4 DEF VecTypes
    <3>2. intr_freeCnt'[x] = intr_freeCnt[c] + 1 /\ intr_useCnt'[x] = intr_useCnt[c] - 1
      BY <2>1, <1>0, <1>2 DEF VecTypes
    <3>3. intr_freeCnt[c] = Cardinality(Vec \ M) /\ intr_useCnt[c] = Cardinality(M)
      BY <1>0, <1>3 DEF Counted
    <3>4. intr_msk'[x] = M \ {v}  BY <2>1, <1>6
    <3> HIDE DEF M
    <3>5. /\ Cardinality(M \ {v}) = Cardinality(M) - 1
          /\ Cardinality(Vec \ (M \ {v})) = Cardinality(Vec \ M) + 1
      BY <3>1, GiveCount
    <3> QED BY <3>2, <3>3, <3>4, <3>5
  <2>2. CASE x # c
    <3>1. intr_freeCnt'[x] = intr_freeCnt[x] /\ intr_useCnt'[x] = intr_useCnt[x] /\ intr_msk'[x] = intr_msk[x]
      BY <2>2, <1>0, <1>2 DEF VecTypes
    <3> QED BY <3>1, <1>0 DEF Counted
  <2> QED BY <2>1, <2>2
<1>14. ASSUME NEW e \in Driver PROVE StageOf(e)' /\ Reached(e)'
  <2>0. StageOf(e) /\ Reached(e) /\ Num[e] \in Nat  BY <1>0, AskedType
  <2>1. CASE e = d
    <3>1. at'[d] = "undo"  BY <1>2
    <3>2. Len(desc'[d]) <= Num[d]  BY <2>0, <2>1, <1>3, <1>5 DEF StageOf
    <3> QED BY <2>1, <3>1, <3>2 DEF StageOf, Reached
  <2>2. CASE e # d
    <3>1. desc'[e] = desc[e] /\ at'[e] = at[e]  BY <2>2, <1>2, <1>5
    <3>2. Asked(e)' = Asked(e)  BY DEF Asked
    <3> QED BY <2>0, <3>1, <3>2, <1>2 DEF StageOf, Reached
  <2> QED BY <2>1, <2>2
<1> QED BY <1>8, <1>11, <1>12, <1>13, <1>14 DEF VecInv

\* A driver that gives up changes nothing but its stage.
LEMMA StopVec ==
    ASSUME VecInv, NEW d \in Driver, NoVector(d) \/ Undone(d)
    PROVE  VecInv'
<1>1. /\ at' \in [Driver -> {"alloc", "set", "on", "undo", "off"}]
      /\ at'[d] \in {"undo", "off"}
      /\ \A e \in Driver \ {d} : at'[e] = at[e]
      /\ UNCHANGED <<intr_msk, intr_freeCnt, intr_useCnt, hal_intr_desc, desc>>
  BY DEF NoVector, Undone, VecInv, VecTypes
<1>2. \A e, i, c, v : Holds(e, i, c, v)' <=> Holds(e, i, c, v)  BY <1>1 DEF Holds
<1>3. VecTypes'  BY <1>1 DEF VecInv, VecTypes
<1>4. Taken'  BY <1>1, <1>2 DEF VecInv, Taken
<1>5. HeldOnce'  BY <1>2 DEF VecInv, HeldOnce
<1>6. Counted'  BY <1>1 DEF VecInv, Counted
<1>7. ASSUME NEW e \in Driver PROVE StageOf(e)' /\ Reached(e)'
  <2>1. StageOf(e) /\ Reached(e) /\ Asked(e)' = Asked(e)  BY DEF VecInv, Asked
  <2>2. CASE e = d
    <3>1. at'[e] \notin {"alloc", "set", "on"}  BY <1>1, <2>2
    <3> QED BY <1>1, <2>1, <3>1 DEF StageOf, Reached
  <2>3. CASE e # d
    <3>1. at'[e] = at[e]  BY <2>3, <1>1
    <3> QED BY <1>1, <2>1, <3>1 DEF StageOf, Reached
  <2> QED BY <2>2, <2>3
<1> QED BY <1>3, <1>4, <1>5, <1>6, <1>7 DEF VecInv

\* The invariant is inductive.
LEMMA VecAlways == IntrSpec => []VecInv
<1>1. ASSUME VecInv, [IntrNext]_intrVars PROVE VecInv'
  <2>1. CASE IntrNext
    <3>1. PICK d \in Driver : Alloc(d) \/ Set(d) \/ NoVector(d) \/ Undo(d) \/ Undone(d)
      BY <2>1 DEF IntrNext
    <3> QED BY <1>1, <3>1, AllocVec, SetVec, UndoVec, StopVec
  <2>2. CASE UNCHANGED intrVars
    <3>1. UNCHANGED <<intr_msk, intr_freeCnt, intr_useCnt, hal_intr_desc, desc, at>>  BY <2>2 DEF intrVars
    <3>2. \A e, i, c, v : Holds(e, i, c, v)' <=> Holds(e, i, c, v)  BY <3>1 DEF Holds
    <3>3. VecTypes' /\ Counted'  BY <1>1, <3>1 DEF VecInv, VecTypes, Counted
    <3>4. Taken'  BY <1>1, <3>1, <3>2 DEF VecInv, Taken
    <3>5. HeldOnce'  BY <1>1, <3>2 DEF VecInv, HeldOnce
    <3>6. \A e \in Driver : StageOf(e)' /\ Reached(e)'
      BY <1>1, <3>1 DEF VecInv, StageOf, Reached, Asked
    <3> QED BY <3>3, <3>4, <3>5, <3>6 DEF VecInv
  <2> QED BY <1>1, <2>1, <2>2
<1> QED BY <1>1, InitVec, PTL DEF IntrSpec

-----------------------------------------------------------------------------
(* What it says. *)

\* The types of the state: masks of vectors, counters within the vectors
\* there are, at most the descriptors that a driver asked for (intr_alloc,
\* intr_free, hw_pci_allocMsix).
THEOREM VectorTypes == IntrSpec => []IntrTypeOK
<1>1. ASSUME VecInv PROVE IntrTypeOK
  <2>1. \A c \in Cpu : intr_freeCnt[c] \in 0 .. Top /\ intr_useCnt[c] \in 0 .. Top
    BY <1>1, CountTypes DEF VecInv
  <2>2. \A d \in Driver : Len(desc[d]) <= Num[d]  BY <1>1 DEF VecInv, StageOf
  <2> QED BY <1>1, <2>1, <2>2 DEF VecInv, VecTypes, IntrTypeOK
<1> QED BY <1>1, VecAlways, PTL

\* Each vector that is taken belongs to one descriptor of one driver, the
\* counters count, and an interrupt of a driver that is set up reaches that
\* driver's descriptor, whatever was set up, failed and was given back
\* before (intr_alloc, intr_free, hal_hw_pci_intr_dispatcher).
THEOREM VectorsOwned == IntrSpec => []VectorOwned
<1>1. ASSUME VecInv PROVE VectorOwned
  <2>0. VecTypes /\ Taken /\ HeldOnce /\ Counted /\ \A e \in Driver : StageOf(e) /\ Reached(e)
    BY <1>1 DEF VecInv
  <2> SUFFICES ASSUME NEW c \in Cpu, NEW v \in Usable
               PROVE  /\ Cardinality(Holders(c, v)) = IF v \in intr_msk[c] THEN 1 ELSE 0
                      /\ \A x \in Holders(c, v) : at[x[1]] = "on" => hal_intr_desc[c][v] = x
    BY <2>0 DEF VectorOwned, Counted
  <2>1. \A x : x \in Holders(c, v) <=>
            \E d \in Driver, i \in Nat : x = <<d, i>> /\ Holds(d, i, c, v)
    <3>1. \A d \in Driver : DOMAIN desc[d] \subseteq Nat
      <4> SUFFICES ASSUME NEW d \in Driver PROVE DOMAIN desc[d] \subseteq Nat  OBVIOUS
      <4>1. desc[d] \in Seq(Entry)  BY <2>0 DEF VecTypes
      <4> QED BY <4>1
    <3> QED BY <3>1 DEF Holders, Holds
  <2>2. CASE v \in intr_msk[c]
    <3>1. PICK d \in Driver, i \in Nat : Holds(d, i, c, v)  BY <2>0, <2>2 DEF Taken
    <3>2. Holders(c, v) = {<<d, i>>}
      <4>1. <<d, i>> \in Holders(c, v)  BY <3>1, <2>1
      <4>2. ASSUME NEW x \in Holders(c, v) PROVE x = <<d, i>>
        <5>1. PICK e \in Driver, j \in Nat : x = <<e, j>> /\ Holds(e, j, c, v)  BY <2>1
        <5>2. e = d /\ j = i  BY <5>1, <3>1, <2>0 DEF HeldOnce
        <5> QED BY <5>1, <5>2
      <4> QED BY <4>1, <4>2
    <3>3. Cardinality(Holders(c, v)) = 1  BY <3>2, FS_Singleton
    <3>4. ASSUME at[d] = "on" PROVE hal_intr_desc[c][v] = <<d, i>>
      <4>1. i \in DOMAIN desc[d] /\ desc[d][i].cpu = c /\ desc[d][i].vec = v  BY <3>1 DEF Holds
      <4>2. Reached(d)  BY <2>0
      <4> QED BY <3>4, <4>1, <4>2 DEF Reached
    <3> QED BY <2>2, <3>2, <3>3, <3>4
  <2>3. CASE v \notin intr_msk[c]
    <3>1. Holders(c, v) = {}  BY <2>0, <2>1, <2>3 DEF Taken
    <3>2. Cardinality(Holders(c, v)) = 0  BY <3>1, FS_EmptySet
    <3> QED BY <2>3, <3>1, <3>2
  <2> QED BY <2>2, <2>3
<1> QED BY <1>1, VecAlways, PTL

-----------------------------------------------------------------------------
(* Ports and slots: the inductive invariant. *)

\* The points of a manager's code up to the start of uninstallDev, those up to
\* the command that disables its slot, and all.
Booted == {"send", "wait", "hlt", "giveUp"}
Owning == Booted \union {"drop", "dropped", "rings", "disbl"}
Points == Owning \union {"none", "disbld", "free", "exit", "gone"}
DevRec == [st : {"none", "live", "freed"}, slotId : Slot \union {None}, ctxFlag : BOOLEAN, epRing : BOOLEAN]
MgrRec == [pc : Points, n : 1 .. Len(Prog), reqWait : Int, res : {"none", "succ", "fail"},
           sig : BOOLEAN, handler : BOOLEAN]

DevTypes ==
    /\ port \in {"off", "on", "reset", "enbl"} /\ eves \in 0 .. MaxEve
    /\ hnd \in [pc : {"idle", "store", "signal"}, dev : Dev \union {None}]
    /\ portDev \in Dev \union {None} /\ hostDev \in [Slot -> Dev \union {None}]
    /\ enbl \subseteq Slot /\ refused \subseteq Slot
    /\ dev \in [Dev -> DevRec] /\ mgr \in [Dev -> MgrRec]
    /\ cmds \in [Dev -> Seq(Cmds)] /\ xfer \in [Dev -> BOOLEAN]

\* What a manager has asked: the answer, the counter, the commands.
Asks(d, r, w, c) == mgr[d].res = r /\ mgr[d].reqWait = w /\ cmds[d] = c

\* A device before the answer to its first request: its slot, the counter of
\* its thread and the ring tell one story.
First(d) ==
    mgr[d].n = 1 =>
        /\ ~mgr[d].handler /\ ~dev[d].epRing
        /\ \/ mgr[d].pc \in {"none", "send"} /\ dev[d].slotId = None /\ Asks(d, "none", 0, <<>>)
           \/ mgr[d].pc = "wait" /\ dev[d].slotId = None /\ Asks(d, "none", 1, <<"EnblSlot">>)
           \/ mgr[d].pc = "wait" /\ dev[d].slotId = None /\ Asks(d, "fail", 0, <<>>)
           \/ mgr[d].pc = "wait" /\ dev[d].slotId # None /\ Asks(d, "succ", 0, <<>>)

\* After it, a manager that goes on has a slot.
Later(d) ==
    mgr[d].n # 1 =>
        /\ mgr[d].pc # "none"
        /\ "EnblSlot" \notin ToSet(cmds[d])
        /\ mgr[d].pc \in {"send", "wait"} => dev[d].slotId # None

\* The memory of a device and the place of its manager; transfers and DisblSlot
\* need a slot.
Life(d) ==
    /\ dev[d].st = "none" <=> mgr[d].pc = "none"
    /\ dev[d].st = "freed" => mgr[d].n # 1
    /\ xfer[d] \/ mgr[d].pc = "disbl" \/ "DisblSlot" \in ToSet(cmds[d]) => dev[d].slotId # None
DevOf(d) == First(d) /\ Later(d) /\ Life(d)

\* host->dev has the last device that got the slot, even when it is gone.
SlotOf ==
    /\ \A s \in Slot : hostDev[s] # None => dev[hostDev[s]].slotId = s
    /\ \A d \in Dev : dev[d].slotId # None => hostDev[dev[d].slotId] # None

\* The device of a port has not begun to uninstall, and the one that the
\* handler has still to store has had no answer.
PortOf ==
    /\ portDev # None => dev[portDev].st = "live" /\ mgr[portDev].pc \in Booted
    /\ hnd.pc = "signal" => hnd.dev # None
    /\ hnd.pc = "store" /\ hnd.dev # None =>
          /\ dev[hnd.dev].st = "live" /\ dev[hnd.dev].slotId = None
          /\ mgr[hnd.dev].n = 1 /\ mgr[hnd.dev].res = "none"

\* The device that answers for a slot is the one in host->dev, not just any
\* that has its number.
Owner ==
    \A s \in enbl \ refused :
        /\ hostDev[s] # None
        /\ \/ "DisblSlot" \in ToSet(cmds[hostDev[s]])
           \/ dev[hostDev[s]].st = "live" /\ mgr[hostDev[s]].pc \in Owning

DevInv == DevTypes /\ (\A d \in Dev : DevOf(d)) /\ SlotOf /\ PortOf /\ Owner

\* A command put into the ring.
LEMMA CmdPut ==
    ASSUME NEW s \in Seq(Cmds), NEW e \in Cmds
    PROVE  /\ Append(s, e) \in Seq(Cmds) /\ ToSet(Append(s, e)) = ToSet(s) \union {e}
           /\ s = <<>> => Append(s, e) = <<e>>
<1> DEFINE u == Append(s, e)
<1>1. /\ u \in Seq(Cmds) /\ DOMAIN u = 1 .. Len(s) + 1 /\ Len(s) \in Nat /\ DOMAIN s = 1 .. Len(s)
      /\ \A i \in 1 .. Len(s) : u[i] = s[i]
      /\ u[Len(s) + 1] = e
  BY AppendProperties, LenProperties
<1>2. s = <<>> => u = <<e>>  BY AppendProperties
<1> HIDE DEF u
<1>3. ToSet(u) = ToSet(s) \union {e}
  <2>1. \A x \in ToSet(u) : x \in ToSet(s) \union {e}  BY <1>1 DEF ToSet
  <2>2. ToSet(s) \subseteq ToSet(u)  BY <1>1 DEF ToSet
  <2>3. e \in ToSet(u)  BY <1>1 DEF ToSet
  <2> QED BY <2>1, <2>2, <2>3
<1> QED BY <1>1, <1>2, <1>3 DEF u

\* The first command taken out.
LEMMA CmdTake ==
    ASSUME NEW s \in Seq(Cmds), s # <<>>
    PROVE  /\ Tail(s) \in Seq(Cmds) /\ Head(s) \in Cmds
           /\ ToSet(s) = {Head(s)} \union ToSet(Tail(s))
           /\ \A c : s = <<c>> => Head(s) = c /\ Tail(s) = <<>>
<1> DEFINE u == Tail(s)
<1>1. /\ u \in Seq(Cmds) /\ Len(s) \in Nat \ {0} /\ DOMAIN s = 1 .. Len(s) /\ DOMAIN u = 1 .. Len(s) - 1
      /\ \A i \in 1 .. Len(s) - 1 : u[i] = s[i + 1]
      /\ Head(s) = s[1] /\ Head(s) \in Cmds
  BY HeadTailProperties, LenProperties, EmptySeq
<1>2. \A c : s = <<c>> => Head(s) = c /\ Tail(s) = <<>>  OBVIOUS
<1> HIDE DEF u
<1>3. ToSet(s) = {Head(s)} \union ToSet(u)
  <2>1. \A x \in ToSet(s) : x \in {Head(s)} \union ToSet(u)
    <3> SUFFICES ASSUME NEW i \in 1 .. Len(s), i # 1 PROVE s[i] \in ToSet(u)  BY <1>1 DEF ToSet
    <3>1. i - 1 \in 1 .. Len(s) - 1 /\ i - 1 + 1 = i  BY <1>1
    <3>2. u[i - 1] = s[i]  BY <1>1, <3>1
    <3> QED BY <1>1, <3>1, <3>2 DEF ToSet
  <2>2. Head(s) \in ToSet(s)  BY <1>1 DEF ToSet
  <2>3. \A i \in 1 .. Len(s) - 1 : i + 1 \in 1 .. Len(s)  BY <1>1
  <2>4. ToSet(u) \subseteq ToSet(s)  BY <1>1, <2>3 DEF ToSet
  <2> QED BY <2>1, <2>2, <2>4
<1> QED BY <1>1, <1>2, <1>3 DEF u

\* Which requests are the first and the one whose answer is not looked at.
LEMMA ProgIs ==
    /\ Len(Prog) = 7 /\ InitEnd = 5
    /\ \A n \in 1 .. 7 : (Prog[n] = "EnblSlot" <=> n = 1) /\ Prog[n] # "DisblSlot"
    /\ Prog[1] = "EnblSlot" /\ Prog[3] = "Desc8"
BY DEF Prog, InitEnd

\* No command at all.
LEMMA NoCmds == ToSet(<<>>) = {}
BY EmptySeq DEF ToSet

\* No device, no slot.
LEMMA DevInvInit == DevInit => DevInv
<1> SUFFICES ASSUME DevInit PROVE DevInv  OBVIOUS
<1> USE DevAssumption, NoCmds DEF DevInit
<1>1. NoMgr \in MgrRec /\ NoDev \in DevRec  BY ProgIs DEF NoMgr, NoDev, MgrRec, DevRec, Points, Owning, Booted
<1>2. DevTypes  BY <1>1, EmptySeq DEF DevTypes
<1>3. ASSUME NEW d \in Dev PROVE DevOf(d)
  <2>1. dev[d] = NoDev /\ mgr[d] = NoMgr /\ cmds[d] = <<>> /\ xfer[d] = FALSE  OBVIOUS
  <2> QED BY <2>1 DEF DevOf, First, Later, Life, Asks, NoDev, NoMgr
<1>4. SlotOf /\ PortOf  BY DEF SlotOf, PortOf, NoDev
<1>5. Owner  BY DEF Owner
<1> QED BY <1>2, <1>3, <1>4, <1>5 DEF DevInv
-----------------------------------------------------------------------------
\* A step of d's manager, or an answer to it, changes nothing of another.
Alone(d) ==
    \A x \in Dev : x # d => /\ mgr'[x] = mgr[x] /\ dev'[x] = dev[x] /\ cmds'[x] = cmds[x]
                            /\ xfer'[x] => xfer[x]
KeepsPort(d) ==
    /\ hnd' = hnd
    /\ \/ portDev' = None
       \/ portDev' = portDev /\ (mgr[d].pc \in Booted => mgr'[d].pc \in Booted /\ dev'[d].st = dev[d].st)
    /\ hnd.pc = "store" /\ hnd.dev = d =>
          dev'[d].st = dev[d].st /\ mgr'[d].n = mgr[d].n /\ mgr'[d].res = mgr[d].res
KeepsSlot(d) ==
    /\ hostDev' = hostDev /\ dev'[d].slotId = dev[d].slotId
    /\ enbl' \ refused' \subseteq enbl \ refused
    /\ dev[d].slotId \in enbl' \ refused' =>
          /\ "DisblSlot" \in ToSet(cmds[d]) => "DisblSlot" \in ToSet(cmds'[d])
          /\ dev[d].st = "live" /\ mgr[d].pc \in Owning =>
                (dev'[d].st = "live" /\ mgr'[d].pc \in Owning) \/ "DisblSlot" \in ToSet(cmds'[d])

\* Then the port and the slots are as they should be.
LEMMA OwnStep ==
    ASSUME DevInv, NEW d \in Dev, DevTypes', Alone(d), DevOf(d)', KeepsPort(d), KeepsSlot(d)
    PROVE  DevInv'
<1> USE DevAssumption
<1>1. DevTypes /\ SlotOf /\ PortOf /\ Owner /\ \A x \in Dev : DevOf(x)  BY DEF DevInv
<1>2. \A x \in Dev : DevOf(x)'
  <2> SUFFICES ASSUME NEW x \in Dev, x # d PROVE DevOf(x)'  OBVIOUS
  <2>1. mgr'[x] = mgr[x] /\ dev'[x] = dev[x] /\ cmds'[x] = cmds[x] /\ (xfer'[x] => xfer[x])  BY DEF Alone
  <2>2. DevOf(x)  BY <1>1
  <2> QED BY <2>1, <2>2 DEF DevOf, First, Later, Life, Asks
<1>3. \A x \in Dev : dev'[x].slotId = dev[x].slotId  BY DEF Alone, KeepsSlot
<1>4. SlotOf'
  <2>1. hostDev' = hostDev /\ hostDev \in [Slot -> Dev \union {None}]  BY <1>1 DEF KeepsSlot, DevTypes
  <2>2. \A s \in Slot : hostDev[s] # None => hostDev[s] \in Dev  BY <2>1
  <2> QED BY <1>1, <1>3, <2>1, <2>2 DEF SlotOf
<1>5. PortOf'
  <2>1. portDev \in Dev \union {None} /\ hnd.dev \in Dev \union {None}  BY <1>1 DEF DevTypes
  <2>2. portDev' # None => dev'[portDev'].st = "live" /\ mgr'[portDev'].pc \in Booted
    <3> SUFFICES ASSUME portDev' # None PROVE dev'[portDev].st = "live" /\ mgr'[portDev].pc \in Booted
      BY DEF KeepsPort
    <3>1. portDev' = portDev /\ (mgr[d].pc \in Booted => mgr'[d].pc \in Booted /\ dev'[d].st = dev[d].st)
      BY DEF KeepsPort
    <3>2. dev[portDev].st = "live" /\ mgr[portDev].pc \in Booted  BY <1>1, <3>1 DEF PortOf
    <3>3. CASE portDev = d  BY <3>1, <3>2, <3>3
    <3>4. CASE portDev # d  BY <2>1, <3>1, <3>2, <3>4 DEF Alone
    <3> QED BY <3>3, <3>4
  <2>3. hnd' = hnd /\ (hnd.pc = "signal" => hnd.dev # None)  BY <1>1 DEF KeepsPort, PortOf
  <2>4. ASSUME hnd.pc = "store", hnd.dev # None
        PROVE  /\ dev'[hnd.dev].st = "live" /\ dev'[hnd.dev].slotId = None
               /\ mgr'[hnd.dev].n = 1 /\ mgr'[hnd.dev].res = "none"
    <3>1. /\ dev[hnd.dev].st = "live" /\ dev[hnd.dev].slotId = None
          /\ mgr[hnd.dev].n = 1 /\ mgr[hnd.dev].res = "none"
      BY <1>1, <2>4 DEF PortOf
    <3>2. dev'[hnd.dev].slotId = None  BY <1>3, <2>1, <2>4, <3>1
    <3>3. CASE hnd.dev = d  BY <2>4, <3>1, <3>2, <3>3 DEF KeepsPort
    <3>4. CASE hnd.dev # d  BY <2>1, <2>4, <3>1, <3>2, <3>4 DEF Alone
    <3> QED BY <3>3, <3>4
  <2> QED BY <2>2, <2>3, <2>4 DEF PortOf
<1>6. Owner'
  <2> SUFFICES ASSUME NEW s \in enbl' \ refused'
               PROVE  /\ hostDev[s] # None
                      /\ \/ "DisblSlot" \in ToSet(cmds'[hostDev[s]])
                         \/ dev'[hostDev[s]].st = "live" /\ mgr'[hostDev[s]].pc \in Owning
    BY DEF Owner, KeepsSlot
  <2>1. s \in enbl \ refused /\ s \in Slot  BY <1>1 DEF KeepsSlot, DevTypes
  <2> DEFINE o == hostDev[s]
  <2>2. /\ o # None
        /\ "DisblSlot" \in ToSet(cmds[o]) \/ (dev[o].st = "live" /\ mgr[o].pc \in Owning)
    BY <1>1, <2>1 DEF Owner
  <2>3. o \in Dev /\ dev[o].slotId = s  BY <1>1, <2>1, <2>2 DEF DevTypes, SlotOf
  <2> HIDE DEF o
  <2>4. CASE o = d  BY <2>2, <2>3, <2>4 DEF KeepsSlot, o
  <2>5. CASE o # d  BY <2>2, <2>3, <2>5 DEF Alone, o
  <2> QED BY <2>4, <2>5
<1> QED BY <1>2, <1>4, <1>5, <1>6 DEF DevInv
-----------------------------------------------------------------------------
(* The manager. *)

\* What is known of one device.
LEMMA DevHas ==
    ASSUME DevInv, NEW d \in Dev
    PROVE  /\ DevOf(d) /\ mgr[d] \in MgrRec /\ dev[d] \in DevRec /\ cmds[d] \in Seq(Cmds) /\ xfer[d] \in BOOLEAN
           /\ mgr[d].n \in 1 .. 7 /\ mgr[d].reqWait \in Int /\ mgr[d].pc \in Points
BY ProgIs DEF DevInv, DevTypes, MgrRec

\* A request of the program: a transfer needs a slot, which all but the first
\* request have (hw_usb_xhci_devInit, hw_usb_hid_config).
LEMMA SendKeeps ==
    ASSUME DevInv, NEW d \in Dev, Send(d)
    PROVE  DevInv'
<1> USE DevAssumption
<1> DEFINE tp == Prog[mgr[d].n]
<1>1. DevTypes /\ DevOf(d) /\ mgr[d] \in MgrRec /\ dev[d] \in DevRec /\ cmds[d] \in Seq(Cmds) /\ mgr[d].n \in 1 .. 7
  BY DevHas DEF DevInv
<1>2. (tp = "EnblSlot" <=> mgr[d].n = 1) /\ tp # "DisblSlot"  BY <1>1, ProgIs
<1> HIDE DEF tp
<1>3. /\ mgr[d].pc = "send"
      /\ \/ tp \in Cmds /\ cmds' = [cmds EXCEPT ![d] = Append(@, tp)] /\ UNCHANGED xfer
         \/ tp \notin Cmds /\ xfer' = [xfer EXCEPT ![d] = TRUE] /\ UNCHANGED cmds
      /\ dev' = [dev EXCEPT ![d].epRing = @ \/ tp = "AddrDev", ![d].ctxFlag = @ \/ tp = "CfgEp"]
      /\ mgr' = [mgr EXCEPT ![d].pc = "wait", ![d].reqWait = @ + 1]
      /\ UNCHANGED <<port, eves, hnd, portDev, hostDev, enbl, refused>>
  BY DEF Send, tp
<1>4. mgr'[d] = [mgr[d] EXCEPT !.pc = "wait", !.reqWait = @ + 1]
  BY <1>1, <1>3 DEF DevTypes
<1>13. dev'[d] = [dev[d] EXCEPT !.epRing = @ \/ tp = "AddrDev", !.ctxFlag = @ \/ tp = "CfgEp"]
  <2> DEFINE a == tp = "AddrDev"
             b == tp = "CfgEp"
  <2>1. dev' = [dev EXCEPT ![d].epRing = @ \/ a, ![d].ctxFlag = @ \/ b]  BY <1>3
  <2> HIDE DEF a, b
  <2>2. dev'[d] = [dev[d] EXCEPT !.epRing = @ \/ a, !.ctxFlag = @ \/ b]  BY <1>1, <2>1 DEF DevTypes
  <2> QED BY <2>2 DEF a, b
<1>14. mgr'[d] \in MgrRec
  <2>1. "wait" \in Points /\ mgr[d].reqWait + 1 \in Int  BY <1>1 DEF MgrRec, Points, Owning, Booted
  <2> QED BY <1>1, <1>4, <2>1 DEF MgrRec
<1>15. (dev[d].epRing \/ tp = "AddrDev") \in BOOLEAN /\ (dev[d].ctxFlag \/ tp = "CfgEp") \in BOOLEAN  OBVIOUS
<1>16. dev'[d] \in DevRec  BY <1>1, <1>13, <1>15 DEF DevRec
<1>5. mgr'[d] \in MgrRec /\ dev'[d] \in DevRec  BY <1>14, <1>16
<1>6. /\ mgr'[d].n = mgr[d].n /\ mgr'[d].res = mgr[d].res /\ mgr'[d].pc = "wait" /\ mgr'[d].handler = mgr[d].handler
      /\ mgr'[d].reqWait = mgr[d].reqWait + 1 /\ dev'[d].slotId = dev[d].slotId /\ dev'[d].st = dev[d].st
      /\ (dev'[d].epRing => dev[d].epRing \/ tp = "AddrDev")
  BY <1>1, <1>4, <1>13 DEF MgrRec, DevRec
<1>7. /\ cmds'[d] \in Seq(Cmds)
      /\ \/ tp \in Cmds /\ ToSet(cmds'[d]) = ToSet(cmds[d]) \union {tp} /\ (cmds[d] = <<>> => cmds'[d] = <<tp>>)
         \/ tp \notin Cmds /\ cmds'[d] = cmds[d]
  <2>1. CASE tp \in Cmds
    <3>1. cmds'[d] = Append(cmds[d], tp)  BY <1>1, <1>3, <2>1, Zenon DEF DevTypes
    <3> QED BY <1>1, <2>1, <3>1, CmdPut
  <2>2. CASE tp \notin Cmds  BY <1>1, <1>3, <2>2
  <2> QED BY <2>1, <2>2
<1>8. DevTypes'
  BY <1>1, <1>3, <1>5, <1>7 DEF DevTypes
<1>9. Alone(d)  BY <1>1, <1>3 DEF Alone, DevTypes
<1>10. DevOf(d)'
  <2>1. mgr[d].pc = "send" /\ First(d) /\ Later(d) /\ Life(d)  BY <1>1, <1>3 DEF DevOf
  <2>2. First(d)'
    <3> SUFFICES ASSUME mgr[d].n = 1 PROVE First(d)'  BY <1>6 DEF First
    <3>1. ~mgr[d].handler /\ ~dev[d].epRing /\ dev[d].slotId = None /\ Asks(d, "none", 0, <<>>)
      BY <2>1 DEF First
    <3>2. tp = "EnblSlot" /\ tp \in Cmds  BY <1>2 DEF Cmds
    <3> QED BY <1>6, <1>7, <3>1, <3>2 DEF First, Asks
  <2>3. Later(d)'  BY <1>2, <1>6, <1>7, <2>1 DEF Later
  <2>4. xfer'[d] => dev[d].slotId # None
    <3>1. tp \notin Cmds => mgr[d].n # 1  BY <1>2 DEF Cmds
    <3> QED BY <1>1, <1>3, <2>1, <3>1 DEF DevTypes, Life, Later
  <2>5. Life(d)'  BY <1>2, <1>6, <1>7, <2>1, <2>4 DEF Life
  <2> QED BY <2>2, <2>3, <2>5 DEF DevOf
<1>11. KeepsPort(d)  BY <1>3, <1>6 DEF KeepsPort, Booted
<1>12. KeepsSlot(d)  BY <1>3, <1>6, <1>7 DEF KeepsSlot, Owning, Booted
<1> QED BY <1>8, <1>9, <1>10, <1>11, <1>12, OwnStep

\* Without an answer to the first request its manager waits.
LEMMA FirstWaits ==
    ASSUME DevInv, NEW d \in Dev, mgr[d].pc = "wait", mgr[d].reqWait <= 0
    PROVE  /\ ~(hnd.pc = "store" /\ hnd.dev = d)
           /\ mgr[d].n = 1 => Seen(d) = mgr[d].res /\ (mgr[d].res = "succ" <=> dev[d].slotId # None)
           /\ mgr[d].n = 1 => "EnblSlot" \notin ToSet(cmds[d])
<1>1. First(d) /\ PortOf  BY DevHas DEF DevInv, DevOf
<1>2. ~(hnd.pc = "store" /\ hnd.dev = d)  BY <1>1, DevAssumption DEF PortOf, First, Asks
<1>3. mgr[d].n = 1 => Seen(d) = mgr[d].res  BY ProgIs DEF Seen
<1> QED BY <1>1, <1>2, <1>3, NoCmds DEF First, Asks

\* The return from a request: to the next one only after a success.
LEMMA ReturnsKeeps ==
    ASSUME DevInv, NEW d \in Dev, RequestReturns(d)
    PROVE  DevInv'
<1> USE DevAssumption
<1> DEFINE n == mgr[d].n
           m == IF n < Len(Prog) THEN n + 1 ELSE n
<1>1. DevTypes /\ DevOf(d) /\ mgr[d] \in MgrRec /\ dev[d] \in DevRec /\ cmds[d] \in Seq(Cmds) /\ n \in 1 .. 7
  BY DevHas DEF DevInv
<1>2. PICK pc \in Go(d) :
        /\ mgr[d].pc = "wait" /\ mgr[d].reqWait <= 0
        /\ mgr' = [mgr EXCEPT ![d] = [@ EXCEPT
                      !.pc = pc, !.res = "none", !.n = m,
                      !.handler = @ \/ (n = InitEnd /\ Seen(d) = "succ")]]
        /\ UNCHANGED <<port, eves, hnd, portDev, hostDev, enbl, refused, dev, cmds, xfer>>
  BY DEF RequestReturns
<1>3. m \in 1 .. 7 /\ m # 1 /\ Len(Prog) = 7  BY <1>1, ProgIs
<1> HIDE DEF m
<1>4. pc \in {"send", "giveUp", "hlt"} /\ (pc = "send" => Seen(d) = "succ")
  BY <1>2 DEF Go
<1>5. (n = InitEnd /\ Seen(d) = "succ") \in BOOLEAN  OBVIOUS
<1>6. mgr'[d] \in MgrRec /\ mgr'[d].n = m /\ mgr'[d].pc = pc
  BY <1>1, <1>2, <1>3, <1>4, <1>5 DEF DevTypes, MgrRec, Points, Owning, Booted
<1>7. DevTypes'  BY <1>1, <1>2, <1>6 DEF DevTypes
<1>8. Alone(d)  BY <1>1, <1>2 DEF Alone, DevTypes
<1>9. DevOf(d)'
  <2>1. First(d)'  BY <1>3, <1>6 DEF First
  <2>2. "EnblSlot" \notin ToSet(cmds[d])  BY <1>1, <1>2, FirstWaits DEF DevOf, Later
  <2>3. pc = "send" => dev[d].slotId # None
    <3>1. n = 1 => (pc = "send" => dev[d].slotId # None)  BY <1>2, <1>4, FirstWaits
    <3>2. n # 1 => dev[d].slotId # None  BY <1>1, <1>2 DEF DevOf, Later
    <3> QED BY <3>1, <3>2
  <2>4. Later(d)'  BY <1>2, <1>4, <1>6, <2>2, <2>3 DEF Later
  <2>5. Life(d)'  BY <1>1, <1>2, <1>3, <1>4, <1>6 DEF DevOf, Life
  <2> QED BY <2>1, <2>4, <2>5 DEF DevOf
<1>10. KeepsPort(d)  BY <1>2, <1>4, <1>6, FirstWaits DEF KeepsPort, Booted
<1>11. KeepsSlot(d)  BY <1>2, <1>4, <1>6 DEF KeepsSlot, Owning, Booted
<1> QED BY <1>7, <1>8, <1>9, <1>10, <1>11, OwnStep
\* A manager past its first request that goes on to something else than a
\* request of its program.
Onward(d) ==
    /\ DevTypes' /\ Alone(d) /\ UNCHANGED <<hnd, hostDev, enbl, refused, xfer>>
    /\ mgr'[d].n = mgr[d].n /\ mgr'[d].pc \notin {"none", "send", "wait"}
    /\ mgr'[d].pc = "disbl" => dev[d].slotId # None
    /\ dev'[d].slotId = dev[d].slotId
    /\ dev'[d].st = dev[d].st \/ (mgr[d].pc = "free" /\ dev'[d].st = "freed")
    /\ \/ cmds'[d] = cmds[d]
       \/ ToSet(cmds'[d]) = ToSet(cmds[d]) \union {"EvalCtx"}
       \/ ToSet(cmds'[d]) = ToSet(cmds[d]) \union {"DisblSlot"} /\ mgr[d].pc = "disbl"
    /\ portDev' = None \/ (portDev' = portDev /\ (mgr[d].pc \in Booted => mgr'[d].pc \in Booted))
    /\ mgr[d].pc \in Owning => \/ mgr'[d].pc \in Owning
                               \/ "DisblSlot" \in ToSet(cmds'[d])
                               \/ dev[d].slotId = None

\* Such a step keeps the invariant.
LEMMA OnwardKeeps ==
    ASSUME DevInv, NEW d \in Dev, mgr[d].n # 1, Onward(d)
    PROVE  DevInv'
<1> USE DevAssumption
<1>1. DevTypes /\ PortOf /\ Later(d) /\ Life(d)  BY DevHas DEF DevInv, DevOf
<1>2. First(d)'  BY DEF Onward, First
<1>3. Later(d)'  BY <1>1 DEF Onward, Later
<1>4. Life(d)'
  <2>1. mgr[d].pc # "none" /\ dev[d].st # "none"  BY <1>1 DEF Later, Life
  <2>2. dev'[d].st # "none" /\ mgr'[d].pc # "none"  BY <2>1 DEF Onward
  <2> QED BY <1>1, <2>2 DEF Onward, Life
<1>5. KeepsPort(d)
  <2>1. ~(hnd.pc = "store" /\ hnd.dev = d)  BY <1>1 DEF PortOf
  <2> QED BY <2>1 DEF KeepsPort, Onward, Booted
<1>6. KeepsSlot(d)
  <2>1. dev[d].slotId \in enbl' \ refused' => dev[d].slotId # None  BY <1>1 DEF Onward, DevTypes
  <2>2. mgr[d].pc \in Owning => mgr[d].pc # "free"  BY DEF Owning, Booted
  <2> QED BY <2>1, <2>2 DEF KeepsSlot, Onward
<1> QED BY <1>2, <1>3, <1>4, <1>5, <1>6, OwnStep DEF Onward, DevOf

\* What moves a manager from one point of uninstallDev to the next.
LEMMA Moves ==
    ASSUME DevInv, NEW d \in Dev, NEW to \in Points, NEW w \in Int, NEW g \in BOOLEAN,
           mgr' = [mgr EXCEPT ![d].pc = to, ![d].reqWait = w, ![d].sig = g]
    PROVE  /\ mgr' \in [Dev -> MgrRec] /\ mgr'[d].pc = to /\ mgr'[d].n = mgr[d].n
           /\ \A x \in Dev : x # d => mgr'[x] = mgr[x]
<1>1. mgr \in [Dev -> MgrRec] /\ mgr[d] \in MgrRec  BY DevHas DEF DevInv, DevTypes
<1>2. mgr'[d] = [mgr[d] EXCEPT !.pc = to, !.reqWait = w, !.sig = g]  BY <1>1
<1>3. mgr'[d] \in MgrRec /\ mgr'[d].pc = to /\ mgr'[d].n = mgr[d].n  BY <1>1, <1>2 DEF MgrRec
<1> QED BY <1>1, <1>3

\* Neither uninstallDev nor a handler comes before the first answer.
LEMMA PastFirst ==
    ASSUME DevInv, NEW d \in Dev, mgr[d].pc \notin {"none", "send", "wait"} \/ mgr[d].handler
    PROVE  mgr[d].n # 1
BY DevHas DEF DevOf, First

\* A signal takes the manager back to the start of uninstallDev, from any point.
LEMMA ScanKeeps ==
    ASSUME DevInv, NEW d \in Dev, Scan(d)
    PROVE  DevInv'
<1>1. /\ mgr[d].handler /\ mgr' = [mgr EXCEPT ![d].sig = FALSE, ![d].pc = "giveUp"]
      /\ UNCHANGED <<port, eves, hnd, portDev, hostDev, enbl, refused, dev, cmds, xfer>>
  BY DEF Scan
<1>2. mgr[d].n # 1  BY <1>1, PastFirst
<1>3. mgr \in [Dev -> MgrRec] /\ mgr[d] \in MgrRec /\ "giveUp" \in Points /\ mgr[d].reqWait \in Int
  BY DevHas DEF DevInv, DevTypes, Points, Owning, Booted
<1>4. mgr' = [mgr EXCEPT ![d].pc = "giveUp", ![d].reqWait = mgr[d].reqWait, ![d].sig = FALSE]
  BY <1>1, <1>3 DEF MgrRec
<1>5. /\ mgr' \in [Dev -> MgrRec] /\ mgr'[d].pc = "giveUp" /\ mgr'[d].n = mgr[d].n
      /\ \A x \in Dev : x # d => mgr'[x] = mgr[x]
  BY <1>3, <1>4, Moves
<1>6. Onward(d)  BY <1>1, <1>5 DEF Onward, Alone, DevTypes, Owning, Booted, DevInv
<1> QED BY <1>2, <1>6, OnwardKeeps
\* The same for a step that keeps the signal.
LEMMA Steps ==
    ASSUME DevInv, NEW d \in Dev, NEW to \in Points, NEW w \in Int, mgr[d].pc \notin {"none", "send", "wait"},
           \/ mgr' = [mgr EXCEPT ![d].pc = to, ![d].reqWait = w]
           \/ mgr' = [mgr EXCEPT ![d].pc = to]
    PROVE  /\ mgr' \in [Dev -> MgrRec] /\ mgr'[d].pc = to /\ mgr'[d].n = mgr[d].n /\ mgr[d].n # 1
           /\ \A x \in Dev : x # d => mgr'[x] = mgr[x]
<1>1. mgr \in [Dev -> MgrRec] /\ mgr[d] \in MgrRec  BY DevHas DEF DevInv, DevTypes
<1>2. mgr[d].sig \in BOOLEAN /\ mgr[d].reqWait \in Int  BY <1>1 DEF MgrRec
<1>3. CASE mgr' = [mgr EXCEPT ![d].pc = to, ![d].reqWait = w]
  <2>1. mgr' = [mgr EXCEPT ![d].pc = to, ![d].reqWait = w, ![d].sig = mgr[d].sig]  BY <1>1, <1>3 DEF MgrRec
  <2> QED BY <1>2, <2>1, Moves, PastFirst
<1>4. CASE mgr' = [mgr EXCEPT ![d].pc = to]
  <2>1. mgr' = [mgr EXCEPT ![d].pc = to, ![d].reqWait = mgr[d].reqWait, ![d].sig = mgr[d].sig]
    BY <1>1, <1>4 DEF MgrRec
  <2> QED BY <1>2, <2>1, Moves, PastFirst
<1> QED BY <1>3, <1>4

\* The start of uninstallDev clears the port's device.
LEMMA GiveUpKeeps ==
    ASSUME DevInv, NEW d \in Dev, ClearPortDev(d)
    PROVE  DevInv'
<1> DEFINE to == IF dev[d].ctxFlag THEN "drop" ELSE "rings"
<1>1. /\ mgr[d].pc = "giveUp" /\ mgr' = [mgr EXCEPT ![d].pc = to, ![d].reqWait = 0] /\ portDev' = None
      /\ UNCHANGED <<port, eves, hnd, hostDev, enbl, refused, dev, cmds, xfer>>
  BY DEF ClearPortDev, GiveUp
<1>2. to \in Points /\ to \in Owning /\ to \notin {"none", "send", "wait", "disbl"}  BY DEF Points, Owning
<1> HIDE DEF to
<1>3. /\ mgr' \in [Dev -> MgrRec] /\ mgr'[d].pc = to /\ mgr'[d].n = mgr[d].n /\ mgr[d].n # 1
      /\ \A x \in Dev : x # d => mgr'[x] = mgr[x]
  <2>1. 0 \in Int /\ mgr[d].pc \notin {"none", "send", "wait"}  BY <1>1
  <2>2. mgr' = [mgr EXCEPT ![d].pc = to, ![d].reqWait = 0]  BY <1>1
  <2> QED BY <1>2, <2>1, <2>2, Steps, Zenon
<1>4. Onward(d)  BY <1>1, <1>2, <1>3 DEF Onward, Alone, DevTypes, DevInv
<1> QED BY <1>3, <1>4, OnwardKeeps

\* The two commands of uninstallDev.
LEMMA CommandKeeps ==
    ASSUME DevInv, NEW d \in Dev, DropEndpoints(d) \/ DisblSlot(d)
    PROVE  DevInv'
<1> DEFINE from == IF DropEndpoints(d) THEN "drop" ELSE "disbl"
           to == IF DropEndpoints(d) THEN "dropped" ELSE "disbld"
           tp == IF DropEndpoints(d) THEN "EvalCtx" ELSE "DisblSlot"
<1>1. Command(d, tp, from, to)  BY DEF DropEndpoints, DisblSlot
<1>2. /\ tp \in Cmds /\ to \in Points /\ to \notin {"none", "send", "wait", "disbl"} /\ to \notin Booted
      /\ from \notin {"none", "send", "wait"} /\ from \notin Booted
      /\ (tp = "DisblSlot" /\ from = "disbl") \/ (tp = "EvalCtx" /\ to \in Owning)
  BY DEF Points, Owning, Booted, Cmds
<1> HIDE DEF from, to, tp
<1>3. /\ mgr[d].pc = from /\ mgr' = [mgr EXCEPT ![d].pc = to, ![d].reqWait = mgr[d].reqWait + 1]
      /\ cmds' = [cmds EXCEPT ![d] = Append(cmds[d], tp)]
      /\ UNCHANGED <<port, eves, hnd, portDev, hostDev, enbl, refused, dev, xfer>>
  BY <1>1 DEF Command
<1>4. DevTypes /\ mgr[d].reqWait + 1 \in Int /\ cmds[d] \in Seq(Cmds)  BY DevHas DEF DevInv
<1>5. /\ mgr' \in [Dev -> MgrRec] /\ mgr'[d].pc = to /\ mgr'[d].n = mgr[d].n /\ mgr[d].n # 1
      /\ \A x \in Dev : x # d => mgr'[x] = mgr[x]
  BY <1>2, <1>3, <1>4, Steps
<1>6. /\ cmds' \in [Dev -> Seq(Cmds)] /\ ToSet(cmds'[d]) = ToSet(cmds[d]) \union {tp}
      /\ \A x \in Dev : x # d => cmds'[x] = cmds[x]
  BY <1>2, <1>3, <1>4, CmdPut DEF DevTypes
<1>7. DevTypes'  BY <1>3, <1>4, <1>5, <1>6 DEF DevTypes
<1>8. Alone(d)  BY <1>3, <1>5, <1>6 DEF Alone
<1>9. Onward(d)  BY <1>2, <1>3, <1>5, <1>6, <1>7, <1>8 DEF Onward
<1> QED BY <1>5, <1>9, OnwardKeeps

\* The returns from them, and the end of the thread.
LEMMA ReturnKeeps ==
    ASSUME DevInv, NEW d \in Dev, Dropped(d) \/ Disbld(d) \/ Exit(d)
    PROVE  DevInv'
<1> DEFINE from == IF Dropped(d) THEN "dropped" ELSE IF Disbld(d) THEN "disbld" ELSE "exit"
           to == IF Dropped(d) THEN "rings" ELSE IF Disbld(d) THEN "free" ELSE "gone"
<1>1. /\ mgr[d].pc = from /\ mgr' = [mgr EXCEPT ![d].pc = to]
      /\ UNCHANGED <<port, eves, hnd, portDev, hostDev, enbl, refused, dev, cmds, xfer>>
  BY DEF Dropped, Disbld, Exit, Returns, Becomes
<1>2. /\ to \in Points /\ to \notin {"none", "send", "wait", "disbl"} /\ to \notin Booted
      /\ from \notin {"none", "send", "wait"} /\ from \notin Booted
      /\ from \in Owning => to \in Owning
  BY DEF Points, Owning, Booted
<1> HIDE DEF from, to
<1>3. /\ mgr' \in [Dev -> MgrRec] /\ mgr'[d].pc = to /\ mgr'[d].n = mgr[d].n /\ mgr[d].n # 1
      /\ \A x \in Dev : x # d => mgr'[x] = mgr[x]
  BY <1>1, <1>2, DevHas, Steps
<1>4. Onward(d)  BY <1>1, <1>2, <1>3 DEF Onward, Alone, DevTypes, DevInv
<1> QED BY <1>3, <1>4, OnwardKeeps

\* Rings and memory are freed: a device with a slot asks for its end before.
LEMMA FreeKeeps ==
    ASSUME DevInv, NEW d \in Dev, FreeRings(d) \/ FreeDev(d)
    PROVE  DevInv'
<1> DEFINE from == IF FreeRings(d) THEN "rings" ELSE "free"
           to == IF FreeRings(d) THEN (IF HasSlot(d) THEN "disbl" ELSE "free") ELSE "exit"
<1>1. /\ mgr[d].pc = from /\ mgr' = [mgr EXCEPT ![d].pc = to]
      /\ UNCHANGED <<port, eves, hnd, portDev, hostDev, enbl, refused, cmds, xfer>>
  BY DEF FreeRings, FreeDev, Becomes
<1>2. /\ to \in Points /\ to \notin {"none", "send", "wait"} /\ to \notin Booted
      /\ from \notin {"none", "send", "wait"} /\ from \notin Booted
      /\ from \in Owning => to \in Owning \/ dev[d].slotId = None
      /\ to = "disbl" => dev[d].slotId # None
  BY DEF Points, Owning, Booted, HasSlot
<1>3. dev \in [Dev -> DevRec] /\ dev[d] \in DevRec  BY DevHas DEF DevInv, DevTypes
<1>4. \/ dev' = [dev EXCEPT ![d].epRing = FALSE]
      \/ dev' = [dev EXCEPT ![d].st = "freed"] /\ from = "free"
  BY DEF FreeRings, FreeDev
<1> HIDE DEF from, to
<1>5. /\ dev' \in [Dev -> DevRec] /\ dev'[d].slotId = dev[d].slotId
      /\ dev'[d].st = dev[d].st \/ (from = "free" /\ dev'[d].st = "freed")
      /\ \A x \in Dev : x # d => dev'[x] = dev[x]
  <2>1. CASE dev' = [dev EXCEPT ![d].epRing = FALSE]  BY <1>3, <2>1 DEF DevRec
  <2>2. CASE dev' = [dev EXCEPT ![d].st = "freed"] /\ from = "free"  BY <1>3, <2>2 DEF DevRec
  <2> QED BY <1>4, <2>1, <2>2
<1>6. /\ mgr' \in [Dev -> MgrRec] /\ mgr'[d].pc = to /\ mgr'[d].n = mgr[d].n /\ mgr[d].n # 1
      /\ \A x \in Dev : x # d => mgr'[x] = mgr[x]
  BY <1>1, <1>2, DevHas, Steps
<1>7. DevTypes'  BY <1>1, <1>5, <1>6 DEF DevTypes, DevInv
<1>8. Alone(d)  BY <1>1, <1>5, <1>6 DEF Alone
<1>9. Onward(d)  BY <1>1, <1>2, <1>5, <1>6, <1>7, <1>8 DEF Onward
<1> QED BY <1>6, <1>9, OnwardKeeps
-----------------------------------------------------------------------------
(* The answers of the controller. *)

\* What the answer to a request changes.
LEMMA Answered ==
    ASSUME DevInv, NEW d \in Dev, NEW res \in {"succ", "fail"}, Answer(d, res)
    PROVE  /\ mgr' \in [Dev -> MgrRec]
           /\ mgr'[d].pc = mgr[d].pc /\ mgr'[d].n = mgr[d].n /\ mgr'[d].handler = mgr[d].handler
           /\ mgr'[d].res = res /\ mgr'[d].reqWait = mgr[d].reqWait - 1
           /\ \A x \in Dev : x # d => mgr'[x] = mgr[x]
<1>1. mgr \in [Dev -> MgrRec] /\ mgr[d] \in MgrRec  BY DevHas DEF DevInv, DevTypes
<1>2. mgr' = [mgr EXCEPT ![d].reqWait = mgr[d].reqWait - 1, ![d].res = res]  BY DEF Answer
<1>3. mgr'[d] = [mgr[d] EXCEPT !.reqWait = mgr[d].reqWait - 1, !.res = res]  BY <1>1, <1>2
<1>4. mgr[d].reqWait - 1 \in Int  BY <1>1 DEF MgrRec
<1>5. /\ mgr'[d] \in MgrRec /\ mgr'[d].pc = mgr[d].pc /\ mgr'[d].n = mgr[d].n
      /\ mgr'[d].handler = mgr[d].handler
      /\ mgr'[d].res = res /\ mgr'[d].reqWait = mgr[d].reqWait - 1
  BY <1>1, <1>3, <1>4 DEF MgrRec
<1> QED BY <1>1, <1>2, <1>5

\* The first command of a manager is alone in the ring.
LEMMA FirstCmd ==
    ASSUME DevInv, NEW d \in Dev, cmds[d] # <<>>, mgr[d].n = 1 \/ Head(cmds[d]) = "EnblSlot"
    PROVE  /\ mgr[d].n = 1 /\ mgr[d].pc = "wait" /\ mgr[d].reqWait = 1 /\ dev[d].slotId = None
           /\ Head(cmds[d]) = "EnblSlot" /\ Tail(cmds[d]) = <<>> /\ dev[d].st = "live"
           /\ ~mgr[d].handler /\ ~dev[d].epRing
<1> USE DevAssumption
<1>1. cmds[d] \in Seq(Cmds) /\ First(d) /\ Later(d) /\ Life(d) /\ dev[d] \in DevRec  BY DevHas DEF DevOf
<1>2. Head(cmds[d]) \in ToSet(cmds[d]) /\ \A c : cmds[d] = <<c>> => Head(cmds[d]) = c /\ Tail(cmds[d]) = <<>>
  BY <1>1, CmdTake
<1>3. mgr[d].n = 1  BY <1>1, <1>2 DEF Later
<1>4. /\ mgr[d].pc = "wait" /\ mgr[d].reqWait = 1 /\ dev[d].slotId = None /\ cmds[d] = <<"EnblSlot">>
      /\ ~mgr[d].handler /\ ~dev[d].epRing
  BY <1>1, <1>3 DEF First, Asks
<1>5. dev[d].st = "live"  BY <1>1, <1>3, <1>4 DEF Life, DevRec
<1> QED BY <1>2, <1>3, <1>4, <1>5

\* A command is taken out of the ring; if it is the first one it has failed.
LEMMA Completed ==
    ASSUME DevInv, NEW d \in Dev, NEW res \in {"succ", "fail"}, Answer(d, res), cmds[d] # <<>>,
           hnd.pc = "idle", cmds' = [cmds EXCEPT ![d] = Tail(cmds[d])],
           UNCHANGED <<port, eves, hnd, portDev, hostDev, dev>>,
           enbl' \subseteq enbl, refused' \in SUBSET Slot, refused \subseteq refused',
           xfer' \in [Dev -> BOOLEAN], \A x \in Dev : xfer'[x] => xfer[x],
           Head(cmds[d]) = "EnblSlot" => res = "fail",
           Head(cmds[d]) = "DisblSlot" => dev[d].slotId \notin enbl' \ refused'
    PROVE  DevInv'
<1> USE DevAssumption
<1>1. DevTypes /\ DevOf(d) /\ cmds[d] \in Seq(Cmds)  BY DevHas DEF DevInv
<1>2. /\ mgr' \in [Dev -> MgrRec]
      /\ mgr'[d].pc = mgr[d].pc /\ mgr'[d].n = mgr[d].n /\ mgr'[d].handler = mgr[d].handler
      /\ mgr'[d].res = res /\ mgr'[d].reqWait = mgr[d].reqWait - 1
      /\ \A x \in Dev : x # d => mgr'[x] = mgr[x]
  BY Answered
<1>3. /\ cmds' \in [Dev -> Seq(Cmds)] /\ cmds'[d] = Tail(cmds[d])
      /\ ToSet(cmds[d]) = {Head(cmds[d])} \union ToSet(cmds'[d])
      /\ \A x \in Dev : x # d => cmds'[x] = cmds[x]
  BY <1>1, CmdTake DEF DevTypes
<1>4. DevTypes'  BY <1>1, <1>2, <1>3 DEF DevTypes
<1>5. Alone(d)  BY <1>2, <1>3 DEF Alone
<1>6. DevOf(d)'
  <2>1. First(d)'
    <3> SUFFICES ASSUME mgr[d].n = 1 PROVE First(d)'  BY <1>2 DEF First
    <3>1. /\ mgr[d].pc = "wait" /\ mgr[d].reqWait = 1 /\ dev[d].slotId = None
          /\ Head(cmds[d]) = "EnblSlot" /\ Tail(cmds[d]) = <<>> /\ ~mgr[d].handler /\ ~dev[d].epRing
      BY FirstCmd
    <3>2. Asks(d, "fail", 0, <<>>)'  BY <1>2, <1>3, <3>1 DEF Asks
    <3> QED BY <1>2, <3>1, <3>2 DEF First
  <2>2. Later(d)'  BY <1>1, <1>2, <1>3 DEF DevOf, Later
  <2>3. Life(d)'  BY <1>1, <1>2, <1>3 DEF DevOf, Life
  <2> QED BY <2>1, <2>2, <2>3 DEF DevOf
<1>7. KeepsPort(d)  BY <1>2 DEF KeepsPort
<1>8. KeepsSlot(d)  BY <1>2, <1>3 DEF KeepsSlot
<1> QED BY <1>4, <1>5, <1>6, <1>7, <1>8, OwnStep

\* An answer that enables no slot.
LEMMA CompletionKeeps ==
    ASSUME DevInv, NEW d \in Dev, CmdFails(d) \/ CmdSucceeds(d) \/ SlotDisabled(d)
    PROVE  DevInv'
<1>1. DevTypes /\ Life(d) /\ cmds[d] \in Seq(Cmds) /\ dev[d] \in DevRec  BY DevHas DEF DevInv, DevOf
<1>2. /\ hnd.pc = "idle" /\ cmds[d] # <<>> /\ cmds' = [cmds EXCEPT ![d] = Tail(cmds[d])]
      /\ UNCHANGED <<port, eves, hnd, portDev, hostDev, dev>>
  BY DEF CmdFails, CmdSucceeds, SlotDisabled
<1>3. Head(cmds[d]) = "DisblSlot" => dev[d].slotId \in Slot
  <2>1. Head(cmds[d]) \in ToSet(cmds[d])  BY <1>1, <1>2, CmdTake
  <2> QED BY <1>1, <2>1 DEF Life, DevRec
<1>4. enbl \in SUBSET Slot /\ refused \in SUBSET Slot /\ xfer \in [Dev -> BOOLEAN]  BY <1>1 DEF DevTypes
<1>5. CASE CmdFails(d)
  <2>1. /\ Answer(d, "fail") /\ enbl' = enbl /\ xfer' = xfer
        /\ refused' = IF Head(cmds[d]) = "DisblSlot" THEN refused \union {dev[d].slotId} ELSE refused
    BY <1>5 DEF CmdFails
  <2>2. refused' \in SUBSET Slot /\ refused \subseteq refused'  BY <1>3, <1>4, <2>1
  <2> QED BY <1>2, <1>4, <2>1, <2>2, Completed
<1>6. CASE CmdSucceeds(d)
  <2>1. /\ Answer(d, "succ") /\ enbl' = enbl /\ xfer' = xfer /\ refused' = refused
        /\ Head(cmds[d]) \notin {"EnblSlot", "DisblSlot"}
    BY <1>6 DEF CmdSucceeds
  <2> QED BY <1>2, <1>4, <2>1, Completed
<1>7. CASE SlotDisabled(d)
  <2>1. /\ Answer(d, "succ") /\ enbl' = enbl \ {dev[d].slotId} /\ refused' = refused
        /\ Head(cmds[d]) = "DisblSlot"
        /\ xfer' = [x \in Dev |-> xfer[x] /\ dev[x].slotId # dev[d].slotId]
    BY <1>7 DEF SlotDisabled
  <2>2. xfer' \in [Dev -> BOOLEAN] /\ \A x \in Dev : xfer'[x] => xfer[x]  BY <2>1
  <2> QED BY <1>2, <1>4, <2>1, <2>2, Completed
<1> QED BY <1>5, <1>6, <1>7

\* A transfer's answer goes to the slot's last device.
LEMMA TransferKeeps ==
    ASSUME DevInv, NEW d \in Dev, Transferred(d)
    PROVE  DevInv'
<1> USE DevAssumption
<1>1. DevTypes /\ Life(d) /\ SlotOf /\ PortOf /\ dev[d] \in DevRec  BY DevHas DEF DevInv, DevOf
<1>3. PICK o \in Dev : o = hostDev[dev[d].slotId]
  <2>1. xfer[d]  BY DEF Transferred
  <2> QED BY <1>1, <2>1 DEF Life, SlotOf, DevTypes, DevRec
<1>2. /\ xfer[d] /\ xfer' = [xfer EXCEPT ![d] = FALSE]
      /\ \/ dev[o].epRing /\ \E res \in {"succ", "fail"} : Answer(o, res)
         \/ mgr' = mgr
      /\ UNCHANGED <<port, eves, hnd, portDev, hostDev, enbl, refused, dev, cmds>>
  BY <1>3 DEF Transferred
<1>4. xfer' \in [Dev -> BOOLEAN] /\ \A x \in Dev : xfer'[x] => xfer[x]  BY <1>1, <1>2 DEF DevTypes
<1>5. CASE mgr' = mgr
  <2>1. DevTypes'  BY <1>1, <1>2, <1>4, <1>5 DEF DevTypes
  <2>2. Alone(d)  BY <1>2, <1>4, <1>5 DEF Alone
  <2>3. DevOf(d)' BY <1>2, <1>4, <1>5, DevHas DEF DevOf, First, Later, Life, Asks
  <2>4. KeepsPort(d) /\ KeepsSlot(d)  BY <1>2, <1>5 DEF KeepsPort, KeepsSlot
  <2> QED BY <2>1, <2>2, <2>3, <2>4, OwnStep
<1>6. CASE dev[o].epRing /\ \E res \in {"succ", "fail"} : Answer(o, res)
  <2>1. PICK res \in {"succ", "fail"} : Answer(o, res)  BY <1>6
  <2>2. /\ mgr' \in [Dev -> MgrRec]
        /\ mgr'[o].pc = mgr[o].pc /\ mgr'[o].n = mgr[o].n
        /\ \A x \in Dev : x # o => mgr'[x] = mgr[x]
    BY <1>3, <2>1, Answered
  <2>3. DevOf(o) /\ mgr[o].n # 1  BY <1>3, <1>6, DevHas DEF DevOf, First
  <2>4. DevTypes'  BY <1>1, <1>2, <1>4, <2>2 DEF DevTypes
  <2>5. Alone(o)  BY <1>2, <1>4, <2>2 DEF Alone
  <2>6. DevOf(o)'  BY <1>2, <1>3, <1>4, <2>2, <2>3 DEF DevOf, First, Later, Life
  <2>7. KeepsPort(o)
    <3>1. ~(hnd.pc = "store" /\ hnd.dev = o)  BY <1>1, <1>3, <2>3 DEF PortOf
    <3> QED BY <1>2, <2>2, <3>1 DEF KeepsPort
  <2>8. KeepsSlot(o)  BY <1>2, <2>2 DEF KeepsSlot
  <2> QED BY <1>3, <2>4, <2>5, <2>6, <2>7, <2>8, OwnStep
<1> QED BY <1>2, <1>5, <1>6

\* The slot a device gets is nobody's.
LEMMA EnabledKeeps ==
    ASSUME DevInv, NEW d \in Dev, SlotEnabled(d)
    PROVE  DevInv'
<1> USE DevAssumption
<1>1. DevTypes /\ SlotOf /\ PortOf /\ Owner /\ DevOf(d) /\ dev[d] \in DevRec /\ cmds[d] \in Seq(Cmds)
  BY DevHas DEF DevInv
<1>2. PICK s \in Slot \ enbl :
          /\ enbl' = enbl \union {s} /\ dev' = [dev EXCEPT ![d].slotId = s]
          /\ hostDev' = [hostDev EXCEPT ![s] = d]
  BY DEF SlotEnabled
<1>3. /\ hnd.pc = "idle" /\ cmds[d] # <<>> /\ Head(cmds[d]) = "EnblSlot"
      /\ cmds' = [cmds EXCEPT ![d] = Tail(cmds[d])] /\ Answer(d, "succ")
      /\ UNCHANGED <<port, eves, hnd, portDev, refused, xfer>>
  BY DEF SlotEnabled
<1>4. /\ mgr[d].n = 1 /\ mgr[d].pc = "wait" /\ mgr[d].reqWait = 1 /\ dev[d].slotId = None
      /\ Tail(cmds[d]) = <<>> /\ dev[d].st = "live" /\ ~mgr[d].handler /\ ~dev[d].epRing
  BY <1>3, FirstCmd
<1>5. /\ mgr' \in [Dev -> MgrRec]
      /\ mgr'[d].pc = "wait" /\ mgr'[d].n = 1 /\ ~mgr'[d].handler
      /\ mgr'[d].res = "succ" /\ mgr'[d].reqWait = 0
      /\ \A x \in Dev : x # d => mgr'[x] = mgr[x]
  BY <1>3, <1>4, Answered
<1>6. /\ cmds' \in [Dev -> Seq(Cmds)] /\ cmds'[d] = <<>>
      /\ \A x \in Dev : x # d => cmds'[x] = cmds[x]
  BY <1>1, <1>3, <1>4 DEF DevTypes
<1>7. /\ dev' \in [Dev -> DevRec] /\ dev'[d].slotId = s /\ dev'[d].st = "live" /\ ~dev'[d].epRing
      /\ \A x \in Dev : x # d => dev'[x] = dev[x]
  BY <1>1, <1>2, <1>4 DEF DevTypes, DevRec
<1>8. hostDev' \in [Slot -> Dev \union {None}] /\ hostDev'[s] = d /\ \A r \in Slot : r # s => hostDev'[r] = hostDev[r]
  BY <1>1, <1>2 DEF DevTypes
<1>9. DevTypes'  BY <1>1, <1>2, <1>3, <1>5, <1>6, <1>7, <1>8 DEF DevTypes
<1>10. \A x \in Dev : DevOf(x)'
  <2>1. DevOf(d)'
    <3>1. First(d)'  BY <1>5, <1>6, <1>7 DEF First, Asks
    <3>2. Later(d)' /\ Life(d)'  BY <1>5, <1>6, <1>7, NoCmds DEF Later, Life
    <3> QED BY <3>1, <3>2 DEF DevOf
  <2>2. ASSUME NEW x \in Dev, x # d PROVE DevOf(x)'
    <3>1. mgr'[x] = mgr[x] /\ dev'[x] = dev[x] /\ cmds'[x] = cmds[x] /\ xfer' = xfer  BY <1>3, <1>5, <1>6, <1>7, <2>2
    <3>2. DevOf(x)  BY DevHas
    <3> QED BY <3>1, <3>2 DEF DevOf, First, Later, Life, Asks
  <2> QED BY <2>1, <2>2
<1>11. \A r \in Slot : hostDev[r] # d
  BY <1>1, <1>4 DEF SlotOf
<1>12. SlotOf'
  <2>1. ASSUME NEW r \in Slot, hostDev'[r] # None PROVE dev'[hostDev'[r]].slotId = r
    <3>1. CASE r = s  BY <1>7, <1>8, <3>1
    <3>2. CASE r # s
      <4>1. hostDev'[r] = hostDev[r] /\ hostDev[r] \in Dev /\ hostDev[r] # d  BY <1>1, <1>8, <1>11, <2>1, <3>2 DEF DevTypes
      <4>2. dev[hostDev[r]].slotId = r  BY <1>1, <4>1 DEF SlotOf
      <4> QED BY <1>7, <4>1, <4>2
    <3> QED BY <3>1, <3>2
  <2>2. ASSUME NEW x \in Dev, dev'[x].slotId # None PROVE hostDev'[dev'[x].slotId] # None
    <3>1. CASE x = d  BY <1>7, <1>8, <3>1
    <3>2. CASE x # d
      <4>1. dev'[x] = dev[x] /\ dev[x].slotId \in Slot  BY <1>1, <1>7, <2>2, <3>2 DEF DevTypes, DevRec
      <4> QED BY <1>1, <1>8, <2>2, <4>1 DEF SlotOf
    <3> QED BY <3>1, <3>2
  <2> QED BY <2>1, <2>2 DEF SlotOf
<1>13. PortOf'
  <2>1. ASSUME portDev # None PROVE dev'[portDev].st = "live" /\ mgr'[portDev].pc \in Booted
    <3>1. portDev \in Dev /\ dev[portDev].st = "live" /\ mgr[portDev].pc \in Booted
      BY <1>1, <2>1 DEF PortOf, DevTypes
    <3> QED BY <1>5, <1>7, <3>1 DEF Booted
  <2> QED BY <1>3, <2>1 DEF PortOf
<1>14. Owner'
  <2> SUFFICES ASSUME NEW r \in enbl' \ refused'
               PROVE  /\ hostDev'[r] # None
                      /\ \/ "DisblSlot" \in ToSet(cmds'[hostDev'[r]])
                         \/ dev'[hostDev'[r]].st = "live" /\ mgr'[hostDev'[r]].pc \in Owning
    BY DEF Owner
  <2>1. CASE r = s  BY <1>5, <1>7, <1>8, <2>1 DEF Owning, Booted
  <2>2. CASE r # s
    <3> DEFINE o == hostDev[r]
    <3>1. r \in enbl \ refused /\ r \in Slot  BY <1>1, <1>2, <1>3, <2>2 DEF DevTypes
    <3>2. o # None /\ ("DisblSlot" \in ToSet(cmds[o]) \/ (dev[o].st = "live" /\ mgr[o].pc \in Owning))
      BY <1>1, <3>1 DEF Owner
    <3>3. o \in Dev /\ o # d /\ hostDev'[r] = o  BY <1>1, <1>8, <1>11, <2>2, <3>1, <3>2 DEF DevTypes
    <3> HIDE DEF o
    <3> QED BY <1>5, <1>6, <1>7, <3>2, <3>3
  <2> QED BY <2>1, <2>2
<1> QED BY <1>9, <1>10, <1>12, <1>13, <1>14 DEF DevInv
-----------------------------------------------------------------------------
(* The port and its interrupts. *)

\* A step that the devices do not see, but for a signal.
Unseen ==
    /\ UNCHANGED <<hostDev, enbl, refused, dev, cmds, xfer>>
    /\ \A x \in Dev : /\ mgr'[x].pc = mgr[x].pc /\ mgr'[x].n = mgr[x].n /\ mgr'[x].res = mgr[x].res
                      /\ mgr'[x].reqWait = mgr[x].reqWait /\ mgr'[x].handler = mgr[x].handler

\* Such a step keeps the invariant if the port is as it should be.
LEMMA UnseenKeeps ==
    ASSUME DevInv, Unseen, DevTypes', PortOf'
    PROVE  DevInv'
<1>1. DevTypes /\ SlotOf /\ Owner /\ \A x \in Dev : DevOf(x)  BY DEF DevInv
<1>2. \A x \in Dev : DevOf(x)'
  <2> SUFFICES ASSUME NEW x \in Dev PROVE DevOf(x)'  OBVIOUS
  <2>1. DevOf(x)  BY <1>1
  <2> QED BY <2>1 DEF Unseen, DevOf, First, Later, Life, Asks
<1>3. SlotOf'  BY <1>1 DEF SlotOf, Unseen
<1>4. Owner'
  <2> SUFFICES ASSUME NEW s \in enbl \ refused
               PROVE  /\ hostDev[s] # None
                      /\ \/ "DisblSlot" \in ToSet(cmds[hostDev[s]])
                         \/ dev[hostDev[s]].st = "live" /\ mgr'[hostDev[s]].pc \in Owning
    BY DEF Owner, Unseen
  <2>1. /\ hostDev[s] # None
        /\ \/ "DisblSlot" \in ToSet(cmds[hostDev[s]])
           \/ dev[hostDev[s]].st = "live" /\ mgr[hostDev[s]].pc \in Owning
    BY <1>1 DEF Owner
  <2>2. hostDev[s] \in Dev  BY <1>1, <2>1 DEF DevTypes
  <2> QED BY <2>1, <2>2 DEF Unseen
<1> QED BY <1>2, <1>3, <1>4 DEF DevInv

\* The port changes, or its handler finds nothing to make or to keep.
LEMMA PortKeeps ==
    ASSUME DevInv, Plug \/ ResetDone \/ Unplug \/ PortReset \/ PortDisconnect
    PROVE  DevInv'
<1> USE DevAssumption
<1>1. DevTypes /\ PortOf  BY DEF DevInv
<1>2. /\ UNCHANGED <<portDev, hostDev, enbl, refused, dev, mgr, cmds, xfer>>
      /\ port' \in {"off", "on", "reset", "enbl"} /\ eves' \in 0 .. MaxEve
      /\ hnd' = hnd \/ (portDev # None /\ hnd' = [pc |-> "signal", dev |-> portDev])
  <2>1. CASE Plug  BY <1>1, <2>1 DEF Plug, PortTo, DevTypes
  <2>2. CASE ResetDone  BY <1>1, <2>2 DEF ResetDone, PortTo, DevTypes
  <2>3. CASE Unplug  BY <1>1, <2>3 DEF Unplug, PortTo, DevTypes
  <2>4. CASE PortReset  BY <1>1, <2>4 DEF PortReset, DevTypes
  <2>5. CASE PortDisconnect  BY <1>1, <2>5 DEF PortDisconnect, DevTypes
  <2> QED BY <2>1, <2>2, <2>3, <2>4, <2>5
<1>3. DevTypes'  BY <1>1, <1>2 DEF DevTypes
<1>4. PortOf'  BY <1>1, <1>2 DEF PortOf
<1>5. Unseen  BY <1>2 DEF Unseen
<1> QED BY <1>3, <1>4, <1>5, UnseenKeeps

\* hw_usb_xhci_portConnect stores the device when its manager cannot yet have
\* had an answer.
LEMMA StoreKeeps ==
    ASSUME DevInv, StorePortDev
    PROVE  DevInv'
<1> USE DevAssumption
<1>1. DevTypes /\ PortOf /\ \A x \in Dev : DevOf(x)  BY DEF DevInv
<1>2. /\ hnd.pc = "store" /\ portDev' = hnd.dev /\ hnd' = [pc |-> "idle", dev |-> None]
      /\ UNCHANGED <<port, eves, hostDev, enbl, refused, dev, mgr, cmds, xfer>>
  BY DEF StorePortDev
<1>3. DevTypes'  BY <1>1, <1>2 DEF DevTypes
<1>4. PortOf'
  <2>1. ASSUME hnd.dev # None PROVE dev[hnd.dev].st = "live" /\ mgr[hnd.dev].pc \in Booted
    <3>1. hnd.dev \in Dev /\ dev[hnd.dev].st = "live" /\ mgr[hnd.dev].n = 1  BY <1>1, <1>2, <2>1 DEF DevTypes, PortOf
    <3>2. First(hnd.dev) /\ Life(hnd.dev)  BY <1>1, <3>1 DEF DevOf
    <3> QED BY <3>1, <3>2 DEF First, Life, Booted
  <2> QED BY <1>2, <2>1 DEF PortOf
<1>5. Unseen  BY <1>2 DEF Unseen
<1> QED BY <1>3, <1>4, <1>5, UnseenKeeps

\* task_signal_send writes the signal of one manager.
LEMMA SignalKeeps ==
    ASSUME DevInv, SendSignal
    PROVE  DevInv'
<1> USE DevAssumption
<1>1. DevTypes /\ PortOf  BY DEF DevInv
<1>2. PICK d \in Dev : d = hnd.dev  BY <1>1 DEF SendSignal, PortOf, DevTypes
<1>3. /\ mgr' = [mgr EXCEPT ![d].sig = TRUE] /\ hnd' = [pc |-> "idle", dev |-> None]
      /\ UNCHANGED <<port, eves, portDev, hostDev, enbl, refused, dev, cmds, xfer>>
  BY <1>2 DEF SendSignal
<1>4. mgr \in [Dev -> MgrRec] /\ mgr[d] \in MgrRec  BY <1>1 DEF DevTypes
<1>5. mgr'[d] = [mgr[d] EXCEPT !.sig = TRUE] /\ \A x \in Dev : x # d => mgr'[x] = mgr[x]  BY <1>3, <1>4
<1>6. /\ mgr'[d] \in MgrRec /\ mgr'[d].pc = mgr[d].pc /\ mgr'[d].n = mgr[d].n /\ mgr'[d].res = mgr[d].res
      /\ mgr'[d].reqWait = mgr[d].reqWait /\ mgr'[d].handler = mgr[d].handler
  BY <1>4, <1>5 DEF MgrRec
<1>7. mgr' \in [Dev -> MgrRec]  BY <1>3, <1>4, <1>6
<1>8. DevTypes'  BY <1>1, <1>3, <1>7 DEF DevTypes
<1>9. Unseen  BY <1>3, <1>5, <1>6 DEF Unseen
<1>10. PortOf'
  <2>1. portDev # None => portDev \in Dev  BY <1>1 DEF DevTypes
  <2> QED BY <1>1, <1>3, <1>9, <2>1 DEF PortOf, Unseen
<1> QED BY <1>8, <1>9, <1>10, UnseenKeeps

\* A new device has no slot and its manager has asked for nothing.
LEMMA ConnectKeeps ==
    ASSUME DevInv, PortConnect
    PROVE  DevInv'
<1> USE DevAssumption
<1>1. DevTypes /\ SlotOf /\ PortOf /\ Owner  BY DEF DevInv
<1>2. /\ hnd.pc = "idle" /\ eves > 0 /\ eves' = eves - 1
      /\ UNCHANGED <<port, portDev, hostDev, enbl, refused, cmds, xfer>>
  BY DEF PortConnect
<1>3. eves' \in 0 .. MaxEve  BY <1>1, <1>2 DEF DevTypes
<1>4. CASE \A x \in Dev : dev[x].st # "none"
  <2>1. hnd' = [pc |-> "store", dev |-> None] /\ dev' = dev /\ mgr' = mgr  BY <1>4 DEF PortConnect
  <2>2. DevTypes'  BY <1>1, <1>2, <1>3, <2>1 DEF DevTypes
  <2>3. PortOf' /\ Unseen  BY <1>1, <1>2, <2>1 DEF PortOf, Unseen
  <2> QED BY <2>2, <2>3, UnseenKeeps
<1>5. CASE \E x \in Dev : dev[x].st = "none"
  <2>1. PICK d \in Dev : /\ dev[d].st = "none" /\ hnd' = [pc |-> "store", dev |-> d]
                         /\ dev' = [dev EXCEPT ![d].st = "live"] /\ mgr' = [mgr EXCEPT ![d].pc = "send"]
    <3> DEFINE c == CHOOSE x \in Dev : dev[x].st = "none"
    <3>1. c \in Dev /\ dev[c].st = "none"  BY <1>5
    <3>2. /\ hnd' = [pc |-> "store", dev |-> c]
          /\ dev' = [dev EXCEPT ![c].st = "live"] /\ mgr' = [mgr EXCEPT ![c].pc = "send"]
      BY <1>5 DEF PortConnect
    <3> HIDE DEF c
    <3> QED BY <3>1, <3>2
  <2>2. DevOf(d) /\ mgr[d] \in MgrRec /\ dev[d] \in DevRec /\ "send" \in Points
    BY DevHas DEF Points, Owning, Booted
  <2>3. mgr[d].pc = "none" /\ mgr[d].n = 1  BY <2>1, <2>2 DEF DevOf, Life, Later
  <2>4. /\ dev[d].slotId = None /\ ~mgr[d].handler /\ ~dev[d].epRing /\ Asks(d, "none", 0, <<>>)
    BY <2>2, <2>3 DEF DevOf, First
  <2>5. mgr'[d] = [mgr[d] EXCEPT !.pc = "send"] /\ dev'[d] = [dev[d] EXCEPT !.st = "live"]
    BY <1>1, <2>1 DEF DevTypes
  <2>6. /\ mgr'[d] \in MgrRec /\ mgr'[d].pc = "send" /\ mgr'[d].n = 1 /\ ~mgr'[d].handler
        /\ mgr'[d].res = mgr[d].res /\ mgr'[d].reqWait = mgr[d].reqWait
    BY <2>2, <2>3, <2>4, <2>5 DEF MgrRec
  <2>7. dev'[d] \in DevRec /\ dev'[d].st = "live" /\ dev'[d].slotId = None /\ ~dev'[d].epRing
    BY <2>2, <2>4, <2>5 DEF DevRec
  <2>8. \A x \in Dev : x # d => mgr'[x] = mgr[x] /\ dev'[x] = dev[x]  BY <1>1, <2>1 DEF DevTypes
  <2>9. DevTypes'  BY <1>1, <1>2, <1>3, <2>1, <2>6, <2>7 DEF DevTypes
  <2>10. \A x \in Dev : DevOf(x)'
    <3>1. DevOf(d)'
      <4>1. First(d)'  BY <1>2, <2>4, <2>6, <2>7 DEF First, Asks
      <4>2. Later(d)'  BY <2>6 DEF Later
      <4>3. Life(d)'  BY <1>2, <2>2, <2>3, <2>4, <2>6, <2>7 DEF DevOf, Life
      <4> QED BY <4>1, <4>2, <4>3 DEF DevOf
    <3>2. ASSUME NEW x \in Dev, x # d PROVE DevOf(x)'
      <4>1. DevOf(x)  BY DevHas
      <4> QED BY <1>2, <2>8, <3>2, <4>1 DEF DevOf, First, Later, Life, Asks
    <3> QED BY <3>1, <3>2
  <2>11. SlotOf'
    <3>1. \A x \in Dev : dev'[x].slotId = dev[x].slotId  BY <2>4, <2>7, <2>8
    <3>2. \A s \in Slot : hostDev[s] # None => hostDev[s] \in Dev  BY <1>1 DEF DevTypes
    <3> QED BY <1>1, <1>2, <3>1, <3>2 DEF SlotOf
  <2>12. PortOf'
    <3>1. ASSUME portDev # None PROVE dev'[portDev].st = "live" /\ mgr'[portDev].pc \in Booted
      <4>1. portDev \in Dev /\ dev[portDev].st = "live" /\ mgr[portDev].pc \in Booted
        BY <1>1, <3>1 DEF PortOf, DevTypes
      <4> QED BY <2>1, <2>8, <4>1
    <3>2. hnd'.pc = "store" /\ hnd'.dev = d  BY <2>1
    <3> QED BY <1>2, <2>4, <2>6, <2>7, <3>1, <3>2 DEF PortOf, Asks
  <2>13. Owner'
    <3> SUFFICES ASSUME NEW s \in enbl \ refused
                 PROVE  /\ hostDev[s] # None
                        /\ \/ "DisblSlot" \in ToSet(cmds[hostDev[s]])
                           \/ dev'[hostDev[s]].st = "live" /\ mgr'[hostDev[s]].pc \in Owning
      BY <1>2 DEF Owner
    <3>1. /\ hostDev[s] # None
          /\ \/ "DisblSlot" \in ToSet(cmds[hostDev[s]])
             \/ dev[hostDev[s]].st = "live" /\ mgr[hostDev[s]].pc \in Owning
      BY <1>1 DEF Owner
    <3>2. hostDev[s] \in Dev /\ dev[hostDev[s]].slotId = s /\ s \in Slot  BY <1>1, <3>1 DEF DevTypes, SlotOf
    <3>3. hostDev[s] # d  BY <2>4, <3>2
    <3> QED BY <2>8, <3>1, <3>2, <3>3
  <2> QED BY <2>9, <2>10, <2>11, <2>12, <2>13 DEF DevInv
<1> QED BY <1>4, <1>5

-----------------------------------------------------------------------------
(* All together. *)

\* Every step keeps the invariant.
LEMMA DevInvStep == DevInv /\ [DevNext]_devVars => DevInv'
<1> SUFFICES ASSUME DevInv, [DevNext]_devVars PROVE DevInv'  OBVIOUS
<1>1. CASE UNCHANGED devVars
  BY <1>1 DEF devVars, DevInv, DevTypes, DevOf, First, Later, Life, Asks, SlotOf, PortOf, Owner
<1>2. CASE Plug \/ ResetDone \/ Unplug  BY <1>2, PortKeeps
<1>3. CASE PortIntr
  BY <1>3, PortKeeps, ConnectKeeps, StoreKeeps, SignalKeeps DEF PortIntr
<1>4. ASSUME NEW d \in Dev, Manager(d) PROVE DevInv'
  <2>1. CASE Send(d)  BY <2>1, SendKeeps
  <2>2. CASE RequestReturns(d)  BY <2>2, ReturnsKeeps
  <2>3. CASE Scan(d)  BY <2>3, ScanKeeps
  <2>4. CASE Uninstall(d)
    BY <2>4, GiveUpKeeps, CommandKeeps, ReturnKeeps, FreeKeeps DEF Uninstall
  <2> QED BY <1>4, <2>1, <2>2, <2>3, <2>4 DEF Manager
<1>5. ASSUME NEW d \in Dev, Completion(d) PROVE DevInv'
  BY <1>5, CompletionKeeps, EnabledKeeps, TransferKeeps DEF Completion
<1> QED BY <1>1, <1>2, <1>3, <1>4, <1>5 DEF DevNext

\* What it says.
LEMMA DevInvShows == DevInv => DevTypeOK /\ PortDevLive /\ SlotsReturned
<1> SUFFICES ASSUME DevInv PROVE DevTypeOK /\ PortDevLive /\ SlotsReturned  OBVIOUS
<1>1. DevTypes /\ SlotOf /\ PortOf /\ Owner  BY DEF DevInv
<1>2. DevTypeOK
  <2>1. \A d \in Dev : dev[d].st \in {"none", "live", "freed"} /\ mgr[d].n \in 1 .. Len(Prog)
    BY <1>1 DEF DevTypes, DevRec, MgrRec
  <2> QED BY <1>1, <2>1 DEF DevTypes, DevTypeOK
<1>3. PortDevLive  BY <1>1 DEF PortOf, PortDevLive
<1>4. SlotsReturned
  <2> SUFFICES ASSUME NEW s \in enbl \ refused
               PROVE  \E d \in Dev : dev[d].slotId = s /\ (dev[d].st = "live" \/ "DisblSlot" \in ToSet(cmds[d]))
    BY DEF SlotsReturned
  <2>1. s \in Slot /\ hostDev[s] # None  BY <1>1 DEF Owner, DevTypes
  <2>2. hostDev[s] \in Dev /\ dev[hostDev[s]].slotId = s  BY <1>1, <2>1 DEF DevTypes, SlotOf
  <2>3. dev[hostDev[s]].st = "live" \/ "DisblSlot" \in ToSet(cmds[hostDev[s]])  BY <1>1 DEF Owner
  <2> QED BY <2>2, <2>3
<1> QED BY <1>2, <1>3, <1>4

(***************************************************************************)
(* The states of ports, slots, devices and managers keep their types, for  *)
(* any number of devices, slots and plugs: a controller refuses to disable *)
(* only slots it has (hw_usb_xhci_Device, hw_usb_xhci_devMgrTsk).          *)
(***************************************************************************)
THEOREM DevicesTyped == DevSpec => []DevTypeOK
<1> QED BY DevInvInit, DevInvStep, DevInvShows, PTL DEF DevSpec

(***************************************************************************)
(* A port never has a freed device, though managers fail and free theirs   *)
(* at any time: the one that is being stored has had no answer, and the    *)
(* start of uninstallDev clears the port (hw_usb_xhci_portConnect).        *)
(***************************************************************************)
THEOREM PortHasLiveDevice == DevSpec => []PortDevLive
<1> QED BY DevInvInit, DevInvStep, DevInvShows, PTL DEF DevSpec

(***************************************************************************)
(* A slot that is enabled, and that the controller did not refuse to give  *)
(* up, is its device's in memory or about to be disabled, wherever a       *)
(* signal or a failure sends the manager (hw_usb_xhci_uninstallDev).       *)
(***************************************************************************)
THEOREM SlotsComeBack == DevSpec => []SlotsReturned
<1> QED BY DevInvInit, DevInvStep, DevInvShows, PTL DEF DevSpec


-----------------------------------------------------------------------------
(* The invariant: types, each report's fields one behind the other, and    *)
(* FieldsApart's collections.                                              *)

GloRec == [sz : 0 .. MaxSz, cnt : 0 .. MaxCnt, id : 0 .. MxReports, range : BOOLEAN]
LocRec == [usages : 0 .. UsageMx, min : Int, dep : Int, branch : Int]
FieldRec == [off : Nat, sz : Nat, cnt : Nat, mxUsage : Nat]
RepRec == [sz : Nat, app : Nat, field : Seq(FieldRec)]

ParserTypes ==
    /\ glo \in GloRec /\ gloStk \in Seq(GloRec) /\ Len(gloStk) <= GloStkSize
    /\ loc \in LocRec
    /\ col \in Seq(Collections) /\ colCap \in Nat \ {0}
    /\ colStk \in Seq(Nat) /\ Len(colStk) <= ColStkSz
    /\ DOMAIN report \subseteq ReportTps \X (0 .. MxReports) /\ report \in [DOMAIN report -> RepRec]
    /\ parse \in {"items", "done", "fail"}

\* A report's fields have bits of their own, within its size.
Laid(r) ==
    \A i \in DOMAIN r.field :
        /\ Bits(r.field[i]) \subseteq 0 .. r.sz - 1
        /\ r.field[i].cnt <= r.field[i].mxUsage
        /\ \A j \in DOMAIN r.field \ {i} : Bits(r.field[i]) \cap Bits(r.field[j]) = {}
AllLaid == \A k \in DOMAIN report : Laid(report[k])

ColInv == Len(col) <= colCap /\ \A i \in DOMAIN colStk : colStk[i] <= Len(col)

ParserInv == ParserTypes /\ AllLaid /\ ColInv

\* A parser as it is made (_initParser).
Fresh ==
    /\ glo = NoGlo /\ gloStk = <<>> /\ loc = NoLoc
    /\ col = <<>> /\ colCap = 1 /\ colStk = <<>> /\ report = <<>>

\* A fresh parser is well formed.
LEMMA FreshParser == Fresh /\ parse \in {"items", "done", "fail"} => ParserInv
<1> SUFFICES ASSUME Fresh, parse \in {"items", "done", "fail"} PROVE ParserInv  OBVIOUS
<1> USE HidAssumption
<1>1. glo \in GloRec
  <2>1. 0 \in 0 .. MaxSz /\ 0 \in 0 .. MaxCnt /\ 0 \in 0 .. MxReports  OBVIOUS
  <2> QED BY <2>1 DEF Fresh, NoGlo, GloRec
<1>2. loc \in LocRec
  <2>1. 0 \in 0 .. UsageMx /\ 0 \in Int  OBVIOUS
  <2> QED BY <2>1 DEF Fresh, NoLoc, LocRec
<1>3. gloStk \in Seq(GloRec) /\ Len(gloStk) = 0 /\ col \in Seq(Collections) /\ Len(col) = 0
      /\ colStk \in Seq(Nat) /\ Len(colStk) = 0 /\ DOMAIN colStk = {}
  BY EmptySeq DEF Fresh
<1>4. DOMAIN report = {}  BY DEF Fresh
<1>5. report \in [DOMAIN report -> RepRec]
  <2>1. report = [k \in {} |-> k]  BY DEF Fresh
  <2> QED BY <1>4, <2>1
<1>6. colCap = 1  BY DEF Fresh
<1>7. ParserTypes  BY <1>1, <1>2, <1>3, <1>4, <1>5, <1>6 DEF ParserTypes
<1>8. AllLaid  BY <1>4 DEF AllLaid
<1>9. ColInv  BY <1>3, <1>6 DEF ColInv
<1> QED BY <1>7, <1>8, <1>9 DEF ParserInv

\* The last entry of a stack, and the others.
LEMMA StackTop ==
    ASSUME NEW S, NEW s \in Seq(S), s # <<>>
    PROVE  /\ Last(s) \in S /\ Front(s) \in Seq(S) /\ Len(Front(s)) = Len(s) - 1
           /\ \A i \in DOMAIN Front(s) : i \in DOMAIN s /\ Front(s)[i] = s[i]
<1>1. Len(s) \in Nat /\ Len(s) # 0 /\ DOMAIN s = 1 .. Len(s)  BY LenProperties, EmptySeq
<1>2. Last(s) = s[Len(s)] /\ Front(s) = SubSeq(s, 1, Len(s) - 1)  BY DEF Last, Front
<1>3. Last(s) \in S  BY <1>1, <1>2, ElementOfSeq
<1>4. \A i \in 1 .. Len(s) - 1 : s[i] \in S  BY <1>1, ElementOfSeq
<1>5. /\ Front(s) \in Seq(S) /\ Len(Front(s)) = Len(s) - 1
      /\ \A i \in 1 .. Len(s) - 1 : Front(s)[i] = s[i]
  <2>1. /\ SubSeq(s, 1, Len(s) - 1) \in Seq(S)
        /\ Len(SubSeq(s, 1, Len(s) - 1)) = IF 1 <= Len(s) - 1 THEN Len(s) - 1 - 1 + 1 ELSE 0
        /\ \A i \in 1 .. Len(s) - 1 - 1 + 1 : SubSeq(s, 1, Len(s) - 1)[i] = s[1 + i - 1]
    BY <1>1, <1>4, SubSeqProperties
  <2> QED BY <1>1, <1>2, <2>1
<1>6. DOMAIN Front(s) = 1 .. Len(s) - 1  BY <1>5, LenProperties
<1> QED BY <1>1, <1>3, <1>5, <1>6

\* The items that change the state of the parser only.
LEMMA GlobalKeeps ==
    ASSUME ParserInv, UNCHANGED parse, NEW g \in GloRec, Global(g)
    PROVE  ParserInv'
BY DEF ParserInv, ParserTypes, AllLaid, Laid, Bits, ColInv, Global

\* The same of the local state.
LEMMA LocalKeeps ==
    ASSUME ParserInv, UNCHANGED parse, NEW l \in LocRec, Local(l)
    PROVE  ParserInv'
BY DEF ParserInv, ParserTypes, AllLaid, Laid, Bits, ColInv, Local

\* The stack of global states.
LEMMA PushKeeps == ASSUME ParserInv, UNCHANGED parse, Push PROVE ParserInv'
<1> USE HidAssumption
<1>1. /\ gloStk \in Seq(GloRec) /\ glo \in GloRec /\ Len(gloStk) \in Nat /\ Len(gloStk) < GloStkSize
      /\ gloStk' = Append(gloStk, glo)
  BY LenProperties DEF ParserInv, ParserTypes, Push
<1>2. gloStk' \in Seq(GloRec) /\ Len(gloStk') = Len(gloStk) + 1  BY <1>1, AppendProperties
<1>3. UNCHANGED <<glo, loc, col, colCap, colStk, report>>  BY DEF Push
<1>4. ParserTypes'  BY <1>1, <1>2, <1>3 DEF ParserInv, ParserTypes
<1> QED BY <1>3, <1>4 DEF ParserInv, AllLaid, Laid, Bits, ColInv

\* The entry that is taken back was pushed.
LEMMA PopKeeps == ASSUME ParserInv, UNCHANGED parse, Pop PROVE ParserInv'
<1> USE HidAssumption
<1>1. /\ gloStk \in Seq(GloRec) /\ gloStk # <<>> /\ Len(gloStk) \in Nat /\ Len(gloStk) <= GloStkSize
      /\ glo' = Last(gloStk) /\ gloStk' = Front(gloStk)
  BY LenProperties DEF ParserInv, ParserTypes, Pop
<1>2. glo' \in GloRec /\ gloStk' \in Seq(GloRec) /\ Len(gloStk') = Len(gloStk) - 1  BY <1>1, StackTop
<1>3. UNCHANGED <<loc, col, colCap, colStk, report>>  BY DEF Pop
<1>4. ParserTypes'  BY <1>1, <1>2, <1>3 DEF ParserInv, ParserTypes
<1> QED BY <1>3, <1>4 DEF ParserInv, AllLaid, Laid, Bits, ColInv

\* _collection: the array is doubled in time.
LEMMA CollectionKeeps ==
    ASSUME ParserInv, UNCHANGED parse, NEW tp \in Collections, Collection(tp)
    PROVE  ParserInv'
<1> USE HidAssumption
<1>1. /\ col \in Seq(Collections) /\ Len(col) \in Nat /\ colCap \in Nat \ {0} /\ Len(col) <= colCap
      /\ colStk \in Seq(Nat) /\ Len(colStk) \in Nat /\ Len(colStk) < ColStkSz
      /\ \A i \in DOMAIN colStk : colStk[i] <= Len(col)
  BY LenProperties DEF ParserInv, ParserTypes, ColInv, Collection
<1>2. /\ colCap' = IF Len(col) = colCap THEN 2 * colCap ELSE colCap
      /\ col' = Append(col, tp) /\ colStk' = Append(colStk, Len(col) + 1)
      /\ loc' = NoLoc /\ UNCHANGED <<glo, gloStk, report>>
  BY DEF Collection
<1>3. /\ col' \in Seq(Collections) /\ Len(col') = Len(col) + 1  BY <1>1, <1>2, AppendProperties
<1>4. /\ colStk' \in Seq(Nat) /\ Len(colStk') = Len(colStk) + 1
      /\ \A i \in 1 .. Len(colStk) : colStk'[i] = colStk[i]
      /\ colStk'[Len(colStk) + 1] = Len(col) + 1
  <2>1. Len(col) + 1 \in Nat  BY <1>1
  <2> QED BY <1>1, <1>2, <2>1, AppendProperties
<1>5. colCap' \in Nat \ {0} /\ Len(col') <= colCap'  BY <1>1, <1>2, <1>3
<1>6. \A i \in DOMAIN colStk' : colStk'[i] <= Len(col')
  <2>1. DOMAIN colStk' = 1 .. Len(colStk) + 1 /\ DOMAIN colStk = 1 .. Len(colStk)  BY <1>1, <1>4, LenProperties
  <2> SUFFICES ASSUME NEW i \in 1 .. Len(colStk) + 1 PROVE colStk'[i] <= Len(col')  BY <2>1
  <2>2. CASE i \in 1 .. Len(colStk)
    <3>1. colStk'[i] = colStk[i] /\ colStk[i] <= Len(col)  BY <1>1, <1>4, <2>1, <2>2
    <3>2. colStk[i] \in Nat  BY <1>1, <2>2, ElementOfSeq
    <3> QED BY <1>1, <1>3, <3>1, <3>2
  <2>3. CASE i = Len(colStk) + 1  BY <1>1, <1>3, <1>4, <2>3
  <2> QED BY <1>1, <2>2, <2>3
<1>7. loc' \in LocRec
  <2>1. 0 \in 0 .. UsageMx /\ 0 \in Int  OBVIOUS
  <2> QED BY <1>2, <2>1 DEF NoLoc, LocRec
<1>8. ParserTypes'  BY <1>1, <1>2, <1>3, <1>4, <1>5, <1>7 DEF ParserInv, ParserTypes
<1>9. AllLaid'  BY <1>2 DEF ParserInv, AllLaid, Laid, Bits
<1> QED BY <1>5, <1>6, <1>8, <1>9 DEF ParserInv, ColInv

\* _endCollection.
LEMMA EndCollectionKeeps == ASSUME ParserInv, UNCHANGED parse, EndCollection PROVE ParserInv'
<1> USE HidAssumption
<1>1. /\ colStk \in Seq(Nat) /\ colStk # <<>> /\ Len(colStk) \in Nat /\ Len(colStk) <= ColStkSz
      /\ colStk' = Front(colStk)
  BY LenProperties DEF ParserInv, ParserTypes, EndCollection
<1>2. /\ colStk' \in Seq(Nat) /\ Len(colStk') = Len(colStk) - 1
      /\ \A i \in DOMAIN colStk' : i \in DOMAIN colStk /\ colStk'[i] = colStk[i]
  BY <1>1, StackTop
<1>3. loc' = NoLoc /\ UNCHANGED <<glo, gloStk, col, colCap, report>>  BY DEF EndCollection
<1>4. loc' \in LocRec
  <2>1. 0 \in 0 .. UsageMx /\ 0 \in Int  OBVIOUS
  <2> QED BY <1>3, <2>1 DEF NoLoc, LocRec
<1>5. ParserTypes'  BY <1>1, <1>2, <1>3, <1>4 DEF ParserInv, ParserTypes
<1>6. ColInv'  BY <1>2, <1>3 DEF ParserInv, ColInv
<1> QED BY <1>3, <1>5, <1>6 DEF ParserInv, AllLaid, Laid, Bits

\* _lookupCol finds the number of a collection, or 0.
LEMMA LookupColType == ASSUME ParserInv, NEW tp PROVE LookupCol(tp) \in Nat
<1> DEFINE opn == {i \in DOMAIN colStk : col[colStk[i]] = tp}
<1>1. colStk \in Seq(Nat) /\ Len(colStk) \in Nat /\ DOMAIN colStk = 1 .. Len(colStk)
  BY LenProperties DEF ParserInv, ParserTypes
<1>2. CASE opn = {}  BY <1>2 DEF LookupCol
<1>3. CASE opn # {}
  <2>1. opn \in SUBSET Nat /\ \A j \in opn : j <= Len(colStk)  BY <1>1
  <2>2. \E x \in opn : \A y \in opn : y <= x
    <3> HIDE DEF opn
    <3>1. PICK T \in SUBSET Nat : T = opn  BY <2>1
    <3>2. PICK n \in Nat : n = Len(colStk)  BY <1>1
    <3>3. T # {} /\ \A y \in T : y <= n  BY <1>3, <2>1, <3>1, <3>2
    <3>4. \E x \in T : \A y \in T : y <= x  BY <3>3, GreatestOf
    <3> QED BY <3>1, <3>4
  <2> DEFINE m == CHOOSE i \in opn : \A j \in opn : j <= i
  <2>3. m \in opn  BY <2>2
  <2>4. colStk[m] \in Nat  BY <1>1, <2>3, ElementOfSeq
  <2>5. LookupCol(tp) = colStk[m]  BY <1>3 DEF LookupCol
  <2> QED BY <2>4, <2>5
<1> QED BY <1>2, <1>3

\* A field behind the others keeps them apart.
LEMMA LaidNext ==
    ASSUME NEW r \in RepRec, Laid(r), NEW f \in FieldRec, f.off = r.sz, f.cnt <= f.mxUsage,
           NEW q \in RepRec, q.sz = r.sz + f.sz * f.cnt, q.field \in {r.field, Append(r.field, f)}
    PROVE  Laid(q)
<1>1. /\ r.sz \in Nat /\ r.field \in Seq(FieldRec) /\ f.sz \in Nat /\ f.cnt \in Nat /\ f.off \in Nat
      /\ f.sz * f.cnt \in Nat
  <2>1. f.sz \in Nat /\ f.cnt \in Nat /\ f.off \in Nat  BY DEF FieldRec
  <2> QED BY <2>1, MulType DEF RepRec
<1> DEFINE n == Len(r.field)
           x == f.sz * f.cnt
<1>2. n \in Nat /\ DOMAIN r.field = 1 .. n  BY <1>1, LenProperties
<1>3. \A i \in 1 .. n :
          /\ Bits(r.field[i]) \subseteq 0 .. r.sz - 1 /\ r.field[i].cnt <= r.field[i].mxUsage
          /\ \A j \in (1 .. n) \ {i} : Bits(r.field[i]) \cap Bits(r.field[j]) = {}
  BY <1>2 DEF Laid
<1>4. Bits(f) = r.sz .. r.sz + x - 1  BY DEF Bits
<1>5. q.sz = r.sz + x /\ x \in Nat  BY <1>1
<1> HIDE DEF x
<1>6. 0 .. r.sz - 1 \subseteq 0 .. q.sz - 1 /\ Bits(f) \subseteq 0 .. q.sz - 1  BY <1>1, <1>4, <1>5
<1>7. \A i \in 1 .. n : Bits(r.field[i]) \cap Bits(f) = {}  BY <1>1, <1>3, <1>4, <1>5
<1>8. CASE q.field = r.field
  BY <1>2, <1>3, <1>6, <1>8 DEF Laid
<1>9. CASE q.field = Append(r.field, f)
  <2>1. /\ q.field \in Seq(FieldRec) /\ Len(q.field) = n + 1
        /\ \A i \in 1 .. n : q.field[i] = r.field[i]
        /\ q.field[n + 1] = f
    BY <1>1, <1>9, AppendProperties
  <2>2. DOMAIN q.field = 1 .. n + 1  BY <2>1, LenProperties
  <2> HIDE DEF n
  <2> SUFFICES ASSUME NEW i \in 1 .. n + 1
               PROVE  /\ Bits(q.field[i]) \subseteq 0 .. q.sz - 1 /\ q.field[i].cnt <= q.field[i].mxUsage
                      /\ \A j \in (1 .. n + 1) \ {i} : Bits(q.field[i]) \cap Bits(q.field[j]) = {}
      BY <2>2 DEF Laid
  <2>3. CASE i = n + 1
    <3>1. q.field[i] = f  BY <2>1, <2>3
    <3>2. \A j \in (1 .. n + 1) \ {i} : j \in 1 .. n /\ q.field[j] = r.field[j]  BY <1>2, <2>1, <2>3
    <3> QED BY <1>6, <1>7, <3>1, <3>2
  <2>4. CASE i # n + 1
    <3>1. i \in 1 .. n /\ q.field[i] = r.field[i]  BY <1>2, <2>1, <2>4
    <3>2. \A j \in (1 .. n + 1) \ {i} : Bits(q.field[i]) \cap Bits(q.field[j]) = {}
      <4> SUFFICES ASSUME NEW j \in (1 .. n + 1) \ {i} PROVE Bits(q.field[i]) \cap Bits(q.field[j]) = {}  OBVIOUS
      <4>1. CASE j = n + 1  BY <1>7, <2>1, <3>1, <4>1
      <4>2. CASE j # n + 1
        <5>1. j \in (1 .. n) \ {i} /\ q.field[j] = r.field[j]  BY <1>2, <2>1, <4>2
        <5> QED BY <1>3, <3>1, <5>1
      <4> QED BY <4>1, <4>2
    <3>3. Bits(q.field[i]) \subseteq 0 .. q.sz - 1 /\ q.field[i].cnt <= q.field[i].mxUsage
      BY <1>3, <1>6, <3>1
    <3> QED BY <3>2, <3>3
  <2> QED BY <2>3, <2>4
<1> QED BY <1>8, <1>9

\* _addField lays its field behind those of its report.
LEMMA AddFieldKeeps ==
    ASSUME ParserInv, UNCHANGED parse, NEW tp \in ReportTps, AddField(tp)
    PROVE  ParserInv'
<1> USE HidAssumption
<1>1. /\ glo \in GloRec /\ loc \in LocRec /\ DOMAIN report \subseteq ReportTps \X (0 .. MxReports)
      /\ report \in [DOMAIN report -> RepRec]
  BY DEF ParserInv, ParserTypes
<1>2. glo.sz \in Nat /\ glo.cnt \in Nat /\ glo.id \in 0 .. MxReports /\ loc.usages \in Nat
  BY <1>1 DEF GloRec, LocRec
<1> DEFINE k == <<tp, glo.id>>
           r == RegisteredReport(tp)
           mx == IF loc.usages > glo.cnt THEN loc.usages ELSE glo.cnt
           f == [off |-> r.sz, sz |-> glo.sz, cnt |-> glo.cnt, mxUsage |-> mx]
           fs == IF loc.usages = 0 THEN r.field ELSE Append(r.field, f)
           q == [r EXCEPT !.sz = Grown(r), !.field = fs]
<1>3. /\ report' = [m \in DOMAIN report \union {k} |-> IF m # k THEN report[m] ELSE q]
      /\ loc' = NoLoc /\ UNCHANGED <<glo, gloStk, col, colCap, colStk>>
  BY DEF AddField
<1>4. r \in RepRec /\ Laid(r)
  <2>1. CASE k \in DOMAIN report
    <3>1. r = report[k]  BY <2>1 DEF RegisteredReport
    <3> QED BY <1>1, <2>1, <3>1 DEF ParserInv, AllLaid
  <2>2. CASE k \notin DOMAIN report
    <3> DEFINE a == LookupCol("Application")
               z == 0
               e == <<>>
    <3>1. r = [sz |-> z, app |-> a, field |-> e]  BY <2>2 DEF RegisteredReport
    <3>2. a \in Nat /\ z \in Nat /\ e \in Seq(FieldRec) /\ DOMAIN e = {}  BY LookupColType, EmptySeq
    <3> HIDE DEF a, z, e, r, k
    <3>3. r \in RepRec  BY <3>1, <3>2 DEF RepRec
    <3>4. DOMAIN r.field = {}  BY <3>1, <3>2
    <3> QED BY <3>3, <3>4 DEF Laid
  <2> QED BY <2>1, <2>2
<1> HIDE DEF r
<1>5. r.sz \in Nat /\ r.field \in Seq(FieldRec) /\ Grown(r) = r.sz + glo.sz * glo.cnt /\ Grown(r) \in Nat
  <2>1. glo.sz * glo.cnt \in Nat  BY <1>2, MulType
  <2> QED BY <1>4, <2>1 DEF RepRec, Grown
<1>6. mx \in Nat /\ glo.cnt <= mx  BY <1>2
<1> HIDE DEF mx
<1>7. f \in FieldRec /\ f.off = r.sz /\ f.cnt <= f.mxUsage /\ f.sz = glo.sz /\ f.cnt = glo.cnt
  BY <1>2, <1>5, <1>6 DEF FieldRec
<1> HIDE DEF f
<1>8. fs \in Seq(FieldRec) /\ fs \in {r.field, Append(r.field, f)}
  BY <1>5, <1>7, AppendProperties
<1> HIDE DEF fs
<1>9. q \in RepRec /\ q.sz = r.sz + f.sz * f.cnt /\ q.field \in {r.field, Append(r.field, f)}
  BY <1>4, <1>5, <1>7, <1>8 DEF RepRec
<1> HIDE DEF q
<1>10. Laid(q)
  <2>1. PICK r1 \in RepRec : r1 = r  BY <1>4
  <2>2. PICK f1 \in FieldRec : f1 = f  BY <1>7
  <2>3. PICK q1 \in RepRec : q1 = q  BY <1>9
  <2>4. Laid(q1)  BY <1>4, <1>7, <1>9, <2>1, <2>2, <2>3, LaidNext
  <2> QED BY <2>3, <2>4
<1>11. /\ DOMAIN report' = DOMAIN report \union {k}
       /\ report'[k] = q /\ \A m \in DOMAIN report \ {k} : report'[m] = report[m]
       /\ report' = [m \in DOMAIN report \union {k} |-> report'[m]]
  BY <1>3
<1>12. k \in ReportTps \X (0 .. MxReports)  BY <1>2
<1> HIDE DEF k
<1>13. report' \in [DOMAIN report' -> RepRec]
  <2>1. \A m \in DOMAIN report \union {k} : report'[m] \in RepRec  BY <1>1, <1>9, <1>11
  <2> QED BY <1>11, <2>1
<1>14. loc' \in LocRec
  <2>1. 0 \in 0 .. UsageMx /\ 0 \in Int  OBVIOUS
  <2> QED BY <1>3, <2>1 DEF NoLoc, LocRec
<1>15. ParserTypes'  BY <1>1, <1>3, <1>11, <1>12, <1>13, <1>14 DEF ParserInv, ParserTypes
<1>16. AllLaid'
  <2> SUFFICES ASSUME NEW m \in DOMAIN report \union {k} PROVE Laid(report'[m])
      BY <1>11 DEF AllLaid, Laid, Bits
  <2>1. CASE m = k  BY <1>10, <1>11, <2>1
  <2>2. CASE m # k
    <3>1. report'[m] = report[m] /\ m \in DOMAIN report  BY <1>11, <2>2
    <3> QED BY <3>1 DEF ParserInv, AllLaid
  <2> QED BY <2>1, <2>2
<1>17. ColInv'  BY <1>3 DEF ParserInv, ColInv
<1> QED BY <1>15, <1>16, <1>17 DEF ParserInv

\* An item that is accepted.
LEMMA ItemKeeps == ParserInv /\ Item => ParserInv'
<1> SUFFICES ASSUME ParserInv, Item PROVE ParserInv'  OBVIOUS
<1> USE HidAssumption
<1>1. UNCHANGED parse  BY DEF Item
<1>2. glo \in GloRec /\ loc \in LocRec  BY DEF ParserInv, ParserTypes
<1>3. CASE \E n \in 1 .. MaxSz : ReportSize(n)
  <2>1. PICK n \in 1 .. MaxSz : ReportSize(n)  BY <1>3
  <2>2. PICK g \in GloRec : Global(g)
    <3>1. n \in 0 .. MaxSz  OBVIOUS
    <3>2. [glo EXCEPT !.sz = n] \in GloRec  BY <1>2, <3>1 DEF GloRec
    <3> QED BY <2>1, <3>2 DEF ReportSize
  <2> QED BY <1>1, <2>2, GlobalKeeps
<1>4. CASE \E n \in 1 .. MaxCnt : ReportCount(n)
  <2>1. PICK n \in 1 .. MaxCnt : ReportCount(n)  BY <1>4
  <2>2. PICK g \in GloRec : Global(g)
    <3>1. n \in 0 .. MaxCnt  OBVIOUS
    <3>2. [glo EXCEPT !.cnt = n] \in GloRec  BY <1>2, <3>1 DEF GloRec
    <3> QED BY <2>1, <3>2 DEF ReportCount
  <2> QED BY <1>1, <2>2, GlobalKeeps
<1>5. CASE \E n \in 1 .. MxReports : ReportId(n)
  <2>1. PICK n \in 1 .. MxReports : ReportId(n)  BY <1>5
  <2>2. PICK g \in GloRec : Global(g)
    <3>1. n \in 0 .. MxReports  OBVIOUS
    <3>2. [glo EXCEPT !.id = n] \in GloRec  BY <1>2, <3>1 DEF GloRec
    <3> QED BY <2>1, <3>2 DEF ReportId
  <2> QED BY <1>1, <2>2, GlobalKeeps
<1>6. CASE \E ok \in BOOLEAN : Logical(ok) \/ Delimiter(ok)
  <2>1. PICK ok \in BOOLEAN : Logical(ok) \/ Delimiter(ok)  BY <1>6
  <2>2. CASE Logical(ok)
    <3>1. [glo EXCEPT !.range = ok] \in GloRec  BY <1>2 DEF GloRec
    <3>2. PICK g \in GloRec : Global(g)  BY <2>2, <3>1 DEF Logical
    <3> QED BY <1>1, <3>2, GlobalKeeps
  <2>3. CASE Delimiter(ok)
    <3> DEFINE one == 1
               zero == 0
    <3>1. one \in Int /\ zero \in Int /\ loc.branch + 1 \in Int  BY <1>2 DEF LocRec
    <3> DEFINE b == loc.branch + 1
    <3>2. Local(IF ok THEN [loc EXCEPT !.dep = one, !.branch = b] ELSE [loc EXCEPT !.dep = zero])
      BY <2>3 DEF Delimiter
    <3>3. b \in Int  BY <3>1
    <3> HIDE DEF one, zero, b
    <3>4. /\ [loc EXCEPT !.dep = one, !.branch = b] \in LocRec
          /\ [loc EXCEPT !.dep = zero] \in LocRec
      BY <1>2, <3>1, <3>3 DEF LocRec
    <3>5. PICK l \in LocRec : Local(l)  BY <3>2, <3>4
    <3> QED BY <1>1, <3>5, LocalKeeps
  <2> QED BY <2>1, <2>2, <2>3
<1>7. CASE Push  BY <1>1, <1>7, PushKeeps
<1>8. CASE Pop  BY <1>1, <1>8, PopKeeps
<1>9. CASE EndCollection  BY <1>1, <1>9, EndCollectionKeeps
<1>10. CASE \E n \in 1 .. UsageMx : Usages(n)
  <2>1. PICK n \in 1 .. UsageMx : Usages(n)  BY <1>10
  <2>2. CASE loc.branch > 1
    <3>1. PICK l \in LocRec : Local(l)  BY <1>2, <2>1, <2>2 DEF Usages
    <3> QED BY <1>1, <3>1, LocalKeeps
  <2>3. CASE ~(loc.branch > 1)
    <3> DEFINE u == loc.usages + n
    <3>1. u \in 0 .. UsageMx
      <4>1. loc.usages + n <= UsageMx  BY <2>1, <2>3 DEF Usages
      <4>2. loc.usages \in 0 .. UsageMx  BY <1>2 DEF LocRec
      <4> QED BY <4>1, <4>2
    <3>2. Local([loc EXCEPT !.usages = u])  BY <2>1, <2>3 DEF Usages
    <3> HIDE DEF u
    <3>3. [loc EXCEPT !.usages = u] \in LocRec  BY <1>2, <3>1 DEF LocRec
    <3>4. PICK l \in LocRec : Local(l)  BY <3>2, <3>3
    <3> QED BY <1>1, <3>4, LocalKeeps
  <2> QED BY <2>2, <2>3
<1>11. CASE \E tp \in Collections : Collection(tp)  BY <1>1, <1>11, CollectionKeeps
<1>12. CASE \E tp \in ReportTps : AddField(tp)  BY <1>1, <1>12, AddFieldKeeps
<1> QED BY <1>3, <1>4, <1>5, <1>6, <1>7, <1>8, <1>9, <1>10, <1>11, <1>12 DEF Item

\* Every step keeps the invariant; a parser that is deleted is made anew.
LEMMA HidStep == ParserInv /\ [HidNext]_hidVars => ParserInv'
<1> SUFFICES ASSUME ParserInv, [HidNext]_hidVars PROVE ParserInv'  OBVIOUS
<1>1. CASE Item  BY <1>1, ItemKeeps
<1>2. CASE Refuse
  <2>1. (Fresh /\ parse \in {"items", "done", "fail"} => ParserInv)'  BY FreshParser, PTL
  <2>2. Fresh' /\ parse' \in {"items", "done", "fail"}  BY <1>2 DEF Refuse, Fresh
  <2> QED BY <2>1, <2>2
<1>3. ASSUME UNCHANGED parserVars, parse' \in {"items", "done", "fail"} PROVE ParserInv'
  BY <1>3 DEF ParserInv, ParserTypes, AllLaid, Laid, Bits, ColInv, parserVars
<1>4. CASE Finish  BY <1>3, <1>4 DEF Finish
<1>5. CASE NextDev  BY <1>3, <1>5 DEF NextDev
<1>6. CASE UNCHANGED hidVars  BY <1>3, <1>6 DEF hidVars, ParserInv, ParserTypes
<1> QED BY <1>1, <1>2, <1>4, <1>5, <1>6 DEF HidNext

\* The invariant of the parser (hardware/hid/parse.c).
THEOREM ParserKept == HidSpec => []ParserInv
<1>1. HidInit => ParserInv
  <2>1. HidInit => Fresh /\ parse \in {"items", "done", "fail"}  BY DEF HidInit, Fresh
  <2> QED BY <2>1, FreshParser
<1> QED BY <1>1, HidStep, PTL DEF HidSpec

\* The values of _initParser and of every item keep their types.
THEOREM HidTyped == HidSpec => []HidTypeOK
<1>1. ParserInv => HidTypeOK
  BY DEF ParserInv, ParserTypes, HidTypeOK, GloRec, LocRec
<1> QED BY <1>1, ParserKept, PTL

\* The fields of a report do not share a bit and end within its size, and
\* the collections that are open are in the array (_addField, _collection).
THEOREM FieldsStayApart == HidSpec => []FieldsApart
<1>1. ParserInv => FieldsApart  BY DEF ParserInv, AllLaid, Laid, ColInv, FieldsApart
<1> QED BY <1>1, ParserKept, PTL
=============================================================================
