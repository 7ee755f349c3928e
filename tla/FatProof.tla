------------------------------ MODULE FatProof ------------------------------
(***************************************************************************)
(* Proofs about the FAT32 driver's three structures, for any number of     *)
(* threads, clusters, nodes, files and sectors and any limits: the cluster *)
(* cache (FatCache), the FAT and the files' chains (FatFile) and the       *)
(* entries of directories (FatEntry).                                      *)
(***************************************************************************)
EXTENDS FatCache, FatFile, FatEntry, DataLemmas

-----------------------------------------------------------------------------
(***************************************************************************)
(* FatCache: the nodes of the cluster cache are shared rightly, are not    *)
(* evicted under their users, and are bounded.                             *)
(***************************************************************************)
(* The invariant. *)

Record == [idx : Clus, waitCnt : Nat, modiCnt : Nat, dirty : BOOLEAN, useLck : Thread \union {None}]

CacheTypes ==
    /\ DOMAIN node \subseteq Node /\ node \in [DOMAIN node -> Record]
    /\ freeLst \in Seq(Node) /\ freeNum \in Nat
    /\ at \in [Thread -> Points] /\ my \in [Thread -> Node \union {None}]

\* The threads and their nodes: who has passed the use lock holds it.
Waiting(n) == {t \in Thread : my[t] = n /\ at[t] \in {"wait", "locked"}}
UserInv ==
    /\ \A t \in Thread : my[t] = None <=> at[t] = "out"
    /\ \A t \in Thread : at[t] # "out" => my[t] \in DOMAIN node
    /\ \A t \in Thread : at[t] \in {"locked", "use"} => node[my[t]].useLck = t
    /\ \A n \in DOMAIN node : node[n].waitCnt = Cardinality(Waiting(n))
    /\ \A m, n \in DOMAIN node : node[m].idx = node[n].idx => m = n

\* The free list and its counter.
FreeInv ==
    /\ ToSet(freeLst) \subseteq DOMAIN node /\ IsInjective(freeLst)
    /\ \A n \in DOMAIN node : n \in ToSet(freeLst) <=> \A t \in Thread : my[t] # n
    /\ Len(freeLst) <= freeNum /\ freeNum <= MaxFree

ModiInv == \A n \in DOMAIN node : node[n].modiCnt < MaxModi /\ (node[n].dirty => node[n].modiCnt > 0)

CacheInv == CacheTypes /\ UserInv /\ FreeInv /\ ModiInv
-----------------------------------------------------------------------------
(* The steps. *)

\* The cache begins empty (initParCache).
LEMMA CacheInit == Init => CacheInv
<1> SUFFICES ASSUME Init PROVE CacheInv  OBVIOUS
<1> USE CacheAssumption DEF Init
<1>1. node = <<>> /\ DOMAIN node = {} /\ freeLst = <<>> /\ freeLst \in Seq(Node) /\ Len(freeLst) = 0
      /\ DOMAIN freeLst = {}
  BY EmptySeq
<1>2. CacheTypes
  <2>1. node \in [DOMAIN node -> Record]  BY <1>1
  <2>2. at \in [Thread -> Points] /\ my \in [Thread -> Node \union {None}]  BY DEF Points
  <2> QED BY <1>1, <2>1, <2>2 DEF CacheTypes
<1>3. UserInv  BY <1>1 DEF UserInv
<1>4. FreeInv
  <2>1. ToSet(freeLst) = {} /\ IsInjective(freeLst)  BY <1>1 DEF ToSet, IsInjective
  <2> QED BY <1>1, <2>1 DEF FreeInv
<1>5. ModiInv  BY <1>1 DEF ModiInv
<1> QED BY <1>2, <1>3, <1>4, <1>5 DEF CacheInv

\* The threads that wait are finitely many.
LEMMA WaitingFinite ==
    ASSUME NEW n
    PROVE  /\ IsFiniteSet(Waiting(n)) /\ Cardinality(Waiting(n)) \in Nat
           /\ Cardinality(Waiting(n)) <= Cardinality(Thread)
<1>1. Waiting(n) \in SUBSET Thread  BY DEF Waiting
<1> QED BY <1>1, CacheAssumption, FS_Subset, FS_CardinalityType

\* A thread begins to wait for its node, or no longer waits.
LEMMA WaitsFor ==
    ASSUME NEW t \in Thread, NEW n, t \notin Waiting(n), Waiting(n)' = Waiting(n) \union {t}
    PROVE  Cardinality(Waiting(n)') = Cardinality(Waiting(n)) + 1
<1>1. IsFiniteSet(Waiting(n))  BY WaitingFinite
<1> QED BY <1>1, FS_AddElement
\* ... and this one no longer.
LEMMA WaitsNoMore ==
    ASSUME NEW t \in Thread, NEW n, t \in Waiting(n), Waiting(n)' = Waiting(n) \ {t}
    PROVE  Cardinality(Waiting(n)') = Cardinality(Waiting(n)) - 1
<1>1. IsFiniteSet(Waiting(n))  BY WaitingFinite
<1> QED BY <1>1, FS_RemoveElement

\* A thread's own point and node.
LEMMA Went ==
    ASSUME CacheTypes, NEW t \in Thread, NEW a \in Points, NEW n \in Node \union {None}, Goto(t, a, n)
    PROVE  /\ at' \in [Thread -> Points] /\ my' \in [Thread -> Node \union {None}]
           /\ at'[t] = a /\ my'[t] = n
           /\ \A o \in Thread : o # t => at'[o] = at[o] /\ my'[o] = my[o]
BY DEF CacheTypes, Goto

\* getClusCacheNd of a cluster that is cached
LEMMA HitHeld ==
    ASSUME CacheInv, NEW t \in Thread, NEW c \in Clus, Hit(t, c)
    PROVE  CacheInv'
<1> USE CacheAssumption DEF CacheInv
<1>1. PICK n \in DOMAIN node :
         /\ at[t] = "out" /\ node[n].idx = c
         /\ node' = [node EXCEPT ![n].waitCnt = @ + 1]
         /\ freeLst' = List_del(freeLst, n)
         /\ Goto(t, "wait", n)
         /\ freeNum' = freeNum
  BY DEF Hit
<1>2. n \in Node /\ n # None  BY DEF CacheTypes
<1>3. /\ at' \in [Thread -> Points] /\ my' \in [Thread -> Node \union {None}]
      /\ at'[t] = "wait" /\ my'[t] = n
      /\ \A o \in Thread : o # t => at'[o] = at[o] /\ my'[o] = my[o]
  BY <1>1, <1>2, Went DEF Points
<1>4. my[t] = None /\ at[t] = "out"  BY <1>1 DEF UserInv
<1>5. node \in [DOMAIN node -> Record] /\ node[n] \in Record /\ node[n].waitCnt \in Nat
  BY DEF CacheTypes, Record
<1>6. /\ DOMAIN node' = DOMAIN node
      /\ \A m \in DOMAIN node : m # n => node'[m] = node[m]
      /\ node'[n] = [node[n] EXCEPT !.waitCnt = @ + 1]
  BY <1>1, <1>5
<1>7. /\ node'[n] \in Record
      /\ node'[n].idx = node[n].idx /\ node'[n].waitCnt = node[n].waitCnt + 1
      /\ node'[n].modiCnt = node[n].modiCnt /\ node'[n].dirty = node[n].dirty
      /\ node'[n].useLck = node[n].useLck
  BY <1>5, <1>6 DEF Record
<1>8. /\ freeLst' \in Seq(Node) /\ IsInjective(freeLst')
      /\ ToSet(freeLst') = ToSet(freeLst) \ {n} /\ Len(freeLst') <= Len(freeLst)
      /\ Len(freeLst) \in Nat /\ Len(freeLst') \in Nat
  <2>1. freeLst \in Seq(Node) /\ IsInjective(freeLst)  BY DEF CacheTypes, FreeInv
  <2>2. /\ freeLst' \in Seq(Node) /\ IsInjective(freeLst')
        /\ ToSet(freeLst') = ToSet(freeLst) \ {n} /\ Len(freeLst') <= Len(freeLst)
    BY <1>1, <2>1, DelOne
  <2> QED BY <2>1, <2>2, LenProperties
<1>9. CacheTypes'
  <2>1. node' \in [DOMAIN node' -> Record]  BY <1>1, <1>5, <1>6, <1>7
  <2> QED BY <1>1, <1>3, <1>6, <1>8, <2>1 DEF CacheTypes
<1>10. UserInv'
  <2>1. t \notin Waiting(n) /\ Waiting(n)' = Waiting(n) \union {t}
    BY <1>2, <1>3, <1>4 DEF Waiting
  <2>2. \A m \in DOMAIN node : m # n => Waiting(m)' = Waiting(m)
    <3> SUFFICES ASSUME NEW m \in DOMAIN node, m # n PROVE Waiting(m)' = Waiting(m)  OBVIOUS
    <3>1. m # None  BY DEF CacheTypes
    <3> QED BY <1>3, <1>4, <3>1 DEF Waiting
  <2>3. node'[n].waitCnt = Cardinality(Waiting(n)')
    <3>1. n \in DOMAIN node /\ Waiting(n) \subseteq Thread  BY <1>1 DEF Waiting
    <3>2. node[n].waitCnt = Cardinality(Waiting(n))  BY <3>1 DEF UserInv
    <3>3. Cardinality(Waiting(n)') = Cardinality(Waiting(n)) + 1  BY <2>1, <3>1, WaitsFor
    <3> QED BY <1>7, <3>2, <3>3
  <2>4. \A m \in DOMAIN node' : node'[m].waitCnt = Cardinality(Waiting(m)')
    <3> SUFFICES ASSUME NEW m \in DOMAIN node PROVE node'[m].waitCnt = Cardinality(Waiting(m)')
      BY <1>6
    <3>1. CASE m = n  BY <2>3, <3>1
    <3>2. CASE m # n
      <4>1. node[m].waitCnt = Cardinality(Waiting(m))  BY DEF UserInv
      <4> QED BY <1>6, <2>2, <3>2, <4>1
    <3> QED BY <3>1, <3>2
  <2>5. \A k, m \in DOMAIN node' : node'[k].idx = node'[m].idx => k = m
    <3>1. \A m \in DOMAIN node : node'[m].idx = node[m].idx  BY <1>6, <1>7
    <3>2. \A k, m \in DOMAIN node : node[k].idx = node[m].idx => k = m  BY DEF UserInv
    <3> QED BY <1>6, <3>1, <3>2
  <2>6. \A o \in Thread : my'[o] = None <=> at'[o] = "out"  BY <1>2, <1>3 DEF UserInv
  <2>7. \A o \in Thread : at'[o] # "out" => my'[o] \in DOMAIN node'  BY <1>3, <1>6 DEF UserInv
  <2>8. \A o \in Thread : at'[o] \in {"locked", "use"} => node'[my'[o]].useLck = o
    <3> SUFFICES ASSUME NEW o \in Thread, at'[o] \in {"locked", "use"} PROVE node'[my'[o]].useLck = o
      OBVIOUS
    <3>1. o # t /\ at'[o] = at[o] /\ my'[o] = my[o]  BY <1>3
    <3>2. my[o] \in DOMAIN node /\ node[my[o]].useLck = o  BY <3>1 DEF UserInv
    <3> QED BY <1>6, <1>7, <3>1, <3>2
  <2> QED BY <2>4, <2>5, <2>6, <2>7, <2>8 DEF UserInv
<1>11. FreeInv'
  <2>1. \A m \in DOMAIN node' : m \in ToSet(freeLst') <=> \A o \in Thread : my'[o] # m
    <3> SUFFICES ASSUME NEW m \in DOMAIN node
                 PROVE  m \in ToSet(freeLst') <=> \A o \in Thread : my'[o] # m
      BY <1>6
    <3>1. m # None  BY DEF CacheTypes
    <3>2. CASE m = n  BY <1>3, <1>8, <3>2
    <3>3. CASE m # n  BY <1>3, <1>4, <1>8, <3>1, <3>3 DEF FreeInv
    <3> QED BY <3>2, <3>3
  <2>2. Len(freeLst') <= freeNum /\ freeNum <= MaxFree  BY <1>8 DEF FreeInv, CacheTypes
  <2> QED BY <1>1, <1>6, <1>8, <2>1, <2>2 DEF FreeInv
<1>12. ModiInv'  BY <1>6, <1>7 DEF ModiInv
<1> QED BY <1>9, <1>10, <1>11, <1>12

\* ... and of one that is not
LEMMA MissHeld ==
    ASSUME CacheInv, NEW t \in Thread, NEW c \in Clus, Miss(t, c)
    PROVE  CacheInv'
<1> USE CacheAssumption DEF CacheInv
<1> DEFINE new == [idx |-> c, waitCnt |-> 1, modiCnt |-> 0, dirty |-> FALSE, useLck |-> None]
<1>1. PICK n \in Node \ DOMAIN node :
         /\ at[t] = "out" /\ \A m \in DOMAIN node : node[m].idx # c
         /\ node' = [m \in DOMAIN node \union {n} |-> IF m = n THEN new ELSE node[m]]
         /\ Goto(t, "wait", n)
         /\ freeLst' = freeLst /\ freeNum' = freeNum
  BY DEF Miss
<1>2. n \in Node /\ n # None /\ n \notin DOMAIN node  OBVIOUS
<1>3. /\ at' \in [Thread -> Points] /\ my' \in [Thread -> Node \union {None}]
      /\ at'[t] = "wait" /\ my'[t] = n
      /\ \A o \in Thread : o # t => at'[o] = at[o] /\ my'[o] = my[o]
  BY <1>1, <1>2, Went DEF Points
<1>4. my[t] = None /\ at[t] = "out"  BY <1>1 DEF UserInv
<1>5. new \in Record  BY DEF Record
<1>6. /\ new.idx = c /\ new.waitCnt = 1 /\ new.modiCnt = 0 /\ ~new.dirty  OBVIOUS
<1> HIDE DEF new
<1>7. /\ DOMAIN node' = DOMAIN node \union {n} /\ node'[n] = new
      /\ \A m \in DOMAIN node : m # n /\ node'[m] = node[m]
  BY <1>1, <1>2
<1>8. \A o \in Thread : my[o] # n
  BY <1>2 DEF UserInv
<1>9. CacheTypes'
  <2>1. node \in [DOMAIN node -> Record]  BY DEF CacheTypes
  <2>2. node' \in [DOMAIN node' -> Record]  BY <1>1, <1>5, <1>7, <2>1
  <2> QED BY <1>1, <1>2, <1>3, <1>7, <2>2 DEF CacheTypes
<1>10. UserInv'
  <2>1. Waiting(n)' = {t}  BY <1>3, <1>8 DEF Waiting
  <2>2. Cardinality(Waiting(n)') = 1  BY <2>1, FS_Singleton
  <2>3. \A m \in DOMAIN node : Waiting(m)' = Waiting(m)
    <3> SUFFICES ASSUME NEW m \in DOMAIN node PROVE Waiting(m)' = Waiting(m)  OBVIOUS
    <3>1. m # None /\ m # n  BY <1>2 DEF CacheTypes
    <3> QED BY <1>3, <1>4, <3>1 DEF Waiting
  <2>4. \A m \in DOMAIN node' : node'[m].waitCnt = Cardinality(Waiting(m)')
    BY <1>6, <1>7, <2>2, <2>3 DEF UserInv
  <2>5. \A k, m \in DOMAIN node' : node'[k].idx = node'[m].idx => k = m
    BY <1>1, <1>6, <1>7 DEF UserInv
  <2>6. \A o \in Thread : my'[o] = None <=> at'[o] = "out"  BY <1>2, <1>3 DEF UserInv
  <2>7. \A o \in Thread : at'[o] # "out" => my'[o] \in DOMAIN node'  BY <1>3, <1>7 DEF UserInv
  <2>8. \A o \in Thread : at'[o] \in {"locked", "use"} => node'[my'[o]].useLck = o
    <3> SUFFICES ASSUME NEW o \in Thread, at'[o] \in {"locked", "use"} PROVE node'[my'[o]].useLck = o
      OBVIOUS
    <3>1. o # t /\ at'[o] = at[o] /\ my'[o] = my[o]  BY <1>3
    <3>2. my[o] \in DOMAIN node /\ node[my[o]].useLck = o  BY <3>1 DEF UserInv
    <3> QED BY <1>7, <3>1, <3>2
  <2> QED BY <2>4, <2>5, <2>6, <2>7, <2>8 DEF UserInv
<1>11. FreeInv'
  <2>1. \A m \in DOMAIN node' : m \in ToSet(freeLst) <=> \A o \in Thread : my'[o] # m
    <3> SUFFICES ASSUME NEW m \in DOMAIN node \union {n}
                 PROVE  m \in ToSet(freeLst) <=> \A o \in Thread : my'[o] # m
      BY <1>7
    <3>1. m # None  BY <1>2 DEF CacheTypes
    <3>2. CASE m = n  BY <1>2, <1>3, <3>2 DEF FreeInv
    <3>3. CASE m # n  BY <1>3, <1>4, <3>1, <3>3 DEF FreeInv
    <3> QED BY <3>2, <3>3
  <2> QED BY <1>1, <1>7, <2>1 DEF FreeInv
<1>12. ModiInv'  BY <1>6, <1>7 DEF ModiInv
<1> QED BY <1>9, <1>10, <1>11, <1>12

\* The use lock, and the counter of those that wait
LEMMA UseHeld ==
    ASSUME CacheInv, NEW t \in Thread, Use(t) \/ StopWaiting(t)
    PROVE  CacheInv'
<1> USE CacheAssumption DEF CacheInv
<1>1. at[t] \in {"wait", "locked"} /\ freeLst' = freeLst /\ freeNum' = freeNum
  BY DEF Use, StopWaiting
<1>2. PICK n \in DOMAIN node : n = my[t]  BY <1>1 DEF UserInv
<1>3. node \in [DOMAIN node -> Record] /\ node[n] \in Record /\ node[n].waitCnt \in Nat /\ n \in Node
  BY DEF CacheTypes, Record
<1>4. ASSUME NEW a \in {"locked", "use"}, Goto(t, a, my[t])
      PROVE  /\ at' \in [Thread -> Points] /\ my' = my
             /\ at'[t] = a /\ \A o \in Thread : o # t => at'[o] = at[o]
  <2>1. a \in Points /\ my[t] \in Node \union {None}  BY <1>2, <1>3 DEF Points
  <2>2. my' = my  BY <1>4 DEF Goto, CacheTypes
  <2> QED BY <1>4, <2>1, <2>2, Went
\* What is the same for both: all but the lock and the counter of n.
<1>5. ASSUME NEW a \in {"locked", "use"}, Goto(t, a, my[t]),
             DOMAIN node' = DOMAIN node, node'[n] \in Record,
             \A m \in DOMAIN node : m # n => node'[m] = node[m],
             node' \in [DOMAIN node -> Record],
             node'[n].idx = node[n].idx, node'[n].modiCnt = node[n].modiCnt,
             node'[n].dirty = node[n].dirty, node'[n].useLck = t,
             node'[n].waitCnt = Cardinality(Waiting(n)'),
             \A o \in Thread : o # t /\ my[o] = n => at[o] \notin {"locked", "use"}
      PROVE  CacheInv'
  <2>1. /\ at' \in [Thread -> Points] /\ my' = my
        /\ at'[t] = a /\ \A o \in Thread : o # t => at'[o] = at[o]
    BY <1>4, <1>5
  <2>2. CacheTypes'  BY <1>1, <1>5, <2>1 DEF CacheTypes
  <2>3. FreeInv'  BY <1>1, <1>5, <2>1 DEF FreeInv
  <2>4. ModiInv'  BY <1>5 DEF ModiInv
  <2>5. UserInv'
    <3>1. \A m \in DOMAIN node : m # n => Waiting(m)' = Waiting(m)
      BY <1>2, <2>1 DEF Waiting
    <3>2. \A m \in DOMAIN node' : node'[m].waitCnt = Cardinality(Waiting(m)')
      BY <1>5, <3>1 DEF UserInv
    <3>3. \A k, m \in DOMAIN node' : node'[k].idx = node'[m].idx => k = m  BY <1>5 DEF UserInv
    <3>4. \A o \in Thread : at'[o] \in {"locked", "use"} => node'[my'[o]].useLck = o
      <4> SUFFICES ASSUME NEW o \in Thread, at'[o] \in {"locked", "use"}
                   PROVE  node'[my[o]].useLck = o
        BY <2>1
      <4>1. CASE o = t  BY <1>2, <1>5, <4>1
      <4>2. CASE o # t
        <5>1. at[o] \in {"locked", "use"} /\ my[o] # n  BY <1>5, <2>1, <4>2
        <5>2. my[o] \in DOMAIN node /\ node[my[o]].useLck = o  BY <5>1 DEF UserInv
        <5> QED BY <1>5, <5>1, <5>2
      <4> QED BY <4>1, <4>2
    <3>5. \A o \in Thread : /\ my'[o] = None <=> at'[o] = "out"
                            /\ at'[o] # "out" => my'[o] \in DOMAIN node'
      BY <1>1, <1>5, <2>1 DEF UserInv
    <3> QED BY <3>2, <3>3, <3>4, <3>5 DEF UserInv
  <2> QED BY <2>2, <2>3, <2>4, <2>5
<1>6. CASE Use(t)
  <2>1. /\ at[t] = "wait" /\ node[n].useLck = None
        /\ node' = [node EXCEPT ![n].useLck = t] /\ Goto(t, "locked", my[t])
    BY <1>2, <1>6 DEF Use
  <2>2. /\ DOMAIN node' = DOMAIN node /\ \A m \in DOMAIN node : m # n => node'[m] = node[m]
        /\ node'[n] = [node[n] EXCEPT !.useLck = t]
    BY <1>3, <2>1
  <2>3. /\ node'[n] \in Record /\ node'[n].idx = node[n].idx /\ node'[n].modiCnt = node[n].modiCnt
        /\ node'[n].dirty = node[n].dirty /\ node'[n].useLck = t
        /\ node'[n].waitCnt = node[n].waitCnt
    BY <1>3, <2>2 DEF Record
  <2>4. node' \in [DOMAIN node -> Record]  BY <1>3, <2>1, <2>2, <2>3
  <2>5. my' = my /\ at'[t] = "locked" /\ \A o \in Thread : o # t => at'[o] = at[o]  BY <1>4, <2>1
  <2>6. Waiting(n)' = Waiting(n)  BY <2>1, <2>5 DEF Waiting
  <2>7. node'[n].waitCnt = Cardinality(Waiting(n)')  BY <2>3, <2>6 DEF UserInv
  <2>8. \A o \in Thread : my[o] = n => at[o] \notin {"locked", "use"}
    <3>1. \A o \in Thread : o # None  OBVIOUS
    <3> QED BY <2>1, <3>1 DEF UserInv
  <2> QED BY <1>5, <2>1, <2>2, <2>3, <2>4, <2>7, <2>8
<1>7. CASE StopWaiting(t)
  <2>1. /\ at[t] = "locked" /\ node' = [node EXCEPT ![n].waitCnt = @ - 1] /\ Goto(t, "use", my[t])
    BY <1>2, <1>7 DEF StopWaiting
  <2>2. /\ DOMAIN node' = DOMAIN node /\ \A m \in DOMAIN node : m # n => node'[m] = node[m]
        /\ node'[n] = [node[n] EXCEPT !.waitCnt = @ - 1]
    BY <1>3, <2>1
  <2>3. my' = my /\ at'[t] = "use" /\ \A o \in Thread : o # t => at'[o] = at[o]  BY <1>4, <2>1
  <2>4. t \in Waiting(n) /\ Waiting(n)' = Waiting(n) \ {t}  BY <1>2, <2>1, <2>3 DEF Waiting
  <2>5. Cardinality(Waiting(n)') = node[n].waitCnt - 1  BY <2>4, WaitsNoMore DEF UserInv
  <2>6. node[n].waitCnt - 1 \in Nat  BY <2>5, WaitingFinite, <2>4, FS_RemoveElement, FS_CardinalityType
  <2>7. node[n].useLck = t  BY <1>2, <2>1 DEF UserInv
  <2>8. /\ node'[n] \in Record /\ node'[n].idx = node[n].idx /\ node'[n].modiCnt = node[n].modiCnt
        /\ node'[n].dirty = node[n].dirty /\ node'[n].useLck = t
        /\ node'[n].waitCnt = node[n].waitCnt - 1
    BY <1>3, <2>2, <2>6, <2>7 DEF Record
  <2>9. node' \in [DOMAIN node -> Record]  BY <1>3, <2>1, <2>2, <2>8
  <2>10. \A o \in Thread : o # t /\ my[o] = n => at[o] \notin {"locked", "use"}
    BY <2>7 DEF UserInv
  <2> QED BY <1>5, <2>1, <2>2, <2>5, <2>8, <2>9, <2>10
<1> QED BY <1>6, <1>7

\* releaseClusCacheNd.  The node that nobody waits for goes to the free list;
\* the one that leaves the list has no users.
LEMMA ReleaseHeld ==
    ASSUME CacheInv, NEW t \in Thread, NEW modi \in {0, 1}, Release(t, modi)
    PROVE  CacheInv'
<1> USE CacheAssumption DEF CacheInv
<1>1. at[t] = "use"  BY DEF Release
<1>2. PICK n \in DOMAIN node : n = my[t]  BY <1>1 DEF UserInv
<1>3. node \in [DOMAIN node -> Record] /\ node[n] \in Record /\ n \in Node /\ n # None
  BY DEF CacheTypes
<1> DEFINE k == node[n].modiCnt + modi
           lst == Append(freeLst, n)
           evict == Free(n) /\ Full
           gone == IF evict THEN {Head(lst)} ELSE {}
           left == [node[n] EXCEPT !.useLck = None,
                                   !.modiCnt = IF Flush(k) THEN k - MaxModi ELSE k,
                                   !.dirty = ~(Flush(k) \/ evict) /\ (@ \/ modi = 1)]
<1>4. /\ node' = [m \in DOMAIN node \ gone |-> IF m = n THEN left ELSE node[m]]
      /\ freeLst' = IF ~Free(n) THEN freeLst ELSE IF evict THEN Tail(lst) ELSE lst
      /\ freeNum' = IF Free(n) /\ ~Full THEN freeNum + 1 ELSE freeNum
      /\ Goto(t, "out", None)
  BY <1>2 DEF Release
<1>5. /\ at' \in [Thread -> Points] /\ my' \in [Thread -> Node \union {None}]
      /\ at'[t] = "out" /\ my'[t] = None
      /\ \A o \in Thread : o # t => at'[o] = at[o] /\ my'[o] = my[o]
  BY <1>4, Went DEF Points
\* The counter of modifications
<1>6. node[n].modiCnt \in Nat /\ node[n].modiCnt < MaxModi /\ node[n].dirty \in BOOLEAN
      /\ (node[n].dirty => node[n].modiCnt > 0) /\ node[n].waitCnt \in Nat
  BY <1>3 DEF ModiInv, Record
<1>7. k \in Nat /\ k <= MaxModi /\ (modi = 1 => k > 0) /\ (node[n].dirty => k > 0)
  BY <1>6
<1>8. Flush(k) <=> k >= MaxModi  BY DEF Flush
<1> DEFINE nk == IF Flush(k) THEN k - MaxModi ELSE k
           nd == ~(Flush(k) \/ evict) /\ (node[n].dirty \/ modi = 1)
<1>9. nk \in Nat /\ nk < MaxModi
  <2> HIDE DEF k
  <2> QED BY <1>7, <1>8
<1>10. nd \in BOOLEAN /\ (nd => nk > 0)
  <2>1. nd \in BOOLEAN  OBVIOUS
  <2>2. ASSUME nd PROVE nk > 0
    <3>1. ~Flush(k) /\ (node[n].dirty \/ modi = 1)  BY <2>2
    <3>2. nk = k  BY <3>1
    <3>3. k > 0  BY <1>7, <3>1
    <3> QED BY <3>2, <3>3
  <2> QED BY <2>1, <2>2
<1>11. left = [node[n] EXCEPT !.useLck = None, !.modiCnt = nk, !.dirty = nd]  OBVIOUS
<1> HIDE DEF nk, nd, left
<1>12. /\ left \in Record /\ left.idx = node[n].idx /\ left.waitCnt = node[n].waitCnt
       /\ left.modiCnt = nk /\ left.dirty = nd
  BY <1>3, <1>9, <1>10, <1>11 DEF Record
<1> HIDE DEF k
\* The free list
<1>13. /\ freeLst \in Seq(Node) /\ IsInjective(freeLst) /\ n \notin ToSet(freeLst)
       /\ Len(freeLst) \in Nat
  BY <1>2, LenProperties DEF FreeInv, CacheTypes
<1>14. /\ lst \in Seq(Node) /\ IsInjective(lst) /\ ToSet(lst) = ToSet(freeLst) \union {n}
       /\ Len(lst) = Len(freeLst) + 1 /\ lst # <<>>
  <2>1. /\ lst \in Seq(Node) /\ IsInjective(lst) /\ ToSet(lst) = ToSet(freeLst) \union {n}
        /\ Len(lst) = Len(freeLst) + 1
    BY <1>3, <1>13, AppendOne
  <2> QED BY <1>13, <2>1, EmptySeq
<1> HIDE DEF lst
<1>15. Head(lst) \in ToSet(lst)
       /\ Tail(lst) \in Seq(Node) /\ IsInjective(Tail(lst)) /\ ToSet(Tail(lst)) = ToSet(lst) \ {Head(lst)}
       /\ Len(Tail(lst)) = Len(lst) - 1
  BY <1>14, TailOne
\* Who uses n, and that nobody else does if nobody waits for it
<1>16. node[n].useLck = t  BY <1>1, <1>2 DEF UserInv
<1>17. \A o \in Thread : o # t /\ my[o] = n => at[o] = "wait"
  BY <1>3, <1>16 DEF UserInv, CacheTypes, Points
<1>18. Free(n) <=> Waiting(n) = {}
  BY WaitingFinite, FS_EmptySet DEF Free, UserInv
<1>19. Free(n) <=> \A o \in Thread : my'[o] # n
  <2>1. ASSUME Free(n), NEW o \in Thread PROVE my'[o] # n
    BY <1>3, <1>5, <1>17, <1>18, <2>1 DEF Waiting
  <2>2. ASSUME ~Free(n) PROVE \E o \in Thread : my'[o] = n
    <3>1. PICK o \in Thread : my[o] = n /\ at[o] \in {"wait", "locked"}  BY <1>18, <2>2 DEF Waiting
    <3> QED BY <1>1, <1>5, <3>1
  <2> QED BY <2>1, <2>2
\* Evicted is a node without users.
<1>20. gone \subseteq ToSet(lst) /\ (~Free(n) => gone = {})
  BY <1>15
<1>21. \A m \in gone : \A o \in Thread : my'[o] # m
  <2> SUFFICES ASSUME NEW m \in gone, NEW o \in Thread PROVE my'[o] # m  OBVIOUS
  <2>1. Free(n) /\ m \in ToSet(lst)  BY <1>20
  <2>2. CASE m = n  BY <1>19, <2>1, <2>2
  <2>3. CASE m # n
    <3>1. m \in ToSet(freeLst) /\ m \in DOMAIN node  BY <1>14, <2>1, <2>3 DEF FreeInv
    <3>2. my[o] # m /\ m # None  BY <3>1 DEF FreeInv, CacheTypes
    <3> QED BY <1>5, <3>2
  <2> QED BY <2>2, <2>3
<1>22. ToSet(freeLst') = IF Free(n) THEN ToSet(lst) \ gone ELSE ToSet(freeLst)
  <2>1. CASE ~Free(n)  BY <1>4, <2>1
  <2>2. CASE Free(n) /\ Full  BY <1>4, <1>15, <2>2
  <2>3. CASE Free(n) /\ ~Full  BY <1>4, <2>3
  <2> QED BY <2>1, <2>2, <2>3
<1>23. freeLst' \in Seq(Node) /\ IsInjective(freeLst') /\ Len(freeLst') <= freeNum' /\ freeNum' <= MaxFree
       /\ freeNum' \in Nat
  <2>1. Len(freeLst) <= freeNum /\ freeNum <= MaxFree /\ freeNum \in Nat  BY DEF FreeInv, CacheTypes
  <2>2. CASE ~Free(n)
    <3>1. freeLst' = freeLst /\ freeNum' = freeNum  BY <1>4, <2>2
    <3> QED BY <1>13, <2>1, <3>1
  <2>3. CASE Free(n) /\ Full
    <3>1. freeLst' = Tail(lst) /\ freeNum' = freeNum  BY <1>4, <2>3
    <3> QED BY <1>13, <1>14, <1>15, <2>1, <3>1
  <2>4. CASE Free(n) /\ ~Full
    <3>1. freeLst' = lst /\ freeNum' = freeNum + 1  BY <1>4, <2>4
    <3>2. freeNum + 1 <= MaxFree  BY <2>1, <2>4 DEF Full
    <3> QED BY <1>13, <1>14, <2>1, <3>1, <3>2
  <2> QED BY <2>2, <2>3, <2>4
<1> HIDE DEF gone, evict
<1>24. /\ DOMAIN node' = DOMAIN node \ gone
       /\ \A m \in DOMAIN node' : node'[m] = IF m = n THEN left ELSE node[m]
  BY <1>4
<1>25. CacheTypes'
  <2>1. \A m \in DOMAIN node' : (IF m = n THEN left ELSE node[m]) \in Record  BY <1>3, <1>12, <1>24
  <2>2. node' \in [DOMAIN node' -> Record]  BY <1>4, <1>24, <2>1
  <2> QED BY <1>5, <1>23, <1>24, <2>2 DEF CacheTypes
<1>26. UserInv'
  <2>1. \A m \in DOMAIN node : Waiting(m)' = Waiting(m)
    <3> SUFFICES ASSUME NEW m \in DOMAIN node PROVE Waiting(m)' = Waiting(m)  OBVIOUS
    <3>1. t \notin Waiting(m) /\ m # None  BY <1>1 DEF Waiting, CacheTypes
    <3>2. \A o \in Thread : o \in Waiting(m)' <=> o \in Waiting(m)
      BY <1>5, <3>1 DEF Waiting
    <3> QED BY <3>2 DEF Waiting
  <2>2. \A m \in DOMAIN node' : node'[m].waitCnt = Cardinality(Waiting(m)')
    BY <1>12, <1>24, <2>1 DEF UserInv
  <2>3. \A a, m \in DOMAIN node' : node'[a].idx = node'[m].idx => a = m
    BY <1>12, <1>24 DEF UserInv
  <2>4. \A o \in Thread : my'[o] = None <=> at'[o] = "out"  BY <1>5 DEF UserInv
  <2>5. \A o \in Thread : at'[o] # "out" => my'[o] \in DOMAIN node'
    BY <1>5, <1>21, <1>24 DEF UserInv
  <2>6. \A o \in Thread : at'[o] \in {"locked", "use"} => node'[my'[o]].useLck = o
    <3> SUFFICES ASSUME NEW o \in Thread, at'[o] \in {"locked", "use"} PROVE node'[my'[o]].useLck = o
      OBVIOUS
    <3>1. o # t /\ at'[o] = at[o] /\ my'[o] = my[o]  BY <1>5
    <3>2. my[o] # n /\ node[my[o]].useLck = o  BY <1>17, <3>1 DEF UserInv
    <3>3. my[o] \in DOMAIN node'  BY <2>5, <3>1
    <3> QED BY <1>24, <3>1, <3>2, <3>3
  <2> QED BY <2>2, <2>3, <2>4, <2>5, <2>6 DEF UserInv
<1>27. FreeInv'
  <2>1. ToSet(freeLst') \subseteq DOMAIN node'
    <3>1. ToSet(freeLst) \subseteq DOMAIN node  BY DEF FreeInv
    <3>2. CASE Free(n)  BY <1>14, <1>22, <1>24, <3>1, <3>2
    <3>3. CASE ~Free(n)  BY <1>20, <1>22, <1>24, <3>1, <3>3
    <3> QED BY <3>2, <3>3
  <2>2. \A m \in DOMAIN node' : m \in ToSet(freeLst') <=> \A o \in Thread : my'[o] # m
    <3> SUFFICES ASSUME NEW m \in DOMAIN node, m \notin gone
                 PROVE  m \in ToSet(freeLst') <=> \A o \in Thread : my'[o] # m
      BY <1>24
    <3>1. m # None  BY DEF CacheTypes
    <3>2. CASE m = n
      <4>1. n \in ToSet(freeLst') <=> Free(n)  BY <1>13, <1>14, <1>22, <3>2
      <4> QED BY <1>19, <3>2, <4>1
    <3>3. CASE m # n
      <4>1. m \in ToSet(freeLst') <=> m \in ToSet(freeLst)  BY <1>14, <1>22, <3>3
      <4>2. m \in ToSet(freeLst) <=> \A o \in Thread : my[o] # m  BY DEF FreeInv
      <4> QED BY <1>2, <1>5, <3>1, <3>3, <4>1, <4>2
    <3> QED BY <3>2, <3>3
  <2> QED BY <1>23, <2>1, <2>2 DEF FreeInv
<1>28. ModiInv'  BY <1>9, <1>10, <1>12, <1>24 DEF ModiInv
<1> QED BY <1>25, <1>26, <1>27, <1>28

\* Every call of every thread keeps the invariant.
LEMMA CacheStep == CacheInv /\ [Next]_vars => CacheInv'
<1> SUFFICES ASSUME CacheInv, [Next]_vars PROVE CacheInv'  OBVIOUS
<1>1. CASE Next  BY <1>1, HitHeld, MissHeld, UseHeld, ReleaseHeld DEF Next
<1>2. CASE UNCHANGED vars
  <2>1. CacheTypes'  BY <1>2 DEF CacheInv, vars, CacheTypes
  <2>2. \A n : Waiting(n)' = Waiting(n)  BY <1>2 DEF vars, Waiting
  <2>3. UserInv'  BY <1>2, <2>2 DEF CacheInv, vars, UserInv
  <2>4. FreeInv' /\ ModiInv'  BY <1>2 DEF CacheInv, vars, FreeInv, ModiInv
  <2> QED BY <2>1, <2>3, <2>4 DEF CacheInv
<1> QED BY <1>1, <1>2

-----------------------------------------------------------------------------
(* What the invariant says is what the run checks. *)

\* What the invariant says of the types,
LEMMA CacheInvTypes == CacheInv => TypeOK
<1> SUFFICES ASSUME CacheInv PROVE TypeOK  OBVIOUS
<1> USE CacheAssumption DEF CacheInv
<1>1. Cardinality(Thread) \in Nat  BY FS_CardinalityType
<1>2. ASSUME NEW n \in DOMAIN node
      PROVE  node[n] \in [idx : Clus, waitCnt : 0 .. Cardinality(Thread), modiCnt : 0 .. MaxModi,
                          dirty : BOOLEAN, useLck : Thread \union {None}]
  <2>1. node[n] \in Record  BY DEF CacheTypes
  <2>2. node[n].waitCnt \in 0 .. Cardinality(Thread)  BY <1>1, WaitingFinite DEF UserInv
  <2>3. node[n].modiCnt \in 0 .. MaxModi  BY <2>1 DEF ModiInv, Record
  <2> QED BY <2>1, <2>2, <2>3 DEF Record
<1>3. freeNum \in 0 .. MaxFree + 1  BY DEF CacheTypes, FreeInv
<1> QED BY <1>2, <1>3 DEF TypeOK, CacheTypes

\* of the nodes and those who use them,
LEMMA CacheInvShared == CacheInv => CacheShared
<1> SUFFICES ASSUME CacheInv PROVE CacheShared  OBVIOUS
<1> USE CacheAssumption DEF CacheInv
<1>1. ASSUME NEW n \in DOMAIN node
      PROVE  /\ n \in ToSet(freeLst) <=> Users(n) = {}
             /\ node[n].waitCnt = Cardinality({t \in Users(n) : at[t] \in {"wait", "locked"}})
             /\ Cardinality({t \in Users(n) : at[t] \in {"locked", "use"}}) <= 1
  <2>1. n \in ToSet(freeLst) <=> Users(n) = {}  BY DEF FreeInv, Users
  <2>2. {t \in Users(n) : at[t] \in {"wait", "locked"}} = Waiting(n)  BY DEF Users, Waiting
  <2>3. {t \in Users(n) : at[t] \in {"locked", "use"}} \in SUBSET {node[n].useLck}
    BY DEF Users, UserInv
  <2>4. IsFiniteSet({node[n].useLck}) /\ Cardinality({node[n].useLck}) = 1  BY FS_Singleton
  <2>5. Cardinality({t \in Users(n) : at[t] \in {"locked", "use"}}) <= 1  BY <2>3, <2>4, FS_Subset
  <2> QED BY <2>1, <2>2, <2>5 DEF UserInv
<1> QED BY <1>1 DEF CacheShared, UserInv, FreeInv

\* and of how many there are.
LEMMA CacheInvBounded == CacheInv => CacheBounded
<1> SUFFICES ASSUME CacheInv PROVE CacheBounded  OBVIOUS
<1> USE CacheAssumption DEF CacheInv
<1> DEFINE used == {my[t] : t \in Thread}
           free == ToSet(freeLst)
<1>1. IsFiniteSet(free) /\ Cardinality(free) <= Len(freeLst)  BY SetOfList DEF CacheTypes
<1>2. IsFiniteSet(used) /\ Cardinality(used) <= Cardinality(Thread)
  <2>1. my \in Surjection(Thread, used)  BY DEF CacheTypes, Surjection
  <2> QED BY <2>1, FS_Surjection
<1>3. DOMAIN node \in SUBSET (free \union used)  BY DEF FreeInv
<1> HIDE DEF used, free
<1>4. /\ IsFiniteSet(free \union used)
      /\ Cardinality(free \union used) = Cardinality(free) + Cardinality(used) - Cardinality(free \intersect used)
  BY <1>1, <1>2, FS_Union
<1>5. Cardinality(DOMAIN node) <= Cardinality(free \union used)  BY <1>3, <1>4, FS_Subset
<1>6. /\ IsFiniteSet(free \intersect used) /\ IsFiniteSet(DOMAIN node)
      BY <1>1, <1>3, <1>4, FS_Subset, FS_Intersection
<1>7. /\ Cardinality(free) \in Nat /\ Cardinality(used) \in Nat /\ Cardinality(Thread) \in Nat
      /\ Cardinality(free \intersect used) \in Nat /\ Cardinality(DOMAIN node) \in Nat
      /\ Len(freeLst) \in Nat /\ freeNum \in Nat
  BY <1>1, <1>2, <1>6, FS_CardinalityType, LenProperties DEF CacheTypes
<1>8. Len(freeLst) <= freeNum /\ freeNum <= MaxFree  BY DEF FreeInv
<1>9. Cardinality(DOMAIN node) <= MaxFree + Cardinality(Thread)
  BY <1>1, <1>2, <1>4, <1>5, <1>7, <1>8
<1> QED BY <1>8, <1>9 DEF CacheBounded, ModiInv

-----------------------------------------------------------------------------
(***************************************************************************)
(* The nodes and the free list of the cluster cache are well formed and    *)
(* every thread is at a point the code has (fs/fat32/io.c).                *)
(***************************************************************************)
THEOREM CacheTyped == Spec => []TypeOK
<1> QED BY CacheInit, CacheStep, CacheInvTypes, PTL DEF Spec

(***************************************************************************)
(* However many threads use and release clusters, no node is evicted that  *)
(* a thread uses or waits for, no two threads use one, no cluster has two, *)
(* and exactly the nodes without users are on the free list                *)
(* (fs_fat32_getClusCacheNd, fs_fat32_releaseClusCacheNd).                 *)
(***************************************************************************)
THEOREM NodesShared == Spec => []CacheShared
<1> QED BY CacheInit, CacheStep, CacheInvShared, PTL DEF Spec

(***************************************************************************)
(* The cache never has more nodes than its limit and the threads, and a    *)
(* node whose cluster differs from the disk has modifications that are     *)
(* counted (fs_fat32_releaseClusCacheNd).                                  *)
(***************************************************************************)
THEOREM NodesBounded == Spec => []CacheBounded
<1> QED BY CacheInit, CacheStep, CacheInvBounded, PTL DEF Spec

-----------------------------------------------------------------------------
(***************************************************************************)
(* FatFile: the cached FAT is never older than the disk, and no cluster is *)
(* given to two files.                                                     *)
(***************************************************************************)
(* The FAT and its cached sectors. *)

Reach == Sec \union {Far}
FatTypes ==
    /\ disk \in [Sec -> Sectors]
    /\ DOMAIN cache \subseteq Reach /\ cache \in [DOMAIN cache -> Sectors]
    /\ fatLck \in BOOLEAN /\ fat \in [Sound -> Number \union {End}]
FatOK == FatTypes /\ FatCoherent

\* The clusters are the numbers below those of the sector behind the FAT.
LEMMA NumbersAre ==
    /\ Secs \in Nat /\ Secs > 0 /\ SecLen \in Nat /\ SecLen > 0
    /\ Secs * SecLen \in Nat /\ (Secs + 1) * SecLen = Secs * SecLen + SecLen
    /\ Cluster \subseteq Number /\ Number \subseteq Nat /\ Lost \in Number /\ Lost \notin Cluster
    /\ 0 \in Sound /\ End \notin Number /\ Sound \subseteq Cluster
<1> USE FatAssumption
<1>1. Secs \in Nat /\ Secs > 0 /\ SecLen \in Nat /\ SecLen > 0  OBVIOUS
<1>2. Secs * SecLen \in Nat /\ Secs * SecLen > 0  BY <1>1
<1>3. (Secs + 1) * SecLen = Secs * SecLen + SecLen  BY <1>1
<1>4. Cluster \subseteq Number /\ Number \subseteq Nat /\ Lost \in Number /\ Lost \notin Cluster
  BY <1>1, <1>2, <1>3 DEF Cluster, Number, Lost
<1>5. 0 \in Cluster /\ 0 # End  BY <1>2, <1>4 DEF Cluster
<1>6. Off(0) = 0 /\ 0 \notin Under
  <2>1. 0 \div SecLen = 0  BY <1>1
  <2> QED BY <1>5, <2>1 DEF Off, U32
<1> QED BY <1>1, <1>2, <1>3, <1>4, <1>5, <1>6 DEF Sound

\* The place of a number's entry.
LEMMA EntryOf ==
    ASSUME NEW c \in Number \union {End}
    PROVE  /\ Off(c) \in Reach /\ Idx(c) \in 0 .. SecLen - 1
           /\ c \in Number => c = Off(c) * SecLen + Idx(c)
           /\ c \in Cluster => Off(c) \in Sec
<1> DEFINE u == U32(c)
<1>1. u \in Number /\ (c \in Number => u = c)  BY NumbersAre DEF U32
<1>2. Off(c) = u \div SecLen /\ Idx(c) = u % SecLen  BY DEF Off, Idx
<1> HIDE DEF u
<1>3. /\ u \in Int /\ u >= 0 /\ u < Secs * SecLen + SecLen /\ Secs * SecLen \in Int
      /\ SecLen \in Nat /\ SecLen > 0 /\ Secs \in Nat
  BY <1>1, NumbersAre DEF Number
<1> DEFINE q == u \div SecLen
           r == u % SecLen
<1>4. q \in Int /\ r \in Int /\ r >= 0 /\ r < SecLen /\ u = q * SecLen + r  BY <1>3
<1> HIDE DEF q, r
<1>5. q >= 0
  <2>1. ASSUME q <= -1 PROVE FALSE
    <3>1. q * SecLen <= (-1) * SecLen  BY <1>3, <1>4, <2>1
    <3>2. q * SecLen \in Int /\ (-1) * SecLen = -SecLen  BY <1>3, <1>4
    <3> QED BY <1>3, <1>4, <3>1, <3>2
  <2> QED BY <1>4, <2>1
<1>6. q <= Secs
  <2>1. ASSUME q >= Secs + 1 PROVE FALSE
    <3>1. q * SecLen >= (Secs + 1) * SecLen  BY <1>3, <1>4, <2>1
    <3>2. (Secs + 1) * SecLen = Secs * SecLen + SecLen /\ q * SecLen \in Int  BY <1>3, <1>4
    <3> QED BY <1>3, <1>4, <3>1, <3>2
  <2> QED BY <1>3, <1>4, <2>1
<1>7. u < Secs * SecLen => q < Secs
  <2>1. ASSUME q = Secs PROVE u >= Secs * SecLen
    <3>1. q * SecLen = Secs * SecLen  BY <2>1
    <3> QED BY <1>3, <1>4, <3>1
  <2> QED BY <1>3, <1>4, <1>6, <2>1
<1>8. q \in Reach  BY <1>3, <1>4, <1>5, <1>6 DEF Reach, Sec, Far
<1>9. c \in Cluster => q \in Sec
  <2> SUFFICES ASSUME c \in Cluster PROVE q \in Sec  OBVIOUS
  <2>1. u = c  BY <1>1, NumbersAre
  <2>2. u < Secs * SecLen  BY <1>3, <2>1 DEF Cluster
  <2> QED BY <1>3, <1>4, <1>5, <1>7, <2>2 DEF Sec
<1>10. Off(c) = q /\ Idx(c) = r  BY <1>2 DEF q, r
<1>11. r \in 0 .. SecLen - 1  BY <1>3, <1>4
<1> QED BY <1>1, <1>4, <1>8, <1>9, <1>10, <1>11

\* The other way: an entry of a sector of the FAT is one cluster's.
LEMMA ClusterAt ==
    ASSUME NEW o \in Sec, NEW i \in 0 .. SecLen - 1
    PROVE  o * SecLen + i \in Cluster
<1>1. /\ o \in Int /\ i \in Int /\ i >= 0 /\ i < SecLen /\ o >= 0 /\ o + 1 <= Secs
      /\ SecLen \in Nat /\ SecLen > 0 /\ Secs \in Nat /\ Secs * SecLen \in Nat
  BY NumbersAre DEF Sec
<1>2. o * SecLen \in Int /\ o * SecLen >= 0 /\ (o + 1) * SecLen = o * SecLen + SecLen  BY <1>1
<1>3. (o + 1) * SecLen <= Secs * SecLen  BY <1>1
<1> QED BY <1>1, <1>2, <1>3 DEF Cluster

\* The entry of c in a cache and a disk.
EntryIn(ca, d, c) == IF Off(c) \in DOMAIN ca THEN ca[Off(c)][Idx(c)] ELSE d[Off(c)][Idx(c)]

\* What a cache and a disk must be to stand for what was written.
Right(r) ==
    /\ r.disk \in [Sec -> Sectors] /\ DOMAIN r.cache \subseteq Reach
    /\ r.cache \in [DOMAIN r.cache -> Sectors]
    /\ \A c \in Sound : EntryIn(r.cache, r.disk, c) = fat[c]

\* A sector that is read holds what the disk has; one behind the FAT may hold
\* anything, and may be missing.
LEMMA LoadsRight ==
    ASSUME NEW o \in Reach, NEW kept \in SUBSET Reach, NEW d \in [Sec -> Sectors], NEW num,
           NEW s \in Loads(o, kept, d, num),
           kept \subseteq DOMAIN cache, cache \in [DOMAIN cache -> Sectors], o \notin kept,
           \A c \in Sound : fat[c] = IF Off(c) \in kept THEN cache[Off(c)][Idx(c)]
                                     ELSE d[Off(c)][Idx(c)]
    PROVE  Right(s) /\ (o \in Sec => o \in DOMAIN s.cache)
<1> DEFINE with(got, e) == [cache |-> [p \in kept \union got |-> IF p = o THEN e ELSE cache[p]],
                            disk |-> d, num |-> num]
<1>1. \A c \in Sound : Off(c) \in Sec /\ Off(c) # Far
  <2>1. Secs \in Int /\ Far = Secs /\ \A x \in Sec : x < Secs  BY NumbersAre DEF Far, Sec
  <2>2. \A c \in Sound : Off(c) \in Sec  BY NumbersAre, EntryOf
  <2> QED BY <2>1, <2>2
<1>2. ASSUME NEW got \in SUBSET {o}, NEW e, got # {} => e \in Sectors,
             o \in Sec => got = {o} /\ e = d[o]
      PROVE  Right(with(got, e)) /\ (o \in Sec => o \in DOMAIN with(got, e).cache)
  <2> DEFINE ca == [p \in kept \union got |-> IF p = o THEN e ELSE cache[p]]
  <2>1. with(got, e).cache = ca /\ with(got, e).disk = d  OBVIOUS
  <2>2. DOMAIN ca = kept \union got /\ ca \in [kept \union got -> Sectors]  BY <1>2
  <2>3. ASSUME NEW c \in Sound PROVE EntryIn(ca, d, c) = fat[c]
    <3>1. CASE Off(c) = o  BY <1>1, <1>2, <3>1 DEF EntryIn
    <3>2. CASE Off(c) # o /\ Off(c) \in kept  BY <3>2 DEF EntryIn
    <3>3. CASE Off(c) # o /\ Off(c) \notin kept
      <4>1. Off(c) \notin DOMAIN ca  BY <2>2, <3>3
      <4> QED BY <3>3, <4>1 DEF EntryIn
    <3> QED BY <3>1, <3>2, <3>3
  <2>4. o \in Sec => o \in DOMAIN ca  BY <1>2, <2>2
  <2> HIDE DEF ca, with
  <2> QED BY <2>1, <2>2, <2>3, <2>4 DEF Right
<1>3. CASE o = Far
  <2>0. o \notin Sec  BY <1>3, NumbersAre DEF Far, Sec
  <2>1. (\E e \in Data : s = with({o}, e)) \/ s = with({}, <<>>)  BY <1>3 DEF Loads
  <2>2. CASE s = with({}, <<>>)
    <3> HIDE DEF with
    <3> QED BY <1>2, <2>0, <2>2
  <2>3. CASE \E e \in Data : s = with({o}, e)
    <3>1. PICK e \in Data : s = with({o}, e)  BY <2>3
    <3>2. e \in Sectors  BY FatAssumption
    <3> HIDE DEF with
    <3> QED BY <1>2, <2>0, <3>1, <3>2
  <2> QED BY <2>1, <2>2, <2>3
<1>4. CASE o # Far
  <2>1. s = with({o}, d[o])  BY <1>4 DEF Loads
  <2>2. o \in Sec /\ d[o] \in Sectors  BY <1>4 DEF Reach
  <2> HIDE DEF with
  <2> QED BY <1>2, <2>1, <2>2
<1> QED BY <1>3, <1>4

\* _crtFatCache, whether the sector was there, there is room or one is
\* removed: no entry is lost, and a sector of the FAT is cached.
LEMMA CrtLeaves ==
    ASSUME FatOK, NEW o \in Reach, NEW s \in CrtFatCache(o)
    PROVE  Right(s) /\ (o \in Sec => o \in DOMAIN s.cache)
<1>1. \A c \in Sound : EntryIn(cache, disk, c) = fat[c]  BY DEF FatOK, FatCoherent, EntryIn
<1>2. \A c \in Sound : Off(c) \in Sec  BY NumbersAre, EntryOf
<1>6. /\ disk \in [Sec -> Sectors] /\ DOMAIN cache \subseteq Reach
      /\ cache \in [DOMAIN cache -> Sectors]
  BY DEF FatOK, FatTypes
<1>3. CASE o \in DOMAIN cache
  <2>1. s = [cache |-> cache, disk |-> disk, num |-> fatNum]  BY <1>3 DEF CrtFatCache
  <2>2. s.cache = cache /\ s.disk = disk  BY <2>1
  <2> QED BY <1>1, <1>3, <1>6, <2>2 DEF Right
<1>4. CASE o \notin DOMAIN cache /\ ~FatFull
  <2>1. s \in Loads(o, DOMAIN cache, disk, fatNum + 1)  BY <1>4 DEF CrtFatCache
  <2> QED BY <1>1, <1>4, <1>6, <2>1, LoadsRight DEF EntryIn
<1>5. CASE o \notin DOMAIN cache /\ FatFull
  <2>1. PICK q \in DOMAIN cache : s \in Loads(o, DOMAIN cache \ {q}, WrittenBack(q), fatNum)
    BY <1>5 DEF CrtFatCache
  <2> DEFINE kept == DOMAIN cache \ {q}
             d == WrittenBack(q)
  <2>2. cache[q] \in Sectors  BY <1>6
  <2>3. d \in [Sec -> Sectors] /\ \A p \in Sec : d[p] = IF p = q THEN cache[q] ELSE disk[p]
    BY <1>6, <2>2 DEF WrittenBack
  <2> HIDE DEF d
  <2>4. \A c \in Sound : fat[c] = IF Off(c) \in kept THEN cache[Off(c)][Idx(c)]
                                  ELSE d[Off(c)][Idx(c)]
    BY <1>1, <1>2, <2>3 DEF EntryIn
  <2>5. kept \in SUBSET Reach /\ kept \subseteq DOMAIN cache /\ o \notin kept  BY <1>5, <1>6
  <2>6. s \in Loads(o, kept, d, fatNum)  BY <2>1 DEF d
  <2> HIDE DEF kept
  <2> QED BY <1>6, <2>3, <2>4, <2>5, <2>6, LoadsRight
<1> QED BY <1>3, <1>4, <1>5

\* What _crtFatCache leaves is sound.
LEMMA LeavesRight ==
    ASSUME NEW s, Right(s), Leaves(s), fat \in [Sound -> Number \union {End}],
           fatLck' \in BOOLEAN, UNCHANGED fat
    PROVE  FatOK'
<1>1. cache' = s.cache /\ disk' = s.disk  BY DEF Leaves
<1>2. FatTypes'  BY <1>1 DEF FatTypes, Right
<1>3. FatCoherent'  BY <1>1 DEF FatCoherent, Right, EntryIn
<1> QED BY <1>2, <1>3 DEF FatOK

\* No entry becomes free, so that all clusters keep their owners.
Marked == \A d \in Sound : fat[d] # 0 => fat'[d] # 0

\* An entry is written into the sector that is then cached.
LEMMA Stored ==
    ASSUME FatOK, NEW o \in Reach, NEW i \in 0 .. SecLen - 1, NEW v \in Number \union {End}, v # 0,
           NEW s \in CrtFatCache(o), Store(s, o, i, v), fatLck' \in BOOLEAN
    PROVE  /\ FatOK' /\ Marked
           /\ \A d \in Sound : Off(d) = o /\ Idx(d) = i => fat'[d] # 0
<1> DEFINE c0 == o * SecLen + i
           e == IF v = Lost THEN End ELSE v
<1>1. Right(s) /\ (o \in Sec => o \in DOMAIN s.cache)  BY CrtLeaves
<1>2. e \in Number \union {End} /\ e # 0
  <2>1. 0 \in Number /\ End \notin Number  BY NumbersAre
  <2> QED BY <2>1
<1>3. fat \in [Sound -> Number \union {End}]  BY DEF FatOK, FatTypes
<1>4. CASE o \notin DOMAIN s.cache
  <2>1. Leaves(s) /\ UNCHANGED fat  BY <1>4 DEF Store
  <2>2. \A d \in Sound : Off(d) # o
    <3>1. \A d \in Sound : Off(d) \in Sec  BY NumbersAre, EntryOf
    <3> QED BY <1>1, <1>4, <3>1
  <2>3. FatOK'  BY <1>1, <1>3, <2>1, LeavesRight
  <2> QED BY <2>1, <2>2, <2>3 DEF Marked
<1>5. CASE o \in DOMAIN s.cache
  <2> DEFINE ca == [s.cache EXCEPT ![o][i] = e]
             sec == [s.cache[o] EXCEPT ![i] = e]
  <2>1. cache' = ca /\ disk' = s.disk /\ fat' = [c \in Sound |-> IF c = c0 THEN e ELSE fat[c]]
    BY <1>5 DEF Store
  <2>2. s.cache[o] \in Sectors  BY <1>1, <1>5 DEF Right
  <2>3. sec \in Sectors /\ sec[i] = e /\ \A j \in (0 .. SecLen - 1) \ {i} : sec[j] = s.cache[o][j]
    BY <1>2, <2>2 DEF Sectors
  <2>4. ca = [s.cache EXCEPT ![o] = sec]  OBVIOUS
  <2> HIDE DEF ca, sec, e, c0
  <2>5. /\ DOMAIN ca = DOMAIN s.cache /\ ca \in [DOMAIN ca -> Sectors]
        /\ ca[o] = sec /\ \A p \in DOMAIN s.cache \ {o} : ca[p] = s.cache[p]
    BY <1>1, <1>5, <2>3, <2>4 DEF Right
  <2>6. fat' \in [Sound -> Number \union {End}]  BY <1>2, <1>3, <2>1
  <2>7. ASSUME NEW c \in Sound
        PROVE  /\ fat'[c] = EntryIn(ca, s.disk, c)
               /\ fat[c] # 0 => fat'[c] # 0
               /\ Off(c) = o /\ Idx(c) = i => fat'[c] # 0
    <3>1. c \in Number /\ Idx(c) \in 0 .. SecLen - 1 /\ c = Off(c) * SecLen + Idx(c)
          /\ Off(c) \in Sec
      BY NumbersAre, EntryOf
    <3>2. EntryIn(s.cache, s.disk, c) = fat[c]  BY <1>1 DEF Right
    <3>3. CASE Off(c) = o /\ Idx(c) = i
      <4>1. c = c0  BY <3>1, <3>3 DEF c0
      <4>2. fat'[c] = e  BY <2>1, <4>1
      <4>3. EntryIn(ca, s.disk, c) = sec[i]  BY <1>5, <2>5, <3>3 DEF EntryIn
      <4> QED BY <1>2, <2>3, <4>2, <4>3
    <3>4. CASE Off(c) = o /\ Idx(c) # i
      <4>1. c # c0
        <5>1. c = o * SecLen + Idx(c) /\ c0 = o * SecLen + i  BY <3>1, <3>4 DEF c0
        <5>2. o \in Int /\ SecLen \in Int /\ Idx(c) \in Int /\ i \in Int
          BY <3>1, <3>4, NumbersAre DEF Sec
        <5>3. o * SecLen \in Int  BY <5>2
        <5> QED BY <3>4, <5>1, <5>2, <5>3
      <4>2. fat'[c] = fat[c]  BY <2>1, <4>1
      <4>3. EntryIn(ca, s.disk, c) = sec[Idx(c)] /\ EntryIn(s.cache, s.disk, c) = s.cache[o][Idx(c)]
        BY <1>5, <2>5, <3>4 DEF EntryIn
      <4> QED BY <2>3, <3>1, <3>2, <3>4, <4>2, <4>3
    <3>5. CASE Off(c) # o
      <4>1. c # c0 \/ Off(c) = o
        <5> SUFFICES ASSUME c = c0 PROVE Off(c) = o  OBVIOUS
        <5>1. /\ o \in Int /\ SecLen \in Nat /\ SecLen > 0 /\ i \in Int /\ i >= 0 /\ i < SecLen
          BY NumbersAre DEF Reach, Sec, Far
        <5>2. c = o * SecLen + i  BY DEF c0
        <5>3. (o * SecLen + i) \div SecLen = o  BY <5>1
        <5>4. Off(c) = c \div SecLen  BY <3>1, NumbersAre DEF Off, U32
        <5> QED BY <5>2, <5>3, <5>4
      <4>2. fat'[c] = fat[c]  BY <2>1, <3>5, <4>1
      <4>3. EntryIn(ca, s.disk, c) = EntryIn(s.cache, s.disk, c)  BY <2>5, <3>5 DEF EntryIn
      <4> QED BY <3>2, <3>5, <4>2, <4>3
    <3> QED BY <3>3, <3>4, <3>5
  <2>8. FatTypes'  BY <1>1, <2>1, <2>5, <2>6 DEF FatTypes, Right
  <2>9. FatCoherent'  BY <2>1, <2>7 DEF FatCoherent, EntryIn
  <2> QED BY <2>7, <2>8, <2>9 DEF FatOK, Marked
<1> QED BY <1>4, <1>5

\* fs_fat32_getNxtClus changes no entry and gives a number.
LEMMA NxtGot ==
    ASSUME FatOK, NEW c \in Number \union {End}, NEW nxt, GetNxtClus(c, nxt)
    PROVE  FatOK' /\ UNCHANGED <<fat, fatLck>> /\ nxt \in Number \union {End}
<1>1. CASE c \in {End, Lost}
  <2>1. nxt = End /\ UNCHANGED fatVars  BY <1>1 DEF GetNxtClus
  <2> QED BY <2>1 DEF FatOK, FatTypes, FatCoherent, fatVars
<1>2. CASE c \notin {End, Lost}
  <2>1. PICK s \in CrtFatCache(Off(c)) :
            /\ nxt = IF Off(c) \in DOMAIN s.cache THEN s.cache[Off(c)][Idx(c)] ELSE End
            /\ Leaves(s) /\ UNCHANGED <<fatLck, fat>>
    BY <1>2 DEF GetNxtClus
  <2>2. Off(c) \in Reach /\ Idx(c) \in 0 .. SecLen - 1  BY EntryOf
  <2>3. Right(s)  BY <2>2, CrtLeaves
  <2>4. FatOK'  BY <2>1, <2>3, LeavesRight DEF FatOK, FatTypes
  <2>5. nxt \in Number \union {End}
    <3>1. Off(c) \in DOMAIN s.cache => s.cache[Off(c)] \in Sectors  BY <2>3 DEF Right
    <3> QED BY <2>1, <2>2, <3>1 DEF Sectors
  <2> QED BY <2>1, <2>4, <2>5
<1> QED BY <1>1, <1>2

\* fs_fat32_setNxtClus writes an entry of the cluster's sector, and so no
\* entry becomes free.
LEMMA NxtSet ==
    ASSUME FatOK, NEW c \in Number \union {End}, NEW nxt \in Number, nxt # 0, SetNxtClus(c, nxt)
    PROVE  FatOK' /\ ~fatLck /\ UNCHANGED fatLck /\ Marked
<1> DEFINE o == Off(c)
           i == Idx(c) \div 4
<1>1. PICK s \in CrtFatCache(o) : ~fatLck /\ Store(s, o, i, nxt) /\ UNCHANGED fatLck
  BY DEF SetNxtClus
<1>2. o \in Reach /\ Idx(c) \in 0 .. SecLen - 1  BY EntryOf
<1>3. i \in 0 .. SecLen - 1
  <2>1. Idx(c) \in Nat /\ i \in Nat /\ i <= Idx(c)  BY <1>2
  <2> QED BY <1>2, <2>1, FatAssumption
<1> HIDE DEF o, i
<1>4. fatLck' \in BOOLEAN  BY <1>1 DEF FatOK, FatTypes
<1> QED BY <1>1, <1>2, <1>3, <1>4, Stored

\* A cluster that is taken is marked, and no other becomes free.
LEMMA Taken1 ==
    ASSUME FatOK, NEW c \in Number, Take(c), fatLck' \in BOOLEAN
    PROVE  FatOK' /\ Marked /\ (c \in Sound => fat'[c] # 0)
<1>1. PICK s \in CrtFatCache(Off(c)) : Store(s, Off(c), Idx(c), End)  BY DEF Take
<1>2. Off(c) \in Reach /\ Idx(c) \in 0 .. SecLen - 1  BY EntryOf
<1>3. End # 0  BY NumbersAre
<1> QED BY <1>1, <1>2, <1>3, Stored

\* The use of a cluster outside the data area changes no sound entry.
LEMMA StrayKeeps ==
    ASSUME FatOK, Stray
    PROVE  FatOK' /\ UNCHANGED <<fat, fatLck>>
<1>1. PICK over \in SUBSET Under : \E new \in [over -> Data] :
          disk' = [o \in Sec |-> IF o \in over THEN new[o] ELSE disk[o]]
  BY DEF Stray
<1>2. PICK new \in [over -> Data] :
          disk' = [o \in Sec |-> IF o \in over THEN new[o] ELSE disk[o]]
  BY <1>1
<1>3. UNCHANGED <<cache, fatNum, fatLck, fat>>  BY DEF Stray
<1>4. disk' \in [Sec -> Sectors]  BY <1>2, FatAssumption DEF FatOK, FatTypes
<1>5. ASSUME NEW c \in Sound PROVE disk'[Off(c)] = disk[Off(c)]
  <2>1. Off(c) \in Sec /\ Off(c) \notin Under  BY NumbersAre, EntryOf DEF Sound
  <2> QED BY <1>2, <2>1
<1>6. FatTypes'  BY <1>3, <1>4 DEF FatOK, FatTypes
<1>7. FatCoherent'  BY <1>3, <1>5 DEF FatOK, FatCoherent
<1> QED BY <1>3, <1>6, <1>7 DEF FatOK
-----------------------------------------------------------------------------
(* FatFile: the files, and whose the clusters are. *)

FileRec == [clus : Number \union {End}, off : Int, cur : Int, ptr : Int,
            at : FilePoints, wr : BOOLEAN, len : Nat, nxt : Number, then : {"copy", "jump"}]
FileTypes == file \in [File -> FileRec] /\ sz \in [File -> Int] /\ chain \in [File -> Seq(Cluster)]

\* No cluster of a file or of something else is free in the FAT.
NoneFree ==
    ~fatLck => /\ \A c \in Used \cap Sound : fat[c] # 0
               /\ \A f \in File : \A c \in Got(f) \cap Sound : fat[c] # 0

FileInv == FatOK /\ FileTypes /\ NoneFree /\ AllocOnce

\* What a cluster has in the FAT of the disk.
LEMMA DiskEntry ==
    ASSUME NEW c \in Cluster
    PROVE  /\ OnDisk(c) \in Cluster \union {End}
           /\ c \in Used => OnDisk(c) # 0
           /\ \A f \in File : c \in ToSet(Chains[f]) => OnDisk(c) # 0
<1> USE FatAssumption, ChainAssumption
<1>1. 0 \in Cluster /\ End # 0  BY NumbersAre
<1>2. CASE c \in Used \/ \E f \in File : Last(Chains[f]) = c
  <2>1. OnDisk(c) = End  BY <1>2 DEF OnDisk
  <2> QED BY <1>1, <2>1
<1> DEFINE Nxt(n) == \E f \in File : \E i \in 1 .. Len(Chains[f]) - 1 :
                        Chains[f][i] = c /\ Chains[f][i + 1] = n
<1>4. CASE c \notin Used /\ ~(\E f \in File : Last(Chains[f]) = c) /\ \E f \in File : Follows(f, c)
  <2>0. PICK f \in File : Follows(f, c)  BY <1>4
  <2>1. PICK i \in 1 .. Len(Chains[f]) - 1 : Chains[f][i] = c  BY <2>0 DEF Follows
  <2>2. /\ Chains[f] \in Seq(Cluster \ Used) /\ i + 1 \in 1 .. Len(Chains[f])
    <3>1. Chains[f] \in Seq(Cluster \ Used)  OBVIOUS
    <3>2. Len(Chains[f]) \in Nat  BY <3>1, LenProperties
    <3> QED BY <3>1, <3>2
  <2>3. Chains[f][i + 1] \in Cluster \ Used  BY <2>2, ElementOfSeq
  <2>4. \E n \in Cluster : Nxt(n)  BY <2>1, <2>3
  <2>5. OnDisk(c) = CHOOSE n \in Cluster : Nxt(n)  BY <1>4 DEF OnDisk
  <2>6. OnDisk(c) \in Cluster /\ Nxt(OnDisk(c))  BY <2>4, <2>5
  <2>10. PICK g \in File : \E k \in 1 .. Len(Chains[g]) - 1 : Chains[g][k + 1] = OnDisk(c)
    BY <2>6
  <2>7. PICK j \in 1 .. Len(Chains[g]) - 1 : Chains[g][j + 1] = OnDisk(c)  BY <2>10
  <2>8. Chains[g] \in Seq(Cluster \ Used) /\ j + 1 \in 1 .. Len(Chains[g])
    <3>1. Chains[g] \in Seq(Cluster \ Used)  OBVIOUS
    <3>2. Len(Chains[g]) \in Nat  BY <3>1, LenProperties
    <3> QED BY <3>1, <3>2
  <2>9. Chains[g][j + 1] \in Cluster \ Used  BY <2>8, ElementOfSeq
  <2> QED BY <1>1, <2>6, <2>7, <2>9
<1>5. CASE c \notin Used /\ ~(\E f \in File : Last(Chains[f]) = c) /\ ~(\E f \in File : Follows(f, c))
  <2>1. OnDisk(c) = 0  BY <1>5 DEF OnDisk
  <2>2. ASSUME NEW f \in File, c \in ToSet(Chains[f]) PROVE FALSE
    <3>1. Chains[f] \in Seq(Cluster \ Used) /\ Chains[f] # <<>>  OBVIOUS
    <3>2. Len(Chains[f]) \in Nat \ {0} /\ DOMAIN Chains[f] = 1 .. Len(Chains[f])
      BY <3>1, LenProperties, EmptySeq
    <3>3. PICK i \in 1 .. Len(Chains[f]) : Chains[f][i] = c  BY <2>2, <3>2 DEF ToSet
    <3>4. CASE i = Len(Chains[f])  BY <1>5, <3>3, <3>4 DEF Last
    <3>5. CASE i # Len(Chains[f])
      <4>0. i \in Int /\ 1 <= i /\ i <= Len(Chains[f]) /\ Len(Chains[f]) \in Int  BY <3>2
      <4>1. i \in 1 .. Len(Chains[f]) - 1  BY <3>5, <4>0
      <4> QED BY <1>5, <3>3, <4>1 DEF Follows
    <3> QED BY <3>4, <3>5
  <2> QED BY <1>1, <1>5, <2>1, <2>2
<1> QED BY <1>2, <1>4, <1>5

\* A file as it is opened.
LEMMA OpenedIs ==
    ASSUME NEW f \in File
    PROVE  /\ Opened(f) \in FileRec /\ Opened(f).at = "idle" /\ Chains[f] \in Seq(Cluster)
           /\ Head(Chains[f]) \in Number /\ ToSet(Chains[f]) \subseteq Cluster \ Used
<1> USE ChainAssumption
<1>1. Chains[f] \in Seq(Cluster \ Used) /\ Chains[f] # <<>>  OBVIOUS
<1>2. Head(Chains[f]) \in Cluster \ Used  BY <1>1, HeadTailProperties
<1>3. \A i \in 1 .. Len(Chains[f]) : Chains[f][i] \in Cluster \ Used  BY <1>1, ElementOfSeq
<1>4. DOMAIN Chains[f] = 1 .. Len(Chains[f])  BY <1>1, LenProperties
<1>5. ToSet(Chains[f]) \subseteq Cluster \ Used  BY <1>3, <1>4 DEF ToSet
<1>6. Head(Chains[f]) \in Number /\ 0 \in Number  BY <1>2, NumbersAre
<1>7. Chains[f] \in Seq(Cluster)  BY <1>1
<1> QED BY <1>5, <1>6, <1>7 DEF Opened, FileRec, FilePoints

\* The disk as it was written, nothing cached, each file at its beginning.
LEMMA FilesBegin == FileInit => FileInv
<1> SUFFICES ASSUME FileInit PROVE FileInv  OBVIOUS
<1> USE FatAssumption, ChainAssumption DEF FileInit
<1>1. cache = <<>> /\ DOMAIN cache = {}  OBVIOUS
<1>2. disk \in [Sec -> Sectors]
  <2>1. ASSUME NEW o \in Sec, NEW i \in 0 .. SecLen - 1
        PROVE  OnDisk(o * SecLen + i) \in Number \union {End}
    BY ClusterAt, DiskEntry, NumbersAre
  <2> QED BY <2>1 DEF Sec, Sectors
<1>3. fat \in [Sound -> Number \union {End}] /\ \A c \in Sound : fat[c] = OnDisk(c)
  BY DiskEntry, NumbersAre
<1>4. FatCoherent
  <2>1. ASSUME NEW c \in Sound PROVE fat[c] = disk[Off(c)][Idx(c)]
    <3>1. Off(c) \in Sec /\ Idx(c) \in 0 .. SecLen - 1 /\ c = Off(c) * SecLen + Idx(c)
      BY EntryOf, NumbersAre
    <3>2. disk[Off(c)][Idx(c)] = OnDisk(Off(c) * SecLen + Idx(c))  BY <3>1 DEF Sec
    <3> QED BY <1>3, <3>1, <3>2
  <2> QED BY <1>1, <2>1 DEF FatCoherent
<1>5. FatOK
  <2>1. cache \in [{} -> Sectors]  BY <1>1
  <2>2. fatLck \in BOOLEAN  OBVIOUS
  <2> QED BY <1>1, <1>2, <1>3, <1>4, <2>1, <2>2 DEF FatOK, FatTypes
<1>8. sz \in [File -> Int]
  <2>1. ASSUME NEW f \in File PROVE Bpc * Len(Chains[f]) \in Int
    <3>1. Len(Chains[f]) \in Nat  BY OpenedIs, LenProperties
    <3> QED BY <3>1
  <2> QED BY <2>1
<1>9. FileTypes
  <2>1. chain \in [File -> Seq(Cluster)]  BY OpenedIs
  <2>2. file \in [File -> FileRec]  BY OpenedIs
  <2> QED BY <1>8, <2>1, <2>2 DEF FileTypes
<1>10. \A f \in File : chain[f] = Chains[f] /\ file[f].at = "idle"  BY OpenedIs
<1>12. \A f \in File : ~Gets(f) /\ Got(f) = ToSet(Chains[f])  BY <1>10 DEF Gets, Got
<1>13. NoneFree
  <2>1. \A c \in Used \cap Sound : fat[c] # 0  BY <1>3, DiskEntry, NumbersAre
  <2>2. ASSUME NEW f \in File, NEW c \in Got(f) \cap Sound PROVE fat[c] # 0
    <3>1. c \in ToSet(Chains[f]) /\ c \in Cluster  BY <1>12, NumbersAre
    <3>2. OnDisk(c) # 0  BY <3>1, DiskEntry
    <3> QED BY <1>3, <3>2
  <2> QED BY <2>1, <2>2 DEF NoneFree
<1>14. AllocOnce
  <2>1. \A f \in File : IsInjective(chain[f])  BY <1>10
  <2>2. \A f \in File : Got(f) \cap Used = {}  BY <1>12, OpenedIs
  <2>3. \A f, g \in File : f # g => Got(f) \cap Got(g) = {}  BY <1>12
  <2> QED BY <1>12, <2>1, <2>2, <2>3 DEF AllocOnce
<1> QED BY <1>5, <1>9, <1>13, <1>14 DEF FileInv

\* A step that gives no file a cluster.
LEMMA FileMoves ==
    ASSUME FileInv, NEW f \in File, NEW r \in FileRec, Put(f, r),
           file[f].at # "set", r.at # "set", FatOK', sz' \in [File -> Int],
           UNCHANGED <<chain, fat, fatLck>>
    PROVE  FileInv'
<1>1. file \in [File -> FileRec] /\ chain \in [File -> Seq(Cluster)]  BY DEF FileInv, FileTypes
<1>2. file' \in [File -> FileRec] /\ file'[f] = r /\ \A g \in File \ {f} : file'[g] = file[g]
  BY <1>1 DEF Put
<1>3. FileTypes'  BY <1>1, <1>2 DEF FileTypes
<1>4. \A g \in File : Gets(g)' = Gets(g) /\ (Gets(g) => file'[g] = file[g])  BY <1>2 DEF Gets
<1>5. \A g \in File : Got(g)' = Got(g)  BY <1>4 DEF Got
<1>6. NoneFree'  BY <1>5 DEF FileInv, NoneFree
<1>7. AllocOnce'
  <2> SUFFICES ASSUME ~fatLck', NEW g \in File
               PROVE  /\ IsInjective(chain[g]) /\ Got(g)' \cap Used = {}
                      /\ Gets(g)' => file'[g].nxt \notin ToSet(chain[g])
                      /\ \A h \in File \ {g} : Got(g)' \cap Got(h)' = {}
    BY DEF AllocOnce
  <2>1. /\ IsInjective(chain[g]) /\ Got(g) \cap Used = {}
        /\ Gets(g) => file[g].nxt \notin ToSet(chain[g])
        /\ \A h \in File \ {g} : Got(g) \cap Got(h) = {}
    BY DEF FileInv, AllocOnce
  <2> QED BY <1>4, <1>5, <2>1
<1> QED BY <1>3, <1>6, <1>7 DEF FileInv

\* The record of a file, and the types of what a step finds.
LEMMA FileHas ==
    ASSUME FileInv, NEW f \in File
    PROVE  /\ file[f] \in FileRec /\ sz[f] \in Int /\ sz \in [File -> Int]
           /\ chain[f] \in Seq(Cluster) /\ FatOK
BY DEF FileInv, FileTypes

\* What a step that leaves the FAT alone, or only reads in it, keeps.
LEMMA FatStays == ASSUME FatOK, UNCHANGED fatVars PROVE FatOK' /\ UNCHANGED <<fat, fatLck>>
BY DEF FatOK, FatTypes, FatCoherent, fatVars

\* The greater of two numbers is one.
LEMMA MaxInt == ASSUME NEW a \in Int, NEW b \in Int PROVE Max({a, b}) \in Int
<1>1. \E x \in {a, b} : \A y \in {a, b} : x >= y  OBVIOUS
<1>2. Max({a, b}) \in {a, b}  BY <1>1 DEF Max
<1> QED BY <1>2

\* A call of fs_fat32_FileAPI_read or _write begins.
LEMMA StartKeeps ==
    ASSUME FileInv, NEW f \in File, NEW len \in Nat, NEW wr \in BOOLEAN, Start(f, len, wr)
    PROVE  FileInv'
<1> DEFINE r == [file[f] EXCEPT !.at = "jump", !.wr = wr, !.len = len]
<1>1. file[f].at = "idle" /\ Put(f, r) /\ UNCHANGED <<fatVars, chain>>  BY DEF Start
<1>2. file[f] \in FileRec /\ sz \in [File -> Int] /\ FatOK  BY FileHas
<1>3. r \in FileRec /\ r.at = "jump"  BY <1>2 DEF FileRec, FilePoints
<1> HIDE DEF r
<1>5. sz' \in [File -> Int]
  <2>1. Max({sz[f], file[f].ptr}) \in Int  BY <1>2, MaxInt DEF FileRec
  <2>2. IF wr THEN sz' = [sz EXCEPT ![f] = Max({sz[f], file[f].ptr})] ELSE sz' = [sz EXCEPT ![f] = sz[f]]
    BY DEF Start
  <2> QED BY <1>2, <2>1, <2>2
<1> QED BY <1>1, <1>2, <1>3, <1>5, FatStays, FileMoves

\* A round of _jmpToPtr.
LEMMA JumpKeeps ==
    ASSUME FileInv, NEW f \in File, Jump(f)
    PROVE  FileInv'
<1>1. /\ file[f] \in FileRec /\ sz \in [File -> Int] /\ FatOK  BY FileHas
<1>2. file[f].at = "jump" /\ UNCHANGED <<sz, chain>>  BY DEF Jump
<1>3. Farest(file[f]) \in Int  BY <1>1, FatAssumption DEF Farest, FileRec
<1>4. CASE \E nxt \in Number \union {End} :
                /\ GetNxtClus(file[f].clus, nxt)
                /\ Put(f, IF nxt = End /\ file[f].wr
                          THEN [file[f] EXCEPT !.at = "alloc", !.then = "jump"]
                          ELSE [file[f] EXCEPT !.clus = IF nxt = End THEN Lost ELSE nxt,
                                               !.off = 0, !.cur = Farest(file[f])])
  <2>1. PICK nxt \in Number \union {End} :
                /\ GetNxtClus(file[f].clus, nxt)
                /\ Put(f, IF nxt = End /\ file[f].wr
                          THEN [file[f] EXCEPT !.at = "alloc", !.then = "jump"]
                          ELSE [file[f] EXCEPT !.clus = IF nxt = End THEN Lost ELSE nxt,
                                               !.off = 0, !.cur = Farest(file[f])])
    BY <1>4
  <2>2. FatOK' /\ UNCHANGED <<fat, fatLck>>
    <3>1. file[f].clus \in Number \union {End}  BY <1>1 DEF FileRec
    <3> QED BY <1>1, <2>1, <3>1, NxtGot
  <2>3. CASE nxt = End /\ file[f].wr
    <3> DEFINE r == [file[f] EXCEPT !.at = "alloc", !.then = "jump"]
    <3>1. Put(f, r)  BY <2>1, <2>3
    <3>2. r \in FileRec /\ r.at = "alloc"  BY <1>1 DEF FileRec, FilePoints
    <3> HIDE DEF r
    <3> QED BY <1>1, <1>2, <2>2, <3>1, <3>2, FileMoves
  <2>4. CASE ~(nxt = End /\ file[f].wr)
    <3> DEFINE c == IF nxt = End THEN Lost ELSE nxt
               w == Farest(file[f])
               z == 0
               r == [file[f] EXCEPT !.clus = c, !.off = z, !.cur = w]
    <3>1. Put(f, r)  BY <2>1, <2>4
    <3>2. c \in Number /\ z \in Int /\ w \in Int  BY <1>3, NumbersAre
    <3> HIDE DEF c, w, z
    <3>3. r \in FileRec /\ r.at = "jump"  BY <1>1, <1>2, <3>2 DEF FileRec
    <3> HIDE DEF r
    <3> QED BY <1>1, <1>2, <2>2, <3>1, <3>3, FileMoves
  <2> QED BY <2>3, <2>4
<1>5. CASE Put(f, [file[f] EXCEPT !.cur = file[f].ptr]) /\ UNCHANGED fatVars
  <2> DEFINE r == [file[f] EXCEPT !.cur = file[f].ptr]
  <2>1. r \in FileRec /\ r.at = "jump"  BY <1>1, <1>2 DEF FileRec
  <2>2. Put(f, r)  BY <1>5
  <2> HIDE DEF r
  <2> QED BY <1>1, <1>2, <1>5, <2>1, <2>2, FatStays, FileMoves
<1>6. CASE Put(f, [file[f] EXCEPT !.at = "move"]) /\ UNCHANGED fatVars
  <2> DEFINE r == [file[f] EXCEPT !.at = "move"]
  <2>1. r \in FileRec /\ r.at = "move"  BY <1>1 DEF FileRec, FilePoints
  <2>2. Put(f, r)  BY <1>6
  <2> HIDE DEF r
  <2> QED BY <1>1, <1>2, <1>6, <2>1, <2>2, FatStays, FileMoves
<1> QED BY <1>4, <1>5, <1>6 DEF Jump

\* The next cluster, when the last one is used up.
LEMMA MoveKeeps ==
    ASSUME FileInv, NEW f \in File, Move(f)
    PROVE  FileInv'
<1>1. /\ file[f] \in FileRec /\ sz \in [File -> Int] /\ FatOK  BY FileHas
<1>2. file[f].at = "move" /\ UNCHANGED <<sz, chain>>  BY DEF Move
<1>3. CASE file[f].off # Bpc
  <2> DEFINE r == [file[f] EXCEPT !.at = "copy"]
  <2>1. Put(f, r) /\ UNCHANGED fatVars  BY <1>3 DEF Move
  <2>2. r \in FileRec /\ r.at = "copy"  BY <1>1 DEF FileRec, FilePoints
  <2> HIDE DEF r
  <2> QED BY <1>1, <1>2, <2>1, <2>2, FatStays, FileMoves
<1>4. CASE file[f].off = Bpc
  <2>1. PICK nxt \in Number \union {End} :
               /\ GetNxtClus(file[f].clus, nxt)
               /\ Put(f, IF nxt = End /\ file[f].wr
                         THEN [file[f] EXCEPT !.at = "alloc", !.then = "copy"]
                         ELSE [file[f] EXCEPT !.at = "copy", !.clus = nxt, !.off = 0])
    BY <1>4 DEF Move
  <2>2. FatOK' /\ UNCHANGED <<fat, fatLck>>
    <3>1. file[f].clus \in Number \union {End}  BY <1>1 DEF FileRec
    <3> QED BY <1>1, <2>1, <3>1, NxtGot
  <2>4. CASE nxt = End /\ file[f].wr
    <3> DEFINE r == [file[f] EXCEPT !.at = "alloc", !.then = "copy"]
    <3>1. Put(f, r)  BY <2>1, <2>4
    <3>2. r \in FileRec /\ r.at = "alloc"  BY <1>1 DEF FileRec, FilePoints
    <3> HIDE DEF r
    <3> QED BY <1>1, <1>2, <2>2, <3>1, <3>2, FileMoves
  <2>5. CASE ~(nxt = End /\ file[f].wr)
    <3> DEFINE z == 0
               r == [file[f] EXCEPT !.at = "copy", !.clus = nxt, !.off = z]
    <3>1. Put(f, r)  BY <2>1, <2>5
    <3>2. z \in Int  OBVIOUS
    <3> HIDE DEF z
    <3>3. r \in FileRec /\ r.at = "copy"  BY <1>1, <3>2 DEF FileRec, FilePoints
    <3> HIDE DEF r
    <3> QED BY <1>1, <1>2, <2>2, <3>1, <3>3, FileMoves
  <2> QED BY <2>4, <2>5
<1> QED BY <1>3, <1>4

\* A NULL node is used: the file is as it was opened.
LEMMA FaultKeeps ==
    ASSUME FileInv, NEW f \in File, Fault(f), UNCHANGED chain, file[f].at # "set"
    PROVE  FileInv'
<1> DEFINE r == [Opened(f) EXCEPT !.at = "fault"]
<1>1. Put(f, r) /\ UNCHANGED <<fatVars, sz>>  BY DEF Fault
<1>2. r \in FileRec /\ r.at = "fault"  BY OpenedIs DEF FileRec, FilePoints
<1> HIDE DEF r
<1> QED BY <1>1, <1>2, FileHas, FatStays, FileMoves

\* The new cluster, filled with zeros.
LEMMA ZeroKeeps ==
    ASSUME FileInv, NEW f \in File, Zero(f)
    PROVE  FileInv'
<1>1. /\ file[f] \in FileRec /\ sz \in [File -> Int] /\ FatOK  BY FileHas
<1>2. file[f].at = "zero" /\ UNCHANGED chain  BY DEF Zero
<1>3. CASE Stray /\ Put(f, [file[f] EXCEPT !.at = "jump"]) /\ UNCHANGED sz
  <2> DEFINE r == [file[f] EXCEPT !.at = "jump"]
  <2>1. r \in FileRec /\ r.at = "jump"  BY <1>1 DEF FileRec, FilePoints
  <2>2. Put(f, r)  BY <1>3
  <2> HIDE DEF r
  <2> QED BY <1>1, <1>2, <1>3, <2>1, <2>2, StrayKeeps, FileMoves
<1>4. CASE Fault(f)  BY <1>2, <1>4, FaultKeeps
<1> QED BY <1>3, <1>4 DEF Zero

\* The smallest difference that is not below zero.
LEMMA LeastOver ==
    ASSUME NEW a \in Int, NEW b \in Nat, NEW c \in Int
    PROVE  Min({n \in {a, b, c} : n >= 0}) \in Int
<1> DEFINE T == {n \in {a, b, c} : n >= 0}
<1>1. T \subseteq Nat /\ b \in T  OBVIOUS
<1> HIDE DEF T
<1>2. T \in SUBSET Nat /\ T # {}  BY <1>1
<1>3. Min(T) \in T  BY <1>2, MinLeast
<1>4. Min(T) \in Nat  BY ONLY <1>1, <1>3
<1>5. Min(T) \in Int  BY ONLY <1>4
<1> QED BY <1>5 DEF T

\* A transfer and the end of the call.
LEMMA CopyKeeps ==
    ASSUME FileInv, NEW f \in File, Copy(f)
    PROVE  FileInv'
<1>1. /\ file[f] \in FileRec /\ sz \in [File -> Int] /\ FatOK  BY FileHas
<1>2. file[f].at = "copy" /\ UNCHANGED chain  BY DEF Copy
<1> DEFINE acc == Min({n \in {Bpc - file[f].off, file[f].len,
                              IF file[f].wr THEN file[f].len ELSE sz[f] - file[f].cur} : n >= 0})
           max == Max({sz[f], file[f].ptr + acc})
           off == file[f].off + acc
           cur == file[f].cur + acc
           ptr == file[f].ptr + acc
           z == 0
           r == [file[f] EXCEPT !.at = "idle", !.off = off, !.cur = cur, !.ptr = ptr, !.len = z,
                                !.then = "copy"]
           idle == [file[f] EXCEPT !.at = "idle"]
           Done == Put(f, r) /\ sz' = [sz EXCEPT ![f] = IF file[f].wr THEN max ELSE sz[f]]
<1>3. acc \in Int
  <2>1. /\ Bpc - file[f].off \in Int /\ file[f].len \in Nat
        /\ (IF file[f].wr THEN file[f].len ELSE sz[f] - file[f].cur) \in Int
    BY <1>1, FatAssumption DEF FileRec
  <2> QED BY <2>1, LeastOver
<1>4. \/ Done /\ UNCHANGED fatVars
      \/ Done /\ Stray
      \/ Fault(f)
      \/ Put(f, idle) /\ UNCHANGED <<fatVars, sz>>
  BY DEF Copy
<1> HIDE DEF acc
<1>5. off \in Int /\ cur \in Int /\ ptr \in Int /\ z \in Nat /\ max \in Int
  BY <1>1, <1>3, MaxInt DEF FileRec
<1> HIDE DEF off, cur, ptr, z, max
<1>6. r \in FileRec /\ r.at = "idle" /\ idle \in FileRec /\ idle.at = "idle"
  BY <1>1, <1>5 DEF FileRec, FilePoints
<1>7. Done => Put(f, r) /\ sz' \in [File -> Int]  BY <1>1, <1>5
<1> HIDE DEF r, idle, Done
<1>8. CASE Done /\ UNCHANGED fatVars  BY <1>1, <1>2, <1>6, <1>7, <1>8, FatStays, FileMoves
<1>9. CASE Done /\ Stray  BY <1>1, <1>2, <1>6, <1>7, <1>9, StrayKeeps, FileMoves
<1>10. CASE Fault(f)  BY <1>2, <1>10, FaultKeeps
<1>11. CASE Put(f, idle) /\ UNCHANGED <<fatVars, sz>>
  BY <1>1, <1>2, <1>6, <1>11, FatStays, FileMoves
<1> QED BY <1>4, <1>8, <1>9, <1>10, <1>11

\* A seek, from the file's first cluster on.
LEMMA SeekStartKeeps ==
    ASSUME FileInv, NEW f \in File, NEW ptr \in Nat, SeekStart(f, ptr)
    PROVE  FileInv'
<1>1. /\ file[f] \in FileRec /\ sz \in [File -> Int] /\ FatOK  BY FileHas
<1> DEFINE z == 0
           c == Head(Chains[f])
           r == [file[f] EXCEPT !.at = "seek", !.cur = z, !.off = z, !.ptr = ptr, !.clus = c]
<1>3. file[f].at = "idle" /\ Put(f, r) /\ UNCHANGED <<fatVars, sz, chain>>  BY DEF SeekStart
<1>4. z \in Int /\ c \in Number /\ ptr \in Int  BY OpenedIs
<1> HIDE DEF z, c
<1>5. r \in FileRec /\ r.at = "seek"  BY <1>1, <1>4 DEF FileRec, FilePoints
<1> HIDE DEF r
<1> QED BY <1>1, <1>3, <1>5, FatStays, FileMoves

\* A round of the loop of fs_fat32_FileAPI_seek.
LEMMA SeekStepKeeps ==
    ASSUME FileInv, NEW f \in File, SeekStep(f)
    PROVE  FileInv'
<1>1. /\ file[f] \in FileRec /\ sz \in [File -> Int] /\ FatOK  BY FileHas
<1>2. file[f].at = "seek" /\ UNCHANGED <<sz, chain>>  BY DEF SeekStep
<1> DEFINE upTo(off) == Min({sz[f] - file[f].cur, file[f].ptr - file[f].cur, file[f].cur + (Bpc - off)})
           Forth(c, off) == [file[f] EXCEPT !.clus = c, !.off = off + upTo(off),
                                            !.cur = file[f].cur + upTo(off)]
           Idle == [file[f] EXCEPT !.at = "idle"]
<1>4. CASE Put(f, Idle) /\ FatOK' /\ UNCHANGED <<fat, fatLck>>
  <2>1. Idle \in FileRec /\ Idle.at = "idle"  BY <1>1 DEF FileRec, FilePoints
  <2> HIDE DEF Idle
  <2> QED BY <1>1, <1>2, <1>4, <2>1, FileMoves
<1>5. ASSUME NEW c \in Number \union {End}, NEW off \in Int, Put(f, Forth(c, off)), FatOK',
             UNCHANGED <<fat, fatLck>>
      PROVE  FileInv'
  <2>1. upTo(off) \in Int
    <3> DEFINE a == sz[f] - file[f].cur
               b == file[f].ptr - file[f].cur
               e == file[f].cur + (Bpc - off)
    <3>1. a \in Int /\ b \in Int /\ e \in Int  BY <1>1, FatAssumption DEF FileRec
    <3> HIDE DEF a, b, e
    <3>2. \E x \in {a, b, e} : \A y \in {a, b, e} : x <= y  BY <3>1
    <3>3. Min({a, b, e}) \in {a, b, e}  BY <3>2 DEF Min
    <3>4. Min({a, b, e}) \in Int  BY <3>1, <3>3
    <3> QED BY <3>4 DEF a, b, e
  <2> DEFINE o == off + upTo(off)
             p == file[f].cur + upTo(off)
             r == [file[f] EXCEPT !.clus = c, !.off = o, !.cur = p]
  <2>2. o \in Int /\ p \in Int  BY <1>1, <2>1 DEF FileRec
  <2>3. Put(f, r)  BY <1>5
  <2> HIDE DEF upTo, o, p
  <2>4. r \in FileRec /\ r.at = "seek"  BY <1>1, <1>2, <2>2 DEF FileRec
  <2> HIDE DEF r
  <2> QED BY <1>1, <1>2, <1>5, <2>3, <2>4, FileMoves
<1>6. CASE file[f].cur = file[f].ptr \/ file[f].cur >= sz[f]
  <2>1. Put(f, Idle) /\ UNCHANGED fatVars  BY <1>6 DEF SeekStep
  <2> QED BY <1>1, <1>4, <2>1, FatStays
<1>7. CASE ~(file[f].cur = file[f].ptr \/ file[f].cur >= sz[f]) /\ file[f].off # Bpc
  <2>1. Put(f, Forth(file[f].clus, file[f].off)) /\ UNCHANGED fatVars  BY <1>7 DEF SeekStep
  <2>2. file[f].off \in Int /\ file[f].clus \in Number \union {End}  BY <1>1 DEF FileRec
  <2> HIDE DEF Forth
  <2> QED BY <1>1, <1>5, <2>1, <2>2, FatStays
<1>8. CASE ~(file[f].cur = file[f].ptr \/ file[f].cur >= sz[f]) /\ ~(file[f].off # Bpc)
  <2>1. PICK nxt \in Number \union {End} :
            /\ GetNxtClus(file[f].clus, nxt)
            /\ IF nxt = End THEN Put(f, Idle) ELSE Put(f, Forth(nxt, 0))
    BY <1>8 DEF SeekStep
  <2>2. FatOK' /\ UNCHANGED <<fat, fatLck>>
    <3>1. file[f].clus \in Number \union {End}  BY <1>1 DEF FileRec
    <3> QED BY <1>1, <2>1, <3>1, NxtGot
  <2> HIDE DEF Forth, Idle
  <2> QED BY <1>4, <1>5, <2>1, <2>2
<1> QED BY <1>6, <1>7, <1>8

-----------------------------------------------------------------------------
(* FatFile: a cluster for a file that grows. *)

\* A number of the cache that is given is nobody's.
LEMMA AllocCachedFrees ==
    ASSUME FileInv, NEW c \in Number, AllocCached(c)
    PROVE  /\ FatOK' /\ UNCHANGED fatLck /\ ~fatLck /\ Marked
           /\ c \in Sound => fat'[c] # 0 /\ c \notin Used /\ \A f \in File : c \notin Got(f)
<1>1. FatOK /\ NoneFree  BY DEF FileInv
<1>2. ~fatLck /\ UNCHANGED fatLck /\ FreeCached # {} /\ c = Min(FreeCached) /\ Take(c)
  BY DEF AllocCached
<1>3. FreeCached \in SUBSET Nat
  <2>1. Number \subseteq Nat  BY NumbersAre
  <2> QED BY <2>1 DEF FreeCached
<1>4. c \in FreeCached  BY <1>2, <1>3, MinLeast
<1>5. c \in Sound => fat[c] = 0  BY <1>1, <1>4 DEF FreeCached, FatOK, FatCoherent
<1>6. fatLck' \in BOOLEAN  BY <1>1, <1>2 DEF FatOK, FatTypes
<1>7. FatOK' /\ Marked /\ (c \in Sound => fat'[c] # 0)  BY <1>1, <1>2, <1>6, Taken1
<1>8. c \in Sound => c \notin Used /\ \A f \in File : c \notin Got(f)
  BY <1>1, <1>2, <1>5 DEF NoneFree
<1> QED BY <1>2, <1>7, <1>8

\* A cluster of the disk, after which the FAT stays locked.
LEMMA AllocScanLocks ==
    ASSUME FileInv, NEW c \in Number, AllocScan(c)
    PROVE  FatOK' /\ fatLck' = TRUE
<1>1. FatOK  BY DEF FileInv
<1>2. fatLck' = TRUE  BY DEF AllocScan
<1>3. CASE FreeOnDisk = {}
  <2>1. UNCHANGED <<cache, disk, fatNum, fat>>  BY <1>3 DEF AllocScan
  <2> QED BY <1>1, <1>2, <2>1 DEF FatOK, FatTypes, FatCoherent
<1>4. CASE FreeOnDisk # {}
  <2>1. Take(c)  BY <1>4 DEF AllocScan
  <2> QED BY <1>1, <1>2, <2>1, Taken1
<1> QED BY <1>3, <1>4

\* fs_fat32_allocClus: who has marked a cluster has it alone.
LEMMA AllocKeeps ==
    ASSUME FileInv, NEW f \in File, Alloc(f)
    PROVE  FileInv'
<1>1. file[f] \in FileRec /\ FatOK  BY FileHas
<1>2. PICK c \in Number :
          /\ AllocCached(c) \/ AllocScan(c)
          /\ Put(f, IF c = 0 /\ file[f].then = "copy"
                    THEN [file[f] EXCEPT !.at = "idle"]
                    ELSE [file[f] EXCEPT !.at = "set", !.nxt = c])
  BY DEF Alloc
<1>3. file[f].at = "alloc" /\ UNCHANGED <<sz, chain>>  BY DEF Alloc
<1> DEFINE r == IF c = 0 /\ file[f].then = "copy"
                THEN [file[f] EXCEPT !.at = "idle"]
                ELSE [file[f] EXCEPT !.at = "set", !.nxt = c]
<1>5. Put(f, r)  BY <1>2
<1>6. /\ r \in FileRec
      /\ r.at = "set" => r.nxt = c
  BY <1>1 DEF FileRec, FilePoints
<1> HIDE DEF r
<1>8. file \in [File -> FileRec]  BY DEF FileInv, FileTypes
<1>9. file' \in [File -> FileRec] /\ file'[f] = r /\ \A g \in File \ {f} : file'[g] = file[g]
  BY <1>5, <1>6, <1>8 DEF Put
<1>10. FileTypes'  BY <1>3, <1>9 DEF FileInv, FileTypes
<1>12. CASE AllocScan(c)
  <2>1. FatOK' /\ fatLck' = TRUE  BY <1>12, AllocScanLocks
  <2> QED BY <1>10, <2>1 DEF FileInv, NoneFree, AllocOnce
<1>13. CASE AllocCached(c)
  <2>1. /\ FatOK' /\ UNCHANGED fatLck /\ ~fatLck /\ Marked
        /\ c \in Sound => fat'[c] # 0 /\ c \notin Used /\ \A g \in File : c \notin Got(g)
    BY <1>13, AllocCachedFrees
  <2>2. /\ \A g \in File \ {f} : Gets(g)' = Gets(g) /\ Got(g)' = Got(g)
        /\ Gets(f)' => c \in Sound /\ file'[f].nxt = c
        /\ Got(f)' \subseteq Got(f) \union {c} /\ (c \notin Sound => Got(f)' \subseteq Got(f))
    BY <1>3, <1>6, <1>9 DEF Gets, Got
  <2>4. NoneFree'
    <3>2. \A d \in Used \cap Sound : fat'[d] # 0  BY <2>1 DEF FileInv, NoneFree, Marked
    <3>3. \A g \in File : \A d \in Got(g) \cap Sound : fat'[d] # 0
      BY <2>1 DEF FileInv, NoneFree, Marked
    <3> QED BY <2>1, <2>2, <3>2, <3>3 DEF NoneFree
  <2>5. AllocOnce'
    <3> SUFFICES ASSUME NEW g \in File
                 PROVE  /\ IsInjective(chain[g]) /\ Got(g)' \cap Used = {}
                        /\ Gets(g)' => file'[g].nxt \notin ToSet(chain[g])
                        /\ \A h \in File \ {g} : Got(g)' \cap Got(h)' = {}
      BY <1>3 DEF AllocOnce
    <3>1. /\ IsInjective(chain[g]) /\ Got(g) \cap Used = {}
          /\ Gets(g) => file[g].nxt \notin ToSet(chain[g])
          /\ \A h \in File \ {g} : Got(g) \cap Got(h) = {}
      BY <2>1 DEF FileInv, AllocOnce
    <3>2. ToSet(chain[g]) \subseteq Got(g)  BY DEF Got
    <3>3. Gets(g)' => file'[g].nxt \notin ToSet(chain[g])
      <4>1. CASE g = f  BY <2>1, <2>2, <3>2, <4>1
      <4>2. CASE g # f  BY <1>9, <2>2, <3>1, <4>2
      <4> QED BY <4>1, <4>2
    <3>4. \A h \in File : Got(h)' \subseteq Got(h) \union (IF h = f /\ c \in Sound THEN {c} ELSE {})
      BY <2>2
    <3>5. Got(g)' \cap Used = {}  BY <2>1, <3>1, <3>4
    <3>6. \A h \in File \ {g} : Got(g)' \cap Got(h)' = {}  BY <2>1, <3>1, <3>4
    <3> QED BY <3>1, <3>3, <3>5, <3>6
  <2> QED BY <1>10, <2>1, <2>4, <2>5 DEF FileInv
<1> QED BY <1>2, <1>12, <1>13

\* The cluster that was given becomes the last of the chain, if it is sound.
LEMMA SetKeeps ==
    ASSUME FileInv, NEW f \in File, Set(f)
    PROVE  FileInv'
<1>1. file[f] \in FileRec /\ FatOK /\ chain[f] \in Seq(Cluster)  BY FileHas
<1> DEFINE n == file[f].nxt
           z == 0
           w == IF file[f].then = "jump" THEN Farest(file[f]) ELSE file[f].cur
           p == IF file[f].then = "jump" /\ n \in Outer THEN "zero" ELSE file[f].then
           r == [file[f] EXCEPT !.at = p, !.clus = n, !.off = z, !.nxt = z, !.cur = w]
           u == IF n \in Sound THEN Append(chain[f], n) ELSE chain[f]
<1>2. /\ file[f].at = "set" /\ SetNxtClus(file[f].clus, n) /\ Put(f, r)
      /\ chain' = [chain EXCEPT ![f] = u] /\ UNCHANGED sz
  BY DEF Set
<1>3. n \in Number /\ file[f].clus \in Number \union {End}  BY <1>1 DEF FileRec
<1>4. ~fatLck  BY <1>2 DEF SetNxtClus
<1>5. n \in Sound => n \in Got(f) /\ n \notin Used /\ n \notin ToSet(chain[f])
  BY <1>2, <1>4 DEF FileInv, AllocOnce, Got, Gets
<1>6. n # 0  BY <1>5, ChainAssumption, NumbersAre
<1>7. FatOK' /\ UNCHANGED fatLck /\ Marked
  <2> HIDE DEF n
  <2> QED BY <1>1, <1>2, <1>3, <1>6, NxtSet
<1>8. /\ w \in Int /\ z \in Int /\ z \in Number /\ p \in {"copy", "jump", "zero"}
      /\ IsInjective(chain[f])
  <2>1. /\ file[f].cur \in Int /\ file[f].off \in Int /\ Bpc \in Int
        /\ file[f].then \in {"copy", "jump"}
    BY <1>1, FatAssumption DEF FileRec
  <2>2. w \in Int  BY <2>1 DEF Farest
  <2>3. p \in {"copy", "jump", "zero"}  BY <2>1
  <2>4. z \in Number  BY NumbersAre
  <2>5. IsInjective(chain[f])  BY <1>4 DEF FileInv, AllocOnce
  <2> QED BY <2>2, <2>3, <2>4, <2>5
<1>11. u \in Seq(Cluster) /\ IsInjective(u) /\ ToSet(u) = Got(f)
  <2> HIDE DEF n
  <2>1. CASE n \in Sound
    <3>1. n \in Cluster  BY <2>1, NumbersAre
    <3>2. /\ Append(chain[f], n) \in Seq(Cluster) /\ IsInjective(Append(chain[f], n))
          /\ ToSet(Append(chain[f], n)) = ToSet(chain[f]) \union {n}
      BY <1>1, <1>5, <1>8, <2>1, <3>1, AppendOne
    <3>3. Got(f) = ToSet(chain[f]) \union {n}  BY <1>2, <2>1 DEF Got, Gets, n
    <3> QED BY <2>1, <3>2, <3>3
  <2>2. CASE n \notin Sound
    <3>1. Got(f) = ToSet(chain[f])  BY <2>2 DEF Got, Gets, n
    <3> QED BY <1>1, <1>8, <2>2, <3>1
  <2> QED BY <2>1, <2>2
<1> HIDE DEF n, z, w, p, u
<1>9. r \in FileRec /\ r.at = p  BY <1>1, <1>3, <1>8 DEF FileRec, FilePoints
<1> HIDE DEF r
<1>12. file \in [File -> FileRec] /\ chain \in [File -> Seq(Cluster)]  BY DEF FileInv, FileTypes
<1>13. /\ file' \in [File -> FileRec] /\ file'[f] = r /\ \A g \in File \ {f} : file'[g] = file[g]
  BY <1>2, <1>9, <1>12 DEF Put
<1>14. chain' \in [File -> Seq(Cluster)] /\ chain'[f] = u /\ \A g \in File \ {f} : chain'[g] = chain[g]
  BY <1>2, <1>11, <1>12
<1>15. FileTypes'  BY <1>2, <1>13, <1>14 DEF FileInv, FileTypes
<1>16. ~Gets(f)' /\ \A g \in File \ {f} : Gets(g)' = Gets(g)
  BY <1>8, <1>9, <1>13 DEF Gets
<1>17. \A g \in File : Got(g)' = Got(g)
  <2>1. Got(f)' = ToSet(u)  BY <1>14, <1>16 DEF Got
  <2>2. \A g \in File \ {f} : Got(g)' = Got(g)  BY <1>13, <1>14, <1>16 DEF Got
  <2> QED BY <1>11, <2>1, <2>2
<1>19. NoneFree'
  <2>2. \A d \in Used \cap Sound : fat'[d] # 0  BY <1>4, <1>7 DEF FileInv, NoneFree, Marked
  <2>3. \A g \in File : \A d \in Got(g) \cap Sound : fat'[d] # 0
    BY <1>4, <1>7 DEF FileInv, NoneFree, Marked
  <2> QED BY <1>17, <2>2, <2>3 DEF NoneFree
<1>20. AllocOnce'
  <2> SUFFICES ASSUME NEW g \in File
               PROVE  /\ IsInjective(chain'[g]) /\ Got(g)' \cap Used = {}
                      /\ Gets(g)' => file'[g].nxt \notin ToSet(chain'[g])
                      /\ \A h \in File \ {g} : Got(g)' \cap Got(h)' = {}
    BY DEF AllocOnce
  <2>1. /\ IsInjective(chain[g]) /\ Got(g) \cap Used = {}
        /\ Gets(g) => file[g].nxt \notin ToSet(chain[g])
        /\ \A h \in File \ {g} : Got(g) \cap Got(h) = {}
    BY <1>4 DEF FileInv, AllocOnce
  <2>2. IsInjective(chain'[g])  BY <1>11, <1>14, <2>1
  <2>3. Gets(g)' => file'[g].nxt \notin ToSet(chain'[g])  BY <1>13, <1>14, <1>16, <2>1
  <2> QED BY <1>17, <2>1, <2>2, <2>3
<1> QED BY <1>7, <1>15, <1>19, <1>20 DEF FileInv

\* Every step of FatFile.
LEMMA FileStep == FileInv /\ [FileNext]_fileVars => FileInv'
<1> SUFFICES ASSUME FileInv, [FileNext]_fileVars PROVE FileInv'  OBVIOUS
<1>1. CASE UNCHANGED fileVars
  BY <1>1 DEF fileVars, FileInv, FatOK, FatTypes, FatCoherent, FileTypes, NoneFree, AllocOnce, Got, Gets
<1>2. ASSUME NEW f \in File, NEW len \in Lens, Read(f, len) \/ Write(f, len) PROVE FileInv'
  <2>1. len \in Nat  BY FatAssumption
  <2>2. PICK wr \in BOOLEAN : Start(f, len, wr)  BY <1>2 DEF Read, Write
  <2> QED BY <2>1, <2>2, StartKeeps
<1>3. ASSUME NEW f \in File, NEW ptr \in Seeks, SeekStart(f, ptr) PROVE FileInv'
  BY <1>3, FatAssumption, SeekStartKeeps
<1> QED BY <1>1, <1>2, <1>3, SeekStepKeeps, JumpKeeps, MoveKeeps, AllocKeeps, SetKeeps, ZeroKeeps,
        CopyKeeps
    DEF FileNext

\* So the invariant holds of every behaviour of the files.
LEMMA FilesHold == FileSpec => []FileInv
BY FilesBegin, FileStep, PTL DEF FileSpec

(***************************************************************************)
(* For any FAT, cache and files, no entry that was written is lost by the  *)
(* sectors that are removed from the cache and read again (_crtFatCache,   *)
(* fs_fat32_setNxtClus), also when files have left their chains and are    *)
(* read and written over FAT1: for any Under and Data, of the entries of   *)
(* the sectors that are not Under.                                         *)
(***************************************************************************)
THEOREM FatNeverStale == FileSpec => []FatCoherent
BY FilesHold, PTL DEF FileInv, FatOK

(***************************************************************************)
(* No cluster is given to two files, or to one twice, however many grow at *)
(* a time, wherever setNxtClus writes, and also after reads behind the     *)
(* ends of chains: until the disk is scanned the entries of clusters in    *)
(* use, in sectors that are not Under, are never free                      *)
(* (fs_fat32_allocClus).                                                   *)
(***************************************************************************)
THEOREM ClustersGivenOnce == FileSpec => []AllocOnce
BY FilesHold, PTL DEF FileInv

-----------------------------------------------------------------------------
(***************************************************************************)
(* FatEntry: who is held is there, and is counted.                         *)
(***************************************************************************)
(* What a step does to the number of the holders of an entry.              *)

One(b) == IF b THEN 1 ELSE 0

\* A set of which one element came or went.
LEMMA SetMoves ==
    ASSUME NEW S, IsFiniteSet(S), NEW t
    PROVE  \A A, B \in SUBSET S : A \ {t} = B \ {t} =>
               /\ Cardinality(A) \in Nat /\ Cardinality(B) \in Nat
               /\ Cardinality(B) = Cardinality(A) - One(t \in A) + One(t \in B)
<1> SUFFICES ASSUME NEW A \in SUBSET S, NEW B \in SUBSET S, A \ {t} = B \ {t}
             PROVE  /\ Cardinality(A) \in Nat /\ Cardinality(B) \in Nat
                    /\ Cardinality(B) = Cardinality(A) - One(t \in A) + One(t \in B)
    OBVIOUS
<1>1. IsFiniteSet(A) /\ IsFiniteSet(B) /\ Cardinality(A) \in Nat /\ Cardinality(B) \in Nat
  BY FS_Subset, FS_CardinalityType
<1>2. CASE t \in A /\ t \in B
  <2>1. A = B  BY <1>2
  <2> QED BY <1>1, <1>2, <2>1 DEF One
<1>3. CASE t \notin A /\ t \notin B
  <2>1. A = B  BY <1>3
  <2> QED BY <1>1, <1>3, <2>1 DEF One
<1>4. CASE t \in A /\ t \notin B
  <2>1. B = A \ {t}  BY <1>4
  <2>2. Cardinality(B) = Cardinality(A) - 1  BY <1>1, <1>4, <2>1, FS_RemoveElement
  <2> QED BY <1>1, <1>4, <2>2 DEF One
<1>5. CASE t \notin A /\ t \in B
  <2>1. B = A \union {t}  BY <1>5
  <2>2. Cardinality(B) = Cardinality(A) + 1  BY <1>1, <1>5, <2>1, FS_AddElement
  <2> QED BY <1>1, <1>5, <2>2 DEF One
<1> QED BY <1>2, <1>3, <1>4, <1>5

\* The holds of the threads, and those of the slots.
CurOf(n) == {t \in Walker : thd[t].cur = n}
NxtOf(n) == {t \in Walker : thd[t].nxt = n}
EntOf(n) == {s \in Slot : open[s].ent = n}
HeldOf(n) == {s \in Slot : open[s].held = n}
ByThd(n) == Cardinality(CurOf(n)) + Cardinality(NxtOf(n))
ByOpen(n) == Cardinality(EntOf(n)) + Cardinality(HeldOf(n))

\* Holds is their sum and the root's.
LEMMA HoldsSum ==
    ASSUME NEW n
    PROVE  Holds(n) = One(n = Root) + ByThd(n) + ByOpen(n) /\ ByThd(n) \in Nat /\ ByOpen(n) \in Nat
<1>1. /\ CurOf(n) \in SUBSET Walker /\ NxtOf(n) \in SUBSET Walker
      /\ EntOf(n) \in SUBSET Slot /\ HeldOf(n) \in SUBSET Slot
  BY DEF CurOf, NxtOf, EntOf, HeldOf
<1>2. /\ Cardinality(CurOf(n)) \in Nat /\ Cardinality(NxtOf(n)) \in Nat
      /\ Cardinality(EntOf(n)) \in Nat /\ Cardinality(HeldOf(n)) \in Nat
  BY <1>1, EntryAssumption, FS_Subset, FS_CardinalityType
<1>3. Holds(n) = One(n = Root) + Cardinality(CurOf(n)) + Cardinality(NxtOf(n))
                 + Cardinality(EntOf(n)) + Cardinality(HeldOf(n))
  BY DEF Holds, One, CurOf, NxtOf, EntOf, HeldOf
<1>4. One(n = Root) \in Nat  BY DEF One
<1> QED BY <1>2, <1>3, <1>4 DEF ByThd, ByOpen

\* How often a thread holds an entry, and a slot.
ThdHas(r, n) == One(r.cur = n) + One(r.nxt = n)
SlotHas(q, n) == One(q.ent = n) + One(q.held = n)

\* One thread changes.
LEMMA ThdChanges ==
    ASSUME NEW t \in Walker, \A o \in Walker : o # t => thd'[o] = thd[o], NEW n
    PROVE  ByThd(n)' = ByThd(n) - ThdHas(thd[t], n) + ThdHas(thd'[t], n)
<1> USE EntryAssumption
<1>1. /\ CurOf(n) \in SUBSET Walker /\ NxtOf(n) \in SUBSET Walker
      /\ CurOf(n)' \in SUBSET Walker /\ NxtOf(n)' \in SUBSET Walker
      /\ CurOf(n) \ {t} = CurOf(n)' \ {t} /\ NxtOf(n) \ {t} = NxtOf(n)' \ {t}
      /\ (t \in CurOf(n)) = (thd[t].cur = n) /\ (t \in CurOf(n)') = (thd'[t].cur = n)
      /\ (t \in NxtOf(n)) = (thd[t].nxt = n) /\ (t \in NxtOf(n)') = (thd'[t].nxt = n)
  BY DEF CurOf, NxtOf
<1>2. /\ Cardinality(CurOf(n)) \in Nat /\ Cardinality(CurOf(n)') \in Nat
      /\ Cardinality(CurOf(n)') = Cardinality(CurOf(n)) - One(t \in CurOf(n)) + One(t \in CurOf(n)')
  BY <1>1, SetMoves
<1>3. /\ Cardinality(NxtOf(n)) \in Nat /\ Cardinality(NxtOf(n)') \in Nat
      /\ Cardinality(NxtOf(n)') = Cardinality(NxtOf(n)) - One(t \in NxtOf(n)) + One(t \in NxtOf(n)')
  BY <1>1, SetMoves
<1>4. /\ One(t \in CurOf(n)) = One(thd[t].cur = n) /\ One(t \in CurOf(n)') = One(thd'[t].cur = n)
      /\ One(t \in NxtOf(n)) = One(thd[t].nxt = n) /\ One(t \in NxtOf(n)') = One(thd'[t].nxt = n)
  BY <1>1 DEF One
<1>5. /\ One(thd[t].cur = n) \in Int /\ One(thd'[t].cur = n) \in Int
      /\ One(thd[t].nxt = n) \in Int /\ One(thd'[t].nxt = n) \in Int
  BY DEF One
<1> QED BY <1>2, <1>3, <1>4, <1>5 DEF ByThd, ThdHas

\* None does.
LEMMA ThdStays == ASSUME thd' = thd, NEW n PROVE ByThd(n)' = ByThd(n)
BY DEF ByThd, CurOf, NxtOf

\* One slot changes.
LEMMA SlotChanges ==
    ASSUME NEW s \in Slot, \A o \in Slot : o # s => open'[o] = open[o], NEW n
    PROVE  ByOpen(n)' = ByOpen(n) - SlotHas(open[s], n) + SlotHas(open'[s], n)
<1> USE EntryAssumption
<1>1. /\ EntOf(n) \in SUBSET Slot /\ HeldOf(n) \in SUBSET Slot
      /\ EntOf(n)' \in SUBSET Slot /\ HeldOf(n)' \in SUBSET Slot
      /\ EntOf(n) \ {s} = EntOf(n)' \ {s} /\ HeldOf(n) \ {s} = HeldOf(n)' \ {s}
      /\ (s \in EntOf(n)) = (open[s].ent = n) /\ (s \in EntOf(n)') = (open'[s].ent = n)
      /\ (s \in HeldOf(n)) = (open[s].held = n) /\ (s \in HeldOf(n)') = (open'[s].held = n)
  BY DEF EntOf, HeldOf
<1>2. /\ Cardinality(EntOf(n)) \in Nat /\ Cardinality(EntOf(n)') \in Nat
      /\ Cardinality(EntOf(n)') = Cardinality(EntOf(n)) - One(s \in EntOf(n)) + One(s \in EntOf(n)')
  BY <1>1, SetMoves
<1>3. /\ Cardinality(HeldOf(n)) \in Nat /\ Cardinality(HeldOf(n)') \in Nat
      /\ Cardinality(HeldOf(n)') = Cardinality(HeldOf(n)) - One(s \in HeldOf(n)) + One(s \in HeldOf(n)')
  BY <1>1, SetMoves
<1>4. /\ One(s \in EntOf(n)) = One(open[s].ent = n) /\ One(s \in EntOf(n)') = One(open'[s].ent = n)
      /\ One(s \in HeldOf(n)) = One(open[s].held = n)
      /\ One(s \in HeldOf(n)') = One(open'[s].held = n)
  BY <1>1 DEF One
<1>5. /\ One(open[s].ent = n) \in Int /\ One(open'[s].ent = n) \in Int
      /\ One(open[s].held = n) \in Int /\ One(open'[s].held = n) \in Int
  BY DEF One
<1> QED BY <1>2, <1>3, <1>4, <1>5 DEF ByOpen, SlotHas

\* None does.
LEMMA SlotStays == ASSUME open' = open, NEW n PROVE ByOpen(n)' = ByOpen(n)
BY DEF ByOpen, EntOf, HeldOf
-----------------------------------------------------------------------------
(* The invariant: the shape of the three structures, and EntryLive.        *)

EntRec == [path : Paths, ref : Nat]
EntCache ==
    /\ DOMAIN ent \subseteq EntNode /\ ent \in [DOMAIN ent -> EntRec]
    /\ freeEntryLst \in Seq(EntNode) /\ freeEntryNum \in 0 .. MaxFreeEnt
    /\ miscount \in BOOLEAN

WalkRec == [at : {"out", "root", "held", "scan", "next", "opened", "nxt", "found", "store"},
            cur : EntNode \union {NoEnt}, nxt : EntNode \union {NoEnt}, path : Paths, seen : Nat,
            dir : Slot \union {NoEnt}]
SlotRec == [ent : EntNode \union {NoEnt}, curEnt : EntNode \union {NoEnt}, held : EntNode \union {NoEnt},
            lck : BOOLEAN, end : BOOLEAN, st : {"none", "open", "closing", "leaked"}]

\* What a thread holds at each of its points.
WalkOf(t) ==
    /\ thd[t].at \in {"out", "root", "nxt", "found"} => thd[t].cur = NoEnt /\ thd[t].nxt = NoEnt
    /\ thd[t].at \in {"held", "scan", "opened"} => thd[t].cur \in EntNode /\ thd[t].nxt = NoEnt
    /\ thd[t].at = "next" => thd[t].cur \in EntNode /\ thd[t].nxt \in EntNode
    /\ thd[t].at = "store" => thd[t].cur = NoEnt
    /\ thd[t].at \in {"nxt", "found", "store"} <=> thd[t].dir # NoEnt

\* A slot that a thread reads stays open, and a directory.
ReadsOf(t) ==
    thd[t].dir # NoEnt => /\ open[thd[t].dir].st = "open"
                          /\ ~miscount => IsDir(ent[open[thd[t].dir].ent].path)

\* Only a call of nxt that goes on has given curEnt back and left it there.
SlotOf(s) ==
    /\ open[s].st = "none" => open[s] = Closed
    /\ open[s].st # "none" => open[s].ent \in EntNode
    /\ open[s].st = "closing" => open[s].held = NoEnt
    /\ open[s].held \in {open[s].curEnt, NoEnt}
InCall(s) == open[s].curEnt # open[s].held => \E t \in Walker : thd[t].dir = s

EntWalks ==
    /\ thd \in [Walker -> WalkRec] /\ \A t \in Walker : WalkOf(t) /\ ReadsOf(t)
    /\ open \in [Slot -> SlotRec] /\ \A s \in Slot : SlotOf(s) /\ InCall(s)

EntInv == EntCache /\ EntWalks /\ EntryLive

\* EntryLive, while no reference is miscounted.
Live ==
    /\ \A n \in EntNode : Holds(n) > 0 => n \in DOMAIN ent
    /\ \A n \in DOMAIN ent : ent[n].ref = Holds(n) /\ (Holds(n) = 0 <=> n \in ToSet(freeEntryLst))
    /\ ToSet(freeEntryLst) \subseteq DOMAIN ent /\ IsInjective(freeEntryLst)
    /\ Len(freeEntryLst) = freeEntryNum

\* An entry that is still held is still there, and is the same.
Kept == \A n \in DOMAIN ent : Holds(n)' > 0 => n \in DOMAIN ent' /\ ent'[n].path = ent[n].path

Gains(n) == \A m \in EntNode : Holds(m)' = Holds(m) + One(m = n)
Loses(n) == \A m \in EntNode : Holds(m)' = Holds(m) - One(m = n)

-----------------------------------------------------------------------------
(* The cache's operations, told who gains or loses a hold.                 *)

\* Nobody holds an entry less than never.
LEMMA HoldsNat == ASSUME NEW n PROVE Holds(n) \in Nat
<1>1. One(n = Root) \in Nat  BY DEF One
<1> QED BY <1>1, HoldsSum

\* An entry found in the cache, or one more reference to an entry that has one.
LEMMA FindLive ==
    ASSUME EntCache, Live, NEW n \in DOMAIN ent, Gains(n), Ref(n), miscount' \in BOOLEAN,
           \/ Find(n)
           \/ Holds(n) > 0 /\ UNCHANGED <<freeEntryLst, freeEntryNum>>
    PROVE  EntCache' /\ Live' /\ Kept
<1>1. n \in EntNode /\ ent[n] \in EntRec /\ ent \in [DOMAIN ent -> EntRec]  BY DEF EntCache
<1>2. ent[n].ref = Holds(n) /\ Holds(n) \in Nat /\ (Holds(n) = 0 <=> n \in ToSet(freeEntryLst))
  BY HoldsNat DEF Live
<1>3. /\ DOMAIN ent' = DOMAIN ent
      /\ \A m \in DOMAIN ent : m # n => ent'[m] = ent[m]
      /\ ent'[n] = [ent[n] EXCEPT !.ref = @ + 1]
  BY <1>1 DEF Ref
<1>4. ent'[n] \in EntRec /\ ent'[n].ref = Holds(n) + 1 /\ ent'[n].path = ent[n].path
  BY <1>1, <1>2, <1>3 DEF EntRec
<1>5. ent' \in [DOMAIN ent' -> EntRec]
  <2>1. ent' = [m \in DOMAIN ent |-> ent'[m]]  BY <1>1, <1>3 DEF Ref
  <2>2. \A m \in DOMAIN ent : ent'[m] \in EntRec  BY <1>1, <1>3, <1>4
  <2> QED BY <1>3, <2>1, <2>2
<1>6. /\ Holds(n)' = Holds(n) + 1
      /\ \A m \in EntNode : m # n => Holds(m)' = Holds(m)
  <2>1. \A m \in EntNode : Holds(m) \in Nat  BY HoldsNat
  <2> QED BY <1>1, <2>1 DEF Gains, One
<1>7. /\ freeEntryLst' \in Seq(EntNode) /\ IsInjective(freeEntryLst')
      /\ ToSet(freeEntryLst') = ToSet(freeEntryLst) \ {n}
      /\ Len(freeEntryLst') = freeEntryNum' /\ freeEntryNum' \in 0 .. MaxFreeEnt
  <2>1. freeEntryLst \in Seq(EntNode) /\ IsInjective(freeEntryLst) /\ Len(freeEntryLst) = freeEntryNum
        /\ freeEntryNum \in 0 .. MaxFreeEnt /\ MaxFreeEnt \in Nat
    BY EntryAssumption DEF EntCache, Live
  <2>2. CASE Find(n) /\ Holds(n) = 0
    <3>1. freeEntryLst' = List_del(freeEntryLst, n) /\ freeEntryNum' = freeEntryNum - 1
      BY <1>2, <2>2 DEF Find, OffFree
    <3>2. /\ freeEntryLst' \in Seq(EntNode) /\ IsInjective(freeEntryLst')
          /\ ToSet(freeEntryLst') = ToSet(freeEntryLst) \ {n}
      BY <2>1, <3>1, DelOne
    <3>3. n \in ToSet(freeEntryLst)  BY <1>2, <2>2
    <3>4. Cardinality(ToSet(freeEntryLst')) = Cardinality(ToSet(freeEntryLst)) - 1
      BY <2>1, <3>2, <3>3, SetOfListOnce, FS_RemoveElement
    <3>5. Cardinality(ToSet(freeEntryLst)) = Len(freeEntryLst)  BY <2>1, SetOfListOnce
    <3>6. Cardinality(ToSet(freeEntryLst')) = Len(freeEntryLst') /\ Len(freeEntryLst') \in Nat
      BY <3>2, SetOfListOnce, LenProperties
    <3> QED BY <2>1, <3>1, <3>2, <3>4, <3>5, <3>6
  <2>3. CASE Holds(n) > 0
    <3>1. freeEntryLst' = freeEntryLst /\ freeEntryNum' = freeEntryNum
      BY <1>2, <2>3 DEF Find, OffFree
    <3>2. n \notin ToSet(freeEntryLst)  BY <1>2, <2>3
    <3>3. ToSet(freeEntryLst) = ToSet(freeEntryLst) \ {n}  BY <3>2
    <3> QED BY <2>1, <3>1, <3>3
  <2> QED BY <1>2, <2>2, <2>3
<1>8. EntCache'  BY <1>3, <1>5, <1>7 DEF EntCache
<1>9. Live'
  <2>1. \A m \in EntNode : Holds(m)' > 0 => m \in DOMAIN ent'  BY <1>3, <1>6 DEF Live
  <2>2. \A m \in DOMAIN ent' : ent'[m].ref = Holds(m)' /\ (Holds(m)' = 0 <=> m \in ToSet(freeEntryLst'))
    <3> SUFFICES ASSUME NEW m \in DOMAIN ent
                 PROVE  ent'[m].ref = Holds(m)' /\ (Holds(m)' = 0 <=> m \in ToSet(freeEntryLst'))
        BY <1>3
    <3>1. CASE m = n  BY <1>2, <1>4, <1>6, <1>7, <3>1
    <3>2. CASE m # n
      <4>1. m \in EntNode  BY DEF EntCache
      <4>2. ent[m].ref = Holds(m) /\ (Holds(m) = 0 <=> m \in ToSet(freeEntryLst))  BY DEF Live
      <4> QED BY <1>3, <1>6, <1>7, <3>2, <4>1, <4>2
    <3> QED BY <3>1, <3>2
  <2>3. ToSet(freeEntryLst') \subseteq DOMAIN ent'  BY <1>3, <1>7 DEF Live
  <2> QED BY <1>7, <2>1, <2>2, <2>3 DEF Live
<1>10. Kept  BY <1>3, <1>4 DEF Kept
<1> QED BY <1>8, <1>9, <1>10

\* A new entry.
LEMMA InsLive ==
    ASSUME EntCache, Live, NEW n \in EntNode, NEW p \in Paths, Gains(n), InsNew(n, p), miscount' \in BOOLEAN
    PROVE  EntCache' /\ Live' /\ Kept
<1>1. /\ n \notin DOMAIN ent /\ DOMAIN ent' = DOMAIN ent \union {n}
      /\ \A m \in DOMAIN ent : m # n => ent'[m] = ent[m]
      /\ ent'[n] = [path |-> p, ref |-> 1]
      /\ freeEntryLst' = freeEntryLst /\ freeEntryNum' = freeEntryNum
      /\ ent' = [m \in DOMAIN ent \union {n} |-> ent'[m]]
  BY DEF InsNew
<1>2. ent \in [DOMAIN ent -> EntRec] /\ DOMAIN ent \subseteq EntNode  BY DEF EntCache
<1>3. ent'[n] \in EntRec /\ ent'[n].ref = 1  BY <1>1 DEF EntRec
<1>4. ent' \in [DOMAIN ent' -> EntRec] /\ DOMAIN ent' \subseteq EntNode
  <2>1. \A m \in DOMAIN ent \union {n} : ent'[m] \in EntRec  BY <1>1, <1>2, <1>3
  <2> QED BY <1>1, <1>2, <2>1
<1>5. Holds(n) = 0
  <2>1. Holds(n) \in Nat /\ ~(Holds(n) > 0)  BY <1>1, HoldsNat DEF Live
  <2> QED BY <2>1
<1>6. /\ Holds(n)' = 1
      /\ \A m \in EntNode : m # n => Holds(m)' = Holds(m)
  <2>1. \A m \in EntNode : Holds(m) \in Nat  BY HoldsNat
  <2> QED BY <1>5, <2>1 DEF Gains, One
<1>7. EntCache'  BY <1>1, <1>4 DEF EntCache
<1>8. Live'
  <2>1. \A m \in EntNode : Holds(m)' > 0 => m \in DOMAIN ent'  BY <1>1, <1>6 DEF Live
  <2>2. \A m \in DOMAIN ent' : ent'[m].ref = Holds(m)' /\ (Holds(m)' = 0 <=> m \in ToSet(freeEntryLst'))
    <3> SUFFICES ASSUME NEW m \in DOMAIN ent \union {n}
                 PROVE  ent'[m].ref = Holds(m)' /\ (Holds(m)' = 0 <=> m \in ToSet(freeEntryLst))
        BY <1>1
    <3>1. CASE m = n
      <4>1. n \notin ToSet(freeEntryLst)  BY <1>1 DEF Live
      <4> QED BY <1>3, <1>6, <3>1, <4>1
    <3>2. CASE m # n
      <4>1. m \in EntNode /\ m \in DOMAIN ent  BY <1>2, <3>2
      <4>2. ent[m].ref = Holds(m) /\ (Holds(m) = 0 <=> m \in ToSet(freeEntryLst))  BY <4>1 DEF Live
      <4> QED BY <1>1, <1>6, <3>2, <4>1, <4>2
    <3> QED BY <3>1, <3>2
  <2> QED BY <1>1, <2>1, <2>2 DEF Live
<1>9. Kept  BY <1>1 DEF Kept
<1> QED BY <1>7, <1>8, <1>9
\* A release: the last one puts the entry on the free list, whose head goes
\* when it is full.
LEMMA ReleaseLive ==
    ASSUME EntCache, Live, NEW n \in EntNode, Holds(n) > 0, Loses(n), ReleaseEntry(n), miscount' \in BOOLEAN
    PROVE  EntCache' /\ Live' /\ Kept
<1>1. n \in DOMAIN ent /\ DOMAIN ent \subseteq EntNode /\ ent \in [DOMAIN ent -> EntRec]  BY DEF EntCache, Live
<1>2. ent[n].ref = Holds(n) /\ Holds(n) \in Nat \ {0} /\ n \notin ToSet(freeEntryLst)
  BY <1>1, HoldsNat DEF Live
<1>3. /\ Holds(n)' = Holds(n) - 1
      /\ \A m \in EntNode : m # n => Holds(m)' = Holds(m)
  <2>1. \A m \in EntNode : Holds(m) \in Nat  BY HoldsNat
  <2> QED BY <2>1 DEF Loses, One
<1> DEFINE dec == [ent EXCEPT ![n].ref = @ - 1]
<1>4. /\ DOMAIN dec = DOMAIN ent
      /\ \A m \in DOMAIN ent : m # n => dec[m] = ent[m]
      /\ dec[n] = [ent[n] EXCEPT !.ref = @ - 1]
      /\ dec = [m \in DOMAIN ent |-> dec[m]]
  BY <1>1
<1>5. dec[n] \in EntRec /\ dec[n].ref = Holds(n) - 1 /\ dec[n].path = ent[n].path
  <2>1. ent[n] \in EntRec /\ ent[n].ref - 1 \in Nat  BY <1>1, <1>2
  <2> QED BY <1>2, <1>4, <2>1 DEF EntRec
<1>6. /\ \A m \in DOMAIN ent : dec[m] \in EntRec
      /\ \A m \in DOMAIN ent : dec[m].path = ent[m].path /\ dec[m].ref = Holds(m)'
  <2> SUFFICES ASSUME NEW m \in DOMAIN ent
               PROVE  dec[m] \in EntRec /\ dec[m].path = ent[m].path /\ dec[m].ref = Holds(m)'
      OBVIOUS
  <2>1. CASE m = n  BY <1>3, <1>5, <2>1
  <2>2. CASE m # n
    <3>1. m \in EntNode /\ ent[m].ref = Holds(m) /\ ent[m] \in EntRec  BY <1>1 DEF Live
    <3> QED BY <1>3, <1>4, <2>2, <3>1
  <2> QED BY <2>1, <2>2
<1>7. \A m \in EntNode : Holds(m)' > 0 => m \in DOMAIN ent
  <2> SUFFICES ASSUME NEW m \in EntNode, Holds(m)' > 0 PROVE m \in DOMAIN ent  OBVIOUS
  <2>1. CASE m = n  BY <1>1, <2>1
  <2>2. CASE m # n  BY <1>3, <2>2 DEF Live
  <2> QED BY <2>1, <2>2
<1>8. /\ freeEntryLst \in Seq(EntNode) /\ IsInjective(freeEntryLst) /\ Len(freeEntryLst) = freeEntryNum
      /\ freeEntryNum \in 0 .. MaxFreeEnt /\ MaxFreeEnt \in Nat /\ ToSet(freeEntryLst) \subseteq DOMAIN ent
  BY EntryAssumption DEF EntCache, Live
<1>9. CASE ent[n].ref # 1
  <2>1. ent' = dec /\ freeEntryLst' = freeEntryLst /\ freeEntryNum' = freeEntryNum
    BY <1>9 DEF ReleaseEntry
  <2>2. Holds(n)' > 0  BY <1>2, <1>3, <1>9
  <2> HIDE DEF dec
  <2>3. EntCache'
    <3>1. ent' \in [DOMAIN ent' -> EntRec] /\ DOMAIN ent' \subseteq EntNode  BY <1>1, <1>4, <1>6, <2>1
    <3> QED BY <1>8, <2>1, <3>1 DEF EntCache
  <2>4. Live'
    <3>1. \A m \in DOMAIN ent' : ent'[m].ref = Holds(m)' /\ (Holds(m)' = 0 <=> m \in ToSet(freeEntryLst'))
      <4> SUFFICES ASSUME NEW m \in DOMAIN ent
                   PROVE  ent'[m].ref = Holds(m)' /\ (Holds(m)' = 0 <=> m \in ToSet(freeEntryLst))
          BY <1>4, <2>1
      <4>1. ent'[m].ref = Holds(m)'  BY <1>6, <2>1
      <4>2. CASE m = n  BY <1>2, <2>2, <4>1, <4>2
      <4>3. CASE m # n
        <5>1. m \in EntNode /\ (Holds(m) = 0 <=> m \in ToSet(freeEntryLst))  BY <1>1 DEF Live
        <5> QED BY <1>3, <4>1, <4>3, <5>1
      <4> QED BY <4>2, <4>3
    <3> QED BY <1>4, <1>7, <1>8, <2>1, <3>1 DEF Live
  <2>5. Kept  BY <1>4, <1>6, <2>1 DEF Kept
  <2> QED BY <2>3, <2>4, <2>5
<1>10. CASE ent[n].ref = 1
  <2>1. Holds(n)' = 0  BY <1>2, <1>3, <1>10
  <2> DEFINE lst   == Append(freeEntryLst, n)
             evict == freeEntryNum = MaxFreeEnt
             gone  == IF evict THEN {Head(lst)} ELSE {}
  <2>2. /\ ent' = [m \in DOMAIN ent \ gone |-> dec[m]]
        /\ freeEntryLst' = IF evict THEN Tail(lst) ELSE lst
        /\ freeEntryNum' = IF evict THEN freeEntryNum ELSE freeEntryNum + 1
    BY <1>10 DEF ReleaseEntry
  <2>3. /\ lst \in Seq(EntNode) /\ IsInjective(lst) /\ lst # <<>>
        /\ ToSet(lst) = ToSet(freeEntryLst) \union {n} /\ Len(lst) = freeEntryNum + 1
    BY <1>2, <1>8, AppendOne
  <2> HIDE DEF dec, lst
  <2>4. /\ freeEntryLst' \in Seq(EntNode) /\ IsInjective(freeEntryLst')
        /\ ToSet(freeEntryLst') = ToSet(lst) \ gone /\ gone \subseteq ToSet(lst)
        /\ Len(freeEntryLst') = freeEntryNum' /\ freeEntryNum' \in 0 .. MaxFreeEnt
    <3>1. CASE evict
      <4>1. /\ Head(lst) \in ToSet(lst) /\ Tail(lst) \in Seq(EntNode) /\ IsInjective(Tail(lst))
            /\ ToSet(Tail(lst)) = ToSet(lst) \ {Head(lst)} /\ Len(Tail(lst)) = Len(lst) - 1
        BY <2>3, TailOne
      <4> QED BY <1>8, <2>2, <2>3, <3>1, <4>1
    <3>2. CASE ~evict  BY <1>8, <2>2, <2>3, <3>2
    <3> QED BY <3>1, <3>2
  <2> HIDE DEF gone, evict
  <2>5. \A m \in gone : Holds(m)' = 0
    <3> SUFFICES ASSUME NEW m \in gone PROVE Holds(m)' = 0  OBVIOUS
    <3>1. CASE m = n  BY <2>1, <3>1
    <3>2. CASE m # n
      <4>1. m \in ToSet(freeEntryLst)  BY <2>3, <2>4, <3>2
      <4>2. m \in EntNode /\ Holds(m) = 0  BY <1>1, <1>8, <4>1 DEF Live
      <4> QED BY <1>3, <3>2, <4>2
    <3> QED BY <3>1, <3>2
  <2>6. DOMAIN ent' = DOMAIN ent \ gone /\ \A m \in DOMAIN ent \ gone : ent'[m] = dec[m]  BY <2>2
  <2>7. EntCache'
    <3>1. ent' \in [DOMAIN ent' -> EntRec]  BY <1>6, <2>2, <2>6
    <3> QED BY <1>1, <2>4, <2>6, <3>1 DEF EntCache
  <2>8. Live'
    <3>1. \A m \in EntNode : Holds(m)' > 0 => m \in DOMAIN ent'
      <4> SUFFICES ASSUME NEW m \in EntNode, Holds(m)' > 0 PROVE m \in DOMAIN ent'  OBVIOUS
      <4>1. m \notin gone  BY <2>5
      <4> QED BY <1>7, <2>6, <4>1
    <3>2. \A m \in DOMAIN ent' : ent'[m].ref = Holds(m)' /\ (Holds(m)' = 0 <=> m \in ToSet(freeEntryLst'))
      <4> SUFFICES ASSUME NEW m \in DOMAIN ent \ gone
                   PROVE  ent'[m].ref = Holds(m)' /\ (Holds(m)' = 0 <=> m \in ToSet(freeEntryLst'))
          BY <2>6
      <4>1. ent'[m].ref = Holds(m)'  BY <1>6, <2>6
      <4>2. CASE m = n  BY <2>1, <2>3, <2>4, <4>1, <4>2
      <4>3. CASE m # n
        <5>1. m \in EntNode /\ (Holds(m) = 0 <=> m \in ToSet(freeEntryLst))  BY <1>1 DEF Live
        <5>2. m \in ToSet(freeEntryLst') <=> m \in ToSet(freeEntryLst)  BY <2>3, <2>4, <4>3
        <5> QED BY <1>3, <4>1, <4>3, <5>1, <5>2
      <4> QED BY <4>2, <4>3
    <3>3. ToSet(freeEntryLst') \subseteq DOMAIN ent'  BY <1>1, <1>8, <2>3, <2>4, <2>6
    <3> QED BY <2>4, <3>1, <3>2, <3>3 DEF Live
  <2>9. Kept
    <3> SUFFICES ASSUME NEW m \in DOMAIN ent, Holds(m)' > 0 PROVE m \in DOMAIN ent' /\ ent'[m].path = ent[m].path
        BY DEF Kept
    <3>1. m \notin gone  BY <2>5
    <3> QED BY <1>6, <2>6, <3>1
  <2> QED BY <2>7, <2>8, <2>9
<1> QED BY <1>9, <1>10
\* Nothing happens to the entries, and nobody gains or loses.
LEMMA SameLive ==
    ASSUME EntCache, Live, UNCHANGED <<ent, freeEntryLst, freeEntryNum>>, miscount' \in BOOLEAN,
           \A m \in EntNode : Holds(m)' = Holds(m)
    PROVE  EntCache' /\ Live' /\ Kept
<1>1. EntCache'  BY DEF EntCache
<1>2. DOMAIN ent \subseteq EntNode  BY DEF EntCache
<1>3. Live'  BY <1>2 DEF Live
<1>4. Kept  BY DEF Kept
<1> QED BY <1>1, <1>3, <1>4

-----------------------------------------------------------------------------
(* Who holds an entry, and the steps of one thread.                        *)

\* HoldsSum, a step later.
LEMMA HoldsSumNext ==
    ASSUME NEW n
    PROVE  /\ Holds(n)' = One(n = Root) + ByThd(n)' + ByOpen(n)'
           /\ ByThd(n)' \in Nat /\ ByOpen(n)' \in Nat
<1>1. Holds(n) = One(n = Root) + ByThd(n) + ByOpen(n) /\ ByThd(n) \in Nat /\ ByOpen(n) \in Nat
  BY HoldsSum
<1>2. (Holds(n) = One(n = Root) + ByThd(n) + ByOpen(n) /\ ByThd(n) \in Nat /\ ByOpen(n) \in Nat)'
  BY <1>1, PTL
<1> QED BY <1>2

\* A set with a member is not of size 0.
LEMMA SomeIn ==
    ASSUME NEW S, IsFiniteSet(S)
    PROVE  \A A \in SUBSET S : \A x \in A : Cardinality(A) \in Nat \ {0}
BY FS_Subset, FS_CardinalityType, FS_EmptySet

\* What a thread or a slot names is held, and so is the root.
LEMMA Held ==
    ASSUME NEW n
    PROVE  /\ n = Root => Holds(n) > 0
           /\ \A t \in Walker : thd[t].cur = n \/ thd[t].nxt = n => Holds(n) > 0
           /\ \A s \in Slot : open[s].ent = n \/ open[s].held = n => Holds(n) > 0
<1>1. /\ CurOf(n) \in SUBSET Walker /\ NxtOf(n) \in SUBSET Walker
      /\ EntOf(n) \in SUBSET Slot /\ HeldOf(n) \in SUBSET Slot
  BY DEF CurOf, NxtOf, EntOf, HeldOf
<1>2. /\ Cardinality(CurOf(n)) \in Nat /\ Cardinality(NxtOf(n)) \in Nat
      /\ Cardinality(EntOf(n)) \in Nat /\ Cardinality(HeldOf(n)) \in Nat
  BY <1>1, EntryAssumption, FS_Subset, FS_CardinalityType
<1>3. Holds(n) = One(n = Root) + ByThd(n) + ByOpen(n) /\ One(n = Root) \in Nat
  BY HoldsSum DEF One
<1>4. n = Root => Holds(n) > 0  BY <1>2, <1>3 DEF One, ByThd, ByOpen
<1>5. ASSUME NEW t \in Walker, thd[t].cur = n \/ thd[t].nxt = n PROVE Holds(n) > 0
  <2>1. t \in CurOf(n) \/ t \in NxtOf(n)  BY <1>5 DEF CurOf, NxtOf
  <2>2. Cardinality(CurOf(n)) # 0 \/ Cardinality(NxtOf(n)) # 0  BY <1>1, <2>1, SomeIn, EntryAssumption
  <2> QED BY <1>2, <1>3, <2>2 DEF ByThd, ByOpen
<1>6. ASSUME NEW s \in Slot, open[s].ent = n \/ open[s].held = n PROVE Holds(n) > 0
  <2>1. s \in EntOf(n) \/ s \in HeldOf(n)  BY <1>6 DEF EntOf, HeldOf
  <2>2. Cardinality(EntOf(n)) # 0 \/ Cardinality(HeldOf(n)) # 0  BY <1>1, <2>1, SomeIn, EntryAssumption
  <2>3. ByOpen(n) > 0 /\ ByOpen(n) \in Nat /\ ByThd(n) \in Nat  BY <1>2, <2>2 DEF ByThd, ByOpen
  <2> QED BY <1>3, <2>3
<1> QED BY <1>4, <1>5, <1>6

\* Held by a slot, a step later.
LEMMA HeldNext ==
    ASSUME NEW n, NEW s \in Slot, open'[s].ent = n
    PROVE  Holds(n)' > 0
<1>1. EntOf(n)' \in SUBSET Slot /\ HeldOf(n)' \in SUBSET Slot /\ s \in EntOf(n)'  BY DEF EntOf, HeldOf
<1>2. Cardinality(EntOf(n)') \in Nat \ {0} /\ Cardinality(HeldOf(n)') \in Nat
  BY <1>1, SomeIn, EntryAssumption, FS_Subset, FS_CardinalityType
<1>3. Holds(n)' = One(n = Root) + ByThd(n)' + ByOpen(n)' /\ ByThd(n)' \in Nat /\ One(n = Root) \in Nat
  BY HoldsSumNext DEF One
<1>4. ByOpen(n)' = Cardinality(EntOf(n)') + Cardinality(HeldOf(n)')  BY DEF ByOpen
<1> QED BY <1>2, <1>3, <1>4

\* What a step of one thread does to the holds.
LEMMA HoldsWalk ==
    ASSUME NEW t \in Walker, \A o \in Walker : o # t => thd'[o] = thd[o], open' = open
    PROVE  \A m : Holds(m)' = Holds(m) - ThdHas(thd[t], m) + ThdHas(thd'[t], m)
<1> SUFFICES ASSUME NEW m PROVE Holds(m)' = Holds(m) - ThdHas(thd[t], m) + ThdHas(thd'[t], m)  OBVIOUS
<1>1. ThdHas(thd[t], m) \in Int /\ ThdHas(thd'[t], m) \in Int /\ One(m = Root) \in Int  BY DEF ThdHas, One
<1>2. ByThd(m)' = ByThd(m) - ThdHas(thd[t], m) + ThdHas(thd'[t], m)  BY ThdChanges
<1>3. ByOpen(m)' = ByOpen(m)  BY SlotStays
<1> QED BY <1>1, <1>2, <1>3, HoldsSum, HoldsSumNext

\* ... and of one slot.
LEMMA HoldsOpen ==
    ASSUME NEW s \in Slot, \A o \in Slot : o # s => open'[o] = open[o],
           \A m \in EntNode : ByThd(m)' = ByThd(m)
    PROVE  \A m \in EntNode : Holds(m)' = Holds(m) - SlotHas(open[s], m) + SlotHas(open'[s], m)
<1> SUFFICES ASSUME NEW m \in EntNode
             PROVE  Holds(m)' = Holds(m) - SlotHas(open[s], m) + SlotHas(open'[s], m)
    OBVIOUS
<1>1. SlotHas(open[s], m) \in Int /\ SlotHas(open'[s], m) \in Int /\ One(m = Root) \in Int  BY DEF SlotHas, One
<1>2. ByOpen(m)' = ByOpen(m) - SlotHas(open[s], m) + SlotHas(open'[s], m)  BY SlotChanges
<1> QED BY <1>1, <1>2, HoldsSum, HoldsSumNext

\* A thread still reads the slot it read, or begins to read one.
LEMMA ReadsStay ==
    ASSUME EntWalks, Live, Kept \/ miscount', NEW u \in Walker, NEW s \in Slot,
           open[s].st = "open", IsDir(ent[open[s].ent].path),
           thd'[u].dir = s, open'[s].ent = open[s].ent, open'[s].st = "open"
    PROVE  ReadsOf(u)'
<1>1. SlotOf(s)  BY DEF EntWalks
<1>2. PICK n \in EntNode : n = open[s].ent  BY <1>1 DEF SlotOf
<1>3. n \in DOMAIN ent
  <2>1. Holds(n) > 0  BY <1>2, Held
  <2> QED BY <2>1 DEF Live
<1>4. ~miscount' => ent'[n].path = ent[n].path
  <2>1. Holds(n)' > 0  BY <1>2, HeldNext
  <2> QED BY <1>3, <2>1 DEF Kept
<1> QED BY <1>2, <1>4 DEF ReadsOf

\* A step of at most one thread and one slot: the others keep their points,
\* and the directories they read.
LEMMA WalksStep ==
    ASSUME EntWalks, Live, ~miscount, Kept \/ miscount',
           NEW t, thd' \in [Walker -> WalkRec], \A u \in Walker : u # t => thd'[u] = thd[u],
           t \in Walker => WalkOf(t)' /\ ReadsOf(t)',
           open' \in [Slot -> SlotRec], \A o \in Slot : SlotOf(o)' /\ InCall(o)',
           \A u \in Walker : u # t /\ thd[u].dir \in Slot =>
               /\ open'[thd[u].dir].ent = open[thd[u].dir].ent
               /\ open'[thd[u].dir].st = open[thd[u].dir].st
    PROVE  EntWalks'
<1>1. ASSUME NEW u \in Walker, u # t PROVE WalkOf(u)' /\ ReadsOf(u)'
  <2>1. thd'[u] = thd[u] /\ WalkOf(u) /\ ReadsOf(u) /\ thd[u] \in WalkRec  BY <1>1 DEF EntWalks
  <2>2. WalkOf(u)'  BY <2>1 DEF WalkOf
  <2>3. CASE thd[u].dir = NoEnt  BY <2>1, <2>2, <2>3 DEF ReadsOf
  <2>4. CASE thd[u].dir # NoEnt
    <3>1. PICK s \in Slot : s = thd[u].dir  BY <2>1, <2>4 DEF WalkRec
    <3>2. /\ open[s].st = "open" /\ IsDir(ent[open[s].ent].path)
          /\ open'[s].ent = open[s].ent /\ open'[s].st = "open" /\ thd'[u].dir = s
      BY <1>1, <2>1, <2>4, <3>1 DEF ReadsOf
    <3> QED BY <2>2, <3>2, ReadsStay
  <2> QED BY <2>3, <2>4
<1>2. \A u \in Walker : WalkOf(u)' /\ ReadsOf(u)'  BY <1>1
<1> QED BY <1>2 DEF EntWalks

\* The root is always there.
LEMMA RootIn == ASSUME Live PROVE Root \in DOMAIN ent /\ Root \in EntNode
<1>1. Holds(Root) > 0  BY Held
<1> QED BY <1>1, EntryAssumption DEF Live
-----------------------------------------------------------------------------
(* The steps.                                                              *)

\* It begins with the root, that the partition holds.
LEMMA EntriesBegin == EntInit => EntInv
<1> SUFFICES ASSUME EntInit PROVE EntInv  OBVIOUS
<1> USE EntryAssumption
<1>1. /\ DOMAIN ent = {Root} /\ ent[Root] = [path |-> Top, ref |-> 1] /\ freeEntryLst = <<>> /\ freeEntryNum = 0
      /\ miscount = FALSE /\ ent = [n \in {Root} |-> ent[n]]
      /\ thd = [t \in Walker |-> Outside] /\ open = [s \in Slot |-> Closed]
  BY DEF EntInit
<1>2. freeEntryLst \in Seq(EntNode) /\ Len(freeEntryLst) = 0 /\ DOMAIN freeEntryLst = {}  BY <1>1, EmptySeq
<1>3. ToSet(freeEntryLst) = {} /\ IsInjective(freeEntryLst)  BY <1>2 DEF ToSet, IsInjective
<1>4. Outside \in WalkRec /\ Closed \in SlotRec  BY DEF Outside, Closed, WalkRec, SlotRec, Paths
<1>5. EntCache
  <2>1. ent[Root] \in EntRec  BY <1>1 DEF EntRec, Paths
  <2>2. ent \in [DOMAIN ent -> EntRec]  BY <1>1, <2>1
  <2>3. freeEntryNum \in 0 .. MaxFreeEnt  BY <1>1
  <2>4. miscount \in BOOLEAN  BY <1>1
  <2>5. DOMAIN ent \subseteq EntNode  BY <1>1
  <2> QED BY <1>2, <2>2, <2>3, <2>4, <2>5 DEF EntCache
<1>6. EntWalks
  <2>1. thd \in [Walker -> WalkRec] /\ open \in [Slot -> SlotRec]  BY <1>1, <1>4
  <2>2. \A t \in Walker : WalkOf(t) /\ ReadsOf(t)  BY <1>1 DEF WalkOf, ReadsOf, Outside
  <2>3. \A s \in Slot : SlotOf(s) /\ InCall(s)  BY <1>1 DEF SlotOf, InCall, Closed
  <2> QED BY <2>1, <2>2, <2>3 DEF EntWalks
<1>7. ASSUME NEW n \in EntNode PROVE Holds(n) = One(n = Root)
  <2>1. n # NoEnt  OBVIOUS
  <2>2. CurOf(n) = {} /\ NxtOf(n) = {} /\ EntOf(n) = {} /\ HeldOf(n) = {}
    BY <1>1, <2>1 DEF CurOf, NxtOf, EntOf, HeldOf, Outside, Closed
  <2>3. ByThd(n) = 0 /\ ByOpen(n) = 0  BY <2>2, FS_EmptySet DEF ByThd, ByOpen
  <2> QED BY <2>3, HoldsSum DEF One
<1>8. EntryLive  BY <1>1, <1>2, <1>3, <1>7 DEF EntryLive, One
<1> QED BY <1>5, <1>6, <1>8 DEF EntInv

\* EntryLive, with its condition apart.
LEMMA LiveIs == (EntryLive <=> (~miscount => Live)) /\ (EntryLive' <=> (~miscount' => Live'))
BY DEF EntryLive, Live

\* A thread's new point.
LEMMA Moved ==
    ASSUME EntWalks, NEW t \in Walker, NEW r \in WalkRec, Moves(t, r)
    PROVE  /\ thd' \in [Walker -> WalkRec] /\ thd'[t] = r
           /\ \A o \in Walker : o # t => thd'[o] = thd[o]
BY DEF EntWalks, Moves

\* A slot's new content.
LEMMA Filled ==
    ASSUME EntWalks, NEW s \in Slot, NEW q \in SlotRec, open' = [open EXCEPT ![s] = q],
           q.st = "none" => q = Closed, q.st # "none" => q.ent \in EntNode,
           q.held \in {q.curEnt, NoEnt}, q.st = "closing" => q.held = NoEnt
    PROVE  /\ open' \in [Slot -> SlotRec] /\ open'[s] = q
           /\ \A o \in Slot : o # s => open'[o] = open[o]
           /\ \A o \in Slot : SlotOf(o)'
<1>1. /\ open' \in [Slot -> SlotRec] /\ open'[s] = q
      /\ \A o \in Slot : o # s => open'[o] = open[o]
  BY DEF EntWalks
<1>2. ASSUME NEW o \in Slot PROVE SlotOf(o)'
  <2>1. CASE o = s  BY <1>1, <2>1 DEF SlotOf
  <2>2. CASE o # s  BY <1>1, <2>2 DEF SlotOf, EntWalks
  <2> QED BY <2>1, <2>2
<1> QED BY <1>1, <1>2

\* A thread outside the lookup.
LEMMA OutsideIs ==
    Outside \in WalkRec /\ Outside.at = "out" /\ Outside.cur = NoEnt /\ Outside.nxt = NoEnt
    /\ Outside.dir = NoEnt
BY DEF Outside, WalkRec, Paths

\* What the holds of a thread at its point and after its step say of Holds.
LEMMA WalkHolds ==
    ASSUME EntInv, NEW t \in Walker, NEW r \in WalkRec, Moves(t, r), open' = open
    PROVE  \A m \in EntNode :
               /\ Holds(m)' = Holds(m) - One(thd[t].cur = m) - One(thd[t].nxt = m) + One(r.cur = m) + One(r.nxt = m)
               /\ Holds(m) \in Nat
<1> SUFFICES ASSUME NEW m \in EntNode
             PROVE  /\ Holds(m)' = Holds(m) - One(thd[t].cur = m) - One(thd[t].nxt = m)
                                   + One(r.cur = m) + One(r.nxt = m)
                    /\ Holds(m) \in Nat
    OBVIOUS
<1>1. /\ thd' \in [Walker -> WalkRec] /\ thd'[t] = r
      /\ \A o \in Walker : o # t => thd'[o] = thd[o]
  BY Moved DEF EntInv
<1>2. Holds(m)' = Holds(m) - ThdHas(thd[t], m) + ThdHas(r, m)  BY <1>1, HoldsWalk
<1>3. Holds(m) \in Nat  BY HoldsNat
<1>4. /\ One(thd[t].cur = m) \in Int /\ One(thd[t].nxt = m) \in Int
      /\ One(r.cur = m) \in Int /\ One(r.nxt = m) \in Int
  BY DEF One
<1>5. ThdHas(thd[t], m) = One(thd[t].cur = m) + One(thd[t].nxt = m) /\ ThdHas(r, m) = One(r.cur = m) + One(r.nxt = m)
  BY DEF ThdHas
<1> QED BY <1>2, <1>3, <1>4, <1>5

\* A step of a thread alone that reads no directory, when the cache is right
\* after it.
LEMMA WalkKeeps ==
    ASSUME EntInv, ~miscount, NEW t \in Walker, NEW r \in WalkRec, Moves(t, r), open' = open,
           thd[t].dir = NoEnt, r.dir = NoEnt, WalkOf(t)', EntCache', (Kept /\ Live') \/ miscount'
    PROVE  EntInv'
<1>1. EntCache /\ EntWalks /\ Live  BY LiveIs DEF EntInv
<1>2. /\ thd' \in [Walker -> WalkRec] /\ thd'[t] = r
      /\ \A o \in Walker : o # t => thd'[o] = thd[o]
  BY <1>1, Moved
<1>3. ReadsOf(t)'  BY <1>2 DEF ReadsOf
<1>4. open' \in [Slot -> SlotRec] /\ \A s \in Slot : SlotOf(s)'  BY <1>1 DEF EntWalks, SlotOf
<1>5. \A s \in Slot : InCall(s)'
  <2>1. \A u \in Walker : thd'[u].dir = thd[u].dir  BY <1>2
  <2> QED BY <1>1, <2>1 DEF EntWalks, InCall
<1>6. EntWalks'  BY <1>1, <1>2, <1>3, <1>4, <1>5, WalksStep
<1> QED BY <1>6, LiveIs DEF EntInv

\* fs_fat32_getRootEntry reads the counter.
LEMMA ReadRootKeeps ==
    ASSUME EntInv, ~miscount, NEW t \in Walker, ReadRoot(t)
    PROVE  EntInv'
<1> USE EntryAssumption
<1>1. EntCache /\ EntWalks /\ Live  BY LiveIs DEF EntInv
<1>2. Root \in DOMAIN ent  BY <1>1, RootIn
<1>3. PICK k \in Nat : k = ent[Root].ref
  <2>1. ent[Root] \in EntRec  BY <1>1, <1>2 DEF EntCache
  <2> QED BY <2>1 DEF EntRec
<1>4. /\ thd[t].at = "out" /\ Moves(t, [Outside EXCEPT !.at = "root", !.seen = k])
      /\ UNCHANGED <<ent, freeEntryLst, freeEntryNum, miscount>> /\ open' = open
  BY <1>3 DEF ReadRoot
<1>5. PICK r \in WalkRec : /\ r = [Outside EXCEPT !.at = "root", !.seen = k]
                           /\ r.at = "root" /\ r.cur = NoEnt /\ r.nxt = NoEnt /\ r.dir = NoEnt
  <2>1. [Outside EXCEPT !.at = "root", !.seen = k] \in WalkRec  BY OutsideIs DEF WalkRec
  <2> QED BY <2>1, OutsideIs DEF WalkRec
<1>6. /\ thd' \in [Walker -> WalkRec] /\ thd'[t] = r
      /\ \A o \in Walker : o # t => thd'[o] = thd[o]
  BY <1>1, <1>4, <1>5, Moved
<1>7. thd[t].cur = NoEnt /\ thd[t].nxt = NoEnt /\ thd[t].dir = NoEnt  BY <1>1, <1>4 DEF EntWalks, WalkOf
<1>8. \A m \in EntNode : Holds(m)' = Holds(m)
  <2> SUFFICES ASSUME NEW m \in EntNode PROVE Holds(m)' = Holds(m)  OBVIOUS
  <2>1. Holds(m)' = Holds(m) - ThdHas(thd[t], m) + ThdHas(thd'[t], m)  BY <1>4, <1>6, HoldsWalk
  <2>2. m # NoEnt  OBVIOUS
  <2>3. ThdHas(thd[t], m) = 0 /\ ThdHas(thd'[t], m) = 0  BY <1>5, <1>6, <1>7, <2>2 DEF ThdHas, One
  <2>4. Holds(m) \in Nat  BY HoldsNat
  <2> QED BY <2>1, <2>3, <2>4
<1>9. EntCache' /\ Live' /\ Kept
  <2>1. miscount' \in BOOLEAN  BY <1>1, <1>4 DEF EntCache
  <2> QED BY <1>1, <1>4, <1>8, <2>1, SameLive
<1>10. WalkOf(t)'  BY <1>5, <1>6 DEF WalkOf
<1> QED BY <1>4, <1>5, <1>7, <1>9, <1>10, WalkKeeps

\* ... and writes it, one more: if another update came between, it is lost.
LEMMA WriteRootKeeps ==
    ASSUME EntInv, ~miscount, NEW t \in Walker, WriteRoot(t)
    PROVE  EntInv'
<1> USE EntryAssumption
<1>1. EntCache /\ EntWalks /\ Live  BY LiveIs DEF EntInv
<1>2. Root \in DOMAIN ent /\ Root \in EntNode  BY <1>1, RootIn
<1>3. PICK k \in Nat : k = thd[t].seen
  BY <1>1 DEF EntWalks, WalkRec
<1>4. /\ thd[t].at = "root" /\ ent' = [ent EXCEPT ![Root].ref = k + 1]
      /\ miscount' = (ent[Root].ref # k) /\ Moves(t, [Outside EXCEPT !.at = "held", !.cur = Root])
      /\ freeEntryLst' = freeEntryLst /\ freeEntryNum' = freeEntryNum /\ open' = open
  BY <1>3 DEF WriteRoot
<1>5. PICK r \in WalkRec : /\ Moves(t, r)
                           /\ r.at = "held" /\ r.cur = Root /\ r.nxt = NoEnt /\ r.dir = NoEnt
  <2>1. [Outside EXCEPT !.at = "held", !.cur = Root] \in WalkRec  BY <1>2, OutsideIs DEF WalkRec
  <2> QED BY <1>4, <2>1, OutsideIs DEF WalkRec
<1>6. thd' \in [Walker -> WalkRec] /\ thd'[t] = r  BY <1>1, <1>4, <1>5, Moved
<1>7. WalkOf(t)'  BY <1>2, <1>5, <1>6 DEF WalkOf
<1>8. thd[t].cur = NoEnt /\ thd[t].nxt = NoEnt /\ thd[t].dir = NoEnt  BY <1>1, <1>4 DEF EntWalks, WalkOf
<1>9. Gains(Root)
  <2> SUFFICES ASSUME NEW m \in EntNode PROVE Holds(m)' = Holds(m) + One(m = Root)  BY DEF Gains
  <2>1. /\ Holds(m)' = Holds(m) - One(thd[t].cur = m) - One(thd[t].nxt = m) + One(r.cur = m) + One(r.nxt = m)
        /\ Holds(m) \in Nat
    BY <1>4, <1>5, WalkHolds
  <2> QED BY <1>5, <1>8, <2>1 DEF One
<1>10. CASE ent[Root].ref = k
  <2>1. Ref(Root)  BY <1>4, <1>10 DEF Ref
  <2>2. miscount' = FALSE  BY <1>4, <1>10
  <2>3. Holds(Root) > 0  BY Held
  <2>4. EntCache' /\ Live' /\ Kept  BY <1>1, <1>2, <1>4, <1>9, <2>1, <2>2, <2>3, FindLive
  <2> QED BY <1>4, <1>5, <1>7, <2>4, <1>8, WalkKeeps
<1>11. CASE ent[Root].ref # k
  <2>1. miscount' = TRUE  BY <1>4, <1>11
  <2>2. ent \in [DOMAIN ent -> EntRec] /\ ent[Root] \in EntRec  BY <1>1, <1>2 DEF EntCache
  <2>3. k + 1 \in Nat  OBVIOUS
  <2>4. [ent[Root] EXCEPT !.ref = k + 1] \in EntRec  BY <2>2, <2>3 DEF EntRec
  <2>5. DOMAIN ent' = DOMAIN ent /\ ent' \in [DOMAIN ent -> EntRec]  BY <1>4, <2>2, <2>4
  <2>6. EntCache'  BY <1>1, <1>4, <2>1, <2>5 DEF EntCache
  <2> QED BY <1>4, <1>5, <1>7, <2>1, <2>6, <1>8, WalkKeeps
<1> QED BY <1>10, <1>11

\* fs_fat32_lookup finds the entry in the cache,
LEMMA LookupHitKeeps ==
    ASSUME EntInv, ~miscount, NEW t \in Walker, NEW p, LookupHit(t, p)
    PROVE  EntInv'
<1> USE EntryAssumption
<1>1. EntCache /\ EntWalks /\ Live  BY LiveIs DEF EntInv
<1>2. PICK n \in DOMAIN ent :
         /\ Walks(t, p) /\ Find(n) /\ Moves(t, [thd[t] EXCEPT !.at = "next", !.nxt = n])
         /\ open' = open /\ miscount' = miscount
  BY DEF LookupHit
<1>3. n \in EntNode /\ thd[t] \in WalkRec  BY <1>1, <1>2 DEF EntCache, EntWalks
<1>4. thd[t].at = "held" /\ thd[t].cur \in EntNode /\ thd[t].nxt = NoEnt /\ thd[t].dir = NoEnt  BY <1>1, <1>2 DEF Walks, EntWalks, WalkOf
<1>5. PICK r \in WalkRec : /\ Moves(t, r)
                           /\ r.at = "next" /\ r.cur = thd[t].cur /\ r.nxt = n /\ r.dir = NoEnt
  <2>1. [thd[t] EXCEPT !.at = "next", !.nxt = n] \in WalkRec  BY <1>3 DEF WalkRec
  <2> QED BY <1>2, <1>3, <1>4, <2>1 DEF WalkRec
<1>6. thd' \in [Walker -> WalkRec] /\ thd'[t] = r  BY <1>1, <1>5, Moved
<1>7. WalkOf(t)'  BY <1>3, <1>4, <1>5, <1>6 DEF WalkOf
<1>8. Gains(n)
  <2> SUFFICES ASSUME NEW m \in EntNode PROVE Holds(m)' = Holds(m) + One(m = n)  BY DEF Gains
  <2>1. /\ Holds(m)' = Holds(m) - One(thd[t].cur = m) - One(thd[t].nxt = m) + One(r.cur = m) + One(r.nxt = m)
        /\ Holds(m) \in Nat
    BY <1>2, <1>5, WalkHolds
  <2> QED BY <1>4, <1>5, <2>1 DEF One
<1>9. EntCache' /\ Live' /\ Kept
  <2>1. Ref(n) /\ miscount' \in BOOLEAN  BY <1>1, <1>2 DEF Find, EntCache
  <2> QED BY <1>1, <1>2, <1>8, <2>1, FindLive
<1> QED BY <1>2, <1>5, <1>7, <1>9, <1>4, WalkKeeps

\* or does not find it there,
LEMMA LookupMissKeeps ==
    ASSUME EntInv, ~miscount, NEW t \in Walker, NEW p \in UNION {Kids[d] : d \in DOMAIN Kids}, LookupMiss(t, p)
    PROVE  EntInv'
<1> USE EntryAssumption
<1>1. EntCache /\ EntWalks /\ Live  BY LiveIs DEF EntInv
<1>2. /\ Walks(t, p) /\ Moves(t, [thd[t] EXCEPT !.at = "scan", !.path = p])
      /\ UNCHANGED <<ent, freeEntryLst, freeEntryNum, miscount>> /\ open' = open
  BY DEF LookupMiss
<1>3. p \in Paths /\ thd[t] \in WalkRec  BY <1>1 DEF Paths, EntWalks
<1>4. thd[t].at = "held" /\ thd[t].cur \in EntNode /\ thd[t].nxt = NoEnt /\ thd[t].dir = NoEnt  BY <1>1, <1>2 DEF Walks, EntWalks, WalkOf
<1>5. PICK r \in WalkRec : /\ Moves(t, r)
                           /\ r.at = "scan" /\ r.cur = thd[t].cur /\ r.nxt = NoEnt /\ r.dir = NoEnt
  <2>1. [thd[t] EXCEPT !.at = "scan", !.path = p] \in WalkRec  BY <1>3 DEF WalkRec
  <2> QED BY <1>2, <1>3, <1>4, <2>1 DEF WalkRec
<1>6. thd' \in [Walker -> WalkRec] /\ thd'[t] = r  BY <1>1, <1>5, Moved
<1>7. WalkOf(t)'  BY <1>3, <1>4, <1>5, <1>6 DEF WalkOf
<1>8. \A m \in EntNode : Holds(m)' = Holds(m)
  <2> SUFFICES ASSUME NEW m \in EntNode PROVE Holds(m)' = Holds(m)  OBVIOUS
  <2>1. /\ Holds(m)' = Holds(m) - One(thd[t].cur = m) - One(thd[t].nxt = m) + One(r.cur = m) + One(r.nxt = m)
        /\ Holds(m) \in Nat
    BY <1>2, <1>5, WalkHolds
  <2> QED BY <1>4, <1>5, <2>1 DEF One
<1>9. EntCache' /\ Live' /\ Kept
  <2>1. miscount' \in BOOLEAN  BY <1>1, <1>2 DEF EntCache
  <2> QED BY <1>1, <1>2, <1>8, <2>1, SameLive
<1> QED BY <1>2, <1>5, <1>7, <1>9, <1>4, WalkKeeps

\* and makes one.
LEMMA LookupNewKeeps ==
    ASSUME EntInv, ~miscount, NEW t \in Walker, LookupNew(t)
    PROVE  EntInv'
<1> USE EntryAssumption
<1>1. EntCache /\ EntWalks /\ Live  BY LiveIs DEF EntInv
<1>2. thd[t] \in WalkRec  BY <1>1 DEF EntWalks
<1>3. PICK p \in Paths : p = thd[t].path  BY <1>2 DEF WalkRec
<1>4. PICK n \in EntNode :
         /\ thd[t].at = "scan" /\ InsNew(n, p) /\ Moves(t, [thd[t] EXCEPT !.at = "next", !.nxt = n])
         /\ open' = open /\ miscount' = miscount
  BY <1>3 DEF LookupNew
<1>5. thd[t].cur \in EntNode /\ thd[t].nxt = NoEnt /\ thd[t].dir = NoEnt  BY <1>1, <1>4 DEF EntWalks, WalkOf
<1>6. PICK r \in WalkRec : /\ Moves(t, r)
                           /\ r.at = "next" /\ r.cur = thd[t].cur /\ r.nxt = n /\ r.dir = NoEnt
  <2>1. [thd[t] EXCEPT !.at = "next", !.nxt = n] \in WalkRec  BY <1>2 DEF WalkRec
  <2> QED BY <1>2, <1>4, <1>5, <2>1 DEF WalkRec
<1>7. thd' \in [Walker -> WalkRec] /\ thd'[t] = r  BY <1>1, <1>6, Moved
<1>8. WalkOf(t)'  BY <1>5, <1>6, <1>7 DEF WalkOf
<1>9. Gains(n)
  <2> SUFFICES ASSUME NEW m \in EntNode PROVE Holds(m)' = Holds(m) + One(m = n)  BY DEF Gains
  <2>1. /\ Holds(m)' = Holds(m) - One(thd[t].cur = m) - One(thd[t].nxt = m) + One(r.cur = m) + One(r.nxt = m)
        /\ Holds(m) \in Nat
    BY <1>4, <1>6, WalkHolds
  <2> QED BY <1>5, <1>6, <2>1 DEF One
<1>10. EntCache' /\ Live' /\ Kept
  <2>1. miscount' \in BOOLEAN  BY <1>1, <1>4 DEF EntCache
  <2> QED BY <1>1, <1>3, <1>4, <1>9, <2>1, InsLive
<1> QED BY <1>4, <1>6, <1>8, <1>10, <1>5, WalkKeeps
\* The walk goes on: the entry it came from is released.
LEMMA StepKeeps ==
    ASSUME EntInv, ~miscount, NEW t \in Walker, Step(t)
    PROVE  EntInv'
<1> USE EntryAssumption
<1>1. EntCache /\ EntWalks /\ Live  BY LiveIs DEF EntInv
<1>2. thd[t].at = "next" /\ thd[t].cur \in EntNode /\ thd[t].nxt \in EntNode /\ thd[t].dir = NoEnt  BY <1>1 DEF Step, EntWalks, WalkOf
<1>3. PICK c \in EntNode : c = thd[t].cur  BY <1>2
<1>4. PICK n \in EntNode : n = thd[t].nxt  BY <1>2
<1>5. /\ ReleaseEntry(c) /\ Moves(t, [Outside EXCEPT !.at = "held", !.cur = n])
      /\ open' = open /\ miscount' = miscount
  BY <1>3, <1>4 DEF Step
<1>6. PICK r \in WalkRec : /\ Moves(t, r)
                           /\ r.at = "held" /\ r.cur = n /\ r.nxt = NoEnt /\ r.dir = NoEnt
  <2>1. [Outside EXCEPT !.at = "held", !.cur = n] \in WalkRec  BY OutsideIs DEF WalkRec
  <2> QED BY <1>5, <2>1, OutsideIs DEF WalkRec
<1>7. thd' \in [Walker -> WalkRec] /\ thd'[t] = r  BY <1>1, <1>6, Moved
<1>8. WalkOf(t)'  BY <1>6, <1>7 DEF WalkOf
<1>9. Loses(c)
  <2> SUFFICES ASSUME NEW m \in EntNode PROVE Holds(m)' = Holds(m) - One(m = c)  BY DEF Loses
  <2>1. /\ Holds(m)' = Holds(m) - One(thd[t].cur = m) - One(thd[t].nxt = m) + One(r.cur = m) + One(r.nxt = m)
        /\ Holds(m) \in Nat
    BY <1>5, <1>6, WalkHolds
  <2> QED BY <1>3, <1>4, <1>6, <2>1 DEF One
<1>10. EntCache' /\ Live' /\ Kept
  <2>1. miscount' \in BOOLEAN  BY <1>1, <1>5 DEF EntCache
  <2>2. Holds(c) > 0  BY <1>3, Held
  <2> QED BY <1>1, <1>5, <1>9, <2>1, <2>2, ReleaseLive
<1> QED BY <1>5, <1>6, <1>8, <1>10, <1>2, WalkKeeps

\* The walk ends, and its entry is released.
LEMMA GiveUpKeeps ==
    ASSUME EntInv, ~miscount, NEW t \in Walker, GiveUp(t)
    PROVE  EntInv'
<1> USE EntryAssumption
<1>1. EntCache /\ EntWalks /\ Live  BY LiveIs DEF EntInv
<1>2. thd[t].cur \in EntNode /\ thd[t].nxt = NoEnt /\ thd[t].dir = NoEnt  BY <1>1 DEF GiveUp, EntWalks, WalkOf
<1>3. PICK c \in EntNode : c = thd[t].cur  BY <1>2
<1>4. ReleaseEntry(c) /\ Moves(t, Outside) /\ open' = open /\ miscount' = miscount
  BY <1>3 DEF GiveUp
<1>5. PICK r \in WalkRec : Moves(t, r) /\ r.at = "out" /\ r.cur = NoEnt /\ r.nxt = NoEnt /\ r.dir = NoEnt
  BY <1>4, OutsideIs
<1>6. thd' \in [Walker -> WalkRec] /\ thd'[t] = r  BY <1>1, <1>5, Moved
<1>7. WalkOf(t)'  BY <1>5, <1>6 DEF WalkOf
<1>8. Loses(c)
  <2> SUFFICES ASSUME NEW m \in EntNode PROVE Holds(m)' = Holds(m) - One(m = c)  BY DEF Loses
  <2>1. /\ Holds(m)' = Holds(m) - One(thd[t].cur = m) - One(thd[t].nxt = m) + One(r.cur = m) + One(r.nxt = m)
        /\ Holds(m) \in Nat
    BY <1>4, <1>5, WalkHolds
  <2> QED BY <1>2, <1>3, <1>5, <2>1 DEF One
<1>9. EntCache' /\ Live' /\ Kept
  <2>1. miscount' \in BOOLEAN  BY <1>1, <1>4 DEF EntCache
  <2>2. Holds(c) > 0  BY <1>3, Held
  <2> QED BY <1>1, <1>4, <1>8, <2>1, <2>2, ReleaseLive
<1> QED BY <1>4, <1>5, <1>7, <1>9, <1>2, WalkKeeps

\* A step fills s with q and, if t is a thread, moves t and no other.
SlotStep(s, q, t) ==
    /\ open' = [open EXCEPT ![s] = q]
    /\ q.st = "none" => q = Closed
    /\ q.st # "none" => q.ent \in EntNode
    /\ q.held \in {q.curEnt, NoEnt}
    /\ q.st = "closing" => q.held = NoEnt
    /\ thd' \in [Walker -> WalkRec] /\ \A u \in Walker : u # t => thd'[u] = thd[u]
    /\ t \in Walker => /\ WalkOf(t)' /\ ReadsOf(t)'
                       /\ thd[t].dir \in Slot \ {s} => thd'[t].dir = thd[t].dir
    /\ \A u \in Walker : u # t /\ thd[u].dir = s => q.ent = open[s].ent /\ q.st = "open"
    /\ q.curEnt # q.held => \E u \in Walker : thd'[u].dir = s

\* Such a step keeps the invariant, when the cache is right after it.
LEMMA SlotKeeps ==
    ASSUME EntInv, ~miscount, NEW s \in Slot, NEW q \in SlotRec, NEW t, SlotStep(s, q, t),
           EntCache', (Kept /\ Live') \/ miscount'
    PROVE  EntInv'
<1>1. EntCache /\ EntWalks /\ Live  BY LiveIs DEF EntInv
<1>2. /\ open' \in [Slot -> SlotRec] /\ open'[s] = q
      /\ \A o \in Slot : o # s => open'[o] = open[o]
      /\ \A o \in Slot : SlotOf(o)'
  BY <1>1, Filled DEF SlotStep
<1>3. ASSUME NEW o \in Slot PROVE InCall(o)'
  <2>1. CASE o = s  BY <1>2, <2>1 DEF InCall, SlotStep
  <2>2. CASE o # s
    <3> SUFFICES ASSUME open[o].curEnt # open[o].held PROVE \E u \in Walker : thd'[u].dir = o
        BY <1>2, <2>2 DEF InCall
    <3>1. PICK u \in Walker : thd[u].dir = o  BY <1>1 DEF EntWalks, InCall
    <3>2. thd'[u].dir = o  BY <2>2, <3>1 DEF SlotStep
    <3> QED BY <3>2
  <2> QED BY <2>1, <2>2
<1>4. ASSUME NEW u \in Walker, u # t, thd[u].dir \in Slot
      PROVE  /\ open'[thd[u].dir].ent = open[thd[u].dir].ent
             /\ open'[thd[u].dir].st = open[thd[u].dir].st
  <2>1. CASE thd[u].dir = s
    <3>1. thd[u].dir # NoEnt  BY <1>4, EntryAssumption
    <3>2. ReadsOf(u)  BY <1>1 DEF EntWalks
    <3>3. open[s].st = "open"  BY <2>1, <3>1, <3>2 DEF ReadsOf
    <3> QED BY <1>2, <1>4, <2>1, <3>3 DEF SlotStep
  <2>2. CASE thd[u].dir # s  BY <1>2, <1>4, <2>2
  <2> QED BY <2>1, <2>2
<1>5. EntWalks'
  <2>1. \A o \in Slot : SlotOf(o)' /\ InCall(o)'  BY <1>2, <1>3
  <2>2. Kept \/ miscount'  OBVIOUS
  <2> QED BY <1>1, <1>2, <1>4, <2>1, <2>2, WalksStep DEF SlotStep
<1> QED BY <1>5, LiveIs DEF EntInv

\* What a slot's contents before and after say of Holds.
LEMMA SlotHolds ==
    ASSUME EntInv, NEW s \in Slot, NEW q \in SlotRec, open' = [open EXCEPT ![s] = q], thd' = thd
    PROVE  \A m \in EntNode :
               /\ Holds(m)' = Holds(m) - One(open[s].ent = m) - One(open[s].held = m)
                              + One(q.ent = m) + One(q.held = m)
               /\ Holds(m) \in Nat
<1> SUFFICES ASSUME NEW m \in EntNode
             PROVE  /\ Holds(m)' = Holds(m) - One(open[s].ent = m) - One(open[s].held = m)
                                   + One(q.ent = m) + One(q.held = m)
                    /\ Holds(m) \in Nat
    OBVIOUS
<1>1. open'[s] = q /\ \A o \in Slot : o # s => open'[o] = open[o]  BY DEF EntInv, EntWalks
<1>2. Holds(m)' = Holds(m) - SlotHas(open[s], m) + SlotHas(q, m)
  <2>1. \A n \in EntNode : ByThd(n)' = ByThd(n)  BY ThdStays
  <2> QED BY <1>1, <2>1, HoldsOpen
<1>3. Holds(m) \in Nat  BY HoldsNat
<1>4. /\ One(open[s].ent = m) \in Int /\ One(open[s].held = m) \in Int
      /\ One(q.ent = m) \in Int /\ One(q.held = m) \in Int
  BY DEF One
<1>5. /\ SlotHas(open[s], m) = One(open[s].ent = m) + One(open[s].held = m)
      /\ SlotHas(q, m) = One(q.ent = m) + One(q.held = m)
  BY DEF SlotHas
<1> QED BY <1>2, <1>3, <1>4, <1>5

\* A step of a thread and a slot.
BothStep(t, r, s, q) == Moves(t, r) /\ open' = [open EXCEPT ![s] = q]

\* What it does to the holds.
LEMMA BothHold ==
    ASSUME EntInv, NEW t \in Walker, NEW r \in WalkRec, NEW s \in Slot, NEW q \in SlotRec,
           BothStep(t, r, s, q)
    PROVE  \A m \in EntNode :
               /\ Holds(m)' = Holds(m) - One(thd[t].cur = m) - One(thd[t].nxt = m)
                              + One(r.cur = m) + One(r.nxt = m)
                              - One(open[s].ent = m) - One(open[s].held = m)
                              + One(q.ent = m) + One(q.held = m)
               /\ Holds(m) \in Nat
<1> SUFFICES ASSUME NEW m \in EntNode
             PROVE  /\ Holds(m)' = Holds(m) - One(thd[t].cur = m) - One(thd[t].nxt = m)
                                   + One(r.cur = m) + One(r.nxt = m)
                                   - One(open[s].ent = m) - One(open[s].held = m)
                                   + One(q.ent = m) + One(q.held = m)
                    /\ Holds(m) \in Nat
    OBVIOUS
<1>1. /\ thd'[t] = r /\ \A o \in Walker : o # t => thd'[o] = thd[o]
      /\ open'[s] = q /\ \A o \in Slot : o # s => open'[o] = open[o]
  BY Moved DEF EntInv, EntWalks, BothStep
<1>2. /\ Holds(m) = One(m = Root) + ByThd(m) + ByOpen(m)
      /\ Holds(m)' = One(m = Root) + ByThd(m)' + ByOpen(m)'
      /\ Holds(m) \in Nat /\ ByThd(m) \in Int /\ ByOpen(m) \in Int /\ One(m = Root) \in Int
  BY HoldsNat, HoldsSum, HoldsSumNext DEF One
<1>3. /\ ByThd(m)' = ByThd(m) - ThdHas(thd[t], m) + ThdHas(r, m)
      /\ ByOpen(m)' = ByOpen(m) - SlotHas(open[s], m) + SlotHas(q, m)
  BY <1>1, ThdChanges, SlotChanges
<1>4. /\ ThdHas(thd[t], m) = One(thd[t].cur = m) + One(thd[t].nxt = m)
      /\ ThdHas(r, m) = One(r.cur = m) + One(r.nxt = m)
      /\ SlotHas(open[s], m) = One(open[s].ent = m) + One(open[s].held = m)
      /\ SlotHas(q, m) = One(q.ent = m) + One(q.held = m)
  BY DEF ThdHas, SlotHas
<1>5. /\ One(thd[t].cur = m) \in Int /\ One(thd[t].nxt = m) \in Int
      /\ One(r.cur = m) \in Int /\ One(r.nxt = m) \in Int
      /\ One(open[s].ent = m) \in Int /\ One(open[s].held = m) \in Int
      /\ One(q.ent = m) \in Int /\ One(q.held = m) \in Int
  BY DEF One
<1> QED BY <1>2, <1>3, <1>4, <1>5

\* fs_fat32_openFile and fs_fat32_openDir
LEMMA OpenKeeps ==
    ASSUME EntInv, ~miscount, NEW t \in Walker, NEW s \in Slot, Open(t, s)
    PROVE  EntInv'
<1> USE EntryAssumption
<1>1. EntCache /\ EntWalks /\ Live  BY LiveIs DEF EntInv
<1>2. /\ thd[t].at = "held" /\ thd[t].cur \in EntNode /\ thd[t].nxt = NoEnt /\ thd[t] \in WalkRec
      /\ thd[t].dir = NoEnt
  BY <1>1 DEF Open, EntWalks, WalkOf
<1>3. PICK c \in EntNode : c = thd[t].cur  BY <1>2
<1>4. /\ open[s] = Closed /\ Ref(c) /\ Moves(t, [thd[t] EXCEPT !.at = "opened"])
      /\ open' = [open EXCEPT ![s] = [Closed EXCEPT !.ent = c, !.st = "open"]]
      /\ freeEntryLst' = freeEntryLst /\ freeEntryNum' = freeEntryNum /\ miscount' = miscount
  BY <1>3 DEF Open
<1>5. PICK r \in WalkRec : Moves(t, r) /\ r.at = "opened" /\ r.cur = c /\ r.nxt = NoEnt /\ r.dir = NoEnt
  <2>1. [thd[t] EXCEPT !.at = "opened"] \in WalkRec  BY <1>2 DEF WalkRec
  <2> QED BY <1>2, <1>3, <1>4, <2>1 DEF WalkRec
<1>6. PICK q \in SlotRec : /\ open' = [open EXCEPT ![s] = q]
                           /\ q.ent = c /\ q.curEnt = NoEnt /\ q.held = NoEnt /\ q.st = "open"
  <2>1. [Closed EXCEPT !.ent = c, !.st = "open"] \in SlotRec  BY DEF SlotRec, Closed
  <2> QED BY <1>4, <2>1 DEF Closed
<1>7. /\ thd' \in [Walker -> WalkRec] /\ thd'[t] = r
      /\ \A o \in Walker : o # t => thd'[o] = thd[o]
  BY <1>1, <1>5, Moved
<1>8. WalkOf(t)' /\ ReadsOf(t)'  BY <1>5, <1>7 DEF WalkOf, ReadsOf
<1>9. open[s].ent = NoEnt /\ open[s].held = NoEnt /\ open[s].st = "none"  BY <1>4 DEF Closed
<1>10. Gains(c)
  <2> SUFFICES ASSUME NEW m \in EntNode PROVE Holds(m)' = Holds(m) + One(m = c)  BY DEF Gains
  <2>1. /\ Holds(m)' = Holds(m) - One(thd[t].cur = m) - One(thd[t].nxt = m)
                       + One(r.cur = m) + One(r.nxt = m)
                       - One(open[s].ent = m) - One(open[s].held = m)
                       + One(q.ent = m) + One(q.held = m)
        /\ Holds(m) \in Nat
    <3>1. BothStep(t, r, s, q)  BY <1>5, <1>6 DEF BothStep
    <3> QED BY <3>1, BothHold
  <2> QED BY <1>2, <1>3, <1>5, <1>6, <1>9, <2>1 DEF One
<1>11. EntCache' /\ Live' /\ Kept
  <2>1. miscount' \in BOOLEAN  BY <1>1, <1>4 DEF EntCache
  <2>2. Holds(c) > 0  BY <1>3, Held
  <2>3. c \in DOMAIN ent  BY <1>1, <2>2 DEF Live
  <2> QED BY <1>1, <1>4, <1>10, <2>1, <2>2, <2>3, FindLive
<1>12. \A u \in Walker : thd[u].dir # s
  <2> SUFFICES ASSUME NEW u \in Walker, thd[u].dir = s PROVE FALSE  OBVIOUS
  <2>1. ReadsOf(u)  BY <1>1 DEF EntWalks
  <2> QED BY <1>9, <2>1 DEF ReadsOf
<1>13. SlotStep(s, q, t)  BY <1>2, <1>6, <1>7, <1>8, <1>11, <1>12 DEF SlotStep
<1> QED BY <1>2, <1>6, <1>7, <1>8, <1>11, <1>12, <1>13, SlotKeeps

\* A step of a slot alone that nobody reads.
LEMMA AloneKeeps ==
    ASSUME EntInv, ~miscount, NEW s \in Slot, NEW q \in SlotRec, open' = [open EXCEPT ![s] = q],
           q.st = "none" => q = Closed, q.st # "none" => q.ent \in EntNode, q.held = q.curEnt,
           q.st = "closing" => q.held = NoEnt, thd' = thd, Unused(s), EntCache', Kept, Live'
    PROVE  EntInv'
<1>1. thd' \in [Walker -> WalkRec] /\ \A u \in Walker : u # NoEnt => thd'[u] = thd[u]
  BY DEF EntInv, EntWalks
<1>2. NoEnt \notin Walker /\ \A u \in Walker : u # NoEnt  BY EntryAssumption
<1>3. \A u \in Walker : thd[u].dir # s  BY DEF Unused
<1>4. q.held \in {q.curEnt, NoEnt} /\ ~(q.curEnt # q.held)  OBVIOUS
<1>5. SlotStep(s, q, NoEnt)  BY <1>1, <1>2, <1>3, <1>4 DEF SlotStep
<1> QED BY <1>5, SlotKeeps

\* Nobody is in a call: what curEnt names is held.
LEMMA UnusedHeld ==
    ASSUME EntInv, NEW s \in Slot, Unused(s)
    PROVE  open[s] \in SlotRec /\ open[s].held = open[s].curEnt /\ SlotOf(s)
BY DEF EntInv, EntWalks, InCall, Unused

\* fs_vfs_closeFile and fs_vfs_closeDir
LEMMA CloseKeeps ==
    ASSUME EntInv, ~miscount, NEW t \in Walker, NEW s \in Slot, Close(t, s)
    PROVE  EntInv'
<1> USE EntryAssumption
<1>1. EntCache /\ EntWalks /\ Live  BY LiveIs DEF EntInv
<1>2. /\ open[s].st = "open" /\ Unused(s) /\ open' = [open EXCEPT ![s].st = "leaked"] /\ thd' = thd
      /\ UNCHANGED <<ent, freeEntryLst, freeEntryNum, miscount>>
  BY DEF Close, Uses
<1>3. open[s] \in SlotRec /\ open[s].held = open[s].curEnt /\ open[s].ent \in EntNode
  BY <1>2, UnusedHeld DEF SlotOf
<1>4. PICK q \in SlotRec : /\ open' = [open EXCEPT ![s] = q] /\ q.st = "leaked"
                           /\ q.ent = open[s].ent /\ q.curEnt = open[s].curEnt /\ q.held = open[s].held
  <2>1. [open[s] EXCEPT !.st = "leaked"] \in SlotRec  BY <1>3 DEF SlotRec
  <2>2. open' = [open EXCEPT ![s] = [open[s] EXCEPT !.st = "leaked"]]  BY <1>2
  <2> QED BY <1>3, <2>1, <2>2 DEF SlotRec
<1>5. \A m \in EntNode : Holds(m)' = Holds(m)
  <2> SUFFICES ASSUME NEW m \in EntNode PROVE Holds(m)' = Holds(m)  OBVIOUS
  <2>1. /\ Holds(m)' = Holds(m) - One(open[s].ent = m) - One(open[s].held = m)
                       + One(q.ent = m) + One(q.held = m)
        /\ Holds(m) \in Nat
    BY <1>2, <1>4, SlotHolds
  <2> QED BY <1>4, <2>1 DEF One
<1>6. EntCache' /\ Live' /\ Kept
  <2>1. miscount' \in BOOLEAN  BY <1>1, <1>2 DEF EntCache
  <2> QED BY <1>1, <1>2, <1>5, <2>1, SameLive
<1> QED BY <1>2, <1>3, <1>4, <1>6, AloneKeeps

\* The destructor of a directory releases the entry it returned last,
LEMMA ExitCurKeeps ==
    ASSUME EntInv, ~miscount, NEW s \in Slot, ExitCur(s)
    PROVE  EntInv'
<1> USE EntryAssumption
<1>1. EntCache /\ EntWalks /\ Live  BY LiveIs DEF EntInv
<1>2. /\ open[s].st = "open" /\ Unused(s) /\ thd' = thd /\ miscount' = miscount
      /\ open' = [open EXCEPT ![s].curEnt = NoEnt, ![s].held = NoEnt, ![s].st = "closing"]
  BY DEF ExitCur
<1>3. open[s] \in SlotRec /\ open[s].held = open[s].curEnt /\ open[s].ent \in EntNode
  BY <1>2, UnusedHeld DEF SlotOf
<1>4. PICK q \in SlotRec : /\ open' = [open EXCEPT ![s] = q] /\ q.st = "closing"
                           /\ q.ent = open[s].ent /\ q.curEnt = NoEnt /\ q.held = NoEnt
  <2>1. [open[s] EXCEPT !.curEnt = NoEnt, !.held = NoEnt, !.st = "closing"] \in SlotRec
    BY <1>3 DEF SlotRec
  <2>2. open' = [open EXCEPT ![s] = [open[s] EXCEPT !.curEnt = NoEnt, !.held = NoEnt, !.st = "closing"]]
    BY <1>1, <1>2 DEF EntWalks
  <2> QED BY <1>3, <2>1, <2>2 DEF SlotRec
<1>5. \A m \in EntNode :
         /\ Holds(m)' = Holds(m) - One(open[s].ent = m) - One(open[s].held = m)
                        + One(q.ent = m) + One(q.held = m)
         /\ Holds(m) \in Nat
  BY <1>2, <1>4, SlotHolds
<1>6. miscount' \in BOOLEAN  BY <1>1, <1>2 DEF EntCache
<1>7. EntCache' /\ Live' /\ Kept
  <2>1. CASE open[s].curEnt # NoEnt
    <3>1. PICK c \in EntNode : c = open[s].curEnt  BY <1>3, <2>1 DEF SlotRec
    <3>2. ReleaseEntry(c)  BY <2>1, <3>1 DEF ExitCur
    <3>3. Loses(c)
      <4> SUFFICES ASSUME NEW m \in EntNode PROVE Holds(m)' = Holds(m) - One(m = c)  BY DEF Loses
      <4> QED BY <1>3, <1>4, <1>5, <3>1 DEF One
    <3>4. Holds(c) > 0  BY <1>3, <3>1, Held
    <3> QED BY <1>1, <1>6, <3>2, <3>3, <3>4, ReleaseLive
  <2>2. CASE open[s].curEnt = NoEnt
    <3>1. UNCHANGED <<ent, freeEntryLst, freeEntryNum>>  BY <2>2 DEF ExitCur
    <3>2. \A m \in EntNode : Holds(m)' = Holds(m)
      <4> SUFFICES ASSUME NEW m \in EntNode PROVE Holds(m)' = Holds(m)  OBVIOUS
      <4> QED BY <1>3, <1>4, <1>5, <2>2 DEF One
    <3> QED BY <1>1, <1>6, <3>1, <3>2, SameLive
  <2> QED BY <2>1, <2>2
<1> QED BY <1>2, <1>3, <1>4, <1>7, AloneKeeps

\* and then, as that of a file, its own.
LEMMA ExitKeeps ==
    ASSUME EntInv, ~miscount, NEW s \in Slot, Exit(s)
    PROVE  EntInv'
<1> USE EntryAssumption
<1>1. EntCache /\ EntWalks /\ Live  BY LiveIs DEF EntInv
<1>2. /\ open[s].st = "closing" /\ thd' = thd /\ miscount' = miscount
      /\ ReleaseEntry(open[s].ent) /\ open' = [open EXCEPT ![s] = Closed]
  BY DEF Exit
<1>3. Unused(s)
  <2> SUFFICES ASSUME NEW u \in Walker, thd[u].dir = s PROVE FALSE  BY DEF Unused
  <2>1. ReadsOf(u)  BY <1>1 DEF EntWalks
  <2> QED BY <1>2, <2>1 DEF ReadsOf
<1>4. open[s] \in SlotRec /\ open[s].held = open[s].curEnt /\ open[s].ent \in EntNode
  BY <1>2, <1>3, UnusedHeld DEF SlotOf
<1>5. open[s].held = NoEnt
  BY <1>1, <1>2 DEF EntWalks, SlotOf
<1>6. PICK c \in EntNode : c = open[s].ent  BY <1>4
<1>7. /\ Closed \in SlotRec /\ Closed.ent = NoEnt /\ Closed.held = NoEnt /\ Closed.st = "none"
      /\ Closed.curEnt = NoEnt
  BY DEF Closed, SlotRec
<1>8. Loses(c)
  <2> SUFFICES ASSUME NEW m \in EntNode PROVE Holds(m)' = Holds(m) - One(m = c)  BY DEF Loses
  <2>1. /\ Holds(m)' = Holds(m) - One(open[s].ent = m) - One(open[s].held = m)
                       + One(Closed.ent = m) + One(Closed.held = m)
        /\ Holds(m) \in Nat
    BY <1>2, <1>7, SlotHolds
  <2> QED BY <1>5, <1>6, <1>7, <2>1 DEF One
<1>9. EntCache' /\ Live' /\ Kept
  <2>1. Holds(c) > 0  BY <1>6, Held
  <2>2. miscount' \in BOOLEAN  BY <1>1, <1>2 DEF EntCache
  <2> QED BY <1>1, <1>2, <1>6, <1>8, <2>1, <2>2, ReleaseLive
<1> QED BY <1>2, <1>3, <1>7, <1>9, AloneKeeps

\* fs_fat32_DirAPI_nxt behind the end keeps the lock.
LEMMA DirNxtEndKeeps ==
    ASSUME EntInv, ~miscount, NEW t \in Walker, NEW s \in Slot, DirNxtEnd(t, s)
    PROVE  EntInv'
<1> USE EntryAssumption
<1>1. EntCache /\ EntWalks /\ Live  BY LiveIs DEF EntInv
<1>2. /\ open[s].st = "open" /\ thd' = thd /\ open' = [open EXCEPT ![s].lck = TRUE]
      /\ UNCHANGED <<ent, freeEntryLst, freeEntryNum, miscount>>
  BY DEF DirNxtEnd, Uses
<1>3. /\ open[s] \in SlotRec /\ open[s].ent \in EntNode /\ open[s].held \in {open[s].curEnt, NoEnt}
      /\ InCall(s)
  BY <1>1, <1>2 DEF EntWalks, SlotOf
<1>4. PICK q \in SlotRec : /\ open' = [open EXCEPT ![s] = q] /\ q.st = "open"
                           /\ q.ent = open[s].ent /\ q.curEnt = open[s].curEnt /\ q.held = open[s].held
  <2>1. [open[s] EXCEPT !.lck = TRUE] \in SlotRec  BY <1>3 DEF SlotRec
  <2>2. open' = [open EXCEPT ![s] = [open[s] EXCEPT !.lck = TRUE]]  BY <1>2
  <2> QED BY <1>2, <1>3, <2>1, <2>2 DEF SlotRec
<1>5. \A m \in EntNode : Holds(m)' = Holds(m)
  <2> SUFFICES ASSUME NEW m \in EntNode PROVE Holds(m)' = Holds(m)  OBVIOUS
  <2>1. /\ Holds(m)' = Holds(m) - One(open[s].ent = m) - One(open[s].held = m)
                       + One(q.ent = m) + One(q.held = m)
        /\ Holds(m) \in Nat
    BY <1>2, <1>4, SlotHolds
  <2> QED BY <1>4, <2>1 DEF One
<1>6. EntCache' /\ Live' /\ Kept
  <2>1. miscount' \in BOOLEAN  BY <1>1, <1>2 DEF EntCache
  <2> QED BY <1>1, <1>2, <1>5, <2>1, SameLive
<1>7. /\ thd' \in [Walker -> WalkRec] /\ \A u \in Walker : u # NoEnt => thd'[u] = thd[u]
      /\ NoEnt \notin Walker
      /\ \A u \in Walker : u # NoEnt /\ thd[u].dir = s => q.ent = open[s].ent /\ q.st = "open"
  BY <1>1, <1>2, <1>4 DEF EntWalks
<1>8. q.curEnt # q.held => \E u \in Walker : thd'[u].dir = s  BY <1>2, <1>3, <1>4 DEF InCall
<1>9. /\ q.st # "none" /\ q.ent \in EntNode /\ q.held \in {q.curEnt, NoEnt} /\ q.st # "closing"
  BY <1>3, <1>4
<1>10. SlotStep(s, q, NoEnt)  BY <1>4, <1>6, <1>7, <1>8, <1>9 DEF SlotStep
<1> QED BY <1>4, <1>6, <1>7, <1>8, <1>9, <1>10, SlotKeeps

\* It releases the entry it returned last, but for the second of two calls
\* that overlap: then there is none that has a reference.
LEMMA DirNxtKeeps ==
    ASSUME EntInv, ~miscount, NEW t \in Walker, NEW s \in Slot, DirNxt(t, s)
    PROVE  EntInv'
<1> USE EntryAssumption
<1>1. EntCache /\ EntWalks /\ Live  BY LiveIs DEF EntInv
<1>2. /\ thd[t].at = "out" /\ open[s].st = "open" /\ IsDir(ent[open[s].ent].path)
      /\ open' = [open EXCEPT ![s].held = NoEnt, ![s].lck = TRUE]
      /\ Moves(t, [Outside EXCEPT !.at = "nxt", !.dir = s])
      /\ miscount' \in BOOLEAN
  BY DEF DirNxt, Uses
<1>3. /\ open[s] \in SlotRec /\ open[s].ent \in EntNode /\ open[s].held \in {open[s].curEnt, NoEnt}
      /\ thd[t].cur = NoEnt /\ thd[t].nxt = NoEnt /\ thd[t].dir = NoEnt
  BY <1>1, <1>2 DEF EntWalks, SlotOf, WalkOf
<1>4. PICK r \in WalkRec : Moves(t, r) /\ r.at = "nxt" /\ r.cur = NoEnt /\ r.nxt = NoEnt /\ r.dir = s
  <2>1. [Outside EXCEPT !.at = "nxt", !.dir = s] \in WalkRec  BY OutsideIs DEF WalkRec
  <2> QED BY <1>2, <2>1, OutsideIs DEF WalkRec
<1>5. /\ thd' \in [Walker -> WalkRec] /\ thd'[t] = r
      /\ \A o \in Walker : o # t => thd'[o] = thd[o]
  BY <1>1, <1>4, Moved
<1>6. PICK q \in SlotRec : /\ open' = [open EXCEPT ![s] = q] /\ q.st = "open"
                           /\ q.ent = open[s].ent /\ q.curEnt = open[s].curEnt /\ q.held = NoEnt
  <2>1. [open[s] EXCEPT !.held = NoEnt, !.lck = TRUE] \in SlotRec  BY <1>3 DEF SlotRec
  <2>2. open' = [open EXCEPT ![s] = [open[s] EXCEPT !.held = NoEnt, !.lck = TRUE]]
    BY <1>1, <1>2 DEF EntWalks
  <2> QED BY <1>2, <1>3, <2>1, <2>2 DEF SlotRec
<1>7. \A m \in EntNode : m # NoEnt  OBVIOUS
<1>8. \A m \in EntNode :
         /\ Holds(m)' = Holds(m) - One(thd[t].cur = m) - One(thd[t].nxt = m)
                        + One(r.cur = m) + One(r.nxt = m)
                        - One(open[s].ent = m) - One(open[s].held = m)
                        + One(q.ent = m) + One(q.held = m)
         /\ Holds(m) \in Nat
  <2>1. BothStep(t, r, s, q)  BY <1>4, <1>6 DEF BothStep
  <2> QED BY <2>1, BothHold
<1>9. EntCache' /\ Live' /\ Kept
  <2>1. CASE open[s].held # NoEnt
    <3>1. PICK c \in EntNode : c = open[s].held /\ c = open[s].curEnt  BY <1>3, <2>1 DEF SlotRec
    <3>2. ReleaseEntry(c)  BY <2>1, <3>1 DEF DirNxt
    <3>3. Loses(c)
      <4> SUFFICES ASSUME NEW m \in EntNode PROVE Holds(m)' = Holds(m) - One(m = c)  BY DEF Loses
      <4>1. /\ thd[t].cur # m /\ thd[t].nxt # m /\ r.cur # m /\ r.nxt # m /\ q.held # m
            /\ q.ent = open[s].ent /\ open[s].held = c
        BY <1>3, <1>4, <1>6, <1>7, <3>1
      <4>2. /\ Holds(m)' = Holds(m) - One(thd[t].cur = m) - One(thd[t].nxt = m)
                             + One(r.cur = m) + One(r.nxt = m)
                             - One(open[s].ent = m) - One(open[s].held = m)
                             + One(q.ent = m) + One(q.held = m)
            /\ Holds(m) \in Nat
        BY <1>8
      <4> QED BY <4>1, <4>2 DEF One
    <3>4. Holds(c) > 0  BY <3>1, Held
    <3> QED BY <1>1, <1>2, <3>2, <3>3, <3>4, ReleaseLive
  <2>2. CASE open[s].held = NoEnt
    <3>1. UNCHANGED <<ent, freeEntryLst, freeEntryNum>>  BY <2>2 DEF DirNxt
    <3>2. \A m \in EntNode : Holds(m)' = Holds(m)
      <4> SUFFICES ASSUME NEW m \in EntNode PROVE Holds(m)' = Holds(m)  OBVIOUS
      <4> QED BY <1>3, <1>4, <1>6, <1>7, <1>8, <2>2 DEF One
    <3> QED BY <1>1, <1>2, <3>1, <3>2, SameLive
  <2> QED BY <2>1, <2>2
<1>10. open'[s] = q  BY <1>1, <1>6 DEF EntWalks
<1>11. WalkOf(t)'  BY <1>4, <1>5 DEF WalkOf
<1>12. ReadsOf(t)'  BY <1>1, <1>2, <1>4, <1>5, <1>6, <1>9, <1>10, ReadsStay
<1>13. q.st # "none" /\ q.ent \in EntNode /\ q.held \in {q.curEnt, NoEnt} /\ q.st # "closing"
  BY <1>3, <1>6
<1>14. \E u \in Walker : thd'[u].dir = s  BY <1>4, <1>5
<1>15. SlotStep(s, q, t)  BY <1>3, <1>5, <1>6, <1>9, <1>11, <1>12, <1>13, <1>14 DEF SlotStep
<1> QED BY <1>3, <1>5, <1>6, <1>9, <1>11, <1>12, <1>13, <1>14, <1>15, SlotKeeps

\* What a call of nxt has at its points.
LEMMA CallHas ==
    ASSUME EntInv, ~miscount, NEW t \in Walker, thd[t].at \in {"nxt", "found", "store"}
    PROVE  /\ thd[t] \in WalkRec /\ thd[t].dir \in Slot /\ thd[t].cur = NoEnt
           /\ thd[t].at # "store" => thd[t].nxt = NoEnt
           /\ \A s \in Slot : s = thd[t].dir =>
                 /\ open[s] \in SlotRec /\ open[s].st = "open" /\ open[s].ent \in EntNode
                 /\ open[s].held \in {open[s].curEnt, NoEnt} /\ IsDir(ent[open[s].ent].path)
<1> USE EntryAssumption
<1>1. /\ thd[t] \in WalkRec /\ thd[t].dir # NoEnt /\ thd[t].cur = NoEnt
      /\ thd[t].at # "store" => thd[t].nxt = NoEnt
  BY DEF EntInv, EntWalks, WalkOf
<1>2. thd[t].dir \in Slot  BY <1>1 DEF WalkRec
<1> QED BY <1>1, <1>2 DEF EntInv, EntWalks, ReadsOf, SlotOf

\* A step of a call of nxt that stays in it.
LEMMA CallKeeps ==
    ASSUME EntInv, ~miscount, NEW t \in Walker, thd[t].at \in {"nxt", "found"},
           NEW s \in Slot, s = thd[t].dir, NEW r \in WalkRec, Moves(t, r), r.dir = s,
           NEW q \in SlotRec, open' = [open EXCEPT ![s] = q], q.st = "open", q.ent = open[s].ent,
           q.curEnt = open[s].curEnt, q.held = open[s].held,
           WalkOf(t)', EntCache', Kept, Live'
    PROVE  EntInv'
<1>1. EntCache /\ EntWalks /\ Live  BY LiveIs DEF EntInv
<1>2. /\ open[s].st = "open" /\ open[s].ent \in EntNode /\ open[s].held \in {open[s].curEnt, NoEnt}
      /\ IsDir(ent[open[s].ent].path)
  BY CallHas
<1>3. /\ thd' \in [Walker -> WalkRec] /\ thd'[t] = r
      /\ \A o \in Walker : o # t => thd'[o] = thd[o]
  BY <1>1, Moved
<1>4. open'[s] = q  BY <1>1 DEF EntWalks
<1>5. ReadsOf(t)'  BY <1>1, <1>2, <1>3, <1>4, ReadsStay
<1>6. \E u \in Walker : thd'[u].dir = s  BY <1>3
<1>7. SlotStep(s, q, t)  BY <1>2, <1>3, <1>5, <1>6 DEF SlotStep
<1> QED BY <1>2, <1>3, <1>5, <1>6, <1>7, SlotKeeps

\* It gives the lock back: a next name is found, or there is none,
LEMMA DirUnlockKeeps ==
    ASSUME EntInv, ~miscount, NEW t \in Walker, DirUnlock(t)
    PROVE  EntInv'
<1> USE EntryAssumption
<1>1. EntCache /\ EntWalks /\ Live  BY LiveIs DEF EntInv
<1>2. thd[t].at = "nxt" /\ UNCHANGED <<ent, freeEntryLst, freeEntryNum, miscount>>  BY DEF DirUnlock
<1>3. thd[t] \in WalkRec /\ thd[t].dir \in Slot /\ thd[t].cur = NoEnt /\ thd[t].nxt = NoEnt
  BY <1>2, CallHas
<1>4. PICK s \in Slot : s = thd[t].dir  BY <1>3
<1>5. open[s] \in SlotRec /\ open[s].st = "open"  BY <1>2, <1>4, CallHas
<1>6. PICK p \in {"found", "store"} :
         /\ Moves(t, [thd[t] EXCEPT !.at = p])
         /\ \/ open' = [open EXCEPT ![s].lck = FALSE]
            \/ open' = [open EXCEPT ![s].lck = FALSE, ![s].end = TRUE]
  BY <1>4 DEF DirUnlock
<1>7. PICK r \in WalkRec : Moves(t, r) /\ r.at = p /\ r.cur = NoEnt /\ r.nxt = NoEnt /\ r.dir = s
  <2>1. [thd[t] EXCEPT !.at = p] \in WalkRec  BY <1>3 DEF WalkRec
  <2> QED BY <1>3, <1>4, <1>6, <2>1 DEF WalkRec
<1>8. PICK q \in SlotRec : /\ open' = [open EXCEPT ![s] = q] /\ q.st = "open" /\ q.ent = open[s].ent
                           /\ q.curEnt = open[s].curEnt /\ q.held = open[s].held
  <2>1. /\ [open[s] EXCEPT !.lck = FALSE] \in SlotRec
        /\ [open[s] EXCEPT !.lck = FALSE, !.end = TRUE] \in SlotRec
    BY <1>5 DEF SlotRec
  <2>2. \/ open' = [open EXCEPT ![s] = [open[s] EXCEPT !.lck = FALSE]]
        \/ open' = [open EXCEPT ![s] = [open[s] EXCEPT !.lck = FALSE, !.end = TRUE]]
    BY <1>1, <1>6 DEF EntWalks
  <2> QED BY <1>5, <2>1, <2>2 DEF SlotRec
<1>9. \A m \in EntNode : Holds(m)' = Holds(m)
  <2> SUFFICES ASSUME NEW m \in EntNode PROVE Holds(m)' = Holds(m)  OBVIOUS
  <2>1. /\ Holds(m)' = Holds(m) - One(thd[t].cur = m) - One(thd[t].nxt = m)
                       + One(r.cur = m) + One(r.nxt = m)
                       - One(open[s].ent = m) - One(open[s].held = m)
                       + One(q.ent = m) + One(q.held = m)
        /\ Holds(m) \in Nat
    <3>1. BothStep(t, r, s, q)  BY <1>7, <1>8 DEF BothStep
    <3> QED BY <3>1, BothHold
  <2> QED BY <1>3, <1>7, <1>8, <2>1 DEF One
<1>10. EntCache' /\ Live' /\ Kept
  <2>1. miscount' \in BOOLEAN  BY <1>1, <1>2 DEF EntCache
  <2> QED BY <1>1, <1>2, <1>9, <2>1, SameLive
<1>11. WalkOf(t)'
  <2>1. thd'[t] = r /\ s # NoEnt  BY <1>1, <1>7, Moved
  <2> QED BY <1>7, <2>1 DEF WalkOf
<1> QED BY <1>2, <1>4, <1>7, <1>8, <1>10, <1>11, CallKeeps

\* finds or makes the entry of the name,
LEMMA DirNxtEntKeeps ==
    ASSUME EntInv, ~miscount, NEW t \in Walker, DirNxtEnt(t)
    PROVE  EntInv'
<1> USE EntryAssumption
<1>1. EntCache /\ EntWalks /\ Live  BY LiveIs DEF EntInv
<1>2. thd[t].at = "found" /\ miscount' = miscount  BY DEF DirNxtEnt
<1>3. thd[t] \in WalkRec /\ thd[t].dir \in Slot /\ thd[t].cur = NoEnt /\ thd[t].nxt = NoEnt
  BY <1>2, CallHas
<1>4. PICK s \in Slot : s = thd[t].dir  BY <1>3
<1>5. open[s] \in SlotRec /\ open[s].st = "open" /\ IsDir(ent[open[s].ent].path)  BY <1>2, <1>4, CallHas
<1>6. PICK n \in EntNode, p \in Kids[ent[open[s].ent].path] :
         /\ \/ n \in DOMAIN ent /\ ent[n].path = p /\ Find(n)
            \/ InsNew(n, p)
         /\ Moves(t, [thd[t] EXCEPT !.at = "store", !.nxt = n])
  BY <1>4 DEF DirNxtEnt
<1>7. open' = [open EXCEPT ![s].lck = FALSE]  BY <1>4 DEF DirNxtEnt
<1>8. PICK r \in WalkRec : Moves(t, r) /\ r.at = "store" /\ r.cur = NoEnt /\ r.nxt = n /\ r.dir = s
  <2>1. [thd[t] EXCEPT !.at = "store", !.nxt = n] \in WalkRec  BY <1>3 DEF WalkRec
  <2> QED BY <1>3, <1>4, <1>6, <2>1 DEF WalkRec
<1>9. PICK q \in SlotRec : /\ open' = [open EXCEPT ![s] = q] /\ q.st = "open" /\ q.ent = open[s].ent
                           /\ q.curEnt = open[s].curEnt /\ q.held = open[s].held
  <2>1. [open[s] EXCEPT !.lck = FALSE] \in SlotRec  BY <1>5 DEF SlotRec
  <2>2. open' = [open EXCEPT ![s] = [open[s] EXCEPT !.lck = FALSE]]  BY <1>7
  <2> QED BY <1>5, <2>1, <2>2 DEF SlotRec
<1>10. Gains(n)
  <2> SUFFICES ASSUME NEW m \in EntNode PROVE Holds(m)' = Holds(m) + One(m = n)  BY DEF Gains
  <2>1. /\ Holds(m)' = Holds(m) - One(thd[t].cur = m) - One(thd[t].nxt = m)
                       + One(r.cur = m) + One(r.nxt = m)
                       - One(open[s].ent = m) - One(open[s].held = m)
                       + One(q.ent = m) + One(q.held = m)
        /\ Holds(m) \in Nat
    <3>1. BothStep(t, r, s, q)  BY <1>8, <1>9 DEF BothStep
    <3> QED BY <3>1, BothHold
  <2> QED BY <1>3, <1>8, <1>9, <2>1 DEF One
<1>11. EntCache' /\ Live' /\ Kept
  <2>1. miscount' \in BOOLEAN  BY <1>1, <1>2 DEF EntCache
  <2>2. PICK x \in Paths : x = p  BY <1>5 DEF IsDir, Paths
  <2>3. CASE n \in DOMAIN ent /\ Find(n)
    <3>1. Ref(n)  BY <2>3 DEF Find
    <3> QED BY <1>1, <1>10, <2>1, <2>3, <3>1, FindLive
  <2>4. CASE InsNew(n, p)  BY <1>1, <1>10, <2>1, <2>2, <2>4, InsLive
  <2> QED BY <1>6, <2>3, <2>4
<1>12. WalkOf(t)'
  <2>1. thd'[t] = r /\ s # NoEnt  BY <1>1, <1>8, Moved
  <2> QED BY <1>8, <2>1 DEF WalkOf
<1> QED BY <1>2, <1>4, <1>8, <1>9, <1>11, <1>12, CallKeeps

\* and stores it, over the one of a call that overlaps if there was one.
LEMMA DirStoreKeeps ==
    ASSUME EntInv, ~miscount, NEW t \in Walker, DirStore(t)
    PROVE  EntInv'
<1> USE EntryAssumption
<1>1. EntCache /\ EntWalks /\ Live  BY LiveIs DEF EntInv
<1>2. thd[t].at = "store" /\ UNCHANGED <<ent, freeEntryLst, freeEntryNum>> /\ Moves(t, Outside)
  BY DEF DirStore
<1>3. thd[t] \in WalkRec /\ thd[t].dir \in Slot /\ thd[t].cur = NoEnt  BY <1>2, CallHas
<1>4. PICK s \in Slot : s = thd[t].dir  BY <1>3
<1>5. PICK n \in EntNode \union {NoEnt} : n = thd[t].nxt  BY <1>3 DEF WalkRec
<1>6. open[s] \in SlotRec /\ open[s].st = "open" /\ open[s].ent \in EntNode  BY <1>2, <1>4, CallHas
<1>7. /\ open' = [open EXCEPT ![s].curEnt = n, ![s].held = n]
      /\ miscount' = (open[s].held # NoEnt)
  BY <1>4, <1>5 DEF DirStore
<1>8. PICK r \in WalkRec : Moves(t, r) /\ r.at = "out" /\ r.cur = NoEnt /\ r.nxt = NoEnt /\ r.dir = NoEnt
  BY <1>2, OutsideIs
<1>9. PICK q \in SlotRec : /\ open' = [open EXCEPT ![s] = q] /\ q.st = "open" /\ q.ent = open[s].ent
                           /\ q.curEnt = n /\ q.held = n
  <2>1. [open[s] EXCEPT !.curEnt = n, !.held = n] \in SlotRec  BY <1>6 DEF SlotRec
  <2>2. open' = [open EXCEPT ![s] = [open[s] EXCEPT !.curEnt = n, !.held = n]]  BY <1>1, <1>7 DEF EntWalks
  <2> QED BY <1>6, <2>1, <2>2 DEF SlotRec
<1>10. /\ thd' \in [Walker -> WalkRec] /\ thd'[t] = r
       /\ \A o \in Walker : o # t => thd'[o] = thd[o]
  BY <1>1, <1>8, Moved
<1>11. WalkOf(t)' /\ ReadsOf(t)'  BY <1>8, <1>10 DEF WalkOf, ReadsOf
<1>12. EntCache' /\ ((Kept /\ Live') \/ miscount')
  <2>1. miscount' \in BOOLEAN  BY <1>7
  <2>2. EntCache'  BY <1>1, <1>2, <2>1 DEF EntCache
  <2>3. CASE open[s].held # NoEnt  BY <1>7, <2>2, <2>3
  <2>4. CASE open[s].held = NoEnt
    <3>1. \A m \in EntNode : Holds(m)' = Holds(m)
      <4> SUFFICES ASSUME NEW m \in EntNode PROVE Holds(m)' = Holds(m)  OBVIOUS
      <4>1. /\ Holds(m)' = Holds(m) - One(thd[t].cur = m) - One(thd[t].nxt = m)
                           + One(r.cur = m) + One(r.nxt = m)
                           - One(open[s].ent = m) - One(open[s].held = m)
                           + One(q.ent = m) + One(q.held = m)
            /\ Holds(m) \in Nat
        <5>1. BothStep(t, r, s, q)  BY <1>8, <1>9 DEF BothStep
        <5> QED BY <5>1, BothHold
      <4> QED BY <1>3, <1>5, <1>8, <1>9, <2>4, <4>1 DEF One
    <3> QED BY <1>1, <1>2, <2>1, <3>1, SameLive
  <2> QED BY <2>3, <2>4
<1>13. /\ q.st # "none" /\ q.ent \in EntNode /\ q.held \in {q.curEnt, NoEnt} /\ q.st # "closing"
       /\ ~(q.curEnt # q.held)
       /\ ~(thd[t].dir \in Slot \ {s})
  BY <1>4, <1>6, <1>9
<1>14. \A u \in Walker : u # t /\ thd[u].dir = s => q.ent = open[s].ent /\ q.st = "open"  BY <1>9
<1>15. SlotStep(s, q, t)  BY <1>9, <1>10, <1>11, <1>12, <1>13, <1>14 DEF SlotStep
<1> QED BY <1>9, <1>10, <1>11, <1>12, <1>13, <1>14, <1>15, SlotKeeps

\* Every step keeps the invariant.
LEMMA EntryStep == EntInv /\ [EntNext]_entVars => EntInv'
<1> SUFFICES ASSUME EntInv, [EntNext]_entVars PROVE EntInv'  OBVIOUS
<1>1. CASE EntNext
  <2>1. ~miscount  BY <1>1 DEF EntNext
  <2>2. \/ \E t \in Walker :
              \/ ReadRoot(t) \/ WriteRoot(t) \/ LookupNew(t) \/ Step(t) \/ GiveUp(t)
              \/ DirUnlock(t) \/ DirNxtEnt(t) \/ DirStore(t)
              \/ \E p \in UNION {Kids[d] : d \in DOMAIN Kids} : LookupHit(t, p) \/ LookupMiss(t, p)
              \/ \E s \in Slot : Open(t, s) \/ Close(t, s) \/ DirNxtEnd(t, s) \/ DirNxt(t, s)
        \/ \E s \in Slot : ExitCur(s) \/ Exit(s)
    BY <1>1 DEF EntNext
  <2> QED BY <2>1, <2>2, ReadRootKeeps, WriteRootKeeps, LookupHitKeeps, LookupMissKeeps, LookupNewKeeps,
             StepKeeps, GiveUpKeeps, OpenKeeps, CloseKeeps, ExitCurKeeps, ExitKeeps, DirNxtEndKeeps,
             DirNxtKeeps, DirUnlockKeeps, DirNxtEntKeeps, DirStoreKeeps
<1>2. CASE UNCHANGED entVars
  <2>1. EntCache'  BY <1>2 DEF entVars, EntInv, EntCache
  <2>2. \A t \in Walker : WalkOf(t)' /\ ReadsOf(t)'
    BY <1>2 DEF entVars, EntInv, EntWalks, WalkOf, ReadsOf
  <2>3. \A s \in Slot : SlotOf(s)' /\ InCall(s)'  BY <1>2 DEF entVars, EntInv, EntWalks, SlotOf, InCall
  <2>4. EntWalks'  BY <1>2, <2>2, <2>3 DEF entVars, EntInv, EntWalks
  <2>5. EntryLive'  BY <1>2 DEF entVars, EntInv, EntryLive, Holds
  <2> QED BY <2>1, <2>4, <2>5 DEF EntInv
<1> QED BY <1>1, <1>2

\* So the invariant holds of every behaviour of the cache of entries.
LEMMA EntriesHold == EntSpec => []EntInv
<1>1. EntInit => EntInv  BY EntriesBegin
<1>2. EntInv /\ [EntNext]_entVars => EntInv'  BY EntryStep
<1> QED BY <1>1, <1>2, PTL DEF EntSpec

(***************************************************************************)
(* The cache of directory entries has the types it should have, whatever   *)
(* directories, threads and open files there are.                          *)
(***************************************************************************)
THEOREM EntriesTyped == EntSpec => []EntTypeOK
<1>1. EntInv => EntTypeOK
  BY DEF EntInv, EntCache, EntWalks, EntTypeOK, EntRec, WalkRec, SlotRec
<1> QED BY <1>1, EntriesHold, PTL

(***************************************************************************)
(* An entry that a walk, an open file or an open directory holds is in     *)
(* memory and not free, and ref counts who holds it, also while threads    *)
(* share directories and their calls of nxt overlap, up to the first of    *)
(* the three things that break it: an update the root's unlocked increment *)
(* loses, a second release of a directory's curEnt, a store over one       *)
(* (fs_fat32_releaseEntry, fs_fat32_DirAPI_nxt and lookups).               *)
(***************************************************************************)
THEOREM EntriesLive == EntSpec => []EntryLive
<1>1. EntInv => EntryLive  BY DEF EntInv
<1> QED BY <1>1, EntriesHold, PTL

=============================================================================
