------------------------------ MODULE FatCache ------------------------------
(***************************************************************************)
(* The cluster cache of a FAT32 partition (fs/fat32/io.c): threads share   *)
(* the nodes by a use lock and a counter of those that wait for it; nodes  *)
(* nobody uses are on a free list, from whose head they are evicted.       *)
(* What runs under the lock of clusCacheTr is one action; the use lock is  *)
(* taken outside of it.                                                    *)
(***************************************************************************)
EXTENDS Integers, Sequences, SequencesExt, FiniteSets, List

CONSTANTS
    Thread,
    Clus,           \* clusters
    Node,           \* memory for cluster nodes
    MaxFree,        \* fs_fat32_FreeClusCache_MaxNum
    MaxModi,        \* fs_fat32_ClusCacheNd_MaxModiCnt
    None

ASSUME CacheAssumption ==
    /\ IsFiniteSet(Thread) /\ None \notin Thread \union Node
    /\ MaxFree \in Nat /\ MaxModi \in Nat \ {0}

VARIABLES
    node,           \* the nodes in clusCacheTr, a function
    freeLst,        \* freeClusCacheLst
    freeNum,        \* freeClusCacheNum
    at, my          \* thread -> its point, its node

vars == <<node, freeLst, freeNum, at, my>>

Points == {"out", "wait", "locked", "use"}

Init ==
    /\ node = <<>>
    /\ freeLst = <<>>
    /\ freeNum = 0
    /\ at = [t \in Thread |-> "out"]
    /\ my = [t \in Thread |-> None]

Goto(t, a, n) == at' = [at EXCEPT ![t] = a] /\ my' = [my EXCEPT ![t] = n]

\* fs_fat32_getClusCacheNd up to the unlock of the tree, for a cluster that
\* is cached: it leaves the free list.  freeClusCacheNum is not changed.
Hit(t, c) ==
    \E n \in DOMAIN node :
        /\ at[t] = "out" /\ node[n].idx = c
        /\ node' = [node EXCEPT ![n].waitCnt = @ + 1]
        /\ freeLst' = List_del(freeLst, n)
        /\ Goto(t, "wait", n)
        /\ UNCHANGED freeNum

\* ... for one that is not: a new node, with the cluster read from the disk.
\* A read that fails leaves everything as it was.
Miss(t, c) ==
    \E n \in Node \ DOMAIN node :
        /\ at[t] = "out" /\ \A m \in DOMAIN node : node[m].idx # c
        /\ node' = [m \in DOMAIN node \union {n} |->
                       IF m = n THEN
                       [idx |-> c, waitCnt |-> 1, modiCnt |-> 0, dirty |-> FALSE, useLck |-> None]
                       ELSE node[m]]
        /\ Goto(t, "wait", n)
        /\ UNCHANGED <<freeLst, freeNum>>

Use(t) ==
    /\ at[t] = "wait" /\ node[my[t]].useLck = None
    /\ node' = [node EXCEPT ![my[t]].useLck = t]
    /\ Goto(t, "locked", my[t])
    /\ UNCHANGED <<freeLst, freeNum>>

StopWaiting(t) ==
    /\ at[t] = "locked"
    /\ node' = [node EXCEPT ![my[t]].waitCnt = @ - 1]
    /\ Goto(t, "use", my[t])
    /\ UNCHANGED <<freeLst, freeNum>>

\* Mutant: a node is free whether or not somebody waits for it.
FreeAlways(n) == TRUE
Free(n) == node[n].waitCnt = 0

\* Mutant: one node too many.
FullLate == freeNum > MaxFree
Full == freeNum >= MaxFree

\* A series of modifications is written back at once.
Flush(k) == k >= MaxModi

\* fs_fat32_releaseClusCacheNd; modi is 1 after a modification.  The node
\* that is evicted is the first of the free list, but what is written is the
\* node that is released.  The evicted node is freed, whose buffer stays
\* allocated; and so is, instead of it, the stack of the running thread, by
\* the address of the variable freeNd, which is no state of the cache.
Release(t, modi) ==
    LET n      == my[t]
        k      == node[n].modiCnt + modi
        lst    == Append(freeLst, n)
        evict  == Free(n) /\ Full
        gone   == IF evict THEN {Head(lst)} ELSE {}
        left   == [node[n] EXCEPT !.useLck = None,
                                  !.modiCnt = IF Flush(k) THEN k - MaxModi ELSE k,
                                  !.dirty = ~(Flush(k) \/ evict) /\ (@ \/ modi = 1)] IN
    /\ at[t] = "use"
    /\ node' = [m \in DOMAIN node \ gone |-> IF m = n THEN left ELSE node[m]]
    /\ freeLst' = IF ~Free(n) THEN freeLst ELSE IF evict THEN Tail(lst) ELSE lst
    /\ freeNum' = IF Free(n) /\ ~Full THEN freeNum + 1 ELSE freeNum
    /\ Goto(t, "out", None)

Next ==
    \E t \in Thread :
        \/ \E c \in Clus : Hit(t, c) \/ Miss(t, c)
        \/ Use(t) \/ StopWaiting(t)
        \/ \E modi \in {0, 1} : Release(t, modi)

Spec == Init /\ [][Next]_vars

-----------------------------------------------------------------------------
TypeOK ==
    /\ DOMAIN node \subseteq Node
    /\ \A n \in DOMAIN node : node[n] \in [idx : Clus, waitCnt : 0 .. Cardinality(Thread),
                                           modiCnt : 0 .. MaxModi, dirty : BOOLEAN,
                                           useLck : Thread \union {None}]
    /\ freeLst \in Seq(Node) /\ freeNum \in 0 .. MaxFree + 1
    /\ at \in [Thread -> Points] /\ my \in [Thread -> Node \union {None}]

Users(n) == {t \in Thread : my[t] = n}

(***************************************************************************)
(* A node that a thread uses or waits for is not evicted under it and is   *)
(* its alone while it is used: nodes on the free list have no users, nodes *)
(* off it have some, a cluster has one node, and the waiting are counted   *)
(* (getClusCacheNd and releaseClusCacheNd take the two locks in opposite   *)
(* orders).                                                                *)
(***************************************************************************)
CacheShared ==
    /\ \A t \in Thread : at[t] # "out" => my[t] \in DOMAIN node
    /\ \A n \in DOMAIN node :
          /\ n \in ToSet(freeLst) <=> Users(n) = {}
          /\ \A m \in DOMAIN node : node[m].idx = node[n].idx => m = n
          /\ node[n].waitCnt = Cardinality({t \in Users(n) : at[t] \in {"wait", "locked"}})
          /\ Cardinality({t \in Users(n) : at[t] \in {"locked", "use"}}) <= 1
    /\ ToSet(freeLst) \subseteq DOMAIN node /\ IsInjective(freeLst)

(***************************************************************************)
(* The cache is bounded although freeClusCacheNum only grows: no more      *)
(* nodes are free than it says, and it stops at the limit.  A cached       *)
(* cluster that differs from the disk has modifications that count towards *)
(* its next write, after MaxModi of them at the latest.                    *)
(***************************************************************************)
CacheBounded ==
    /\ Len(freeLst) <= freeNum /\ freeNum <= MaxFree
    /\ Cardinality(DOMAIN node) <= MaxFree + Cardinality(Thread)
    /\ \A n \in DOMAIN node : node[n].modiCnt < MaxModi /\ (node[n].dirty => node[n].modiCnt > 0)
=============================================================================
