------------------------------- MODULE MemMap -------------------------------
(***************************************************************************)
(* The mapped regions of a process (mm/mgr.c): a tree ordered by the end   *)
(* of the regions, in which mm_mmap searches a gap.  Addresses count 4 KB  *)
(* pages.  The tree is a set here: _findMap descends in it to the region   *)
(* with the least end above an address (see RBTree).                       *)
(***************************************************************************)
EXTENDS Integers, FiniteSets, FiniteSetsExt

CONSTANTS
    End,            \* mm_usrAddrEd
    Large,          \* 4 KB pages in a large page
    Sizes           \* sizes that callers ask for

ASSUME MemMapAssumption == End \in Nat /\ Large \in Nat \ {0} /\ Sizes \subseteq Nat \ {0}

VARIABLES
    mapTr,          \* the regions, [st, ed)
    ret             \* the last mm_mmap: what it was asked and its result

vars == <<mapTr, ret>>

Fail == -1

Align(a, unit) == ((a + unit - 1) \div unit) * unit

\* The region with the least end above a, in a singleton, or {}
FindMap(a) ==
    LET above == {b \in mapTr : b.ed > a} IN
    {b \in above : \A o \in above : b.ed <= o.ed}

\* Mutant: only the first page is looked at.
FitsPage(a, size) == \A b \in FindMap(a) : b.st >= a + 1
Fits(a, size) == \A b \in FindMap(a) : b.st >= a + size

\* The search of mm_mmap from st: st itself, then the ends of the regions in
\* their order; the loop's own assignment takes back the alignment of the
\* body.  What would exceed the user's half becomes its end, that is, failure.
Search(st, size) ==
    LET c == Min({a \in {st} \union {b.ed : b \in mapTr} : a >= st /\ Fits(a, size)}) IN
    IF c + size > End THEN Fail ELSE c

Init == mapTr = {} /\ ret = [st |-> 0, size |-> 1, addr |-> Fail, old |-> {[st |-> 0, ed |-> End]}]

Mmap(hint, n, unit) ==
    LET st   == Align(hint, unit)
        size == Align(n, unit)
        a    == Search(st, size) IN
    /\ mapTr' = IF a = Fail THEN mapTr ELSE mapTr \union {[st |-> a, ed |-> a + size]}
    /\ ret' = [st |-> st, size |-> size, addr |-> a, old |-> mapTr]

\* mm_munmap fails unless it is given exactly one region
Munmap(a, size) ==
    /\ [st |-> a, ed |-> a + size] \in FindMap(a)
    /\ mapTr' = mapTr \ {[st |-> a, ed |-> a + size]}
    /\ UNCHANGED ret

\* mm_mgr_free: the root, until the tree is empty
Free ==
    /\ mapTr # {}
    /\ \E b \in mapTr : mapTr' = mapTr \ {b}
    /\ UNCHANGED ret

Next ==
    \/ \E hint \in 0 .. End - 1, n \in Sizes, unit \in {1, Large} : Mmap(hint, n, unit)
    \/ \E a \in 0 .. End - 1, size \in 1 .. End : Munmap(a, size)
    \/ Free

Spec == Init /\ [][Next]_vars

-----------------------------------------------------------------------------
TypeOK ==
    /\ mapTr \subseteq [st : 0 .. End, ed : 0 .. End]
    /\ ret.addr \in {Fail} \union 0 .. End

(***************************************************************************)
(* The regions of a process do not overlap and lie in the user's half; a   *)
(* request gets the first place from its hint on that is free, so it fails *)
(* only if there is none (mm_mmap).                                        *)
(***************************************************************************)
Disjoint ==
    /\ \A b \in mapTr : b.st < b.ed /\ b.ed <= End
    /\ \A b, o \in mapTr : b # o => b.ed <= o.st \/ o.ed <= b.st
    /\ \A a \in ret.st .. (IF ret.addr = Fail THEN End - ret.size ELSE ret.addr - 1) :
          \E b \in ret.old : b.st < a + ret.size /\ a < b.ed
=============================================================================
