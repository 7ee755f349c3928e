------------------------------- MODULE Buddy -------------------------------
(***************************************************************************)
(* The buddy page allocator (mm/buddy.c, mm_divPageGrp of mm/mm.c) and the *)
(* stock of page tables that is its client (mm/map.c), on several CPUs.    *)
(*                                                                         *)
(* A group of 2^ord pages is named by its first page, whose descriptor     *)
(* holds the group's order and buddyId: 1 for a group cut from a zone at   *)
(* boot, 2i and 2i+1 for the halves of group i.  One bit per pair of       *)
(* halves tells whether exactly one of the two is in a free list.          *)
(*                                                                         *)
(* The functions run under _buddyLck or _cacheLck with interrupts masked,  *)
(* so a critical section is one step; what is done after the unlock is a   *)
(* step of its own (Mark, and the free that FreeTbl leaves to Free).       *)
(***************************************************************************)
EXTENDS Integers, Sequences, FiniteSets, SequencesExt, List

CONSTANTS
    CPU,          \* the CPUs
    Zones,        \* <<first, end>>: the free page frames of a memory zone
    MaxOrd,       \* mm_buddy_mxOrd
    TblShift,     \* nrTblCacheShift (a page table is one page)
    Sizes         \* bound: the orders that callers other than map.c ask for

Page == UNION {z[1] .. z[2] - 1 : z \in Zones}
None == -1                                       \* NULL
Locks == {"buddy", "cache"}                      \* _buddyLck, _cacheLck

ASSUME ZoneAssumption ==
    /\ IsFiniteSet(Zones) /\ \A z \in Zones : z \in Nat \X Nat /\ z[1] < z[2]
    /\ \A z, y \in Zones : z # y => z[2] <= y[1] \/ y[2] <= z[1]
ASSUME OrderAssumption ==
    MaxOrd \in Nat /\ TblShift \in 0 .. MaxOrd /\ Sizes \subseteq Nat

Ord  == 0 .. MaxOrd
Desc == [ord : Ord, buddyId : 0 .. 2^(MaxOrd + 1) - 1,    \* a u16, as MaxOrd is 15
         attr : SUBSET {"HeadPage", "Allocated", "MMU"}]
NrTblCache == 2^TblShift                         \* nrTblCache

VARIABLES
    page,          \* page[p]: the descriptor of p (mm_Page)
    revBit,        \* _buddy.revBit: the pairs <<order, number>> whose bit is set
    freeLst,       \* _buddy.freeLst[ord]: the first pages of free groups
    totUsage,      \* _buddy.totUsage, in pages
    tblGrpCache,   \* _tblGrpCache[0 .. _nrTblGrp - 1], a stack
    nrTbl,         \* _nrTbl
    held,          \* the groups that callers of mm_allocPages have
    tables,        \* the page tables that callers of mm_map_allocTbl have
    mine,          \* mine[c]: the page that c has taken and not yet marked
    hung           \* hung[l]: the CPU that never releases lock l, or None

buddyVars == <<page, revBit, freeLst, totUsage>>
vars == <<buddyVars, tblGrpCache, nrTbl, held, tables, mine, hung>>

-----------------------------------------------------------------------------
\* The allocator's state as one value m, for the loops of its functions
Mem == [page |-> page, bit |-> revBit, free |-> freeLst, usage |-> totUsage]

Becomes(m) ==
    /\ page' = m.page
    /\ revBit' = m.bit
    /\ freeLst' = m.free
    /\ totUsage' = m.usage

Size(m, p) == 2^m.page[p].ord
IsRoot(m, p) == m.page[p].buddyId = 1
IsRight(m, p) == m.page[p].buddyId % 2 = 1       \* mm_buddy_isRight
GetBuddy(m, p) == IF IsRight(m, p) THEN p - Size(m, p) ELSE p + Size(m, p)

\* Mutant: a merged group keeps its half's identifier.
ParentSame(id) == id
Parent(id) == id \div 2                          \* mm_buddy_parent

\* Mutant: List_del is forgotten.
UnlinkNone(m, o, p) == m
Unlink(m, o, p) == [m EXCEPT !.free[o] = List_del(@, p)]

\* Mutant: the two halves of a pair get bits of their own.
PairOfHalf(m, p) == <<m.page[p].ord + 1, p \div Size(m, p)>>
\* The pair that p's group belongs to: the index of _revBit and _getBit
Pair(m, p) == <<m.page[p].ord + 1, p \div (2 * Size(m, p))>>

\* Mutant: the bit is not looked at, groups merge up to the root.
GetRoot(m, p) == IsRoot(m, p)
GetBit(m, p) == IsRoot(m, p) \/ Pair(m, p) \in m.bit

\* Mutant: the pair's bit is set where it should be reversed.
SetBit(m, p) == IF IsRoot(m, p) THEN m ELSE [m EXCEPT !.bit = @ \union {Pair(m, p)}]
RevBit(m, p) ==
    IF IsRoot(m, p) THEN m
    ELSE [m EXCEPT !.bit = SymDiff(@, {Pair(m, p)})]

\* mm_divPageGrp: the right half's first page, and the descriptors after it
Right(pg, p) == p + 2^(pg[p].ord - 1)
DivPageGrp(pg, p) ==
    [pg EXCEPT ![p].ord = @ - 1,
               ![p].buddyId = 2 * @,
               ![Right(pg, p)] = [pg[p] EXCEPT !.ord = @ - 1, !.buddyId = 2 * @ + 1]]

\* One turn of the loop of mm_allocPages: the right half becomes free
Halve(m, p) ==
    LET r == Right(m.page, p)
        d == RevBit([m EXCEPT !.page = DivPageGrp(@, p)], r) IN
    [d EXCEPT !.free[d.page[r].ord] = Append(@, r)]

\* The orders that can serve a request for order k; the least one is taken
Fits(m, k) == {o \in k .. MaxOrd : m.free[o] # <<>>}
Least(m, k) == CHOOSE o \in Fits(m, k) : \A n \in Fits(m, k) : o <= n
Found(m, k) == Head(m.free[Least(m, k)])

\* The critical section of mm_allocPages for order k, when something fits
Take(m, k) ==
    LET o == Least(m, k)
        p == Found(m, k)
        Split[i \in k .. o] == IF i = o THEN RevBit(Unlink(m, o, p), p)
                               ELSE Halve(Split[i + 1], p)
    IN [Split[k] EXCEPT !.usage = @ + 2^k]

\* One turn of the loop of mm_freePages: p and its free buddy become a group
Merge(m, p) ==
    LET o    == m.page[p].ord
        bud  == GetBuddy(m, p)
        gone == IF IsRight(m, p) THEN p ELSE bud
        left == IF IsRight(m, p) THEN bud ELSE p IN
    [Unlink(m, o, bud) EXCEPT
        !.page[gone] = [ord |-> 0, buddyId |-> 0, attr |-> SymDiff(@.attr, {"HeadPage"})],
        !.page[left].ord = o + 1,
        !.page[left].buddyId = Parent(@)]

\* The critical section of mm_freePages for the group p
Give(m, p) ==
    LET k == m.page[p].ord
        Climb[i \in k - 1 .. MaxOrd] ==
            IF i < k
            THEN [mem |-> [m EXCEPT !.usage = @ - 2^k, !.page[p].attr = {"HeadPage"}],
                  top |-> p, done |-> FALSE]
            ELSE LET s == Climb[i - 1]
                     f == RevBit(s.mem, s.top)
                     b == GetBuddy(f, s.top) IN
                 CASE s.done -> s
                   [] ~s.done /\ GetBit(f, s.top) -> [s EXCEPT !.mem = f, !.done = TRUE]
                   [] OTHER -> [s EXCEPT !.mem = Merge(f, s.top), !.top = IF b < @ THEN b ELSE @]
        end == Climb[MaxOrd]
    IN [end.mem EXCEPT !.free[end.mem.page[end.top].ord] = <<end.top>> \o @]

-----------------------------------------------------------------------------
(***************************************************************************)
(* mm_buddy_init cuts each zone into aligned groups, as large as fit, and  *)
(* mm_map_init takes the first stock of page tables.                       *)
(***************************************************************************)
Cut(z) ==
    LET Fit(a) == {o \in Ord : a % 2^o = 0 /\ a + 2^o <= z[2]}
        Largest(a) == CHOOSE o \in Fit(a) : \A n \in Fit(a) : n <= o
        From[a \in z[1] .. z[2]] ==
            IF a = z[2] THEN {} ELSE {<<a, Largest(a)>>} \union From[a + 2^Largest(a)]
    IN From[z[1]]

Roots == UNION {Cut(z) : z \in Zones}            \* <<first page, order>>

\* A system with less memory hangs in mm_map_init.
ASSUME BootAssumption == \E r \in Roots : r[2] >= TblShift

Boot ==
    [page  |-> [p \in Page |->
                  IF \E o \in Ord : <<p, o>> \in Roots
                  THEN [ord |-> CHOOSE o \in Ord : <<p, o>> \in Roots,
                        buddyId |-> 1, attr |-> {"HeadPage"}]
                  ELSE [ord |-> 0, buddyId |-> 0, attr |-> {}]],
     bit   |-> {},
     free  |-> [o \in Ord |-> Ascending({p \in Page : <<p, o>> \in Roots})],
     usage |-> 0]

\* _initCache: a group of NrTblCache tables, and its descriptor is marked
Restock(m) == [Take(m, TblShift) EXCEPT !.page[Found(m, TblShift)].attr = @ \union {"Allocated"}]

Init ==
    LET m == Restock(Boot) IN
    /\ page = m.page
    /\ revBit = m.bit
    /\ freeLst = m.free
    /\ totUsage = m.usage
    /\ tblGrpCache = <<Found(Boot, TblShift)>>
    /\ nrTbl = NrTblCache
    /\ held = {}
    /\ tables = {}
    /\ mine = [c \in CPU |-> None]
    /\ hung = [l \in Locks |-> None]

-----------------------------------------------------------------------------
\* CPU c is outside of the allocator, and can get lock l
Enter(c, l) == mine[c] = None /\ hung[l] = None /\ c \notin Range(hung)

\* mm_allocPages up to the unlock
Alloc(c, k) ==
    /\ Enter(c, "buddy")
    /\ Fits(Mem, k) # {}
    /\ Becomes(Take(Mem, k))
    /\ held' = held \union {Found(Mem, k)}
    /\ mine' = [mine EXCEPT ![c] = Found(Mem, k)]
    /\ UNCHANGED <<tblGrpCache, nrTbl, tables, hung>>

\* No free group is large enough, or k exceeds mm_buddy_mxOrd: c stays in the
\* "while (1)" of mm_allocPages, with _buddyLck and interrupts masked.
AllocHang(c, k) ==
    /\ Enter(c, "buddy")
    /\ Fits(Mem, k) = {}
    /\ hung' = [hung EXCEPT !["buddy"] = c]
    /\ UNCHANGED <<buddyVars, tblGrpCache, nrTbl, held, tables, mine>>

\* After the unlock of mm_allocPages or mm_map_allocTbl: the attributes
Mark(c) ==
    LET p == mine[c] IN
    /\ p # None
    /\ page' = [page EXCEPT ![p].attr =
                   @ \union IF p \in tables THEN {"MMU"} ELSE {"HeadPage", "Allocated"}]
    /\ mine' = [mine EXCEPT ![c] = None]
    /\ UNCHANGED <<revBit, freeLst, totUsage, tblGrpCache, nrTbl, held, tables, hung>>

\* mm_freePages; its check of the attributes passes for a marked group
Free(c, p) ==
    /\ Enter(c, "buddy")
    /\ {"HeadPage", "Allocated"} \subseteq page[p].attr
    /\ Becomes(Give(Mem, p))
    /\ held' = held \ {p}
    /\ UNCHANGED <<tblGrpCache, nrTbl, tables, mine, hung>>

\* The loop of mm_map_allocTbl that cuts the stock's last group down to a
\* page: the right half of every cut goes on top of the left one.
CutTop(pg, stack) ==
    LET top == Last(stack)
        Turn[o \in 0 .. pg[top].ord] ==
            IF o = pg[top].ord THEN [page |-> pg, stack |-> stack]
            ELSE LET s == Turn[o + 1] IN
                 [page  |-> DivPageGrp(s.page, Last(s.stack)),
                  stack |-> Append(s.stack, Right(s.page, Last(s.stack)))]
    IN Turn[0]

\* mm_map_allocTbl up to the unlock: an empty stock is filled by _initCache
AllocTbl(c) ==
    LET empty == nrTbl = 0
        m     == IF empty THEN Restock(Mem) ELSE Mem
        cut   == CutTop(m.page, IF empty THEN <<Found(Mem, TblShift)>> ELSE tblGrpCache) IN
    /\ Enter(c, "cache")
    /\ empty => hung["buddy"] = None /\ Fits(Mem, TblShift) # {}
    /\ Becomes([m EXCEPT !.page = cut.page])
    /\ tblGrpCache' = Front(cut.stack)
    /\ nrTbl' = (IF empty THEN NrTblCache ELSE nrTbl) - 1
    /\ tables' = tables \union {Last(cut.stack)}
    /\ mine' = [mine EXCEPT ![c] = Last(cut.stack)]
    /\ UNCHANGED <<held, hung>>

\* _initCache finds no group, or waits for a lock that is never released
AllocTblHang(c) ==
    /\ Enter(c, "cache")
    /\ nrTbl = 0
    /\ hung["buddy"] # None \/ Fits(Mem, TblShift) = {}
    /\ hung' = [l \in Locks |-> IF hung[l] = None THEN c ELSE hung[l]]
    /\ UNCHANGED <<buddyVars, tblGrpCache, nrTbl, held, tables, mine>>

\* Mutant: the stock takes one table more.
StockOver == nrTbl > NrTblCache
StockFull == nrTbl >= NrTblCache

\* mm_map_freeTbl: the table goes back to the stock; when that is full, the
\* table is a group that the caller frees with mm_freePages, after the unlock.
FreeTbl(c, p) ==
    /\ Enter(c, "cache")
    /\ {"MMU", "HeadPage"} \subseteq page[p].attr
    /\ tables' = tables \ {p}
    /\ IF StockFull
       THEN /\ held' = held \union {p}
            /\ UNCHANGED <<page, tblGrpCache, nrTbl>>
       ELSE /\ tblGrpCache' = Append(tblGrpCache, p)
            /\ nrTbl' = nrTbl + 1
            /\ page' = [page EXCEPT ![p].attr = SymDiff(@, {"MMU"})]
            /\ UNCHANGED held
    /\ UNCHANGED <<revBit, freeLst, totUsage, mine, hung>>

Marked(S) == {p \in S : \A c \in CPU : mine[c] # p}

Next ==
    \E c \in CPU :
        \/ \E k \in Sizes : Alloc(c, k) \/ AllocHang(c, k)
        \/ Mark(c)
        \/ \E p \in Marked(held) : Free(c, p)
        \/ AllocTbl(c)
        \/ AllocTblHang(c)
        \/ \E p \in Marked(tables) : FreeTbl(c, p)

Spec == Init /\ [][Next]_vars

-----------------------------------------------------------------------------
TypeOK ==
    /\ page \in [Page -> Desc]
    /\ revBit \subseteq (1 .. MaxOrd) \X Nat
    /\ freeLst \in [Ord -> Seq(Page)]
    /\ totUsage \in Nat
    /\ tblGrpCache \in Seq(Page)
    /\ nrTbl \in Nat
    /\ held \subseteq Page
    /\ tables \subseteq Page
    /\ mine \in [CPU -> Page \union {None}]
    /\ hung \in [Locks -> CPU \union {None}]

Block(a, o) == a .. a + 2^o - 1
Group(p) == Block(p, page[p].ord)
FreeGroups == UNION {ToSet(freeLst[o]) : o \in Ord}
Taken == held \union tables \union ToSet(tblGrpCache)

(***************************************************************************)
(* Every page is in exactly one group, and that group is on the free list  *)
(* of its order, or in the stock, or with one caller: no page is lost and  *)
(* none has two owners (mm_allocPages, mm_freePages, mm_map_allocTbl).     *)
(***************************************************************************)
Partition ==
    /\ \A q \in Page : Cardinality({p \in FreeGroups \union Taken : q \in Group(p)}) = 1
    /\ Cardinality(FreeGroups) + Len(tblGrpCache) + Cardinality(held) + Cardinality(tables)
         = Cardinality(FreeGroups \union Taken)
    /\ \A o \in Ord : /\ \A p \in ToSet(freeLst[o]) : page[p].ord = o
                      /\ IsInjective(freeLst[o])

(***************************************************************************)
(* A set bit of _buddy.revBit means that exactly one half of the pair is   *)
(* on the free list of its order, a clear bit that neither is.             *)
(* mm_freePages reads a bit that its reversal cleared as leave to merge.   *)
(***************************************************************************)
PairBits ==
    \A p \in FreeGroups \union Taken :
        page[p].buddyId # 1 =>
            LET b == GetBuddy(Mem, p)
                o == page[p].ord IN
            /\ ~(p \in ToSet(freeLst[o]) /\ b \in ToSet(freeLst[o]))
            /\ Pair(Mem, p) \in revBit <=> {p, b} \intersect ToSet(freeLst[o]) # {}

(***************************************************************************)
(* Free memory is coalesced: an aligned block of a boot group that has no  *)
(* page with a caller or in the stock lies in one free group, so a request *)
(* ends in "while (1)" only when no block of its size is free.             *)
(***************************************************************************)
Coalesced ==
    \A r \in Roots : \A o \in 0 .. r[2] : \A i \in 0 .. 2^(r[2] - o) - 1 :
        LET B == Block(r[1] + i * 2^o, o) IN
        (\A p \in Taken : Group(p) \intersect B = {})
            => \E p \in FreeGroups : B \subseteq Group(p)

(***************************************************************************)
(* The counters agree with what they count: _buddy.totUsage with the pages *)
(* that are not on free lists, _nrTbl with the pages in the stock, which   *)
(* is never more than nrTblCache tables and fits its array.                *)
(***************************************************************************)
Accounts ==
    LET Pages(S) == Cardinality(UNION {Group(p) : p \in S}) IN
    /\ totUsage = Pages(Taken)
    /\ nrTbl = Pages(ToSet(tblGrpCache))
    /\ nrTbl <= NrTblCache
    /\ Len(tblGrpCache) <= 2 * NrTblCache

(***************************************************************************)
(* Callers see the abstract allocator: what they hold are aligned groups   *)
(* that do not overlap and keep their order until they are freed.          *)
(***************************************************************************)
Promise == INSTANCE PageAllocator WITH
               held <- {[page |-> p, ord |-> page[p].ord] : p \in held \union tables}
Allocates == Promise!Spec
=============================================================================
