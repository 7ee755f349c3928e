--------------------------- MODULE PageAllocator ---------------------------
(***************************************************************************)
(* What the page allocator promises to its callers (page faults, the slab  *)
(* allocator, page tables): a group of 2^ord pages, aligned to its size,   *)
(* inside of the memory given to the allocator, that overlaps no group     *)
(* somebody else holds, until its holder frees it.                         *)
(***************************************************************************)
EXTENDS Integers

CONSTANTS Page,       \* the page frames given to the allocator
          MaxOrd      \* mm_buddy_mxOrd

VARIABLE held         \* the groups that callers hold

Group == [page : Page, ord : 0 .. MaxOrd]
Pages(g) == g.page .. g.page + 2^g.ord - 1

Init == held = {}

Alloc(g) ==
    /\ Pages(g) \subseteq Page
    /\ g.page % 2^g.ord = 0
    /\ \A h \in held : Pages(g) \intersect Pages(h) = {}
    /\ held' = held \union {g}

Free(g) == g \in held /\ held' = held \ {g}

Next == \E g \in Group : Alloc(g) \/ Free(g)

Spec == Init /\ [][Next]_held
=============================================================================
