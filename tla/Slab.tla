-------------------------------- MODULE Slab --------------------------------
(***************************************************************************)
(* The object allocator of mm/slab.c: blocks of equal columns, one 2 MB    *)
(* page each, with a bitmap; counters of the block and of its size class;  *)
(* the tree of records of a process' private objects.                      *)
(*                                                                         *)
(* Two classes stand for the sixteen.  A "small" one (32 to 512 bytes) has *)
(* the structure of a block at the end of the block's own page; the        *)
(* structure of a "large" block is itself a small object.  The structures  *)
(* of the blocks made at boot (page in Boot) lie outside of the heap.      *)
(* mm_allocPages never returns NULL, it stays in a loop (see Buddy), so    *)
(* that the error paths of this file are not reached; what is reached is   *)
(* that loop, with _SlabLck held.                                          *)
(***************************************************************************)
EXTENDS List, Functions, FiniteSetsExt

CONSTANTS
    Caller,         \* threads of one process
    Page,           \* 2 MB pages, a finite set of numbers
    Boot,           \* class -> its page at boot
    BootCols,       \* class -> columns of its block at boot
    PageCols,       \* class -> columns of its other blocks
    MaxShared,      \* bound: class -> shared objects at a time
    MaxPrivate      \* bound: private objects at a time

Class == {"small", "large"}

\* The classes begin with a block each; a structure at the end of its page
\* takes less than half of it.
ASSUME SlabAssumption ==
    /\ IsFiniteSet(Page) /\ Page \subseteq Nat
    /\ Boot \in [Class -> Page] /\ Boot["small"] # Boot["large"]
    /\ BootCols \in [Class -> Nat \ {0}] /\ PageCols \in [Class -> Nat \ {0}]
    /\ \A c \in Class : PageCols[c] <= BootCols[c] /\ BootCols[c] <= 2 * PageCols[c]

VARIABLES
    heap,           \* _slab[] and the blocks, under _SlabLck
    shared,         \* objects that callers hold with mm_Attr_Shared
    slabRecord,     \* private object -> its record, the tree of the process
    op,             \* thread -> point it has reached inside an operation
    clear,          \* mm_slab_clear: it runs, and the record it removes
    hung            \* a thread is in the loop of mm_allocPages

slabVars == <<heap, shared, slabRecord, op, clear, hung>>

Cols(c) == {BootCols[c], PageCols[c]}
Object == Page \X (0 .. Max(UNION {Cols(c) : c \in Class}) - 1)
NoObj == <<>>

NewBlk(n, s) == [cols |-> n, map |-> {}, using |-> 0, free |-> n, struct |-> s]

BootHeap ==
    [pages |-> Page \ Range(Boot),
     list  |-> [c \in Class |-> <<Boot[c]>>],
     blk   |-> [p \in Range(Boot) |-> NewBlk(BootCols[CHOOSE c \in Class : Boot[c] = p], NoObj)],
     using |-> [c \in Class |-> 0],
     free  |-> [c \in Class |-> BootCols[c]]]

SlabInit ==
    /\ heap = BootHeap
    /\ shared = {}
    /\ slabRecord = <<>>
    /\ op = [t \in Caller |-> [at |-> "out", obj |-> NoObj, rec |-> NoObj]]
    /\ clear = [on |-> FALSE, rec |-> NoObj]
    /\ hung = FALSE

-----------------------------------------------------------------------------
\* The end of _kmalloc: the first clear bit of the class' first block
TakeColumn(h, c) ==
    LET p == Head(h.list[c])
        j == Min((0 .. h.blk[p].cols - 1) \ h.blk[p].map) IN
    [heap |-> [h EXCEPT !.blk[p] = [h.blk[p] EXCEPT !.map = @ \union {j}, !.using = @ + 1, !.free = @ - 1],
                        !.using[c] = @ + 1, !.free[c] = @ - 1],
     obj |-> <<p, j>>]

\* The block with a free column goes to the front
ToFront(h, c) ==
    LET i == Min({k \in DOMAIN h.list[c] : h.blk[h.list[c][k]].free > 0})
        p == h.list[c][i] IN
    [h EXCEPT !.list[c] = <<p>> \o List_del(@, p)]

\* _newSlabBlk, the structure being at s
AddBlk(h, c, p, s) ==
    [h EXCEPT !.pages = @ \ {p},
              !.list[c] = <<p>> \o @,
              !.blk = [q \in DOMAIN h.blk \union {p} |-> IF q = p THEN NewBlk(PageCols[c], s) ELSE h.blk[q]],
              !.free[c] = @ + PageCols[c]]

\* _kmalloc for a small object
Small(h) ==
    TakeColumn(IF h.free["small"] > 0 THEN ToFront(h, "small")
               ELSE AddBlk(h, "small", Min(h.pages), NoObj), "small")

\* _kmalloc.  A new large block takes its page before the memory for its
\* structure, which a nested _kmalloc may take from another new page.
Kmalloc(h, c) ==
    IF c = "small" THEN Small(h)
    ELSE IF h.free[c] > 0 THEN TakeColumn(ToFront(h, c), c)
    ELSE LET p == Min(h.pages)
             s == Small([h EXCEPT !.pages = @ \ {p}]) IN
         TakeColumn(AddBlk(s.heap, c, p, s.obj), c)

\* Pages that Kmalloc needs
Needs(h, c) ==
    IF h.free[c] > 0 THEN 0
    ELSE IF c = "large" /\ h.free["small"] = 0 THEN 2 ELSE 1

\* Mutant: a block that is full of free columns stays until the class has
\* twice as many again.
SparesMany(h, c, p) == h.free[c] >= (h.blk[p].cols * 5) \div 2
Spares(h, c, p) == h.free[c] >= (h.blk[p].cols * 3) \div 2

\* Mutant: the columns of the returned block stay counted as free.
DropBlkOnly(h, c, p) ==
    [h EXCEPT !.pages = @ \union {p}, !.list[c] = List_del(@, p), !.blk = Restrict(@, DOMAIN h.blk \ {p})]
\* _freeSlabBlk, the page and the counters
DropBlk(h, c, p) ==
    [h EXCEPT !.pages = @ \union {p}, !.list[c] = List_del(@, p), !.blk = Restrict(@, DOMAIN h.blk \ {p}),
              !.free[c] = @ - h.blk[p].free]

\* _kfree of a column, and the block when the class can spare it
PutColumn(h, c, o) ==
    LET p == o[1]
        n == [h EXCEPT !.blk[p] = [h.blk[p] EXCEPT !.map = @ \ {o[2]}, !.using = @ - 1, !.free = @ + 1],
                       !.using[c] = @ - 1, !.free[c] = @ + 1] IN
    IF n.blk[p].using = 0 /\ Spares(n, c, p) /\ Len(n.list[c]) > 1
    THEN DropBlk(n, c, p) ELSE n

ClassOf(h, o) == CHOOSE c \in Class : o[1] \in ToSet(h.list[c])

\* Mutant: the structure of a returned large block is not freed.
KfreeNoStruct(h, o) == PutColumn(h, ClassOf(h, o), o)
\* _kfree.  For a large block of boot the nested _kfree fails: its structure
\* is in no block.
Kfree(h, o) ==
    LET c == ClassOf(h, o)
        n == PutColumn(h, c, o)
        s == h.blk[o[1]].struct IN
    IF c = "large" /\ o[1] \notin DOMAIN n.blk /\ s # NoObj THEN PutColumn(n, "small", s) ELSE n

-----------------------------------------------------------------------------
OpAt(t, s) == op[t].at = s
OpGoto(t, s, o, r) == op' = [op EXCEPT ![t] = [at |-> s, obj |-> o, rec |-> r]]

\* mm_kmalloc of a shared object
AllocShared(t, c) ==
    /\ OpAt(t, "out") /\ ~hung /\ Needs(heap, c) <= Cardinality(heap.pages)
    /\ Cardinality({o \in shared : ClassOf(heap, o) = c}) < MaxShared[c]
    /\ heap' = Kmalloc(heap, c).heap
    /\ shared' = shared \union {Kmalloc(heap, c).obj}
    /\ UNCHANGED <<slabRecord, op, clear, hung>>

\* mm_kfree of a shared object
FreeShared(t, o) ==
    /\ OpAt(t, "out") /\ ~hung
    /\ heap' = Kfree(heap, o)
    /\ shared' = shared \ {o}
    /\ UNCHANGED <<slabRecord, op, clear, hung>>

\* mm_kmalloc of a private object: the object, its record, and the record's
\* insertion, each under its own lock.
AllocPrivate(t) ==
    LET k == Small(heap) IN
    /\ OpAt(t, "out") /\ ~clear.on /\ ~hung /\ Needs(heap, "small") <= Cardinality(heap.pages)
    /\ Cardinality((DOMAIN slabRecord \union {op[u].obj : u \in Caller}) \ {NoObj}) < MaxPrivate
    /\ heap' = k.heap
    /\ OpGoto(t, "addRecord", k.obj, NoObj)
    /\ UNCHANGED <<shared, slabRecord, clear, hung>>

AllocRecord(t) ==
    LET k == Small(heap) IN
    /\ OpAt(t, "addRecord") /\ ~hung /\ Needs(heap, "small") <= Cardinality(heap.pages)
    /\ heap' = k.heap
    /\ OpGoto(t, "insRecord", op[t].obj, k.obj)
    /\ UNCHANGED <<shared, slabRecord, clear, hung>>

\* A walk of the unlocked tree that another thread's insertion or deletion
\* overtakes may miss its node.
Overtake(t, o, r) ==
    op' = [u \in Caller |-> CASE u = t -> [at |-> IF r = NoObj THEN "out" ELSE "freeRecord", obj |-> o, rec |-> r]
                              [] u # t /\ OpAt(u, "walk") -> [op[u] EXCEPT !.at = "overtaken"]
                              [] OTHER -> op[u]]

InsRecord(t) ==
    /\ OpAt(t, "insRecord")
    /\ slabRecord' = [o \in DOMAIN slabRecord \union {op[t].obj} |->
                       IF o = op[t].obj THEN op[t].rec ELSE slabRecord[o]]
    /\ Overtake(t, NoObj, NoObj)
    /\ UNCHANGED <<heap, shared, clear, hung>>

\* mm_kfree of a private object: _delRecord walks the tree without its lock
Walk(t, o) ==
    /\ OpAt(t, "out") /\ ~clear.on
    /\ \A u \in Caller : op[u].obj # o
    /\ OpGoto(t, "walk", o, NoObj)
    /\ UNCHANGED <<heap, shared, slabRecord, clear, hung>>

\* "failed to find record": the object stays until the process ends
Missed(t) ==
    /\ OpAt(t, "overtaken")
    /\ OpGoto(t, "out", NoObj, NoObj)
    /\ UNCHANGED <<heap, shared, slabRecord, clear, hung>>

DelRecord(t) ==
    /\ OpAt(t, "walk") \/ OpAt(t, "overtaken")
    /\ slabRecord' = Restrict(slabRecord, DOMAIN slabRecord \ {op[t].obj})
    /\ Overtake(t, op[t].obj, slabRecord[op[t].obj])
    /\ UNCHANGED <<heap, shared, clear, hung>>

FreeRecord(t) ==
    /\ OpAt(t, "freeRecord") /\ ~hung
    /\ heap' = Kfree(heap, op[t].rec)
    /\ OpGoto(t, "freeObject", op[t].obj, NoObj)
    /\ UNCHANGED <<shared, slabRecord, clear, hung>>

FreeObject(t) ==
    /\ OpAt(t, "freeObject") /\ ~hung
    /\ heap' = Kfree(heap, op[t].obj)
    /\ OpGoto(t, "out", NoObj, NoObj)
    /\ UNCHANGED <<shared, slabRecord, clear, hung>>

\* mm_slab_clear, when no thread of the process is left: its three steps for
\* every record.
StartClear ==
    /\ ~clear.on /\ \A t \in Caller : OpAt(t, "out")
    /\ clear' = [on |-> TRUE, rec |-> NoObj]
    /\ UNCHANGED <<heap, shared, slabRecord, op, hung>>

ClearObject(o) ==
    /\ clear = [on |-> TRUE, rec |-> NoObj] /\ ~hung
    /\ clear' = [clear EXCEPT !.rec = slabRecord[o]]
    /\ slabRecord' = Restrict(slabRecord, DOMAIN slabRecord \ {o})
    /\ heap' = Kfree(heap, o)
    /\ UNCHANGED <<shared, op, hung>>

ClearRecord ==
    /\ clear.rec # NoObj /\ ~hung
    /\ heap' = Kfree(heap, clear.rec)
    /\ clear' = [clear EXCEPT !.rec = NoObj]
    /\ UNCHANGED <<shared, slabRecord, op, hung>>

\* No page is left for _newSlabBlk: the caller keeps _SlabLck for ever
Hang(t) ==
    /\ ~hung
    /\ \/ OpAt(t, "out") /\ \E c \in Class : Needs(heap, c) > Cardinality(heap.pages)
       \/ OpAt(t, "addRecord") /\ Needs(heap, "small") > Cardinality(heap.pages)
    /\ hung' = TRUE
    /\ UNCHANGED <<heap, shared, slabRecord, op, clear>>

SlabNext ==
    \/ \E t \in Caller :
        \/ \E c \in Class : AllocShared(t, c)
        \/ AllocPrivate(t)
        \/ \E o \in shared : FreeShared(t, o)
        \/ AllocRecord(t) \/ InsRecord(t)
        \/ \E o \in DOMAIN slabRecord : Walk(t, o)
        \/ Missed(t) \/ DelRecord(t) \/ FreeRecord(t) \/ FreeObject(t)
        \/ Hang(t)
    \/ StartClear
    \/ \E o \in DOMAIN slabRecord : ClearObject(o)
    \/ ClearRecord

SlabSpec == SlabInit /\ [][SlabNext]_slabVars

-----------------------------------------------------------------------------
Blocks == DOMAIN heap.blk
UsedCols(h, c) == {o \in Object : o[1] \in ToSet(h.list[c]) /\ o[2] \in h.blk[o[1]].map}
FreeCols(h, c) ==
    {o \in Object : o[1] \in ToSet(h.list[c]) /\ o[2] \in (0 .. h.blk[o[1]].cols - 1) \ h.blk[o[1]].map}

SlabTypeOK ==
    /\ heap.pages \subseteq Page /\ heap.pages = Page \ Blocks
    /\ heap.list \in [Class -> Seq(Page)]
    /\ \A p \in Blocks : heap.blk[p].map \subseteq 0 .. heap.blk[p].cols - 1
    /\ shared \subseteq Object
    /\ DOMAIN slabRecord \subseteq Object /\ Range(slabRecord) \subseteq Object
    /\ op \in [Caller -> [at : {"out", "addRecord", "insRecord", "walk", "overtaken", "freeRecord", "freeObject"},
                          obj : Object \union {NoObj}, rec : Object \union {NoObj}]]
    /\ clear \in [on : BOOLEAN, rec : Object \union {NoObj}]
    /\ hung \in BOOLEAN

(***************************************************************************)
(* The counters of a block count its bits, those of a class the columns of *)
(* its blocks: _kmalloc, which trusts slab.freeCnt, always finds a block,  *)
(* and never comes to the "while (1)" at its end.                          *)
(***************************************************************************)
Counters ==
    /\ \A p \in Blocks : LET b == heap.blk[p] IN
            b.using = Cardinality(b.map) /\ b.using + b.free = b.cols
    /\ \A c \in Class :
            heap.free[c] = Cardinality(FreeCols(heap, c)) /\ heap.using[c] = Cardinality(UsedCols(heap, c))

(***************************************************************************)
(* Every column in use has one owner: a caller's shared object, a private  *)
(* object or its record (in the tree or on the way of a thread), or the    *)
(* structure of a large block.  Nothing is handed out twice or lost, also  *)
(* when walks of the record tree miss, and nothing of a process is left    *)
(* when mm_slab_clear is through.                                          *)
(***************************************************************************)
Owned ==
    LET used    == {o \in Object : o[1] \in Blocks /\ o[2] \in heap.blk[o[1]].map}
        structs == {heap.blk[p].struct : p \in Blocks} \ {NoObj}
        holding == {t \in Caller : ~(OpAt(t, "walk") \/ OpAt(t, "overtaken"))}
        way     == ((UNION {{op[t].obj, op[t].rec} : t \in holding}) \union {clear.rec}) \ {NoObj}
        tree    == DOMAIN slabRecord \union Range(slabRecord) IN
    /\ used = shared \union tree \union way \union structs
    /\ Cardinality(used) = Cardinality(shared) + 2 * Cardinality(DOMAIN slabRecord)
                             + Cardinality(way) + Cardinality(structs)

(***************************************************************************)
(* Hoarding is bounded: of the blocks of a class at most one is empty, and *)
(* a class keeps one block, whatever the order in which objects and        *)
(* structures of blocks come back (the test with colCnt * 3 / 2).          *)
(***************************************************************************)
OneSpare ==
    \A c \in Class :
        /\ heap.list[c] # <<>> /\ IsInjective(heap.list[c])
        /\ Cardinality({p \in ToSet(heap.list[c]) : heap.blk[p].map = {}}) <= 1
=============================================================================
