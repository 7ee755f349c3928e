------------------------------ MODULE FatEntry ------------------------------
(***************************************************************************)
(* The directory entries of a FAT32 partition that are kept in memory, and *)
(* the counter that keeps them: path lookup, open files and directories    *)
(* and the end of a process (fs/vfs/api.c, fs/fat32/api.c).  What runs     *)
(* under the lock of entryTr is one action.                                *)
(***************************************************************************)
EXTENDS Integers, Sequences, SequencesExt, FiniteSets, List

CONSTANTS
    Walker,         \* threads
    EntNode,        \* memory for entries; root is one of them
    Root,
    Kids,           \* path of a directory -> the paths in it
    Top,            \* the path of the root
    Slot,           \* open files and directories
    MaxFreeEnt,     \* fs_fat32_FreeEntryCache_MaxNum
    NoEnt

ASSUME EntryAssumption ==
    /\ IsFiniteSet(Walker) /\ IsFiniteSet(Slot) /\ MaxFreeEnt \in Nat
    /\ Root \in EntNode /\ EntNode \intersect Slot = {}
    /\ NoEnt \notin EntNode \union Slot \union Walker

VARIABLES
    ent,            \* the entries in entryTr: [path, ref]
    freeEntryLst,   \* those without a reference
    freeEntryNum,
    thd,            \* thread -> its point, the entry it walks from, the next one
    open,           \* slot -> its entry and state; of a directory, curEnt, the
                    \* entry that has a reference for it, the lock, the end
    miscount        \* a reference was lost, or given back twice

entVars == <<ent, freeEntryLst, freeEntryNum, thd, open, miscount>>

IsDir(p) == p \in DOMAIN Kids

Outside == [at |-> "out", cur |-> NoEnt, nxt |-> NoEnt, path |-> Top, seen |-> 0, dir |-> NoEnt]
Closed == [ent |-> NoEnt, curEnt |-> NoEnt, held |-> NoEnt, lck |-> FALSE, end |-> FALSE, st |-> "none"]

EntInit ==
    /\ ent = [n \in {Root} |-> [path |-> Top, ref |-> 1]]
    /\ freeEntryLst = <<>>
    /\ freeEntryNum = 0
    /\ thd = [t \in Walker |-> Outside]
    /\ open = [s \in Slot |-> Closed]
    /\ miscount = FALSE

Moves(t, r) == thd' = [thd EXCEPT ![t] = r]

-----------------------------------------------------------------------------
(***************************************************************************)
(* The cache of entries, under its lock.                                   *)
(***************************************************************************)
\* ref++ of a cached entry; _findEntryCache takes it off the free list.
Ref(n) == ent' = [ent EXCEPT ![n].ref = @ + 1]

\* Mutant: a found entry stays on the free list.
StillFree(n) == FALSE
OffFree(n) == ent[n].ref = 0

Find(n) ==
    /\ Ref(n)
    /\ freeEntryLst' = IF OffFree(n) THEN List_del(freeEntryLst, n) ELSE freeEntryLst
    /\ freeEntryNum' = IF OffFree(n) THEN freeEntryNum - 1 ELSE freeEntryNum

\* _allocEntry and _insNewEntryCache.
InsNew(n, p) ==
    /\ n \in EntNode \ DOMAIN ent
    /\ ent' = [m \in DOMAIN ent \union {n} |-> IF m = n THEN [path |-> p, ref |-> 1] ELSE ent[m]]
    /\ UNCHANGED <<freeEntryLst, freeEntryNum>>

\* fs_fat32_releaseEntry: the last reference puts the entry on the free list,
\* and frees the head of a list that is full.
ReleaseEntry(n) ==
    LET lst   == Append(freeEntryLst, n)
        evict == freeEntryNum = MaxFreeEnt
        dec   == [ent EXCEPT ![n].ref = @ - 1] IN
    IF ent[n].ref # 1 THEN ent' = dec /\ UNCHANGED <<freeEntryLst, freeEntryNum>>
    ELSE /\ ent' = [m \in DOMAIN ent \ (IF evict THEN {Head(lst)} ELSE {}) |-> dec[m]]
         /\ freeEntryLst' = IF evict THEN Tail(lst) ELSE lst
         /\ freeEntryNum' = IF evict THEN freeEntryNum ELSE freeEntryNum + 1

-----------------------------------------------------------------------------
(***************************************************************************)
(* fs_vfs_lookup.                                                          *)
(***************************************************************************)
\* fs_fat32_getRootEntry takes no lock: it reads ref, and writes it.
ReadRoot(t) ==
    /\ thd[t].at = "out"
    /\ Moves(t, [Outside EXCEPT !.at = "root", !.seen = ent[Root].ref])
    /\ UNCHANGED <<ent, freeEntryLst, freeEntryNum, open, miscount>>

WriteRoot(t) ==
    /\ thd[t].at = "root"
    /\ ent' = [ent EXCEPT ![Root].ref = thd[t].seen + 1]
    /\ miscount' = (ent[Root].ref # thd[t].seen)
    /\ Moves(t, [Outside EXCEPT !.at = "held", !.cur = Root])
    /\ UNCHANGED <<freeEntryLst, freeEntryNum, open>>

\* fs_fat32_lookup of p in the directory the thread holds: it is found in the
\* cache, or not, although it may be there (the comparison of entries compares
\* an entry with itself, so the tree is not sorted by path), or has no entry on
\* the disk.
Walks(t, p) == thd[t].at = "held" /\ IsDir(ent[thd[t].cur].path) /\ p \in Kids[ent[thd[t].cur].path]

LookupHit(t, p) ==
    \E n \in DOMAIN ent :
        /\ Walks(t, p) /\ ent[n].path = p
        /\ Find(n)
        /\ Moves(t, [thd[t] EXCEPT !.at = "next", !.nxt = n])
        /\ UNCHANGED <<open, miscount>>

LookupMiss(t, p) ==
    /\ Walks(t, p)
    /\ Moves(t, [thd[t] EXCEPT !.at = "scan", !.path = p])
    /\ UNCHANGED <<ent, freeEntryLst, freeEntryNum, open, miscount>>

LookupNew(t) ==
    \E n \in EntNode :
        /\ thd[t].at = "scan"
        /\ InsNew(n, thd[t].path)
        /\ Moves(t, [thd[t] EXCEPT !.at = "next", !.nxt = n])
        /\ UNCHANGED <<open, miscount>>

Step(t) ==
    /\ thd[t].at = "next"
    /\ ReleaseEntry(thd[t].cur)
    /\ Moves(t, [Outside EXCEPT !.at = "held", !.cur = thd[t].nxt])
    /\ UNCHANGED <<open, miscount>>

\* The release of an entry: a lookup that fails, fs_vfs_releaseEnt by the
\* caller, and the end of fs_vfs_openFile and fs_vfs_openDir.
GiveUp(t) ==
    /\ thd[t].at \in {"held", "scan", "opened"}
    /\ ReleaseEntry(thd[t].cur)
    /\ Moves(t, Outside)
    /\ UNCHANGED <<open, miscount>>

-----------------------------------------------------------------------------
(***************************************************************************)
(* Open files and directories.                                             *)
(***************************************************************************)
\* fs_fat32_openFile and fs_fat32_openDir take a reference of their own.
Open(t, s) ==
    /\ thd[t].at = "held" /\ open[s] = Closed
    /\ Ref(thd[t].cur)
    /\ open' = [open EXCEPT ![s] = [Closed EXCEPT !.ent = thd[t].cur, !.st = "open"]]
    /\ Moves(t, [thd[t] EXCEPT !.at = "opened"])
    /\ UNCHANGED <<freeEntryLst, freeEntryNum, miscount>>

\* Any thread of the process; a slot is closed when no call of it goes on.
Uses(t, s) == thd[t].at = "out" /\ open[s].st = "open"
Unused(s) == \A t \in Walker : thd[t].dir # s

\* fs_vfs_closeFile and fs_vfs_closeDir free the memory; the destructor does
\* not run, and the references stay.
Close(t, s) ==
    /\ Uses(t, s) /\ Unused(s)
    /\ open' = [open EXCEPT ![s].st = "leaked"]
    /\ UNCHANGED <<ent, freeEntryLst, freeEntryNum, thd, miscount>>

\* The destructors, at the end of the process: fs_fat32_closeFile, and
\* fs_fat32_closeDir, which waits for the lock and releases curEnt first.
ExitCur(s) ==
    /\ open[s].st = "open" /\ Unused(s) /\ ~open[s].lck
    /\ IF open[s].curEnt # NoEnt
       THEN ReleaseEntry(open[s].curEnt) ELSE UNCHANGED <<ent, freeEntryLst, freeEntryNum>>
    /\ open' = [open EXCEPT ![s].curEnt = NoEnt, ![s].held = NoEnt, ![s].st = "closing"]
    /\ UNCHANGED <<thd, miscount>>

Exit(s) ==
    /\ open[s].st = "closing"
    /\ ReleaseEntry(open[s].ent)
    /\ open' = [open EXCEPT ![s] = Closed]
    /\ UNCHANGED <<thd, miscount>>

\* fs_fat32_DirAPI_nxt takes the directory's lock; behind the end it returns
\* with it.
DirNxtEnd(t, s) ==
    /\ Uses(t, s) /\ IsDir(ent[open[s].ent].path)
    /\ ~open[s].lck /\ open[s].end
    /\ open' = [open EXCEPT ![s].lck = TRUE]
    /\ UNCHANGED <<ent, freeEntryLst, freeEntryNum, thd, miscount>>

\* The entry it returned last is released, and curEnt stays.  Between the
\* unlock and DirStore of a call another one may release it once more.
DirNxt(t, s) ==
    /\ Uses(t, s) /\ IsDir(ent[open[s].ent].path)
    /\ ~open[s].lck /\ ~open[s].end
    /\ IF open[s].held # NoEnt
       THEN ReleaseEntry(open[s].curEnt) ELSE UNCHANGED <<ent, freeEntryLst, freeEntryNum>>
    /\ miscount' = (open[s].curEnt # open[s].held)
    /\ open' = [open EXCEPT ![s].held = NoEnt, ![s].lck = TRUE]
    /\ Moves(t, [Outside EXCEPT !.at = "nxt", !.dir = s])

\* A next name is found, or there is none.
DirUnlock(t) ==
    LET s == thd[t].dir IN
    /\ thd[t].at = "nxt"
    /\ \/ /\ open' = [open EXCEPT ![s].lck = FALSE]
          /\ Moves(t, [thd[t] EXCEPT !.at = "found"])
       \/ /\ open' = [open EXCEPT ![s].lck = FALSE, ![s].end = TRUE]
          /\ Moves(t, [thd[t] EXCEPT !.at = "store"])
    /\ UNCHANGED <<ent, freeEntryLst, freeEntryNum, miscount>>

\* Its entry is found in the cache or made, and the lock is given back once
\* more, whoever has it.
DirNxtEnt(t) ==
    LET s == thd[t].dir IN
    /\ thd[t].at = "found"
    /\ \E n \in EntNode, p \in Kids[ent[open[s].ent].path] :
          /\ \/ n \in DOMAIN ent /\ ent[n].path = p /\ Find(n)
             \/ InsNew(n, p)
          /\ Moves(t, [thd[t] EXCEPT !.at = "store", !.nxt = n])
    /\ open' = [open EXCEPT ![s].lck = FALSE]
    /\ UNCHANGED miscount

DirStore(t) ==
    LET s == thd[t].dir
        n == thd[t].nxt IN
    /\ thd[t].at = "store"
    /\ open' = [open EXCEPT ![s].curEnt = n, ![s].held = n]
    /\ miscount' = (open[s].held # NoEnt)
    /\ Moves(t, Outside)
    /\ UNCHANGED <<ent, freeEntryLst, freeEntryNum>>

\* What follows a wrong count is left out: it is the use of freed memory.
EntNext ==
    /\ ~miscount
    /\ \/ \E t \in Walker :
             \/ ReadRoot(t) \/ WriteRoot(t) \/ LookupNew(t) \/ Step(t) \/ GiveUp(t)
             \/ DirUnlock(t) \/ DirNxtEnt(t) \/ DirStore(t)
             \/ \E p \in UNION {Kids[d] : d \in DOMAIN Kids} : LookupHit(t, p) \/ LookupMiss(t, p)
             \/ \E s \in Slot : Open(t, s) \/ Close(t, s) \/ DirNxtEnd(t, s) \/ DirNxt(t, s)
       \/ \E s \in Slot : ExitCur(s) \/ Exit(s)

EntSpec == EntInit /\ [][EntNext]_entVars

-----------------------------------------------------------------------------
Paths == {Top} \union UNION {Kids[d] : d \in DOMAIN Kids}

EntTypeOK ==
    /\ DOMAIN ent \subseteq EntNode
    /\ \A n \in DOMAIN ent : ent[n] \in [path : Paths, ref : Nat]
    /\ freeEntryLst \in Seq(EntNode) /\ freeEntryNum \in 0 .. MaxFreeEnt
    /\ \A t \in Walker : thd[t].at \in {"out", "root", "held", "scan", "next", "opened",
                                        "nxt", "found", "store"}
    /\ \A s \in Slot : open[s].st \in {"none", "open", "closing", "leaked"}
    /\ miscount \in BOOLEAN

Holds(n) ==
    (IF n = Root THEN 1 ELSE 0)
    + Cardinality({t \in Walker : thd[t].cur = n}) + Cardinality({t \in Walker : thd[t].nxt = n})
    + Cardinality({s \in Slot : open[s].ent = n}) + Cardinality({s \in Slot : open[s].held = n})

(***************************************************************************)
(* An entry that a walk, an open file or a directory holds is in memory    *)
(* and not free, however the lookups, releases and evictions of threads    *)
(* follow each other: ref counts who holds it, the free list has the       *)
(* entries nobody holds, once each, and as many as freeEntryNum says.      *)
(* Three things alone break it, and they happen (miscount): the root's     *)
(* unlocked increment; and of two calls of nxt that overlap on one         *)
(* directory, the second release of curEnt, or the store over one.         *)
(***************************************************************************)
EntryLive ==
    ~miscount =>
        /\ \A n \in EntNode : Holds(n) > 0 => n \in DOMAIN ent
        /\ \A n \in DOMAIN ent : ent[n].ref = Holds(n) /\ (Holds(n) = 0 <=> n \in ToSet(freeEntryLst))
        /\ ToSet(freeEntryLst) \subseteq DOMAIN ent /\ IsInjective(freeEntryLst)
        /\ Len(freeEntryLst) = freeEntryNum
=============================================================================
