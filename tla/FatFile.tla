------------------------------ MODULE FatFile -------------------------------
(***************************************************************************)
(* Open files of a FAT32 partition and the cached sectors of its FAT       *)
(* (fs/fat32/io.c, fs/fat32/api.c).  A file's lock is held by one read,    *)
(* write or seek from its beginning to its end; what runs under the lock   *)
(* of fatTr is one action, so files meet in the FAT.  The bytes themselves *)
(* are left out: a file is where its next byte is read or written; but a   *)
(* cluster that is none of the data area lies over sectors of the FAT, and *)
(* what is written there is followed.                                      *)
(***************************************************************************)
EXTENDS Integers, Sequences, SequencesExt, FiniteSets, FiniteSetsExt

CONSTANTS
    File,
    Secs,           \* fatSz32
    SecLen,         \* entries in a sector of the FAT
    MaxFat,         \* fs_fat32_FatCache_MaxNum
    Bpc,            \* bytesPerClus
    Chains,         \* file -> its clusters on the disk
    Used,           \* the clusters of everything else
    Seeks, Lens,    \* the places a file is moved to, the lengths written
    MaxSz,          \* bound on the pointer of a file when a call begins
    End,            \* ~0u
    Under,          \* sectors of FAT1 in front of the data area, where a
                    \* cluster below 2 lies: none behind a second FAT
    Data            \* what a sector holds that is none of the FAT, or was stale

VARIABLES
    disk,           \* sector -> its entries on the disk
    cache,          \* fatTr: the cached sectors' entries
    fatNum,
    fatLck,         \* allocClus left the lock of fatTr taken
    file, sz,       \* the files, and their entries' fileSz
    fat,            \* what the code has written in the FAT, where it is sound
    chain           \* each file's clusters, of those it gets the sound ones

fileVars == <<disk, cache, fatNum, fatLck, file, sz, fat, chain>>
fatVars == <<disk, cache, fatNum, fatLck, fat>>

Sec == 0 .. Secs - 1
Cluster == 0 .. Secs * SecLen - 1

\* The numbers a u32 can hold: sector Far stands for those behind the FAT, and
\* Lost is the last of all: ~0u, which is no End once an int has extended its
\* sign, but has its entry where End would have it.
Far == Secs
Number == 0 .. (Secs + 1) * SecLen - 1
Lost == (Secs + 1) * SecLen - 1

U32(c) == IF c = End THEN Lost ELSE c
Off(c) == U32(c) \div SecLen
Idx(c) == U32(c) % SecLen

Sound == {c \in Cluster : Off(c) \notin Under}

Sectors == [0 .. SecLen - 1 -> Number \union {End}]

ASSUME FatAssumption ==
    /\ {Secs, SecLen, Bpc} \subseteq Nat \ {0} /\ MaxFat \in Nat
    /\ Seeks \subseteq Nat /\ Lens \subseteq Nat
    /\ End \notin Number
    /\ Under \subseteq 1 .. Secs - 1 /\ Data \subseteq Sectors

\* Before the files grow, no cluster is in two places; two are reserved.
ASSUME ChainAssumption ==
    /\ {0, 1} \subseteq Used /\ Used \subseteq Cluster
    /\ Chains \in [File -> Seq(Cluster \ Used) \ {<<>>}]
    /\ \A f \in File : IsInjective(Chains[f])
    /\ \A f, g \in File : f # g => ToSet(Chains[f]) \intersect ToSet(Chains[g]) = {}

FilePoints == {"idle", "seek", "jump", "move", "alloc", "set", "zero", "copy", "fault"}

Follows(f, c) == \E i \in 1 .. Len(Chains[f]) - 1 : Chains[f][i] = c

OnDisk(c) ==
    IF c \in Used \/ \E f \in File : Last(Chains[f]) = c THEN End
    ELSE IF \E f \in File : Follows(f, c)
    THEN CHOOSE n \in Cluster : \E f \in File : \E i \in 1 .. Len(Chains[f]) - 1 :
                                    Chains[f][i] = c /\ Chains[f][i + 1] = n
    ELSE 0

\* fs_fat32_openFile.
Opened(f) == [clus |-> Head(Chains[f]), off |-> 0, cur |-> 0, ptr |-> 0,
              at |-> "idle", wr |-> FALSE, len |-> 0, nxt |-> 0, then |-> "copy"]

FileInit ==
    /\ disk = [o \in Sec |-> [i \in 0 .. SecLen - 1 |-> OnDisk(o * SecLen + i)]]
    /\ cache = <<>>
    /\ fatNum = 0
    /\ fatLck = FALSE
    /\ file = [f \in File |-> Opened(f)]
    /\ sz = [f \in File |-> Bpc * Len(Chains[f])]
    /\ fat = [c \in Sound |-> OnDisk(c)]
    /\ chain = Chains

-----------------------------------------------------------------------------
(***************************************************************************)
(* The FAT.  _crtFatCache as the caches, disks and counters it can leave:  *)
(* the sector it removes, the tree's root, is any (it depends on the order *)
(* of the insertions).  Without the sector asked for in the cache it       *)
(* returned NULL: sector Far may be behind the end of the disk.            *)
(***************************************************************************)
\* Mutant: what was changed in the removed sector is not written.
WrittenBackNot(o) == disk
WrittenBack(o) == [s \in Sec |-> IF s = o THEN cache[o] ELSE disk[s]]

\* Mutant: one sector too many.
FatFullLate == fatNum > MaxFat + 1
FatFull == fatNum > MaxFat

\* Sector off is read, besides the sectors that are kept.
Loads(off, kept, d, num) ==
    LET with(got, e) == [cache |-> [o \in kept \union got |-> IF o = off THEN e ELSE cache[o]],
                         disk |-> d, num |-> num] IN
    IF off = Far THEN {with({off}, e) : e \in Data} \union {with({}, <<>>)} ELSE {with({off}, d[off])}

\* With a full counter and no sector left the code has no root to remove.
CrtFatCache(off) ==
    IF off \in DOMAIN cache THEN {[cache |-> cache, disk |-> disk, num |-> fatNum]}
    ELSE IF FatFull
         THEN UNION {Loads(off, DOMAIN cache \ {o}, WrittenBack(o), fatNum) : o \in DOMAIN cache}
         ELSE Loads(off, DOMAIN cache, disk, fatNum + 1)

Leaves(s) == cache' = s.cache /\ disk' = s.disk /\ fatNum' = s.num

\* The entry at index i of sector off becomes v in what _crtFatCache left, if
\* the sector is there; ~0u is an end whoever reads it.
Store(s, off, i, v) ==
    LET e == IF v = Lost THEN End ELSE v IN
    IF off \notin DOMAIN s.cache THEN Leaves(s) /\ UNCHANGED fat
    ELSE /\ cache' = [s.cache EXCEPT ![off][i] = e]
         /\ disk' = s.disk /\ fatNum' = s.num
         /\ fat' = [c \in Sound |-> IF c = off * SecLen + i THEN e ELSE fat[c]]

\* fs_fat32_getNxtClus: nxt is the entry of cluster c.
GetNxtClus(c, nxt) ==
    IF c \in {End, Lost} THEN nxt = End /\ UNCHANGED fatVars
    ELSE \E s \in CrtFatCache(Off(c)) :
            /\ ~fatLck
            /\ nxt = IF Off(c) \in DOMAIN s.cache THEN s.cache[Off(c)][Idx(c)] ELSE End
            /\ Leaves(s)
            /\ UNCHANGED <<fatLck, fat>>

\* fs_fat32_setNxtClus writes the entry at a quarter of the index; nobody
\* looks at what it returns.
SetNxtClus(c, nxt) ==
    \E s \in CrtFatCache(Off(c)) :
        /\ ~fatLck
        /\ Store(s, Off(c), Idx(c) \div 4, nxt)
        /\ UNCHANGED fatLck

FreeCached == {c \in Number : Off(c) \in DOMAIN cache /\ cache[Off(c)][Idx(c)] = 0}
FreeOnDisk == {c \in Cluster : disk[Off(c)][Idx(c)] = 0}

\* Mutant: the cluster that was found is not marked.
TakeUnmarked(c) == UNCHANGED <<cache, disk, fatNum, fat>>
Take(c) == \E s \in CrtFatCache(Off(c)) : Store(s, Off(c), Idx(c), End)

\* fs_fat32_allocClus: the first free cluster of the cached sectors.
AllocCached(c) ==
    /\ ~fatLck /\ FreeCached # {} /\ c = Min(FreeCached)
    /\ Take(c)
    /\ UNCHANGED fatLck

\* Without one, the first that is free on the disk, where a cached sector is
\* older than in the cache; the lock stays taken.
AllocScan(c) ==
    /\ ~fatLck /\ FreeCached = {}
    /\ fatLck' = TRUE
    /\ IF FreeOnDisk = {}
       THEN c = 0 /\ UNCHANGED <<cache, disk, fatNum, fat>>
       ELSE c = Min(FreeOnDisk) /\ Take(c)

\* The use of a cluster below 2 or, sign-extended, below 0, as a cluster of
\* data (fs_fat32_getClusCacheNd knows only ~0u): the sectors there are read
\* into a node, and its release may write it back, changed or stale.
Outer == {0, 1} \union (Number \ Cluster)

Stray ==
    /\ \E over \in SUBSET Under : \E new \in [over -> Data] :
           disk' = [o \in Sec |-> IF o \in over THEN new[o] ELSE disk[o]]
    /\ UNCHANGED <<cache, fatNum, fatLck, fat>>

-----------------------------------------------------------------------------
(***************************************************************************)
(* The files.                                                              *)
(***************************************************************************)
Put(f, r) == file' = [file EXCEPT ![f] = r]

\* fs_fat32_FileAPI_read and _write up to _jmpToPtr, which lets a file that
\* is written grow to its pointer.
Start(f, len, wr) ==
    /\ file[f].at = "idle"
    /\ Put(f, [file[f] EXCEPT !.at = "jump", !.wr = wr, !.len = len])
    /\ sz' = [sz EXCEPT ![f] = IF wr THEN Max({@, file[f].ptr}) ELSE @]
    /\ UNCHANGED <<fatVars, chain>>

Read(f, len) == file[f].ptr <= MaxSz /\ Start(f, len, FALSE)
Write(f, len) == file[f].ptr <= MaxSz /\ Start(f, len, TRUE)

\* _jmpToPtr, a round of its loop: to the next cluster, or to the pointer;
\* the second leaves curClusOff alone.  The end of the chain is ~0u in an int.
Farest(r) == r.cur + (Bpc - r.off)

Jump(f) ==
    LET r == file[f] IN
    /\ r.at = "jump"
    /\ UNCHANGED <<sz, chain>>
    /\ \/ /\ r.cur < r.ptr /\ Farest(r) <= r.ptr
          /\ \E nxt \in Number \union {End} :
                /\ GetNxtClus(r.clus, nxt)
                /\ Put(f, IF nxt = End /\ r.wr
                          THEN [r EXCEPT !.at = "alloc", !.then = "jump"]
                          ELSE [r EXCEPT !.clus = IF nxt = End THEN Lost ELSE nxt,
                                         !.off = 0, !.cur = Farest(r)])
       \/ /\ r.cur < r.ptr /\ Farest(r) > r.ptr
          /\ Put(f, [r EXCEPT !.cur = r.ptr]) /\ UNCHANGED fatVars
       \/ /\ r.cur >= r.ptr
          /\ Put(f, [r EXCEPT !.at = "move"]) /\ UNCHANGED fatVars

\* The next cluster, when the last one is used up.
Move(f) ==
    LET r == file[f] IN
    /\ r.at = "move"
    /\ UNCHANGED <<sz, chain>>
    /\ IF r.off # Bpc
       THEN Put(f, [r EXCEPT !.at = "copy"]) /\ UNCHANGED fatVars
       ELSE \E nxt \in Number \union {End} :
               /\ GetNxtClus(r.clus, nxt)
               /\ Put(f, IF nxt = End /\ r.wr
                         THEN [r EXCEPT !.at = "alloc", !.then = "copy"]
                         ELSE [r EXCEPT !.at = "copy", !.clus = nxt, !.off = 0])

Alloc(f) ==
    /\ file[f].at = "alloc"
    /\ \E c \in Number :
          /\ AllocCached(c) \/ AllocScan(c)
          /\ Put(f, IF c = 0 /\ file[f].then = "copy"
                    THEN [file[f] EXCEPT !.at = "idle"]
                    ELSE [file[f] EXCEPT !.at = "set", !.nxt = c])
    /\ UNCHANGED <<sz, chain>>

\* _jmpToPtr fills the new cluster with zeros.
Set(f) ==
    LET r == file[f] IN
    /\ r.at = "set"
    /\ SetNxtClus(r.clus, r.nxt)
    /\ Put(f, [r EXCEPT !.at = IF r.then = "jump" /\ r.nxt \in Outer THEN "zero" ELSE r.then,
                        !.clus = r.nxt, !.off = 0, !.nxt = 0,
                        !.cur = IF r.then = "jump" THEN Farest(r) ELSE @])
    /\ chain' = [chain EXCEPT ![f] = IF r.nxt \in Sound THEN Append(@, r.nxt) ELSE @]
    /\ UNCHANGED sz

\* A node that is NULL is used: End, or a number that, extended without its
\* sign, is a cluster behind the end of the disk.
Fault(f) == Put(f, [Opened(f) EXCEPT !.at = "fault"]) /\ UNCHANGED <<fatVars, sz>>

Zero(f) ==
    /\ file[f].at = "zero"
    /\ UNCHANGED chain
    /\ \/ Stray /\ Put(f, [file[f] EXCEPT !.at = "jump"]) /\ UNCHANGED sz
       \/ file[f].clus # Lost /\ Fault(f)

\* The copy of at most a cluster, and the end of the call.  The node of End is
\* used without a test, except by a read.  A difference below zero is large:
\* it is compared as unsigned.
Copy(f) ==
    LET r    == file[f]
        acc  == Min({n \in {Bpc - r.off, r.len, IF r.wr THEN r.len ELSE sz[f] - r.cur} : n >= 0})
        done == /\ Put(f, [r EXCEPT !.at = "idle", !.off = @ + acc, !.cur = @ + acc, !.ptr = @ + acc,
                                    !.len = 0, !.then = "copy"])
                /\ sz' = [sz EXCEPT ![f] = IF r.wr THEN Max({@, r.ptr + acc}) ELSE @] IN
    /\ r.at = "copy"
    /\ UNCHANGED chain
    /\ \/ r.clus \in Cluster \ Outer /\ done /\ UNCHANGED fatVars
       \/ r.clus \in Outer /\ done /\ Stray
       \/ r.clus \notin Cluster \union {Lost} /\ (r.wr \/ r.clus # End) /\ Fault(f)
       \/ /\ r.clus = End /\ ~r.wr
          /\ Put(f, [r EXCEPT !.at = "idle"]) /\ UNCHANGED <<fatVars, sz>>

\* fs_fat32_FileAPI_seek, whose loop starts over at the file's first cluster.
\* What it adds to curPtr and curClusOff is at most fileSz - curPtr, ptr -
\* curPtr and curPtr + (bytesPerClus - curClusOff).
SeekStart(f, ptr) ==
    /\ file[f].at = "idle"
    /\ Put(f, [file[f] EXCEPT !.at = "seek", !.cur = 0, !.off = 0, !.ptr = ptr,
                              !.clus = Head(Chains[f])])
    /\ UNCHANGED <<fatVars, sz, chain>>

SeekStep(f) ==
    LET r == file[f]
        upTo(off) == Min({sz[f] - r.cur, r.ptr - r.cur, r.cur + (Bpc - off)})
        forth(c, off) == Put(f, [r EXCEPT !.clus = c, !.off = off + upTo(off), !.cur = @ + upTo(off)]) IN
    /\ r.at = "seek"
    /\ UNCHANGED <<sz, chain>>
    /\ IF r.cur = r.ptr \/ r.cur >= sz[f]
       THEN Put(f, [r EXCEPT !.at = "idle"]) /\ UNCHANGED fatVars
       ELSE IF r.off # Bpc
       THEN forth(r.clus, r.off) /\ UNCHANGED fatVars
       ELSE \E nxt \in Number \union {End} :
               /\ GetNxtClus(r.clus, nxt)
               /\ IF nxt = End THEN Put(f, [r EXCEPT !.at = "idle"]) ELSE forth(nxt, 0)

FileNext ==
    \E f \in File :
        \/ \E len \in Lens : Read(f, len) \/ Write(f, len)
        \/ \E ptr \in Seeks : SeekStart(f, ptr)
        \/ SeekStep(f) \/ Jump(f) \/ Move(f) \/ Alloc(f) \/ Set(f)
        \/ Zero(f) \/ Copy(f)

FileSpec == FileInit /\ [][FileNext]_fileVars

-----------------------------------------------------------------------------
FileTypeOK ==
    /\ disk \in [Sec -> Sectors]
    /\ DOMAIN cache \subseteq Sec \union {Far}
    /\ \A o \in DOMAIN cache : cache[o] \in Sectors
    /\ fatNum \in 0 .. MaxFat + 1 /\ fatLck \in BOOLEAN
    /\ \A f \in File : /\ file[f].clus \in Number \union {End}
                       /\ file[f].at \in FilePoints
                       /\ file[f].ptr \in 0 .. MaxSz + Max(Lens)
    /\ sz \in [File -> 0 .. MaxSz + Max(Lens)]
    /\ fat \in [Sound -> Number \union {End}]

(***************************************************************************)
(* Whatever sectors of the FAT are removed from the cache and read again,  *)
(* no entry that was written is lost, whatever the files read, write and   *)
(* allocate behind the ends of their chains too: the cache, and the disk   *)
(* for what is not cached, are together what the calls wrote               *)
(* (_crtFatCache).  Not so where FAT1 itself lies under a cluster below 2. *)
(***************************************************************************)
FatCoherent ==
    \A c \in Sound : fat[c] = IF Off(c) \in DOMAIN cache THEN cache[Off(c)][Idx(c)]
                              ELSE disk[Off(c)][Idx(c)]

(***************************************************************************)
(* A cluster is given once: until allocClus scans the disk (and stops      *)
(* every other user of the FAT) no cluster that a file has got, or another *)
(* has on the disk, is given to a file that grows at the same time, even   *)
(* one that has left its chain.                                            *)
(***************************************************************************)
Gets(f) == file[f].at = "set" /\ file[f].nxt \in Sound
Got(f) == ToSet(chain[f]) \union (IF Gets(f) THEN {file[f].nxt} ELSE {})

AllocOnce ==
    ~fatLck => \A f \in File :
        /\ IsInjective(chain[f]) /\ Got(f) \cap Used = {}
        /\ Gets(f) => file[f].nxt \notin ToSet(chain[f])
        /\ \A g \in File \ {f} : Got(f) \cap Got(g) = {}

(***************************************************************************)
(* Between two calls the cluster and the offset a file keeps are those of  *)
(* its pointer, unless it is behind its end: "move curPtr, curClusId, and  *)
(* curClusOff to ptr", the comment of _jmpToPtr, which starts from where   *)
(* FileAPI_seek stopped.                                                   *)
(***************************************************************************)
AtPtr ==
    \A f \in File : LET r == file[f] IN
        r.at = "idle" /\ r.cur = r.ptr /\ r.clus \in Cluster =>
            \E i \in 1 .. Len(chain[f]) : /\ r.clus = chain[f][i]
                                          /\ r.off \in 0 .. Bpc
                                          /\ r.ptr = (i - 1) * Bpc + r.off

(***************************************************************************)
(* "Jumping out of allocated cluster leads to fat32File->curClusId ==      *)
(* fs_fat32_ClusEnd", the comment in FileAPI_read, which ends a read that  *)
(* finds this cluster.                                                     *)
(***************************************************************************)
LeadsToEnd ==
    \A f \in File : LET r == file[f] IN
        r.at = "move" /\ ~r.wr /\ (Len(chain[f]) * Bpc < r.ptr) => r.clus = End
=============================================================================
