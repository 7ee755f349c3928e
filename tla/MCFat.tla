-------------------------------- MODULE MCFat --------------------------------
(***************************************************************************)
(* The FAT32 driver's three structures in one run: part says which of them *)
(* the behaviour is about, the others stay as they began.                  *)
(***************************************************************************)
EXTENDS FatCache, FatFile, FatEntry, TLC

VARIABLE part

\* The two files begin in different sectors of the FAT and grow in the second;
\* a is short enough to be read behind its end.
MCChains == [f \in File |-> IF f = "a" THEN <<6>> ELSE <<3, 4>>]
MCUsed == Cluster \ {6, 3, 4, 7}

\* Data that looks like a sector of the FAT with one free cluster.
MCData == {[i \in 0 .. SecLen - 1 |-> IF i = 2 THEN 0 ELSE End]}

\* A directory and a file in the root, and a file in the directory.
MCKids == [p \in {"/", "/d"} |-> IF p = "/" THEN {"/d", "/f"} ELSE {"/d/g"}]

MCInit ==
    /\ part \in {"clus", "file", "ent"}
    /\ Init /\ FileInit /\ EntInit

MCNext ==
    \/ part = "clus" /\ Next /\ UNCHANGED <<part, fileVars, entVars>>
    \/ part = "file" /\ FileNext /\ UNCHANGED <<part, vars, entVars>>
    \/ part = "ent" /\ EntNext /\ UNCHANGED <<part, vars, fileVars>>

MCSpec == MCInit /\ [][MCNext]_<<part, vars, fileVars, entVars>>

Symmetry == Permutations(Walker) \union Permutations(EntNode \ {Root})

\* The types of the three
Types == TypeOK /\ FileTypeOK /\ EntTypeOK
=============================================================================
