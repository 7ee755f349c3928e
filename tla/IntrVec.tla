------------------------------ MODULE IntrVec -------------------------------
(***************************************************************************)
(* Interrupt vectors: intr_alloc and intr_free, and the MSI and MSI-X set  *)
(* up of the drivers (interrupt/intr.c, hardware/pci/intr.c, hal's part of *)
(* both).  hw_pci_chk sets the drivers up one after the other, in the      *)
(* order of the PCI list, which is any; a later one takes vectors that one *)
(* that failed gave back, and finds its descriptors in the handler tables. *)
(***************************************************************************)
EXTENDS Integers, Sequences, SequencesExt, FiniteSets, FiniteSetsExt

CONSTANTS
    Cpu,            \* 0 .. cpu_num - 1
    Top,            \* 0x100
    Low, High,      \* the vectors of intr_msk[1]: 0x40 and 0x7f
    Driver,
    Kind,           \* driver -> "msi" or "msix"
    Num             \* driver -> the vectors it asks for

ASSUME VecAssumption ==
    /\ Cpu \in SUBSET Nat /\ Cpu # {}
    /\ Low \in Nat /\ High \in Nat /\ Top \in Nat /\ Low <= High /\ High < Top
    /\ Kind \in [Driver -> {"msi", "msix"}]
    /\ Num \in [Driver -> Nat \ {0}]

VARIABLES
    intr_msk,       \* CPU -> the vectors that are taken
    intr_freeCnt, intr_useCnt,
    hal_intr_desc,  \* CPU -> vector -> the descriptor: a driver and an index
    desc,           \* driver -> its descriptors' CPUs and vectors
    at

intrVars == <<intr_msk, intr_freeCnt, intr_useCnt, hal_intr_desc, desc, at>>

Vec == 0 .. Top - 1
Usable == Low .. High
NoDesc == <<>>

\* hal_intr_initCpuVar.
IntrInit ==
    /\ intr_msk = [c \in Cpu |-> Vec \ Usable]
    /\ intr_freeCnt = [c \in Cpu |-> Cardinality(Usable)]
    /\ intr_useCnt = [c \in Cpu |-> Top - Cardinality(Usable)]
    /\ hal_intr_desc = [c \in Cpu |-> [v \in Usable |-> NoDesc]]
    /\ desc = [d \in Driver |-> <<>>]
    /\ at = [d \in Driver |-> "alloc"]

-----------------------------------------------------------------------------
\* The first CPU with the most free vectors.
BestCpu ==
    CHOOSE c \in Cpu : \A o \in Cpu : \/ intr_freeCnt[c] > intr_freeCnt[o]
                                      \/ intr_freeCnt[c] = intr_freeCnt[o] /\ c <= o

\* Mutant: the last vector of a run is not looked at.
RunsShort(c, n) == {i \in 0 .. Top - n - 1 : i .. i + n - 2 \cap intr_msk[c] = {}}
Runs(c, n) == {i \in 0 .. Top - n - 1 : i .. i + n - 1 \cap intr_msk[c] = {}}

CanAlloc(n) == intr_freeCnt[BestCpu] >= n /\ Runs(BestCpu, n) # {}

\* A call of intr_alloc: all the vectors of an MSI, one of an MSI-X table.
Asked(d) == IF Kind[d] = "msi" THEN Num[d] ELSE 1

\* intr_alloc up to its unlock.
Alloc(d) ==
    LET c == BestCpu
        n == Asked(d)
        v == Min(Runs(c, n)) IN
    /\ at[d] = "alloc" /\ CanAlloc(n)
    /\ intr_msk' = [intr_msk EXCEPT ![c] = @ \union v .. v + n - 1]
    /\ intr_freeCnt' = [intr_freeCnt EXCEPT ![c] = @ - n]
    /\ intr_useCnt' = [intr_useCnt EXCEPT ![c] = @ + n]
    /\ desc' = [desc EXCEPT ![d] = @ \o [i \in 1 .. n |-> [cpu |-> c, vec |-> v + i - 1]]]
    /\ at' = [at EXCEPT ![d] = "set"]
    /\ UNCHANGED hal_intr_desc

\* hal_intr_setInCpuDesc for the vectors of the last call; then the next
\* entry of the MSI-X table, or the message, its gate and the enabling.
Set(d) ==
    LET all == desc[d]
        new == Len(all) - Asked(d) + 1 .. Len(all) IN
    /\ at[d] = "set"
    /\ hal_intr_desc' = [c \in Cpu |-> [v \in Usable |->
           IF \E i \in new : all[i] = [cpu |-> c, vec |-> v]
           THEN <<d, CHOOSE i \in new : all[i] = [cpu |-> c, vec |-> v]>>
           ELSE hal_intr_desc[c][v]]]
    /\ at' = [at EXCEPT ![d] = IF Len(all) = Num[d] THEN "on" ELSE "alloc"]
    /\ UNCHANGED <<intr_msk, intr_freeCnt, intr_useCnt, desc>>

\* No vector: hw_pci_allocMsix gives back what it has got.
NoVector(d) ==
    /\ at[d] = "alloc" /\ ~CanAlloc(Asked(d))
    /\ at' = [at EXCEPT ![d] = "undo"]
    /\ UNCHANGED <<intr_msk, intr_freeCnt, intr_useCnt, hal_intr_desc, desc>>

\* intr_free of one descriptor; the handler table keeps its pointer.
Undo(d) ==
    /\ at[d] = "undo" /\ desc[d] # <<>>
    /\ LET e == Head(desc[d]) IN
          /\ intr_msk' = [intr_msk EXCEPT ![e.cpu] = @ \ {e.vec}]
          /\ intr_freeCnt' = [intr_freeCnt EXCEPT ![e.cpu] = @ + 1]
          /\ intr_useCnt' = [intr_useCnt EXCEPT ![e.cpu] = @ - 1]
    /\ desc' = [desc EXCEPT ![d] = Tail(@)]
    /\ UNCHANGED <<hal_intr_desc, at>>

Undone(d) ==
    /\ at[d] = "undo" /\ desc[d] = <<>>
    /\ at' = [at EXCEPT ![d] = "off"]
    /\ UNCHANGED <<intr_msk, intr_freeCnt, intr_useCnt, hal_intr_desc, desc>>

\* hw_pci_chk: the others are done or have not begun.
Turn(d) ==
    \A o \in Driver \ {d} : \/ at[o] \in {"on", "off"}
                            \/ at[o] = "alloc" /\ desc[o] = <<>>

IntrNext ==
    \E d \in Driver :
        Turn(d) /\ (Alloc(d) \/ Set(d) \/ NoVector(d) \/ Undo(d) \/ Undone(d))

IntrSpec == IntrInit /\ [][IntrNext]_intrVars

-----------------------------------------------------------------------------
IntrTypeOK ==
    /\ intr_msk \in [Cpu -> SUBSET Vec]
    /\ \A c \in Cpu : intr_freeCnt[c] \in 0 .. Top /\ intr_useCnt[c] \in 0 .. Top
    /\ \A d \in Driver : Len(desc[d]) <= Num[d]
    /\ at \in [Driver -> {"alloc", "set", "on", "undo", "off"}]

(***************************************************************************)
(* A vector of a CPU that is taken is taken for one descriptor of one      *)
(* driver, what a failed set up took is free again, the counters say how   *)
(* many are free, and an interrupt of a driver that is set up finds that   *)
(* driver's descriptor, whoever had the vector before (intr_alloc,         *)
(* intr_free, hw_pci_allocMsix, hal_hw_pci_intr_dispatcher).               *)
(***************************************************************************)
Holders(c, v) ==
    UNION {{d} \X {i \in DOMAIN desc[d] : desc[d][i] = [cpu |-> c, vec |-> v]} : d \in Driver}

VectorOwned ==
    \A c \in Cpu :
        /\ intr_freeCnt[c] = Cardinality(Vec \ intr_msk[c])
        /\ intr_useCnt[c] = Cardinality(intr_msk[c])
        /\ \A v \in Usable :
              /\ Cardinality(Holders(c, v)) = IF v \in intr_msk[c] THEN 1 ELSE 0
              /\ \A x \in Holders(c, v) : at[x[1]] = "on" => hal_intr_desc[c][v] = x
=============================================================================
