----------------------------- MODULE MCResources -----------------------------
(***************************************************************************)
(* What the kernel's parts hand out and take back, in one run: memory,     *)
(* interrupt vectors, the queues and rings of the drivers, slots, and the  *)
(* CPUs at boot.  part says which of them the behaviour is about, the      *)
(* others stay as they began.                                              *)
(***************************************************************************)
EXTENDS Slab, MemMap, SmpBoot, IntrVec, XhciRing, XhciDevice, HidParser, Nvme, BringUp, TLC

CONSTANTS Node, Key, Nil
VARIABLES part, tree, key

treeVars == <<tree, key>>
mapVars == <<mapTr, ret>>

\* Two pages besides those of boot: a large block takes one for itself and,
\* the small objects being used up, one for its structure.
SlabBoot == [c \in Class |-> IF c = "small" THEN 1 ELSE 2]
SlabBootCols == [c \in Class |-> 2]
SlabPageCols == [c \in Class |-> IF c = "small" THEN 1 ELSE 2]
SlabMaxShared == [c \in Class |-> IF c = "small" THEN 0 ELSE 3]

Tree == INSTANCE RBTree

\* Four vectors on two CPUs: one driver wants a run of two, two want tables
\* of four, one a table of two, which may follow one of four that failed.
MCKind == [d \in Driver |-> IF d = "a" THEN "msi" ELSE "msix"]
MCNum == [d \in Driver |-> IF d \in {"a", "d"} THEN 2 ELSE 4]

\* A request of one TRB and one of two, on a ring of three and the link.
MCInputSz == [t \in User |-> IF t = "a" THEN 1 ELSE 2]

\* Controllers with few vectors or none, on one CPU and on more than they
\* can use.
MCXEnv == [cpus : 1 .. 4, mxIntr : {1, 2, 4}, vecNum : {1, 2, 4}, tp : {"none", "msi", "msix"}]
MCNEnv == [cpus : 1 .. 5, vecNum : {1, 2, 4}, tp : {"none", "msi", "msix"}]

\* Up to three CPUs besides the one that boots, in any order of the table,
\* some of them not to be enabled, and tables without the boot CPU.
Tables == {<<1, 2, 3, 4>>, <<2, 1, 3>>, <<4, 2, 1, 3>>, <<3, 2>>, <<1>>, <<>>}
MCMadt == {[i \in DOMAIN l |-> [id |-> l[i], ok |-> l[i] \notin off]] :
              l \in Tables, off \in SUBSET (1 .. 4)}

-----------------------------------------------------------------------------
Parts == {"slab", "tree", "map", "intr", "hid", "nvme", "ring", "dev", "xinit", "ninit", "boot"}

\* One environment of the bring-ups that are not the behaviour's.
MCInit ==
    /\ part \in Parts
    /\ SlabInit /\ Tree!Init /\ Init /\ IntrInit /\ HidInit /\ IOInit
    /\ RingInit /\ DevInit /\ UpInit
    /\ BootInit
    /\ part # "xinit" => xEnv = [cpus |-> 1, mxIntr |-> 1, vecNum |-> 1, tp |-> "msi"]
    /\ part # "ninit" => nEnv = [cpus |-> 1, vecNum |-> 1, tp |-> "msi"]
    /\ part # "boot" => madt = <<>>

\* What every part but the one called p keeps.
Others(p) ==
    /\ UNCHANGED part
    /\ p # "slab" => UNCHANGED slabVars
    /\ p # "tree" => UNCHANGED treeVars
    /\ p # "map" => UNCHANGED mapVars
    /\ p # "intr" => UNCHANGED intrVars
    /\ p # "hid" => UNCHANGED hidVars
    /\ p # "nvme" => UNCHANGED nvmeVars
    /\ p # "ring" => UNCHANGED ringVars
    /\ p # "dev" => UNCHANGED devVars
    /\ p # "xinit" => UNCHANGED xVars
    /\ p # "ninit" => UNCHANGED nVars
    /\ p # "boot" => UNCHANGED smpVars

MCNext ==
    \/ part = "slab" /\ SlabNext /\ Others("slab")
    \/ part = "tree" /\ Tree!Next /\ Others("tree")
    \/ part = "map" /\ Next /\ Others("map")
    \/ part = "intr" /\ IntrNext /\ Others("intr")
    \/ part = "hid" /\ HidNext /\ Others("hid")
    \/ part = "nvme" /\ IONext /\ Others("nvme")
    \/ part = "ring" /\ RingNext /\ Others("ring")
    \/ part = "dev" /\ DevNext /\ Others("dev")
    \/ part = "xinit" /\ X!Next /\ Others("xinit")
    \/ part = "ninit" /\ N!Next /\ Others("ninit")
    \/ part = "boot" /\ BootNext /\ Others("boot")

MCSpec ==
    MCInit /\ [][MCNext]_<<part, slabVars, treeVars, mapVars, intrVars, hidVars, nvmeVars,
                           ringVars, devVars, xVars, nVars, smpVars>>

Symmetry == Permutations(Thread)

-----------------------------------------------------------------------------
\* The properties under the names of their modules, each where it can change.
Types ==
    /\ part = "slab" => SlabTypeOK
    /\ part = "tree" => Tree!TypeOK
    /\ part = "map" => TypeOK
    /\ part = "intr" => IntrTypeOK
    /\ part = "hid" => HidTypeOK
    /\ part = "nvme" => IOTypeOK
    /\ part = "ring" => RingTypeOK
    /\ part = "dev" => DevTypeOK
    /\ part \in {"xinit", "ninit"} => UpTypeOK
    /\ part = "boot" => BootTypeOK
Balanced == part = "tree" => Tree!Balanced
FindsGreatest == part = "tree" => Tree!FindsGreatest
IsOrderedList == Tree!IsOrderedList
=============================================================================
