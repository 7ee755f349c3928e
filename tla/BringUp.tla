------------------------------- MODULE BringUp -------------------------------
(***************************************************************************)
(* The bring-up of an xHCI and of an NVMe controller beside each other, in *)
(* any order of their steps, whatever each of them offers.                 *)
(***************************************************************************)
EXTENDS Integers

CONSTANTS
    XMaxIntr, NMaxIntr,     \* hw_usb_xhci_Host_mxIntrNum, hw_nvme_Host_mxIntrNum
    MaxSlot,
    XEnv, NEnv              \* what the controllers may be, and the CPUs

\* A controller has a vector and an interrupter at least.
ASSUME BringUpAssumption ==
    /\ XMaxIntr \in Nat \ {0} /\ NMaxIntr \in Nat \ {0, 1} /\ MaxSlot \in Nat
    /\ XEnv \subseteq [cpus : Nat \ {0}, mxIntr : Nat \ {0}, vecNum : Nat \ {0},
                       tp : {"none", "msi", "msix"}]
    /\ NEnv \subseteq [cpus : Nat \ {0}, vecNum : Nat \ {0}, tp : {"none", "msi", "msix"}]

VARIABLES xEnv, xAt, xRun, xHost, nEnv, nAt, nRun, nHost

xVars == <<xEnv, xAt, xRun, xHost>>
nVars == <<nEnv, nAt, nRun, nHost>>

X == INSTANCE XhciInit WITH
         MaxIntr <- XMaxIntr, Env <- XEnv,
         env <- xEnv, at <- xAt, run <- xRun, host <- xHost
N == INSTANCE NvmeInit WITH
         MaxIntr <- NMaxIntr, Env <- NEnv,
         env <- nEnv, at <- nAt, run <- nRun, host <- nHost

UpInit == X!Init /\ N!Init
UpNext == (X!Next /\ UNCHANGED nVars) \/ (N!Next /\ UNCHANGED xVars)
UpSpec == UpInit /\ [][UpNext]_<<xVars, nVars>>

-----------------------------------------------------------------------------
\* The values of both bring-ups.
UpTypeOK == X!TypeOK /\ N!TypeOK

(***************************************************************************)
(* A controller that runs has what the driver lets it use: the interrupter *)
(* of every slot its ring and vector, every queue pair its own and its     *)
(* vector (_initHost of both; X!Armed, N!Armed).                           *)
(***************************************************************************)
Armed == X!Armed /\ N!Armed
=============================================================================
