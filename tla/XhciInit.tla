------------------------------ MODULE XhciInit ------------------------------
(***************************************************************************)
(* The bring-up of an xHCI controller (hardware/usb/xhci/init.c, up to the *)
(* restart): how many interrupters it gets, what each needs before the     *)
(* controller runs, and the steps that may fail.                           *)
(***************************************************************************)
EXTENDS PciMsi

CONSTANTS
    MaxIntr,        \* hw_usb_xhci_Host_mxIntrNum
    MaxSlot,
    Env             \* CPUs, the controller's interrupters, its vectors and
                    \* capability: "none", "msi" or "msix"

VARIABLES
    env,
    at,             \* the step _initHost is at
    run,            \* the controller: "bios" (as it was found), "off", "on"
    host            \* intrNum; the descriptors that have a vector; the
                    \* device's vectors; the interrupters with a ring

initVars == <<env, at, run, host>>

Init ==
    /\ env \in Env
    /\ at = "caps" /\ run = "bios"
    /\ host = [intrNum |-> 0, vecs |-> 0, devVecs |-> 0, rings |-> {}]

Step(from, to) == at = from /\ at' = to

\* The capability lists, the register ranges and what the driver needs.
FindCaps == Step("caps", IF env.tp = "none" THEN "failed" ELSE "regs") /\ UNCHANGED <<env, run, host>>
GetRegs == \E to \in {"stop", "failed"} : Step("regs", to) /\ UNCHANGED <<env, run, host>>

\* Stop, reset, wait: the controller may not obey.
Halt ==
    \E to \in {"count", "failed"} :
        /\ Step("stop", to)
        /\ run' \in (IF to = "failed" THEN {run, "off"} ELSE {"off"})
        /\ UNCHANGED <<env, host>>

\* The driver takes no more than MaxIntr.  Mutant: as many as there are.
CountAll ==
    /\ Step("count", "vectors")
    /\ host' = [host EXCEPT !.intrNum = Min({env.cpus, env.mxIntr})]
    /\ UNCHANGED <<env, run>>
CountIntr ==
    /\ Step("count", "vectors")
    /\ host' = [host EXCEPT !.intrNum = Min({MaxIntr, env.cpus, env.mxIntr})]
    /\ UNCHANGED <<env, run>>

\* The driver asks for as many vectors as the device has.  Mutant: and
\* keeps the number of interrupters.
Ask(n) == Min({env.vecNum, n})
VectorsKeep ==
    LET n == Ask(host.intrNum) IN
    /\ Step("vectors", "enable") /\ MayAlloc(env.vecNum, n)
    /\ host' = [host EXCEPT !.vecs = n, !.devVecs = Programmed(env.tp, n)]
    /\ UNCHANGED <<env, run>>
Vectors ==
    LET n == Ask(host.intrNum) IN
    /\ Step("vectors", "enable") /\ MayAlloc(env.vecNum, n)
    /\ host' = [host EXCEPT !.intrNum = n, !.vecs = n, !.devVecs = Programmed(env.tp, n)]
    /\ UNCHANGED <<env, run>>
NoVectors == Step("vectors", "failed") /\ UNCHANGED <<env, run, host>>

\* INTx off, the messages on; the vectors are not given back on failure.
Enable == \E to \in {"arrays", "failed"} : Step("enable", to) /\ UNCHANGED <<env, run, host>>

\* Device contexts, scratchpads, device arrays, BIOS handoff, command ring.
Arrays == \E to \in {"rings", "failed"} : Step("arrays", to) /\ UNCHANGED <<env, run, host>>

\* One event ring and its table for each interrupter.
Lacking == (0 .. host.intrNum - 1) \ host.rings
EventRing ==
    /\ Lacking # {} /\ Step("rings", "rings")
    /\ host' = [host EXCEPT !.rings = @ \union {Min(Lacking)}]
    /\ UNCHANGED <<env, run>>
NoRing == Lacking # {} /\ Step("rings", "failed") /\ UNCHANGED <<env, run, host>>

Restart == Lacking = {} /\ Step("rings", "done") /\ run' = "on" /\ UNCHANGED <<env, host>>

Next ==
    \/ FindCaps \/ GetRegs \/ Halt \/ CountIntr \/ Vectors \/ NoVectors \/ Enable
    \/ Arrays \/ EventRing \/ NoRing \/ Restart

-----------------------------------------------------------------------------
TypeOK ==
    /\ env \in Env /\ run \in {"bios", "off", "on"}
    /\ host.intrNum \in 0 .. MaxIntr
    /\ host.intrNum <= env.cpus /\ host.intrNum <= env.mxIntr /\ host.vecs <= env.vecNum

(***************************************************************************)
(* While the controller runs, the interrupter of every slot (its number    *)
(* modulo intrNum) and the first one exist, have an event ring, a          *)
(* descriptor with a vector and, if MSI was given a power of two as its    *)
(* definition asks, a vector the device uses: no event is lost for want of *)
(* one of them (_initHost, hw_usb_xhci_devInit's intrTrg).                 *)
(***************************************************************************)
Armed ==
    run = "on" =>
        \A slot \in 0 .. MaxSlot :
            LET i == slot % host.intrNum IN
            /\ i < env.mxIntr /\ i \in host.rings /\ i < host.vecs
            /\ env.tp = "msix" \/ PowerOfTwo(host.intrNum) => i < host.devVecs
=============================================================================
