------------------------------ MODULE XhciDevice -----------------------------
(***************************************************************************)
(* The life of a device on a root port: the port's interrupts, the manager *)
(* thread that each device gets (hw_usb_xhci_devMgrTsk: devInit, the HID   *)
(* driver, uninstallDev) and the controller that answers their commands    *)
(* and transfers (hardware/usb/xhci, hardware/usb/hid/init.c).             *)
(***************************************************************************)
EXTENDS Integers, Sequences, SequencesExt

CONSTANTS
    Dev,            \* the devices that can be allocated, each once
    Slot,           \* the controller's slots
    MaxEve,         \* port events that wait
    MaxPlug,        \* times a device is plugged in
    None

ASSUME DevAssumption == None \notin Dev \union Slot /\ MaxEve \in Nat

VARIABLES
    port,           \* "off", "on" (not enabled), "reset", "enbl"
    plugs,          \* times it was plugged in
    eves,           \* port status change events not yet handled
    hnd,            \* the handler of interrupter 0: port events, commands
    portDev,        \* host->portDev of the port
    hostDev,        \* host->dev: slot -> device
    enbl,           \* the slots the controller has enabled
    refused,        \* slots it refused to disable
    dev,            \* device -> its memory: state, slotId, ctxFlag, epRing
    mgr,            \* device -> its manager: point of the code, signal, wait
    cmds, xfer,     \* device -> its commands and transfer in the rings
    down            \* a handler read through a null or freed pointer

devVars == <<port, plugs, eves, hnd, portDev, hostDev, enbl, refused, dev, mgr, cmds, xfer, down>>

\* The requests of a manager, in order: devInit up to the configuration
\* descriptors, the HID driver's endpoints, and its transfers.  Desc stands
\* for all the descriptors after the first, Input for the driver's requests
\* and its input loop.
Prog == <<"EnblSlot", "AddrDev", "Desc8", "EvalCtx", "Desc",
          "CfgEp", "Input">>
InitEnd == 5
Cmds == {"EnblSlot", "AddrDev", "EvalCtx", "CfgEp", "DisblSlot"}

NoDev == [st |-> "none", slotId |-> None, ctxFlag |-> FALSE, epRing |-> FALSE]
NoMgr == [pc |-> "none", n |-> 1, reqWait |-> 0, res |-> "none", sig |-> FALSE, handler |-> FALSE]

DevInit ==
    /\ port = "off" /\ plugs = 0 /\ eves = 0
    /\ hnd = [pc |-> "idle", dev |-> None]
    /\ portDev = None
    /\ hostDev = [s \in Slot |-> None]
    /\ enbl = {} /\ refused = {}
    /\ dev = [d \in Dev |-> NoDev]
    /\ mgr = [d \in Dev |-> NoMgr]
    /\ cmds = [d \in Dev |-> <<>>] /\ xfer = [d \in Dev |-> FALSE]
    /\ down = FALSE

-----------------------------------------------------------------------------
\* The port: a change of its status posts an event.
PortTo(from, to) ==
    /\ port \in from /\ eves < MaxEve
    /\ port' = to /\ eves' = eves + 1
    /\ UNCHANGED <<hnd, portDev, hostDev, enbl, refused, dev, mgr, cmds, xfer, down>>

Plug ==
    /\ plugs < MaxPlug /\ plugs' = plugs + 1
    /\ \E to \in {"on", "enbl"} : PortTo({"off"}, to)
ResetDone == PortTo({"reset"}, "enbl") /\ UNCHANGED plugs
Unplug == PortTo({"on", "reset", "enbl"}, "off") /\ UNCHANGED plugs

\* hw_usb_xhci_portChange reads the port as it is now.  newDev allocates
\* the device and launches its manager, and returns NULL without memory.
PortConnect ==
    /\ hnd.pc = "idle" /\ eves > 0 /\ port = "enbl"
    /\ eves' = eves - 1
    /\ IF \A d \in Dev : dev[d].st # "none"
       THEN /\ hnd' = [pc |-> "store", dev |-> None]
            /\ UNCHANGED <<dev, mgr>>
       ELSE LET d == CHOOSE x \in Dev : dev[x].st = "none" IN
            /\ hnd' = [pc |-> "store", dev |-> d]
            /\ dev' = [dev EXCEPT ![d].st = "live"]
            /\ mgr' = [mgr EXCEPT ![d].pc = "send"]
    /\ UNCHANGED <<port, plugs, portDev, hostDev, enbl, refused, cmds, xfer, down>>

StorePortDev ==
    /\ hnd.pc = "store"
    /\ portDev' = hnd.dev
    /\ hnd' = [pc |-> "idle", dev |-> None]
    /\ UNCHANGED <<port, plugs, eves, hostDev, enbl, refused, dev, mgr, cmds, xfer, down>>

\* The port is there but not enabled: it is reset.
PortReset ==
    /\ hnd.pc = "idle" /\ eves > 0 /\ port \in {"on", "reset"}
    /\ eves' = eves - 1 /\ port' = "reset"
    /\ UNCHANGED <<plugs, hnd, portDev, hostDev, enbl, refused, dev, mgr, cmds, xfer, down>>

PortDisconnect ==
    /\ hnd.pc = "idle" /\ eves > 0 /\ port = "off"
    /\ eves' = eves - 1
    /\ hnd' = IF portDev = None THEN hnd ELSE [pc |-> "signal", dev |-> portDev]
    /\ UNCHANGED <<port, plugs, portDev, hostDev, enbl, refused, dev, mgr, cmds, xfer, down>>

\* task_signal_send; the device may have been freed since it was read.
SendSignal ==
    /\ hnd.pc = "signal"
    /\ mgr' = [mgr EXCEPT ![hnd.dev].sig = TRUE]
    /\ hnd' = [pc |-> "idle", dev |-> None]
    /\ down' \in (IF dev[hnd.dev].st = "freed" THEN BOOLEAN ELSE {FALSE})
    /\ UNCHANGED <<port, plugs, eves, portDev, hostDev, enbl, refused, dev, cmds, xfer>>

-----------------------------------------------------------------------------
\* hw_usb_xhci_request of the next step: the slot, the first ring and the
\* flags of the endpoints are stored on the way to it.
Send(d) ==
    LET tp == Prog[mgr[d].n] IN
    /\ mgr[d].pc = "send"
    /\ IF tp \in Cmds
       THEN cmds' = [cmds EXCEPT ![d] = Append(@, tp)] /\ UNCHANGED xfer
       ELSE xfer' = [xfer EXCEPT ![d] = TRUE] /\ UNCHANGED cmds
    /\ dev' = [dev EXCEPT ![d].epRing = @ \/ tp = "AddrDev", ![d].ctxFlag = @ \/ tp = "CfgEp"]
    /\ mgr' = [mgr EXCEPT ![d].pc = "wait", ![d].reqWait = @ + 1]
    /\ UNCHANGED <<port, plugs, eves, hnd, portDev, hostDev, enbl, refused, down>>

\* The test behind Desc8 looks at the request of the command before it.
Seen(d) == IF Prog[mgr[d].n] = "Desc8" THEN "succ" ELSE mgr[d].res

\* Where the code goes on: a failed devInit uninstalls, a failed driver
\* stops in hlt, as the manager does when no driver takes the device.
Go(d) ==
    LET n == mgr[d].n IN
    IF Seen(d) # "succ" THEN {IF n <= InitEnd THEN "giveUp" ELSE "hlt"}
    ELSE IF n = InitEnd THEN {"send", "hlt"}
    ELSE {"send"}

RequestReturns(d) ==
    LET n == mgr[d].n
        tp == Prog[n] IN
    /\ mgr[d].pc = "wait" /\ mgr[d].reqWait <= 0
    /\ \E pc \in Go(d) :
          mgr' = [mgr EXCEPT ![d] = [@ EXCEPT
                      !.pc = pc, !.res = "none",
                      !.n = IF n < Len(Prog) THEN n + 1 ELSE n,
                      !.handler = @ \/ (n = InitEnd /\ Seen(d) = "succ")]]
    /\ UNCHANGED <<port, plugs, eves, hnd, portDev, hostDev, enbl, refused, dev, cmds, xfer, down>>

\* task_signal_scan on the way back to the manager, wherever it is; the
\* handler is uninstallDev, which does not return.
Scan(d) ==
    /\ mgr[d].sig /\ mgr[d].handler /\ mgr[d].pc # "gone"
    /\ mgr' = [mgr EXCEPT ![d].sig = FALSE, ![d].pc = "giveUp"]
    /\ UNCHANGED <<port, plugs, eves, hnd, portDev, hostDev, enbl, refused, dev, cmds, xfer, down>>

-----------------------------------------------------------------------------
\* hw_usb_xhci_uninstallDev.  The driver's uninstall does nothing.
Becomes(d, from, to) == mgr[d].pc = from /\ mgr' = [mgr EXCEPT ![d].pc = to]

GiveUp(d, pd) ==
    /\ mgr[d].pc = "giveUp"
    /\ mgr' = [mgr EXCEPT ![d].pc = IF dev[d].ctxFlag THEN "drop" ELSE "rings", ![d].reqWait = 0]
    /\ portDev' = pd
    /\ UNCHANGED <<port, plugs, eves, hnd, hostDev, enbl, refused, dev, cmds, xfer, down>>

\* Mutants: the port keeps the device; a slot is disabled for its driver's
\* sake only.
KeepPortDev(d) == GiveUp(d, portDev)
DisblIfDriven(d) == dev[d].slotId # None /\ dev[d].ctxFlag

ClearPortDev(d) == GiveUp(d, None)

Command(d, tp, from, to) ==
    /\ mgr[d].pc = from
    /\ mgr' = [mgr EXCEPT ![d].pc = to, ![d].reqWait = @ + 1]
    /\ cmds' = [cmds EXCEPT ![d] = Append(@, tp)]
    /\ UNCHANGED <<port, plugs, eves, hnd, portDev, hostDev, enbl, refused, dev, xfer, down>>

Returns(d, from, to) ==
    /\ mgr[d].reqWait <= 0 /\ Becomes(d, from, to)
    /\ UNCHANGED <<port, plugs, eves, hnd, portDev, hostDev, enbl, refused, dev, cmds, xfer, down>>

DropEndpoints(d) == Command(d, "EvalCtx", "drop", "dropped")
Dropped(d) == Returns(d, "dropped", "rings")

\* A ring with load is not freed; its pointer is cleared all the same.
HasSlot(d) == dev[d].slotId # None
FreeRings(d) ==
    /\ Becomes(d, "rings", IF HasSlot(d) THEN "disbl" ELSE "free")
    /\ dev' = [dev EXCEPT ![d].epRing = FALSE]
    /\ UNCHANGED <<port, plugs, eves, hnd, portDev, hostDev, enbl, refused, cmds, xfer, down>>

DisblSlot(d) == Command(d, "DisblSlot", "disbl", "disbld")
Disbld(d) == Returns(d, "disbld", "free")

FreeDev(d) ==
    /\ Becomes(d, "free", "exit")
    /\ dev' = [dev EXCEPT ![d].st = "freed"]
    /\ UNCHANGED <<port, plugs, eves, hnd, portDev, hostDev, enbl, refused, cmds, xfer, down>>

Exit(d) ==
    /\ Becomes(d, "exit", "gone")
    /\ UNCHANGED <<port, plugs, eves, hnd, portDev, hostDev, enbl, refused, dev, cmds, xfer, down>>

Uninstall(d) ==
    \/ ClearPortDev(d) \/ DropEndpoints(d) \/ Dropped(d) \/ FreeRings(d)
    \/ DisblSlot(d) \/ Disbld(d) \/ FreeDev(d) \/ Exit(d)

-----------------------------------------------------------------------------
\* The controller executes a command and the handler of interrupter 0,
\* when it is not at a port event, answers it: CmdCmpl.  The commands of
\* one device keep their order.
Answer(d, res) == mgr' = [mgr EXCEPT ![d].reqWait = @ - 1, ![d].res = res]

CmdFails(d) ==
    /\ hnd.pc = "idle" /\ cmds[d] # <<>>
    /\ cmds' = [cmds EXCEPT ![d] = Tail(@)]
    /\ Answer(d, "fail")
    /\ refused' = IF Head(cmds[d]) = "DisblSlot" THEN refused \union {dev[d].slotId} ELSE refused
    /\ UNCHANGED <<port, plugs, eves, hnd, portDev, hostDev, enbl, dev, xfer, down>>

CmdSucceeds(d) ==
    /\ hnd.pc = "idle" /\ cmds[d] # <<>> /\ Head(cmds[d]) \notin {"EnblSlot", "DisblSlot"}
    /\ cmds' = [cmds EXCEPT ![d] = Tail(@)]
    /\ Answer(d, "succ")
    /\ UNCHANGED <<port, plugs, eves, hnd, portDev, hostDev, enbl, refused, dev, xfer, down>>

\* With the manager's two stores of the slot, which it makes first.
SlotEnabled(d) ==
    /\ hnd.pc = "idle" /\ cmds[d] # <<>> /\ Head(cmds[d]) = "EnblSlot"
    /\ \E s \in Slot \ enbl :
          /\ enbl' = enbl \union {s}
          /\ dev' = [dev EXCEPT ![d].slotId = s]
          /\ hostDev' = [hostDev EXCEPT ![s] = d]
    /\ cmds' = [cmds EXCEPT ![d] = Tail(@)]
    /\ Answer(d, "succ")
    /\ UNCHANGED <<port, plugs, eves, hnd, portDev, refused, xfer, down>>

\* The slot's endpoints end with it.
SlotDisabled(d) ==
    /\ hnd.pc = "idle" /\ cmds[d] # <<>> /\ Head(cmds[d]) = "DisblSlot"
    /\ enbl' = enbl \ {dev[d].slotId}
    /\ xfer' = [x \in Dev |-> xfer[x] /\ dev[x].slotId # dev[d].slotId]
    /\ cmds' = [cmds EXCEPT ![d] = Tail(@)]
    /\ Answer(d, "succ")
    /\ UNCHANGED <<port, plugs, eves, hnd, portDev, hostDev, refused, dev, down>>

\* TransEve, on the interrupter of the slot: the device is found by its
\* slot, and its ring by its pointer.
Transferred(d) ==
    LET o == hostDev[dev[d].slotId] IN
    /\ xfer[d]
    /\ xfer' = [xfer EXCEPT ![d] = FALSE]
    /\ IF dev[o].epRing
       THEN (\E res \in {"succ", "fail"} : Answer(o, res)) /\ UNCHANGED down
       ELSE down' = TRUE /\ UNCHANGED mgr
    /\ UNCHANGED <<port, plugs, eves, hnd, portDev, hostDev, enbl, refused, dev, cmds>>

PortIntr == PortConnect \/ StorePortDev \/ PortReset \/ PortDisconnect \/ SendSignal
Manager(d) == Send(d) \/ RequestReturns(d) \/ Scan(d) \/ Uninstall(d)
Completion(d) ==
    CmdFails(d) \/ CmdSucceeds(d) \/ SlotEnabled(d) \/ SlotDisabled(d) \/ Transferred(d)

DevNext ==
    /\ ~down
    /\ Plug \/ ResetDone \/ Unplug \/ PortIntr \/ \E d \in Dev : Manager(d) \/ Completion(d)

DevSpec == DevInit /\ [][DevNext]_devVars

-----------------------------------------------------------------------------
DevTypeOK ==
    /\ port \in {"off", "on", "reset", "enbl"} /\ eves \in 0 .. MaxEve
    /\ portDev \in Dev \union {None} /\ hostDev \in [Slot -> Dev \union {None}]
    /\ enbl \subseteq Slot /\ refused \subseteq Slot
    /\ \A d \in Dev : dev[d].st \in {"none", "live", "freed"} /\ mgr[d].n \in 1 .. Len(Prog)

(***************************************************************************)
(* The device of a port is NULL or one that is not freed, though its       *)
(* manager runs, may fail and free it before the interrupt that made it    *)
(* has stored it: the answers its first command needs come through the     *)
(* same handler (hw_usb_xhci_portConnect, uninstallDev).                   *)
(***************************************************************************)
PortDevLive == portDev # None => dev[portDev].st = "live"

(***************************************************************************)
(* A slot the controller has enabled belongs to a device that is not       *)
(* freed, or is about to be disabled: whichever step fails and whenever    *)
(* the device is pulled or its signal comes again, the slot goes back,     *)
(* unless the controller refuses (hw_usb_xhci_devInit, uninstallDev).      *)
(***************************************************************************)
SlotsReturned ==
    \A s \in enbl \ refused :
        \E d \in Dev : dev[d].slotId = s /\ (dev[d].st = "live" \/ "DisblSlot" \in ToSet(cmds[d]))
=============================================================================
